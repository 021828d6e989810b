---------------------------- MODULE Conversions ----------------------------
(***************************************************************************)
(* Conversions: base64 and base32 (base64.cpp), UTF-8 (utf8.cpp), runs of  *)
(* zeros, numbers and hexadecimal (misc.cpp, misc.h), URLs (HttpUrl.cpp),  *)
(* names of files (filesystem.cpp, PathView); uint128_emulated, which is   *)
(* two words and must agree with uint128_intrinsic, the compiler's         *)
(* (uint128.h), bits of words (bits.h), pq_factorize (crypto.cpp).  An     *)
(* input grows by one element of its alphabet; what is computed of it is   *)
(* an operator.  A character of base64 and base32 is its value; a word of  *)
(* uint128 has WordBits bits, not 64.                                      *)
(***************************************************************************)
EXTENDS Integers, Sequences, SequencesExt, FiniteSets, TLC

CONSTANTS Subjects,              \* what inputs are: <<subject, beginning, alphabet, length>>
          MaxRun,                \* 250 in x_encode
          SizeT,                 \* 2^64
          Bits,                  \* of the integers that are parsed
          MaxPort,               \* 65535, below 2^(Bits - 1)
          MaxStem, MaxExtension, \* 60 and 20 in clean_filename
          WordBits,              \* of a word of uint128 and bits, even
          Products,              \* what is factorized, below 2^PqBits
          PqBits,                \* 64
          Rounds, Enough,        \* 3 and 1000 in pq_factorize
          Lim                    \* 2^18 and more

VARIABLES subject, input,
          lhs, rhs,              \* the operands of uint128 and bits: [hi, lo]
          pqf                    \* pq_factorize: [pq, i, iter, g, result]
vars == <<subject, input, lhs, rhs, pqf>>

\* the subjects are texts, "uint128", "bits" and "pq"
Is(what) == subject[1] = what

----------------------------------------------------------------------------
\* Texts and their encodings
First(s, chars) == LET found == {i \in DOMAIN s : s[i] \in chars} \cup {Len(s) + 1}
                   IN  CHOOSE i \in found : \A j \in found : i <= j
LastOf(s, chars) == LET found == {i \in DOMAIN s : s[i] \in chars} \cup {0}
                    IN  CHOOSE i \in found : \A j \in found : j <= i
Error == [ok |-> FALSE]
Ok(v) == [ok |-> TRUE, value |-> v]

----------------------------------------------------------------------------
\* base64: groups of 3 bytes and of 4 characters
Pad == 64
Bad == 65
Group(s, n, g) == SubSeq(s, n * (g - 1) + 1, IF n * g < Len(s) THEN n * g ELSE Len(s))
Groups(s, n) == [g \in 1..((Len(s) + n - 1) \div n) |-> Group(s, n, g)]
EncodeGroup(is_url, b) ==
  LET left == Len(b)
      c == b[1] * 65536 + (IF left > 1 THEN b[2] * 256 ELSE 0) + (IF left = 3 THEN b[3] ELSE 0)
      padding == IF is_url THEN <<>> ELSE <<Pad>>
  IN  <<c \div 262144, (c \div 4096) % 64>>
      \o (IF left # 1 THEN <<(c \div 64) % 64>> ELSE padding) \o (IF left = 3 THEN <<c % 64>> ELSE padding)
base64_encode(is_url, s) ==
  LET groups == Groups(s, 3) IN FlattenSeq([g \in DOMAIN groups |-> EncodeGroup(is_url, groups[g])])

NotPadded(s) == SubSeq(s, 1, LastOf(s, 0..63 \cup {Bad}))
WrongLength(is_url, s) ==    \* base64_drop_padding
  LET size == Len(NotPadded(s))
      padding == Len(s) - size
  IN  \/ padding >= 3
      \/ (~is_url \/ padding > 0) /\ Len(s) % 4 # 0
      \/ is_url /\ size % 4 = 1
Allocated(s) == (Len(s) \div 4) * 3 + ((Len(s) % 4) + 1) \div 2
DecodeAny(v) ==
  LET c == [t \in 1..4 |-> IF t <= Len(v) THEN v[t] ELSE 0]
  IN  Ok(SubSeq(<<c[1] * 4 + (c[2] \div 16), (c[2] % 16) * 16 + (c[3] \div 4), (c[3] % 4) * 64 + c[4]>>, 1, Len(v) - 1))
DecodeGroup(v) ==
  LET left == Len(v)
      at(t) == IF t <= left THEN v[t] ELSE 0
      c == at(1) * 262144 + at(2) * 4096 + at(3) * 64 + at(4)
  IN  CASE left = 2 -> IF c % 65536 # 0 THEN Error ELSE Ok(<<c \div 65536>>)
        [] left = 3 -> IF c % 256 # 0 THEN Error ELSE Ok(<<c \div 65536, (c \div 256) % 256>>)
        [] left = 4 -> Ok(<<c \div 65536, (c \div 256) % 256, c % 256>>)
        [] OTHER -> Ok(<<c \div 65536, (c \div 256) % 256>>)
base64_decode(is_url, s) ==
  LET chars == NotPadded(s)
      groups == Groups(chars, 4)
      decoded == [g \in DOMAIN groups |-> DecodeGroup(groups[g])]
  IN  IF WrongLength(is_url, s) \/ Range(chars) \cap {Pad, Bad} # {} \/ \E g \in DOMAIN groups : ~decoded[g].ok THEN Error
      ELSE Ok(FlattenSeq([g \in DOMAIN groups |-> decoded[g].value]))
\* is_base64 looks at the last character only
is_base64(is_url, s) ==
  LET chars == NotPadded(s)
  IN  /\ ~WrongLength(is_url, s) /\ Range(chars) \cap {Pad, Bad} = {}
      /\ Len(chars) % 4 = 2 => Last(chars) % 16 = 0
      /\ Len(chars) % 4 = 3 => Last(chars) % 4 = 0

base64_filter(s) == SelectSeq(s, LAMBDA c : c # Bad)

\* base32: c has 32 bits, and no more than the lowest 12 of them are looked at
Low(c) == c % 4096
base32_encode(s) ==
  LET Step(r, b) == LET c == Low(r.c * 256 + b)
                        length == r.length + 8
                        first == <<(c \div 2 ^ (length - 5)) % 32>>
                        second == IF length >= 10 THEN <<(c \div 2 ^ (length - 10)) % 32>> ELSE <<>>
                    IN  [c |-> c, length |-> length % 5, out |-> r.out \o first \o second]
      r == FoldLeft(Step, [c |-> 0, length |-> 0, out |-> <<>>], s)
  IN  IF r.length = 0 THEN r.out ELSE Append(r.out, (r.c * 2 ^ (5 - r.length)) % 32)
base32_decode(s) ==
  LET Step(r, v) == LET c == Low(r.c * 32 + v)
                        length == r.length + 5
                    IN  IF length >= 8
                        THEN [c |-> c, length |-> length - 8, out |-> Append(r.out, (c \div 2 ^ (length - 8)) % 256)]
                        ELSE [c |-> c, length |-> length, out |-> r.out]
      r == FoldLeft(Step, [c |-> 0, length |-> 0, out |-> <<>>], s)
  IN  IF \E i \in DOMAIN s : s[i] = 32 THEN Error
      ELSE IF r.c % 2 ^ r.length # 0 THEN Error ELSE Ok(r.out)

----------------------------------------------------------------------------
\* UTF-8; bytes are numbers
Follows(b) == b \div 64 = 2
append_utf8_character(ch) ==
  CASE ch < 128 -> <<ch>>
    [] ch \in 128..2047 -> <<192 + (ch \div 64), 128 + (ch % 64)>>
    [] ch \in 2048..65535 -> <<224 + (ch \div 4096), 128 + ((ch \div 64) % 64), 128 + (ch % 64)>>
    [] OTHER -> <<240 + (ch \div 262144), 128 + ((ch \div 4096) % 64), 128 + ((ch \div 64) % 64), 128 + (ch % 64)>>
\* the length is by the bits of the first byte, 0 when it is no first byte
LengthBy(a) == CASE a < 128 -> 1 [] a \div 64 = 2 -> 0 [] a \div 32 = 6 -> 2 [] a \div 16 = 14 -> 3
                 [] a \div 8 = 30 -> 4 [] OTHER -> 0
next_utf8_unsafe(s, p) ==
  LET at(i) == s[p + i] % 64
  IN  CASE LengthBy(s[p]) = 1 -> s[p]
        [] LengthBy(s[p]) = 2 -> (s[p] % 32) * 64 + at(1)
        [] LengthBy(s[p]) = 3 -> (s[p] % 16) * 4096 + at(1) * 64 + at(2)
        [] LengthBy(s[p]) = 4 -> (s[p] % 8) * 262144 + at(1) * 4096 + at(2) * 64 + at(3)
\* one character of check_utf8 at p, by the bits it tests; a zero byte is after the end
FitsAt(s, p) ==
  LET at(i) == IF p + i <= Len(s) THEN s[p + i] ELSE 0
      a == at(0)
      b_20 == (at(1) \div 32) % 2
      b_30 == (at(1) \div 16) % 4
  IN  /\ LengthBy(a) > 0 /\ \A i \in 1..(LengthBy(a) - 1) : Follows(at(i))
      /\ LengthBy(a) = 2 => (a \div 2) % 16 > 0
      /\ LengthBy(a) = 3 => <<a % 16, b_20>> \notin {<<0, 0>>, <<13, 1>>}
      /\ LengthBy(a) = 4 => LET t == (a % 8) * 64 + b_30 * 16 IN 0 < t /\ t < 272
RECURSIVE check_utf8(_, _)
check_utf8(s, p) == p > Len(s) \/ (FitsAt(s, p) /\ check_utf8(s, p + LengthBy(s[p])))

IsFirst(c) == ~Follows(c)
utf8_length(s) == FoldLeft(LAMBDA n, c : n + (IF IsFirst(c) THEN 1 ELSE 0), 0, s)
utf8_utf16_length(s) == FoldLeft(LAMBDA n, c : n + (IF IsFirst(c) THEN 1 ELSE 0) + (IF c \div 8 = 30 THEN 1 ELSE 0), 0, s)
RECURSIVE prev_utf8_unsafe(_, _), TruncateFrom(_, _, _, _)
prev_utf8_unsafe(s, p) == IF IsFirst(s[p - 1]) THEN p - 1 ELSE prev_utf8_unsafe(s, p - 1)
\* length is a size_t: it wraps when a pair takes the last one
TruncateFrom(s, p, length, of_pair) ==
  IF p > Len(s) THEN s
  ELSE IF ~IsFirst(s[p]) THEN TruncateFrom(s, p + 1, length, of_pair)
  ELSE IF length = 0 THEN SubSeq(s, 1, p - 1)
  ELSE TruncateFrom(s, p + 1, (length - (IF s[p] >= 240 THEN of_pair ELSE 1)) % SizeT, of_pair)
utf8_truncate(s, length) == IF Len(s) > length THEN TruncateFrom(s, 1, length, 1) ELSE s
utf8_utf16_truncate(s, length) == TruncateFrom(s, 1, length, 2)
utf8_substr(s, offset) == IF offset = 0 THEN s ELSE SubSeq(s, Len(utf8_truncate(s, offset)) + 1, Len(s))
utf8_utf16_substr(s, offset) == IF offset = 0 THEN s ELSE SubSeq(s, Len(utf8_utf16_truncate(s, offset)) + 1, Len(s))

----------------------------------------------------------------------------
\* zero_encode, zero_one_encode: one of the bytes f and the length of its run
RECURSIVE x_encode(_, _), x_decode(_, _)
x_encode(s, f) ==
  LET run == First(s, {c \in Range(s) : c # s[1]}) - 1
      cnt == IF run < MaxRun THEN run ELSE MaxRun
  IN  IF s = <<>> THEN <<>>
      ELSE IF s[1] \notin f THEN <<s[1]>> \o x_encode(Tail(s), f)
      ELSE <<s[1], cnt>> \o x_encode(SubSeq(s, cnt + 1, Len(s)), f)
x_decode(s, f) ==
  IF s = <<>> THEN <<>>
  ELSE IF Len(s) > 1 /\ s[1] \in f THEN [i \in 1..s[2] |-> s[1]] \o x_decode(SubSeq(s, 3, Len(s)), f)
  ELSE <<s[1]>> \o x_decode(Tail(s), f)
\* a hexadecimal digit is its value, 16 is none
hex_encode(s) == FlattenSeq([i \in DOMAIN s |-> <<s[i] \div 16, s[i] % 16>>])
hex_decode(s) ==
  IF Len(s) % 2 # 0 \/ 16 \in Range(s) THEN Error
  ELSE Ok([i \in 1..(Len(s) \div 2) |-> s[2 * i - 1] * 16 + s[2 * i]])
\* of an unsigned type of Bits
hex_to_integer_safe(s) ==
  FoldLeft(LAMBDA r, digit : IF r = Error \/ digit = 16 THEN Error
                             ELSE IF r.value > (2 ^ Bits - 1) \div 16 THEN Error ELSE Ok(r.value * 16 + digit), Ok(0), s)
\* url_encode: the characters of a URL are those below 128 here; the others become three
url_encode(s) == FlattenSeq([i \in DOMAIN s |-> IF s[i] < 128 THEN <<s[i]>> ELSE <<"%", s[i] \div 16, s[i] % 16>>])

\* narrow_cast_safe between integers of <<bits, signed>>
Into(type, x) == LET r == x % 2 ^ type[1] IN IF type[2] /\ r >= 2 ^ (type[1] - 1) THEN r - 2 ^ type[1] ELSE r
narrow_cast_safe(R, A, a) ==
  LET r == Into(R, a)
  IN  IF Into(A, r) # a \/ (R[2] # A[2] /\ (r < 0) # (a < 0)) THEN Error ELSE Ok(r)

\* split, full_split, implode, trim, oneline
full_split(s, max_parts) ==
  LET Step(parts, c) == IF c = " " /\ Len(parts) < max_parts THEN Append(parts, <<>>)
                        ELSE Append(Front(parts), Append(Last(parts), c))
  IN  IF s = <<>> THEN <<>> ELSE FoldLeft(Step, <<<<>>>>, s)
split(s) == LET p == First(s, {" "}) IN <<SubSeq(s, 1, p - 1), SubSeq(s, p + 1, Len(s))>>
implode(v) == FlattenSeq([i \in DOMAIN v |-> (IF i > 1 THEN <<" ">> ELSE <<>>) \o v[i]])
Spaces == {" ", "newline"}
trim(s) == LET solid == {c \in Range(s) : c \notin Spaces}
           IN  SubSeq(s, First(s, solid), LastOf(s, solid))
oneline(s) ==
  LET Step(r, c) == CASE c = "newline" -> [text |-> Append(r.text, " "), after |-> TRUE]
                      [] c = " " /\ r.after -> r
                      [] OTHER -> [text |-> Append(r.text, c), after |-> FALSE]
      r == FoldLeft(Step, [text |-> <<>>, after |-> TRUE], s).text
  IN  SubSeq(r, 1, LastOf(r, {c \in Range(r) : c # " "}))
\* remove_if, remove: what stays moves down to j
remove_if(v, bad) ==
  LET Step(r, c) == IF c \in bad THEN r ELSE [v |-> [r.v EXCEPT ![r.j + 1] = c], j |-> r.j + 1]
      i == First(v, bad)
      r == FoldLeft(Step, [v |-> v, j |-> i - 1], SubSeq(v, i + 1, Len(v)))
  IN  IF i > Len(v) THEN <<FALSE, v>> ELSE <<TRUE, SubSeq(r.v, 1, r.j)>>

\* to_integer of a signed type; a digit is its value, and so is a letter from 10
MaxInt == 2 ^ (Bits - 1) - 1
Digits(s) == SubSeq(s, 1, First(s, {c \in Range(s) : c \notin {ToString(d) : d \in 0..9}}) - 1)
Value(c) == CHOOSE d \in 0..9 : ToString(d) = c
to_integer(s) ==
  LET negative == s # <<>> /\ s[1] = "-"
      value == FoldLeft(LAMBDA v, c : (v * 10 + Value(c)) % 2 ^ Bits, 0, Digits(IF negative THEN Tail(s) ELSE s))
      other == 2 ^ Bits - value
  IN  CASE value <= MaxInt -> IF negative THEN -value ELSE value
        [] value > MaxInt /\ other > MaxInt -> -MaxInt - 1
        [] OTHER -> IF negative THEN other ELSE -other
RECURSIVE Decimal(_)
Decimal(n) == (IF n >= 10 THEN Decimal(n \div 10) ELSE <<>>) \o <<ToString(n % 10)>>
Printed(n) == IF n < 0 THEN <<"-">> \o Decimal(-n) ELSE Decimal(n)
to_integer_safe(s) == IF Printed(to_integer(s)) # s THEN Error ELSE Ok(to_integer(s))

----------------------------------------------------------------------------
\* A URL: a sequence of characters, with http and https for words
Allowed == {"http", "https", "a", ".", "0", "1", "8"}
HexDigits == {"a", "0", "1", "8"}
RECURSIVE HostOk(_)
HostOk(host) ==
  \/ host = <<>>
  \/ host[1] \in Allowed /\ HostOk(Tail(host))
  \/ /\ host[1] = "%" /\ Len(host) > 2 /\ host[2] \in HexDigits /\ host[3] \in HexDigits
     /\ HostOk(SubSeq(host, 4, Len(host)))
DefaultPort(protocol) == IF protocol = "http" THEN 80 ELSE 443
parse_url(url) ==
  LET word == SubSeq(url, 1, First(url, {":", "/", "?", "@", "[", "]"}) - 1)
      after == SubSeq(url, Len(word) + 1, Len(url))
      has_protocol == IsPrefix(<<":", "/", "/">>, after)
      protocol == IF has_protocol THEN word[1] ELSE "http"
      rest == IF has_protocol THEN SubSeq(after, 4, Len(after)) ELSE url
      userinfo_host_port == SubSeq(rest, 1, First(rest, {"/", "?"}) - 1)
      mark == LastOf(userinfo_host_port, {":", "]", "@"})
      colon == IF mark > 1 THEN userinfo_host_port[mark] = ":" ELSE FALSE
      port == IF colon THEN to_integer(SubSeq(userinfo_host_port, mark + 1, Len(userinfo_host_port))) ELSE 0
      userinfo_host == IF colon THEN SubSeq(userinfo_host_port, 1, mark - 1) ELSE userinfo_host_port
      at_pos == LastOf(userinfo_host, {"@"})
      host == SubSeq(userinfo_host, at_pos + 1, Len(userinfo_host))
      raw == SubSeq(rest, Len(userinfo_host_port) + 1, Len(rest))
      query == SubSeq(raw, 1, LastOf(raw, {c \in Range(raw) : c # " "}))
      slash == IF query = <<>> \/ query[1] # "/" THEN <<"/">> ELSE <<>>
  IN  \* a host in brackets is an error whether or not it is an address: no bracket passes the check of characters
      IF \/ has_protocol /\ word \notin {<<"http">>, <<"https">>}
         \/ port \notin 0..MaxPort \/ host \in {<<>>, <<".">>} \/ ~HostOk(host)
      THEN Error
      ELSE Ok([protocol |-> protocol, userinfo |-> SubSeq(userinfo_host, 1, at_pos - 1), host |-> host,
               specified_port |-> port, port |-> IF port = 0 THEN DefaultPort(protocol) ELSE port,
               query |-> slash \o [i \in DOMAIN query |-> IF query[i] = " " THEN "%20" ELSE query[i]]])
get_url(u) ==
  <<u.protocol, ":", "/", "/">> \o (IF u.userinfo # <<>> THEN Append(u.userinfo, "@") ELSE <<>>) \o u.host
  \o (IF u.specified_port > 0 THEN <<":">> \o Decimal(u.specified_port) ELSE <<>>) \o u.query

----------------------------------------------------------------------------
\* PathView: last_dot_ is not the first character of the name
last_slash(path) == LastOf(path, {"/"})
last_dot(path) ==
  LET dots == {i \in DOMAIN path : path[i] = "." /\ i > last_slash(path) + 1}
  IN  IF dots = {} THEN Len(path) + 1 ELSE CHOOSE i \in dots : \A j \in dots : j <= i
file_stem(path) == SubSeq(path, last_slash(path) + 1, last_dot(path) - 1)
extension(path) == SubSeq(path, last_dot(path) + 1, Len(path))
Root == <<"/">>
parent_dir_noslash(path) ==
  CASE last_slash(path) = 0 -> <<".">> [] last_slash(path) = 1 -> Root [] OTHER -> SubSeq(path, 1, last_slash(path) - 1)
file_name(path) == SubSeq(path, last_slash(path) + 1, Len(path))
relative(path, dir, force) ==
  IF IsPrefix(dir, path) THEN SubSeq(path, Len(dir) + 1, Len(path)) ELSE IF force THEN <<>> ELSE path
dir_and_file(path) ==
  LET before == SubSeq(path, 1, last_slash(path) - 1)
  IN  IF last_slash(path) <= 1 THEN <<>>
      ELSE IF last_slash(before) = 0 THEN <<>> ELSE SubSeq(path, last_slash(before) + 1, Len(path))
get_url_query_file_name(query) ==
  LET path == SubSeq(query, 1, First(query, {"?", "#"}) - 1) IN file_name(path)
\* clean_filename_part: "<" is replaced by a space, "gone" is a character that is dropped
clean_filename_part(name, max_length) ==
  LET Step(new_name, c) ==
        LET code == IF c = "<" THEN " " ELSE c
        IN  IF Len(new_name) >= max_length \/ c = "gone" \/ (new_name = <<>> /\ code \in {" ", "."})
            THEN new_name ELSE Append(new_name, code)
      new_name == FoldLeft(Step, <<>>, name)
  IN  SubSeq(new_name, 1, LastOf(new_name, {c \in Range(new_name) : c \notin {" ", "."}}))
clean_filename(name) ==
  LET filename == clean_filename_part(file_stem(name), MaxStem)
      ext == clean_filename_part(extension(name), MaxExtension)
  IN  IF ext = <<>> THEN filename ELSE IF filename = <<>> THEN ext ELSE filename \o <<".">> \o ext

----------------------------------------------------------------------------
Word == 2 ^ WordBits
Half == WordBits \div 2
U(hi, lo) == [hi |-> hi % Word, lo |-> lo % Word]
Words == 0..(Word - 1)
Zero == U(0, 0)
Signed(x) == IF x >= Word \div 2 THEN x - Word ELSE x

----------------------------------------------------------------------------
\* Words.  Of half a word the processor finds the highest and the lowest bit
BitsOf(x) == {i \in 0..(2 * WordBits) : (x \div 2 ^ i) % 2 = 1}
ScanReverse(x) == CHOOSE i \in BitsOf(x) : \A j \in BitsOf(x) : j <= i
ScanForward(x) == CHOOSE i \in BitsOf(x) : \A j \in BitsOf(x) : i <= j
clz_half(x) == IF x = 0 THEN Half ELSE Half - 1 - ScanReverse(x)
ctz_half(x) == IF x = 0 THEN Half ELSE ScanForward(x)
count_leading_zeroes(x) ==
  IF x \div 2 ^ Half = 0 THEN clz_half(x) + Half ELSE clz_half(x \div 2 ^ Half)
count_trailing_zeroes(x) ==
  IF x % 2 ^ Half = 0 THEN ctz_half(x \div 2 ^ Half) + Half ELSE ctz_half(x % 2 ^ Half)
bits_negate(x) == (Word - 1 - x + 1) % Word
lower_bit(x) == LET same == BitsOf(x) \cap BitsOf(bits_negate(x))
                IN  IF same = {} THEN 0 ELSE CHOOSE n \in Words : BitsOf(n) = same
\* a loop over BitsRange: until the bits are those of end(), which are none
RECURSIVE BitsRange(_)
BitsRange(bits) ==
  IF bits = 0 THEN <<>>
  ELSE LET pos == count_trailing_zeroes(bits) IN <<pos>> \o BitsRange(bits - 2 ^ pos)

----------------------------------------------------------------------------
\* uint128_emulated
add(x, y) == LET res == U(y.hi + x.hi, y.lo + x.lo)
             IN  IF res.lo < x.lo THEN U(res.hi + 1, res.lo) ELSE res
sub(x, y) == U(x.hi - y.hi - (IF y.lo > x.lo THEN 1 ELSE 0), x.lo - y.lo)
shl(x, cnt) ==
  CASE cnt = 0 -> x
    [] cnt \in 1..(WordBits - 1) -> U(x.hi * 2 ^ cnt + x.lo \div 2 ^ (WordBits - cnt), x.lo * 2 ^ cnt)
    [] cnt \in WordBits..(2 * WordBits - 1) -> U(x.lo * 2 ^ (cnt - WordBits), 0)
    [] OTHER -> Zero
shr(x, cnt) ==
  CASE cnt = 0 -> x
    [] cnt \in 1..(WordBits - 1) -> U(x.hi \div 2 ^ cnt, x.lo \div 2 ^ cnt + x.hi * 2 ^ (WordBits - cnt))
    [] cnt \in WordBits..(2 * WordBits - 1) -> U(0, x.hi \div 2 ^ (cnt - WordBits))
    [] OTHER -> Zero
rounded_hi(x) == (x.hi + x.lo \div 2 ^ (WordBits - 1)) % Word
from_signed(n) == IF n >= 0 THEN U(0, n) ELSE U(Word - 1, n)
multOneCross(x, y) ==    \* a mutant: the product of the one half with the other is added once
  LET xl == x.lo % 2 ^ Half
      xh == x.lo \div 2 ^ Half
      yl == y.lo % 2 ^ Half
      yh == y.lo \div 2 ^ Half
  IN  add(U(x.lo * y.hi + x.hi * y.lo + xh * yh, xl * yl), shl(U(0, xl * yh + xh * yl), Half))
mult(x, y) ==
  LET xl == x.lo % 2 ^ Half
      xh == x.lo \div 2 ^ Half
      yl == y.lo % 2 ^ Half
      yh == y.lo \div 2 ^ Half
      res == U(x.lo * y.hi + x.hi * y.lo + xh * yh, xl * yl)
  IN  add(add(res, shl(U(0, xl * yh), Half)), shl(U(0, xh * yl), Half))
leading(x) == IF x.hi = 0 THEN WordBits + count_leading_zeroes(x.lo) ELSE count_leading_zeroes(x.hi)
greater_or_equal(x, y) == x.hi > y.hi \/ (x.hi = y.hi /\ x.lo >= y.lo)
\* the loop of divmod: what is left of from, and the quotient so far
RECURSIVE Divide(_, _, _, _)
Divide(from, other, res, i) ==
  IF i < 0 THEN [div |-> res, mod |-> from]
  ELSE LET part == shl(other, i)
           next == shl(res, 1)
       IN  IF greater_or_equal(from, part) THEN Divide(sub(from, part), other, U(next.hi, next.lo + 1), i - 1)
           ELSE Divide(from, other, next, i - 1)
divmod(x, other) ==
  IF leading(x) > leading(other) THEN [div |-> Zero, mod |-> x]
  ELSE Divide(x, other, Zero, leading(other) - leading(x))
negate(x) == LET res == U(Word - 1 - x.hi, Word - 1 - x.lo + 1)
             IN  IF res.lo = 0 THEN U(res.hi + 1, 0) ELSE res
is_negative(x) == x.hi \div 2 ^ (WordBits - 1) = 1
\* -*quot of the least int64 stays as it is
divmod_signed(x, y) ==
  LET uy == from_signed(y)
      r == divmod(IF is_negative(x) THEN negate(x) ELSE x, IF is_negative(uy) THEN negate(uy) ELSE uy)
  IN  [quot |-> Signed((IF is_negative(x) # (y < 0) THEN -r.div.lo ELSE r.div.lo) % Word),
       rem |-> Signed((IF is_negative(x) THEN -r.mod.lo ELSE r.mod.lo) % Word)]

\* uint128_intrinsic: a number, modulo 2^128
value(x) == x.hi * Word + x.lo
signed_value(x) == IF value(x) >= Word * (Word \div 2) THEN value(x) - Word * Word ELSE value(x)
Agrees(x, n) == value(x) = n % (Word * Word)
Abs(n) == IF n < 0 THEN -n ELSE n
Quotient(n, m) == IF (n < 0) # (m < 0) THEN -(Abs(n) \div Abs(m)) ELSE Abs(n) \div Abs(m)
SignedAgrees(x, y) ==
  LET r == divmod_signed(x, y)
      quot == Quotient(signed_value(x), y)
  IN  r = [quot |-> Signed(quot % Word), rem |-> signed_value(x) - quot * y]

----------------------------------------------------------------------------
\* pq_factorize, in words of PqBits
RECURSIVE gcd(_, _), MultiplyAdd(_, _, _, _), Walk(_, _, _, _, _)
gcd(x, y) ==
  IF x = 0 THEN y ELSE IF y = 0 THEN x
  ELSE IF x % 2 = 0 /\ y % 2 = 0 THEN 2 * gcd(x \div 2, y \div 2)
  ELSE IF x % 2 = 0 THEN gcd(x \div 2, y) ELSE IF y % 2 = 0 THEN gcd(x, y \div 2)
  ELSE IF x > y THEN gcd(x - y, y) ELSE IF y > x THEN gcd(x, y - x) ELSE x
Reduced(n, pq) == LET m == n % 2 ^ PqBits IN IF m >= pq THEN m - pq ELSE m
\* c += a * b
MultiplyAdd(x, y, c, pq) ==
  IF y = 0 THEN c
  ELSE MultiplyAdd(Reduced(x + x, pq), y \div 2, IF y % 2 = 1 THEN Reduced(c + x, pq) ELSE c, pq)
\* the loop on j: the last g and how often it went
Walk(pq, q, x, y, j) ==
  LET next == MultiplyAdd(x, x, q, pq)
      z == (IF next < y THEN pq + next - y ELSE next - y) % 2 ^ PqBits
      g == gcd(z, pq)
  IN  IF g # 1 \/ j + 1 = Lim THEN [g |-> g, iter |-> j]
      ELSE Walk(pq, q, next, IF \E k \in 0..PqBits : j = 2 ^ k THEN next ELSE y, j + 1)
\* one i of the loop, with q and x from the random numbers
Smaller(g, pq) == IF g = 0 THEN 0 ELSE IF pq \div g < g THEN pq \div g ELSE g
Round(q, x) ==
  /\ Is("pq") /\ pqf.result = 0 /\ pqf.pq \in 2..2 ^ (PqBits - 1) /\ (pqf.i < Rounds \/ pqf.iter < Enough)
  /\ LET w == Walk(pqf.pq, q, x, x, 1)
     IN  pqf' = [pqf EXCEPT !.i = @ + 1, !.iter = @ + w.iter, !.g = w.g,
                        !.result = IF w.g > 1 /\ w.g < pqf.pq THEN Smaller(w.g, pqf.pq) ELSE 0]
  /\ UNCHANGED <<subject, input, lhs, rhs>>
GiveUp ==
  /\ Is("pq") /\ pqf.result = 0
  /\ pqf' = [pqf EXCEPT !.result = IF pqf.pq < 2 \/ pqf.pq > 2 ^ (PqBits - 1) THEN 1 ELSE Smaller(pqf.g, pqf.pq)]
  /\ pqf.pq < 2 \/ pqf.pq > 2 ^ (PqBits - 1) \/ (pqf.i >= Rounds /\ pqf.iter >= Enough)
  /\ UNCHANGED <<subject, input, lhs, rhs>>

----------------------------------------------------------------------------
Init ==
  /\ subject \in Subjects /\ input = subject[2] /\ rhs = Zero
  /\ \E n \in (IF Is("uint128") \/ Is("bits") THEN Words ELSE {0}), h \in (IF Is("uint128") THEN Words ELSE {0}) : lhs = U(h, n)
  /\ \E pq \in (IF Is("pq") THEN Products ELSE {0}) : pqf = [pq |-> pq, i |-> 0, iter |-> 0, g |-> 0, result |-> 0]
Extend == /\ Len(input) < subject[4] /\ \E c \in subject[3] : input' = Append(input, c)
          /\ UNCHANGED <<subject, lhs, rhs, pqf>>
Operand == /\ Is("uint128") /\ rhs = Zero /\ \E hi, lo \in Words : rhs' = U(hi, lo)
           /\ UNCHANGED <<subject, input, lhs, pqf>>
Next == \/ Extend \/ Operand \/ GiveUp
        \/ \E q \in {r % (pqf.pq - 1) : r \in IF pqf.pq < 2 THEN {} ELSE 17..32}, x \in 1..(pqf.pq - 1) : Round(q, x)
Spec == Init /\ [][Next]_vars

----------------------------------------------------------------------------

(* What is encoded is decoded to itself; what is decoded is the one text   *)
(* that encodes it, but for its padding, and fills the string that was     *)
(* allocated; is_base64 accepts exactly what base64_decode does.           *)
Base64IsExact == \A is_url \in BOOLEAN :
  /\ Is("bytes") => base64_decode(is_url, base64_encode(is_url, input)) = Ok(input)
  /\ Is("base64") =>
       LET decoded == base64_decode(is_url, input)
       IN  /\ decoded.ok = is_base64(is_url, input)
           /\ decoded.ok => /\ Len(decoded.value) = Allocated(NotPadded(input))
                            /\ NotPadded(base64_encode(is_url, decoded.value)) = NotPadded(input)
(* base32, the encodings of runs and hexadecimal are undone too; a number  *)
(* in hexadecimal is refused when a digit or the number does not fit.      *)
BytesAreKept ==
  /\ Is("bytes") => /\ base32_decode(base32_encode(input)) = Ok(input)
                    /\ \A f \in {{0}, {0, 255}} : x_decode(x_encode(input, f), f) = input
                    /\ hex_decode(hex_encode(input)) = Ok(input)
                    /\ Len(url_encode(input)) = Len(input) + 2 * Len(SelectSeq(input, LAMBDA c : c >= 128))
  /\ Is("hex") => /\ hex_decode(input).ok => hex_encode(hex_decode(input).value) = input
                  /\ LET r == hex_to_integer_safe(input)
                         fits == {x \in 0..(2 ^ Bits - 1) : FoldLeft(LAMBDA v, d : v * 16 + d, 0, input) = x}
                     IN  IF 16 \in Range(input) \/ fits = {} THEN r = Error ELSE r = Ok(CHOOSE x \in fits : TRUE)
  /\ Is("base64") => base64_filter(base64_filter(input)) = base64_filter(input) /\ Bad \notin Range(base64_filter(input))

(* base32_decode gives the bytes that the bits of the text begin with, and *)
(* accepts the text when the bits beyond those, 7 at most, are zero.  So   *)
(* it accepts more than base32_encode returns, one character more: a last  *)
(* one of zeros that no byte needs.                                        *)
Bit32(s, n) == (s[(n - 1) \div 5 + 1] \div 2 ^ (4 - ((n - 1) % 5))) % 2
Base32IsExact ==
  Is("base32") =>
    LET bytes == (5 * Len(input)) \div 8
        Byte(k) == FoldLeft(LAMBDA v, n : 2 * v + Bit32(input, 8 * k - 8 + n), 0, [n \in 1..8 |-> n])
        decoded == base32_decode(input)
    IN  /\ decoded.ok = (32 \notin Range(input) /\ \A n \in (8 * bytes + 1)..(5 * Len(input)) : Bit32(input, n) = 0)
        /\ decoded.ok => /\ decoded.value = [k \in 1..bytes |-> Byte(k)]
                         /\ input \in {base32_encode(decoded.value), Append(base32_encode(decoded.value), 0)}

(* check_utf8 accepts the encodings of code points, each in its shortest   *)
(* form and no surrogates, and nothing else; it is cut between characters, *)
(* where it was asked to be when such a place is there; what is cut off is *)
(* what utf8_substr returns.                                               *)
RECURSIVE IsUtf8(_)
IsUtf8(s) ==
  s = <<>> \/ LET n == LengthBy(s[1])
                  code == next_utf8_unsafe(s, 1)
              IN  IF n = 0 \/ n > Len(s) THEN FALSE
                  ELSE /\ append_utf8_character(code) = SubSeq(s, 1, n)
                       /\ code \notin 55296..57343 /\ code <= 1114111
                       /\ IsUtf8(SubSeq(s, n + 1, Len(s)))
Utf8IsExact ==
  Is("utf8") =>
    /\ check_utf8(input, 1) = IsUtf8(input)
    /\ check_utf8(input, 1) => \A n \in 0..3 :
         LET wholes == {SubSeq(input, 1, k) : k \in {k \in 0..Len(input) : check_utf8(SubSeq(input, 1, k), 1)}}
             cut == utf8_truncate(input, n)
             cut16 == utf8_utf16_truncate(input, n)
         IN  /\ {cut, cut16} \subseteq wholes
             /\ utf8_length(cut) = IF utf8_length(input) < n THEN utf8_length(input) ELSE n
             /\ \A w \in wholes : utf8_utf16_length(w) = n => cut16 = w
             /\ cut \o utf8_substr(input, n) = input \/ n = 0
             /\ cut16 \o utf8_utf16_substr(input, n) = input \/ n = 0
             /\ \A w \in wholes \ {<<>>} :
                  LET p == prev_utf8_unsafe(w, Len(w) + 1)
                  IN  append_utf8_character(next_utf8_unsafe(w, p)) = SubSeq(w, p, Len(w))

(* utf8_utf16_truncate "truncates UTF-8 string to the given length given   *)
(* in UTF-16 code units", or to one more when a pair is cut.               *)
TruncatesToLength ==
  Is("utf8") => (check_utf8(input, 1) => \A n \in 0..3 : utf8_utf16_length(utf8_utf16_truncate(input, n)) <= n + 1)

(* to_integer_safe gives the number that is written, when it is in range   *)
(* and is written as it would be printed, and an error otherwise.          *)
NumbersAreExact ==
  Is("number") =>
    LET fits == {n \in (-MaxInt - 1)..MaxInt : Printed(n) = input}
    IN  IF fits = {} THEN ~to_integer_safe(input).ok ELSE to_integer_safe(input) = Ok(CHOOSE n \in fits : TRUE)

(* narrow_cast_safe gives the number when the type has it, an error when   *)
(* it does not.                                                            *)
CastsAreExact ==
  Is("cast") /\ input # <<>> =>
    LET types == {Bits, 2 * Bits} \X BOOLEAN
        Has(type, x) == Into(type, x) = x
    IN  \A R, A \in types : Has(A, input[1]) =>
          narrow_cast_safe(R, A, input[1]) = IF Has(R, input[1]) THEN Ok(input[1]) ELSE Error

(* The parts of a text are joined to it; what is trimmed has no space at   *)
(* its ends, one line has no end of line and loses nothing but spaces; what *)
(* stays after a removal stays in its order.                               *)
WordsAreKept ==
  Is("words") =>
    /\ \A n \in 1..3 : Len(full_split(input, n)) <= n /\ implode(full_split(input, n)) = input
    /\ LET halves == split(input)
       IN  IF " " \in Range(input) THEN full_split(input, 2) = halves ELSE halves = <<input, <<>>>>
    /\ trim(input) # <<>> => {Head(trim(input)), Last(trim(input))} \cap Spaces = {}
    /\ LET line == oneline(input) IN /\ "newline" \notin Range(line) /\ (line = <<>> \/ Last(line) # " ")
                                     /\ \A r \in {trim(input), line} : remove_if(r, Spaces)[2] = remove_if(input, Spaces)[2]
    /\ \A bad \in SUBSET {"a", " "} :
         remove_if(input, bad) = <<bad \cap Range(input) # {}, SelectSeq(input, LAMBDA c : c \notin bad)>>

(* A URL that is accepted is printed as one that is parsed to the same.    *)
UrlsAreStable == Is("url") => LET url == parse_url(input) IN url.ok => parse_url(get_url(url.value)) = url
(* parse_url accepts [https?://][userinfo@]host[:port], followed by        *)
(* nothing or by a query: a scheme that is written is one of the two; the  *)
(* host has one character at least, is not ".", and has only letters,      *)
(* digits and marks, never a bracket, so that every IPv6 address is        *)
(* refused; userinfo may be anything.  The port is what the digits it      *)
(* begins with are worth as an int: what follows them is overlooked, and a *)
(* number too large for an int wraps and may be accepted.                  *)
Lacks(s, chars) == Range(s) \cap chars = {}
IsScheme(s) == \E n \in {Len(s) - 3} : n >= 0 /\ SubSeq(s, n + 1, Len(s)) = <<":", "/", "/">>
                                       /\ Lacks(SubSeq(s, 1, n), {":", "/", "?", "@", "[", "]"})
IsUserinfo(s) == s = <<>> \/ Last(s) = "@"
IsHost(s) ==
  /\ s \notin {<<>>, <<".">>} /\ Range(s) \subseteq Allowed \cup {"%"}
  /\ \A i \in DOMAIN s : s[i] = "%" => Len(s) >= i + 2 /\ {s[i + 1], s[i + 2]} \subseteq HexDigits
IsPort(s) ==
  \/ s = <<>>
  \/ /\ s[1] = ":" /\ Lacks(Tail(s), {":", "@", "]"})
     /\ FoldLeft(LAMBDA v, c : v * 10 + Value(c), 0, Digits(Tail(s))) % 2 ^ Bits \in 0..MaxPort
UrlsAreExact ==
  Is("url") =>
    LET Piece(i, j) == SubSeq(input, i + 1, j)
        schemes == {n \in 0..Len(input) : IsScheme(Piece(0, n))}
        IsUrl == \E a \in 0..Len(input) : \E d \in a..Len(input) :
          /\ IF schemes = {} THEN a = 0 ELSE a \in schemes /\ input[1] \in {"http", "https"} /\ a = 4
          /\ Lacks(Piece(a, d), {"/", "?"}) /\ (d = Len(input) \/ input[d + 1] \in {"/", "?"})
          /\ \E b \in a..d : IsUserinfo(Piece(a, b))
                /\ \E c \in b..d : IsHost(Piece(b, c)) /\ IsPort(Piece(c, d))
    IN  parse_url(input).ok = IsUrl

(* A clean name has nothing to clean, and is no longer than its parts; a   *)
(* path is its directory and its name, and the last two names of it are.   *)
NamesAreClean ==
  Is("name") =>
    /\ LET name == clean_filename(input)
       IN  /\ {"/", "<", "gone"} \cap Range(name) = {} /\ Len(name) <= MaxStem + 1 + MaxExtension
           /\ name # <<>> => name[1] \notin {" ", "."} /\ Last(name) \notin {" ", "."}
    /\ LET dir == parent_dir_noslash(input)
           full == dir_and_file(input)
       IN  /\ dir \notin {<<".">>, Root} => relative(input, dir, TRUE) = <<"/">> \o file_name(input)
           /\ full # <<>> => /\ IsSuffix(full, input) /\ file_name(full) = file_name(input)
                             /\ full[1] # "/" => parent_dir_noslash(full) = file_name(dir)
           /\ get_url_query_file_name(input) = file_name(input)

(* The two classes named uint128 give one result, whichever the compiler   *)
(* has: with carries, borrows, shifts by any number, and for every sign.   *)
EmulatedAgrees ==
  Is("uint128") =>
    /\ Agrees(add(lhs, rhs), value(lhs) + value(rhs)) /\ Agrees(sub(lhs, rhs), value(lhs) - value(rhs))
    /\ Agrees(mult(lhs, rhs), value(lhs) * value(rhs)) /\ Agrees(mult(lhs, from_signed(Signed(rhs.lo))), value(lhs) * Signed(rhs.lo))
    /\ rhs.hi = 0 => \A cnt \in {rhs.lo} : Agrees(shl(lhs, cnt), value(lhs) * 2 ^ cnt) /\ Agrees(shr(lhs, cnt), value(lhs) \div 2 ^ cnt)
    /\ rounded_hi(lhs) = ((value(lhs) + Word \div 2) \div Word) % Word
    /\ rhs # Zero => LET r == divmod(lhs, rhs) IN value(r.div) = value(lhs) \div value(rhs) /\ value(r.mod) = value(lhs) % value(rhs)
    /\ rhs.hi = 0 /\ rhs.lo # 0 /\ ~(signed_value(lhs) = -Word * (Word \div 2) /\ Signed(rhs.lo) = -1) => SignedAgrees(lhs, Signed(rhs.lo))
(* The lowest bit is where the loop over bits begins, and the loop visits  *)
(* every bit once, the lowest first; leading zeroes end at the last.       *)
BitsAgree ==
  Is("bits") =>
    LET visited == BitsRange(lhs.lo)
    IN  /\ {visited[i] : i \in DOMAIN visited} = BitsOf(lhs.lo)
        /\ \A i \in 2..Len(visited) : visited[i - 1] < visited[i]
        /\ IF visited = <<>> THEN lower_bit(lhs.lo) = 0 /\ count_leading_zeroes(lhs.lo) = WordBits
           ELSE lower_bit(lhs.lo) = 2 ^ visited[1] /\ count_leading_zeroes(lhs.lo) = WordBits - 1 - visited[Len(visited)]
(* pq_factorize gives the smaller of two factors, or 1, for every product  *)
(* and all random numbers, also when doubling uses the highest bit; the    *)
(* caller can divide by what it gets.                                      *)
FactorDivides == pqf.result # 0 => (pqf.pq % pqf.result = 0 /\ pqf.result * pqf.result <= pqf.pq) \/ (pqf.pq = 0 /\ pqf.result = 1)
============================================================================

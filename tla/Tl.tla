--------------------------------- MODULE Tl ---------------------------------
(***************************************************************************)
(* Serialization (tl_storers.h, tl_parsers.h, tl_helpers.h): the length of *)
(* an object is computed, its bytes are stored, and a parser reads them    *)
(* back, or whatever became of them.  A byte has Byte values, so a string  *)
(* may be shorter than Byte - 2, than Byte^3, or longer.                   *)
(***************************************************************************)
EXTENDS Integers, Sequences, SequencesExt

CONSTANTS Byte,      \* 256
          Objects    \* <<type, value>>

VARIABLES object, bytes, damage, result
vars == <<object, bytes, damage, result>>
Init == object \in Objects /\ bytes = <<>> /\ damage = "not stored" /\ result = <<>>

Align(n) == ((n + 3) \div 4) * 4
\* n bytes of a number, the lowest first, and back
RECURSIVE BytesOf(_, _), NumberOf(_)
BytesOf(x, n) == IF n = 0 THEN <<>> ELSE <<x % Byte>> \o BytesOf(x \div Byte, n - 1)
NumberOf(s) == IF s = <<>> THEN 0 ELSE Head(s) + Byte * NumberOf(Tail(s))

----------------------------------------------------------------------------
\* TlStorerUnsafe and TlStorerCalcLength
store_string(str) ==
  LET len == Len(str)
      head == IF len < Byte - 2 THEN <<len>>
              ELSE IF len < Byte * Byte * Byte THEN <<Byte - 2>> \o BytesOf(len, 3)
              ELSE <<Byte - 1>> \o BytesOf(len, 4) \o <<0, 0, 0>>
      size == IF len < Byte - 2 THEN len + 1 ELSE len
      padding == CASE size % 4 = 1 -> <<0, 0, 0>> [] size % 4 = 2 -> <<0, 0>> [] size % 4 = 3 -> <<0>> [] OTHER -> <<>>
  IN  head \o str \o padding
calc_string_of(str) == Align(Len(str) + (IF Len(str) < Byte - 1 THEN 1 ELSE 4))
calc_string(str) ==
  Align(Len(str) + (IF Len(str) < Byte - 2 THEN 1 ELSE IF Len(str) < Byte * Byte * Byte THEN 4 ELSE 8))

\* bits of the flags, the first the lowest
RECURSIVE Flags(_)
Flags(bits) == IF bits = <<>> THEN 0 ELSE (IF Head(bits) THEN 1 ELSE 0) + 2 * Flags(Tail(bits))

\* store() of tl_helpers.h; a variant is <<offset, value>>
RECURSIVE store(_, _), calc_length(_, _)
store(type, x) ==
  CASE type.kind = "int" -> BytesOf(x, 4)
    [] type.kind = "long" -> BytesOf(x, 8)
    [] type.kind = "flags" -> BytesOf(Flags(x), 4)
    [] type.kind = "string" -> store_string(x)
    [] type.kind = "vector" -> BytesOf(Len(x), 4) \o FlattenSeq([i \in DOMAIN x |-> store(type.of[1], x[i])])
    [] type.kind = "pair" -> store(type.of[1], x[1]) \o store(type.of[2], x[2])
    [] type.kind = "variant" -> BytesOf(x[1], 4) \o store(type.of[x[1] + 1], x[2])
calc_length(type, x) ==
  CASE type.kind \in {"int", "flags"} -> 4
    [] type.kind = "long" -> 8
    [] type.kind = "string" -> calc_string(x)
    [] type.kind = "vector" -> FoldSeq(LAMBDA y, n : n + calc_length(type.of[1], y), 4, x)
    [] type.kind = "pair" -> calc_length(type.of[1], x[1]) + calc_length(type.of[2], x[2])
    [] type.kind = "variant" -> 4 + calc_length(type.of[x[1] + 1], x[2])

----------------------------------------------------------------------------
\* TlParser; over: something outside of the data was read
empty_data == [i \in 1..32 |-> 0]
Parser(s) == [data |-> s, pos |-> 0, data_len |-> Len(s), left_len |-> Len(s), error |-> FALSE, over |-> FALSE]
set_error(p) == [p EXCEPT !.data = empty_data, !.pos = 0, !.data_len = 0, !.left_len = 0, !.error = TRUE]
check_len(p, len) == IF p.left_len < len THEN set_error(p) ELSE [p EXCEPT !.left_len = @ - len]
Bytes(p, from, n) == [i \in 1..n |-> IF p.pos + from + i <= Len(p.data) THEN p.data[p.pos + from + i] ELSE 0]
Reads(p, n) == [p EXCEPT !.over = @ \/ p.pos + n > Len(p.data)]
Moves(p, n) == [p EXCEPT !.pos = @ + n]
Got(value, p) == [value |-> value, parser |-> p]
fetch_number(p, n) == LET q == check_len(p, n) IN Got(NumberOf(Bytes(q, 0, n)), Moves(Reads(q, n), n))

fetch_string(p) ==
  LET q == check_len(p, 4)
      first == Bytes(q, 0, 1)[1]
      long == check_len(q, 4)
      head == CASE first < Byte - 2 -> [parser |-> q, len |-> first, begin |-> 1, size |-> 4]
                [] first = Byte - 2 -> [parser |-> q, len |-> NumberOf(Bytes(q, 1, 3)), begin |-> 4, size |-> 4]
                [] OTHER -> [parser |-> long, len |-> NumberOf(Bytes(long, 1, 7)), begin |-> 8, size |-> 8]
      aligned == IF head.begin = 1 THEN (head.len \div 4) * 4 ELSE Align(head.len)
      checked == check_len(Moves(Reads(head.parser, head.size), head.size), aligned)
      str == Bytes(checked, head.begin - head.size, head.len)
  IN  IF checked.error THEN Got(<<>>, checked)
      ELSE Got(str, Moves(Reads(checked, head.begin - head.size + head.len), aligned))

\* parse() of tl_helpers.h
RECURSIVE parse(_, _), parse_elements(_, _, _, _)
parse_elements(type, n, vec, p) ==
  IF n = 0 THEN Got(vec, p)
  ELSE LET val == parse(type, p) IN parse_elements(type, n - 1, Append(vec, val.value), val.parser)
parse(type, p) ==
  LET number == fetch_number(p, 4)
      first == parse(type.of[1], p)
      second == parse(type.of[2], first.parser)
      chosen == parse(type.of[number.value + 1], number.parser)
  IN  CASE type.kind = "int" -> number
        [] type.kind = "long" -> fetch_number(p, 8)
        [] type.kind = "flags" ->
             Got([i \in 1..type.bits |-> (number.value \div 2 ^ (i - 1)) % 2 = 1],
                 IF number.value >= 2 ^ type.bits THEN set_error(number.parser) ELSE number.parser)
        [] type.kind = "string" -> fetch_string(p)
        [] type.kind = "vector" ->
             IF number.parser.left_len < number.value THEN Got(<<>>, set_error(number.parser))
             ELSE parse_elements(type.of[1], number.value, <<>>, number.parser)
        [] type.kind = "pair" -> Got(<<first.value, second.value>>, second.parser)
        [] type.kind = "variant" ->
             IF number.value >= Len(type.of) THEN Got(<<>>, set_error(number.parser))
             ELSE Got(<<number.value, chosen.value>>, chosen.parser)
fetch_end(p) == IF p.left_len > 0 THEN set_error(p) ELSE p

----------------------------------------------------------------------------
serialize == /\ damage = "not stored" /\ bytes' = store(object[1], object[2]) /\ damage' = "none"
             /\ UNCHANGED <<object, result>>
\* what may become of the bytes on their way
Damage ==
  /\ damage = "none" /\ result = <<>>
  /\ \/ damage' = "cut" /\ \E n \in 0..(Len(bytes) - 1) : bytes' = SubSeq(bytes, 1, n)
     \/ damage' = "longer" /\ \E b \in 0..(Byte - 1) : bytes' = Append(bytes, b)
     \/ damage' = "changed" /\ \E i \in DOMAIN bytes, b \in 0..(Byte - 1) : bytes' = [bytes EXCEPT ![i] = b]
  /\ UNCHANGED <<object, result>>
unserialize ==
  /\ damage # "not stored" /\ result = <<>>
  /\ LET parsed == parse(object[1], Parser(bytes)) IN result' = <<parsed.value, fetch_end(parsed.parser)>>
  /\ UNCHANGED <<object, bytes, damage>>
Next == serialize \/ Damage \/ unserialize
Spec == Init /\ [][Next]_vars

----------------------------------------------------------------------------
(* The bytes that are stored fill what was allocated for them, no more and *)
(* no less: the CHECK of serialize().                                      *)
LengthIsExact == damage = "none" => Len(bytes) = calc_length(object[1], object[2])

(* What was stored is read back, to the end; a serialization that has lost *)
(* its end, or has something after it, is an error.                        *)
ReadsBack ==
  result # <<>> =>
    /\ damage = "none" => ~result[2].error /\ result[1] = object[2]
    /\ damage \in {"cut", "longer"} => result[2].error

(* Whatever the bytes are, the parser reads nothing outside of them (after *)
(* an error, outside of empty_data), and gives no more than they can hold. *)
StaysInside ==
  result # <<>> =>
    /\ ~result[2].over /\ result[2].left_len <= result[2].data_len
    /\ ~result[2].error => calc_length(object[1], result[1]) <= Len(bytes)
============================================================================

-------------------------------- MODULE Json --------------------------------
(***************************************************************************)
(* JSON (JsonBuilder.h, JsonBuilder.cpp): the scopes that write a value    *)
(* and the decoder that reads it.  A text is a sequence of symbols: the    *)
(* characters of the syntax, the words true, false and null, runs of four  *)
(* hexadecimal digits, and letters.  A character of a string is a sequence *)
(* too: one symbol when it is ASCII, the UTF-16 code units when it is not. *)
(***************************************************************************)
EXTENDS Integers, Sequences, SequencesExt

CONSTANTS Texts,           \* the texts to decode: [begin, symbols, more], what is added to a beginning
          MaxDepth,        \* 100 in json_decode
          Strings, Keys,   \* strings that are written, as sequences of characters
          MaxParts         \* scopes and values written

Words == {"true", "false", "null"}
Quads == {"D83D", "DE00", "DC3D", "00E9"}
IsSurrogate(quad) == quad \in {"D83D", "DE00", "DC3D"}
\* the lowest ten bits count, so either half of a pair may be the wrong one
AsLow(quad) == IF quad = "D83D" THEN "DC3D" ELSE quad

VARIABLES source,   \* one of Texts
          input,    \* a text to decode
          scopes,   \* the scopes that are alive: [type, was, items]
          sb,       \* what the StringBuilder has
          pretty,
          root,     \* the value written, <<>> before it is complete
          parts
vars == <<source, input, scopes, sb, pretty, root, parts>>
Init == source \in Texts /\ input = source.begin
        /\ scopes = <<>> /\ sb = <<>> /\ pretty \in BOOLEAN /\ root = <<>> /\ parts = 0

----------------------------------------------------------------------------
\* Parser: a text and a position in it
Error == [ok |-> FALSE]
Ok(value, pos) == [ok |-> TRUE, value |-> value, pos |-> pos]
peek_char(text, p) == IF p > Len(text) THEN "end" ELSE text[p]
RECURSIVE skip_whitespaces(_, _)
skip_whitespaces(text, p) == IF peek_char(text, p) = " " THEN skip_whitespaces(text, p + 1) ELSE p
try_skip(text, p, symbol) == peek_char(text, p) = symbol

\* the closing quote, or a position past the end
RECURSIVE ClosingQuote(_, _)
ClosingQuote(text, p) ==
  CASE peek_char(text, p) \in {"end", "\""} -> p
    [] peek_char(text, p) = "\\" -> ClosingQuote(text, p + 2)
    [] OTHER -> ClosingQuote(text, p + 1)

Plain(symbol) == IF symbol \in Quads THEN <<symbol, "as text">> ELSE <<symbol>>
\* \u at p: what it stands for and what follows; the second half of a pair is
\* taken when it is one
Unicode(text, p, end) ==
  LET at(i) == IF i < end THEN text[i] ELSE "end"
      second == IsSurrogate(at(p)) /\ at(p + 1) = "\\" /\ at(p + 2) = "u" /\ p + 3 < end
  IN  IF at(p) \notin Quads \/ (second /\ at(p + 3) \notin Quads) THEN Error
      ELSE IF second /\ IsSurrogate(at(p + 3)) THEN Ok(<<at(p), AsLow(at(p + 3))>>, p + 4) ELSE Ok(<<at(p)>>, p + 1)
\* what is between the quotes; an unknown escape loses its backslash
RECURSIVE Unescape(_, _, _, _)
Unescape(text, p, end, dest) ==
  LET next == IF p + 1 < end THEN text[p + 1] ELSE "end"
      unicode == Unicode(text, p + 2, end)
  IN  CASE p = end -> Ok(dest, end + 1)
        [] p < end /\ text[p] # "\\" -> Unescape(text, p + 1, end, Append(dest, Plain(text[p])))
        [] p < end /\ text[p] = "\\" /\ next = "end" -> [ok |-> FALSE, unexpected_end |-> TRUE]
        [] p < end /\ text[p] = "\\" /\ next \in {"\"", "\\"} -> Unescape(text, p + 2, end, Append(dest, <<next>>))
        [] p < end /\ text[p] = "\\" /\ next = "n" -> Unescape(text, p + 2, end, Append(dest, <<"newline">>))
        [] p < end /\ text[p] = "\\" /\ next = "u" ->
             IF unicode.ok THEN Unescape(text, unicode.pos, end, Append(dest, unicode.value)) ELSE Error
        [] OTHER -> Unescape(text, p + 1, end, dest)
json_string_decode(text, p) ==
  LET end == ClosingQuote(text, p + 1)
  IN  IF ~try_skip(text, p, "\"") \/ end > Len(text) THEN Error ELSE Unescape(text, p + 1, end, <<>>)

\* json_string_skip has a loop of its own that keeps nothing
RECURSIVE SkipEscapes(_, _, _)
SkipEscapes(text, p, end) ==
  LET next == IF p + 1 < end THEN text[p + 1] ELSE "end"
      unicode == Unicode(text, p + 2, end)
  IN  IF p = end THEN Ok("skipped", end + 1)
      ELSE IF text[p] # "\\" THEN SkipEscapes(text, p + 1, end)
      ELSE CASE next = "end" -> Error
             [] next \in {"\"", "\\", "n"} -> SkipEscapes(text, p + 2, end)
             [] next = "u" -> IF unicode.ok THEN SkipEscapes(text, unicode.pos, end) ELSE Error
             [] OTHER -> SkipEscapes(text, p + 1, end)
json_string_skip(text, p) ==
  LET end == ClosingQuote(text, p + 1)
  IN  IF ~try_skip(text, p, "\"") \/ end > Len(text) THEN Error ELSE SkipEscapes(text, p + 1, end)

----------------------------------------------------------------------------
RECURSIVE read_while(_, _)
read_while(text, p) == IF peek_char(text, p) = "1" THEN read_while(text, p + 1) ELSE p
Number(text, p) == Ok(<<"number", SubSeq(text, p, read_while(text, p) - 1)>>, read_while(text, p))

RECURSIVE do_json_decode(_, _, _), Elements(_, _, _, _), Fields(_, _, _, _)
\* after "[" or ","; then after "{" or ","
Elements(text, p, max_depth, res) ==
  LET element == do_json_decode(text, p, max_depth - 1)
      next == skip_whitespaces(text, element.pos)
      value == Append(res, element.value)
  IN  IF p > Len(text) \/ ~element.ok THEN Error
      ELSE CASE peek_char(text, next) = "]" -> Ok(<<"array", value>>, next + 1)
             [] peek_char(text, next) = "," -> Elements(text, skip_whitespaces(text, next + 1), max_depth, value)
             [] OTHER -> Error
Fields(text, p, max_depth, res) ==
  LET key == json_string_decode(text, p)
      colon == skip_whitespaces(text, key.pos)
      field == do_json_decode(text, colon + 1, max_depth - 1)
      next == skip_whitespaces(text, field.pos)
      value == Append(res, <<key.value, field.value>>)
  IN  IF p > Len(text) \/ ~key.ok THEN Error
      ELSE IF ~try_skip(text, colon, ":") \/ ~field.ok THEN Error
      ELSE CASE peek_char(text, next) = "}" -> Ok(<<"object", value>>, next + 1)
             [] peek_char(text, next) = "," -> Fields(text, skip_whitespaces(text, next + 1), max_depth, value)
             [] OTHER -> Error
do_json_decode(text, from, max_depth) ==
  LET p == skip_whitespaces(text, from)
      inside == skip_whitespaces(text, p + 1)
      c == peek_char(text, p)
      string == json_string_decode(text, p)
  IN  IF max_depth < 0 THEN Error
      ELSE CASE c \in Words -> Ok(<<"word", c>>, p + 1)
             [] c = "\"" -> IF string.ok THEN Ok(<<"string", string.value>>, string.pos) ELSE Error
             [] c = "[" -> IF try_skip(text, inside, "]") THEN Ok(<<"array", <<>>>>, inside + 1)
                           ELSE Elements(text, inside, max_depth, <<>>)
             [] c = "{" -> IF try_skip(text, inside, "}") THEN Ok(<<"object", <<>>>>, inside + 1)
                           ELSE Fields(text, inside, max_depth, <<>>)
             [] c = "1" -> Number(text, p)
             [] OTHER -> Error
\* nothing may follow the value
Complete(text, result) ==
  IF result.ok /\ skip_whitespaces(text, result.pos) <= Len(text) THEN Error ELSE result
json_decode(text) == Complete(text, do_json_decode(text, 1, MaxDepth))

RECURSIVE do_json_skip(_, _, _), SkipItems(_, _, _, _)
SkipItems(text, p, max_depth, close) ==   \* of an array, or of an object with its keys
  LET key == json_string_skip(text, p)
      colon == skip_whitespaces(text, key.pos)
      value == IF close = "]" THEN do_json_skip(text, p, max_depth - 1)
               ELSE IF ~key.ok THEN Error
               ELSE IF ~try_skip(text, colon, ":") THEN Error ELSE do_json_skip(text, colon + 1, max_depth - 1)
      next == skip_whitespaces(text, value.pos)
  IN  IF p > Len(text) \/ ~value.ok THEN Error
      ELSE CASE peek_char(text, next) = close -> Ok("skipped", next + 1)
             [] peek_char(text, next) = "," -> SkipItems(text, skip_whitespaces(text, next + 1), max_depth, close)
             [] OTHER -> Error
do_json_skip(text, from, max_depth) ==
  LET p == skip_whitespaces(text, from)
      inside == skip_whitespaces(text, p + 1)
      c == peek_char(text, p)
      close == IF c = "[" THEN "]" ELSE "}"
  IN  IF max_depth < 0 THEN Error
      ELSE CASE c \in Words -> Ok("skipped", p + 1)
             [] c = "\"" -> json_string_skip(text, p)
             [] c \in {"[", "{"} -> IF try_skip(text, inside, close) THEN Ok("skipped", inside + 1)
                                    ELSE SkipItems(text, inside, max_depth, close)
             [] c = "1" -> Ok("skipped", read_while(text, p))
             [] OTHER -> Error

\* fields of an object: the first that has the name
HasField(object, name) == \E i \in DOMAIN object : object[i][1] = name
FieldOf(object, name) ==
  LET i == CHOOSE i \in DOMAIN object : object[i][1] = name /\ \A j \in 1..(i - 1) : object[j][1] # name IN object[i][2]
TypeOf(value) == IF value[1] # "word" THEN value[1] ELSE IF value[2] = "null" THEN "null" ELSE "boolean"
Null == <<"word", "null">>
\* the value is moved out of its field, which is a null from then on
get_json_object_field(object, name, type, is_optional) ==
  LET value == FieldOf(object, name)
      first(i) == object[i][1] = name /\ \A j \in 1..(i - 1) : object[j][1] # name
      rest == [i \in DOMAIN object |-> IF first(i) THEN <<name, Null>> ELSE object[i]]
  IN  IF ~HasField(object, name) THEN [ok |-> is_optional, value |-> Null, rest |-> object]
      ELSE IF type \notin {"null", TypeOf(value)} THEN [ok |-> FALSE, rest |-> object]
      ELSE [ok |-> TRUE, value |-> value, rest |-> rest]
\* those of int and string take a number or a string, and leave it where it is
get_json_object_string_field(object, name, is_optional) ==
  IF ~HasField(object, name) THEN [ok |-> is_optional, value |-> <<"default">>]
  ELSE LET value == FieldOf(object, name)
       IN  CASE TypeOf(value) = "string" -> [ok |-> TRUE, value |-> FlattenSeq(value[2])]
             [] TypeOf(value) = "number" -> [ok |-> TRUE, value |-> value[2]]
             [] OTHER -> Error
get_json_object_int_field(object, name, is_optional) ==
  LET string == get_json_object_string_field(object, name, is_optional)
  IN  IF ~string.ok THEN Error
      ELSE IF string.value \notin {<<"default">>, <<"1">>, <<"1", "1">>} THEN Error ELSE string   \* to_integer_safe
get_json_object_bool_field(object, name, is_optional) ==
  LET field == get_json_object_field(object, name, "boolean", is_optional)
  IN  IF ~field.ok THEN Error ELSE [ok |-> TRUE, value |-> IF field.value = Null THEN <<"default">> ELSE field.value]

Extend == /\ Len(input) < Len(source.begin) + source.more /\ parts = 0
          /\ \E s \in source.symbols : input' = Append(input, s)
          /\ UNCHANGED <<source, scopes, sb, pretty, root, parts>>
----------------------------------------------------------------------------
\* JsonString: the escapes, and UTF-8 as \u with one code unit or two
JsonChar(c) == IF Last(c) \in Quads THEN FlattenSeq([i \in DOMAIN c |-> <<"\\", "u", c[i]>>])
               ELSE IF c[1] = "newline" THEN <<"\\", "n">>
               ELSE IF c[1] \in {"\"", "\\"} THEN <<"\\", c[1]>> ELSE <<c[1]>>
JsonString(str) == <<"\"">> \o FlattenSeq([i \in DOMAIN str |-> JsonChar(str[i])]) \o <<"\"">>
print_offset == IF pretty THEN <<" ">> ELSE <<>>
Colon == IF pretty THEN <<" ", ":", " ">> ELSE <<":">>

\* before a value: in an array the comma, in an object the comma and a key
Before(scope, key) ==
  (IF scope.type = "value" THEN <<>> ELSE (IF scope.was THEN <<",">> ELSE <<>>) \o print_offset)
  \o (IF scope.type = "object" THEN JsonString(key) \o Colon ELSE <<>>)
\* JsonValue::store: a value that was decoded goes through the same scopes
RECURSIVE store(_)
store(value) ==
  LET items == value[2]
      item(i) == IF value[1] = "array" THEN <<<<>>, items[i]>> ELSE items[i]
      text(i) == Before([type |-> value[1], was |-> i > 1], item(i)[1]) \o store(item(i)[2])
      all == FlattenSeq([i \in DOMAIN items |-> text(i)]) \o print_offset
  IN  CASE value[1] = "word" -> <<items>>
        [] value[1] = "number" -> items
        [] value[1] = "string" -> JsonString(items)
        [] value[1] = "array" -> <<"[">> \o all \o <<"]">>
        [] value[1] = "object" -> <<"{">> \o all \o <<"}">>
\* UTF-8, which the decoder does not ask for: JsonChar aborts on half of a pair
RECURSIVE IsUtf8(_)
IsUtf8(value) ==
  CASE value[1] = "string" -> \A i \in DOMAIN value[2] : Len(value[2][i]) = 1 => ~IsSurrogate(value[2][i][1])
    [] value[1] = "array" -> \A i \in DOMAIN value[2] : IsUtf8(value[2][i])
    [] value[1] = "object" -> \A i \in DOMAIN value[2] : IsUtf8(<<"string", value[2][i][1]>>) /\ IsUtf8(value[2][i][2])
    [] OTHER -> TRUE
\* a value is written into the innermost scope: its own scope takes only one
Into(scope, key, value) ==
  [scope EXCEPT !.was = TRUE, !.items = Append(@, IF scope.type = "object" THEN <<key, value>> ELSE value)]
Writes(text) == sb' = sb \o text
Enters(type) == [type |-> type, was |-> FALSE, items |-> <<>>]
Innermost == Last(scopes)
MayWrite == scopes # <<>> /\ parts < MaxParts /\ (Innermost.type = "value" => ~Innermost.was)

EnterValue ==   \* jb.enter_value(), where it all begins
  /\ scopes = <<>> /\ parts = 0 /\ input = <<>> /\ parts' = 1
  /\ scopes' = <<Enters("value")>> /\ UNCHANGED <<source, input, sb, pretty, root>>
Put(key, value, text) ==
  /\ MayWrite /\ parts' = parts + 1 /\ Writes(Before(Innermost, key) \o text)
  /\ scopes' = Append(Front(scopes), Into(Innermost, key, value))
  /\ UNCHANGED <<source, input, pretty, root>>
PutString(key) == \E str \in Strings : Put(key, <<"string", str>>, JsonString(str))
PutWord(key) == Put(key, <<"word", "true">>, <<"true">>)
PutInt(key) == Put(key, <<"number", <<"1">>>>, <<"1">>)
Open == [array |-> "[", object |-> "{"]
Close == [array |-> "]", object |-> "}"]
\* the scope of the value is below; what it will have is put there by leave()
Enter(key, type) ==
  /\ MayWrite /\ parts' = parts + 1 /\ Writes(Before(Innermost, key) \o <<Open[type]>>)
  /\ scopes' = Append(Append(Front(scopes), [Innermost EXCEPT !.was = TRUE]), Enters(type) @@ [key |-> key])
  /\ UNCHANGED <<source, input, pretty, root>>
Leave ==   \* ~JsonArrayScope, ~JsonObjectScope
  /\ Len(scopes) > 1
  /\ LET outer == scopes[Len(scopes) - 1]
     IN  scopes' = Append(Front(Front(scopes)), Into(outer, Innermost.key, <<Innermost.type, Innermost.items>>))
  /\ Writes(print_offset \o <<Close[Innermost.type]>>)
  /\ UNCHANGED <<source, input, pretty, root, parts>>
LeaveValue ==
  /\ Len(scopes) = 1 /\ Innermost.was /\ root' = Innermost.items[1] /\ scopes' = <<>>
  /\ UNCHANGED <<source, input, sb, pretty, parts>>

Next == \/ Extend \/ EnterValue \/ Leave \/ LeaveValue
        \/ \E key \in Keys : PutString(key) \/ PutWord(key) \/ PutInt(key) \/ Enter(key, "array") \/ Enter(key, "object")
Spec == Init /\ [][Next]_vars
----------------------------------------------------------------------------
TypeOK == \A i \in DOMAIN scopes : scopes[i].type \in {"value", "array", "object"} /\ (i = 1 <=> scopes[i].type = "value")

IsRead(value, text) == \E read \in {json_decode(text)} : read.ok /\ read.value = value

(* What the scopes have written is decoded to the value they were given.   *)
WrittenIsRead == root # <<>> => IsRead(root, sb)

ReadAgain(decoded) == decoded.ok => (IsUtf8(decoded.value) => IsRead(decoded.value, store(decoded.value)))

(* A value that was decoded is stored as a text that is decoded to it.     *)
StoredIsRead == ReadAgain(json_decode(input))

FieldIsFound(object, name, type) ==
  LET field == get_json_object_field(object, name, type, TRUE)
      int == get_json_object_int_field(object, name, TRUE)
      bool == get_json_object_bool_field(object, name, TRUE)
  IN  /\ int.ok => get_json_object_string_field(object, name, TRUE) = int
      /\ HasField(object, name) =>
           /\ field.ok <=> TypeOf(FieldOf(object, name)) = type
           /\ bool.ok => bool.value = FieldOf(object, name)
           /\ field.ok => /\ field.value = FieldOf(object, name)
                          /\ ~get_json_object_field(field.rest, name, type, TRUE).ok
                          /\ \A i \in DOMAIN object : object[i][1] # name => field.rest[i] = object[i]
FieldsOf(decoded) == IF decoded.ok THEN IF decoded.value[1] = "object" THEN decoded.value[2] ELSE <<>> ELSE <<>>

(* Asked twice for a field of the right type, the object gives its first   *)
(* value and then an error, and its other fields stay; what the int getter *)
(* returns is what the string getter does; a field of another type is an   *)
(* error even when it is optional.                                         *)
FieldsAreFound ==
  \A object \in {FieldsOf(json_decode(input))}, name \in {<<<<"a">>>>, <<>>}, type \in {"number", "string", "boolean"} :
    FieldIsFound(object, name, type)

EndsWhere(decoded, skipped) == decoded.ok = skipped.ok /\ (decoded.ok => decoded.pos = skipped.pos)

(* do_json_skip accepts what do_json_decode accepts and ends where it ends. *)
SkipAgrees == EndsWhere(do_json_decode(input, 1, MaxDepth), do_json_skip(input, 1, MaxDepth))

(* The case marked "TODO UNREACHABLE" in json_string_decode is unreachable. *)
EndIsExpected == LET string == json_string_decode(input, 1) IN ~string.ok => string = Error
============================================================================

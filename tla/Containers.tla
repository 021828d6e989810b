----------------------------- MODULE Containers -----------------------------
(***************************************************************************)
(* Five containers, of which a behaviour has one: KHeap, a heap with K     *)
(* children in an array whose nodes know their position; DecTree, a search *)
(* tree on keys that is a heap on random priorities; Container, slots with *)
(* generations, where an id is a slot, its generation and a type;          *)
(* Enumerator, a number for every value; and Hints, names found by the     *)
(* beginnings of their words, as they are spelled or transliterated.  A    *)
(* word is a sequence of letters; a string may also have the space and     *)
(* characters that searches ignore.  The alphabet and the rules of the two *)
(* transliterations are constants.                                         *)
(***************************************************************************)
EXTENDS Integers, Sequences, SequencesExt, FiniteSets

CONSTANTS Kinds,              \* the containers: of "heap", "tree", "slots", "numbers", "hints"
          K, Nodes, HeapKeys,
          Keys, Priorities,
          Types, MaxSlots,
          MaxCreates, MaxEmpty, MaxWraps,   \* bounds: calls of create, the length of empty_slots_,
                                            \* calls of reset_id that wrap
          Gens,               \* generations before a slot's counter is 0 again, 2^24
          Values,             \* what is put into the Enumerator
          HintKeys, Names, Queries, Ratings,
          Space, Ignored,     \* the space; characters prepare_search_character drops
          Simple(_), Complex(_)    \* the rules of direction 1 and 2: letter -> word; <<from, to>> in their order

VARIABLES kind,
          heap,        \* [array: array_, of [key, node]; pos: HeapNode::pos_, -1 outside the heap]
          root,        \* root_: a node [key, value, y, size, left, right] or Nil
          kept,        \* what was inserted into it and not removed: key -> value
          slots,       \* slots_, [gen, type, data]
          empty,       \* empty_slots_, the last is used next
          live,        \* what users have: id -> data
          dead,        \* ids that were erased, extracted or reset
          nextData,
          wrapped,     \* history: the slots whose generation reset_id has wrapped to 0
          arr, numbers,     \* Enumerator: arr_ and map_
          words, translits, \* word_to_keys_ and translit_word_to_keys_, as pairs <<word, key>>
          names, ratings,
          failed       \* a CHECK of add_word or delete_word has failed
slot_vars == <<slots, empty, live, dead, nextData, wrapped>>
hint_vars == <<words, translits, names, ratings, failed>>
vars == <<kind, heap, root, kept, slot_vars, arr, numbers, hint_vars>>

Nil == <<>>
Init == /\ kind \in Kinds
        /\ heap = [array |-> <<>>, pos |-> [n \in Nodes |-> -1]]
        /\ root = Nil /\ kept = <<>>
        /\ slots = <<>> /\ empty = <<>> /\ live = <<>> /\ dead = {} /\ nextData = 1 /\ wrapped = {}
        /\ arr = <<>> /\ numbers = <<>>
        /\ words = {} /\ translits = {} /\ names = <<>> /\ ratings = <<>> /\ failed = FALSE

----------------------------------------------------------------------------
\* KHeap; positions count from 0: array[p + 1] is array_[p]
Parent(p) == (p - 1) \div K
At(h, p) == h.array[p + 1]
\* array_[p] = item and item.node_->pos_ = p
Put(h, p, item) == [array |-> [h.array EXCEPT ![p + 1] = item], pos |-> [h.pos EXCEPT ![item.node] = p]]

RECURSIVE Up(_, _, _), Down(_, _, _)
\* fix_up(): parents that are not smaller come down
Up(h, p, item) ==
  IF p = 0 \/ At(h, Parent(p)).key < item.key THEN Put(h, p, item)
  ELSE Up(Put(h, p, At(h, Parent(p))), Parent(p), item)
\* fix_down(): the first of the smallest children comes up
Down(h, p, item) ==
  LET smaller == {c \in (p * K + 1)..(p * K + K) : c < Len(h.array) /\ At(h, c).key < item.key}
      least == {c \in smaller : \A d \in smaller : At(h, c).key < At(h, d).key
                                                  \/ (At(h, c).key = At(h, d).key /\ c <= d)}
  IN  IF smaller = {} THEN Put(h, p, item)
      ELSE LET c == CHOOSE c \in least : TRUE IN Down(Put(h, p, At(h, c)), c, item)
FixUp(h, p) == Up(h, p, At(h, p))
FixDown(h, p) == Down(h, p, At(h, p))

\* erase(p): the last item takes the place, and may have to go either way
RefitDown(h, p) == IF p < Len(h.array) THEN FixDown(h, p) ELSE h
Refit(h, p) == IF p < Len(h.array) THEN FixUp(FixDown(h, p), p) ELSE h
Removed(n) ==
  LET p == heap.pos[n]
  IN  Refit([array |-> Front([heap.array EXCEPT ![p + 1] = Last(heap.array)]),
             pos |-> [heap.pos EXCEPT ![n] = -1]], p)

Push(n, key) ==
  heap.pos[n] = -1 /\
    heap' = FixUp([heap EXCEPT !.array = Append(@, [key |-> key, node |-> n])], Len(heap.array))
Pop == heap.array # <<>> /\ heap' = Removed(At(heap, 0).node)
Erase(n) == heap.pos[n] # -1 /\ heap' = Removed(n)
Fix(n, key) ==
  LET p == heap.pos[n]
      h == [heap EXCEPT !.array[p + 1].key = key]
  IN  p # -1 /\ heap' = IF key < At(heap, p).key THEN FixUp(h, p) ELSE FixDown(h, p)
NextHeap == \/ Pop
            \/ \E n \in Nodes : Erase(n) \/ \E key \in HeapKeys : Push(n, key) \/ Fix(n, key)

----------------------------------------------------------------------------
\* DecTree; the caller inserts a key that is not in it ("?? assert"), and get_random() picks any index
SizeOf(t) == IF t = Nil THEN 0 ELSE t.size
Relaxed(t) == [t EXCEPT !.size = 1 + SizeOf(t.left) + SizeOf(t.right)]
NewNode(key, value, y) == [key |-> key, value |-> value, y |-> y, size |-> 1, left |-> Nil, right |-> Nil]

RECURSIVE Split(_, _), Merge(_, _), InsertNode(_, _, _, _), RemoveNode(_, _), GetNode(_, _), GetByIdx(_, _)
\* split_node(): the keys before key, and those from it on
Split(t, key) ==
  IF t = Nil THEN <<Nil, Nil>>
  ELSE IF key < t.key
  THEN LET p == Split(t.left, key) IN <<p[1], Relaxed([t EXCEPT !.left = p[2]])>>
  ELSE LET p == Split(t.right, key) IN <<Relaxed([t EXCEPT !.right = p[1]]), p[2]>>
Merge(l, r) ==
  IF l = Nil THEN r ELSE IF r = Nil THEN l
  ELSE IF l.y < r.y THEN Relaxed([r EXCEPT !.left = Merge(l, r.left)])
  ELSE Relaxed([l EXCEPT !.right = Merge(l.right, r)])
InsertNode(t, key, value, y) ==
  IF t = Nil THEN NewNode(key, value, y)
  ELSE IF t.y < y
  THEN LET p == Split(t, key) IN Relaxed([NewNode(key, value, y) EXCEPT !.left = p[1], !.right = p[2]])
  ELSE IF key < t.key THEN Relaxed([t EXCEPT !.left = InsertNode(t.left, key, value, y)])
  ELSE IF key > t.key THEN Relaxed([t EXCEPT !.right = InsertNode(t.right, key, value, y)])
  ELSE t
RemoveNode(t, key) ==
  IF t = Nil THEN Nil
  ELSE IF key < t.key THEN Relaxed([t EXCEPT !.left = RemoveNode(t.left, key)])
  ELSE IF key > t.key THEN Relaxed([t EXCEPT !.right = RemoveNode(t.right, key)])
  ELSE Merge(t.left, t.right)
\* get_node(): the value or nullptr, here 0
GetNode(t, key) ==
  IF t = Nil THEN 0
  ELSE IF key < t.key THEN GetNode(t.left, key)
  ELSE IF key > t.key THEN GetNode(t.right, key) ELSE t.value
GetByIdx(t, idx) ==
  LET s == SizeOf(t.left)
  IN  IF idx < s THEN GetByIdx(t.left, idx) ELSE IF idx = s THEN t.value ELSE GetByIdx(t.right, idx - s - 1)

Insert(key, y) ==
  LET value == 10 * key + y
  IN  /\ key \notin DOMAIN kept
      /\ root' = InsertNode(root, key, value, y)
      /\ kept' = [k \in DOMAIN kept \cup {key} |-> IF k = key THEN value ELSE kept[k]]
RemoveKey(key) == root' = RemoveNode(root, key) /\ kept' = [k \in DOMAIN kept \ {key} |-> kept[k]]
Reset == root # Nil /\ root' = Nil /\ kept' = <<>>
NextTree == \/ \E key \in Keys : RemoveKey(key) \/ \E y \in Priorities : Insert(key, y)
            \/ Reset

----------------------------------------------------------------------------
\* Container, Enumerator
EncodeId(s, i) == [slot |-> i, gen |-> s[i].gen, type |-> s[i].type]
\* decode_id(): the slot has this generation and type; get(): the data or nullptr, here 0
Decodes(id) == id.slot \in DOMAIN slots /\ EncodeId(slots, id.slot) = id
Get(id) == IF Decodes(id) THEN slots[id.slot].data ELSE 0
Without(f, id) == [i \in DOMAIN f \ {id} |-> f[i]]
With(f, id, d) == [i \in DOMAIN f \cup {id} |-> IF i = id THEN d ELSE f[i]]
NextGen(gen) == (gen + 1) % Gens

Create(type) ==
  LET fresh == empty = <<>>
      i == IF fresh THEN Len(slots) + 1 ELSE Last(empty)
      s == IF fresh THEN Append(slots, [gen |-> 1, type |-> type, data |-> nextData])
           ELSE [slots EXCEPT ![i].data = nextData, ![i].type = type]
  IN  /\ fresh => Len(slots) < MaxSlots
      /\ nextData <= MaxCreates
      /\ slots' = s /\ empty' = (IF fresh THEN <<>> ELSE Front(empty))
      /\ live' = With(live, EncodeId(s, i), nextData) /\ nextData' = nextData + 1
      /\ UNCHANGED <<dead, wrapped>>
\* release(): a slot whose generation has overflown is not used again
Released(i) == [slots EXCEPT ![i].gen = NextGen(@), ![i].data = 0]
EraseSlot(id) ==      \* erase(), extract()
  /\ Decodes(id) /\ Len(empty) < MaxEmpty
  /\ slots' = Released(id.slot)
  /\ empty' = IF slots'[id.slot].gen = 0 THEN empty ELSE Append(empty, id.slot)
  /\ live' = Without(live, id) /\ dead' = dead \cup {id}
  /\ UNCHANGED <<nextData, wrapped>>
EraseOld(id) == ~Decodes(id) /\ UNCHANGED slot_vars
\* reset_id(), which has no check for the overflow
ResetId(id) ==
  /\ Decodes(id) /\ (NextGen(id.gen) = 0 => Cardinality(wrapped) < MaxWraps)
  /\ slots' = [slots EXCEPT ![id.slot].gen = NextGen(@)]
  /\ live' = With(Without(live, id), EncodeId(slots', id.slot), Get(id)) /\ dead' = dead \cup {id}
  /\ wrapped' = wrapped \cup {i \in {id.slot} : slots'[i].gen = 0}
  /\ UNCHANGED <<empty, nextData>>
\* Enumerator::add
Add(v) ==
  IF v \in DOMAIN numbers THEN UNCHANGED <<arr, numbers>>
  ELSE arr' = Append(arr, v) /\ numbers' = With(numbers, v, Len(arr) + 1)
NextSlots == \/ \E type \in Types : Create(type)
             \/ \E id \in DOMAIN live \cup dead : EraseSlot(id) \/ EraseOld(id) \/ ResetId(id)

----------------------------------------------------------------------------
\* Hints
\* translit: every letter by its simple rule
Letter(dir, c) == IF c \in DOMAIN Simple(dir) THEN Simple(dir)[c] ELSE <<c>>
BySimple(dir, word) == FlattenSeq([i \in DOMAIN word |-> Letter(dir, word[i])])
\* complex rules before simple ones; a partial search also completes a rule
\* that the rest of the word begins, with what was read before it
RECURSIVE ByComplex(_, _, _)
ByComplex(dir, word, done) ==
  LET rules == Complex(dir)
      fits == {r \in DOMAIN rules : IsPrefix(rules[r][1], word)}
      first == CHOOSE r \in fits : \A q \in fits : r <= q
      tried == IF fits = {} THEN DOMAIN rules ELSE {r \in DOMAIN rules : r < first}
      partial == {done \o rules[r][2] : r \in {r \in tried : IsPrefix(word, rules[r][1])}}
  IN  IF word = <<>> THEN [all |-> {done}, partial |-> {}]
      ELSE LET rest == IF fits # {}
                       THEN ByComplex(dir, SubSeq(word, Len(rules[first][1]) + 1, Len(word)),
                                      done \o rules[first][2])
                       ELSE ByComplex(dir, Tail(word), done \o Letter(dir, Head(word)))
           IN  [rest EXCEPT !.partial = @ \cup partial]
Transliterations(word, allow_partial) ==
  UNION {LET c == ByComplex(dir, word, <<>>)
         IN  (({BySimple(dir, word)} \cup c.all) \ {<<>>}) \cup (IF allow_partial THEN c.partial ELSE {}) :
         dir \in {1, 2}}

\* get_words(), fix_words(): no word that is the beginning of another
RawWords(name) ==
  LET letters == SelectSeq(name, LAMBDA c : c \notin Ignored)
      starts == {i \in DOMAIN letters : letters[i] # Space /\ (i = 1 \/ letters[i - 1] = Space)}
      ends(i) == {j \in i..Len(letters) : (j = Len(letters) \/ letters[j + 1] = Space) /\ \A m \in i..j : letters[m] # Space}
  IN  {SubSeq(letters, i, CHOOSE j \in ends(i) : TRUE) : i \in starts}
FixWords(ws) == {w \in ws : \A v \in ws : IsPrefix(w, v) => w = v}
Words(name) == FixWords(RawWords(name))
OtherForms(ws) == FixWords((UNION {Transliterations(w, FALSE) \ {w} : w \in ws}))

Entries(ws, key) == {<<w, key>> : w \in ws}
Names_(key) == IF key \in DOMAIN names THEN names[key] ELSE <<>>
\* add(): the words of the old name go out before those of the new one come in
OldForms(key) == OtherForms(Words(Names_(key)))
AddHint(key, name) ==
  LET old == Words(Names_(key))
      w1 == words \ Entries(old, key)
      t1 == translits \ Entries(OldForms(key), key)
      missing == ~(Entries(old, key) \subseteq words /\ Entries(OldForms(key), key) \subseteq translits)
      known == key \in DOMAIN names
  IN  /\ ~failed
      /\ IF known /\ names[key] = name THEN UNCHANGED hint_vars
         ELSE /\ words' = w1 \cup Entries(Words(name), key)
              /\ translits' = t1 \cup Entries(OtherForms(Words(name)), key)
              /\ failed' = \/ missing
                           \/ Entries(Words(name), key) \cap w1 # {}
                           \/ Entries(OtherForms(Words(name)), key) \cap t1 # {}
              /\ names' = [k \in IF name = <<>> THEN DOMAIN names \ {key} ELSE DOMAIN names \cup {key} |->
                             IF k = key THEN name ELSE names[k]]
              /\ ratings' = IF name = <<>> THEN [k \in DOMAIN ratings \ {key} |-> ratings[k]] ELSE ratings
SetRating(key, r) ==
  /\ ~failed
  /\ ratings' = [k \in DOMAIN ratings \cup {key} |-> IF k = key THEN r ELSE ratings[k]]
  /\ UNCHANGED <<words, translits, names, failed>>
NextHints == \E key \in HintKeys : \/ \E name \in Names \cup {<<>>} : AddHint(key, name)
                                  \/ \E r \in Ratings : SetRating(key, r)

\* search_word(), search()
KeysFrom(index, word) == {e[2] : e \in {e \in index : IsPrefix(word, e[1])}}
SearchWord(word) ==
  KeysFrom(translits, word) \cup UNION {KeysFrom(words, w) : w \in Transliterations(word, TRUE)}
Rating(key) == IF key \in DOMAIN ratings THEN ratings[key] ELSE 0
Before(a, b) == Rating(a) < Rating(b) \/ (Rating(a) = Rating(b) /\ a < b)
Search(query, limit, all_for_empty) ==
  LET ws == Words(query)
      found == IF ws = {} THEN (IF all_for_empty THEN DOMAIN names ELSE {})
               ELSE {k \in HintKeys : \A w \in ws : k \in SearchWord(w)}
      sorted == SetToSortSeq(found, Before)
  IN  IF limit < 0 THEN [total |-> Cardinality(DOMAIN names), keys |-> <<>>]
      ELSE [total |-> Cardinality(found), keys |-> SubSeq(sorted, 1, IF limit < Len(sorted) THEN limit ELSE Len(sorted))]

----------------------------------------------------------------------------
Next == /\ UNCHANGED kind
        /\ \/ kind = "heap" /\ NextHeap /\ UNCHANGED <<root, kept, slot_vars, arr, numbers, hint_vars>>
           \/ kind = "tree" /\ NextTree /\ UNCHANGED <<heap, slot_vars, arr, numbers, hint_vars>>
           \/ kind = "slots" /\ NextSlots /\ UNCHANGED <<heap, root, kept, arr, numbers, hint_vars>>
           \/ /\ kind = "numbers" /\ \E v \in Values : Add(v)
              /\ UNCHANGED <<heap, root, kept, slot_vars, hint_vars>>
           \/ kind = "hints" /\ NextHints /\ UNCHANGED <<heap, root, kept, slot_vars, arr, numbers>>
Spec == Init /\ [][Next]_vars
----------------------------------------------------------------------------
(* check(): no child is smaller than its parent, so top_key() is least,    *)
(* after any sequence of insertions, removals and changes of keys.         *)
IsHeap == \A p \in 1..(Len(heap.array) - 1) : At(heap, Parent(p)).key <= At(heap, p).key
(* Every node knows where it is: the next erase or fix meets its own item. *)
PositionsAgree ==
  /\ \A p \in 0..(Len(heap.array) - 1) : heap.pos[At(heap, p).node] = p
  /\ Cardinality({n \in Nodes : heap.pos[n] # -1}) = Len(heap.array)

RECURSIVE IsTreap(_)
IsTreap(t) == t = Nil \/
  /\ t.size = 1 + SizeOf(t.left) + SizeOf(t.right)
  /\ \A c \in {t.left, t.right} : c = Nil \/ (c.y <= t.y /\ IsTreap(c))
(* The priorities stay a heap, on which the expected depth rests, and the  *)
(* sizes are exact, through every split and merge.                         *)
Balanced == IsTreap(root)
(* get() finds exactly what was inserted and not removed.                  *)
FindsAll == \A key \in Keys : GetNode(root, key) = IF key \in DOMAIN kept THEN kept[key] ELSE 0
(* get_random() can return every value and nothing else: the index reaches *)
(* the values in the order of their keys.                                  *)
IndexReachesAll ==
  /\ SizeOf(root) = Cardinality(DOMAIN kept)
  /\ \A key \in DOMAIN kept : GetByIdx(root, Cardinality({k \in DOMAIN kept : k < key})) = kept[key]

TypeOK == /\ Range(empty) \subseteq DOMAIN slots
          /\ \A i \in DOMAIN slots : slots[i].gen \in 0..(Gens - 1)
(* An id reaches the data it was given for until it is erased or reset,    *)
(* and never anything else afterwards, however often its slot is reused;   *)
(* and it is not zero.  Of a slot that reset_id has taken past its last    *)
(* generation nothing of this is true: its ids are given again.            *)
IdsAreOwn == /\ \A id \in DOMAIN live : id.slot \in wrapped \/ (Get(id) = live[id] /\ id.gen # 0)
             /\ \A id \in dead : id.slot \in wrapped \/ ~Decodes(id)
             /\ \A i, j \in DOMAIN empty : empty[i] = empty[j] => i = j \/ empty[i] \in wrapped
(* ids() lists every id in use; beyond those, only slots that have run out *)
(* of generations, which size() goes on counting.                          *)
Ids == {EncodeId(slots, i) : i \in DOMAIN slots \ Range(empty)}
IdsAreListed == /\ \A id \in DOMAIN live : id.slot \in wrapped \/ id \in Ids
                /\ \A id \in Ids \ DOMAIN live : id.slot \in wrapped \/ id.gen = 0
(* Equal values have one number, and the number leads back to the value.   *)
Enumerated == \A v \in DOMAIN numbers : arr[numbers[v]] = v /\ Len(arr) = Cardinality(DOMAIN numbers)

(* The indices hold the words of the present names and nothing of earlier  *)
(* ones: no CHECK of add_word and delete_word fails in any order of calls. *)
IndexIsOfNames ==
  /\ ~failed
  /\ words = UNION {Entries(Words(names[k]), k) : k \in DOMAIN names}
  /\ translits = UNION {Entries(OtherForms(Words(names[k])), k) : k \in DOMAIN names}

(* A search finds exactly the names each word of the query begins a word   *)
(* of, or a transliteration of one, or that a transliteration of it does:  *)
(* leaving out words that begin others loses no name.                      *)
Begins(q, name) == \E w \in RawWords(name) :
  \/ \E f \in Transliterations(w, FALSE) \ {w} : IsPrefix(q, f)
  \/ \E t \in Transliterations(q, TRUE) : IsPrefix(t, w)
SearchFinds == \A query \in Queries :
  LET r == Search(query, 5, FALSE)
  IN  RawWords(query) # {} =>
        Range(r.keys) = {k \in DOMAIN names : \A q \in RawWords(query) : Begins(q, names[k])}
(* The first results are those of the least rating, in its order.          *)
Ranked == \A query \in Queries : LET all == Search(query, 5, TRUE).keys IN
  /\ \A i \in 2..Len(all) : Rating(all[i - 1]) <= Rating(all[i])
  /\ Search(query, 1, TRUE).keys = SubSeq(all, 1, IF Len(all) < 1 THEN 0 ELSE 1)
============================================================================

------------------------- MODULE CancellationToken -------------------------
(***************************************************************************)
(* td/utils/CancellationToken.h: sources and tokens share a raw flag that  *)
(* is set once.  A source makes a flag when a token is first asked for,    *)
(* and lets go of it when it cancels, dies or is assigned over.            *)
(***************************************************************************)
EXTENDS Integers

CONSTANTS Sources, Tokens, MaxRaws
Null == 0

VARIABLES raws,         \* RawCancellationTokens made so far: 1..raws
          is_cancelled, \* is_cancelled_ of each
          source, token \* token_ of each CancellationTokenSource and CancellationToken
vars == <<raws, is_cancelled, source, token>>

Init == /\ raws = 0 /\ is_cancelled = [r \in 1..MaxRaws |-> FALSE]
        /\ source = [s \in Sources |-> Null] /\ token = [t \in Tokens |-> Null]

get_cancellation_token(s, t) ==
  LET r == IF source[s] = Null THEN raws + 1 ELSE source[s] IN
  /\ r <= MaxRaws
  /\ raws' = IF source[s] = Null THEN r ELSE raws
  /\ source' = [source EXCEPT ![s] = r] /\ token' = [token EXCEPT ![t] = r]
  /\ UNCHANGED is_cancelled

Cancelled(s) == IF source[s] = Null THEN is_cancelled ELSE [is_cancelled EXCEPT ![source[s]] = TRUE]

\* cancel and the destructor
cancel(s) == /\ is_cancelled' = Cancelled(s)
             /\ source' = [source EXCEPT ![s] = Null] /\ UNCHANGED <<raws, token>>

\* The move assignment to s, from itself too; the move constructor when s is empty.
MoveSource(s, other) ==
  /\ is_cancelled' = Cancelled(s)
  /\ source' = IF s = other THEN [source EXCEPT ![s] = Null]
                            ELSE [source EXCEPT ![s] = source[other], ![other] = Null]
  /\ UNCHANGED <<raws, token>>

CopyToken(t, u) == /\ token' = [token EXCEPT ![t] = token[u]]
                   /\ UNCHANGED <<raws, is_cancelled, source>>

Next == \/ \E s \in Sources: cancel(s) \/ \E t \in Tokens: get_cancellation_token(s, t)
        \/ \E s, o \in Sources: MoveSource(s, o)
        \/ \E t, u \in Tokens: t # u /\ CopyToken(t, u)
Spec == Init /\ [][Next]_vars

\* CancellationToken::operator bool
IsCancelled(t) == token[t] # Null /\ is_cancelled[token[t]]

\* A token is uncancelled exactly while one source still holds its flag: no
\* move, assignment or death of a source leaves a token nobody can cancel.
UncancelledHasSource == \A t \in Tokens: token[t] # Null =>
  (IsCancelled(t) <=> \A s \in Sources: source[s] # token[t])
\* No two sources share a flag, so none cancels the tokens of another.
SourcesAreDistinct == \A s, o \in Sources: source[s] = source[o] => s = o \/ source[s] = Null
============================================================================

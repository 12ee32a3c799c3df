----------------------------- MODULE ObjectReads -----------------------------
(***************************************************************************)
(* What DB.Read promises its callers (internal/odb/db.go): whoever asks,   *)
(* however many at once and whatever was asked before, an answer is the    *)
(* content of the object, and a refusal means that the object has none, or *)
(* one that takes a longer chain than a read follows.                      *)
(***************************************************************************)
EXTENDS PackStore

CONSTANTS Readers, Failed

VARIABLES
  store,   \* the database, which nothing here writes
  asked,   \* what each reader has asked for
  answer   \* the last answer each was given

vars == <<store, asked, answer>>

\* Whether the object has a content that takes at most MaxDeltaChain deltas.
InReach(o) ==
  LET at == Chain(store, o)
  IN  \E n \in 0..MaxDeltaChain :
        IsWhole(store, at[n]) /\ \A d \in 0..n : Decodes(store, at[d])

Right(o, a) ==
  IF a = Failed THEN ~InReach(o) ELSE IsContent(store, a, Find(store, o))

Init ==
  /\ store \in Stores
  /\ asked = [r \in Readers |-> NoObject]
  /\ answer = [r \in Readers |-> Failed]

Ask(r) ==
  /\ asked[r] = NoObject
  /\ \E o \in Objects : asked' = [asked EXCEPT ![r] = o]
  /\ UNCHANGED <<store, answer>>

Respond(r) ==
  /\ asked[r] # NoObject /\ asked' = [asked EXCEPT ![r] = NoObject]
  /\ answer' = [answer EXCEPT ![r] = answer'[r]]
  /\ Right(asked[r], answer'[r])
  /\ UNCHANGED store

Next == \E r \in Readers : Ask(r) \/ Respond(r)

Spec == Init /\ [][Next]_vars

\* Every read is answered.
Answered == \A r \in Readers : asked[r] # NoObject ~> asked[r] = NoObject

Promise == Spec /\ Answered
=============================================================================

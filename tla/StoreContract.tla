--------------------------- MODULE StoreContract ---------------------------
(***************************************************************************)
(* What a ChunkStore promises its callers (store/ChunkStore.h): the callback *)
(* of a read is called once, with an answer the read can have.  Cancelled    *)
(* answers only a read whose stop was requested or a store that is closing.  *)
(* HttpStore and DiskCache are shown to implement this specification.        *)
(***************************************************************************)
EXTENDS Sequences

CONSTANT Reads  \* the calls of read() made during the life of the store

VARIABLES
  asked,    \* reads that have been called
  stop,     \* reads whose stop token is set
  answers,  \* what each read's callback was called with, in order
  closed    \* the store's destructor has been entered

contractVars == <<asked, stop, answers, closed>>

-----------------------------------------------------------------------------
(* Bytes, or the kinds of StoreError. *)
Outcome == {"Bytes", "NotFound", "Io", "Http", "Auth", "Cancelled"}

Answered(r) == answers[r] # <<>>

Init ==
  /\ asked = {}
  /\ stop = {}
  /\ answers = [r \in Reads |-> <<>>]
  /\ closed = FALSE

Ask(r) ==
  /\ ~closed
  /\ r \notin asked
  /\ asked' = asked \cup {r}
  /\ UNCHANGED <<stop, answers, closed>>

Stop(r) ==
  /\ r \in asked \ stop
  /\ stop' = stop \cup {r}
  /\ UNCHANGED <<asked, answers, closed>>

Answer(r) ==
  /\ r \in asked
  /\ ~Answered(r)
  /\ \E o \in Outcome :
       /\ o = "Cancelled" => r \in stop \/ closed
       /\ answers' = [answers EXCEPT ![r] = <<o>>]
  /\ UNCHANGED <<asked, stop, closed>>

Close ==
  /\ ~closed
  /\ closed' = TRUE
  /\ UNCHANGED <<asked, stop, answers>>

Next == Close \/ \E r \in Reads : Ask(r) \/ Stop(r) \/ Answer(r)

Spec == Init /\ [][Next]_contractVars

=============================================================================

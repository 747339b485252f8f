-------------------------- MODULE HttpStoreProofs --------------------------
(***************************************************************************)
(* Proofs about HttpStore, for any reads, stream cap and retry limit.       *)
(*                                                                         *)
(* OneOwner alone is nearly inductive: a callback can be called because its *)
(* read is in one of the three places.  The other conjuncts of IInv say     *)
(* where in a pass the curl thread can be (Positions), what the attempt     *)
(* counter means in each place (Attempts), and where a transfer told to     *)
(* stop can still be (Overdue).                                             *)
(***************************************************************************)
EXTENDS HttpStore, FiniteSetTheorems, TLAPS

Positions ==
  /\ pc # "drop" => unchecked = {}
  /\ pc \in {"failActive", "failPending", "done"} => closed
  /\ pc \in {"failPending", "done"} => active = {}
  /\ \A r \in Reads \ asked : answers[r] = <<>> /\ r \notin stop

Attempts ==
  \A r \in Reads :
    /\ r \notin asked \/ r \in Range(pending) => sent[r] = 0 /\ attempt[r] = 0
    /\ r \in active => sent[r] = attempt[r] + 1
    /\ r \in Range(retryQueue) => sent[r] = attempt[r]
    /\ attempt[r] = 0 \/ attempt[r] < MaxRetries
    /\ sent[r] <= attempt[r] + 1

Overdue ==
  \A r \in Reads :
    /\ overdue[r] # 0 => r \in stop
    /\ overdue[r] \in {1, 2} => answers[r] # <<>> \/ r \in active
    /\ overdue[r] = 2 =>
         \/ answers[r] # <<>>
         \/ pc \in {"admit", "retry", "failActive"}
         \/ pc = "drop" /\ r \in unchecked
    /\ overdue[r] = 3 => answers[r] # <<>>

StreamsBounded == Cardinality(active) <= MaxConcurrentStreams

IInv ==
  TypeOK /\ OneOwner /\ Positions /\ Attempts /\ Overdue /\ StreamsBounded

-----------------------------------------------------------------------------
(* A queue in which nothing is repeated: what Append and Tail do to it. *)

LEMMA AppendRange ==
  ASSUME NEW S, NEW q \in Seq(S), NEW e \in S, IsInjective(q), e \notin Range(q)
  PROVE  /\ Append(q, e) \in Seq(S)
         /\ Range(Append(q, e)) = Range(q) \cup {e}
         /\ IsInjective(Append(q, e))
<1> DEFINE p == Append(q, e)
<1>1. /\ p \in Seq(S)
      /\ DOMAIN q = 1..Len(q)
      /\ DOMAIN p = 1..(Len(q) + 1)
      /\ Len(q) \in Nat
      /\ \A i \in 1..Len(q) : p[i] = q[i]
      /\ p[Len(q) + 1] = e
  OBVIOUS
<1>2. Range(p) = Range(q) \cup {e}
  BY <1>1 DEF Range
<1>3. IsInjective(p)
  BY <1>1 DEF IsInjective, Range
<1>. QED  BY <1>1, <1>2, <1>3

LEMMA TailRange ==
  ASSUME NEW S, NEW q \in Seq(S), q # <<>>, IsInjective(q)
  PROVE  /\ Head(q) \in S
         /\ Head(q) \in Range(q)
         /\ Tail(q) \in Seq(S)
         /\ Range(Tail(q)) = Range(q) \ {Head(q)}
         /\ IsInjective(Tail(q))
<1> DEFINE p == Tail(q)
<1>1. /\ p \in Seq(S)
      /\ Len(q) \in Nat \ {0}
      /\ DOMAIN q = 1..Len(q)
      /\ DOMAIN p = 1..(Len(q) - 1)
      /\ \A i \in 1..(Len(q) - 1) : p[i] = q[i + 1]
      /\ Head(q) = q[1]
      /\ q[1] \in S
  OBVIOUS
<1>2. IsInjective(p)
  BY <1>1 DEF IsInjective
<1>3. Range(p) \subseteq Range(q) \ {Head(q)}
  BY <1>1 DEF Range, IsInjective
<1>4. Range(q) \ {Head(q)} \subseteq Range(p)
  <2> SUFFICES ASSUME NEW i \in 1..Len(q), q[i] # q[1]
               PROVE  q[i] \in Range(p)
    BY <1>1 DEF Range
  <2>1. i - 1 \in DOMAIN p /\ p[i - 1] = q[i]
    BY <1>1
  <2>. QED  BY <2>1 DEF Range
<1>5. Head(q) \in Range(q)
  BY <1>1 DEF Range
<1>. QED  BY <1>1, <1>2, <1>3, <1>4, <1>5

(* Calling the callback of a waiting read takes it out of Waiting. *)
LEMMA CallWaiting ==
  ASSUME TypeOK, NEW r \in Waiting, NEW o \in Contract!Outcome, Call(r, o),
         asked' = asked
  PROVE  /\ Waiting' = Waiting \ {r}
         /\ answers' \in [Reads -> Seq(Contract!Outcome)]
         /\ answers'[r] = <<o>>
         /\ \A x \in Reads \ {r} : answers'[x] = answers[x]
<1>1. r \in Reads /\ answers[r] = <<>>
  BY DEF Waiting, TypeOK
<1>2. answers' = [answers EXCEPT ![r] = <<o>>]
  BY <1>1 DEF Call, TypeOK
<1>3. <<o>> \in Seq(Contract!Outcome) /\ <<o>> # <<>>
  OBVIOUS
<1>4. /\ answers' \in [Reads -> Seq(Contract!Outcome)]
      /\ answers'[r] = <<o>>
      /\ \A x \in Reads \ {r} : answers'[x] = answers[x]
  BY <1>1, <1>2, <1>3 DEF TypeOK
<1>. QED  BY <1>3, <1>4 DEF Waiting, TypeOK

(* One stream more, or fewer. *)
LEMMA ActiveSize ==
  ASSUME TypeOK
  PROVE  /\ IsFiniteSet(active)
         /\ Cardinality(active) \in Nat
         /\ \A r : Cardinality(active \ {r}) <= Cardinality(active)
         /\ \A r : Cardinality(active \cup {r}) <= Cardinality(active) + 1
<1>1. IsFiniteSet(active)
  BY FS_Subset, HttpAssumption DEF TypeOK, HttpAssumption
<1>2. Cardinality(active) \in Nat
  BY <1>1, FS_CardinalityType
<1>3. ASSUME NEW r
      PROVE  /\ Cardinality(active \ {r}) <= Cardinality(active)
             /\ Cardinality(active \cup {r}) <= Cardinality(active) + 1
  <2>1. CASE r \in active
    <3>1. active \cup {r} = active
      BY <2>1
    <3>2. Cardinality(active \ {r}) = Cardinality(active) - 1
      BY <1>1, <2>1, FS_RemoveElement
    <3>. QED  BY <1>2, <3>1, <3>2
  <2>2. CASE r \notin active
    <3>1. active \ {r} = active
      BY <2>2
    <3>2. Cardinality(active \cup {r}) = Cardinality(active) + 1
      BY <1>1, <2>2, FS_AddElement
    <3>. QED  BY <1>2, <3>1, <3>2
  <2>. QED  BY <2>1, <2>2
<1>. QED  BY <1>1, <1>2, <1>3

-----------------------------------------------------------------------------
(* One lemma per action: the action preserves the inductive invariant. *)

LEMMA InitIInv == Init => IInv
<1> SUFFICES ASSUME Init PROVE IInv
  OBVIOUS
<1>1. Cardinality(active) = 0
  BY FS_EmptySet DEF Init
<1>2. TypeOK
  <2>1. /\ answers \in [Reads -> Seq(Contract!Outcome)]
        /\ pending \in Seq(Reads)
        /\ retryQueue \in Seq(Reads)
    BY DEF Init
  <2>2. /\ attempt \in [Reads -> Nat]
        /\ sent \in [Reads -> Nat]
        /\ overdue \in [Reads -> 0..3]
    BY DEF Init
  <2>3. pc \in PC /\ closed \in BOOLEAN
    BY DEF Init, PC
  <2>4. asked \subseteq Reads /\ stop \subseteq asked /\ active \subseteq Reads
          /\ unchecked \subseteq active
    BY DEF Init
  <2>. QED  BY <2>1, <2>2, <2>3, <2>4 DEF TypeOK
<1>5. Positions /\ Overdue
  BY DEF Init, Positions, Overdue
<1>6. Attempts
  BY DEF Init, Attempts, Range
<1>3. OneOwner
  BY DEF Init, OneOwner, Waiting, Range, IsInjective
<1>4. StreamsBounded
  BY <1>1, HttpAssumption DEF StreamsBounded, HttpAssumption
<1>. QED  BY <1>2, <1>3, <1>4, <1>5, <1>6 DEF IInv

LEMMA SubmitIInv == ASSUME NEW r \in Reads PROVE IInv /\ Submit(r) => IInv'
<1> SUFFICES ASSUME IInv, Submit(r) PROVE IInv'
  OBVIOUS
<1> USE DEF IInv
<1>1. r \notin Waiting /\ answers[r] = <<>>
  BY DEF Submit, Waiting, Positions
<1>2. r \notin Range(pending) \cup Range(retryQueue) \cup active
  BY <1>1 DEF OneOwner
<1>3. /\ pending' \in Seq(Reads)
      /\ Range(pending') = Range(pending) \cup {r}
      /\ IsInjective(pending')
  BY <1>2, AppendRange DEF Submit, TypeOK, OneOwner
<1>4. Waiting' = Waiting \cup {r}
  BY <1>1 DEF Submit, Waiting
<1>5. TypeOK'
  BY <1>3 DEF Submit, TypeOK
<1>6. OneOwner'
  BY <1>2, <1>3, <1>4 DEF Submit, OneOwner
<1>7. Positions' /\ Overdue' /\ StreamsBounded'
  BY DEF Submit, Positions, Overdue, StreamsBounded
<1>8. Attempts'
  BY <1>3 DEF Submit, Attempts
<1>. QED  BY <1>5, <1>6, <1>7, <1>8

LEMMA StopIInv == ASSUME NEW r \in Reads PROVE IInv /\ Stop(r) => IInv'
<1> SUFFICES ASSUME IInv, Stop(r) PROVE IInv'
  OBVIOUS
<1> USE DEF IInv
<1>1. TypeOK'
  BY DEF Stop, TypeOK, queueVars
<1>2. OneOwner' /\ StreamsBounded'
  BY DEF Stop, OneOwner, StreamsBounded, Waiting, queueVars
<1>3. Positions'
  BY DEF Stop, Positions, queueVars
<1>4. Attempts'
  BY DEF Stop, Attempts, queueVars
<1>5. Overdue'
  <2> SUFFICES ASSUME NEW x \in Reads
               PROVE  /\ overdue'[x] # 0 => x \in stop'
                      /\ overdue'[x] \in {1, 2} => answers[x] # <<>> \/ x \in active
                      /\ overdue'[x] = 2 =>
                           \/ answers[x] # <<>>
                           \/ pc \in {"admit", "retry", "failActive"}
                           \/ pc = "drop" /\ x \in unchecked
                      /\ overdue'[x] = 3 => answers[x] # <<>>
    BY DEF Stop, Overdue, queueVars
  <2>1. overdue'[x] = IF x = r THEN IF r \in active THEN 1 ELSE 0
                               ELSE overdue[x]
    BY DEF Stop, TypeOK
  <2>. QED  BY <2>1 DEF Stop, Overdue
<1>. QED  BY <1>1, <1>2, <1>3, <1>4, <1>5

(* Steps that only move pc, or close the store, and touch no request. *)
LEMMA FrameIInv ==
  ASSUME IInv, UNCHANGED <<asked, stop, answers, queueVars, attempt, sent>>,
         TypeOK', Positions', Overdue'
  PROVE  IInv'
<1>1. OneOwner' /\ StreamsBounded'
  BY DEF IInv, OneOwner, StreamsBounded, Waiting, queueVars
<1>2. Attempts'
  BY DEF IInv, Attempts, queueVars
<1>. QED  BY <1>1, <1>2 DEF IInv

LEMMA CloseIInv == IInv /\ Close => IInv'
<1> SUFFICES ASSUME IInv, Close PROVE IInv'
  OBVIOUS
<1>1. TypeOK' /\ Positions' /\ Overdue'
  BY DEF IInv, Close, TypeOK, Positions, Overdue, queueVars
<1>. QED  BY <1>1, FrameIInv DEF Close

LEMMA TopIInv == IInv /\ Top => IInv'
<1> SUFFICES ASSUME IInv, Top PROVE IInv'
  OBVIOUS
<1>1. TypeOK'
  BY DEF IInv, Top, TypeOK, PC, callerVars, queueVars
<1>2. Positions'
  BY DEF IInv, Top, Positions, callerVars, queueVars
<1>3. Overdue'
  <2> SUFFICES ASSUME NEW x \in Reads
               PROVE  /\ overdue'[x] # 0 => x \in stop
                      /\ overdue'[x] \in {1, 2} => answers[x] # <<>> \/ x \in active
                      /\ overdue'[x] = 2 => pc' \in {"admit", "failActive"}
                      /\ overdue'[x] = 3 => answers[x] # <<>>
    BY DEF Top, Overdue, callerVars, queueVars
  <2>1. overdue'[x] = IF overdue[x] \in {1, 2} THEN overdue[x] + 1
                                               ELSE overdue[x]
    BY DEF Top
  <2>2. overdue[x] \in 0..3
    BY DEF IInv, TypeOK
  <2>. QED  BY <2>1, <2>2 DEF IInv, Top, Overdue
<1>. QED  BY <1>1, <1>2, <1>3, FrameIInv DEF Top, callerVars

(* The steps from one part of the pass to the next. *)
PassStep ==
  PendingAdmitted \/ RetriesAdmitted \/ AllChecked \/ PassDone \/ ActiveFailed
    \/ ThreadDone

LEMMA PassStepIInv == IInv /\ PassStep => IInv'
<1> SUFFICES ASSUME IInv, PassStep PROVE IInv'
  OBVIOUS
<1> USE DEF IInv, callerVars, queueVars
<1>1. CASE PendingAdmitted
  BY <1>1, FrameIInv DEF PendingAdmitted, TypeOK, PC, Positions, Overdue
<1>2. CASE RetriesAdmitted
  BY <1>2, FrameIInv DEF RetriesAdmitted, TypeOK, PC, Positions, Overdue
<1>3. CASE AllChecked
  BY <1>3, FrameIInv DEF AllChecked, TypeOK, PC, Positions, Overdue
<1>4. CASE PassDone
  BY <1>4, FrameIInv DEF PassDone, TypeOK, PC, Positions, Overdue
<1>5. CASE ActiveFailed
  BY <1>5, FrameIInv DEF ActiveFailed, TypeOK, PC, Positions, Overdue
<1>6. CASE ThreadDone
  BY <1>6, FrameIInv DEF ThreadDone, TypeOK, PC, Positions, Overdue
<1>. QED  BY <1>1, <1>2, <1>3, <1>4, <1>5, <1>6 DEF PassStep

(* Starting a transfer for the request r that a queue has just given up:     *)
(* it is answered Cancelled or joins the active set.                         *)
LEMMA StartTransferLemma ==
  ASSUME IInv, NEW r \in Waiting, r \notin active, HasStream,
         StartTransfer(r), UNCHANGED <<asked, stop>>
  PROVE  /\ answers' \in [Reads -> Seq(Contract!Outcome)]
         /\ sent' \in [Reads -> Nat]
         /\ \A x \in Reads \ {r} : answers'[x] = answers[x] /\ sent'[x] = sent[x]
         /\ StreamsBounded'
         /\ \/ /\ r \in stop
               /\ active' = active
               /\ sent' = sent
               /\ Waiting' = Waiting \ {r}
               /\ answers'[r] # <<>>
            \/ /\ r \notin stop
               /\ active' = active \cup {r}
               /\ sent'[r] = sent[r] + 1
               /\ Waiting' = Waiting
               /\ answers' = answers
<1>1. TypeOK /\ r \in Reads
  BY DEF IInv, Waiting, TypeOK
<1>2. CASE r \in stop
  <2>1. Call(r, "Cancelled") /\ UNCHANGED <<active, sent>>
    BY <1>2 DEF StartTransfer
  <2>2. "Cancelled" \in Contract!Outcome
    BY DEF Contract!Outcome
  <2>3. /\ Waiting' = Waiting \ {r}
        /\ answers' \in [Reads -> Seq(Contract!Outcome)]
        /\ answers'[r] = <<"Cancelled">>
        /\ \A x \in Reads \ {r} : answers'[x] = answers[x]
    BY <1>1, <2>1, <2>2, CallWaiting
  <2>4. StreamsBounded' /\ sent' \in [Reads -> Nat]
    BY <2>1 DEF IInv, StreamsBounded, TypeOK
  <2>. QED  BY <1>2, <2>1, <2>3, <2>4
<1>3. CASE r \notin stop
  <2>1. /\ active' = active \cup {r}
        /\ sent' = [sent EXCEPT ![r] = @ + 1]
        /\ answers' = answers
    BY <1>3 DEF StartTransfer
  <2>2. StreamsBounded'
    <3>1. /\ Cardinality(active \cup {r}) \in Nat
          /\ Cardinality(active \cup {r}) <= Cardinality(active) + 1
          /\ Cardinality(active) \in Nat
      BY <1>1, ActiveSize, FS_AddElement, FS_CardinalityType
    <3>. QED  BY <2>1, <3>1, HttpAssumption
              DEF StreamsBounded, HasStream, HttpAssumption
  <2>3. Waiting' = Waiting
    BY <2>1 DEF Waiting
  <2>. QED  BY <1>1, <1>3, <2>1, <2>2, <2>3 DEF TypeOK
<1>. QED  BY <1>2, <1>3

LEMMA AdmitPendingIInv == IInv /\ AdmitPending => IInv'
<1> SUFFICES ASSUME IInv, AdmitPending PROVE IInv'
  OBVIOUS
<1> USE DEF IInv
<1> DEFINE r == Head(pending)
<1>1. /\ r \in Reads
      /\ r \in Range(pending)
      /\ pending' \in Seq(Reads)
      /\ Range(pending') = Range(pending) \ {r}
      /\ IsInjective(pending')
  BY TailRange DEF AdmitPending, TypeOK, OneOwner
<1>2. r \in Waiting /\ r \notin active /\ r \notin Range(retryQueue)
  BY <1>1 DEF OneOwner
<1> HIDE DEF r
<1>3. /\ answers' \in [Reads -> Seq(Contract!Outcome)]
      /\ sent' \in [Reads -> Nat]
      /\ \A x \in Reads \ {r} : answers'[x] = answers[x] /\ sent'[x] = sent[x]
      /\ StreamsBounded'
      /\ \/ /\ r \in stop
            /\ active' = active
            /\ sent' = sent
            /\ Waiting' = Waiting \ {r}
            /\ answers'[r] # <<>>
         \/ /\ r \notin stop
            /\ active' = active \cup {r}
            /\ sent'[r] = sent[r] + 1
            /\ Waiting' = Waiting
            /\ answers' = answers
  BY <1>2, StartTransferLemma DEF AdmitPending, r
<1>4. TypeOK'
  BY <1>1, <1>3 DEF AdmitPending, TypeOK
<1>5. OneOwner'
  BY <1>1, <1>2, <1>3 DEF AdmitPending, OneOwner
<1>6. Positions'
  BY <1>2, <1>3 DEF AdmitPending, Positions, Waiting
<1>7. Attempts'
  <2>1. UNCHANGED <<asked, retryQueue, attempt>> /\ r \in asked
    BY <1>2 DEF AdmitPending, Waiting
  <2>2. \A x \in Reads \ {r} :
          /\ sent'[x] = sent[x]
          /\ x \in active' <=> x \in active
    BY <1>3
  <2>3. \/ sent'[r] = sent[r] /\ r \notin active'
        \/ sent'[r] = sent[r] + 1 /\ r \in active'
    BY <1>2, <1>3
  <2>4. sent[r] = attempt[r] /\ attempt[r] \in Nat
    BY <1>1 DEF Attempts, TypeOK
  <2>. QED  BY <1>1, <1>2, <2>1, <2>2, <2>3, <2>4 DEF Attempts
<1>8. Overdue'
  BY <1>2, <1>3 DEF AdmitPending, Overdue
<1>. QED  BY <1>3, <1>4, <1>5, <1>6, <1>7, <1>8

LEMMA AdmitRetryIInv == IInv /\ AdmitRetry => IInv'
<1> SUFFICES ASSUME IInv, AdmitRetry PROVE IInv'
  OBVIOUS
<1> USE DEF IInv
<1> DEFINE r == Head(retryQueue)
<1>1. /\ r \in Reads
      /\ r \in Range(retryQueue)
      /\ retryQueue' \in Seq(Reads)
      /\ Range(retryQueue') = Range(retryQueue) \ {r}
      /\ IsInjective(retryQueue')
  BY TailRange DEF AdmitRetry, TypeOK, OneOwner
<1>2. r \in Waiting /\ r \notin active /\ r \notin Range(pending)
  BY <1>1 DEF OneOwner
<1> HIDE DEF r
<1>3. /\ answers' \in [Reads -> Seq(Contract!Outcome)]
      /\ sent' \in [Reads -> Nat]
      /\ \A x \in Reads \ {r} : answers'[x] = answers[x] /\ sent'[x] = sent[x]
      /\ StreamsBounded'
      /\ \/ /\ r \in stop
            /\ active' = active
            /\ sent' = sent
            /\ Waiting' = Waiting \ {r}
            /\ answers'[r] # <<>>
         \/ /\ r \notin stop
            /\ active' = active \cup {r}
            /\ sent'[r] = sent[r] + 1
            /\ Waiting' = Waiting
            /\ answers' = answers
  BY <1>2, StartTransferLemma DEF AdmitRetry, r
<1>4. TypeOK'
  BY <1>1, <1>3 DEF AdmitRetry, TypeOK
<1>5. OneOwner'
  BY <1>1, <1>2, <1>3 DEF AdmitRetry, OneOwner
<1>6. Positions'
  BY <1>2, <1>3 DEF AdmitRetry, Positions, Waiting
<1>7. Attempts'
  <2>1. UNCHANGED <<asked, pending, attempt>> /\ r \in asked
    BY <1>2 DEF AdmitRetry, Waiting
  <2>2. \A x \in Reads \ {r} :
          /\ sent'[x] = sent[x]
          /\ x \in active' <=> x \in active
    BY <1>3
  <2>3. \/ sent'[r] = sent[r] /\ r \notin active'
        \/ sent'[r] = sent[r] + 1 /\ r \in active'
    BY <1>2, <1>3
  <2>4. sent[r] = attempt[r] /\ attempt[r] \in Nat
    BY <1>1 DEF Attempts, TypeOK
  <2>. QED  BY <1>1, <1>2, <2>1, <2>2, <2>3, <2>4 DEF Attempts
<1>8. Overdue'
  BY <1>2, <1>3 DEF AdmitRetry, Overdue
<1>. QED  BY <1>3, <1>4, <1>5, <1>6, <1>7, <1>8

(* An active transfer ends with its callback. *)
LEMMA TransferAnswered ==
  ASSUME IInv, NEW r \in active, NEW o \in Contract!Outcome, Call(r, o),
         active' = active \ {r}, UNCHANGED <<asked, pending, retryQueue>>
  PROVE  /\ r \in Reads
         /\ OneOwner'
         /\ StreamsBounded'
         /\ answers' \in [Reads -> Seq(Contract!Outcome)]
         /\ answers'[r] # <<>>
         /\ \A x \in Reads \ {r} : answers'[x] = answers[x]
<1>1. r \in Waiting /\ TypeOK /\ r \in Reads
  BY DEF IInv, OneOwner, TypeOK
<1>2. /\ Waiting' = Waiting \ {r}
      /\ answers' \in [Reads -> Seq(Contract!Outcome)]
      /\ answers'[r] = <<o>>
      /\ \A x \in Reads \ {r} : answers'[x] = answers[x]
  BY <1>1, CallWaiting
<1>3. OneOwner'
  BY <1>2 DEF IInv, OneOwner
<1>4. StreamsBounded'
  <2>1. /\ Cardinality(active \ {r}) \in Nat
        /\ Cardinality(active \ {r}) <= Cardinality(active)
        /\ Cardinality(active) \in Nat
    BY <1>1, ActiveSize, FS_RemoveElement, FS_CardinalityType
  <2>. QED  BY <2>1, HttpAssumption DEF IInv, StreamsBounded, HttpAssumption
<1>. QED  BY <1>1, <1>2, <1>3, <1>4

LEMMA DropStoppedIInv ==
  ASSUME NEW r \in Reads PROVE IInv /\ DropStopped(r) => IInv'
<1> SUFFICES ASSUME IInv, DropStopped(r) PROVE IInv'
  OBVIOUS
<1> USE DEF IInv
<1>1. r \in active
  BY DEF DropStopped, TypeOK
<1>2. CASE r \in stop
  <2>1. "Cancelled" \in Contract!Outcome
    BY DEF Contract!Outcome
  <2>2. /\ OneOwner'
        /\ StreamsBounded'
        /\ answers' \in [Reads -> Seq(Contract!Outcome)]
        /\ answers'[r] # <<>>
        /\ \A x \in Reads \ {r} : answers'[x] = answers[x]
        /\ active' = active \ {r}
    BY <1>1, <1>2, <2>1, TransferAnswered DEF DropStopped
  <2>3. TypeOK' /\ Attempts'
    BY <2>2 DEF DropStopped, TypeOK, Attempts
  <2>4. Positions'
    BY <1>2, <2>2 DEF DropStopped, Positions, TypeOK
  <2>5. Overdue'
    BY <2>2 DEF DropStopped, Overdue
  <2>. QED  BY <2>2, <2>3, <2>4, <2>5
<1>3. CASE r \notin stop
  <2>1. UNCHANGED <<answers, active>>
    BY <1>3 DEF DropStopped
  <2>2. TypeOK' /\ Positions' /\ Attempts'
    BY <2>1 DEF DropStopped, TypeOK, Positions, Attempts
  <2>3. OneOwner' /\ StreamsBounded'
    BY <2>1 DEF DropStopped, OneOwner, StreamsBounded, Waiting
  <2>4. Overdue'
    BY <1>3, <2>1 DEF DropStopped, Overdue
  <2>. QED  BY <2>2, <2>3, <2>4
<1>. QED  BY <1>2, <1>3

LEMMA ReapIInv ==
  ASSUME NEW r \in Reads, NEW s \in Status PROVE IInv /\ Reap(r, s) => IInv'
<1> SUFFICES ASSUME IInv, Reap(r, s) PROVE IInv'
  OBVIOUS
<1> USE DEF IInv
<1>1. r \in active /\ r \in asked /\ r \in Waiting
  BY DEF Reap, OneOwner, Waiting
<1>2. CASE MayRetry(r, s)
  <2>1. r \notin stop /\ attempt[r] + 1 < MaxRetries
    BY <1>2 DEF MayRetry
  <2>2. /\ retryQueue' \in Seq(Reads)
        /\ Range(retryQueue') = Range(retryQueue) \cup {r}
        /\ IsInjective(retryQueue')
    <3>1. retryQueue' = Append(retryQueue, r)
      BY <1>2 DEF Reap, Requeue
    <3>2. r \notin Range(retryQueue)
      BY <1>1 DEF OneOwner
    <3>. QED  BY <3>1, <3>2, AppendRange DEF TypeOK, OneOwner
  <2>3. /\ attempt' \in [Reads -> Nat]
        /\ attempt'[r] = attempt[r] + 1
        /\ \A x \in Reads \ {r} : attempt'[x] = attempt[x]
        /\ answers' = answers
        /\ active' = active \ {r}
    <3>1. /\ attempt' = [attempt EXCEPT ![r] = @ + 1]
          /\ answers' = answers
          /\ active' = active \ {r}
      BY <1>2 DEF Reap
    <3>. QED  BY <3>1 DEF TypeOK
  <2>4. TypeOK'
    BY <2>2, <2>3 DEF Reap, TypeOK, Positions
  <2>5. OneOwner'
    BY <1>1, <2>2, <2>3 DEF Reap, OneOwner, Waiting
  <2>6. Positions'
    BY <2>3 DEF Reap, Positions
  <2>7. Attempts'
    BY <1>1, <2>1, <2>2, <2>3, HttpAssumption
    DEF Reap, Attempts, TypeOK, OneOwner, HttpAssumption
  <2>8. Overdue'
    BY <2>1, <2>3 DEF Reap, Overdue
  <2>9. StreamsBounded'
    <3>1. /\ Cardinality(active \ {r}) \in Nat
          /\ Cardinality(active \ {r}) <= Cardinality(active)
          /\ Cardinality(active) \in Nat
      BY ActiveSize, FS_RemoveElement, FS_CardinalityType
    <3>. QED  BY <2>3, <3>1, HttpAssumption DEF StreamsBounded, HttpAssumption
  <2>. QED  BY <2>4, <2>5, <2>6, <2>7, <2>8, <2>9
<1>3. CASE ~MayRetry(r, s)
  <2>1. Outcome(s) \in Contract!Outcome
    BY DEF Outcome, Status, Contract!Outcome
  <2>2. /\ OneOwner'
        /\ StreamsBounded'
        /\ answers' \in [Reads -> Seq(Contract!Outcome)]
        /\ answers'[r] # <<>>
        /\ \A x \in Reads \ {r} : answers'[x] = answers[x]
        /\ active' = active \ {r}
    BY <1>1, <1>3, <2>1, TransferAnswered DEF Reap
  <2>3. TypeOK' /\ Attempts'
    BY <1>3, <2>2 DEF Reap, TypeOK, Attempts, Positions
  <2>4. Positions'
    BY <1>1, <2>2 DEF Reap, Positions
  <2>5. Overdue'
    BY <2>2 DEF Reap, Overdue
  <2>. QED  BY <2>2, <2>3, <2>4, <2>5
<1>. QED  BY <1>2, <1>3

LEMMA FailActiveIInv ==
  ASSUME NEW r \in Reads PROVE IInv /\ FailActive(r) => IInv'
<1> SUFFICES ASSUME IInv, FailActive(r) PROVE IInv'
  OBVIOUS
<1> USE DEF IInv
<1>1. "Cancelled" \in Contract!Outcome
  BY DEF Contract!Outcome
<1>2. /\ OneOwner'
      /\ StreamsBounded'
      /\ answers' \in [Reads -> Seq(Contract!Outcome)]
      /\ answers'[r] # <<>>
      /\ \A x \in Reads \ {r} : answers'[x] = answers[x]
  BY <1>1, TransferAnswered DEF FailActive
<1>3. r \in asked
  BY DEF FailActive, OneOwner, Waiting
<1>4. TypeOK' /\ Attempts'
  BY <1>2 DEF FailActive, TypeOK, Attempts, Positions
<1>5. Positions'
  BY <1>2, <1>3 DEF FailActive, Positions
<1>6. Overdue'
  BY <1>2 DEF FailActive, Overdue
<1>. QED  BY <1>2, <1>4, <1>5, <1>6

LEMMA FailPendingIInv == IInv /\ FailPending => IInv'
<1> SUFFICES ASSUME IInv, FailPending PROVE IInv'
  OBVIOUS
<1> USE DEF IInv
<1> DEFINE r == Head(pending)
<1>1. /\ r \in Reads
      /\ r \in Range(pending)
      /\ pending' \in Seq(Reads)
      /\ Range(pending') = Range(pending) \ {r}
      /\ IsInjective(pending')
  BY TailRange DEF FailPending, TypeOK, OneOwner
<1>2. r \in Waiting /\ r \notin active /\ r \notin Range(retryQueue)
  BY <1>1 DEF OneOwner
<1> HIDE DEF r
<1>3. /\ Waiting' = Waiting \ {r}
      /\ answers' \in [Reads -> Seq(Contract!Outcome)]
      /\ answers'[r] # <<>>
      /\ \A x \in Reads \ {r} : answers'[x] = answers[x]
  <2>1. "Cancelled" \in Contract!Outcome
    BY DEF Contract!Outcome
  <2>2. Call(r, "Cancelled") /\ asked' = asked
    BY DEF FailPending, r
  <2>3. TypeOK
    OBVIOUS
  <2>4. /\ Waiting' = Waiting \ {r}
        /\ answers' \in [Reads -> Seq(Contract!Outcome)]
        /\ answers'[r] = <<"Cancelled">>
        /\ \A x \in Reads \ {r} : answers'[x] = answers[x]
    <3> HIDE DEF IInv
    <3>. QED  BY <1>2, <2>1, <2>2, <2>3, CallWaiting
  <2>5. <<"Cancelled">> # <<>>
    OBVIOUS
  <2>. QED  BY <2>4, <2>5
<1>4. TypeOK'
  BY <1>1, <1>3 DEF FailPending, TypeOK
<1>5. OneOwner'
  BY <1>1, <1>2, <1>3 DEF FailPending, OneOwner
<1>6. Positions'
  BY <1>2, <1>3 DEF FailPending, Positions, Waiting
<1>7. Attempts'
  BY <1>1 DEF FailPending, Attempts
<1>8. Overdue' /\ StreamsBounded'
  BY <1>3 DEF FailPending, Overdue, StreamsBounded
<1>. QED  BY <1>4, <1>5, <1>6, <1>7, <1>8

-----------------------------------------------------------------------------
LEMMA NextIInv == IInv /\ [Next]_vars => IInv'
<1> SUFFICES ASSUME IInv, [Next]_vars PROVE IInv'
  OBVIOUS
<1>1. ASSUME NEW r \in Reads, Submit(r) \/ Stop(r) PROVE IInv'
  BY <1>1, SubmitIInv, StopIInv
<1>2. CASE Close
  BY <1>2, CloseIInv
<1>3. CASE Loop
  <2>1. CASE Top
    BY <2>1, TopIInv
  <2>2. CASE Admission
    BY <2>2, AdmitPendingIInv, AdmitRetryIInv, PassStepIInv
    DEF Admission, PassStep
  <2>3. CASE AllChecked \/ PassDone
    BY <2>3, PassStepIInv DEF PassStep
  <2>4. ASSUME NEW r \in Reads, DropStopped(r) PROVE IInv'
    BY <2>4, DropStoppedIInv
  <2>5. ASSUME NEW r \in Reads, NEW s \in Status, Reap(r, s) PROVE IInv'
    BY <2>5, ReapIInv
  <2>6. CASE Shutdown
    BY <2>6, PassStepIInv, FailPendingIInv, FailActiveIInv
    DEF Shutdown, PassStep
  <2>. QED  BY <1>3, <2>1, <2>2, <2>3, <2>4, <2>5, <2>6 DEF Loop
<1>4. CASE UNCHANGED vars
  <2>1. TypeOK'
    BY <1>4 DEF IInv, vars, callerVars, queueVars, TypeOK
  <2>2. Positions' /\ Overdue'
    BY <1>4 DEF IInv, vars, callerVars, queueVars, Positions, Overdue
  <2>. QED  BY <1>4, <2>1, <2>2, FrameIInv DEF vars, callerVars
<1>5. CASE Terminated
  BY <1>4, <1>5 DEF Terminated
<1>. QED  BY <1>1, <1>2, <1>3, <1>4, <1>5 DEF Next

(* The inductive invariant holds throughout. *)
THEOREM StoreInvariant == Spec => []IInv
<1>. QED  BY InitIInv, NextIInv, PTL DEF Spec

(* Every unanswered read is in exactly one of pending_, the active transfers *)
(* and the retry queue, and an answered one in none, so that its callback    *)
(* cannot be called again: for any number of reads, streams and retries.     *)
THEOREM EachReadHasOneOwner == Spec => []OneOwner
<1>1. IInv => OneOwner
  BY DEF IInv
<1>. QED  BY <1>1, StoreInvariant, PTL

(* The server never sees more transfers at once than the cap, nor a request  *)
(* more often than maxRetries allows.                                        *)
THEOREM ServerLoadBounded == Spec => []LoadBounded
<1>1. IInv => LoadBounded
  <2> SUFFICES ASSUME IInv PROVE LoadBounded
    OBVIOUS
  <2>1. ASSUME NEW r \in Reads
        PROVE  /\ sent[r] <= MaxRetries \/ sent[r] = 1
               /\ r \in active => sent[r] = attempt[r] + 1
    <3>1. /\ attempt[r] \in Nat
          /\ sent[r] \in Nat
          /\ sent[r] <= attempt[r] + 1
          /\ attempt[r] = 0 \/ attempt[r] < MaxRetries
          /\ r \in active => sent[r] = attempt[r] + 1
      BY DEF IInv, TypeOK, Attempts
    <3>2. \A x \in Range(retryQueue) : x \in Reads
      BY DEF IInv, TypeOK, Range
    <3>3. attempt[r] = 0 => sent[r] <= 1
      BY <3>1
    <3>4. sent[r] = 0 => sent[r] <= MaxRetries
      BY HttpAssumption DEF HttpAssumption
    <3>. QED  BY <3>1, <3>3, <3>4, HttpAssumption DEF HttpAssumption
  <2>. QED  BY <2>1 DEF LoadBounded, IInv, StreamsBounded
<1>. QED  BY <1>1, StoreInvariant, PTL

(* A transfer told to stop has been answered when the pass after the next    *)
(* loop iteration begins.                                                    *)
THEOREM CancellationIsPrompt == Spec => []PromptCancel
<1>1. IInv => PromptCancel
  BY DEF IInv, Overdue, PromptCancel
<1>. QED  BY <1>1, StoreInvariant, PTL

-----------------------------------------------------------------------------
(* Refinement: to its callers the curl thread's work is a sequence of single *)
(* answers.                                                                  *)

(* Calling the callback of a read that may be answered with o is a step of   *)
(* the contract.                                                             *)
LEMMA CallIsAnswer ==
  ASSUME IInv, NEW r \in Waiting, NEW o \in Contract!Outcome, Call(r, o),
         o = "Cancelled" => r \in stop \/ closed,
         UNCHANGED <<asked, stop, closed>>
  PROVE  Contract!Next
<1>1. r \in Reads /\ r \in asked /\ answers[r] = <<>>
  BY DEF IInv, TypeOK, Waiting
<1>2. answers' = [answers EXCEPT ![r] = <<o>>]
  BY <1>1 DEF IInv, TypeOK, Call
<1>3. Contract!Answer(r)
  BY <1>1, <1>2 DEF Contract!Answer, Contract!Answered
<1>. QED  BY <1>1, <1>3 DEF Contract!Next

LEMMA NextRefines == IInv /\ [Next]_vars => [Contract!Next]_(Contract!contractVars)
<1> SUFFICES ASSUME IInv, [Next]_vars
             PROVE  Contract!Next \/ UNCHANGED <<asked, stop, answers, closed>>
  BY DEF Contract!contractVars
<1> USE DEF callerVars
<1>1. ASSUME NEW r \in Reads, Submit(r) PROVE Contract!Ask(r)
  BY <1>1 DEF Submit, Contract!Ask
<1>2. ASSUME NEW r \in Reads, Stop(r) PROVE Contract!Stop(r)
  BY <1>2 DEF Stop, Contract!Stop
<1>3. CASE Close
  BY <1>3 DEF Close, Contract!Close, Contract!Next
<1>4. "Cancelled" \in Contract!Outcome
  BY DEF Contract!Outcome
<1>5. ASSUME NEW q \in Seq(Reads), q # <<>> PROVE Head(q) \in Range(q)
  <2>1. 1 \in DOMAIN q /\ Head(q) = q[1]
    BY <1>5
  <2>. QED  BY <2>1 DEF Range
<1>6. ASSUME NEW r \in Waiting, StartTransfer(r), UNCHANGED <<asked, stop, closed>>
      PROVE  Contract!Next \/ UNCHANGED <<asked, stop, answers, closed>>
  BY <1>4, <1>6, CallIsAnswer DEF StartTransfer
<1>7. CASE AdmitPending
  <2>1. Head(pending) \in Waiting
    BY <1>5, <1>7 DEF AdmitPending, IInv, TypeOK, OneOwner
  <2>. QED  BY <1>6, <1>7, <2>1 DEF AdmitPending
<1>8. CASE AdmitRetry
  <2>1. Head(retryQueue) \in Waiting
    BY <1>5, <1>8 DEF AdmitRetry, IInv, TypeOK, OneOwner
  <2>. QED  BY <1>6, <1>8, <2>1 DEF AdmitRetry
<1>9. CASE FailPending
  <2>1. Head(pending) \in Waiting
    BY <1>5, <1>9 DEF FailPending, IInv, TypeOK, OneOwner
  <2>2. closed
    BY <1>9 DEF FailPending, IInv, Positions
  <2>. QED  BY <1>4, <1>9, <2>1, <2>2, CallIsAnswer DEF FailPending
<1>10. ASSUME NEW r \in Reads, FailActive(r) PROVE Contract!Next
  <2>1. r \in Waiting /\ closed
    BY <1>10 DEF FailActive, IInv, OneOwner, Positions
  <2>. QED  BY <1>4, <1>10, <2>1, CallIsAnswer DEF FailActive
<1>11. ASSUME NEW r \in Reads, DropStopped(r)
       PROVE  Contract!Next \/ UNCHANGED <<asked, stop, answers, closed>>
  <2>1. r \in Waiting
    BY <1>11 DEF DropStopped, IInv, OneOwner, TypeOK
  <2>. QED  BY <1>4, <1>11, <2>1, CallIsAnswer DEF DropStopped
<1>12. ASSUME NEW r \in Reads, NEW s \in Status, Reap(r, s)
       PROVE  Contract!Next \/ UNCHANGED <<asked, stop, answers, closed>>
  <2>1. r \in Waiting
    BY <1>12 DEF Reap, IInv, OneOwner
  <2>2. Outcome(s) \in Contract!Outcome /\ Outcome(s) # "Cancelled"
    BY DEF Outcome, Status, Contract!Outcome
  <2>. QED  BY <1>12, <2>1, <2>2, CallIsAnswer DEF Reap
<1>13. Top \/ PassStep \/ Terminated => UNCHANGED <<asked, stop, answers, closed>>
  BY DEF Top, PassStep, PendingAdmitted, RetriesAdmitted, AllChecked, PassDone,
         ActiveFailed, ThreadDone, Terminated, vars
<1>14. CASE Loop
  BY <1>7, <1>8, <1>9, <1>10, <1>11, <1>12, <1>13, <1>14
  DEF Loop, Admission, Shutdown, PassStep
<1>15. CASE UNCHANGED vars
  BY <1>15 DEF vars
<1>. QED  BY <1>1, <1>2, <1>3, <1>13, <1>14, <1>15 DEF Next, Contract!Next

(* The remote store implements the contract every caller relies on: each     *)
(* read is answered at most once, with Cancelled only when it was told to    *)
(* stop or the store is closing.                                             *)
THEOREM StoreImplementsContract == Spec => ImplementsContract
<1>1. Init => Contract!Init
  BY DEF Init, Contract!Init
<1>. QED
  BY <1>1, NextRefines, StoreInvariant, PTL
  DEF Spec, ImplementsContract, Contract!Spec

=============================================================================

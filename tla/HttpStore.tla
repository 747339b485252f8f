----------------------------- MODULE HttpStore -----------------------------
(***************************************************************************)
(* The remote store (store/HttpStore): callers append requests to pending_, *)
(* one curl thread moves them into a bounded set of active transfers, drops *)
(* the ones told to stop, reaps the ones curl has finished, and queues the   *)
(* ones worth another attempt for a retry.                                   *)
(*                                                                         *)
(* Actors: the callers (Submit, Stop, and Close, the destructor) and the     *)
(* curl thread, whose position in loop() is pc.  Each request it looks at is *)
(* a step, because the caller can set the stop token between any two; while  *)
(* it holds mutex_ (pc "admit" and "failPending") no Submit can run.         *)
(*                                                                         *)
(* A request is one call of read() or readRange(): what it reads is left out *)
(* and a server's answer is one of the six cases finishTransfer tells apart. *)
(* Callbacks do not call the store back (in the viewer DiskCacheStore stands *)
(* between, and posts every read to another thread).                         *)
(*                                                                         *)
(* TopIgnoresStop, DropStoppedReusesIterator, DropStoppedKeepsEntry,         *)
(* MayRetryStopped and RequeueLost are faulty variants of the definitions    *)
(* they precede; nothing uses them.                                          *)
(***************************************************************************)
EXTENDS Naturals, Sequences, FiniteSets, Functions

CONSTANTS
  Reads,                 \* the calls of read() and readRange()
  MaxConcurrentStreams,  \* config_.maxConcurrentStreams
  MaxRetries             \* config_.maxRetries: attempts, the first included

ASSUME HttpAssumption ==
  /\ IsFiniteSet(Reads)
  /\ MaxConcurrentStreams \in Nat \ {0}
  /\ MaxRetries \in Nat

VARIABLES
  asked,       \* reads that have been called
  stop,        \* reads whose stop token is set
  answers,     \* what each read's callback was called with, in order
  closed,      \* thread_.request_stop() has been called by the destructor
  pc,          \* where the curl thread is
  pending,     \* pending_
  retryQueue,  \* retryQueue
  active,      \* the requests of the active transfers
  unchecked,   \* active transfers the pass for cancelled ones has not seen
  attempt,     \* Request::attempt
  sent,        \* history: how often each request reached the server
  overdue      \* history: passes since a transfer was told to stop

callerVars == <<asked, stop, answers, closed>>
queueVars  == <<pending, retryQueue, active>>
vars == <<callerVars, pc, queueVars, unchecked, attempt, sent, overdue>>

Contract == INSTANCE StoreContract

-----------------------------------------------------------------------------
(* What curl reports of a finished transfer. *)
Status == {"transport error", "5xx or 429", "404 or 403", "401", "other",
           "2xx"}

Retryable == {"transport error", "5xx or 429"}

Outcome(status) ==
  CASE status = "404 or 403" -> "NotFound"
    [] status = "401"        -> "Auth"
    [] status = "2xx"        -> "Bytes"
    [] OTHER                 -> "Http"

PC == {"top", "admit", "retry", "drop", "reap", "failActive", "failPending",
       "done"}

HasStream == Cardinality(active) < MaxConcurrentStreams

(* The callback of r is called with outcome o. *)
Call(r, o) == answers' = [answers EXCEPT ![r] = Append(@, o)]

-----------------------------------------------------------------------------
(* The callers. *)

Submit(r) ==
  /\ ~closed
  /\ pc \notin {"admit", "failPending"}
  /\ r \notin asked
  /\ asked' = asked \cup {r}
  /\ pending' = Append(pending, r)
  /\ UNCHANGED <<stop, answers, closed, pc, retryQueue, active, unchecked,
                 attempt, sent, overdue>>

(* overdue counts from a stop that reaches an active transfer. *)
Stop(r) ==
  /\ r \in asked \ stop
  /\ stop' = stop \cup {r}
  /\ overdue' = [overdue EXCEPT ![r] = IF r \in active THEN 1 ELSE 0]
  /\ UNCHANGED <<asked, answers, closed, pc, queueVars, unchecked, attempt,
                 sent>>

Close ==
  /\ ~closed
  /\ closed' = TRUE
  /\ UNCHANGED <<asked, stop, answers, pc, queueVars, unchecked, attempt, sent,
                 overdue>>

-----------------------------------------------------------------------------
(* The curl thread: one pass of the loop. *)

TopIgnoresStop ==
  /\ pc = "top"
  /\ pc' = "admit"
  /\ UNCHANGED <<callerVars, queueVars, unchecked, attempt, sent, overdue>>

Top ==
  /\ pc = "top"
  /\ pc' = IF closed THEN "failActive" ELSE "admit"
  /\ overdue' = [r \in Reads |->
                  IF overdue[r] \in {1, 2} THEN overdue[r] + 1 ELSE overdue[r]]
  /\ UNCHANGED <<callerVars, queueVars, unchecked, attempt, sent>>

(* startTransfer(): a request already told to stop is answered at once. *)
StartTransfer(r) ==
  IF r \in stop
  THEN Call(r, "Cancelled") /\ UNCHANGED <<active, sent>>
  ELSE /\ active' = active \cup {r}
       /\ sent' = [sent EXCEPT ![r] = @ + 1]
       /\ UNCHANGED answers

AdmitPending ==
  /\ pc = "admit"
  /\ pending # <<>>
  /\ HasStream
  /\ StartTransfer(Head(pending))
  /\ pending' = Tail(pending)
  /\ UNCHANGED <<asked, stop, closed, pc, retryQueue, unchecked, attempt,
                 overdue>>

PendingAdmitted ==
  /\ pc = "admit"
  /\ pending = <<>> \/ ~HasStream
  /\ pc' = "retry"
  /\ UNCHANGED <<callerVars, queueVars, unchecked, attempt, sent, overdue>>

AdmitRetry ==
  /\ pc = "retry"
  /\ retryQueue # <<>>
  /\ HasStream
  /\ StartTransfer(Head(retryQueue))
  /\ retryQueue' = Tail(retryQueue)
  /\ UNCHANGED <<asked, stop, closed, pc, pending, unchecked, attempt, overdue>>

RetriesAdmitted ==
  /\ pc = "retry"
  /\ retryQueue = <<>> \/ ~HasStream
  /\ pc' = "drop"
  /\ unchecked' = active
  /\ UNCHANGED <<callerVars, queueVars, attempt, sent, overdue>>

(* The walk over the active transfers, in the map's order. *)
DropStoppedKeepsEntry(r) ==
  /\ pc = "drop"
  /\ r \in unchecked
  /\ unchecked' = unchecked \ {r}
  /\ IF r \in stop THEN Call(r, "Cancelled") ELSE UNCHANGED answers
  /\ UNCHANGED <<asked, stop, closed, pc, queueVars, attempt, sent, overdue>>

DropStoppedReusesIterator(r) ==
  /\ pc = "drop"
  /\ r \in unchecked
  /\ IF r \in stop
     THEN Call(r, "Cancelled") /\ active' = active \ {r} /\ UNCHANGED unchecked
     ELSE unchecked' = unchecked \ {r} /\ UNCHANGED <<answers, active>>
  /\ UNCHANGED <<asked, stop, closed, pc, pending, retryQueue, attempt, sent,
                 overdue>>

DropStopped(r) ==
  /\ pc = "drop"
  /\ r \in unchecked
  /\ unchecked' = unchecked \ {r}
  /\ IF r \in stop
     THEN Call(r, "Cancelled") /\ active' = active \ {r}
     ELSE UNCHANGED <<answers, active>>
  /\ UNCHANGED <<asked, stop, closed, pc, pending, retryQueue, attempt, sent,
                 overdue>>

AllChecked ==
  /\ pc = "drop"
  /\ unchecked = {}
  /\ pc' = "reap"
  /\ UNCHANGED <<callerVars, queueVars, unchecked, attempt, sent, overdue>>

(* finishTransfer(). *)
MayRetryStopped(r, status) ==
  /\ status \in Retryable
  /\ attempt[r] + 1 < MaxRetries

MayRetry(r, status) ==
  /\ status \in Retryable
  /\ attempt[r] + 1 < MaxRetries
  /\ r \notin stop

RequeueLost(r) == retryQueue' = retryQueue
Requeue(r) == retryQueue' = Append(retryQueue, r)

Reap(r, status) ==
  /\ pc = "reap"
  /\ r \in active
  /\ active' = active \ {r}
  /\ IF MayRetry(r, status)
     THEN /\ attempt' = [attempt EXCEPT ![r] = @ + 1]
          /\ Requeue(r)
          /\ UNCHANGED answers
     ELSE /\ Call(r, Outcome(status))
          /\ UNCHANGED <<attempt, retryQueue>>
  /\ UNCHANGED <<asked, stop, closed, pc, pending, unchecked, sent, overdue>>

PassDone ==
  /\ pc = "reap"
  /\ pc' = "top"
  /\ UNCHANGED <<callerVars, queueVars, unchecked, attempt, sent, overdue>>

(* After the loop: what is active, then what is pending. *)
FailActive(r) ==
  /\ pc = "failActive"
  /\ r \in active
  /\ active' = active \ {r}
  /\ Call(r, "Cancelled")
  /\ UNCHANGED <<asked, stop, closed, pc, pending, retryQueue, unchecked,
                 attempt, sent, overdue>>

ActiveFailed ==
  /\ pc = "failActive"
  /\ active = {}
  /\ pc' = "failPending"
  /\ UNCHANGED <<callerVars, queueVars, unchecked, attempt, sent, overdue>>

FailPending ==
  /\ pc = "failPending"
  /\ pending # <<>>
  /\ Call(Head(pending), "Cancelled")
  /\ pending' = Tail(pending)
  /\ UNCHANGED <<asked, stop, closed, pc, retryQueue, active, unchecked,
                 attempt, sent, overdue>>

ThreadDone ==
  /\ pc = "failPending"
  /\ pending = <<>>
  /\ pc' = "done"
  /\ UNCHANGED <<callerVars, queueVars, unchecked, attempt, sent, overdue>>

Terminated == pc = "done" /\ UNCHANGED vars

-----------------------------------------------------------------------------
Init ==
  /\ asked = {}
  /\ stop = {}
  /\ answers = [r \in Reads |-> <<>>]
  /\ closed = FALSE
  /\ pc = "top"
  /\ pending = <<>>
  /\ retryQueue = <<>>
  /\ active = {}
  /\ unchecked = {}
  /\ attempt = [r \in Reads |-> 0]
  /\ sent = [r \in Reads |-> 0]
  /\ overdue = [r \in Reads |-> 0]

Admission == AdmitPending \/ PendingAdmitted \/ AdmitRetry \/ RetriesAdmitted

Shutdown ==
  ActiveFailed \/ FailPending \/ ThreadDone \/ \E r \in Reads : FailActive(r)

Loop ==
  \/ Top
  \/ Admission
  \/ \E r \in Reads : DropStopped(r)
  \/ AllChecked
  \/ \E r \in Reads, s \in Status : Reap(r, s)
  \/ PassDone
  \/ Shutdown

Next ==
  \/ \E r \in Reads : Submit(r) \/ Stop(r)
  \/ Close
  \/ Loop
  \/ Terminated

Spec == Init /\ [][Next]_vars

(* The curl thread runs, and curl finishes every transfer: it sets           *)
(* CURLOPT_TIMEOUT_MS on each.  A transfer can only be reaped in the reap    *)
(* part of a pass, hence the strong fairness.  Nothing forces callers.       *)
Fairness ==
  /\ WF_vars(Loop)
  /\ \A r \in Reads : SF_vars(\E s \in Status : Reap(r, s))

FairSpec == Spec /\ Fairness

-----------------------------------------------------------------------------
(* Properties. *)

Waiting == {r \in asked : answers[r] = <<>>}

TypeOK ==
  /\ asked \subseteq Reads
  /\ stop \subseteq asked
  /\ answers \in [Reads -> Seq(Contract!Outcome)]
  /\ closed \in BOOLEAN
  /\ pc \in PC
  /\ pending \in Seq(Reads)
  /\ retryQueue \in Seq(Reads)
  /\ active \subseteq Reads
  /\ unchecked \subseteq active
  /\ attempt \in [Reads -> Nat]
  /\ sent \in [Reads -> Nat]
  /\ overdue \in [Reads -> 0..3]

(* OneOwner: a request moves between the two queues and the active set, some *)
(* of the moves made by the caller under the lock and some by the curl       *)
(* thread without it.  A read that has not been answered is in exactly one   *)
(* of the three, once, and an answered one is in none: no callback is lost   *)
(* and none can be called twice.  (retryQueue is a local of loop(), dropped  *)
(* unanswered when the thread is done: a request that waits for its next     *)
(* attempt then is the one that gets no callback.)                           *)
OneOwner ==
  /\ Range(pending) \cup Range(retryQueue) \cup active = Waiting
  /\ Range(pending) \cap Range(retryQueue) = {}
  /\ active \cap (Range(pending) \cup Range(retryQueue)) = {}
  /\ IsInjective(pending)
  /\ IsInjective(retryQueue)

(* LoadBounded: retries and fresh requests compete for the same streams and  *)
(* are admitted by two loops.  The server never sees more transfers at once  *)
(* than the cap, nor any request more often than maxRetries (one attempt is  *)
(* made even if maxRetries is 0).                                            *)
LoadBounded ==
  /\ Cardinality(active) <= MaxConcurrentStreams
  /\ \A r \in Reads :
       /\ sent[r] <= MaxRetries \/ sent[r] = 1
       /\ r \in active => sent[r] = attempt[r] + 1

(* PromptCancel: HttpStore.h:22 says cancellation "is exact: the transfer is *)
(* removed from the multi handle on the next loop iteration".  A transfer    *)
(* told to stop may finish first, and may not be put aside for a retry; it   *)
(* has been answered when the pass after that iteration begins.              *)
PromptCancel == \A r \in Reads : overdue[r] = 3 => answers[r] # <<>>

(* ImplementsContract: the store as its callers see it answers each read at  *)
(* most once, and Cancelled only when it was told to stop or is closing.     *)
ImplementsContract == Contract!Spec

(* EveryReadAnswered: with the server failing as often as it likes, a read   *)
(* is answered unless the store is closed.  The number of reads is finite    *)
(* here: an endless supply of fresh reads, which are admitted before         *)
(* retries, can keep a retry waiting for ever.                               *)
EveryReadAnswered ==
  \A r \in Reads : r \in asked ~> answers[r] # <<>> \/ closed

(* CloseReturns: the destructor joins the curl thread.                       *)
CloseReturns == closed ~> pc = "done"

=============================================================================

------------------------ MODULE FetchPipelineProofs ------------------------
(***************************************************************************)
(* Proofs about FetchPipeline, for every set of keys, priorities and decode *)
(* threads and every value of the caps.                                     *)
(*                                                                         *)
(* TypeOK is not inductive alone: that a counter stays a natural number     *)
(* when a handler decrements it follows from Accounting, and that the       *)
(* handler's key is in the state it should be in from OneJobPerKey.  The    *)
(* inductive invariant IInv is the conjunction of the safety properties.    *)
(*                                                                         *)
(* After that: fetches start in priority order; HandedOver, a second        *)
(* invariant that stands on IInv, says that readyPinnedBytes_ is exact and  *)
(* that no entry of the request map is newer than the last submit; and with *)
(* both, the pipeline is shown to implement BrickDelivery, action by        *)
(* action.                                                                  *)
(***************************************************************************)
EXTENDS FetchPipeline, FiniteSetTheorems, TLAPS

IInv == /\ TypeOK
        /\ Accounting
        /\ OneJobPerKey
        /\ NoLostRequest
        /\ SomeoneOwesAPump
        /\ BoundedWork

-----------------------------------------------------------------------------
(* What a handler has established when it calls pump, of the values it     *)
(* passes. *)
PumpPre(tr, hp, epoch, inflight, decodes, pinned, pending, rds) ==
  /\ tr \in [Keys -> Tracked]
  /\ hp \subseteq HeapEntry
  /\ epoch \in Nat
  /\ inflight \in Nat
  /\ decodes \in Nat
  /\ pinned \in Nat
  /\ rds \in [Keys -> Nat]
  /\ inflight = Cardinality(InState(tr, "Fetching"))
  /\ pending = inflight
  /\ \A k \in Keys : rds[k] = IF tr[k].state = "Fetching" THEN 1 ELSE 0
  /\ \A k \in InState(tr, "Queued") :
        [key |-> k, priority |-> tr[k].priority] \in hp
  /\ inflight <= MaxInflightFetches
  /\ inflight + decodes <= MaxInflightFetches + MaxQueuedDecodes - 1
  /\ inflight + decodes + pinned
       <= MaxInflightFetches + MaxQueuedDecodes + MaxReadyPinned - 2

(* What holds when it returns. *)
PumpPost(tr, decodes, pinned) ==
  /\ tracked' \in [Keys -> Tracked]
  /\ heap' \subseteq HeapEntry
  /\ inflightFetches' \in Nat
  /\ pendingStoreCallbacks' = inflightFetches'
  /\ reads' \in [Keys -> Nat]
  /\ inflightFetches' = Cardinality(InState(tracked', "Fetching"))
  /\ \A k \in Keys :
        reads'[k] = IF tracked'[k].state = "Fetching" THEN 1 ELSE 0
  /\ InState(tracked', "Decoding") = InState(tr, "Decoding")
  /\ \A k \in InState(tracked', "Queued") :
        [key |-> k, priority |-> tracked'[k].priority] \in heap'
  /\ heap' # {} => \/ inflightFetches' = MaxInflightFetches
                   \/ decodes > 0
                   \/ pinned >= MaxReadyPinned
  /\ inflightFetches' <= MaxInflightFetches
  /\ inflightFetches' + decodes <= MaxInflightFetches + MaxQueuedDecodes - 1
  /\ inflightFetches' + decodes + pinned
       <= MaxInflightFetches + MaxQueuedDecodes + MaxReadyPinned - 2

(* Sets of keys are finite, so their sizes are naturals. *)
LEMMA InStateFinite ==
  ASSUME NEW tr, NEW s
  PROVE  /\ IsFiniteSet(InState(tr, s))
         /\ Cardinality(InState(tr, s)) \in Nat
<1>1. InState(tr, s) \in SUBSET Keys
  BY DEF InState
<1>2. IsFiniteSet(InState(tr, s))
  BY <1>1, FS_Subset, PipelineAssumption DEF PipelineAssumption
<1>. QED  BY <1>2, FS_CardinalityType

(* pump() keeps the counters equal to what they count, drops no current     *)
(* entry of a queued key, never starts a fetch past a cap and returns with  *)
(* an empty heap or a closed cap.                                           *)
LEMMA PumpLemma ==
  ASSUME NEW tr, NEW hp, NEW epoch, NEW inflight, NEW decodes, NEW pinned,
         NEW pending, NEW rds,
         PumpPre(tr, hp, epoch, inflight, decodes, pinned, pending, rds),
         Pump(tr, hp, epoch, inflight, decodes, pinned, pending, rds)
  PROVE  PumpPost(tr, decodes, pinned)
<1> DEFINE room == Room(inflight, decodes, pinned)
<1>1. PICK popped \in Poppable(tr, hp, epoch, room) :
        LET started == Started(tr, epoch, popped)
            expired == Expired(tr, epoch, popped)
        IN  /\ heap' = hp \ popped
            /\ tracked' =
                 [k \in Keys |->
                   IF k \in started
                   THEN [tr[k] EXCEPT !.state = "Fetching", !.stop = FALSE]
                   ELSE IF k \in expired THEN Untracked ELSE tr[k]]
            /\ inflightFetches' = inflight + Cardinality(started)
            /\ pendingStoreCallbacks' = pending + Cardinality(started)
            /\ reads' = [k \in Keys |->
                          rds[k] + (IF k \in started THEN 1 ELSE 0)]
  BY DEF Pump
<1> DEFINE started == Started(tr, epoch, popped)
           expired == Expired(tr, epoch, popped)
           n == Cardinality(started)
<1>a. /\ heap' = hp \ popped
      /\ inflightFetches' = inflight + n
      /\ pendingStoreCallbacks' = pending + n
  BY <1>1
<1>b. reads' = [k \in Keys |-> rds[k] + (IF k \in started THEN 1 ELSE 0)]
  BY <1>1
<1>c. /\ inflight \in Nat
      /\ decodes \in Nat
      /\ pinned \in Nat
      /\ pending = inflight
      /\ inflight <= MaxInflightFetches
      /\ inflight + decodes <= MaxInflightFetches + MaxQueuedDecodes - 1
      /\ inflight + decodes + pinned
           <= MaxInflightFetches + MaxQueuedDecodes + MaxReadyPinned - 2
      /\ MaxInflightFetches \in Nat \ {0}
      /\ MaxQueuedDecodes \in Nat \ {0}
      /\ MaxReadyPinned \in Nat \ {0}
  BY PipelineAssumption DEF PumpPre, PipelineAssumption
<1>2. /\ popped \subseteq hp
      /\ \/ room = 0 /\ popped = {}
         \/ n < room /\ popped = hp
         \/ room > 0 /\ n = room
  BY DEF Poppable
<1>3. /\ started \subseteq Keys
      /\ \A k \in started : tr[k].state = "Queued"
      /\ \A k \in expired : tr[k].state = "Queued" /\ k \notin started
      /\ \A k \in InState(tr, "Queued") :
            [key |-> k, priority |-> tr[k].priority] \in popped
              => k \in started \cup expired
  <2>1. Current(tr, popped) \subseteq InState(tr, "Queued")
    BY DEF Current, InState
  <2>2. \A k \in InState(tr, "Queued") :
          [key |-> k, priority |-> tr[k].priority] \in popped
            => k \in Current(tr, popped)
    BY DEF Current, InState
  <2>. QED  BY <2>1, <2>2 DEF Started, Expired, InState
<1>4. IsFiniteSet(started) /\ n \in Nat
  BY <1>3, FS_Subset, FS_CardinalityType, PipelineAssumption
  DEF PipelineAssumption
<1>5. n <= room
  <2>1. popped = {} => started = {}
    BY DEF Started, Expired, Current
  <2>2. Cardinality({}) = 0
    BY FS_EmptySet
  <2>3. room \in Nat
    BY PipelineAssumption DEF PumpPre, Room, PipelineAssumption
  <2>. QED  BY <1>2, <1>4, <2>1, <2>2, <2>3
<1>6. /\ \A k \in Keys : tracked'[k] \in Tracked
      /\ \A k \in started : tracked'[k].state = "Fetching"
      /\ \A k \in expired : tracked'[k].state = "Untracked"
      /\ \A k \in Keys \ (started \cup expired) : tracked'[k] = tr[k]
  <2>1. Untracked \in Tracked /\ Untracked.state = "Untracked"
    BY DEF Untracked, Tracked, State
  <2>2. \A k \in Keys : tr[k] \in Tracked
    BY DEF PumpPre
  <2>3. \A k \in Keys :
          LET t == [tr[k] EXCEPT !.state = "Fetching", !.stop = FALSE]
          IN  t \in Tracked /\ t.state = "Fetching"
    BY <2>2 DEF Tracked, State
  <2>4. expired \subseteq Keys
    BY DEF Expired, Current
  <2>. QED  BY <1>1, <1>3, <2>1, <2>2, <2>3, <2>4
<1>7. InState(tracked', "Fetching") = InState(tr, "Fetching") \cup started
  BY <1>3, <1>6 DEF InState
<1>8. InState(tracked', "Decoding") = InState(tr, "Decoding")
  BY <1>3, <1>6 DEF InState
<1>9. inflightFetches' = Cardinality(InState(tracked', "Fetching"))
  <2>1. InState(tr, "Fetching") \cap started = {}
    BY <1>3 DEF InState
  <2>2. Cardinality(InState(tracked', "Fetching"))
          = Cardinality(InState(tr, "Fetching")) + n
    <3>1. /\ IsFiniteSet(InState(tr, "Fetching"))
          /\ Cardinality(InState(tr, "Fetching")) \in Nat
      BY InStateFinite
    <3>2. Cardinality(InState(tr, "Fetching") \cup started)
            = Cardinality(InState(tr, "Fetching")) + n
                - Cardinality(InState(tr, "Fetching") \cap started)
      BY <1>4, <3>1, FS_Union
    <3>3. Cardinality(InState(tr, "Fetching") \cap started) = 0
      BY <2>1, FS_EmptySet
    <3>4. Cardinality(InState(tr, "Fetching") \cup started)
            = Cardinality(InState(tr, "Fetching")) + n
      BY <1>4, <3>1, <3>2, <3>3
    <3>. QED  BY <1>7, <3>4
  <2>. QED  BY <1>a, <2>2 DEF PumpPre
<1>10. \A k \in InState(tracked', "Queued") :
         [key |-> k, priority |-> tracked'[k].priority] \in heap'
  <2> SUFFICES ASSUME NEW k \in InState(tracked', "Queued")
               PROVE  [key |-> k, priority |-> tracked'[k].priority] \in heap'
    OBVIOUS
  <2>1. k \in Keys /\ tracked'[k] = tr[k] /\ k \in InState(tr, "Queued")
    BY <1>6 DEF InState
  <2>2. k \notin started \cup expired
    BY <1>6, <2>1 DEF InState
  <2>. QED  BY <1>a, <1>3, <2>1, <2>2 DEF PumpPre
<1>11. /\ inflightFetches' \in Nat
       /\ pendingStoreCallbacks' = inflightFetches'
       /\ inflightFetches' = inflight + n
  BY <1>4, <1>a, <1>c
<1>12. /\ reads' \in [Keys -> Nat]
       /\ \A k \in Keys :
            reads'[k] = IF tracked'[k].state = "Fetching" THEN 1 ELSE 0
  <2>1. \A k \in Keys : reads'[k] = rds[k] + (IF k \in started THEN 1 ELSE 0)
    BY <1>b
  <2>2. \A k \in Keys :
          reads'[k] = IF tracked'[k].state = "Fetching" THEN 1 ELSE 0
    BY <1>3, <1>6, <2>1 DEF PumpPre
  <2>3. \A k \in Keys : reads'[k] \in Nat
    BY <2>2
  <2>. QED  BY <1>b, <2>2, <2>3
<1>13. /\ inflightFetches' <= MaxInflightFetches
       /\ inflightFetches' + decodes <= MaxInflightFetches + MaxQueuedDecodes - 1
       /\ inflightFetches' + decodes + pinned
            <= MaxInflightFetches + MaxQueuedDecodes + MaxReadyPinned - 2
  BY <1>4, <1>5, <1>11, <1>c DEF Room
<1>14. heap' # {} => \/ inflightFetches' = MaxInflightFetches
                     \/ decodes > 0
                     \/ pinned >= MaxReadyPinned
  <2>1. n < room /\ popped = hp => heap' = {}
    BY <1>a
  <2>2. room = 0 => \/ inflight = MaxInflightFetches
                    \/ decodes > 0
                    \/ pinned >= MaxReadyPinned
    BY <1>c DEF Room
  <2>3. room > 0 /\ n = room => inflightFetches' = MaxInflightFetches
    BY <1>c, <1>11 DEF Room
  <2>4. room = 0 => inflightFetches' = inflight
    BY <1>c, <1>4, <1>5, <1>11
  <2>. QED  BY <1>2, <2>1, <2>2, <2>3, <2>4
<1>15. tracked' \in [Keys -> Tracked] /\ heap' \subseteq HeapEntry
  BY <1>1, <1>6 DEF PumpPre
<1>. QED
  BY <1>8, <1>9, <1>10, <1>11, <1>12, <1>13, <1>14, <1>15 DEF PumpPost

-----------------------------------------------------------------------------
(* One lemma per action: the action preserves the inductive invariant. *)

(* The invariant holds before the first submit.                             *)
LEMMA InitIInv == Init => IInv
<1> SUFFICES ASSUME Init PROVE IInv
  OBVIOUS
<1>1. \A s \in {"Queued", "Fetching", "Decoding"} : InState(tracked, s) = {}
  BY DEF Init, InState, Untracked
<1>2. Cardinality({}) = 0
  BY FS_EmptySet
<1>3. Untracked \in Tracked
  BY DEF Untracked, Tracked, State
<1>4. TypeOK
  BY <1>3, PipelineAssumption
  DEF Init, TypeOK, None, WorkerState, RenderState, Phase, Job
<1>5. Accounting
  BY <1>1, <1>2 DEF Init, Accounting, None, Untracked
<1>6. OneJobPerKey
  BY <1>1 DEF Init, OneJobPerKey, JobKeys
<1>7. NoLostRequest /\ SomeoneOwesAPump
  BY <1>1 DEF Init, NoLostRequest, SomeoneOwesAPump
<1>8. BoundedWork
  BY PipelineAssumption DEF Init, BoundedWork, PipelineAssumption
<1>. QED  BY <1>4, <1>5, <1>6, <1>7, <1>8 DEF IInv

(* Steps that leave the request map, the counters and the jobs alone. *)
LEMMA FrameIInv ==
  ASSUME IInv, TypeOK',
         UNCHANGED <<tracked, heap, fetchVars, decodeVars, readyPinned>>
  PROVE  IInv'
<1>1. Accounting' /\ NoLostRequest'
  BY DEF IInv, Accounting, NoLostRequest, fetchVars, decodeVars, InState
<1>2. OneJobPerKey'
  BY DEF IInv, OneJobPerKey, JobKeys, decodeVars, InState
<1>3. SomeoneOwesAPump' /\ BoundedWork'
  BY DEF IInv, SomeoneOwesAPump, BoundedWork, fetchVars, decodeVars
<1>. QED  BY <1>1, <1>2, <1>3 DEF IInv

(* Planning only notes what the view lacks.                                 *)
LEMMA PlanIInv == IInv /\ Plan => IInv'
<1> SUFFICES ASSUME IInv, Plan PROVE IInv'
  OBVIOUS
<1>1. TypeOK'
  BY DEF IInv, Plan, TypeOK, RenderState, requestVars, fetchVars, decodeVars,
         ramVars, readyVars
<1>. QED  BY <1>1, FrameIInv DEF Plan, requestVars, readyVars

(* Draining moves published bricks, and none of the counters.               *)
LEMMA DrainReadyIInv == IInv /\ DrainReady => IInv'
<1> SUFFICES ASSUME IInv, DrainReady PROVE IInv'
  OBVIOUS
<1>1. TypeOK'
  BY DEF IInv, DrainReady, TypeOK, RenderState, None, requestVars, fetchVars,
         decodeVars, ramVars
<1>. QED  BY <1>1, FrameIInv DEF DrainReady, requestVars

(* unpin()'s first half touches the RAM cache's pins only.                  *)
LEMMA UnpinRamIInv == ASSUME NEW k \in Keys PROVE IInv /\ UnpinRam(k) => IInv'
<1> SUFFICES ASSUME IInv, UnpinRam(k) PROVE IInv'
  OBVIOUS
<1>1. held' \in [Keys -> Nat] /\ pins' \in [Keys -> Nat]
  BY DEF IInv, UnpinRam, TypeOK
<1>2. TypeOK'
  BY <1>1 DEF IInv, UnpinRam, TypeOK, RenderState, requestVars, fetchVars,
              decodeVars, readyVars
<1>. QED  BY <1>2, FrameIInv DEF UnpinRam, requestVars, readyVars

(* A callback that finds no pipeline leaves its state alone.                *)
LEMMA LateCallbackIInv ==
  ASSUME NEW k \in Keys PROVE IInv /\ LateCallback(k) => IInv'
<1> SUFFICES ASSUME IInv, LateCallback(k) PROVE IInv'
  OBVIOUS
<1>1. TypeOK'
  BY DEF IInv, LateCallback, TypeOK, Phase, requestVars, fetchVars,
         decodeVars, ramVars, readyVars, renderVars
<1>. QED  BY <1>1, FrameIInv DEF LateCallback, requestVars, readyVars

(* The last two steps of the destructor change its phase only.              *)
LEMMA DestroyedIInv == IInv /\ (CallbacksDone \/ PoolJoined) => IInv'
<1> SUFFICES ASSUME IInv, CallbacksDone \/ PoolJoined PROVE IInv'
  OBVIOUS
<1>1. TypeOK'
  BY DEF IInv, CallbacksDone, PoolJoined, TypeOK, Phase, requestVars,
         fetchVars, decodeVars, ramVars, readyVars, renderVars
<1>. QED
  BY <1>1, FrameIInv DEF CallbacksDone, PoolJoined, requestVars, readyVars

-----------------------------------------------------------------------------
(* Handlers that end in pump: what pump is given satisfies PumpPre, and     *)
(* PumpPost together with what the handler does to the jobs gives IInv'.    *)
LEMMA PumpIInv ==
  ASSUME NEW tr, NEW decodes, NEW pinned,
         PumpPost(tr, decodes, pinned),
         TypeOK', queuedDecodes' = decodes, readyPinned' = pinned,
         decodes = Cardinality(InState(tr, "Decoding")),
         JobKeys' = InState(tr, "Decoding"),
         \A i, j \in DOMAIN decodeQueue' :
            decodeQueue'[i].key = decodeQueue'[j].key => i = j,
         \A v, w \in Workers :
            /\ worker'[v] # Idle
            /\ worker'[w] # Idle
            /\ worker'[v].job.key = worker'[w].job.key
            => v = w,
         \A i \in DOMAIN decodeQueue', w \in Workers :
            worker'[w] # Idle => worker'[w].job.key # decodeQueue'[i].key
  PROVE  IInv'
<1>1. Accounting'
  BY DEF PumpPost, Accounting, InState
<1>2. OneJobPerKey'
  BY DEF PumpPost, OneJobPerKey, InState
<1>3. NoLostRequest'
  BY DEF PumpPost, NoLostRequest, InState
<1>4. SomeoneOwesAPump' /\ BoundedWork'
  BY DEF PumpPost, SomeoneOwesAPump, BoundedWork
<1>. QED  BY <1>1, <1>2, <1>3, <1>4 DEF IInv

(* The typing pump leaves behind. *)
LEMMA PumpTypes ==
  ASSUME NEW tr, NEW decodes, NEW pinned, PumpPost(tr, decodes, pinned)
  PROVE  /\ tracked' \in [Keys -> Tracked]
         /\ heap' \subseteq HeapEntry
         /\ inflightFetches' \in Nat
         /\ pendingStoreCallbacks' \in Nat
         /\ reads' \in [Keys -> Nat]
BY DEF PumpPost

(* The jobs of a handler that leaves the decode pool alone. *)
LEMMA SameJobs ==
  ASSUME IInv, UNCHANGED <<decodeQueue, worker>>
  PROVE  /\ JobKeys' = InState(tracked, "Decoding")
         /\ \A i, j \in DOMAIN decodeQueue' :
              decodeQueue'[i].key = decodeQueue'[j].key => i = j
         /\ \A v, w \in Workers :
              /\ worker'[v] # Idle
              /\ worker'[w] # Idle
              /\ worker'[v].job.key = worker'[w].job.key
              => v = w
         /\ \A i \in DOMAIN decodeQueue', w \in Workers :
              worker'[w] # Idle => worker'[w].job.key # decodeQueue'[i].key
BY DEF IInv, OneJobPerKey, JobKeys

(* Releasing a brick opens the ready cap and pumps.                         *)
LEMMA UnpinBytesIInv == IInv /\ UnpinBytes => IInv'
<1> SUFFICES ASSUME IInv, UnpinBytes PROVE IInv'
  OBVIOUS
<1> DEFINE pinned == Released(readyPinned)
<1>1. pinned \in Nat /\ pinned <= readyPinned
  BY DEF IInv, TypeOK, Released
<1>2. PumpPre(tracked, heap, currentEpoch, inflightFetches, queuedDecodes,
              pinned, pendingStoreCallbacks, reads)
  <2>1. inflightFetches + queuedDecodes + pinned
          <= MaxInflightFetches + MaxQueuedDecodes + MaxReadyPinned - 2
    BY <1>1, PipelineAssumption
    DEF IInv, TypeOK, BoundedWork, PipelineAssumption
  <2>. QED
    BY <1>1, <2>1
    DEF IInv, TypeOK, PumpPre, Accounting, NoLostRequest, BoundedWork
<1>3. PumpPost(tracked, queuedDecodes, pinned)
  BY <1>2, PumpLemma DEF UnpinBytes
<1>4. TypeOK'
  BY <1>1, <1>3, PumpTypes
  DEF IInv, TypeOK, UnpinBytes, RenderState, decodeVars, ramVars
<1>5. queuedDecodes = Cardinality(InState(tracked, "Decoding"))
  BY DEF IInv, Accounting
<1>6. /\ UNCHANGED <<decodeQueue, worker>>
      /\ queuedDecodes' = queuedDecodes
      /\ readyPinned' = pinned
  BY DEF UnpinBytes, decodeVars
<1>. QED  BY <1>3, <1>4, <1>5, <1>6, SameJobs, PumpIInv

(* What submit() makes of the request map and of the heap before it pumps.  *)
AskedMap(wanted) ==
  [k \in Keys |->
    IF k \in render.keys
    THEN Requested(tracked[k], wanted[k], currentEpoch + 1)
    ELSE Unwanted(tracked[k])]

AskedHeap(wanted) ==
  heap \cup UNION {Pushed(tracked[k], k, wanted[k]) : k \in render.keys}

(* One request, and one fetch that is not asked for.                        *)
LEMMA RequestKeeps ==
  ASSUME NEW t \in Tracked, NEW r \in Request, NEW epoch \in Nat
  PROVE  /\ Requested(t, r, epoch) \in Tracked
         /\ t.state = "Fetching" <=> Requested(t, r, epoch).state = "Fetching"
         /\ t.state = "Decoding" <=> Requested(t, r, epoch).state = "Decoding"
         /\ Requested(t, r, epoch).state = "Queued" =>
              /\ Requested(t, r, epoch).priority = r.last
              /\ t.state \in {"Untracked", "Queued"}
BY DEF Requested, Request, Tracked, State

(* Telling a fetch to stop leaves its state and priority.                   *)
LEMMA UnwantedKeeps ==
  ASSUME NEW t \in Tracked
  PROVE  /\ Unwanted(t) \in Tracked
         /\ Unwanted(t).state = t.state
         /\ Unwanted(t).priority = t.priority
         /\ Unwanted(t).epoch = t.epoch
         /\ Unwanted(t).stop = (t.stop \/ t.state = "Fetching")
<1>1. CASE t.state = "Fetching"
  BY <1>1 DEF Unwanted, Tracked, State
<1>2. CASE t.state # "Fetching"
  BY <1>2, Zenon DEF Unwanted, Tracked
<1>. QED  BY <1>1, <1>2

(* Requests change neither which keys are fetched nor which are decoded, and *)
(* every key that is queued afterwards has an entry with its priority.       *)
LEMMA SubmitPre ==
  ASSUME IInv, NEW wanted \in [render.keys -> Request]
  PROVE  /\ AskedMap(wanted) \in [Keys -> Tracked]
         /\ AskedHeap(wanted) \in SUBSET HeapEntry
         /\ InState(AskedMap(wanted), "Fetching") = InState(tracked, "Fetching")
         /\ InState(AskedMap(wanted), "Decoding") = InState(tracked, "Decoding")
         /\ \A k \in InState(AskedMap(wanted), "Queued") :
              [key |-> k, priority |-> AskedMap(wanted)[k].priority]
                \in AskedHeap(wanted)
<1> DEFINE tr == AskedMap(wanted)
           epoch == currentEpoch + 1
<1>1. /\ render.keys \subseteq Keys
      /\ \A k \in render.keys : wanted[k] \in Request
      /\ \A k \in Keys : tracked[k] \in Tracked
      /\ epoch \in Nat
  BY DEF IInv, TypeOK, RenderState
<1>2. \A k \in render.keys : tr[k] = Requested(tracked[k], wanted[k], epoch)
  BY <1>1 DEF AskedMap
<1>3. \A k \in Keys \ render.keys : tr[k] = Unwanted(tracked[k])
  BY DEF AskedMap
<1>4. \A k \in render.keys :
        /\ tr[k] \in Tracked
        /\ tracked[k].state = "Fetching" <=> tr[k].state = "Fetching"
        /\ tracked[k].state = "Decoding" <=> tr[k].state = "Decoding"
        /\ tr[k].state = "Queued" => /\ tr[k].priority = wanted[k].last
                                     /\ tracked[k].state \in {"Untracked", "Queued"}
  BY <1>1, <1>2, RequestKeeps
<1>5. \A k \in Keys \ render.keys : /\ tr[k] \in Tracked
                                    /\ tr[k].state = tracked[k].state
                                    /\ tr[k].priority = tracked[k].priority
  BY <1>1, <1>3, UnwantedKeeps
<1>6. tr \in [Keys -> Tracked]
  <2>1. \A k \in Keys : tr[k] \in Tracked
    BY <1>4, <1>5
  <2>. QED  BY <2>1 DEF AskedMap
<1>7. /\ InState(tr, "Fetching") = InState(tracked, "Fetching")
      /\ InState(tr, "Decoding") = InState(tracked, "Decoding")
  <2> HIDE DEF tr
  <2>. QED  BY <1>1, <1>4, <1>5 DEF InState
<1>8. AskedHeap(wanted) \in SUBSET HeapEntry
  <2>1. \A k \in render.keys : Pushed(tracked[k], k, wanted[k]) \subseteq HeapEntry
    BY <1>1 DEF Pushed, HeapEntry, Request
  <2>. QED  BY <2>1 DEF IInv, TypeOK, AskedHeap
<1>9. \A k \in InState(tr, "Queued") :
        [key |-> k, priority |-> tr[k].priority] \in AskedHeap(wanted)
  <2> SUFFICES ASSUME NEW k \in Keys, tr[k].state = "Queued"
               PROVE  [key |-> k, priority |-> tr[k].priority] \in AskedHeap(wanted)
    BY DEF InState
  <2> HIDE DEF tr
  <2>1. CASE k \in render.keys
    <3>1. /\ tr[k].priority = wanted[k].last
          /\ tracked[k].state \in {"Untracked", "Queued"}
      BY <1>4, <2>1
    <3>2. CASE [key |-> k, priority |-> wanted[k].last]
                 \in Pushed(tracked[k], k, wanted[k])
      BY <2>1, <3>1, <3>2 DEF AskedHeap
    <3>3. CASE [key |-> k, priority |-> wanted[k].last]
                 \notin Pushed(tracked[k], k, wanted[k])
      <4>1. /\ tracked[k].state = "Queued"
            /\ tracked[k].priority = wanted[k].last
        BY <3>1, <3>3 DEF Pushed
      <4>. QED  BY <3>1, <4>1 DEF IInv, NoLostRequest, InState, AskedHeap
    <3>. QED  BY <3>2, <3>3
  <2>2. CASE k \notin render.keys
    <3>1. tr[k].priority = tracked[k].priority /\ tracked[k].state = "Queued"
      BY <1>5, <2>2
    <3>. QED  BY <3>1 DEF IInv, NoLostRequest, InState, AskedHeap
  <2>. QED  BY <2>1, <2>2
<1>. QED  BY <1>6, <1>7, <1>8, <1>9

(* The call of pump() at the end of submit().                               *)
LEMMA SubmitPumps ==
  ASSUME Submit
  PROVE  /\ currentEpoch' = currentEpoch + 1
         /\ \E wanted \in [render.keys -> Request] :
              Pump(AskedMap(wanted), AskedHeap(wanted), currentEpoch + 1,
                   inflightFetches, queuedDecodes, readyPinned,
                   pendingStoreCallbacks, reads)
BY DEF Submit, AskedMap, AskedHeap

(* A submit pushes what it asks for and pumps.                              *)
LEMMA SubmitIInv == IInv /\ Submit => IInv'
<1> SUFFICES ASSUME IInv, Submit PROVE IInv'
  OBVIOUS
<1>1. PICK wanted \in [render.keys -> Request] :
        Pump(AskedMap(wanted), AskedHeap(wanted), currentEpoch + 1,
             inflightFetches, queuedDecodes, readyPinned,
             pendingStoreCallbacks, reads)
  BY SubmitPumps
<1> DEFINE tr == AskedMap(wanted)
           hp == AskedHeap(wanted)
<1>2. /\ currentEpoch' = currentEpoch + 1
      /\ currentEpoch + 1 \in Nat
  BY SubmitPumps DEF IInv, TypeOK
<1>3. /\ tr \in [Keys -> Tracked]
      /\ hp \in SUBSET HeapEntry
      /\ \A k \in InState(tr, "Queued") :
           [key |-> k, priority |-> tr[k].priority] \in hp
  BY SubmitPre
<1>4. /\ InState(tr, "Fetching") = InState(tracked, "Fetching")
      /\ InState(tr, "Decoding") = InState(tracked, "Decoding")
      /\ \A k \in Keys :
           tr[k].state = "Fetching" <=> tracked[k].state = "Fetching"
  <2>1. /\ InState(tr, "Fetching") = InState(tracked, "Fetching")
        /\ InState(tr, "Decoding") = InState(tracked, "Decoding")
    BY SubmitPre
  <2> HIDE DEF tr
  <2>. QED  BY <2>1 DEF InState
<1> HIDE DEF tr, hp
<1>5. PumpPre(tr, hp, currentEpoch + 1, inflightFetches, queuedDecodes,
              readyPinned, pendingStoreCallbacks, reads)
  BY <1>2, <1>3, <1>4 DEF PumpPre, IInv, TypeOK, Accounting, BoundedWork
<1>6. PumpPost(tr, queuedDecodes, readyPinned)
  BY <1>1, <1>5, PumpLemma DEF tr, hp
<1>7. TypeOK'
  BY <1>2, <1>6, PumpTypes
  DEF IInv, TypeOK, Submit, RenderState, decodeVars, ramVars, readyVars
<1>8. queuedDecodes = Cardinality(InState(tr, "Decoding"))
  BY <1>4 DEF IInv, Accounting
<1>9. /\ UNCHANGED <<decodeQueue, worker>>
      /\ queuedDecodes' = queuedDecodes
      /\ readyPinned' = readyPinned
  BY DEF Submit, decodeVars, readyVars
<1>. QED  BY <1>4, <1>6, <1>7, <1>8, <1>9, SameJobs, PumpIInv

(* Removing a key from the states that counters count. *)
LEMMA LeaveState ==
  ASSUME NEW tr \in [Keys -> Tracked], NEW s, NEW k \in InState(tr, s),
         NEW t \in [Keys -> Tracked],
         t[k].state # s,
         \A j \in Keys \ {k} : t[j].state = tr[j].state
  PROVE  /\ InState(t, s) = InState(tr, s) \ {k}
         /\ Cardinality(InState(t, s)) = Cardinality(InState(tr, s)) - 1
         /\ Cardinality(InState(tr, s)) > 0
<1>1. InState(t, s) = InState(tr, s) \ {k}
  BY DEF InState
<1>2. IsFiniteSet(InState(tr, s)) /\ Cardinality(InState(tr, s)) \in Nat
  BY InStateFinite
<1>3. Cardinality(InState(tr, s) \ {k}) = Cardinality(InState(tr, s)) - 1
  BY <1>2, FS_RemoveElement
<1>4. Cardinality(InState(t, s)) \in Nat
  BY InStateFinite
<1>. QED  BY <1>1, <1>2, <1>3, <1>4

(* One more key in a state.                                                 *)
LEMMA EnterState ==
  ASSUME NEW tr \in [Keys -> Tracked], NEW s, NEW k \in Keys, tr[k].state # s,
         NEW t \in [Keys -> Tracked],
         t[k].state = s,
         \A j \in Keys \ {k} : t[j].state = tr[j].state
  PROVE  /\ InState(t, s) = InState(tr, s) \cup {k}
         /\ Cardinality(InState(t, s)) = Cardinality(InState(tr, s)) + 1
<1>1. InState(t, s) = InState(tr, s) \cup {k}
  BY DEF InState
<1>2. IsFiniteSet(InState(tr, s)) /\ k \notin InState(tr, s)
  BY InStateFinite DEF InState
<1>3. Cardinality(InState(tr, s) \cup {k}) = Cardinality(InState(tr, s)) + 1
  BY <1>2, FS_AddElement
<1>. QED  BY <1>1, <1>3

(* A forgotten key has a well typed, untracked entry.                       *)
LEMMA UntrackedTyped == Untracked \in Tracked /\ Untracked.state = "Untracked"
BY DEF Untracked, Tracked, State

(* A read that fails gives its fetch slot back and pumps.                   *)
LEMMA FetchDroppedIInv ==
  ASSUME NEW k \in Keys PROVE IInv /\ FetchDropped(k) => IInv'
<1> SUFFICES ASSUME IInv, FetchDropped(k) PROVE IInv'
  OBVIOUS
<1> DEFINE tr == [tracked EXCEPT ![k] = Untracked]
           rds == [reads EXCEPT ![k] = @ - 1]
<1>1. /\ tracked \in [Keys -> Tracked]
      /\ reads \in [Keys -> Nat]
      /\ reads[k] > 0
      /\ tracked[k].state = "Fetching"
      /\ reads[k] = 1
  BY DEF IInv, TypeOK, Accounting, FetchDropped
<1>2. /\ tr \in [Keys -> Tracked]
      /\ tr[k].state = "Untracked"
      /\ \A j \in Keys \ {k} : tr[j] = tracked[j]
  BY <1>1, UntrackedTyped
<1>3. /\ Cardinality(InState(tr, "Fetching")) = inflightFetches - 1
      /\ inflightFetches > 0
  <2>1. k \in InState(tracked, "Fetching")
    BY <1>1 DEF InState
  <2>2. /\ Cardinality(InState(tr, "Fetching"))
             = Cardinality(InState(tracked, "Fetching")) - 1
        /\ Cardinality(InState(tracked, "Fetching")) > 0
    <3> HIDE DEF tr
    <3>. QED  BY <1>1, <1>2, <2>1, LeaveState
  <2>. QED  BY <2>2 DEF IInv, Accounting
<1>4. InState(tr, "Decoding") = InState(tracked, "Decoding")
  BY <1>1, <1>2 DEF InState
<1>5. /\ rds \in [Keys -> Nat]
      /\ \A j \in Keys : rds[j] = IF tr[j].state = "Fetching" THEN 1 ELSE 0
  BY <1>1, <1>2 DEF IInv, Accounting
<1>6. \A j \in InState(tr, "Queued") :
        [key |-> j, priority |-> tr[j].priority] \in heap
  BY <1>2 DEF IInv, NoLostRequest, InState
<1>7. PumpPre(tr, heap, currentEpoch, inflightFetches - 1, queuedDecodes,
              readyPinned, pendingStoreCallbacks - 1, rds)
  <2> HIDE DEF tr, rds
  <2>1. /\ inflightFetches - 1 \in Nat
        /\ inflightFetches - 1 <= MaxInflightFetches
        /\ inflightFetches - 1 + queuedDecodes
              <= MaxInflightFetches + MaxQueuedDecodes - 1
        /\ inflightFetches - 1 + queuedDecodes + readyPinned
              <= MaxInflightFetches + MaxQueuedDecodes + MaxReadyPinned - 2
    BY <1>3, PipelineAssumption DEF IInv, TypeOK, BoundedWork, PipelineAssumption
  <2>. QED
    BY <1>2, <1>3, <1>5, <1>6, <2>1 DEF PumpPre, IInv, TypeOK, Accounting
<1>8. PumpPost(tr, queuedDecodes, readyPinned)
  <2>1. Pump(tr, heap, currentEpoch, inflightFetches - 1, queuedDecodes,
             readyPinned, pendingStoreCallbacks - 1, rds)
    BY DEF FetchDropped
  <2> HIDE DEF tr, rds
  <2>. QED  BY <1>7, <2>1, PumpLemma
<1> HIDE DEF tr, rds
<1>9. TypeOK'
  BY <1>8, PumpTypes
  DEF IInv, TypeOK, FetchDropped, decodeVars, ramVars, readyVars, renderVars
<1>10. queuedDecodes = Cardinality(InState(tr, "Decoding"))
  BY <1>4 DEF IInv, Accounting
<1>11. /\ UNCHANGED <<decodeQueue, worker>>
       /\ queuedDecodes' = queuedDecodes
       /\ readyPinned' = readyPinned
  BY DEF FetchDropped, decodeVars, readyVars
<1>. QED  BY <1>4, <1>8, <1>9, <1>10, <1>11, SameJobs, PumpIInv

(* The destructor asks every fetch to stop; none changes state.             *)
LEMMA BeginDestroyIInv == IInv /\ BeginDestroy => IInv'
<1> SUFFICES ASSUME IInv, BeginDestroy PROVE IInv'
  OBVIOUS
<1>1. \A k \in Keys :
        LET t == Unwanted(tracked[k]) IN
          /\ t \in Tracked
          /\ t.state = tracked[k].state
          /\ t.priority = tracked[k].priority
  BY DEF IInv, TypeOK, Unwanted, Tracked, State
<1>2. /\ tracked' \in [Keys -> Tracked]
      /\ \A k \in Keys : /\ tracked'[k].state = tracked[k].state
                         /\ tracked'[k].priority = tracked[k].priority
  BY <1>1 DEF BeginDestroy
<1>3. \A s : InState(tracked', s) = InState(tracked, s)
  BY <1>2 DEF InState
<1>4. TypeOK'
  BY <1>2 DEF IInv, TypeOK, BeginDestroy, Phase, fetchVars, decodeVars, ramVars,
              readyVars, renderVars
<1>5. Accounting'
  <2>1. /\ inflightFetches' = inflightFetches
        /\ pendingStoreCallbacks' = pendingStoreCallbacks
        /\ queuedDecodes' = queuedDecodes
        /\ reads' = reads
    BY DEF BeginDestroy, fetchVars, decodeVars
  <2>2. /\ InState(tracked, "Fetching")' = InState(tracked, "Fetching")
        /\ InState(tracked, "Decoding")' = InState(tracked, "Decoding")
    BY <1>3 DEF InState
  <2>. QED  BY <1>2, <2>1, <2>2 DEF IInv, Accounting
<1>6. OneJobPerKey'
  <2>1. InState(tracked, "Decoding")' = InState(tracked, "Decoding")
    BY <1>3 DEF InState
  <2>2. UNCHANGED <<decodeQueue, worker>>
    BY DEF BeginDestroy, decodeVars
  <2>. QED  BY <2>1, <2>2, SameJobs DEF OneJobPerKey
<1>7. NoLostRequest'
  BY <1>2 DEF IInv, NoLostRequest, BeginDestroy, InState
<1>8. SomeoneOwesAPump' /\ BoundedWork'
  BY DEF IInv, SomeoneOwesAPump, BoundedWork, BeginDestroy, fetchVars,
         decodeVars, readyVars
<1>. QED  BY <1>4, <1>5, <1>6, <1>7, <1>8 DEF IInv

(* What a worker that is not idle is about, and that no other job is. *)
LEMMA WorkerJob ==
  ASSUME IInv, NEW w \in Workers, worker[w] # Idle
  PROVE  /\ worker[w].job \in Job
         /\ worker[w].job.key \in Keys
         /\ tracked[worker[w].job.key].state = "Decoding"
         /\ worker[w].pc \in {"decoding", "inserted"}
<1>1. /\ worker[w].job \in Job
      /\ worker[w].pc \in {"decoding", "inserted"}
  BY DEF IInv, TypeOK, WorkerState
<1>2. worker[w].job.key \in JobKeys
  BY DEF JobKeys
<1>. QED  BY <1>1, <1>2 DEF IInv, OneJobPerKey, InState, Job

(* A worker that finishes gives its key up and leaves every other job. *)
LEMMA WorkerDone ==
  ASSUME IInv, NEW w \in Workers, worker[w] # Idle,
         worker' = [worker EXCEPT ![w] = Idle], UNCHANGED decodeQueue
  PROVE  /\ worker' \in [Workers -> WorkerState]
         /\ JobKeys' = InState(tracked, "Decoding") \ {worker[w].job.key}
         /\ \A i, j \in DOMAIN decodeQueue' :
              decodeQueue'[i].key = decodeQueue'[j].key => i = j
         /\ \A u, v \in Workers :
              /\ worker'[u] # Idle
              /\ worker'[v] # Idle
              /\ worker'[u].job.key = worker'[v].job.key
              => u = v
         /\ \A i \in DOMAIN decodeQueue', v \in Workers :
              worker'[v] # Idle => worker'[v].job.key # decodeQueue'[i].key
<1>1. worker \in [Workers -> WorkerState]
  BY DEF IInv, TypeOK
<1>2. worker'[w] = Idle /\ \A v \in Workers \ {w} : worker'[v] = worker[v]
  BY <1>1
<1>3. worker' \in [Workers -> WorkerState]
  BY <1>1 DEF WorkerState
<1>4. JobKeys' = JobKeys \ {worker[w].job.key}
  BY <1>2 DEF JobKeys, IInv, OneJobPerKey
<1>. QED  BY <1>2, <1>3, <1>4 DEF IInv, OneJobPerKey

(* What pump is given by a handler that forgets a Decoding key, whether it *)
(* publishes the brick (one more pinned) or not.                            *)
LEMMA DecodeDonePre ==
  ASSUME IInv, NEW k \in Keys, tracked[k].state = "Decoding",
         NEW more \in {0, 1}
  PROVE  LET tr == [tracked EXCEPT ![k] = Untracked] IN
         /\ PumpPre(tr, heap, currentEpoch, inflightFetches, queuedDecodes - 1,
                    readyPinned + more, pendingStoreCallbacks, reads)
         /\ queuedDecodes - 1 = Cardinality(InState(tr, "Decoding"))
         /\ InState(tr, "Decoding") = InState(tracked, "Decoding") \ {k}
<1> DEFINE tr == [tracked EXCEPT ![k] = Untracked]
<1>1. tracked \in [Keys -> Tracked]
  BY DEF IInv, TypeOK
<1>2. /\ tr \in [Keys -> Tracked]
      /\ tr[k].state = "Untracked"
      /\ \A j \in Keys \ {k} : tr[j] = tracked[j]
  BY <1>1, UntrackedTyped
<1> HIDE DEF tr
<1>3. /\ InState(tr, "Decoding") = InState(tracked, "Decoding") \ {k}
      /\ Cardinality(InState(tr, "Decoding"))
           = Cardinality(InState(tracked, "Decoding")) - 1
      /\ Cardinality(InState(tracked, "Decoding")) > 0
  <2>1. k \in InState(tracked, "Decoding")
    BY DEF InState
  <2>. QED  BY <1>1, <1>2, <2>1, LeaveState
<1>4. queuedDecodes - 1 = Cardinality(InState(tr, "Decoding")) /\ queuedDecodes > 0
  BY <1>3 DEF IInv, Accounting
<1>5. InState(tr, "Fetching") = InState(tracked, "Fetching")
  BY <1>2 DEF InState
<1>6. /\ \A j \in Keys : reads[j] = IF tr[j].state = "Fetching" THEN 1 ELSE 0
      /\ inflightFetches = Cardinality(InState(tr, "Fetching"))
  BY <1>2, <1>5 DEF IInv, Accounting
<1>7. \A j \in InState(tr, "Queued") :
        [key |-> j, priority |-> tr[j].priority] \in heap
  BY <1>2 DEF IInv, NoLostRequest, InState
<1>8. /\ queuedDecodes - 1 \in Nat
      /\ readyPinned + more \in Nat
      /\ inflightFetches <= MaxInflightFetches
      /\ inflightFetches + (queuedDecodes - 1)
           <= MaxInflightFetches + MaxQueuedDecodes - 1
      /\ inflightFetches + (queuedDecodes - 1) + (readyPinned + more)
           <= MaxInflightFetches + MaxQueuedDecodes + MaxReadyPinned - 2
  BY <1>4, PipelineAssumption DEF IInv, TypeOK, BoundedWork, PipelineAssumption
<1>9. PumpPre(tr, heap, currentEpoch, inflightFetches, queuedDecodes - 1,
              readyPinned + more, pendingStoreCallbacks, reads)
  BY <1>2, <1>6, <1>7, <1>8 DEF PumpPre, IInv, TypeOK, Accounting
<1>. QED  BY <1>3, <1>4, <1>9 DEF tr

(* A decode that fails gives its decode slot back and pumps.                *)
LEMMA DecodeFailIInv ==
  ASSUME NEW w \in Workers PROVE IInv /\ DecodeFail(w) => IInv'
<1> SUFFICES ASSUME IInv, DecodeFail(w) PROVE IInv'
  OBVIOUS
<1> DEFINE k == worker[w].job.key
           tr == [tracked EXCEPT ![k] = Untracked]
<1>1. /\ worker[w] # Idle
      /\ worker' = [worker EXCEPT ![w] = Idle]
      /\ UNCHANGED decodeQueue
      /\ queuedDecodes' = queuedDecodes - 1
      /\ readyPinned' = readyPinned
      /\ Pump(tr, heap, currentEpoch, inflightFetches, queuedDecodes - 1,
              readyPinned, pendingStoreCallbacks, reads)
  BY DEF DecodeFail, Idle, readyVars
<1>2. k \in Keys /\ tracked[k].state = "Decoding"
  BY <1>1, WorkerJob
<1>3. /\ PumpPre(tr, heap, currentEpoch, inflightFetches, queuedDecodes - 1,
                 readyPinned + 0, pendingStoreCallbacks, reads)
      /\ queuedDecodes - 1 = Cardinality(InState(tr, "Decoding"))
      /\ InState(tr, "Decoding") = InState(tracked, "Decoding") \ {k}
  BY <1>2, DecodeDonePre
<1>4. readyPinned + 0 = readyPinned /\ readyPinned \in Nat
  BY DEF IInv, TypeOK
<1> HIDE DEF tr
<1>5. PumpPost(tr, queuedDecodes - 1, readyPinned)
  BY <1>1, <1>3, <1>4, PumpLemma
<1>6. queuedDecodes - 1 \in Nat
  BY <1>3, InStateFinite
<1>7. TypeOK'
  BY <1>1, <1>5, <1>6, WorkerDone, PumpTypes
  DEF IInv, TypeOK, DecodeFail, ramVars, readyVars, renderVars
<1>. QED  BY <1>1, <1>3, <1>5, <1>7, WorkerDone, PumpIInv

(* Publishing turns a decode slot into a pinned brick and pumps.            *)
LEMMA DecodePublishIInv ==
  ASSUME NEW w \in Workers PROVE IInv /\ DecodePublish(w) => IInv'
<1> SUFFICES ASSUME IInv, DecodePublish(w) PROVE IInv'
  OBVIOUS
<1> DEFINE k == worker[w].job.key
           tr == [tracked EXCEPT ![k] = Untracked]
<1>1. /\ worker[w] # Idle
      /\ worker' = [worker EXCEPT ![w] = Idle]
      /\ UNCHANGED decodeQueue
      /\ queuedDecodes' = queuedDecodes - 1
      /\ readyPinned' = readyPinned + 1
      /\ ready' = [ready EXCEPT ![k] = @ + 1]
      /\ Pump(tr, heap, currentEpoch, inflightFetches, queuedDecodes - 1,
              readyPinned + 1, pendingStoreCallbacks, reads)
  BY DEF DecodePublish, Idle
<1>2. k \in Keys /\ tracked[k].state = "Decoding"
  BY <1>1, WorkerJob
<1>3. /\ PumpPre(tr, heap, currentEpoch, inflightFetches, queuedDecodes - 1,
                 readyPinned + 1, pendingStoreCallbacks, reads)
      /\ queuedDecodes - 1 = Cardinality(InState(tr, "Decoding"))
      /\ InState(tr, "Decoding") = InState(tracked, "Decoding") \ {k}
  BY <1>2, DecodeDonePre
<1> HIDE DEF tr
<1>4. PumpPost(tr, queuedDecodes - 1, readyPinned + 1)
  BY <1>1, <1>3, PumpLemma
<1>5. queuedDecodes - 1 \in Nat
  BY <1>3, InStateFinite
<1>6. ready' \in [Keys -> Nat] /\ readyPinned + 1 \in Nat
  <2>1. ready \in [Keys -> Nat] /\ readyPinned \in Nat
    BY DEF IInv, TypeOK
  <2>2. k \in Keys /\ ready' = [ready EXCEPT ![k] = @ + 1]
    BY <1>1, <1>2
  <2> HIDE DEF k
  <2>. QED  BY <2>1, <2>2
<1>7. TypeOK'
  BY <1>1, <1>4, <1>5, <1>6, WorkerDone, PumpTypes
  DEF IInv, TypeOK, DecodePublish, ramVars, renderVars
<1>. QED  BY <1>1, <1>3, <1>4, <1>7, WorkerDone, PumpIInv

(* A delivery turns a fetch slot into a decode job.                         *)
LEMMA FetchDeliveredIInv ==
  ASSUME NEW k \in Keys PROVE IInv /\ FetchDelivered(k) => IInv'
<1> SUFFICES ASSUME IInv, FetchDelivered(k) PROVE IInv'
  OBVIOUS
<1>1. PICK missing \in BOOLEAN :
        decodeQueue' = Append(decodeQueue, [key |-> k, missing |-> missing])
  BY DEF FetchDelivered
<1> DEFINE job == [key |-> k, missing |-> missing]
<1>2. /\ tracked \in [Keys -> Tracked]
      /\ tracked[k].state = "Fetching"
      /\ decodeQueue \in Seq(Job)
      /\ job \in Job
      /\ worker \in [Workers -> WorkerState]
      /\ worker' = worker
      /\ heap' = heap
      /\ readyPinned' = readyPinned
  BY DEF IInv, TypeOK, Accounting, FetchDelivered, Job, readyVars
<1>3. /\ tracked' \in [Keys -> Tracked]
      /\ tracked'[k].state = "Decoding"
      /\ \A j \in Keys \ {k} : tracked'[j] = tracked[j]
  <2>1. [tracked[k] EXCEPT !.state = "Decoding", !.stop = FALSE] \in Tracked
    BY <1>2 DEF Tracked, State
  <2>2. tracked' = [tracked EXCEPT
                     ![k] = [@ EXCEPT !.state = "Decoding", !.stop = FALSE]]
    BY <1>2 DEF FetchDelivered
  <2>3. [tracked[k] EXCEPT !.state = "Decoding", !.stop = FALSE].state = "Decoding"
    BY <1>2 DEF Tracked
  <2>. QED  BY <1>2, <2>1, <2>2, <2>3
<1>4. /\ Cardinality(InState(tracked', "Fetching")) = inflightFetches - 1
      /\ inflightFetches > 0
  <2>1. k \in InState(tracked, "Fetching")
    BY <1>2 DEF InState
  <2>2. /\ Cardinality(InState(tracked', "Fetching"))
             = Cardinality(InState(tracked, "Fetching")) - 1
        /\ Cardinality(InState(tracked, "Fetching")) > 0
    <3>1. /\ tracked'[k].state # "Fetching"
          /\ \A j \in Keys \ {k} : tracked'[j].state = tracked[j].state
      BY <1>3
    <3>2. tracked \in [Keys -> Tracked] /\ tracked' \in [Keys -> Tracked]
      BY <1>2, <1>3
    <3>. QED  BY ONLY <2>1, <3>1, <3>2, LeaveState
  <2>. QED  BY <2>2 DEF IInv, Accounting
<1>5. /\ Cardinality(InState(tracked', "Decoding")) = queuedDecodes + 1
      /\ InState(tracked', "Decoding") = InState(tracked, "Decoding") \cup {k}
  <2>1. /\ InState(tracked', "Decoding") = InState(tracked, "Decoding") \cup {k}
        /\ Cardinality(InState(tracked', "Decoding"))
             = Cardinality(InState(tracked, "Decoding")) + 1
    <3>1. /\ tracked[k].state # "Decoding"
          /\ \A j \in Keys \ {k} : tracked'[j].state = tracked[j].state
      BY <1>2, <1>3
    <3>2. tracked \in [Keys -> Tracked] /\ tracked' \in [Keys -> Tracked]
      BY <1>2, <1>3
    <3>. QED  BY ONLY <1>3, <3>1, <3>2, EnterState, k \in Keys
  <2>. QED  BY <2>1 DEF IInv, Accounting
<1>6. /\ inflightFetches' = inflightFetches - 1
      /\ pendingStoreCallbacks' = pendingStoreCallbacks - 1
      /\ queuedDecodes' = queuedDecodes + 1
      /\ reads' = [reads EXCEPT ![k] = @ - 1]
  BY DEF FetchDelivered
<1>7. Accounting'
  <2>1. \A j \in Keys : reads'[j] = IF tracked'[j].state = "Fetching" THEN 1 ELSE 0
    <3>1. /\ reads \in [Keys -> Nat]
          /\ \A j \in Keys :
               reads[j] = IF tracked[j].state = "Fetching" THEN 1 ELSE 0
      BY DEF IInv, TypeOK, Accounting
    <3>2. reads[k] = 1 /\ reads'[k] = 0
      BY <1>2, <1>6, <3>1
    <3>3. \A j \in Keys \ {k} : reads'[j] = reads[j]
      BY <1>6, <3>1
    <3>. QED  BY <1>3, <3>1, <3>2, <3>3
  <2>2. /\ inflightFetches' = Cardinality(InState(tracked', "Fetching"))
        /\ queuedDecodes' = Cardinality(InState(tracked', "Decoding"))
        /\ pendingStoreCallbacks' = inflightFetches'
    BY <1>4, <1>5, <1>6 DEF IInv, Accounting
  <2>. QED  BY <2>1, <2>2 DEF Accounting, InState
<1>8. TypeOK'
  <2>1. decodeQueue' \in Seq(Job)
    BY <1>1, <1>2
  <2>2. /\ inflightFetches' \in Nat
        /\ queuedDecodes' \in Nat
        /\ pendingStoreCallbacks' \in Nat
    BY <1>4, <1>6 DEF IInv, TypeOK, Accounting
  <2>3. reads' \in [Keys -> Nat]
    BY <1>2, <1>6 DEF IInv, TypeOK, Accounting
  <2>. QED
    BY <1>2, <1>3, <2>1, <2>2, <2>3
    DEF IInv, TypeOK, FetchDelivered, ramVars, readyVars, renderVars
<1>9. OneJobPerKey'
  <2>1. k \notin JobKeys
    BY <1>2 DEF IInv, OneJobPerKey, InState
  <2>2. /\ DOMAIN decodeQueue = 1..Len(decodeQueue)
        /\ DOMAIN decodeQueue' = 1..(Len(decodeQueue) + 1)
        /\ Len(decodeQueue) \in Nat
        /\ \A i \in DOMAIN decodeQueue : decodeQueue'[i] = decodeQueue[i]
        /\ decodeQueue'[Len(decodeQueue) + 1].key = k
    BY <1>1, <1>2
  <2>3. /\ \A i \in DOMAIN decodeQueue : decodeQueue[i].key # k
        /\ \A w \in Workers : worker[w] # Idle => worker[w].job.key # k
    BY <2>1 DEF JobKeys
  <2>4. {decodeQueue'[i].key : i \in DOMAIN decodeQueue'}
          = {decodeQueue[i].key : i \in DOMAIN decodeQueue} \cup {k}
    BY <2>2
  <2>5. JobKeys' = JobKeys \cup {k}
    BY <1>2, <2>4 DEF JobKeys
  <2>6. JobKeys' = InState(tracked, "Decoding")'
    BY <1>5, <2>5 DEF IInv, OneJobPerKey, InState
  <2>7. \A i, j \in DOMAIN decodeQueue' :
          decodeQueue'[i].key = decodeQueue'[j].key => i = j
    BY <2>2, <2>3 DEF IInv, OneJobPerKey
  <2>8. \A i \in DOMAIN decodeQueue', w \in Workers :
          worker'[w] # Idle => worker'[w].job.key # decodeQueue'[i].key
    BY <1>2, <2>2, <2>3 DEF IInv, OneJobPerKey
  <2>. QED  BY <1>2, <2>6, <2>7, <2>8 DEF IInv, OneJobPerKey
<1>10. NoLostRequest'
  BY <1>2, <1>3 DEF IInv, NoLostRequest, InState
<1>11. SomeoneOwesAPump'
  BY <1>6 DEF SomeoneOwesAPump, IInv, TypeOK
<1>12. BoundedWork'
  BY <1>2, <1>4, <1>6, PipelineAssumption
  DEF IInv, TypeOK, BoundedWork, PipelineAssumption
<1>. QED  BY <1>7, <1>8, <1>9, <1>10, <1>11, <1>12 DEF IInv

(* A worker takes the oldest job.                                           *)
LEMMA DecodeStartIInv ==
  ASSUME NEW w \in Workers PROVE IInv /\ DecodeStart(w) => IInv'
<1> SUFFICES ASSUME IInv, DecodeStart(w) PROVE IInv'
  OBVIOUS
<1>1. /\ decodeQueue \in Seq(Job)
      /\ decodeQueue # <<>>
      /\ worker \in [Workers -> WorkerState]
      /\ worker[w] = Idle
      /\ decodeQueue' = Tail(decodeQueue)
      /\ worker' = [worker EXCEPT
                      ![w] = [pc |-> "decoding", job |-> Head(decodeQueue)]]
      /\ UNCHANGED <<tracked, heap, inflightFetches, pendingStoreCallbacks,
                     reads, queuedDecodes, readyPinned>>
  BY DEF IInv, TypeOK, DecodeStart, requestVars, fetchVars, readyVars
<1>2. /\ Len(decodeQueue) \in Nat \ {0}
      /\ DOMAIN decodeQueue = 1..Len(decodeQueue)
      /\ DOMAIN decodeQueue' = 1..(Len(decodeQueue) - 1)
      /\ \A i \in DOMAIN decodeQueue' : decodeQueue'[i] = decodeQueue[i + 1]
      /\ Head(decodeQueue) = decodeQueue[1]
      /\ Head(decodeQueue) \in Job
      /\ decodeQueue' \in Seq(Job)
  BY <1>1
<1>3. /\ worker' \in [Workers -> WorkerState]
      /\ worker'[w] # Idle
      /\ worker'[w].job = decodeQueue[1]
      /\ \A v \in Workers \ {w} : worker'[v] = worker[v]
  BY <1>1, <1>2 DEF WorkerState, Idle
<1>4. JobKeys' = JobKeys
  <2>1. {decodeQueue[i].key : i \in DOMAIN decodeQueue}
          = {decodeQueue'[i].key : i \in DOMAIN decodeQueue'}
              \cup {decodeQueue[1].key}
    <3>1. \A i \in DOMAIN decodeQueue : i = 1 \/ i - 1 \in DOMAIN decodeQueue'
      BY <1>2
    <3>2. \A i \in DOMAIN decodeQueue : i # 1 => decodeQueue[i] = decodeQueue'[i - 1]
      BY <1>2
    <3>3. \A i \in DOMAIN decodeQueue' : i + 1 \in DOMAIN decodeQueue
      BY <1>2
    <3>4. 1 \in DOMAIN decodeQueue
      BY <1>2
    <3>. QED  BY <1>2, <3>1, <3>2, <3>3, <3>4
  <2>2. {worker'[v].job.key : v \in {u \in Workers : worker'[u] # Idle}}
          = {worker[v].job.key : v \in {u \in Workers : worker[u] # Idle}}
              \cup {decodeQueue[1].key}
    BY <1>1, <1>3
  <2>. QED  BY <2>1, <2>2 DEF JobKeys
<1>5. OneJobPerKey'
  <2>1. \A i, j \in DOMAIN decodeQueue' :
          decodeQueue'[i].key = decodeQueue'[j].key => i = j
    BY <1>2 DEF IInv, OneJobPerKey
  <2>2. \A i \in DOMAIN decodeQueue' : decodeQueue'[i].key # decodeQueue[1].key
    BY <1>2 DEF IInv, OneJobPerKey
  <2>3. \A v \in Workers : worker[v] # Idle => worker[v].job.key # decodeQueue[1].key
    BY <1>2 DEF IInv, OneJobPerKey
  <2>4. \A u, v \in Workers :
          /\ worker'[u] # Idle
          /\ worker'[v] # Idle
          /\ worker'[u].job.key = worker'[v].job.key
          => u = v
    BY <1>3, <2>3 DEF IInv, OneJobPerKey
  <2>5. \A i \in DOMAIN decodeQueue', v \in Workers :
          worker'[v] # Idle => worker'[v].job.key # decodeQueue'[i].key
    <3>1. \A i \in DOMAIN decodeQueue' :
            i + 1 \in DOMAIN decodeQueue /\ decodeQueue'[i] = decodeQueue[i + 1]
      BY <1>2
    <3>. QED  BY <1>3, <2>2, <3>1 DEF IInv, OneJobPerKey
  <2>6. JobKeys' = InState(tracked, "Decoding")'
    BY <1>1, <1>4 DEF IInv, OneJobPerKey, InState
  <2>. QED  BY <2>1, <2>4, <2>5, <2>6 DEF OneJobPerKey
<1>6. TypeOK'
  BY <1>1, <1>2, <1>3 DEF IInv, TypeOK, DecodeStart, requestVars, ramVars,
                          readyVars, renderVars
<1>7. Accounting' /\ NoLostRequest'
  BY <1>1 DEF IInv, Accounting, NoLostRequest, InState
<1>8. SomeoneOwesAPump' /\ BoundedWork'
  BY <1>1 DEF IInv, SomeoneOwesAPump, BoundedWork
<1>. QED  BY <1>5, <1>6, <1>7, <1>8 DEF IInv

(* The RAM-cache insertion is outside the lock and counts nothing.          *)
LEMMA DecodeInsertIInv ==
  ASSUME NEW w \in Workers PROVE IInv /\ DecodeInsert(w) => IInv'
<1> SUFFICES ASSUME IInv, DecodeInsert(w) PROVE IInv'
  OBVIOUS
<1>1. /\ worker \in [Workers -> WorkerState]
      /\ worker[w] # Idle
      /\ worker[w].job \in Job
      /\ worker[w].job.key \in Keys
      /\ worker' = [worker EXCEPT ![w].pc = "inserted"]
      /\ worker[w].pc = "decoding"
      /\ UNCHANGED <<tracked, heap, inflightFetches, pendingStoreCallbacks,
                     reads, queuedDecodes, readyPinned, decodeQueue>>
  <2>1. worker[w] # Idle
    BY DEF DecodeInsert, Idle
  <2>. QED
    BY <2>1, WorkerJob
    DEF IInv, TypeOK, DecodeInsert, requestVars, fetchVars, readyVars
<1>2. /\ worker' \in [Workers -> WorkerState]
      /\ worker'[w] # Idle
      /\ worker'[w].job = worker[w].job
      /\ \A v \in Workers \ {w} : worker'[v] = worker[v]
  <2>1. worker[w] \in [pc : {"decoding", "inserted"}, job : Job]
    BY <1>1 DEF WorkerState
  <2>2. LET u == [worker[w] EXCEPT !.pc = "inserted"] IN
          /\ u \in [pc : {"decoding", "inserted"}, job : Job]
          /\ u.job = worker[w].job
          /\ u.pc = "inserted"
    BY <2>1
  <2>3. worker'[w] = [worker[w] EXCEPT !.pc = "inserted"]
    BY <1>1
  <2>. QED  BY <1>1, <2>2, <2>3 DEF WorkerState, Idle
<1>3. /\ \A v \in Workers : worker'[v] # Idle <=> worker[v] # Idle
      /\ \A v \in Workers : worker[v] # Idle => worker'[v].job = worker[v].job
  BY <1>1, <1>2
<1>4. JobKeys' = JobKeys
  BY <1>1, <1>3 DEF JobKeys
<1>5. OneJobPerKey'
  <2>1. InState(tracked, "Decoding")' = InState(tracked, "Decoding")
    BY <1>1 DEF InState
  <2>. QED  BY <1>1, <1>3, <1>4, <2>1 DEF IInv, OneJobPerKey
<1>6. pins' \in [Keys -> Nat] /\ resident' \subseteq Keys
  BY <1>1 DEF IInv, TypeOK, DecodeInsert
<1>7. TypeOK'
  BY <1>1, <1>2, <1>6 DEF IInv, TypeOK, DecodeInsert, requestVars, readyVars,
                          renderVars
<1>8. Accounting' /\ NoLostRequest'
  BY <1>1 DEF IInv, Accounting, NoLostRequest, InState
<1>9. SomeoneOwesAPump' /\ BoundedWork'
  BY <1>1 DEF IInv, SomeoneOwesAPump, BoundedWork
<1>. QED  BY <1>5, <1>7, <1>8, <1>9 DEF IInv

(* A step that changes nothing.                                             *)
LEMMA StutterIInv == IInv /\ UNCHANGED vars => IInv'
<1> SUFFICES ASSUME IInv, UNCHANGED vars PROVE IInv'
  OBVIOUS
<1>1. TypeOK'
  BY DEF IInv, TypeOK, vars, requestVars, fetchVars, decodeVars, ramVars,
         readyVars, renderVars
<1>. QED
  BY <1>1, FrameIInv DEF vars, requestVars, readyVars

-----------------------------------------------------------------------------
(* Every step preserves the inductive invariant. *)
LEMMA NextIInv == IInv /\ [Next]_vars => IInv'
<1> SUFFICES ASSUME IInv, [Next]_vars PROVE IInv'
  OBVIOUS
<1>1. CASE Plan  BY <1>1, PlanIInv
<1>2. CASE Submit  BY <1>2, SubmitIInv
<1>3. CASE DrainReady  BY <1>3, DrainReadyIInv
<1>4. CASE \E k \in Keys : UnpinRam(k)  BY <1>4, UnpinRamIInv
<1>5. CASE UnpinBytes  BY <1>5, UnpinBytesIInv
<1>6. CASE \E k \in Keys : FetchDone(k)
  BY <1>6, FetchDroppedIInv, FetchDeliveredIInv, LateCallbackIInv DEF FetchDone
<1>7. CASE \E w \in Workers : Decode(w)
  BY <1>7, DecodeStartIInv, DecodeFailIInv, DecodeInsertIInv, DecodePublishIInv
  DEF Decode
<1>8. CASE Destroy
  BY <1>8, BeginDestroyIInv, DestroyedIInv DEF Destroy
<1>9. CASE Terminated \/ UNCHANGED vars
  BY <1>9, StutterIInv DEF Terminated
<1>. QED
  BY <1>1, <1>2, <1>3, <1>4, <1>5, <1>6, <1>7, <1>8, <1>9 DEF Next

(* The pipeline's state stays well typed and its safety invariants hold in  *)
(* every state: the conjunction is what the induction goes through.         *)
THEOREM PipelineInvariant == Spec => []IInv
BY InitIInv, NextIInv, PTL DEF Spec

(* Type correctness of ChunkFetchPipeline's members, whatever the callers,  *)
(* the store and the decode threads do: no counter ever goes below zero.    *)
THEOREM TypeCorrect == Spec => []TypeOK
<1>1. IInv => TypeOK  BY DEF IInv
<1>. QED  BY <1>1, PipelineInvariant, PTL

(* inflightFetches_, queuedDecodes_ and pendingStoreCallbacks_ are at all   *)
(* times the numbers of keys being fetched and decoded and of reads that    *)
(* still owe a callback: no path leaks or double-frees a slot.              *)
THEOREM CountersCorrect == Spec => []Accounting
<1>1. IInv => Accounting  BY DEF IInv
<1>. QED  BY <1>1, PipelineInvariant, PTL

(* The dedupe map keeps every key down to one decode job. *)
THEOREM NoDuplicateWork == Spec => []OneJobPerKey
<1>1. IInv => OneJobPerKey  BY DEF IInv
<1>. QED  BY <1>1, PipelineInvariant, PTL

(* Lazy re-prioritisation never strands a queued key. *)
THEOREM QueuedKeyReachable == Spec => []NoLostRequest
<1>1. IInv => NoLostRequest  BY DEF IInv
<1>. QED  BY <1>1, PipelineInvariant, PTL

(* The pipeline never sleeps on a non-empty heap without a pending          *)
(* completion that pumps.                                                   *)
THEOREM NeverStalls == Spec => []SomeoneOwesAPump
<1>1. IInv => SomeoneOwesAPump  BY DEF IInv
<1>. QED  BY <1>1, PipelineInvariant, PTL

(* How far the fetch, decode and ready caps can be overshot together. *)
THEOREM WorkIsBounded == Spec => []BoundedWork
<1>1. IInv => BoundedWork  BY DEF IInv
<1>. QED  BY <1>1, PipelineInvariant, PTL

-----------------------------------------------------------------------------
(* What one pump does to the request map: it starts some queued keys and    *)
(* drops some that the stale window left behind, and a queued key that is   *)
(* left waits for none of lower priority.                                   *)
Begun(t) == [state |-> "Fetching", priority |-> t.priority,
             epoch |-> t.epoch, stop |-> FALSE]

StartsAndDrops(tr, epoch, started, dropped) ==
  /\ started \cap dropped = {}
  /\ \A k \in started : /\ tr[k].state = "Queued"
                        /\ ~(tr[k].epoch + kStaleWindow < epoch)
  /\ \A k \in dropped : /\ tr[k].state = "Queued"
                        /\ tr[k].epoch + kStaleWindow < epoch
  /\ \A k \in Keys :
       tracked'[k] = IF k \in started THEN Begun(tr[k])
                     ELSE IF k \in dropped THEN Untracked ELSE tr[k]
  /\ \A k \in started, j \in Keys :
       tracked'[j].state = "Queued" => tr[j].priority <= tr[k].priority

(* What a started fetch looks like, field by field.                         *)
LEMMA BegunIs ==
  ASSUME NEW t \in Tracked
  PROVE  [t EXCEPT !.state = "Fetching", !.stop = FALSE] = Begun(t)
<1> DEFINE u == [t EXCEPT !.state = "Fetching", !.stop = FALSE]
<1>1. /\ u \in Tracked
      /\ u.state = "Fetching"
      /\ u.priority = t.priority
      /\ u.epoch = t.epoch
      /\ u.stop = FALSE
  BY DEF Tracked, State
<1> HIDE DEF u
<1>2. u = [state |-> u.state, priority |-> u.priority, epoch |-> u.epoch,
           stop |-> u.stop]
  BY <1>1 DEF Tracked
<1>. QED  BY <1>1, <1>2 DEF Begun, u

(* A pump starts some queued keys, drops some stale ones, and starts none   *)
(* before a queued key of higher priority.                                  *)
LEMMA PumpStarts ==
  ASSUME NEW tr \in [Keys -> Tracked], NEW hp \in SUBSET HeapEntry,
         NEW epoch, NEW inflight, NEW decodes, NEW pinned, NEW pending, NEW rds,
         \A k \in InState(tr, "Queued") :
            [key |-> k, priority |-> tr[k].priority] \in hp,
         Pump(tr, hp, epoch, inflight, decodes, pinned, pending, rds)
  PROVE  \E started, dropped \in SUBSET Keys :
           StartsAndDrops(tr, epoch, started, dropped)
<1> DEFINE room == Room(inflight, decodes, pinned)
<1>1. PICK popped \in Poppable(tr, hp, epoch, room) :
        tracked' =
          [k \in Keys |->
            IF k \in Started(tr, epoch, popped)
            THEN [tr[k] EXCEPT !.state = "Fetching", !.stop = FALSE]
            ELSE IF k \in Expired(tr, epoch, popped) THEN Untracked ELSE tr[k]]
  BY DEF Pump
<1> DEFINE started == Started(tr, epoch, popped)
           dropped == Expired(tr, epoch, popped)
<1>2. /\ popped \subseteq hp
      /\ \A e \in popped, f \in hp \ popped : f.priority <= e.priority
  BY DEF Poppable
<1>3. /\ started \in SUBSET Keys
      /\ dropped \in SUBSET Keys
      /\ started \cap dropped = {}
      /\ started \cup dropped = Current(tr, popped)
  BY DEF Started, Expired, Current
<1>4. /\ \A k \in started : ~(tr[k].epoch + kStaleWindow < epoch)
      /\ \A k \in dropped : tr[k].epoch + kStaleWindow < epoch
  BY DEF Started, Expired
<1>5. \A k \in Current(tr, popped) : tr[k].state = "Queued"
  BY DEF Current
<1>6. \A k \in Keys :
        [tr[k] EXCEPT !.state = "Fetching", !.stop = FALSE] = Begun(tr[k])
  BY BegunIs
<1>7. \A k \in Keys :
        tracked'[k] = IF k \in started THEN Begun(tr[k])
                      ELSE IF k \in dropped THEN Untracked ELSE tr[k]
  BY <1>1, <1>6
<1>8. ASSUME NEW k \in started, NEW j \in Keys, tracked'[j].state = "Queued"
      PROVE  tr[j].priority <= tr[k].priority
  <2>1. /\ Begun(tr[j]).state = "Fetching"
        /\ Untracked.state = "Untracked"
    BY DEF Begun, Untracked
  <2>2. j \notin Current(tr, popped) /\ tr[j].state = "Queued"
    BY <1>3, <1>7, <1>8, <2>1
  <2>3. [key |-> j, priority |-> tr[j].priority] \in hp \ popped
    BY <2>2 DEF Current, InState
  <2>4. PICK e \in popped : e.priority = tr[k].priority
    BY <1>3, <1>8 DEF Current
  <2>. QED  BY <1>2, <2>3, <2>4
<1>. QED
  <2>1. StartsAndDrops(tr, epoch, started, dropped)
    <3> HIDE DEF started, dropped
    <3>. QED  BY <1>3, <1>4, <1>5, <1>7, <1>8 DEF StartsAndDrops
  <2>. QED  BY <1>3, <2>1

(* A handler that hands pump() a map with no fetch of its own starts the    *)
(* highest priorities first.                                                *)
InOrder ==
  \A j, k \in Keys :
    Fetched(k) /\ tracked'[j].state = "Queued"
      => tracked'[j].priority <= tracked'[k].priority

(* A pump whose map has no fetch that is new keeps the order.               *)
LEMMA PumpKeepsOrder ==
  ASSUME NEW tr \in [Keys -> Tracked], NEW epoch, NEW started, NEW dropped,
         StartsAndDrops(tr, epoch, started, dropped),
         \A k \in Keys : tr[k].state = "Fetching" => tracked[k].state = "Fetching"
  PROVE  InOrder
<1> SUFFICES ASSUME NEW j \in Keys, NEW k \in Keys,
                    Fetched(k), tracked'[j].state = "Queued"
             PROVE  tracked'[j].priority <= tracked'[k].priority
  BY DEF InOrder
<1>1. /\ Begun(tr[k]).priority = tr[k].priority
      /\ Begun(tr[j]).state = "Fetching"
      /\ Untracked.state = "Untracked"
  BY DEF Begun, Untracked
<1>2. k \in started
  BY <1>1 DEF StartsAndDrops, Fetched
<1>3. tracked'[j] = tr[j]
  BY <1>1 DEF StartsAndDrops
<1>. QED  BY <1>1, <1>2, <1>3 DEF StartsAndDrops

(* Forgetting a key leaves a map that pump() may be given. *)
LEMMA ForgetKey ==
  ASSUME IInv, NEW k \in Keys
  PROVE  LET tr == [tracked EXCEPT ![k] = Untracked] IN
         /\ tr \in [Keys -> Tracked]
         /\ \A j \in InState(tr, "Queued") :
              [key |-> j, priority |-> tr[j].priority] \in heap
         /\ \A j \in Keys : tr[j] = IF j = k THEN Untracked ELSE tracked[j]
<1> DEFINE tr == [tracked EXCEPT ![k] = Untracked]
<1>1. tracked \in [Keys -> Tracked]
  BY DEF IInv, TypeOK
<1>2. /\ tr \in [Keys -> Tracked]
      /\ \A j \in Keys : tr[j] = IF j = k THEN Untracked ELSE tracked[j]
  BY <1>1, UntrackedTyped
<1> HIDE DEF tr
<1>3. \A j \in InState(tr, "Queued") :
        [key |-> j, priority |-> tr[j].priority] \in heap
  BY <1>2, UntrackedTyped DEF IInv, NoLostRequest, InState
<1>. QED  BY <1>2, <1>3 DEF tr

(* A step that starts no fetch starts none out of order. *)
LEMMA NoFetchNoOrder ==
  ASSUME \A k \in Keys : tracked'[k].state = "Fetching" => tracked[k].state = "Fetching"
  PROVE  InOrder
BY DEF InOrder, Fetched

(* A handler that forgets a key and pumps does so.                          *)
LEMMA ForgetKeepsOrder ==
  ASSUME IInv, NEW k \in Keys,
         NEW inflight, NEW decodes, NEW pinned, NEW pending, NEW rds,
         Pump([tracked EXCEPT ![k] = Untracked], heap, currentEpoch,
              inflight, decodes, pinned, pending, rds)
  PROVE  InOrder
<1> DEFINE tr == [tracked EXCEPT ![k] = Untracked]
<1>1. /\ tr \in [Keys -> Tracked]
      /\ \A j \in InState(tr, "Queued") :
           [key |-> j, priority |-> tr[j].priority] \in heap
      /\ \A j \in Keys : tr[j] = IF j = k THEN Untracked ELSE tracked[j]
  BY ForgetKey
<1>2. heap \in SUBSET HeapEntry
  BY DEF IInv, TypeOK
<1>3. Pump(tr, heap, currentEpoch, inflight, decodes, pinned, pending, rds)
  OBVIOUS
<1> HIDE DEF tr
<1>4. PICK started, dropped \in SUBSET Keys :
        StartsAndDrops(tr, currentEpoch, started, dropped)
  BY <1>1, <1>2, <1>3, PumpStarts
<1>5. \A j \in Keys : tr[j].state = "Fetching" => tracked[j].state = "Fetching"
  BY <1>1, UntrackedTyped
<1>. QED  BY <1>1, <1>4, <1>5, PumpKeepsOrder

(* A submit gives the requested keys their priorities before it pumps.      *)
LEMMA SubmitKeepsOrder ==
  ASSUME IInv, Submit
  PROVE  InOrder
<1>1. PICK wanted \in [render.keys -> Request] :
        Pump(AskedMap(wanted), AskedHeap(wanted), currentEpoch + 1,
             inflightFetches, queuedDecodes, readyPinned,
             pendingStoreCallbacks, reads)
  BY SubmitPumps
<1>2. /\ AskedMap(wanted) \in [Keys -> Tracked]
      /\ AskedHeap(wanted) \in SUBSET HeapEntry
      /\ InState(AskedMap(wanted), "Fetching") = InState(tracked, "Fetching")
      /\ \A k \in InState(AskedMap(wanted), "Queued") :
           [key |-> k, priority |-> AskedMap(wanted)[k].priority]
             \in AskedHeap(wanted)
  BY SubmitPre
<1>3. PICK started, dropped \in SUBSET Keys :
        StartsAndDrops(AskedMap(wanted), currentEpoch + 1, started, dropped)
  BY <1>1, <1>2, PumpStarts
<1>4. \A k \in Keys : AskedMap(wanted)[k].state = "Fetching"
                        => tracked[k].state = "Fetching"
  BY <1>2 DEF InState
<1>. QED  BY <1>2, <1>3, <1>4, PumpKeepsOrder

(* Releasing a brick pumps the map as it is.                                *)
LEMMA UnpinKeepsOrder ==
  ASSUME IInv, UnpinBytes
  PROVE  InOrder
<1>1. Pump(tracked, heap, currentEpoch, inflightFetches, queuedDecodes,
           Released(readyPinned), pendingStoreCallbacks, reads)
  BY DEF UnpinBytes
<1>2. /\ tracked \in [Keys -> Tracked]
      /\ heap \in SUBSET HeapEntry
      /\ \A k \in InState(tracked, "Queued") :
           [key |-> k, priority |-> tracked[k].priority] \in heap
  BY DEF IInv, TypeOK, NoLostRequest
<1>3. PICK started, dropped \in SUBSET Keys :
        StartsAndDrops(tracked, currentEpoch, started, dropped)
  BY <1>1, <1>2, PumpStarts
<1>. QED  BY <1>2, <1>3, PumpKeepsOrder

(* A delivery starts no fetch.                                              *)
LEMMA DeliveryKeepsOrder ==
  ASSUME IInv, NEW k \in Keys, FetchDelivered(k)
  PROVE  InOrder
<1>1. tracked \in [Keys -> Tracked]
  BY DEF IInv, TypeOK
<1>2. tracked' = [tracked EXCEPT ![k].state = "Decoding", ![k].stop = FALSE]
  BY DEF FetchDelivered
<1>3. tracked'[k].state = "Decoding" /\ \A j \in Keys \ {k} : tracked'[j] = tracked[j]
  BY <1>1, <1>2 DEF Tracked
<1>. QED  BY <1>3, NoFetchNoOrder

(* A decode job ends in a pump, or starts no fetch.                         *)
LEMMA DecodeKeepsOrder ==
  ASSUME IInv, NEW w \in Workers, Decode(w)
  PROVE  InOrder
<1>1. CASE DecodeStart(w) \/ DecodeInsert(w)
  BY <1>1, NoFetchNoOrder DEF DecodeStart, DecodeInsert, requestVars
<1>2. CASE DecodeFail(w) \/ DecodePublish(w)
  <2>1. worker[w] # Idle
    BY <1>2 DEF DecodeFail, DecodePublish, Idle
  <2>2. worker[w].job.key \in Keys
    BY <2>1, WorkerJob
  <2>3. CASE DecodeFail(w)
    BY <2>2, <2>3, ForgetKeepsOrder DEF DecodeFail
  <2>4. CASE DecodePublish(w)
    BY <2>2, <2>4, ForgetKeepsOrder DEF DecodePublish
  <2>. QED  BY <1>2, <2>3, <2>4
<1>. QED  BY <1>1, <1>2 DEF Decode

(* The destructor starts no fetch.                                          *)
LEMMA DestroyKeepsOrder ==
  ASSUME IInv, Destroy
  PROVE  InOrder
<1>1. CASE BeginDestroy
  <2>1. \A k \in Keys : tracked'[k] = Unwanted(tracked[k]) /\ tracked[k] \in Tracked
    BY <1>1 DEF BeginDestroy, IInv, TypeOK
  <2>. QED  BY <2>1, UnwantedKeeps, NoFetchNoOrder
<1>2. CASE CallbacksDone \/ PoolJoined
  BY <1>2, NoFetchNoOrder DEF CallbacksDone, PoolJoined, requestVars
<1>. QED  BY <1>1, <1>2 DEF Destroy

(* Every step starts fetches in order.                                      *)
LEMMA NextKeepsOrder == IInv /\ [Next]_vars => InOrder
<1> SUFFICES ASSUME IInv, [Next]_vars PROVE InOrder
  OBVIOUS
<1>1. CASE Plan \/ DrainReady
  BY <1>1, NoFetchNoOrder DEF Plan, DrainReady, requestVars
<1>2. CASE Submit  BY <1>2, SubmitKeepsOrder
<1>3. CASE \E k \in Keys : UnpinRam(k)
  BY <1>3, NoFetchNoOrder DEF UnpinRam, requestVars
<1>4. CASE UnpinBytes  BY <1>4, UnpinKeepsOrder
<1>5. ASSUME NEW k \in Keys, FetchDone(k) PROVE InOrder
  <2>1. CASE FetchDropped(k)
    BY <2>1, ForgetKeepsOrder DEF FetchDropped
  <2>2. CASE FetchDelivered(k)
    BY <2>2, DeliveryKeepsOrder
  <2>3. CASE LateCallback(k)
    BY <2>3, NoFetchNoOrder DEF LateCallback, requestVars
  <2>. QED  BY <1>5, <2>1, <2>2, <2>3 DEF FetchDone
<1>6. CASE \E w \in Workers : Decode(w)  BY <1>6, DecodeKeepsOrder
<1>7. CASE Destroy  BY <1>7, DestroyKeepsOrder
<1>8. CASE Terminated \/ UNCHANGED vars
  BY <1>8, NoFetchNoOrder DEF Terminated, vars, requestVars
<1>. QED
  BY <1>1, <1>2, <1>3, <1>4, <1>5, <1>6, <1>7, <1>8 DEF Next

(* Whichever handler pumps, and however often keys were re-prioritised      *)
(* while they waited, no queued key of higher priority is passed over.      *)
THEOREM HighestPriorityFirst == Spec => StartsHighestPriority
<1>1. IInv /\ [Next]_vars => [InOrder]_vars
  BY NextKeepsOrder
<1>. QED
  BY <1>1, PipelineInvariant, PTL DEF Spec, StartsHighestPriority, InOrder

-----------------------------------------------------------------------------
(* The request map between two critical sections: no request is newer than  *)
(* the last submit, and only fetches are told to stop.                      *)
MapInOrder(tr, epoch) ==
  \A k \in Keys : /\ tr[k].epoch <= epoch
                  /\ tr[k].stop => tr[k].state = "Fetching"

(* The bricks handed over or waiting to be, one by one.                     *)
HeldBricks ==
  {b \in Keys \X Nat : 1 <= b[2] /\ b[2] <= ready[b[1]] + held[b[1]]}

Releasing == IF render.pc = "releasing" THEN 1 ELSE 0

(* readyPinnedBytes_ is exact: one for each brick that was published and    *)
(* whose unpin() has not come to its second half.                           *)
PinsCounted ==
  /\ render.pc \in {"idle", "planned"} => held = None
  /\ render.pc = "releasing" => render.keys # {}
  /\ IsFiniteSet(HeldBricks)
  /\ readyPinned = Cardinality(HeldBricks) + Releasing

Unreleased ==
  {k \in Keys : ready[k] + held[k] > 0} \cup
  (IF render.pc = "releasing" THEN render.keys ELSE {})

Inserted ==
  {k \in Keys : \E w \in Workers : worker[w].pc = "inserted" /\ worker[w].job.key = k}

(* A pump keeps the request map in order. *)
LEMMA PumpMapInOrder ==
  ASSUME NEW tr \in [Keys -> Tracked], NEW epoch \in Nat, NEW started, NEW dropped,
         StartsAndDrops(tr, epoch, started, dropped), MapInOrder(tr, epoch)
  PROVE  MapInOrder(tracked', epoch)
<1> SUFFICES ASSUME NEW k \in Keys
             PROVE  /\ tracked'[k].epoch <= epoch
                    /\ tracked'[k].stop => tracked'[k].state = "Fetching"
  BY DEF MapInOrder
<1>1. tr[k].epoch <= epoch /\ (tr[k].stop => tr[k].state = "Fetching")
  BY DEF MapInOrder
<1>2. /\ Begun(tr[k]).epoch = tr[k].epoch
      /\ Begun(tr[k]).state = "Fetching"
      /\ Untracked.epoch = 0
      /\ ~Untracked.stop
  BY DEF Begun, Untracked
<1>3. \/ tracked'[k] = Begun(tr[k])
      \/ tracked'[k] = Untracked
      \/ tracked'[k] = tr[k]
  BY DEF StartsAndDrops
<1>4. 0 <= epoch
  OBVIOUS
<1>. QED  BY <1>1, <1>2, <1>3, <1>4

-----------------------------------------------------------------------------
(* Counting the pinned bricks. *)
LEMMA HeldBricksStart == Init => PinsCounted
<1> SUFFICES ASSUME Init PROVE PinsCounted
  OBVIOUS
<1>1. HeldBricks = {}
  BY DEF Init, HeldBricks, None
<1>2. IsFiniteSet({}) /\ Cardinality({}) = 0
  BY FS_EmptySet
<1>. QED  BY <1>1, <1>2 DEF Init, PinsCounted, Releasing

(* One pinned brick more. *)
LEMMA OneMore ==
  ASSUME ready \in [Keys -> Nat], held \in [Keys -> Nat],
         ready' \in [Keys -> Nat], held' \in [Keys -> Nat], NEW k \in Keys,
         ready'[k] + held'[k] = ready[k] + held[k] + 1,
         \A j \in Keys \ {k} : ready'[j] + held'[j] = ready[j] + held[j],
         IsFiniteSet(HeldBricks)
  PROVE  /\ IsFiniteSet(HeldBricks')
         /\ Cardinality(HeldBricks') = Cardinality(HeldBricks) + 1
<1> DEFINE b == <<k, ready'[k] + held'[k]>>
<1>1. HeldBricks' = HeldBricks \cup {b}
  <2>1. HeldBricks' =
          {c \in Keys \X Nat : 1 <= c[2] /\ c[2] <= ready'[c[1]] + held'[c[1]]}
    BY DEF HeldBricks
  <2>2. b \in Keys \X Nat /\ b[1] = k /\ b[2] = ready[k] + held[k] + 1
    OBVIOUS
  <2>3. ASSUME NEW c \in Keys \X Nat
        PROVE  1 <= c[2] /\ c[2] <= ready'[c[1]] + held'[c[1]]
                 <=> c = b \/ (1 <= c[2] /\ c[2] <= ready[c[1]] + held[c[1]])
    <3>1. CASE c[1] # k
      BY <3>1, <2>2
    <3>2. CASE c[1] = k
      <4>1. c = b <=> c[2] = ready[k] + held[k] + 1
        BY <3>2, <2>2
      <4>. QED  BY <3>2, <4>1
    <3>. QED  BY <3>1, <3>2
  <2>. QED  BY <2>1, <2>2, <2>3 DEF HeldBricks
<1>2. b \notin HeldBricks
  BY DEF HeldBricks
<1>. QED  BY <1>1, <1>2, FS_AddElement

(* One pinned brick less.                                                   *)
LEMMA OneLess ==
  ASSUME ready \in [Keys -> Nat], held \in [Keys -> Nat],
         ready' \in [Keys -> Nat], held' \in [Keys -> Nat], NEW k \in Keys,
         ready[k] + held[k] = ready'[k] + held'[k] + 1,
         \A j \in Keys \ {k} : ready'[j] + held'[j] = ready[j] + held[j],
         IsFiniteSet(HeldBricks)
  PROVE  /\ IsFiniteSet(HeldBricks')
         /\ Cardinality(HeldBricks') = Cardinality(HeldBricks) - 1
         /\ Cardinality(HeldBricks) > 0
<1> DEFINE b == <<k, ready[k] + held[k]>>
<1>1. HeldBricks' = HeldBricks \ {b}
  <2>1. HeldBricks' =
          {c \in Keys \X Nat : 1 <= c[2] /\ c[2] <= ready'[c[1]] + held'[c[1]]}
    BY DEF HeldBricks
  <2>2. b \in Keys \X Nat /\ b[1] = k /\ b[2] = ready'[k] + held'[k] + 1
    OBVIOUS
  <2>3. ASSUME NEW c \in Keys \X Nat
        PROVE  1 <= c[2] /\ c[2] <= ready'[c[1]] + held'[c[1]]
                 <=> c # b /\ (1 <= c[2] /\ c[2] <= ready[c[1]] + held[c[1]])
    <3>1. CASE c[1] # k
      BY <3>1, <2>2
    <3>2. CASE c[1] = k
      <4>1. c = b <=> c[2] = ready'[k] + held'[k] + 1
        BY <3>2, <2>2
      <4>. QED  BY <3>2, <4>1
    <3>. QED  BY <3>1, <3>2
  <2>. QED  BY <2>1, <2>2, <2>3 DEF HeldBricks
<1>2. b \in HeldBricks
  BY DEF HeldBricks
<1> DEFINE H == HeldBricks
<1> HIDE DEF b
<1>3. /\ IsFiniteSet(H \ {b})
      /\ Cardinality(H \ {b}) = Cardinality(H) - 1
  <2>1. IsFiniteSet(H) /\ b \in H
    BY <1>2
  <2> HIDE DEF H
  <2>. QED  BY <2>1, FS_RemoveElement
<1>4. Cardinality(H) \in Nat /\ Cardinality(H \ {b}) \in Nat
  <2>1. IsFiniteSet(H)
    OBVIOUS
  <2> HIDE DEF H
  <2>. QED  BY <2>1, <1>3, FS_CardinalityType
<1>5. Cardinality(H) > 0
  <2> HIDE DEF H
  <2>. QED  BY <1>3, <1>4
<1>. QED  BY <1>1, <1>3, <1>5

(* The actions that neither publish nor unpin. *)
LEMMA PinsUntouched ==
  ASSUME PinsCounted, UNCHANGED <<ready, held, readyPinned>>,
         \/ render' = render
         \/ /\ render.pc \in {"idle", "planned"}
            /\ render'.pc \in {"idle", "planned"}
  PROVE  PinsCounted'
<1>1. HeldBricks' = HeldBricks
  BY DEF HeldBricks
<1>2. Releasing' = Releasing
  BY DEF Releasing
<1>. QED  BY <1>1, <1>2 DEF PinsCounted, None

(* Draining moves bricks from ready to held and keeps their number.         *)
LEMMA DrainCounts ==
  ASSUME IInv, PinsCounted, DrainReady
  PROVE  PinsCounted'
<1>1. /\ ready \in [Keys -> Nat]
      /\ held = None
      /\ ready' = None
      /\ held' = ready
      /\ readyPinned' = readyPinned
      /\ render.pc = "idle"
      /\ render' = [pc |-> "uploading", keys |-> {}]
  BY DEF IInv, TypeOK, PinsCounted, DrainReady
<1>2. HeldBricks' = HeldBricks
  <2>1. \A k \in Keys : ready'[k] + held'[k] = ready[k] + held[k]
    BY <1>1 DEF None
  <2>2. \A b \in Keys \X Nat : b[1] \in Keys
    OBVIOUS
  <2>3. HeldBricks' =
          {b \in Keys \X Nat : 1 <= b[2] /\ b[2] <= ready'[b[1]] + held'[b[1]]}
    BY DEF HeldBricks
  <2>. QED  BY <2>1, <2>2, <2>3 DEF HeldBricks
<1>3. Releasing' = 0 /\ Releasing = 0
  BY <1>1 DEF Releasing
<1>. QED  BY <1>1, <1>2, <1>3 DEF PinsCounted

(* The brick in hand is counted as being released.                          *)
LEMMA UnpinRamCounts ==
  ASSUME IInv, PinsCounted, NEW k \in Keys, UnpinRam(k)
  PROVE  PinsCounted'
<1>1. /\ ready \in [Keys -> Nat]
      /\ held \in [Keys -> Nat]
      /\ held[k] > 0
      /\ ready' = ready
      /\ held' = [held EXCEPT ![k] = @ - 1]
      /\ readyPinned' = readyPinned
      /\ render.pc = "uploading"
      /\ render' = [pc |-> "releasing", keys |-> {k}]
  BY DEF IInv, TypeOK, UnpinRam, readyVars
<1>2. /\ held' \in [Keys -> Nat]
      /\ held[k] = held'[k] + 1
      /\ \A j \in Keys \ {k} : held'[j] = held[j]
  BY <1>1
<1>3. /\ IsFiniteSet(HeldBricks')
      /\ Cardinality(HeldBricks') = Cardinality(HeldBricks) - 1
  BY <1>1, <1>2, OneLess DEF PinsCounted
<1>4. Releasing' = 1 /\ Releasing = 0
  BY <1>1 DEF Releasing
<1>5. Cardinality(HeldBricks) \in Nat
  BY FS_CardinalityType DEF PinsCounted
<1>. QED  BY <1>1, <1>3, <1>4, <1>5 DEF PinsCounted

(* unpin()'s second half gives one brick back: the subtraction never saturates. *)
LEMMA UnpinBytesCounts ==
  ASSUME IInv, PinsCounted, UnpinBytes
  PROVE  PinsCounted'
<1>1. /\ UNCHANGED <<ready, held>>
      /\ readyPinned' = Released(readyPinned)
      /\ render.pc = "releasing"
      /\ render' = [pc |-> IF held = None THEN "idle" ELSE "uploading", keys |-> {}]
  BY DEF UnpinBytes
<1>2. HeldBricks' = HeldBricks
  BY <1>1 DEF HeldBricks
<1>3. Releasing' = 0 /\ Releasing = 1
  BY <1>1 DEF Releasing
<1>4. Cardinality(HeldBricks) \in Nat
  BY FS_CardinalityType DEF PinsCounted
<1>5. readyPinned' = Cardinality(HeldBricks)
  BY <1>1, <1>3, <1>4 DEF PinsCounted, Released
<1>6. (render'.pc \in {"idle", "planned"} => held' = None)
      /\ render'.pc # "releasing"
  BY <1>1
<1>. QED  BY <1>2, <1>3, <1>4, <1>5, <1>6 DEF PinsCounted, None

(* A published brick is one more.                                           *)
LEMMA PublishCounts ==
  ASSUME IInv, PinsCounted, NEW w \in Workers, DecodePublish(w)
  PROVE  PinsCounted'
<1> DEFINE k == worker[w].job.key
<1>1. /\ ready \in [Keys -> Nat]
      /\ held \in [Keys -> Nat]
      /\ ready' = [ready EXCEPT ![k] = @ + 1]
      /\ readyPinned' = readyPinned + 1
      /\ UNCHANGED <<render, held>>
  BY DEF IInv, TypeOK, DecodePublish, renderVars
<1>2. k \in Keys
  BY WorkerJob DEF DecodePublish, Idle
<1>3. /\ ready' \in [Keys -> Nat]
      /\ ready'[k] = ready[k] + 1
      /\ \A j \in Keys \ {k} : ready'[j] = ready[j]
  BY <1>1, <1>2
<1> HIDE DEF k
<1>4. /\ IsFiniteSet(HeldBricks')
      /\ Cardinality(HeldBricks') = Cardinality(HeldBricks) + 1
  BY <1>1, <1>2, <1>3, OneMore DEF PinsCounted
<1>5. Cardinality(HeldBricks) \in Nat
  BY FS_CardinalityType DEF PinsCounted
<1>6. Releasing' = Releasing /\ Releasing \in Nat
  BY <1>1 DEF Releasing
<1>7. readyPinned' = Cardinality(HeldBricks') + Releasing'
  BY <1>1, <1>4, <1>5, <1>6 DEF PinsCounted
<1>. QED  BY <1>1, <1>4, <1>7 DEF PinsCounted, None

(* Every step keeps the count exact.                                        *)
LEMMA NextCountsPins == IInv /\ PinsCounted /\ [Next]_vars => PinsCounted'
<1> SUFFICES ASSUME IInv, PinsCounted, [Next]_vars PROVE PinsCounted'
  OBVIOUS
<1>1. CASE Plan \/ Submit
  BY <1>1, PinsUntouched DEF Plan, Submit, readyVars
<1>2. CASE DrainReady  BY <1>2, DrainCounts
<1>3. CASE \E k \in Keys : UnpinRam(k)  BY <1>3, UnpinRamCounts
<1>4. CASE UnpinBytes  BY <1>4, UnpinBytesCounts
<1>5. CASE \E k \in Keys : FetchDone(k)
  BY <1>5, PinsUntouched
  DEF FetchDone, FetchDropped, FetchDelivered, LateCallback, readyVars, renderVars
<1>6. ASSUME NEW w \in Workers, Decode(w) PROVE PinsCounted'
  <2>1. CASE DecodePublish(w)
    BY <2>1, PublishCounts
  <2>2. CASE DecodeStart(w) \/ DecodeFail(w) \/ DecodeInsert(w)
    BY <2>2, PinsUntouched DEF DecodeStart, DecodeFail, DecodeInsert, readyVars, renderVars
  <2>. QED  BY <1>6, <2>1, <2>2 DEF Decode
<1>7. CASE Destroy
  BY <1>7, PinsUntouched
  DEF Destroy, BeginDestroy, CallbacksDone, PoolJoined, readyVars, renderVars
<1>8. CASE Terminated \/ UNCHANGED vars
  BY <1>8, PinsUntouched DEF Terminated, vars, readyVars, renderVars
<1>. QED
  BY <1>1, <1>2, <1>3, <1>4, <1>5, <1>6, <1>7, <1>8 DEF Next

-----------------------------------------------------------------------------
(* The request map stays in order. *)
LEMMA AskedInOrder ==
  ASSUME IInv, MapInOrder(tracked, currentEpoch),
         NEW wanted \in [render.keys -> Request]
  PROVE  MapInOrder(AskedMap(wanted), currentEpoch + 1)
<1>1. /\ tracked \in [Keys -> Tracked]
      /\ currentEpoch \in Nat
  BY DEF IInv, TypeOK
<1> SUFFICES ASSUME NEW k \in Keys
             PROVE  /\ AskedMap(wanted)[k].epoch <= currentEpoch + 1
                    /\ AskedMap(wanted)[k].stop => AskedMap(wanted)[k].state = "Fetching"
  BY DEF MapInOrder
<1>2. /\ tracked[k] \in Tracked
      /\ tracked[k].epoch \in Nat
      /\ tracked[k].epoch <= currentEpoch
      /\ tracked[k].stop => tracked[k].state = "Fetching"
  BY <1>1 DEF MapInOrder, Tracked
<1>3. CASE k \in render.keys
  <2>1. AskedMap(wanted)[k] = Requested(tracked[k], wanted[k], currentEpoch + 1)
    BY <1>3 DEF AskedMap
  <2>. QED  BY <1>1, <1>2, <2>1 DEF Requested, Tracked
<1>4. CASE k \notin render.keys
  <2>1. AskedMap(wanted)[k] = Unwanted(tracked[k])
    BY <1>4 DEF AskedMap
  <2>2. /\ Unwanted(tracked[k]).epoch = tracked[k].epoch
        /\ Unwanted(tracked[k]).state = tracked[k].state
        /\ Unwanted(tracked[k]).stop => tracked[k].stop \/ tracked[k].state = "Fetching"
    BY <1>2, UnwantedKeeps
  <2>. QED  BY <1>1, <1>2, <2>1, <2>2
<1>. QED  BY <1>3, <1>4

(* A handler that forgets a key. *)
LEMMA ForgetInOrder ==
  ASSUME IInv, MapInOrder(tracked, currentEpoch), NEW k \in Keys
  PROVE  MapInOrder([tracked EXCEPT ![k] = Untracked], currentEpoch)
<1> DEFINE tr == [tracked EXCEPT ![k] = Untracked]
<1>1. \A j \in Keys : tr[j] = IF j = k THEN Untracked ELSE tracked[j]
  BY ForgetKey
<1>2. Untracked.epoch = 0 /\ ~Untracked.stop /\ currentEpoch \in Nat
  BY DEF Untracked, IInv, TypeOK
<1> HIDE DEF tr
<1>3. MapInOrder(tr, currentEpoch)
  BY <1>1, <1>2 DEF MapInOrder
<1>. QED  BY <1>3 DEF tr

(* A handler that forgets a key and pumps keeps the map in order.           *)
LEMMA ForgetMap ==
  ASSUME IInv, MapInOrder(tracked, currentEpoch), NEW k \in Keys,
         UNCHANGED currentEpoch,
         NEW inflight, NEW decodes, NEW pinned, NEW pending, NEW rds,
         Pump([tracked EXCEPT ![k] = Untracked], heap, currentEpoch,
              inflight, decodes, pinned, pending, rds)
  PROVE  MapInOrder(tracked', currentEpoch')
<1> DEFINE tr == [tracked EXCEPT ![k] = Untracked]
<1>1. /\ tr \in [Keys -> Tracked]
      /\ \A j \in InState(tr, "Queued") :
           [key |-> j, priority |-> tr[j].priority] \in heap
      /\ MapInOrder(tr, currentEpoch)
  BY ForgetKey, ForgetInOrder
<1>2. heap \in SUBSET HeapEntry /\ currentEpoch \in Nat
  BY DEF IInv, TypeOK
<1>3. Pump(tr, heap, currentEpoch, inflight, decodes, pinned, pending, rds)
  OBVIOUS
<1> HIDE DEF tr
<1>4. PICK started, dropped \in SUBSET Keys :
        StartsAndDrops(tr, currentEpoch, started, dropped)
  BY <1>1, <1>2, <1>3, PumpStarts
<1>. QED  BY <1>1, <1>2, <1>4, PumpMapInOrder

(* So does a submit, ...                                                    *)
LEMMA SubmitMap ==
  ASSUME IInv, MapInOrder(tracked, currentEpoch), Submit
  PROVE  MapInOrder(tracked', currentEpoch')
<1>1. PICK wanted \in [render.keys -> Request] :
        Pump(AskedMap(wanted), AskedHeap(wanted), currentEpoch + 1,
             inflightFetches, queuedDecodes, readyPinned,
             pendingStoreCallbacks, reads)
  BY SubmitPumps
<1>2. /\ AskedMap(wanted) \in [Keys -> Tracked]
      /\ AskedHeap(wanted) \in SUBSET HeapEntry
      /\ \A k \in InState(AskedMap(wanted), "Queued") :
           [key |-> k, priority |-> AskedMap(wanted)[k].priority]
             \in AskedHeap(wanted)
  BY SubmitPre
<1>3. PICK started, dropped \in SUBSET Keys :
        StartsAndDrops(AskedMap(wanted), currentEpoch + 1, started, dropped)
  BY <1>1, <1>2, PumpStarts
<1>4. MapInOrder(AskedMap(wanted), currentEpoch + 1)
  BY AskedInOrder
<1>5. currentEpoch + 1 \in Nat /\ currentEpoch' = currentEpoch + 1
  BY SubmitPumps DEF IInv, TypeOK
<1>. QED  BY <1>2, <1>3, <1>4, <1>5, PumpMapInOrder

(* ... the release of a brick, ...                                          *)
LEMMA UnpinMap ==
  ASSUME IInv, MapInOrder(tracked, currentEpoch), UnpinBytes
  PROVE  MapInOrder(tracked', currentEpoch')
<1>1. Pump(tracked, heap, currentEpoch, inflightFetches, queuedDecodes,
           Released(readyPinned), pendingStoreCallbacks, reads)
  BY DEF UnpinBytes
<1>2. /\ tracked \in [Keys -> Tracked]
      /\ heap \in SUBSET HeapEntry
      /\ currentEpoch \in Nat
      /\ currentEpoch' = currentEpoch
      /\ \A k \in InState(tracked, "Queued") :
           [key |-> k, priority |-> tracked[k].priority] \in heap
  BY DEF IInv, TypeOK, NoLostRequest, UnpinBytes
<1>3. PICK started, dropped \in SUBSET Keys :
        StartsAndDrops(tracked, currentEpoch, started, dropped)
  BY <1>1, <1>2, PumpStarts
<1>. QED  BY <1>2, <1>3, PumpMapInOrder

(* The map after a delivery, key by key. *)
LEMMA DeliveredMap ==
  ASSUME IInv, NEW k \in Keys, FetchDelivered(k)
  PROVE  /\ \A j \in Keys \ {k} : tracked'[j] = tracked[j]
         /\ tracked'[k].state = "Decoding"
         /\ tracked'[k].epoch = tracked[k].epoch
         /\ ~tracked'[k].stop
<1>1. tracked \in [Keys -> Tracked]
  BY DEF IInv, TypeOK
<1>2. tracked' = [tracked EXCEPT ![k].state = "Decoding", ![k].stop = FALSE]
  BY DEF FetchDelivered
<1>3. tracked[k] \in Tracked
  BY <1>1
<1>. QED  BY <1>1, <1>2, <1>3 DEF Tracked

(* ... a delivery, ...                                                      *)
LEMMA DeliveryMap ==
  ASSUME IInv, MapInOrder(tracked, currentEpoch), NEW k \in Keys, FetchDelivered(k)
  PROVE  MapInOrder(tracked', currentEpoch')
BY DeliveredMap DEF MapInOrder, FetchDelivered

(* ... and the destructor.                                                  *)
LEMMA DestroyMap ==
  ASSUME IInv, MapInOrder(tracked, currentEpoch), BeginDestroy
  PROVE  MapInOrder(tracked', currentEpoch')
<1>1. /\ \A k \in Keys : tracked'[k] = Unwanted(tracked[k]) /\ tracked[k] \in Tracked
      /\ currentEpoch' = currentEpoch
  BY DEF BeginDestroy, IInv, TypeOK
<1>2. \A k \in Keys : /\ tracked'[k].epoch = tracked[k].epoch
                      /\ tracked'[k].state = tracked[k].state
                      /\ tracked'[k].stop => \/ tracked[k].stop
                                             \/ tracked[k].state = "Fetching"
  BY <1>1, UnwantedKeeps
<1>. QED  BY <1>1, <1>2 DEF MapInOrder

(* Every step keeps the map in order.                                       *)
LEMMA NextKeepsMap ==
  IInv /\ MapInOrder(tracked, currentEpoch) /\ [Next]_vars
    => MapInOrder(tracked', currentEpoch')
<1> SUFFICES ASSUME IInv, MapInOrder(tracked, currentEpoch), [Next]_vars
             PROVE  MapInOrder(tracked', currentEpoch')
  OBVIOUS
<1>1. CASE Plan \/ DrainReady
  BY <1>1 DEF Plan, DrainReady, requestVars
<1>2. CASE Submit  BY <1>2, SubmitMap
<1>3. CASE \E k \in Keys : UnpinRam(k)
  BY <1>3 DEF UnpinRam, requestVars
<1>4. CASE UnpinBytes  BY <1>4, UnpinMap
<1>5. ASSUME NEW k \in Keys, FetchDone(k)
      PROVE  MapInOrder(tracked', currentEpoch')
  <2>1. CASE FetchDropped(k)
    BY <2>1, ForgetMap DEF FetchDropped
  <2>2. CASE FetchDelivered(k)
    BY <2>2, DeliveryMap
  <2>3. CASE LateCallback(k)
    BY <2>3 DEF LateCallback, requestVars
  <2>. QED  BY <1>5, <2>1, <2>2, <2>3 DEF FetchDone
<1>6. ASSUME NEW w \in Workers, Decode(w)
      PROVE  MapInOrder(tracked', currentEpoch')
  <2>1. CASE DecodeStart(w) \/ DecodeInsert(w)
    BY <2>1 DEF DecodeStart, DecodeInsert, requestVars
  <2>2. CASE DecodeFail(w) \/ DecodePublish(w)
    <3>1. worker[w] # Idle
      BY <2>2 DEF DecodeFail, DecodePublish, Idle
    <3>2. worker[w].job.key \in Keys
      BY <3>1, WorkerJob
    <3>3. CASE DecodeFail(w)
      BY <3>2, <3>3, ForgetMap DEF DecodeFail
    <3>4. CASE DecodePublish(w)
      BY <3>2, <3>4, ForgetMap DEF DecodePublish
    <3>. QED  BY <2>2, <3>3, <3>4
  <2>. QED  BY <1>6, <2>1, <2>2 DEF Decode
<1>7. CASE Destroy
  BY <1>7, DestroyMap DEF Destroy, CallbacksDone, PoolJoined, requestVars
<1>8. CASE Terminated \/ UNCHANGED vars
  BY <1>8 DEF Terminated, vars, requestVars
<1>. QED
  BY <1>1, <1>2, <1>3, <1>4, <1>5, <1>6, <1>7, <1>8 DEF Next

(* The second inductive invariant. *)
HandedOver == MapInOrder(tracked, currentEpoch) /\ PinsCounted

(* readyPinnedBytes_ counts exactly the bricks published and not released:   *)
(* unpin()'s saturating subtraction never saturates, so the cap on ready     *)
(* bricks neither leaks a brick nor opens early.                             *)
THEOREM PinsAreExact == Spec => []HandedOver
<1>1. Init => HandedOver
  <2>1. Init => MapInOrder(tracked, currentEpoch)
    BY DEF Init, MapInOrder, Untracked
  <2>. QED  BY <2>1, HeldBricksStart DEF HandedOver
<1>2. IInv /\ HandedOver /\ [Next]_vars => HandedOver'
  BY NextKeepsMap, NextCountsPins DEF HandedOver
<1>. QED  BY <1>1, <1>2, PipelineInvariant, PTL DEF Spec

-----------------------------------------------------------------------------
(* The delivery record that BrickDelivery sees, of a request map, a submit   *)
(* counter, the keys that are in the RAM cache and not published, and the    *)
(* bricks handed over.                                                       *)
StageAt(s, inserted) ==
  CASE s = "Untracked" -> "no"
    [] s = "Queued"    -> "queued"
    [] s = "Fetching"  -> "fetching"
    [] s = "Decoding"  -> IF inserted THEN "inserted" ELSE "decoding"

MissedAt(t, epoch) ==
  IF t.state = "Queued"
  THEN IF epoch - t.epoch < 2 THEN epoch - t.epoch ELSE 2
  ELSE 0

Seen(tr, epoch, inserted, unreleased) ==
  [stage      |-> [k \in Keys |-> StageAt(tr[k].state, k \in inserted)],
   missed     |-> [k \in Keys |-> MissedAt(tr[k], epoch)],
   stopped    |-> {k \in Keys : tr[k].stop},
   unreleased |-> unreleased]

(* The mapping of ImplementsDelivery. *)
Promised ==
  [stage      |-> [k \in Keys |-> StageOf(k)],
   missed     |-> [k \in Keys |-> Missed(k)],
   stopped    |-> {k \in Keys : tracked[k].stop},
   unreleased |-> {k \in Keys : ready[k] + held[k] > 0} \cup
                  (IF render.pc = "releasing" THEN render.keys ELSE {})]

(* The mapping is the record of the current state, ...                      *)
LEMMA PromisedIsSeen ==
  Promised = Seen(tracked, currentEpoch, Inserted, Unreleased)
<1>1. \A k \in Keys : StageOf(k) = StageAt(tracked[k].state, k \in Inserted)
  BY DEF StageOf, StageAt, Inserted
<1>2. \A k \in Keys : Missed(k) = MissedAt(tracked[k], currentEpoch)
  BY DEF Missed, MissedAt
<1>. QED  BY <1>1, <1>2 DEF Promised, Seen, Unreleased

(* ... and of the next one.                                                 *)
LEMMA PromisedNextIsSeen ==
  Promised' = Seen(tracked', currentEpoch', Inserted', Unreleased')
<1>1. \A k \in Keys : StageOf(k)' = StageAt(tracked'[k].state, k \in Inserted')
  BY DEF StageOf, StageAt, Inserted
<1>2. \A k \in Keys : Missed(k)' = MissedAt(tracked'[k], currentEpoch')
  BY DEF Missed, MissedAt
<1>. QED  BY <1>1, <1>2 DEF Promised, Seen, Unreleased

(* A pump, as BrickDelivery sees it. *)
LEMMA PumpIsPumped ==
  ASSUME NEW tr \in [Keys -> Tracked], NEW epoch \in Nat, NEW inserted, NEW unreleased,
         MapInOrder(tr, epoch),
         NEW started \in SUBSET Keys, NEW dropped \in SUBSET Keys,
         StartsAndDrops(tr, epoch, started, dropped),
         Delivery!Awake(Seen(tracked', epoch, inserted, unreleased))
  PROVE  Seen(tracked', epoch, inserted, unreleased)
           \in Delivery!Pumped(Seen(tr, epoch, inserted, unreleased))
<1> DEFINE d == Seen(tr, epoch, inserted, unreleased)
           e == Seen(tracked', epoch, inserted, unreleased)
           fresh == {k \in Delivery!AtStage(d, "queued") : d.missed[k] < 2}
           stale == Delivery!AtStage(d, "queued") \ fresh
           S == [start |-> started, drop |-> dropped]
           next(T) ==
             [stage      |-> [k \in Keys |-> IF k \in T.start THEN "fetching"
                                             ELSE IF k \in T.drop THEN "no"
                                             ELSE d.stage[k]],
              missed     |-> [k \in Keys |-> IF k \in T.start \cup T.drop
                                             THEN 0 ELSE d.missed[k]],
              stopped    |-> d.stopped,
              unreleased |-> d.unreleased]
<1>1. \A k \in Keys : /\ tr[k] \in Tracked
                      /\ tr[k].epoch \in Nat
                      /\ tr[k].epoch <= epoch
                      /\ tr[k].state \in State
                      /\ tr[k].stop => tr[k].state = "Fetching"
  BY DEF MapInOrder, Tracked
<1>2. \A k \in Keys : /\ d.stage[k] = StageAt(tr[k].state, k \in inserted)
                      /\ d.missed[k] = MissedAt(tr[k], epoch)
  BY DEF Seen
<1>3. \A k \in Keys : d.stage[k] = "queued" <=> tr[k].state = "Queued"
  BY <1>1, <1>2 DEF StageAt, State
<1>4. \A k \in Keys : tr[k].state = "Queued" =>
        (d.missed[k] < 2 <=> ~(tr[k].epoch + kStaleWindow < epoch))
  BY <1>1, <1>2 DEF MissedAt, kStaleWindow
<1>5. started \in SUBSET fresh
  <2> HIDE DEF d
  <2>. QED  BY <1>3, <1>4 DEF StartsAndDrops, Delivery!AtStage
<1>6. dropped \in SUBSET stale
  <2> HIDE DEF d
  <2>. QED  BY <1>3, <1>4 DEF StartsAndDrops, Delivery!AtStage
<1>7. \A k \in Keys : e.stage[k] = IF k \in started THEN "fetching"
                                   ELSE IF k \in dropped THEN "no" ELSE d.stage[k]
  <2>1. \A k \in Keys : e.stage[k] = StageAt(tracked'[k].state, k \in inserted)
    BY DEF Seen
  <2>2. /\ \A k \in Keys : Begun(tr[k]).state = "Fetching"
        /\ Untracked.state = "Untracked"
    BY DEF Begun, Untracked
  <2> HIDE DEF d, e
  <2>. QED  BY <1>2, <2>1, <2>2 DEF StartsAndDrops, StageAt
<1>8. \A k \in Keys : e.missed[k] = IF k \in started \cup dropped
                                    THEN 0 ELSE d.missed[k]
  <2>1. \A k \in Keys : e.missed[k] = MissedAt(tracked'[k], epoch)
    BY DEF Seen
  <2>2. /\ \A k \in Keys : Begun(tr[k]).state = "Fetching"
        /\ Untracked.state = "Untracked"
    BY DEF Begun, Untracked
  <2> HIDE DEF d, e
  <2>. QED  BY <1>2, <2>1, <2>2 DEF StartsAndDrops, MissedAt
<1>9. e.stopped = d.stopped
  <2>1. \A k \in Keys : /\ Begun(tr[k]).stop = FALSE
                        /\ Untracked.stop = FALSE
    BY DEF Begun, Untracked
  <2>2. \A k \in started \cup dropped : ~tr[k].stop
    BY <1>1 DEF StartsAndDrops
  <2>3. \A k \in Keys : tracked'[k].stop <=> tr[k].stop
    BY <2>1, <2>2 DEF StartsAndDrops
  <2>. QED  BY <2>3 DEF Seen
<1>10. e = next(S)
  <2>1. /\ e = [stage |-> e.stage, missed |-> e.missed, stopped |-> e.stopped,
                unreleased |-> e.unreleased]
        /\ e.stage = [k \in Keys |-> e.stage[k]]
        /\ e.missed = [k \in Keys |-> e.missed[k]]
        /\ e.unreleased = d.unreleased
    BY DEF Seen
  <2>2. e.stage = next(S).stage
    <3> HIDE DEF d, e
    <3>. QED  BY <1>7, <2>1
  <2>3. e.missed = next(S).missed
    <3> HIDE DEF d, e
    <3>. QED  BY <1>8, <2>1
  <2>4. next(S) = [stage |-> next(S).stage, missed |-> next(S).missed,
                   stopped |-> d.stopped, unreleased |-> d.unreleased]
    OBVIOUS
  <2> HIDE DEF d, e, next
  <2>. QED  BY <1>9, <2>1, <2>2, <2>3, <2>4
<1>11. S \in [start : SUBSET fresh, drop : SUBSET stale]
  BY <1>5, <1>6
<1>12. Delivery!Awake(e)
  OBVIOUS
<1>13. Delivery!Pumped(d) =
         {f \in {next(T) : T \in [start : SUBSET fresh, drop : SUBSET stale]} :
            Delivery!Awake(f)}
  BY DEF Delivery!Pumped
<1>14. e \in Delivery!Pumped(d)
  <2> HIDE DEF d, e, next, fresh, stale, S
  <2>. QED  BY <1>10, <1>11, <1>12, <1>13
<1>. QED  BY <1>14

(* While a key is queued another is under way or waits to be released. *)
LEMMA AwakeIfBusy ==
  ASSUME NEW tr \in [Keys -> Tracked], NEW epoch, NEW inserted, NEW unreleased,
         InState(tr, "Queued") # {} => \/ InState(tr, "Fetching") # {}
                                       \/ InState(tr, "Decoding") # {}
                                       \/ unreleased # {}
  PROVE  Delivery!Awake(Seen(tr, epoch, inserted, unreleased))
<1> DEFINE d == Seen(tr, epoch, inserted, unreleased)
<1>1. /\ \A k \in Keys : d.stage[k] = StageAt(tr[k].state, k \in inserted)
      /\ d.unreleased = unreleased
  BY DEF Seen
<1>2. \A k \in Keys : tr[k].state \in State
  BY DEF Tracked
<1> HIDE DEF d
<1>3. Delivery!AtStage(d, "queued") = InState(tr, "Queued")
  BY <1>1, <1>2 DEF Delivery!AtStage, InState, StageAt, State
<1>4. InState(tr, "Fetching") \cup InState(tr, "Decoding") \subseteq Delivery!UnderWay(d)
  BY <1>1, <1>2 DEF Delivery!UnderWay, InState, StageAt, State
<1>5. Delivery!Awake(d)
  BY <1>1, <1>3, <1>4 DEF Delivery!Awake
<1>. QED  BY <1>5 DEF d

(* SomeoneOwesAPump and the exact count of pinned bricks give Awake. *)
LEMMA AwakeNext ==
  ASSUME IInv', PinsCounted', NEW epoch, NEW inserted
  PROVE  Delivery!Awake(Seen(tracked', epoch, inserted, Unreleased'))
<1>1. /\ tracked' \in [Keys -> Tracked]
      /\ ready' \in [Keys -> Nat]
      /\ held' \in [Keys -> Nat]
      /\ inflightFetches' = Cardinality(InState(tracked', "Fetching"))
      /\ queuedDecodes' = Cardinality(InState(tracked', "Decoding"))
  BY DEF IInv, TypeOK, Accounting, InState
<1>2. InState(tracked', "Queued") # {} =>
        \/ inflightFetches' = MaxInflightFetches
        \/ queuedDecodes' > 0
        \/ readyPinned' >= MaxReadyPinned
  BY DEF IInv, NoLostRequest, SomeoneOwesAPump, InState
<1>3. Cardinality({}) = 0
  BY FS_EmptySet
<1>4. /\ inflightFetches' = MaxInflightFetches => InState(tracked', "Fetching") # {}
      /\ queuedDecodes' > 0 => InState(tracked', "Decoding") # {}
  BY <1>1, <1>3, PipelineAssumption DEF PipelineAssumption
<1>5. ASSUME readyPinned' >= MaxReadyPinned PROVE Unreleased' # {}
  <2>1. readyPinned' > 0 /\ readyPinned' = Cardinality(HeldBricks') + Releasing'
    BY <1>5, PipelineAssumption DEF PipelineAssumption, PinsCounted, IInv, TypeOK
  <2>2. CASE render'.pc = "releasing"
    BY <2>2 DEF PinsCounted, Unreleased
  <2>3. CASE render'.pc # "releasing"
    <3>1. Releasing' = 0
      BY <2>3 DEF Releasing
    <3>2. HeldBricks' # {}
      BY <1>3, <2>1, <3>1
    <3>3. PICK k \in Keys, n \in Nat : 1 <= n /\ n <= ready'[k] + held'[k]
      <4>1. HeldBricks' = {b \in Keys \X Nat : 1 <= b[2] /\ b[2] <= ready'[b[1]] + held'[b[1]]}
        BY DEF HeldBricks
      <4>2. PICK b \in Keys \X Nat : 1 <= b[2] /\ b[2] <= ready'[b[1]] + held'[b[1]]
        BY <3>2, <4>1
      <4>. QED  BY <4>2
    <3>4. k \in Unreleased'
      BY <1>1, <3>3 DEF Unreleased
    <3>. QED  BY <3>4
  <2>. QED  BY <2>2, <2>3
<1>. QED  BY <1>1, <1>2, <1>4, <1>5, AwakeIfBusy

-----------------------------------------------------------------------------
(* Each action is a step of BrickDelivery or leaves the record as it is.     *)

(* What a handler hands to pump() and what it gets back, as BrickDelivery    *)
(* sees them.                                                                *)
LEMMA HandlerPumps ==
  ASSUME IInv', PinsCounted',
         NEW tr \in [Keys -> Tracked], NEW hp \in SUBSET HeapEntry,
         NEW epoch \in Nat, NEW inflight, NEW decodes, NEW pinned, NEW pending,
         NEW rds, NEW d,
         \A k \in InState(tr, "Queued") :
            [key |-> k, priority |-> tr[k].priority] \in hp,
         MapInOrder(tr, epoch), epoch = currentEpoch',
         Pump(tr, hp, epoch, inflight, decodes, pinned, pending, rds),
         Seen(tr, epoch, Inserted', Unreleased') = d
  PROVE  Promised' \in Delivery!Pumped(d)
<1>1. PICK started, dropped \in SUBSET Keys :
        StartsAndDrops(tr, epoch, started, dropped)
  BY PumpStarts
<1>2. Delivery!Awake(Seen(tracked', epoch, Inserted', Unreleased'))
  BY AwakeNext
<1>3. Seen(tracked', epoch, Inserted', Unreleased')
        \in Delivery!Pumped(Seen(tr, epoch, Inserted', Unreleased'))
  BY <1>1, <1>2, PumpIsPumped
<1>. QED  BY <1>3, PromisedNextIsSeen

(* A submit is a submit of the same keys.                                   *)
LEMMA SubmitDelivers ==
  ASSUME IInv, HandedOver, IInv', HandedOver', Submit
  PROVE  Delivery!Next
<1>1. PICK wanted \in [render.keys -> Request] :
        Pump(AskedMap(wanted), AskedHeap(wanted), currentEpoch + 1,
             inflightFetches, queuedDecodes, readyPinned,
             pendingStoreCallbacks, reads)
  BY SubmitPumps
<1> DEFINE tr == AskedMap(wanted)
           hp == AskedHeap(wanted)
           d == Promised
           V == render.keys
<1>2. /\ tr \in [Keys -> Tracked]
      /\ hp \in SUBSET HeapEntry
      /\ \A k \in InState(tr, "Queued") :
           [key |-> k, priority |-> tr[k].priority] \in hp
      /\ MapInOrder(tr, currentEpoch + 1)
  BY SubmitPre, AskedInOrder DEF HandedOver
<1>3. /\ currentEpoch + 1 \in Nat
      /\ currentEpoch' = currentEpoch + 1
      /\ V \in SUBSET Keys
      /\ tracked \in [Keys -> Tracked]
      /\ MapInOrder(tracked, currentEpoch)
  BY SubmitPumps DEF IInv, TypeOK, RenderState, HandedOver
<1>4. Inserted' = Inserted /\ Unreleased' = Unreleased
  BY DEF Submit, Inserted, Unreleased, decodeVars, readyVars
<1>5. d = Seen(tracked, currentEpoch, Inserted, Unreleased)
  BY PromisedIsSeen
<1>6. \A k \in Keys : /\ tracked[k] \in Tracked
                      /\ tracked[k].state \in State
                      /\ tracked[k].epoch \in Nat
                      /\ tracked[k].epoch <= currentEpoch
                      /\ tracked[k].stop => tracked[k].state = "Fetching"
  BY <1>3 DEF MapInOrder, Tracked
<1>7. /\ \A k \in V : tr[k] = Requested(tracked[k], wanted[k], currentEpoch + 1)
      /\ \A k \in Keys \ V : tr[k] = Unwanted(tracked[k])
  BY <1>3 DEF AskedMap
<1>8. /\ \A k \in Keys : d.stage[k] = StageAt(tracked[k].state, k \in Inserted)
      /\ \A k \in Keys : d.missed[k] = MissedAt(tracked[k], currentEpoch)
      /\ d.stopped = {k \in Keys : tracked[k].stop}
      /\ d.unreleased = Unreleased
  BY <1>5 DEF Seen
<1> DEFINE e == Seen(tr, currentEpoch + 1, Inserted, Unreleased)
           a == Delivery!Asked(d, V)
<1>9. /\ \A k \in Keys : e.stage[k] = StageAt(tr[k].state, k \in Inserted)
      /\ \A k \in Keys : e.missed[k] = MissedAt(tr[k], currentEpoch + 1)
      /\ e.stopped = {k \in Keys : tr[k].stop}
      /\ e.unreleased = Unreleased
      /\ e = [stage |-> e.stage, missed |-> e.missed, stopped |-> e.stopped,
              unreleased |-> e.unreleased]
      /\ e.stage = [k \in Keys |-> e.stage[k]]
      /\ e.missed = [k \in Keys |-> e.missed[k]]
  BY DEF Seen
<1>10. /\ a.stage = [k \in Keys |-> IF k \in V /\ d.stage[k] = "no" THEN "queued"
                                    ELSE d.stage[k]]
       /\ a.missed = [k \in Keys |->
                       CASE k \in V -> 0
                         [] k \notin V /\ d.stage[k] = "queued" /\ d.missed[k] < 2
                              -> d.missed[k] + 1
                         [] OTHER -> d.missed[k]]
       /\ a.stopped = d.stopped \cup (Delivery!AtStage(d, "fetching") \ V)
       /\ a.unreleased = d.unreleased
       /\ a = [stage |-> a.stage, missed |-> a.missed, stopped |-> a.stopped,
               unreleased |-> a.unreleased]
  BY DEF Delivery!Asked
<1>11. \A k \in V : /\ k \in Keys
                    /\ tr[k].state = IF tracked[k].state \in {"Untracked", "Queued"}
                                     THEN "Queued" ELSE tracked[k].state
                    /\ tr[k].epoch = currentEpoch + 1
                    /\ tr[k].stop <=> tracked[k].stop
  <2> SUFFICES ASSUME NEW k \in V
               PROVE  /\ k \in Keys
                      /\ tr[k].state = IF tracked[k].state \in {"Untracked", "Queued"}
                                       THEN "Queued" ELSE tracked[k].state
                      /\ tr[k].epoch = currentEpoch + 1
                      /\ tr[k].stop <=> tracked[k].stop
    OBVIOUS
  <2>1. tr[k] = Requested(tracked[k], wanted[k], currentEpoch + 1) /\ k \in Keys
    BY <1>3, <1>7
  <2>2. tracked[k].stop \in BOOLEAN
    BY <1>6, <2>1 DEF Tracked
  <2>3. CASE tracked[k].state \in {"Untracked", "Queued"}
    <3>1. tracked[k].stop = FALSE
      BY <1>6, <2>1, <2>2, <2>3
    <3>. QED  BY <2>1, <2>3, <3>1 DEF Requested
  <2>4. CASE tracked[k].state \notin {"Untracked", "Queued"}
    BY <1>6, <2>1, <2>4 DEF Requested, Tracked
  <2>. QED  BY <2>3, <2>4
<1>12. \A k \in Keys \ V : /\ tr[k].state = tracked[k].state
                           /\ tr[k].epoch = tracked[k].epoch
                           /\ tr[k].stop <=> \/ tracked[k].stop
                                             \/ tracked[k].state = "Fetching"
  BY <1>6, <1>7, UnwantedKeeps
<1> HIDE DEF d, e, a, tr, V
<1>13. e.stage = a.stage
  BY <1>6, <1>8, <1>9, <1>10, <1>11, <1>12 DEF StageAt, State
<1>14. e.missed = a.missed
  <2>1. ASSUME NEW k \in Keys
        PROVE  e.missed[k] = CASE k \in V -> 0
                               [] k \notin V /\ d.stage[k] = "queued" /\ d.missed[k] < 2
                                    -> d.missed[k] + 1
                               [] OTHER -> d.missed[k]
    <3>1. d.stage[k] = "queued" <=> tracked[k].state = "Queued"
      BY <1>6, <1>8 DEF StageAt, State
    <3>2. CASE k \in V
      BY <1>3, <1>9, <1>11, <3>2 DEF MissedAt
    <3>3. CASE k \notin V /\ tracked[k].state # "Queued"
      BY <1>8, <1>9, <1>12, <3>1, <3>3 DEF MissedAt
    <3>4. CASE k \notin V /\ tracked[k].state = "Queued"
      <4>0. tr[k].epoch = tracked[k].epoch
        BY <1>12, <3>4
      <4>z. tr[k].state = "Queued"
        BY <1>12, <3>4
      <4>a. /\ d.missed[k] = MissedAt(tracked[k], currentEpoch)
            /\ e.missed[k] = MissedAt(tr[k], currentEpoch + 1)
        BY <1>8, <1>9
      <4>b. MissedAt(tracked[k], currentEpoch) =
              IF currentEpoch - tracked[k].epoch < 2
              THEN currentEpoch - tracked[k].epoch ELSE 2
        BY <3>4, Zenon DEF MissedAt
      <4>c. MissedAt(tr[k], currentEpoch + 1) =
              IF (currentEpoch + 1) - tr[k].epoch < 2
              THEN (currentEpoch + 1) - tr[k].epoch ELSE 2
        BY ONLY <4>z, Zenon DEF MissedAt
      <4>1. /\ d.missed[k] = IF currentEpoch - tracked[k].epoch < 2
                             THEN currentEpoch - tracked[k].epoch ELSE 2
            /\ e.missed[k] = IF (currentEpoch + 1) - tracked[k].epoch < 2
                             THEN (currentEpoch + 1) - tracked[k].epoch ELSE 2
        BY <4>0, <4>a, <4>b, <4>c, Zenon
      <4>2. currentEpoch \in Nat /\ tracked[k].epoch \in Nat /\ tracked[k].epoch <= currentEpoch
        BY <1>6 DEF IInv, TypeOK
      <4>. QED  BY <3>1, <3>4, <4>1, <4>2
    <3>. QED  BY <3>2, <3>3, <3>4
  <2>. QED  BY <1>9, <1>10, <2>1
<1>15. e.stopped = a.stopped
  <2>1. \A k \in Keys : d.stage[k] = "fetching" <=> tracked[k].state = "Fetching"
    BY <1>6, <1>8 DEF StageAt, State
  <2>2. \A k \in Keys : tr[k].stop <=> \/ tracked[k].stop
                                       \/ tracked[k].state = "Fetching" /\ k \notin V
    BY <1>11, <1>12
  <2>. QED  BY <1>8, <1>9, <1>10, <2>1, <2>2 DEF Delivery!AtStage
<1>16. e = a
  BY <1>8, <1>9, <1>10, <1>13, <1>14, <1>15
<1>17. Promised' \in Delivery!Pumped(a)
  <2>1. Seen(tr, currentEpoch + 1, Inserted', Unreleased') = a
    BY <1>4, <1>16 DEF e
  <2>2. Pump(tr, hp, currentEpoch + 1, inflightFetches, queuedDecodes, readyPinned,
             pendingStoreCallbacks, reads)
    BY <1>1 DEF tr
  <2> HIDE DEF hp
  <2>. QED  BY <1>2, <1>3, <2>1, <2>2, HandlerPumps DEF HandedOver
<1>18. PICK S \in SUBSET Keys : S = V
  BY <1>3
<1>19. Promised' \in Delivery!Pumped(Delivery!Asked(Promised, S))
  BY <1>17, <1>18 DEF a, d
<1>20. Delivery!Submit(S)
  BY <1>19 DEF Delivery!Submit, Promised
<1>. QED  BY <1>20 DEF Delivery!Next

(* What Promised is made of. *)
LEMMA PromisedParts ==
  ASSUME IInv, HandedOver
  PROVE  /\ Promised = [stage |-> Promised.stage, missed |-> Promised.missed,
                        stopped |-> Promised.stopped,
                        unreleased |-> Promised.unreleased]
         /\ Promised.stage \in [Keys -> Delivery!Stage]
         /\ \A k \in Keys : Promised.stage[k] = StageAt(tracked[k].state, k \in Inserted)
         /\ Promised.missed = [k \in Keys |-> MissedAt(tracked[k], currentEpoch)]
         /\ Promised.stopped = {k \in Keys : tracked[k].stop}
         /\ Promised.unreleased = Unreleased
<1>1. \A k \in Keys : tracked[k].state \in State
  BY DEF IInv, TypeOK, Tracked
<1>2. \A k \in Keys : StageAt(tracked[k].state, k \in Inserted) \in Delivery!Stage
  BY <1>1 DEF StageAt, State, Delivery!Stage
<1>. QED  BY <1>2, PromisedIsSeen DEF Seen

(* One key changes its stage. *)
LEMMA SeenMoves ==
  ASSUME IInv, HandedOver, NEW k \in Keys, tracked[k].state # "Queued",
         NEW tr \in [Keys -> Tracked], NEW inserted, NEW unreleased, NEW s,
         \A j \in Keys \ {k} : tr[j] = tracked[j],
         \A j \in Keys \ {k} : j \in inserted <=> j \in Inserted,
         tr[k].state # "Queued", ~tr[k].stop,
         s = StageAt(tr[k].state, k \in inserted)
  PROVE  Seen(tr, currentEpoch, inserted, unreleased) =
           [stage      |-> [Promised.stage EXCEPT ![k] = s],
            missed     |-> Promised.missed,
            stopped    |-> Promised.stopped \ {k},
            unreleased |-> unreleased]
<1> DEFINE e == Seen(tr, currentEpoch, inserted, unreleased)
           d == Promised
<1>1. /\ e.stage = [j \in Keys |-> StageAt(tr[j].state, j \in inserted)]
      /\ e.missed = [j \in Keys |-> MissedAt(tr[j], currentEpoch)]
      /\ e.stopped = {j \in Keys : tr[j].stop}
      /\ e.unreleased = unreleased
      /\ e = [stage |-> e.stage, missed |-> e.missed, stopped |-> e.stopped,
              unreleased |-> e.unreleased]
  BY DEF Seen
<1>2. /\ d.stage \in [Keys -> Delivery!Stage]
      /\ \A j \in Keys : d.stage[j] = StageAt(tracked[j].state, j \in Inserted)
      /\ d.missed = [j \in Keys |-> MissedAt(tracked[j], currentEpoch)]
      /\ d.stopped = {j \in Keys : tracked[j].stop}
  BY PromisedParts
<1> HIDE DEF e, d
<1>3. \A j \in Keys \ {k} : StageAt(tr[j].state, j \in inserted)
                              = StageAt(tracked[j].state, j \in Inserted)
  BY DEF StageAt
<1>4. e.stage = [d.stage EXCEPT ![k] = s]
  BY <1>1, <1>2, <1>3
<1>5. MissedAt(tr[k], currentEpoch) = 0 /\ MissedAt(tracked[k], currentEpoch) = 0
  BY DEF MissedAt
<1>6. \A j \in Keys : MissedAt(tr[j], currentEpoch) = MissedAt(tracked[j], currentEpoch)
  BY <1>5
<1>7. e.missed = d.missed
  BY <1>1, <1>2, <1>6
<1>8. e.stopped = d.stopped \ {k}
  BY <1>1, <1>2
<1>. QED  BY <1>1, <1>4, <1>7, <1>8 DEF e, d

(* A worker's brick is in the RAM cache once the worker has inserted it.     *)
LEMMA InsertedBy ==
  ASSUME IInv, NEW w \in Workers, worker[w] # Idle
  PROVE  worker[w].job.key \in Inserted <=> worker[w].pc = "inserted"
<1>1. worker[w].job.key \in Keys
  BY WorkerJob
<1>2. \A v \in Workers : worker[v].pc = "inserted" => worker[v] # Idle
  BY DEF Idle
<1>. QED  BY <1>1, <1>2 DEF Inserted, IInv, OneJobPerKey

(* No key that is not being decoded is inserted. *)
LEMMA InsertedDecodes ==
  ASSUME IInv, NEW k \in Inserted
  PROVE  tracked[k].state = "Decoding"
<1>1. PICK w \in Workers : worker[w].pc = "inserted" /\ worker[w].job.key = k
  BY DEF Inserted
<1>2. worker[w] # Idle
  BY <1>1 DEF Idle
<1>. QED  BY <1>1, <1>2, WorkerJob

(* An outstanding read belongs to a key that is being fetched.               *)
LEMMA ReadIsFetching ==
  ASSUME IInv, NEW k \in Keys, reads[k] > 0
  PROVE  tracked[k].state = "Fetching"
<1>1. reads[k] = IF tracked[k].state = "Fetching" THEN 1 ELSE 0
  BY DEF IInv, Accounting
<1>. QED  BY <1>1

(* A read that fails or is cancelled is a failed delivery.                   *)
LEMMA FetchDroppedDelivers ==
  ASSUME IInv, HandedOver, IInv', HandedOver', NEW k \in Keys, FetchDropped(k)
  PROVE  Delivery!Next
<1> DEFINE tr == [tracked EXCEPT ![k] = Untracked]
           rds == [reads EXCEPT ![k] = @ - 1]
<1>1. /\ tracked[k].state = "Fetching"
      /\ currentEpoch \in Nat
      /\ currentEpoch' = currentEpoch
      /\ heap \in SUBSET HeapEntry
  <2>1. reads[k] > 0 /\ currentEpoch' = currentEpoch
    BY DEF FetchDropped
  <2>2. currentEpoch \in Nat /\ heap \in SUBSET HeapEntry
    BY DEF IInv, TypeOK
  <2>. QED  BY <2>1, <2>2, ReadIsFetching
<1>2. /\ tr \in [Keys -> Tracked]
      /\ \A j \in InState(tr, "Queued") :
           [key |-> j, priority |-> tr[j].priority] \in heap
      /\ \A j \in Keys : tr[j] = IF j = k THEN Untracked ELSE tracked[j]
      /\ MapInOrder(tr, currentEpoch)
  BY ForgetKey, ForgetInOrder DEF HandedOver
<1>3. Inserted' = Inserted /\ Unreleased' = Unreleased
  BY DEF FetchDropped, Inserted, Unreleased, decodeVars, readyVars, renderVars
<1>4. Pump(tr, heap, currentEpoch, inflightFetches - 1, queuedDecodes,
           readyPinned, pendingStoreCallbacks - 1, rds)
  BY DEF FetchDropped
<1> HIDE DEF tr, rds
<1>5. /\ tr[k] = Untracked
      /\ Untracked.state = "Untracked"
      /\ ~Untracked.stop
  BY <1>2 DEF Untracked
<1>6. "no" = StageAt(tr[k].state, k \in Inserted)
  BY <1>5 DEF StageAt
<1>7. Seen(tr, currentEpoch, Inserted', Unreleased') = Delivery!Moved(Promised, k, "no")
  <2>1. Promised.unreleased = Unreleased
    BY PromisedParts
  <2>2. Seen(tr, currentEpoch, Inserted, Unreleased) =
           [stage      |-> [Promised.stage EXCEPT ![k] = "no"],
            missed     |-> Promised.missed,
            stopped    |-> Promised.stopped \ {k},
            unreleased |-> Unreleased]
    BY <1>1, <1>2, <1>5, <1>6, SeenMoves
  <2>. QED  BY <1>3, <2>1, <2>2 DEF Delivery!Moved
<1>8. Promised' \in Delivery!Pumped(Delivery!Moved(Promised, k, "no"))
  BY <1>1, <1>2, <1>4, <1>7, HandlerPumps DEF HandedOver
<1>9. Promised.stage[k] = "fetching"
  BY <1>1, PromisedParts DEF StageAt
<1>10. Delivery!Fail(k)
  BY <1>8, <1>9 DEF Delivery!Fail, Promised
<1>. QED  BY <1>10 DEF Delivery!Next

(* A read that brings bytes or NotFound is fetched.                          *)
LEMMA FetchDeliveredDelivers ==
  ASSUME IInv, HandedOver, IInv', HandedOver', NEW k \in Keys, FetchDelivered(k)
  PROVE  Delivery!Next
<1>1. /\ tracked[k].state = "Fetching"
      /\ currentEpoch' = currentEpoch
      /\ tracked' \in [Keys -> Tracked]
  <2>1. reads[k] > 0 /\ currentEpoch' = currentEpoch
    BY DEF FetchDelivered
  <2>2. tracked' \in [Keys -> Tracked]
    BY DEF IInv, TypeOK
  <2>. QED  BY <2>1, <2>2, ReadIsFetching
<1>2. /\ \A j \in Keys \ {k} : tracked'[j] = tracked[j]
      /\ tracked'[k].state = "Decoding"
      /\ ~tracked'[k].stop
  BY DeliveredMap
<1>3. Inserted' = Inserted /\ Unreleased' = Unreleased
  BY DEF FetchDelivered, Inserted, Unreleased, readyVars, renderVars
<1>4. k \notin Inserted
  BY <1>1, InsertedDecodes
<1>5. "decoding" = StageAt(tracked'[k].state, k \in Inserted)
  BY <1>2, <1>4 DEF StageAt
<1>6. Promised' = Delivery!Moved(Promised, k, "decoding")
  <2>1. Promised.unreleased = Unreleased
    BY PromisedParts
  <2>2. Seen(tracked', currentEpoch, Inserted, Unreleased) =
           [stage      |-> [Promised.stage EXCEPT ![k] = "decoding"],
            missed     |-> Promised.missed,
            stopped    |-> Promised.stopped \ {k},
            unreleased |-> Unreleased]
    BY <1>1, <1>2, <1>5, SeenMoves
  <2>. QED  BY <1>1, <1>3, <2>1, <2>2, PromisedNextIsSeen DEF Delivery!Moved
<1>7. Promised.stage[k] = "fetching"
  BY <1>1, PromisedParts DEF StageAt
<1>8. Delivery!Fetched(k)
  BY <1>6, <1>7 DEF Delivery!Fetched, Promised
<1>. QED  BY <1>8 DEF Delivery!Next

(* The destructor tells every fetch to stop.                                 *)
LEMMA BeginDestroyDelivers ==
  ASSUME IInv, HandedOver, BeginDestroy
  PROVE  Delivery!Next
<1>1. /\ tracked \in [Keys -> Tracked]
      /\ \A k \in Keys : tracked'[k] = Unwanted(tracked[k])
      /\ currentEpoch' = currentEpoch
      /\ \A k \in Keys : tracked[k].stop => tracked[k].state = "Fetching"
  BY DEF IInv, TypeOK, BeginDestroy, HandedOver, MapInOrder
<1>2. Inserted' = Inserted /\ Unreleased' = Unreleased
  BY DEF BeginDestroy, Inserted, Unreleased, decodeVars, readyVars, renderVars
<1>3. \A k \in Keys : /\ tracked[k].state \in State
                      /\ tracked'[k].state = tracked[k].state
                      /\ tracked'[k].epoch = tracked[k].epoch
                      /\ tracked'[k].stop <=> tracked[k].state = "Fetching"
  <2>1. \A k \in Keys : tracked[k] \in Tracked
    BY <1>1
  <2>. QED  BY <1>1, <2>1, UnwantedKeeps DEF Tracked
<1>4. Promised' = Seen(tracked', currentEpoch, Inserted, Unreleased)
  BY <1>1, <1>2, PromisedNextIsSeen
<1>5. Promised = Seen(tracked, currentEpoch, Inserted, Unreleased)
  BY PromisedIsSeen
<1>6. \A k \in Keys : /\ StageAt(tracked'[k].state, k \in Inserted)
                           = StageAt(tracked[k].state, k \in Inserted)
                      /\ MissedAt(tracked'[k], currentEpoch)
                           = MissedAt(tracked[k], currentEpoch)
  BY <1>3 DEF StageAt, MissedAt
<1>7. Delivery!AtStage(Promised, "fetching") = {k \in Keys : tracked'[k].stop}
  BY <1>3, PromisedParts DEF Delivery!AtStage, StageAt, State
<1>8. Promised' = [Promised EXCEPT !.stopped = Delivery!AtStage(Promised, "fetching")]
  <2> DEFINE F == Delivery!AtStage(Promised, "fetching")
  <2>1. F = {k \in Keys : tracked'[k].stop}
    BY <1>7
  <2> HIDE DEF F
  <2>2. Promised' = [stage |-> [k \in Keys |-> StageAt(tracked[k].state, k \in Inserted)],
                     missed |-> [k \in Keys |-> MissedAt(tracked[k], currentEpoch)],
                     stopped |-> F, unreleased |-> Unreleased]
    BY <1>4, <1>6, <2>1 DEF Seen
  <2>3. Promised = [stage |-> [k \in Keys |-> StageAt(tracked[k].state, k \in Inserted)],
                    missed |-> [k \in Keys |-> MissedAt(tracked[k], currentEpoch)],
                    stopped |-> {k \in Keys : tracked[k].stop},
                    unreleased |-> Unreleased]
    BY <1>5 DEF Seen
  <2>4. Promised' = [Promised EXCEPT !.stopped = F]
    BY <2>2, <2>3
  <2>. QED  BY <2>4 DEF F
<1>9. Delivery!StopAll
  BY <1>8 DEF Delivery!StopAll, Promised
<1>. QED  BY <1>9 DEF Delivery!Next

(* unpin(), its second half, releases what it has in hand.                   *)
LEMMA UnpinBytesDelivers ==
  ASSUME IInv, HandedOver, IInv', HandedOver', UnpinBytes
  PROVE  Delivery!Next
<1> DEFINE S == Unreleased \ Unreleased'
<1>1. /\ tracked \in [Keys -> Tracked]
      /\ heap \in SUBSET HeapEntry
      /\ currentEpoch \in Nat
      /\ MapInOrder(tracked, currentEpoch)
      /\ \A k \in InState(tracked, "Queued") :
           [key |-> k, priority |-> tracked[k].priority] \in heap
      /\ render \in RenderState
  BY DEF IInv, TypeOK, NoLostRequest, HandedOver
<1>2. /\ currentEpoch' = currentEpoch
      /\ render.pc = "releasing"
      /\ render'.pc # "releasing"
      /\ UNCHANGED <<worker, ready, held>>
      /\ Pump(tracked, heap, currentEpoch, inflightFetches, queuedDecodes,
              Released(readyPinned), pendingStoreCallbacks, reads)
  BY DEF UnpinBytes, decodeVars
<1>3. Inserted' = Inserted
  BY <1>2 DEF Inserted
<1>4. Unreleased' \subseteq Unreleased /\ S \in SUBSET Keys
  BY <1>1, <1>2 DEF Unreleased, RenderState
<1>5. Unreleased' = Unreleased \ S
  BY <1>4
<1>6. Seen(tracked, currentEpoch, Inserted', Unreleased')
        = Delivery!Released(Promised, S)
  <2> HIDE DEF S
  <2>1. Promised = [stage      |-> Promised.stage,
                    missed     |-> Promised.missed,
                    stopped    |-> Promised.stopped,
                    unreleased |-> Promised.unreleased]
    BY PromisedParts
  <2>2. Promised.unreleased = Unreleased
    BY PromisedParts
  <2>3. Delivery!Released(Promised, S)
          = [stage      |-> Promised.stage,
             missed     |-> Promised.missed,
             stopped    |-> Promised.stopped,
             unreleased |-> Unreleased']
    BY <1>5, <2>1, <2>2 DEF Delivery!Released
  <2>4. Seen(tracked, currentEpoch, Inserted, Unreleased')
          = [stage      |-> Promised.stage,
             missed     |-> Promised.missed,
             stopped    |-> Promised.stopped,
             unreleased |-> Unreleased']
    BY PromisedIsSeen DEF Seen
  <2>. QED  BY <1>3, <2>3, <2>4
<1>7. Promised' \in Delivery!Pumped(Delivery!Released(Promised, S))
  <2> HIDE DEF S
  <2>. QED  BY <1>1, <1>2, <1>6, HandlerPumps DEF HandedOver
<1>8. PICK T \in SUBSET Keys : T = S
  BY <1>4
<1>9. Promised' \in Delivery!Pumped(Delivery!Released(Promised, T))
  BY <1>7, <1>8
<1>10. Delivery!Release(T)
  BY <1>9 DEF Delivery!Release, Promised
<1>. QED  BY <1>10 DEF Delivery!Next

(* A worker whose decode ends leaves the others' insertions alone.           *)
LEMMA WorkerEnds ==
  ASSUME IInv, NEW w \in Workers, worker[w] # Idle,
         NEW k, k = worker[w].job.key, worker' = [worker EXCEPT ![w] = Idle]
  PROVE  Inserted' = Inserted \ {k}
<1>1. worker \in [Workers -> WorkerState] /\ k \in Keys
  BY WorkerJob DEF IInv, TypeOK
<1>2. \A v \in Workers : worker'[v] = IF v = w THEN Idle ELSE worker[v]
  BY <1>1
<1>3. Idle.pc # "inserted" /\ \A v \in Workers : worker[v].pc = "inserted" => worker[v] # Idle
  BY DEF Idle
<1>4. \A v \in Workers : worker[v] # Idle /\ worker[v].job.key = k => v = w
  BY DEF IInv, OneJobPerKey
<1>. QED  BY <1>1, <1>2, <1>3, <1>4 DEF Inserted

(* A decode that fails is a failed delivery.                                 *)
LEMMA DecodeFailDelivers ==
  ASSUME IInv, HandedOver, IInv', HandedOver', NEW w \in Workers, DecodeFail(w)
  PROVE  Delivery!Next
<1> DEFINE K == worker[w].job.key
<1>0. /\ worker[w].pc = "decoding"
      /\ worker[w] # Idle
      /\ worker' = [worker EXCEPT ![w] = Idle]
      /\ currentEpoch' = currentEpoch
      /\ UNCHANGED <<ready, render, held>>
      /\ Pump([tracked EXCEPT ![K] = Untracked], heap,
              currentEpoch, inflightFetches, queuedDecodes - 1, readyPinned,
              pendingStoreCallbacks, reads)
  BY DEF DecodeFail, Idle, readyVars, renderVars
<1>k. PICK k \in Keys : k = K
  BY <1>0, WorkerJob
<1> DEFINE tr == [tracked EXCEPT ![k] = Untracked]
<1>1. /\ tracked[k].state = "Decoding"
      /\ k \notin Inserted
      /\ currentEpoch \in Nat
      /\ heap \in SUBSET HeapEntry
  BY <1>0, <1>k, WorkerJob, InsertedBy DEF IInv, TypeOK
<1>2. /\ tr \in [Keys -> Tracked]
      /\ \A j \in InState(tr, "Queued") :
           [key |-> j, priority |-> tr[j].priority] \in heap
      /\ \A j \in Keys : tr[j] = IF j = k THEN Untracked ELSE tracked[j]
      /\ MapInOrder(tr, currentEpoch)
  BY ForgetKey, ForgetInOrder DEF HandedOver
<1>3. Inserted' = Inserted
  <2>1. Inserted' = Inserted \ {k}
    BY <1>0, <1>k, WorkerEnds
  <2>. QED  BY <1>1, <2>1
<1>3u. Unreleased' = Unreleased
  BY <1>0 DEF Unreleased
<1>4. Pump(tr, heap, currentEpoch, inflightFetches, queuedDecodes - 1,
           readyPinned, pendingStoreCallbacks, reads)
  BY <1>0, <1>k
<1> HIDE DEF tr, K
<1>5. /\ tr[k] = Untracked
      /\ Untracked.state = "Untracked"
      /\ ~Untracked.stop
  BY <1>2 DEF Untracked
<1>6. "no" = StageAt(tr[k].state, k \in Inserted)
  BY <1>5 DEF StageAt
<1>7. Seen(tr, currentEpoch, Inserted', Unreleased') = Delivery!Moved(Promised, k, "no")
  <2>1. Promised.unreleased = Unreleased
    BY PromisedParts
  <2>2. Seen(tr, currentEpoch, Inserted, Unreleased) =
           [stage      |-> [Promised.stage EXCEPT ![k] = "no"],
            missed     |-> Promised.missed,
            stopped    |-> Promised.stopped \ {k},
            unreleased |-> Unreleased]
    BY <1>1, <1>2, <1>5, <1>6, SeenMoves
  <2>. QED  BY <1>3, <1>3u, <2>1, <2>2 DEF Delivery!Moved
<1>8. Promised' \in Delivery!Pumped(Delivery!Moved(Promised, k, "no"))
  BY <1>0, <1>1, <1>2, <1>4, <1>7, HandlerPumps DEF HandedOver
<1>9. Promised.stage[k] = "decoding"
  BY <1>1, PromisedParts DEF StageAt
<1>10. Delivery!Fail(k)
  BY <1>8, <1>9 DEF Delivery!Fail, Promised
<1>. QED  BY <1>10 DEF Delivery!Next

(* A brick enters the RAM cache.                                             *)
LEMMA DecodeInsertDelivers ==
  ASSUME IInv, HandedOver, IInv', HandedOver', NEW w \in Workers, DecodeInsert(w)
  PROVE  Delivery!Next
<1>0. /\ worker[w].pc = "decoding"
      /\ worker[w] # Idle
      /\ worker' = [worker EXCEPT ![w].pc = "inserted"]
      /\ UNCHANGED <<tracked, currentEpoch, ready, render, held>>
  BY DEF DecodeInsert, Idle, requestVars, readyVars, renderVars
<1>k. PICK k \in Keys : k = worker[w].job.key
  BY <1>0, WorkerJob
<1>1. /\ tracked[k].state = "Decoding"
      /\ k \notin Inserted
      /\ tracked \in [Keys -> Tracked]
      /\ worker \in [Workers -> WorkerState]
      /\ worker[w] \in [pc : {"decoding", "inserted"}, job : Job]
  BY <1>0, <1>k, WorkerJob, InsertedBy DEF IInv, TypeOK, WorkerState
<1>2. Inserted' = Inserted \cup {k}
  <2>1. \A v \in Workers \ {w} : worker'[v] = worker[v]
    BY <1>0, <1>1
  <2>2. worker'[w].pc = "inserted" /\ worker'[w].job = worker[w].job
    BY <1>0, <1>1
  <2>3. worker[w].pc # "inserted"
    BY <1>0
  <2>. QED  BY <1>k, <2>1, <2>2, <2>3 DEF Inserted
<1>3. Unreleased' = Unreleased
  BY <1>0 DEF Unreleased
<1>4. "inserted" = StageAt(tracked[k].state, k \in Inserted \cup {k})
  BY <1>1 DEF StageAt
<1>5. ~tracked[k].stop
  BY <1>1 DEF HandedOver, MapInOrder
<1>6. Promised' = Delivery!Moved(Promised, k, "inserted")
  <2> DEFINE I == Inserted \cup {k}
  <2>1. Promised.unreleased = Unreleased
    BY PromisedParts
  <2>2. \A j \in Keys \ {k} : j \in I <=> j \in Inserted
    OBVIOUS
  <2>3. "inserted" = StageAt(tracked[k].state, k \in I)
    BY <1>4
  <2> HIDE DEF I
  <2>4. Seen(tracked, currentEpoch, I, Unreleased) =
           [stage      |-> [Promised.stage EXCEPT ![k] = "inserted"],
            missed     |-> Promised.missed,
            stopped    |-> Promised.stopped \ {k},
            unreleased |-> Unreleased]
    BY <1>1, <1>5, <2>2, <2>3, SeenMoves
  <2>5. Promised' = Seen(tracked, currentEpoch, I, Unreleased)
    BY <1>0, <1>2, <1>3, PromisedNextIsSeen DEF I
  <2>. QED  BY <2>1, <2>4, <2>5 DEF Delivery!Moved
<1>7. Promised.stage[k] = "decoding"
  BY <1>1, PromisedParts DEF StageAt
<1>8. Delivery!Insert(k)
  BY <1>6, <1>7 DEF Delivery!Insert, Promised
<1>. QED  BY <1>8 DEF Delivery!Next

(* A brick is published.                                                     *)
LEMMA DecodePublishDelivers ==
  ASSUME IInv, HandedOver, IInv', HandedOver', NEW w \in Workers, DecodePublish(w)
  PROVE  Delivery!Next
<1> DEFINE K == worker[w].job.key
<1>0. /\ worker[w].pc = "inserted"
      /\ worker[w] # Idle
      /\ worker' = [worker EXCEPT ![w] = Idle]
      /\ currentEpoch' = currentEpoch
      /\ UNCHANGED <<render, held>>
      /\ ready' = [ready EXCEPT ![K] = @ + 1]
      /\ Pump([tracked EXCEPT ![K] = Untracked], heap,
              currentEpoch, inflightFetches, queuedDecodes - 1, readyPinned + 1,
              pendingStoreCallbacks, reads)
  BY DEF DecodePublish, Idle, renderVars
<1>k. PICK k \in Keys : k = K
  BY <1>0, WorkerJob
<1> DEFINE tr == [tracked EXCEPT ![k] = Untracked]
<1>1. /\ tracked[k].state = "Decoding"
      /\ k \in Inserted
      /\ currentEpoch \in Nat
      /\ heap \in SUBSET HeapEntry
      /\ ready \in [Keys -> Nat]
      /\ held \in [Keys -> Nat]
  BY <1>0, <1>k, WorkerJob, InsertedBy DEF IInv, TypeOK
<1>2. /\ tr \in [Keys -> Tracked]
      /\ \A j \in InState(tr, "Queued") :
           [key |-> j, priority |-> tr[j].priority] \in heap
      /\ \A j \in Keys : tr[j] = IF j = k THEN Untracked ELSE tracked[j]
      /\ MapInOrder(tr, currentEpoch)
  BY ForgetKey, ForgetInOrder DEF HandedOver
<1>3. Inserted' = Inserted \ {k}
  BY <1>0, <1>k, WorkerEnds
<1>3u. Unreleased' = Unreleased \cup {k}
  <2>1. \A j \in Keys : ready'[j] + held'[j] > 0 <=> ready[j] + held[j] > 0 \/ j = k
    BY <1>0, <1>k, <1>1
  <2>. QED  BY <1>0, <2>1 DEF Unreleased
<1>4. Pump(tr, heap, currentEpoch, inflightFetches, queuedDecodes - 1,
           readyPinned + 1, pendingStoreCallbacks, reads)
  BY <1>0, <1>k
<1> HIDE DEF tr, K
<1>5. /\ tr[k] = Untracked
      /\ Untracked.state = "Untracked"
      /\ ~Untracked.stop
  BY <1>2 DEF Untracked
<1> DEFINE P == [Delivery!Moved(Promised, k, "no") EXCEPT !.unreleased = @ \cup {k}]
<1>6. Seen(tr, currentEpoch, Inserted', Unreleased') = P
  <2> DEFINE I == Inserted \ {k}
             U == Unreleased \cup {k}
  <2>1. Promised.unreleased = Unreleased
    BY PromisedParts
  <2>2. \A j \in Keys \ {k} : j \in I <=> j \in Inserted
    OBVIOUS
  <2>3. "no" = StageAt(tr[k].state, k \in I)
    BY <1>5 DEF StageAt
  <2>4. P = [stage      |-> [Promised.stage EXCEPT ![k] = "no"],
             missed     |-> Promised.missed,
             stopped    |-> Promised.stopped \ {k},
             unreleased |-> U]
    <3>1. Delivery!Moved(Promised, k, "no")
            = [stage      |-> [Promised.stage EXCEPT ![k] = "no"],
               missed     |-> Promised.missed,
               stopped    |-> Promised.stopped \ {k},
               unreleased |-> Unreleased]
      BY <2>1 DEF Delivery!Moved
    <3>2. \A m : m = [stage      |-> [Promised.stage EXCEPT ![k] = "no"],
                      missed     |-> Promised.missed,
                      stopped    |-> Promised.stopped \ {k},
                      unreleased |-> Unreleased]
            => [m EXCEPT !.unreleased = @ \cup {k}]
                 = [stage      |-> [Promised.stage EXCEPT ![k] = "no"],
                    missed     |-> Promised.missed,
                    stopped    |-> Promised.stopped \ {k},
                    unreleased |-> Unreleased \cup {k}]
      OBVIOUS
    <3>. QED  BY <3>1, <3>2 DEF P, U
  <2> HIDE DEF I, U, P
  <2>5. Seen(tr, currentEpoch, I, U) =
           [stage      |-> [Promised.stage EXCEPT ![k] = "no"],
            missed     |-> Promised.missed,
            stopped    |-> Promised.stopped \ {k},
            unreleased |-> U]
    BY <1>1, <1>2, <1>5, <2>2, <2>3, SeenMoves
  <2>. QED  BY <1>3, <1>3u, <2>4, <2>5 DEF I, U
<1> HIDE DEF P
<1>7. Promised' \in Delivery!Pumped(P)
  BY <1>0, <1>1, <1>2, <1>4, <1>6, HandlerPumps DEF HandedOver
<1>8. Promised.stage[k] = "inserted"
  BY <1>1, PromisedParts DEF StageAt
<1>9. Delivery!Publish(k)
  BY <1>7, <1>8 DEF Delivery!Publish, Promised, P
<1>. QED  BY <1>9 DEF Delivery!Next

(* A step that leaves the request map, the insertions and the bricks handed  *)
(* over alone is no step of BrickDelivery.                                   *)
LEMMA Unseen ==
  ASSUME UNCHANGED <<tracked, currentEpoch>>, Inserted' = Inserted,
         Unreleased' = Unreleased
  PROVE  Promised' = Promised
BY PromisedIsSeen, PromisedNextIsSeen

(* The planner, the render thread's drain and unpin()'s first half.          *)
LEMMA RenderUnseen ==
  ASSUME IInv, HandedOver, Plan \/ DrainReady \/ \E k \in Keys : UnpinRam(k)
  PROVE  Promised' = Promised
<1>1. UNCHANGED <<tracked, currentEpoch, worker>>
  BY DEF Plan, DrainReady, UnpinRam, requestVars, decodeVars
<1>2. Inserted' = Inserted
  BY <1>1 DEF Inserted
<1>3. ready \in [Keys -> Nat] /\ held \in [Keys -> Nat]
  BY DEF IInv, TypeOK
<1>4. Unreleased' = Unreleased
  <2>1. CASE Plan
    BY <2>1 DEF Plan, Unreleased, readyVars
  <2>2. CASE DrainReady
    <3>1. held = None /\ ready' = None /\ held' = ready
      BY <2>2 DEF DrainReady, HandedOver, PinsCounted
    <3>2. \A k \in Keys : ready'[k] + held'[k] = ready[k] + held[k]
      BY <1>3, <3>1 DEF None
    <3>3. render.pc # "releasing" /\ render'.pc # "releasing"
      BY <2>2 DEF DrainReady
    <3>. QED  BY <3>2, <3>3 DEF Unreleased
  <2>3. ASSUME NEW k \in Keys, UnpinRam(k)
        PROVE  Unreleased' = Unreleased
    <3>1. /\ render.pc # "releasing"
          /\ render'.pc = "releasing"
          /\ render'.keys = {k}
          /\ held[k] > 0
          /\ ready' = ready
          /\ held' = [held EXCEPT ![k] = @ - 1]
      BY <2>3 DEF UnpinRam, readyVars
    <3>2. \A j \in Keys \ {k} : ready'[j] + held'[j] = ready[j] + held[j]
      BY <1>3, <3>1
    <3>3. ready[k] + held[k] > 0
      BY <1>3, <3>1
    <3>. QED  BY <3>1, <3>2, <3>3 DEF Unreleased
  <2>. QED  BY <2>1, <2>2, <2>3
<1>. QED  BY <1>1, <1>2, <1>4, Unseen

(* A worker takes a job: nothing is inserted yet.                            *)
LEMMA StartUnseen ==
  ASSUME IInv, NEW w \in Workers, DecodeStart(w)
  PROVE  Promised' = Promised
<1>1. /\ UNCHANGED <<tracked, currentEpoch, ready, render, held>>
      /\ worker \in [Workers -> WorkerState]
      /\ worker[w] = Idle
      /\ worker' = [worker EXCEPT ![w] = [pc |-> "decoding", job |-> Head(decodeQueue)]]
  BY DEF IInv, TypeOK, DecodeStart, requestVars, readyVars, renderVars
<1>2. \A v \in Workers \ {w} : worker'[v] = worker[v]
  BY <1>1
<1>3. worker[w].pc # "inserted" /\ worker'[w].pc # "inserted"
  BY <1>1 DEF Idle
<1>4. Inserted' = Inserted
  BY <1>2, <1>3 DEF Inserted
<1>5. Unreleased' = Unreleased
  BY <1>1 DEF Unreleased
<1>. QED  BY <1>1, <1>4, <1>5, Unseen

(* The rest of the teardown, and steps that change nothing.                  *)
LEMMA TeardownUnseen ==
  ASSUME \/ CallbacksDone \/ PoolJoined \/ Terminated \/ UNCHANGED vars
         \/ \E k \in Keys : LateCallback(k)
  PROVE  Promised' = Promised
<1>1. UNCHANGED <<tracked, currentEpoch, worker, ready, render, held>>
  BY DEF CallbacksDone, PoolJoined, Terminated, LateCallback, vars, requestVars,
         decodeVars, readyVars, renderVars
<1>2. Inserted' = Inserted /\ Unreleased' = Unreleased
  BY <1>1 DEF Inserted, Unreleased
<1>. QED  BY <1>1, <1>2, Unseen

(* Each step of the pipeline is one of BrickDelivery, or is not seen.        *)
LEMMA NextDelivers ==
  ASSUME IInv, HandedOver, IInv', HandedOver', [Next]_vars
  PROVE  Delivery!Next \/ Promised' = Promised
<1>1. CASE Plan \/ DrainReady \/ \E k \in Keys : UnpinRam(k)
  BY <1>1, RenderUnseen
<1>2. CASE Submit  BY <1>2, SubmitDelivers
<1>3. CASE UnpinBytes  BY <1>3, UnpinBytesDelivers
<1>4. CASE \E k \in Keys : FetchDone(k)
  BY <1>4, FetchDroppedDelivers, FetchDeliveredDelivers, TeardownUnseen DEF FetchDone
<1>5. CASE \E w \in Workers : Decode(w)
  BY <1>5, StartUnseen, DecodeFailDelivers, DecodeInsertDelivers,
     DecodePublishDelivers DEF Decode
<1>6. CASE Destroy
  BY <1>6, BeginDestroyDelivers, TeardownUnseen DEF Destroy
<1>7. CASE Terminated \/ UNCHANGED vars
  BY <1>7, TeardownUnseen
<1>. QED  BY <1>1, <1>2, <1>3, <1>4, <1>5, <1>6, <1>7 DEF Next

(* At first nothing is asked for. *)
LEMMA InitDelivers == Init => Delivery!Init
<1> SUFFICES ASSUME Init PROVE Promised = Delivery!Nothing
  BY DEF Delivery!Init, Promised
<1>1. \A k \in Keys : tracked[k].state = "Untracked" /\ ~tracked[k].stop
  BY DEF Init, Untracked
<1>2. Unreleased = {}
  BY DEF Init, Unreleased, None
<1>3. \A k \in Keys : /\ StageAt(tracked[k].state, k \in Inserted) = "no"
                      /\ MissedAt(tracked[k], currentEpoch) = 0
  BY <1>1 DEF StageAt, MissedAt
<1>. QED  BY <1>1, <1>2, <1>3, PromisedIsSeen DEF Seen, Delivery!Nothing

(* The pipeline does what BrickDelivery says: whatever the caps, the number  *)
(* of decode threads and the order of the callbacks, a brick asked for goes  *)
(* through its stages and comes back or fails, one left out of two submits   *)
(* in a row is never fetched, and no queued brick is left with nobody who    *)
(* will look at the queue again.                                             *)
THEOREM PipelineDelivers == Spec => ImplementsDelivery
<1>1. Init => Delivery!Init
  BY InitDelivers
<1>2. IInv /\ HandedOver /\ IInv' /\ HandedOver' /\ [Next]_vars => [Delivery!Next]_Promised
  BY NextDelivers
<1>3. [Delivery!Next]_Promised => Delivery!Next \/ UNCHANGED
      [stage      |-> [k \in Keys |-> StageOf(k)],
       missed     |-> [k \in Keys |-> Missed(k)],
       stopped    |-> {k \in Keys : tracked[k].stop},
       unreleased |-> {k \in Keys : ready[k] + held[k] > 0} \cup
                      (IF render.pc = "releasing" THEN render.keys ELSE {})]
  BY DEF Promised
<1>. QED
  BY <1>1, <1>2, <1>3, PipelineInvariant, PinsAreExact, PTL
  DEF Spec, ImplementsDelivery, Delivery!Spec

=============================================================================

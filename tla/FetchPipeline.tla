--------------------------- MODULE FetchPipeline ---------------------------
(***************************************************************************)
(* The chunk-fetch pipeline (data/ChunkFetchPipeline): the render thread    *)
(* submits the set of bricks it wants, a priority heap feeds a capped       *)
(* number of store reads, finished reads become decode jobs, decoded bricks *)
(* are pinned in the RAM cache and handed back, and the render thread       *)
(* releases each pin once the brick is on its way to the GPU.               *)
(*                                                                         *)
(* Actors: the render thread (Plan/Submit, DrainReady, Unpin, destructor),  *)
(* the store's threads (one callback per issued read) and the decode pool.  *)
(* Every action that takes mutex_ contains the whole critical section, the  *)
(* trailing pump() included.  The work the code does outside the lock (the  *)
(* RAM-cache calls) is a step of its own.                                   *)
(*                                                                         *)
(* Abstractions.  A brick is its key.  Byte counts are in bricks: every     *)
(* level's chunks have the same size here.  The heap is the set of its      *)
(* (key, priority) entries: the FIFO tie-break among equal priorities is a  *)
(* free choice, and two equal entries of one key are one, because the       *)
(* second can only be popped and thrown away.  Which unpinned bricks the    *)
(* RAM cache evicts on an insertion is a free choice as well.               *)
(*                                                                         *)
(* WiderStaleWindow, RoomWithoutDecodeCap, AnyEntry, PushedOnce,            *)
(* RequestedWhileFetching, RequestedWhileDecoding, ReleasedSwapped,         *)
(* UnpinBytesNoPump and CallbacksDoneWhenEmpty are faulty variants of the   *)
(* definitions they precede; nothing uses them.                             *)
(***************************************************************************)
EXTENDS Naturals, Sequences, FiniteSets, Functions

CONSTANTS
  Keys,                \* brick keys
  Priorities,          \* request priorities, higher is sooner
  Workers,             \* decode threads
  MaxInflightFetches,  \* config_.maxInflightFetches
  MaxQueuedDecodes,    \* config_.maxQueuedDecodes
  MaxReadyPinned,      \* config_.maxReadyPinnedBytes, in bricks
  Failures,            \* errors that happen: a subset of {"fetch", "decode"}
  MaxEpoch             \* bound: number of submits explored

ASSUME PipelineAssumption ==
  /\ IsFiniteSet(Keys)
  /\ Priorities \subseteq Nat
  /\ MaxInflightFetches \in Nat \ {0}
  /\ MaxQueuedDecodes \in Nat \ {0}
  /\ MaxReadyPinned \in Nat \ {0}
  /\ MaxEpoch \in Nat

VARIABLES
  tracked,                \* tracked_: the dedupe map, Untracked when absent
  heap,                   \* heap_: the set of its (key, priority) entries
  currentEpoch,           \* currentEpoch_
  inflightFetches,        \* inflightFetches_
  queuedDecodes,          \* queuedDecodes_
  pendingStoreCallbacks,  \* pendingStoreCallbacks_
  reads,                  \* outstanding store reads per key
  decodeQueue,            \* jobs posted to decodePool_ and not started
  worker,                 \* what each decode thread is doing
  resident,               \* keys present in the RAM cache
  pins,                   \* pin count of each RAM-cache entry
  ready,                  \* ready_: published bricks per key
  readyPinned,            \* readyPinnedBytes_, in bricks
  render,                 \* the render thread: what it does, on which keys
  held,                   \* bricks drained and not yet unpinned, per key
  phase                   \* life of the pipeline object

requestVars == <<tracked, heap, currentEpoch>>
fetchVars   == <<inflightFetches, pendingStoreCallbacks, reads>>
decodeVars  == <<queuedDecodes, decodeQueue, worker>>
ramVars     == <<resident, pins>>
readyVars   == <<ready, readyPinned>>
renderVars  == <<render, held>>
vars == <<requestVars, fetchVars, decodeVars, ramVars, readyVars, renderVars,
          phase>>

-----------------------------------------------------------------------------
(* Items absent from more than this many newer submits are dropped. *)
WiderStaleWindow == 2
kStaleWindow == 1

State == {"Untracked", "Queued", "Fetching", "Decoding"}

Tracked == [state : State, priority : Priorities \cup {0}, epoch : Nat,
            stop : BOOLEAN]

(* The value of tracked[k] when the map has no entry for k. *)
Untracked == [state |-> "Untracked", priority |-> 0, epoch |-> 0,
              stop |-> FALSE]

HeapEntry == [key : Keys, priority : Priorities]

Job == [key : Keys, missing : BOOLEAN]

Idle == [pc |-> "idle"]

WorkerState == {Idle} \cup [pc : {"decoding", "inserted"}, job : Job]

(* "waiting": the destructor waits for callbacks; "joining": the decode     *)
(* pool is being torn down; "destroyed": the members are gone; "undefined": *)
(* a callback used a pipeline whose decode pool or members are gone.        *)
Phase == {"live", "waiting", "joining", "destroyed", "undefined"}

RenderState == [pc : {"idle", "planned", "uploading", "releasing"},
                keys : SUBSET Keys]

InState(tr, s) == {k \in Keys : tr[k].state = s}

None == [k \in Keys |-> 0]

-----------------------------------------------------------------------------
(* pump() runs at the end of almost every critical section.  It pops        *)
(* entries in priority order while a fetch slot is free and the decode and  *)
(* ready caps leave room; the operators take the values the handler has     *)
(* already computed.                                                        *)

(* How many fetches the caps let one pump start. *)
RoomWithoutDecodeCap(inflight, decodes, pinned) ==
  IF inflight < MaxInflightFetches /\ pinned < MaxReadyPinned
  THEN MaxInflightFetches - inflight
  ELSE 0

Room(inflight, decodes, pinned) ==
  IF /\ inflight < MaxInflightFetches
     /\ decodes < MaxQueuedDecodes
     /\ pinned < MaxReadyPinned
  THEN MaxInflightFetches - inflight
  ELSE 0

(* Keys whose current entry is in the set S of heap entries. *)
AnyEntry(tr, S) ==
  {k \in Keys : tr[k].state = "Queued" /\ \E e \in S : e.key = k}

Current(tr, S) ==
  {k \in Keys : /\ tr[k].state = "Queued"
                /\ \E e \in S : e.key = k /\ e.priority = tr[k].priority}

(* Of those, the ones no submit of the stale window asked for... *)
Expired(tr, epoch, S) ==
  {k \in Current(tr, S) : tr[k].epoch + kStaleWindow < epoch}

(* ... and the ones a pump that pops S starts to fetch. *)
Started(tr, epoch, S) == Current(tr, S) \ Expired(tr, epoch, S)

(* The sets of entries a pump may pop: a prefix of the heap in priority     *)
(* order, all of it when the slots outlast it, else up to the entry that    *)
(* takes the last slot.                                                     *)
Poppable(tr, hp, epoch, room) ==
  {S \in SUBSET hp :
    /\ \A e \in S, f \in hp \ S : f.priority <= e.priority
    /\ LET n == Cardinality(Started(tr, epoch, S)) IN
         \/ room = 0 /\ S = {}
         \/ n < room /\ S = hp
         \/ /\ room > 0
            /\ n = room
            /\ \E k \in Started(tr, epoch, S) :
                  \A f \in S : tr[k].priority <= f.priority}

Pump(tr, hp, epoch, inflight, decodes, pinned, pending, rds) ==
  \E popped \in Poppable(tr, hp, epoch, Room(inflight, decodes, pinned)) :
    LET started == Started(tr, epoch, popped)
        expired == Expired(tr, epoch, popped)
    IN  /\ heap' = hp \ popped
        /\ tracked' =
             [k \in Keys |->
               IF k \in started
               THEN [tr[k] EXCEPT !.state = "Fetching", !.stop = FALSE]
               ELSE IF k \in expired THEN Untracked ELSE tr[k]]
        /\ inflightFetches' = inflight + Cardinality(started)
        /\ pendingStoreCallbacks' = pending + Cardinality(started)
        /\ reads' = [k \in Keys |-> rds[k] + (IF k \in started THEN 1 ELSE 0)]

-----------------------------------------------------------------------------
(* The render thread. *)

(* The planner diffs the view against the RAM cache; residency is read      *)
(* here, before the submit that uses it takes mutex_.                       *)
Plan ==
  /\ phase = "live"
  /\ render.pc = "idle"
  /\ currentEpoch < MaxEpoch
  /\ \E missing \in SUBSET (Keys \ resident) :
        render' = [pc |-> "planned", keys |-> missing]
  /\ UNCHANGED <<requestVars, fetchVars, decodeVars, ramVars, readyVars, held,
                 phase>>

(* A key may be listed twice in one submit (the planner's guess, then the   *)
(* ray feedback's exact request): first and last are its two priorities.    *)
Request == [first : Priorities, last : Priorities]

(* Entries one request pushes: a fresh key's, then every priority that      *)
(* differs from the one in force; only queued keys are re-prioritised.      *)
PushedOnce(t, k, r) ==
  IF t.state = "Untracked"
  THEN {[key |-> k, priority |-> p] : p \in {r.first, r.last}}
  ELSE {}

Pushed(t, k, r) ==
  LET inForce == IF t.state = "Queued" THEN {t.priority} ELSE {}
      pushes  == ({r.first} \ inForce) \cup ({r.last} \ {r.first})
  IN  IF t.state \in {"Untracked", "Queued"}
      THEN {[key |-> k, priority |-> p] : p \in pushes}
      ELSE {}

(* The dedupe-map entry after the request. *)
RequestedWhileFetching(t, r, epoch) ==
  IF t.state # "Decoding"
  THEN [state |-> "Queued", priority |-> r.last, epoch |-> epoch,
        stop |-> FALSE]
  ELSE [t EXCEPT !.epoch = epoch]

RequestedWhileDecoding(t, r, epoch) ==
  IF t.state # "Fetching"
  THEN [state |-> "Queued", priority |-> r.last, epoch |-> epoch,
        stop |-> FALSE]
  ELSE [t EXCEPT !.epoch = epoch]

Requested(t, r, epoch) ==
  IF t.state \in {"Untracked", "Queued"}
  THEN [state |-> "Queued", priority |-> r.last, epoch |-> epoch,
        stop |-> FALSE]
  ELSE [t EXCEPT !.epoch = epoch]

(* A fetch in flight that this submit does not ask for is told to stop. *)
Unwanted(t) == IF t.state = "Fetching" THEN [t EXCEPT !.stop = TRUE] ELSE t

Submit ==
  /\ phase = "live"
  /\ render.pc = "planned"
  /\ \E wanted \in [render.keys -> Request] :
       LET epoch == currentEpoch + 1
           tr == [k \in Keys |->
                   IF k \in render.keys
                   THEN Requested(tracked[k], wanted[k], epoch)
                   ELSE Unwanted(tracked[k])]
           hp == heap \cup UNION {Pushed(tracked[k], k, wanted[k]) :
                                    k \in render.keys}
       IN  /\ currentEpoch' = epoch
           /\ Pump(tr, hp, epoch, inflightFetches, queuedDecodes, readyPinned,
                   pendingStoreCallbacks, reads)
  /\ render' = [pc |-> "idle", keys |-> {}]
  /\ UNCHANGED <<decodeVars, ramVars, readyVars, held, phase>>

DrainReady ==
  /\ phase = "live"
  /\ render.pc = "idle"
  /\ ready # None
  /\ ready' = None
  /\ held' = ready
  /\ render' = [pc |-> "uploading", keys |-> {}]
  /\ UNCHANGED <<requestVars, fetchVars, decodeVars, ramVars, readyPinned,
                 phase>>

(* unpin(), first half: the RAM cache's own lock. *)
UnpinRam(k) ==
  /\ render.pc = "uploading"
  /\ held[k] > 0
  /\ held' = [held EXCEPT ![k] = @ - 1]
  /\ pins' = [pins EXCEPT ![k] = IF @ > 0 THEN @ - 1 ELSE 0]
  /\ render' = [pc |-> "releasing", keys |-> {k}]
  /\ UNCHANGED <<requestVars, fetchVars, decodeVars, resident, readyVars,
                 phase>>

(* The saturating subtraction of one brick's bytes. *)
ReleasedSwapped(pinned) == IF pinned < 1 THEN pinned - 1 ELSE 0
Released(pinned) == IF pinned > 1 THEN pinned - 1 ELSE 0

(* unpin(), second half: under mutex_. *)
UnpinBytesNoPump ==
  /\ render.pc = "releasing"
  /\ readyPinned' = Released(readyPinned)
  /\ render' = [pc |-> IF held = None THEN "idle" ELSE "uploading",
                keys |-> {}]
  /\ UNCHANGED <<requestVars, fetchVars, decodeVars, ramVars, ready, held,
                 phase>>

UnpinBytes ==
  LET pinned == Released(readyPinned) IN
  /\ render.pc = "releasing"
  /\ readyPinned' = pinned
  /\ Pump(tracked, heap, currentEpoch, inflightFetches, queuedDecodes, pinned,
          pendingStoreCallbacks, reads)
  /\ render' = [pc |-> IF held = None THEN "idle" ELSE "uploading",
                keys |-> {}]
  /\ UNCHANGED <<currentEpoch, decodeVars, ramVars, ready, held, phase>>

-----------------------------------------------------------------------------
(* Store callbacks: onFetchDone().  The store answers Cancelled only to a   *)
(* read whose stop was requested, and may answer anything else even then.   *)

(* Cancelled, any other error but NotFound, or a key that is no longer      *)
(* tracked: the request is forgotten and the slot refilled.                 *)
FetchDropped(k) ==
  /\ phase \in {"live", "waiting", "joining"}
  /\ reads[k] > 0
  /\ tracked[k].stop \/ "fetch" \in Failures
  /\ Pump([tracked EXCEPT ![k] = Untracked], heap, currentEpoch,
          inflightFetches - 1, queuedDecodes, readyPinned,
          pendingStoreCallbacks - 1, [reads EXCEPT ![k] = @ - 1])
  /\ UNCHANGED <<currentEpoch, decodeVars, ramVars, readyVars, renderVars,
                 phase>>

(* Bytes, or NotFound for an absent chunk: a decode job is posted.  This    *)
(* path does not pump: the decode job's own pump is the one that refills    *)
(* the slot.                                                                *)
FetchDelivered(k) ==
  /\ phase \in {"live", "waiting"}
  /\ reads[k] > 0
  /\ \E missing \in BOOLEAN :
        decodeQueue' = Append(decodeQueue, [key |-> k, missing |-> missing])
  /\ inflightFetches' = inflightFetches - 1
  /\ pendingStoreCallbacks' = pendingStoreCallbacks - 1
  /\ reads' = [reads EXCEPT ![k] = @ - 1]
  /\ tracked' = [tracked EXCEPT ![k].state = "Decoding", ![k].stop = FALSE]
  /\ queuedDecodes' = queuedDecodes + 1
  /\ UNCHANGED <<heap, currentEpoch, worker, ramVars, readyVars, renderVars,
                 phase>>

(* A callback with bytes to decode that arrives once the pool pointer is    *)
(* reset, or any callback once the object is gone, has nothing to run on.   *)
LateCallback(k) ==
  /\ phase \in {"joining", "destroyed"}
  /\ reads[k] > 0
  /\ phase' = "undefined"
  /\ UNCHANGED <<requestVars, fetchVars, decodeVars, ramVars, readyVars,
                 renderVars>>

-----------------------------------------------------------------------------
(* The decode pool: ThreadPool workers running decodeAndPublish().  Once    *)
(* the pool is being destroyed a worker finishes its job and returns.       *)

PoolAlive == phase \in {"live", "waiting", "joining"}

DecodeStart(w) ==
  /\ phase \in {"live", "waiting"}
  /\ worker[w] = Idle
  /\ decodeQueue # <<>>
  /\ worker' = [worker EXCEPT
                  ![w] = [pc |-> "decoding", job |-> Head(decodeQueue)]]
  /\ decodeQueue' = Tail(decodeQueue)
  /\ UNCHANGED <<requestVars, fetchVars, queuedDecodes, ramVars, readyVars,
                 renderVars, phase>>

DecodeFail(w) ==
  /\ PoolAlive
  /\ worker[w].pc = "decoding"
  /\ ~worker[w].job.missing
  /\ "decode" \in Failures
  /\ worker' = [worker EXCEPT ![w] = Idle]
  /\ queuedDecodes' = queuedDecodes - 1
  /\ Pump([tracked EXCEPT ![worker[w].job.key] = Untracked], heap,
          currentEpoch, inflightFetches, queuedDecodes - 1, readyPinned,
          pendingStoreCallbacks, reads)
  /\ UNCHANGED <<currentEpoch, decodeQueue, ramVars, readyVars, renderVars,
                 phase>>

(* ramCache_.insertPinned(), outside mutex_: an existing entry is replaced  *)
(* and its pin count starts again at 1; unpinned entries may be evicted.    *)
DecodeInsert(w) ==
  /\ PoolAlive
  /\ worker[w].pc = "decoding"
  /\ LET k == worker[w].job.key IN
       /\ pins' = [pins EXCEPT ![k] = 1]
       /\ \E evicted \in SUBSET {j \in resident \ {k} : pins[j] = 0} :
             resident' = (resident \cup {k}) \ evicted
  /\ worker' = [worker EXCEPT ![w].pc = "inserted"]
  /\ UNCHANGED <<requestVars, fetchVars, queuedDecodes, decodeQueue, readyVars,
                 renderVars, phase>>

DecodePublish(w) ==
  /\ PoolAlive
  /\ worker[w].pc = "inserted"
  /\ LET k == worker[w].job.key IN
       /\ ready' = [ready EXCEPT ![k] = @ + 1]
       /\ readyPinned' = readyPinned + 1
       /\ queuedDecodes' = queuedDecodes - 1
       /\ Pump([tracked EXCEPT ![k] = Untracked], heap, currentEpoch,
               inflightFetches, queuedDecodes - 1, readyPinned + 1,
               pendingStoreCallbacks, reads)
  /\ worker' = [worker EXCEPT ![w] = Idle]
  /\ UNCHANGED <<currentEpoch, decodeQueue, ramVars, renderVars, phase>>

-----------------------------------------------------------------------------
(* The destructor, called by the render thread between two of its calls. *)

BeginDestroy ==
  /\ phase = "live"
  /\ render.pc = "idle"
  /\ tracked' = [k \in Keys |-> Unwanted(tracked[k])]
  /\ phase' = "waiting"
  /\ UNCHANGED <<heap, currentEpoch, fetchVars, decodeVars, ramVars, readyVars,
                 renderVars>>

(* callbacksDoneCv_ lets the destructor on; queued decode jobs are never    *)
(* started from here on.                                                    *)
CallbacksDoneWhenEmpty ==
  /\ phase = "waiting"
  /\ pendingStoreCallbacks = 0
  /\ heap = {}
  /\ phase' = "joining"
  /\ UNCHANGED <<requestVars, fetchVars, decodeVars, ramVars, readyVars,
                 renderVars>>

CallbacksDone ==
  /\ phase = "waiting"
  /\ pendingStoreCallbacks = 0
  /\ phase' = "joining"
  /\ UNCHANGED <<requestVars, fetchVars, decodeVars, ramVars, readyVars,
                 renderVars>>

PoolJoined ==
  /\ phase = "joining"
  /\ \A w \in Workers : worker[w] = Idle
  /\ phase' = "destroyed"
  /\ UNCHANGED <<requestVars, fetchVars, decodeVars, ramVars, readyVars,
                 renderVars>>

Terminated ==
  /\ phase \in {"destroyed", "undefined"}
  /\ UNCHANGED vars

-----------------------------------------------------------------------------
Init ==
  /\ tracked = [k \in Keys |-> Untracked]
  /\ heap = {}
  /\ currentEpoch = 0
  /\ inflightFetches = 0
  /\ queuedDecodes = 0
  /\ pendingStoreCallbacks = 0
  /\ reads = None
  /\ decodeQueue = <<>>
  /\ worker = [w \in Workers |-> Idle]
  /\ resident = {}
  /\ pins = None
  /\ ready = None
  /\ readyPinned = 0
  /\ render = [pc |-> "idle", keys |-> {}]
  /\ held = None
  /\ phase = "live"

FetchDone(k) == FetchDropped(k) \/ FetchDelivered(k) \/ LateCallback(k)

Decode(w) ==
  DecodeStart(w) \/ DecodeFail(w) \/ DecodeInsert(w) \/ DecodePublish(w)

Destroy == BeginDestroy \/ CallbacksDone \/ PoolJoined

Next ==
  \/ Plan
  \/ Submit
  \/ DrainReady
  \/ \E k \in Keys : UnpinRam(k)
  \/ UnpinBytes
  \/ \E k \in Keys : FetchDone(k)
  \/ \E w \in Workers : Decode(w)
  \/ Destroy
  \/ Terminated

Spec == Init /\ [][Next]_vars

(* What the code's scheduling justifies: the store answers every read, the   *)
(* decode threads run, and the UI timer keeps calling pumpStreaming, which   *)
(* finishes the submit it planned and renders while bricks are ready.  A     *)
(* new plan, and closing the viewer, are never forced.                       *)
Fairness ==
  /\ WF_vars(Submit)
  /\ WF_vars(DrainReady)
  /\ WF_vars(UnpinBytes)
  /\ WF_vars(CallbacksDone)
  /\ WF_vars(PoolJoined)
  /\ \A k \in Keys : WF_vars(UnpinRam(k)) /\ WF_vars(FetchDone(k))
  /\ \A w \in Workers : WF_vars(Decode(w))

FairSpec == Spec /\ Fairness

-----------------------------------------------------------------------------
(* Properties. *)

TypeOK ==
  /\ tracked \in [Keys -> Tracked]
  /\ heap \subseteq HeapEntry
  /\ currentEpoch \in Nat
  /\ inflightFetches \in Nat
  /\ queuedDecodes \in Nat
  /\ pendingStoreCallbacks \in Nat
  /\ reads \in [Keys -> Nat]
  /\ decodeQueue \in Seq(Job)
  /\ worker \in [Workers -> WorkerState]
  /\ resident \subseteq Keys
  /\ pins \in [Keys -> Nat]
  /\ ready \in [Keys -> Nat]
  /\ readyPinned \in Nat
  /\ render \in RenderState
  /\ held \in [Keys -> Nat]
  /\ phase \in Phase

(* Accounting: the caps are enforced with counters that three kinds of       *)
(* threads adjust on nine different paths; a path that forgets one leaks a   *)
(* fetch or decode slot for good.  Each counter equals the number of keys    *)
(* in the state it counts, every outstanding read belongs to exactly one     *)
(* Fetching key, and so does every callback the destructor waits for.        *)
Accounting ==
  /\ inflightFetches = Cardinality(InState(tracked, "Fetching"))
  /\ queuedDecodes = Cardinality(InState(tracked, "Decoding"))
  /\ pendingStoreCallbacks = inflightFetches
  /\ \A k \in Keys :
       reads[k] = IF tracked[k].state = "Fetching" THEN 1 ELSE 0

(* The keys that decode jobs, queued or running, are about. *)
JobKeys ==
  {decodeQueue[i].key : i \in DOMAIN decodeQueue} \cup
  {worker[w].job.key : w \in {v \in Workers : worker[v] # Idle}}

(* OneJobPerKey: the dedupe map is what keeps a key from being fetched or    *)
(* decoded twice at once, whatever the interleaving of resubmits, stale heap *)
(* entries, cancellations and decodes.  A key has a decode job exactly while *)
(* it is Decoding, and only one.                                             *)
OneJobPerKey ==
  /\ JobKeys = InState(tracked, "Decoding")
  /\ \A i, j \in DOMAIN decodeQueue :
       decodeQueue[i].key = decodeQueue[j].key => i = j
  /\ \A v, w \in Workers :
       /\ worker[v] # Idle
       /\ worker[w] # Idle
       /\ worker[v].job.key = worker[w].job.key
       => v = w
  /\ \A i \in DOMAIN decodeQueue, w \in Workers :
       worker[w] # Idle => worker[w].job.key # decodeQueue[i].key

(* NoLostRequest: re-prioritising never removes the old heap entry, and pump *)
(* throws away every entry whose priority is not the current one, trusting   *)
(* that another is in the heap.  A queued key always has that entry; without *)
(* it the key stays tracked, is never fetched, and no resubmit at the same   *)
(* priority pushes it again.                                                 *)
NoLostRequest ==
  \A k \in InState(tracked, "Queued") :
    [key |-> k, priority |-> tracked[k].priority] \in heap

(* SomeoneOwesAPump: nothing but the end of another critical section calls   *)
(* pump, and the path that delivers a fetch does not.  While entries wait in *)
(* the heap there is a fetch, a decode or a pinned brick whose completion    *)
(* will pump; otherwise the queue would sleep until the camera moves.        *)
SomeoneOwesAPump ==
  heap # {} =>
    \/ inflightFetches = MaxInflightFetches
    \/ queuedDecodes > 0
    \/ readyPinned >= MaxReadyPinned

(* BoundedWork: the decode cap only gates the start of fetches, so deliveries *)
(* may carry queuedDecodes past it.  Fetches and decodes together stay below  *)
(* the sum of the caps, and with the bricks awaiting upload below the sum of  *)
(* the three: the pipeline's memory is bounded whatever the store's timing.   *)
BoundedWork ==
  /\ inflightFetches <= MaxInflightFetches
  /\ inflightFetches + queuedDecodes <= MaxInflightFetches + MaxQueuedDecodes - 1
  /\ inflightFetches + queuedDecodes + readyPinned
       <= MaxInflightFetches + MaxQueuedDecodes + MaxReadyPinned - 2

Fetched(k) == tracked[k].state # "Fetching" /\ tracked'[k].state = "Fetching"

(* StartsHighestPriority: whichever handler pumps, and however often keys     *)
(* were re-prioritised while they waited, a fetch never starts before a       *)
(* queued key whose latest priority is higher.                                *)
StartsHighestPriority ==
  [][\A j, k \in Keys :
       Fetched(k) /\ tracked'[j].state = "Queued"
         => tracked'[j].priority <= tracked'[k].priority]_vars

(* ImplementsDelivery: with its heap of stale entries, three caps and four    *)
(* kinds of threads the pipeline does what BrickDelivery says: in particular  *)
(* a key left out of the two latest submits is never fetched although its     *)
(* entry is still in the heap (pipeline_tests.cpp:178, "requests absent from  *)
(* newer submits age out before IO"), and the queue never sleeps while        *)
(* nothing is under way and nothing waits to be released.                     *)
StageOf(k) ==
  LET s == tracked[k].state IN
  CASE s = "Untracked" -> "no"
    [] s = "Queued"    -> "queued"
    [] s = "Fetching"  -> "fetching"
    [] s = "Decoding"  ->
         IF \E w \in Workers : worker[w].pc = "inserted" /\ worker[w].job.key = k
         THEN "inserted" ELSE "decoding"

Missed(k) ==
  IF tracked[k].state = "Queued"
  THEN IF currentEpoch - tracked[k].epoch < 2
       THEN currentEpoch - tracked[k].epoch ELSE 2
  ELSE 0

Delivery ==
  INSTANCE BrickDelivery
    WITH delivery <-
      [stage      |-> [k \in Keys |-> StageOf(k)],
       missed     |-> [k \in Keys |-> Missed(k)],
       stopped    |-> {k \in Keys : tracked[k].stop},
       unreleased |-> {k \in Keys : ready[k] + held[k] > 0} \cup
                      (IF render.pc = "releasing" THEN render.keys ELSE {})]

ImplementsDelivery == Delivery!Spec

(* DestructorReturns: the callbacks the destructor waits for may themselves   *)
(* pump and issue further reads; the wait and the join still end.             *)
DestructorReturns == phase = "waiting" ~> phase \in {"destroyed", "undefined"}

(* NoReadOutlivesPipeline: ChunkFetchPipeline.cpp:37 says "every issued       *)
(* read's callback references this object and must be allowed to finish".     *)
NoReadOutlivesPipeline == phase = "destroyed" => reads = None

=============================================================================

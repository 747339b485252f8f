--------------------------- MODULE ViewerStreaming ---------------------------
(***************************************************************************)
(* The viewer's streaming loop (app/ViewerWindow): a timer plans which       *)
(* bricks the camera needs, submits those that are not decoded yet to the    *)
(* fetch pipeline of their volume and queues those that are for upload; each *)
(* rendered frame takes the decoded bricks from the pipelines, feeds the     *)
(* upload rings, and copies what is assembled into the GPU caches.  When     *)
(* nothing has been missing or pending for a while the loop stops.           *)
(*                                                                         *)
(* Two stacks run in one loop: the main volume's and the overlay's, each     *)
(* with its pipeline, ring and GPU cache.  They share the RAM cache, the     *)
(* re-feed queue and the set of queued keys.                                 *)
(*                                                                         *)
(* Actors: the UI thread (ui says where it is), the pipelines                *)
(* (BrickDelivery, which FetchPipeline implements) and one assembly worker   *)
(* per ring.                                                                 *)
(*                                                                         *)
(* Abstractions.  A camera position is the set of bricks the planners find   *)
(* in its view; the overlay's are those of level 2 and up, the others being  *)
(* skipped.  The 4096 requests of a plan and the 96 speculative ones are not *)
(* reached.  Ray feedback only asks for bricks of the view, which the plan   *)
(* lists too.  A ring is the number of times each brick is in each state of  *)
(* it; its copies are done by the next drain.  The GPU cache's tiles         *)
(* suffice, and no brick is of the two pinned levels (GpuBrickCache has      *)
(* both).  Its replacement order is reduced to the bricks that are recent    *)
(* and the others, which go first; the overlay's plan touches nothing, so    *)
(* there any brick may go.  What the RAM cache evicts on an insertion is a   *)
(* free choice, pinned or not.  Surface windows, the benchmark and display   *)
(* settings are left out.                                                    *)
(*                                                                         *)
(* PendingWithoutOverlay and KeysKept are faulty variants of the definitions *)
(* they precede; nothing uses them.                                          *)
(***************************************************************************)
EXTENDS Naturals, Sequences, FiniteSets, Functions

CONSTANTS
  MainBricks,       \* bricks of the main volume
  OverlayBricks,    \* bricks of the overlay
  Scenes,           \* what is looked at, see Scene below
  MaxUploadQueue,   \* kMaxUploadQueue
  MaxPending,       \* kMaxPending of the rings
  RingSlots,        \* slots of a ring
  UploadBudget,     \* kUploadBudget
  PoolSlots,        \* slots of each GPU cache
  QuietTicks,       \* length of the quiet streak
  MaxFailures,      \* bound: reads and decodes that fail of themselves
  MaxMoves          \* bound: camera moves explored

Bricks == MainBricks \cup OverlayBricks

ASSUME ViewerAssumption ==
  /\ IsFiniteSet(Bricks)
  /\ MainBricks \cap OverlayBricks = {}
  /\ Scenes \subseteq [views : SUBSET SUBSET Bricks, prefetch : SUBSET Bricks,
                     fill : SUBSET Bricks, ramSlots : Nat \ {0}]
  /\ {MaxUploadQueue, MaxPending, RingSlots, UploadBudget, PoolSlots,
      QuietTicks} \subseteq Nat \ {0}
  /\ {MaxFailures, MaxMoves} \subseteq Nat

VARIABLES
  scene,            \* the views the camera can be turned to, the bricks
                    \* prefetched at open, those with nothing but the fill
                    \* value, and how many the RAM cache holds; fixed
  view,             \* the bricks in the camera's view
  moves,            \* camera moves so far
  streamingActive,  \* streamingActive_
  convergedTicks,   \* convergedTicks_, up to QuietTicks
  main,             \* pipeline_
  overlay,          \* ovPipeline_
  failures,         \* reads and decodes that failed of themselves
  ram,              \* bricks in ramCache_
  uploadQueue,      \* uploadQueue_
  queuedKeys,       \* queuedKeys_
  rings,            \* how often each brick is in each state of its ring
  overlayReady,     \* ovUploader_ is initialized
  asleep,           \* the jobs for the overlay's waiting bricks found no ring
  resident,         \* bricks with a slot of a GPU cache
  recent,           \* of those, the main volume's that the last plan
                    \* touched or a frame has uploaded since
  empty,            \* bricks marked empty in a GPU cache
  ui                \* where the UI thread is, and the plan it works on

loopVars   == <<streamingActive, convergedTicks>>
cameraVars == <<scene, view, moves>>
queueVars  == <<uploadQueue, queuedKeys>>
ringVars   == <<rings, overlayReady, asleep>>
gpuVars    == <<resident, recent, empty>>
vars == <<loopVars, cameraVars, main, overlay, failures, ram, queueVars, ringVars,
          gpuVars, ui>>

Main    == INSTANCE BrickDelivery WITH Keys <- MainBricks, delivery <- main
Overlay == INSTANCE BrickDelivery WITH Keys <- OverlayBricks, delivery <- overlay

Stacks == {"main", "overlay"}

BricksOf(s) == IF s = "main" THEN MainBricks ELSE OverlayBricks
StackOf(k)  == IF k \in MainBricks THEN "main" ELSE "overlay"

(* In the event loop, with a plan to submit, or about to render.             *)
Idle    == [at |-> "idle", wanted |-> {}, missing |-> FALSE]
InFrame == [Idle EXCEPT !.at = "frame"]

UiState == [at : {"idle", "planned", "frame"},
            wanted : SUBSET Bricks, missing : BOOLEAN]

Shown(k) == k \in resident \cup empty

(* The subsets of S that a bound of n allows, as large as possible.          *)
UpTo(n, S) ==
  IF Cardinality(S) <= n THEN {S}
  ELSE {T \in SUBSET S : Cardinality(T) = n}

-----------------------------------------------------------------------------
(* The upload rings.  A brick waits in pending_, is assembled into a slot,   *)
(* and its copy is issued; the copies of one drain are done by the next,     *)
(* which frees their slots.                                                  *)

InSlot == {"ready", "copying"}
Phases == {"waiting"} \cup InSlot

Count(r, s, phases) ==
  SumFunctionOnSet([k \in Bricks |-> SumFunctionOnSet(r[k], phases)],
                   BricksOf(s))

Waiting(r, s) == Count(r, s, {"waiting"})
PendingCount(s) == Count(rings, s, Phases)

(* enqueue(), as often as b says for each brick.                             *)
Enqueued(r, b) == [k \in Bricks |-> [r[k] EXCEPT !["waiting"] = @ + b[k]]]

Each(S) == [k \in Bricks |-> IF k \in S THEN 1 ELSE 0]

(* Workers assemble while a brick waits and a slot is free (GpuUploader's    *)
(* EveryBrickUploaded), unless the overlay's ring is asleep.                *)
Assemble(k) ==
  /\ rings[k]["waiting"] > 0
  /\ Count(rings, StackOf(k), InSlot) < RingSlots
  /\ asleep => k \in MainBricks
  /\ rings' = [rings EXCEPT ![k]["waiting"] = @ - 1, ![k]["ready"] = @ + 1]
  /\ UNCHANGED <<loopVars, cameraVars, main, overlay, failures, ram,
                 queueVars, overlayReady, asleep, gpuVars, ui>>

-----------------------------------------------------------------------------
(* pumpStreaming(). *)

MoveCamera ==
  /\ ui = Idle
  /\ moves < MaxMoves
  /\ view' \in scene.views \ {view}
  /\ moves' = moves + 1
  /\ streamingActive' = TRUE
  /\ UNCHANGED <<scene, convergedTicks, main, overlay, failures, ram,
                 queueVars, ringVars, gpuVars, ui>>

Missing(s) == {k \in view \cap BricksOf(s) : ~Shown(k)}

(* Missing bricks found in the RAM cache join the re-feed queue, as far as   *)
(* there is room, unless their key is queued.                                *)
Refeed(missing) ==
  \E fed \in UpTo(MaxUploadQueue - Len(uploadQueue),
                  (missing \cap ram) \ queuedKeys) :
    /\ queuedKeys' = queuedKeys \cup fed
    /\ \E order \in [1..Cardinality(fed) -> fed] :
         /\ IsInjective(order)
         /\ uploadQueue' = uploadQueue \o order

(* The plan: residency and the RAM cache are read before the submit.         *)
Plan ==
  /\ ui = Idle
  /\ streamingActive
  /\ recent' = view \cap resident \cap MainBricks
  /\ Refeed(Missing("main"))
  /\ ui' = [at |-> "planned", wanted |-> Missing("main") \ ram,
            missing |-> Missing("main") # {}]
  /\ UNCHANGED <<loopVars, cameraVars, main, overlay, failures, ram, ringVars,
                 resident, empty>>

PendingWithoutOverlay(ovWanted) ==
  \/ ui.wanted # {}
  \/ Main!UnderWay(main)' # {}
  \/ main'.unreleased # {}
  \/ uploadQueue' # <<>>
  \/ PendingCount("main") > 0

AnythingPending(ovWanted) ==
  \/ ui.wanted # {}
  \/ Main!UnderWay(main)' # {}
  \/ main'.unreleased # {}
  \/ uploadQueue' # <<>>
  \/ PendingCount("main") > 0
  \/ ovWanted # {}
  \/ Overlay!UnderWay(overlay)' # {}
  \/ overlay'.unreleased # {}
  \/ PendingCount("overlay") > 0

(* The rest of the tick: the submit, the overlay's own plan and submit, and  *)
(* the decision.  Work resets the quiet streak; its last tick stops the loop *)
(* after one more frame.                                                     *)
Submit ==
  LET ovWanted == Missing("overlay") \ ram IN
  /\ ui.at = "planned"
  /\ Main!Submit(ui.wanted)
  /\ Refeed(Missing("overlay"))
  /\ Overlay!Submit(ovWanted)
  /\ IF AnythingPending(ovWanted) \/ ui.missing
     THEN convergedTicks' = 0 /\ UNCHANGED streamingActive
     ELSE /\ convergedTicks' = IF convergedTicks < QuietTicks
                               THEN convergedTicks + 1 ELSE convergedTicks
          /\ streamingActive' = (convergedTicks + 1 < QuietTicks)
  /\ ui' = InFrame
  /\ UNCHANGED <<cameraVars, failures, ram, ringVars, gpuVars>>

(* A tick between two plans renders if the main stack has work, and the      *)
(* window system may ask for a frame at any time.                            *)
Repaint ==
  /\ ui = Idle
  /\ ui' = InFrame
  /\ UNCHANGED <<loopVars, cameraVars, main, overlay, failures, ram, queueVars,
                 ringVars, gpuVars>>

-----------------------------------------------------------------------------
(* preRenderUpload(). *)

(* The bricks a pipeline hands over that its ring accepts: any, until full.  *)
Accepted(s, handed) ==
  UpTo(MaxPending - Waiting(rings, s), (handed \ scene.fill) \ queuedKeys)

(* The re-feed queue goes to the rings in order, up to the first brick that  *)
(* its ring rejects: that one is dropped, the rest wait.                     *)
Rejected(r, i) ==
  LET s == StackOf(uploadQueue[i]) IN
  /\ uploadQueue[i] \notin scene.fill
  /\ Waiting(r, s) + Cardinality({j \in 1..i :
                                    /\ uploadQueue[j] \notin scene.fill
                                    /\ StackOf(uploadQueue[j]) = s})
       > MaxPending

FirstRejected(r) ==
  CHOOSE i \in 1 .. Len(uploadQueue) + 1 :
    /\ i <= Len(uploadQueue) => Rejected(r, i)
    /\ \A j \in 1 .. i - 1 : ~Rejected(r, j)

(* drainToGpu() takes up to UploadBudget ready bricks of each ring...        *)
Batches ==
  {batch \in SUBSET {k \in Bricks : rings[k]["ready"] > 0} :
     \A s \in Stacks :
       batch \cap BricksOf(s) \in
         UpTo(UploadBudget, {k \in BricksOf(s) : rings[k]["ready"] > 0})}

Drained(r, batch) ==
  [k \in Bricks |->
    IF k \in batch
    THEN [[r[k] EXCEPT !["ready"] = 0] EXCEPT !["copying"] = r[k]["ready"]]
    ELSE [r[k] EXCEPT !["copying"] = 0]]

(* ... and finds each that is not resident a slot of its cache: a free one   *)
(* or that of another brick, not a recent one if possible.  Of a batch       *)
(* larger than the cache, some bricks stay.                                  *)
Placements(s, batch) ==
  LET held      == resident \cap BricksOf(s)
      new       == (batch \cap BricksOf(s)) \ held
      free      == PoolSlots - Cardinality(held)
      evictable == held \ batch
      old       == evictable \ recent
  IN  {p \in [gone : SUBSET evictable, placed : SUBSET new] :
         /\ p.gone \in UpTo(IF Cardinality(new) > free
                            THEN Cardinality(new) - free ELSE 0, evictable)
         /\ p.gone \subseteq old \/ old \subseteq p.gone
         /\ p.placed \in UpTo(free + Cardinality(p.gone), new)}

KeysKept(r, keys) == keys

(* The keys are forgotten whenever the main ring has nothing left.           *)
KeysLeft(r, keys) == IF Count(r, "main", Phases) = 0 THEN {} ELSE keys

(* A frame: the main pipeline's bricks go to the ring or, with nothing but   *)
(* the fill value, are marked empty; the re-feed queue is fed; ready bricks  *)
(* are uploaded; the overlay follows.  An overlay ring fed before it is      *)
(* initialized may lose the wakeup.                                          *)
Frame ==
  /\ ui.at = "frame"
  /\ \E fromMain \in Accepted("main", main.unreleased), batch \in Batches :
       LET r     == Enqueued(rings, Each(fromMain))
           stop  == FirstRejected(r)
           fills == {i \in 1 .. stop - 1 : uploadQueue[i] \in scene.fill}
           fed   == (1 .. stop - 1) \ fills
           Of(I) == {uploadQueue[i] : i \in I}
           keys  == (queuedKeys \cup fromMain)
                      \ Of(fills \cup ({stop} \cap DOMAIN uploadQueue))
           q     == Enqueued(r, [k \in Bricks |->
                      Cardinality({i \in fed : uploadQueue[i] = k})])
       IN  \E fromOverlay \in
              UpTo(MaxPending - Waiting(q, "overlay"),
                   (overlay.unreleased \ scene.fill) \ keys) :
            /\ empty' = empty \cup Of(fills) \cup
                          (scene.fill \cap (main.unreleased \cup overlay.unreleased))
            /\ uploadQueue' = SubSeq(uploadQueue, stop + 1, Len(uploadQueue))
            /\ rings' = Enqueued(Drained(q, batch), Each(fromOverlay))
            /\ queuedKeys' = KeysLeft(rings', keys \cup fromOverlay)
            /\ LET early == Of(fed) \cap OverlayBricks
                   kicks == fromOverlay \cup (batch \cap OverlayBricks) \cup
                            {k \in OverlayBricks : rings[k]["copying"] > 0}
               IN asleep' \in IF kicks # {} THEN {FALSE}
                              ELSE IF early = {} THEN {asleep}
                              ELSE IF overlayReady THEN {FALSE} ELSE BOOLEAN
            /\ \E m \in Placements("main", batch),
                  o \in Placements("overlay", batch) :
                 /\ resident' = (resident \ (m.gone \cup o.gone))
                                  \cup m.placed \cup o.placed
                 /\ recent' = resident' \cap MainBricks \cap (recent \cup batch)
  /\ Main!Release(main.unreleased)
  /\ Overlay!Release(overlay.unreleased)
  /\ overlayReady' = TRUE
  /\ ui' = Idle
  /\ UNCHANGED <<loopVars, cameraVars, failures, ram>>

-----------------------------------------------------------------------------
(* The pipelines.  A read fails when it was told to stop, or of itself.      *)

Failed(k, stopped) ==
  failures' = IF k \in stopped THEN failures ELSE failures + 1

Fetch(k) ==
  /\ \/ /\ k \in MainBricks
        /\ \/ Main!Fail(k) /\ Failed(k, main.stopped)
           \/ (Main!Fetched(k) \/ Main!Publish(k)) /\ UNCHANGED failures
        /\ UNCHANGED overlay
     \/ /\ k \in OverlayBricks
        /\ \/ Overlay!Fail(k) /\ Failed(k, overlay.stopped)
           \/ (Overlay!Fetched(k) \/ Overlay!Publish(k)) /\ UNCHANGED failures
        /\ UNCHANGED main
  /\ failures' <= MaxFailures
  /\ UNCHANGED <<loopVars, cameraVars, ram, queueVars, ringVars, gpuVars, ui>>

InsertInRam(k) ==
  /\ \/ (k \in MainBricks /\ Main!Insert(k) /\ UNCHANGED overlay)
     \/ (k \in OverlayBricks /\ Overlay!Insert(k) /\ UNCHANGED main)
  /\ \E kept \in UpTo(scene.ramSlots - 1, ram \ {k}) : ram' = kept \cup {k}
  /\ UNCHANGED <<loopVars, cameraVars, failures, queueVars, ringVars, gpuVars,
                 ui>>

Deliver(k) == Fetch(k) \/ InsertInRam(k)

-----------------------------------------------------------------------------
Init ==
  /\ scene \in Scenes
  /\ view \in scene.views
  /\ moves = 0
  /\ streamingActive = TRUE
  /\ convergedTicks = 0
  /\ main \in Main!Pumped(Main!Asked(Main!Nothing,
                                        scene.prefetch \cap MainBricks))
  /\ overlay \in Overlay!Pumped(Overlay!Asked(Overlay!Nothing,
                                        scene.prefetch \cap OverlayBricks))
  /\ failures = 0
  /\ ram = {}
  /\ uploadQueue = <<>>
  /\ queuedKeys = {}
  /\ rings = [k \in Bricks |-> [p \in Phases |-> 0]]
  /\ overlayReady = FALSE
  /\ asleep = FALSE
  /\ resident = {}
  /\ recent = {}
  /\ empty = {}
  /\ ui = Idle

Next ==
  \/ MoveCamera
  \/ Plan
  \/ Submit
  \/ Repaint
  \/ Frame
  \/ \E k \in Bricks : Deliver(k) \/ Assemble(k)

Spec == Init /\ [][Next]_vars

(* The timer fires, a tick and a frame run to their end, stores answer,      *)
(* workers run and the GPU finishes its copies.                              *)
Fairness ==
  /\ SF_vars(Plan)
  /\ WF_vars(Submit \/ Frame)
  /\ \A k \in Bricks : WF_vars(Deliver(k)) /\ WF_vars(Assemble(k))

FairSpec == Spec /\ Fairness

-----------------------------------------------------------------------------
(* Properties. *)

Stopped == ~streamingActive

(* IdleIsDone: once the loop has stopped nothing but the user's next move    *)
(* wakes it.  Residency, the RAM cache, both pipelines, the re-feed queue    *)
(* and both rings are looked at one after another in a tick, while decodes   *)
(* go on and bricks move from one to the next, and an overlay brick that is  *)
(* missing counts only if it is not in RAM.  All the same the loop stops     *)
(* only when every brick in view, of both volumes, is shown, and nothing is  *)
(* left on its way: neither brick nor memory waits for a move of the mouse.  *)
IdleIsDone ==
  Stopped =>
    /\ \A k \in view : Shown(k)
    /\ \A k \in MainBricks : main.stage[k] = "no"
    /\ \A k \in OverlayBricks : overlay.stage[k] = "no"
    /\ main.unreleased = {}
    /\ overlay.unreleased = {}
    /\ uploadQueue = <<>>
    /\ \A s \in Stacks : PendingCount(s) = 0

(* Converges: the camera at rest, the loop comes to an end, whatever the     *)
(* queues rejected, the caches evicted before the upload, the submits        *)
(* cancelled, and whatever key was forgotten or kept too long: no brick is   *)
(* fetched, dropped and fetched again for ever.                              *)
Converges == <>[]Stopped

(* PrefetchShown: ViewerWindow.cpp:1022-1026 prefetches whole coarse levels  *)
(* "once at open" so that "orbiting a cold remote volume never pops": when   *)
(* the loop stops, the prefetched bricks are in the GPU cache.  The submits  *)
(* of the loop leave them out, which stops their reads and lets them age.    *)
PrefetchShown == Stopped => \A k \in scene.prefetch : Shown(k)

=============================================================================

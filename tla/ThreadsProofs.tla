---------------------------- MODULE ThreadsProofs ----------------------------
(***************************************************************************)
(* Proofs about the components whose threads have to get on, and about the   *)
(* run of them together (MCThreads).                                         *)
(*                                                                         *)
(* The uploader, for any bricks, slots and workers and any sizes of queue    *)
(* and batch: a copy never sees another brick's voxels, and each brick is    *)
(* uploaded once.  CopiesSeeTheirBrick is not inductive.  The drain takes a  *)
(* slot back by its fence, so the invariant speaks of the fenced batches, of *)
(* which the GPU's are the last ones (GpuBehind), and which share no slot    *)
(* (BatchesDisjoint); and a worker writes to its slot only while the slot    *)
(* says so (OwnSlots).  That a brick is uploaded once is a second invariant  *)
(* on top of the first: of each accepted brick the queue, the ring and the   *)
(* copies together hold one, and none of any other brick (OnePlace).         *)
(*                                                                         *)
(* The segmentation, for any grid and any material: a finished flood gives   *)
(* each piece of material that holds a seed, and nothing else, to connected  *)
(* clusters.  While it runs, a cluster is connected to its seed (Clustered), *)
(* and the unlabelled neighbours of labelled material wait in the queue      *)
(* (Frontier), as do the seeds (SeedsWait).                                  *)
(*                                                                         *)
(* The window's pool, for any workers and stores: each answer the main       *)
(* thread waits for is owed by exactly one job or the remote                 *)
(* (AnswersAccounted), so that no job counts an answer down to nothing.      *)
(***************************************************************************)
EXTENDS MCThreads, HttpStoreProofs, DataLemmas, FunctionTheorems, FiniteSetTheorems

(* Slots whose copy was selected and not yet recycled. *)
Copying(i) == i \in batch \/ \E n \in DOMAIN fences : i \in fences[n]

WholeSlots ==
  \A i \in Slots :
    /\ Copying(i) => slot[i].state = "InFlight"
    /\ slot[i].state \in {"Ready", "InFlight"} => content[i] = slot[i].brick

BatchesDisjoint ==
  \A n \in DOMAIN fences :
    /\ fences[n] \cap batch = {}
    /\ \A m \in DOMAIN fences : m # n => fences[m] \cap fences[n] = {}

GpuBehind ==
  /\ Len(gpu) <= Len(fences)
  /\ \A n \in DOMAIN gpu : gpu[n] = fences[n + (Len(fences) - Len(gpu))]

Assembles(w) == worker[w].pc = "assembling"

OwnSlots ==
  \A w \in UploadWorkers :
    Assembles(w) =>
      /\ slot[worker[w].slot].state = "Writing"
      /\ \A v \in UploadWorkers : Assembles(v) /\ v # w => worker[v].slot # worker[w].slot

UInv == UploadTypeOK /\ WholeSlots /\ BatchesDisjoint /\ GpuBehind /\ OwnSlots

-----------------------------------------------------------------------------
(* Lemmas about the data. *)

(* The order of the naturals as the relation the library speaks of. *)
LEMMA LessThan ==
  ASSUME NEW i \in Nat, NEW j \in Nat
  PROVE  <<j, i>> \in OpToRel(<, Nat) <=> j < i
BY SMT DEF OpToRel

(* A set of slots that is not empty has a lowest one. *)
LEMMA LowestIsOne ==
  ASSUME NEW S, S \subseteq Slots, S # {}
  PROVE  Lowest(S) \in S
<1>1. S \subseteq Nat
  BY DEF Slots
<1>2. PICK i \in S : \A j \in S : ~(<<j, i>> \in OpToRel(<, Nat))
  BY <1>1, WFMin, NatLessThanWellFounded
<1>3. ASSUME NEW j \in S PROVE i <= j
  <2>1. i \in Nat /\ j \in Nat
    BY <1>1
  <2>2. ~(j < i)
    BY <1>2, <2>1, LessThan
  <2> QED BY <2>1, <2>2
<1> QED BY <1>2, <1>3 DEF Lowest

(* A slot changes state and keeps its brick. *)
LEMMA StateChanges ==
  ASSUME NEW s \in Slot, NEW q \in SlotState
  PROVE  /\ [s EXCEPT !.state = q] \in Slot
         /\ [s EXCEPT !.state = q].state = q
         /\ [s EXCEPT !.state = q].brick = s.brick
BY DEF Slot

(* What a worker's state can be. *)
LEMMA WorkerCases ==
  ASSUME NEW s \in WorkerState
  PROVE  /\ s.pc = "assembling" => s.slot \in Slots
         /\ s.pc # "assembling" => s.slot = 0
BY DEF WorkerState, At, Slots

(* The fields of a worker's state. *)
LEMMA AtFields ==
  ASSUME NEW p, NEW i
  PROVE  At(p, i).pc = p /\ At(p, i).slot = i
BY DEF At

-----------------------------------------------------------------------------
(* The ring starts within the invariant. *)
LEMMA UploadStarts == UploadInit => UInv
<1> SUFFICES ASSUME UploadInit PROVE UInv
  OBVIOUS
<1>1. UploadTypeOK
  <2>1. At("idle", 0) \in WorkerState
    BY DEF WorkerState
  <2>2. [state |-> "Free", brick |-> NoBrick] \in Slot
    BY DEF Slot, SlotState
  <2>3. /\ slot \in [Slots -> Slot]
        /\ content \in [Slots -> Bricks \cup {NoBrick, Torn}]
        /\ worker \in [UploadWorkers -> WorkerState]
        /\ copies \in [Bricks -> Nat]
    BY <2>1, <2>2 DEF UploadInit
  <2>4. /\ pendingBricks \in Seq(Bricks) /\ Len(pendingBricks) <= MaxPending
        /\ fences \in Seq((SUBSET Slots) \ {{}})
        /\ gpu \in Seq((SUBSET Slots) \ {{}})
    BY UploaderAssumption DEF UploadInit, UploaderAssumption
  <2> QED BY <2>3, <2>4 DEF UploadInit, UploadTypeOK
<1>2. WholeSlots
  BY DEF UploadInit, WholeSlots, Copying
<1>3. BatchesDisjoint /\ GpuBehind
  BY DEF UploadInit, BatchesDisjoint, GpuBehind
<1>4. OwnSlots
  BY DEF UploadInit, OwnSlots, Assembles, At
<1> QED BY <1>1, <1>2, <1>3, <1>4 DEF UInv

(* Steps that leave slots, batches and workers alone. *)
LEMMA QuietKeepsUInv ==
  ASSUME UInv, UploadTypeOK',
         UNCHANGED <<slot, content, worker, fences, gpu, batch>>
  PROVE  UInv'
BY DEF UInv, WholeSlots, Copying, BatchesDisjoint, GpuBehind, OwnSlots, Assembles

(* The steps of the render thread that touch neither slots nor batches. *)
LEMMA QuietSteps ==
  ASSUME UInv,
         MapBuffer \/ AssignSlots \/ BeginDrain \/ \E b \in Bricks : Enqueue(b)
  PROVE  UInv'
<1> USE DEF UInv
<1>1. CASE MapBuffer
  BY <1>1, QuietKeepsUInv DEF MapBuffer, UploadTypeOK, history
<1>2. CASE AssignSlots
  BY <1>2, QuietKeepsUInv DEF AssignSlots, UploadTypeOK, history
<1>3. CASE BeginDrain
  BY <1>3, QuietKeepsUInv DEF BeginDrain, UploadTypeOK, ringVars, history
<1>4. ASSUME NEW b \in Bricks, Enqueue(b) PROVE UInv'
  <2>1. /\ pendingBricks' \in Seq(Bricks)
        /\ Len(pendingBricks') <= MaxPending
    BY <1>4, UploaderAssumption DEF Enqueue, UploadTypeOK, UploaderAssumption
  <2>2. UploadTypeOK'
    BY <1>4, <2>1 DEF Enqueue, UploadTypeOK, ringVars, drainVars
  <2> QED BY <1>4, <2>2, QuietKeepsUInv DEF Enqueue, ringVars, drainVars
<1> QED BY <1>1, <1>2, <1>3, <1>4

(* A signaled batch is taken back: it is the oldest, and the GPU is past it. *)
LEMMA RecycleKeepsUInv == UInv /\ Recycle => UInv'
<1> SUFFICES ASSUME UInv, Recycle PROVE UInv'
  OBVIOUS
<1>1. /\ fences \in Seq((SUBSET Slots) \ {{}}) /\ gpu \in Seq((SUBSET Slots) \ {{}})
      /\ slot \in [Slots -> Slot]
      /\ Len(fences) > Len(gpu)
      /\ fences' = Tail(fences)
      /\ UNCHANGED <<content, worker, gpu, batch>>
  BY DEF UInv, UploadTypeOK, Recycle, Signaled
<1>2. /\ fences' \in Seq((SUBSET Slots) \ {{}})
      /\ Len(fences') = Len(fences) - 1
      /\ 1 \in DOMAIN fences
      /\ \A n \in DOMAIN fences' : /\ n + 1 \in DOMAIN fences
                                   /\ n + 1 # 1
                                   /\ fences'[n] = fences[n + 1]
  BY <1>1
<1>3. /\ slot' \in [Slots -> Slot]
      /\ \A i \in Slots \ fences[1] : slot'[i] = slot[i]
      /\ \A i \in fences[1] : slot'[i].state = "Free"
      /\ fences[1] \subseteq Slots
  <2>1. /\ slot' = [i \in Slots |-> IF i \in fences[1]
                                    THEN [slot[i] EXCEPT !.state = "Free"] ELSE slot[i]]
        /\ fences[1] \subseteq Slots
    BY <1>1, <1>2 DEF Recycle
  <2>2. \A i \in Slots : /\ [slot[i] EXCEPT !.state = "Free"] \in Slot
                         /\ [slot[i] EXCEPT !.state = "Free"].state = "Free"
    BY <1>1, StateChanges DEF SlotState
  <2> QED BY <1>1, <2>1, <2>2
<1>4. UploadTypeOK'
  BY <1>1, <1>2, <1>3 DEF UInv, UploadTypeOK, Recycle, history
<1>5. \A i \in Slots : Copying(i)' => Copying(i) /\ i \notin fences[1]
  BY <1>1, <1>2 DEF UInv, BatchesDisjoint, Copying
<1>6. WholeSlots'
  BY <1>1, <1>3, <1>5 DEF UInv, WholeSlots
<1>7. BatchesDisjoint'
  BY <1>1, <1>2 DEF UInv, BatchesDisjoint
<1>8. GpuBehind'
  BY <1>1, <1>2 DEF UInv, GpuBehind
<1>9. OwnSlots'
  <2>1. \A w \in UploadWorkers : Assembles(w) => worker[w].slot \in Slots \ fences[1]
    <3> SUFFICES ASSUME NEW w \in UploadWorkers, Assembles(w)
                 PROVE  worker[w].slot \in Slots \ fences[1]
      OBVIOUS
    <3>1. worker[w].slot \in Slots
      BY WorkerCases DEF UInv, UploadTypeOK, Assembles
    <3>2. slot[worker[w].slot].state # "InFlight"
      BY DEF UInv, OwnSlots
    <3> QED BY <1>2, <3>1, <3>2 DEF UInv, WholeSlots, Copying
  <2> QED BY <1>1, <1>3, <2>1 DEF UInv, OwnSlots, Assembles
<1> QED BY <1>4, <1>6, <1>7, <1>8, <1>9 DEF UInv

(* Ready slots are selected: their bricks are whole. *)
LEMMA SelectKeepsUInv == UInv /\ SelectBatch => UInv'
<1> SUFFICES ASSUME UInv, SelectBatch PROVE UInv'
  OBVIOUS
<1>1. /\ batch' = FirstReady
      /\ slot \in [Slots -> Slot]
      /\ UNCHANGED <<content, worker, gpu, fences>>
  BY DEF UInv, UploadTypeOK, SelectBatch
<1>2. FirstReady \subseteq Slots /\ \A i \in FirstReady : slot[i].state = "Ready"
  BY DEF FirstReady, InSlotState, UInv, UploadTypeOK
<1>3. /\ slot' \in [Slots -> Slot]
      /\ \A i \in Slots \ FirstReady : slot'[i] = slot[i]
      /\ \A i \in FirstReady : slot'[i].state = "InFlight" /\ slot'[i].brick = slot[i].brick
  <2>1. slot' = [i \in Slots |-> IF i \in FirstReady
                                 THEN [slot[i] EXCEPT !.state = "InFlight"] ELSE slot[i]]
    BY DEF SelectBatch
  <2>2. \A i \in Slots : /\ [slot[i] EXCEPT !.state = "InFlight"] \in Slot
                         /\ [slot[i] EXCEPT !.state = "InFlight"].state = "InFlight"
                         /\ [slot[i] EXCEPT !.state = "InFlight"].brick = slot[i].brick
    BY <1>1, StateChanges DEF SlotState
  <2> QED BY <1>1, <1>2, <2>1, <2>2
<1>4. UploadTypeOK'
  BY <1>1, <1>2, <1>3 DEF UInv, UploadTypeOK, SelectBatch, history
<1>5. ASSUME NEW n \in DOMAIN fences
      PROVE  fences[n] \subseteq Slots /\ fences[n] \cap FirstReady = {}
  <2>1. fences[n] \subseteq Slots
    BY DEF UInv, UploadTypeOK
  <2>2. \A i \in fences[n] : slot[i].state = "InFlight"
    BY <2>1 DEF UInv, WholeSlots, Copying
  <2> QED BY <1>2, <2>1, <2>2
<1>6. WholeSlots'
  BY <1>1, <1>2, <1>3 DEF UInv, WholeSlots, Copying
<1>7. BatchesDisjoint' /\ GpuBehind'
  BY <1>1, <1>5 DEF UInv, BatchesDisjoint, GpuBehind
<1>8. OwnSlots'
  <2>1. \A w \in UploadWorkers : Assembles(w) => worker[w].slot \in Slots \ FirstReady
    <3> SUFFICES ASSUME NEW w \in UploadWorkers, Assembles(w)
                 PROVE  worker[w].slot \in Slots \ FirstReady
      OBVIOUS
    <3>1. worker[w].slot \in Slots
      BY WorkerCases DEF UInv, UploadTypeOK, Assembles
    <3>2. slot[worker[w].slot].state # "Ready"
      BY DEF UInv, OwnSlots
    <3> QED BY <1>2, <3>1, <3>2
  <2> QED BY <1>1, <1>3, <2>1 DEF UInv, OwnSlots, Assembles
<1> QED BY <1>4, <1>6, <1>7, <1>8 DEF UInv

(* The batch is fenced and given to the GPU, behind all others.              *)
LEMMA UploadKeepsUInv == UInv /\ UploadBatch => UInv'
<1> SUFFICES ASSUME UInv, UploadBatch PROVE UInv'
  OBVIOUS
<1>1. /\ fences \in Seq((SUBSET Slots) \ {{}}) /\ gpu \in Seq((SUBSET Slots) \ {{}})
      /\ batch \subseteq Slots
      /\ batch' = {}
      /\ UNCHANGED <<slot, content, worker>>
  BY DEF UInv, UploadTypeOK, UploadBatch, ringVars
<1>2. copies' \in [Bricks -> Nat] /\ kicks' \in Nat
  <2>1. ASSUME NEW b \in Bricks PROVE Cardinality({i \in batch : slot[i].brick = b}) \in Nat
    <3>1. IsFiniteSet(Slots)
      BY FS_Interval, UploaderAssumption DEF Slots, UploaderAssumption
    <3> QED BY <1>1, <3>1, FS_Subset, FS_CardinalityType
  <2>2. copies \in [Bricks -> Nat] /\ kicks \in Nat
    BY DEF UInv, UploadTypeOK
  <2>3. copies' \in [Bricks -> Nat]
    BY <2>1, <2>2 DEF UploadBatch
  <2> QED BY <2>2, <2>3 DEF UploadBatch, KickAfterDrain
<1>3. CASE batch = {}
  <2>1. fences' = fences /\ gpu' = gpu
    BY <1>3 DEF UploadBatch, Fenced
  <2>2. UploadTypeOK'
    BY <1>1, <1>2, <2>1 DEF UInv, UploadTypeOK, UploadBatch, ringVars
  <2> QED BY <1>1, <1>3, <2>1, <2>2, QuietKeepsUInv
<1>4. CASE batch # {}
  <2>1. fences' = Append(fences, batch) /\ gpu' = Append(gpu, batch)
    BY <1>4 DEF UploadBatch, Fenced
  <2>2. /\ fences' \in Seq((SUBSET Slots) \ {{}}) /\ gpu' \in Seq((SUBSET Slots) \ {{}})
        /\ Len(fences') = Len(fences) + 1 /\ Len(gpu') = Len(gpu) + 1
        /\ Len(fences) \in Nat /\ Len(gpu) \in Nat
        /\ DOMAIN fences' = 1 .. Len(fences) + 1 /\ DOMAIN gpu' = 1 .. Len(gpu) + 1
        /\ fences'[Len(fences) + 1] = batch /\ gpu'[Len(gpu) + 1] = batch
        /\ \A n \in DOMAIN fences : fences'[n] = fences[n]
        /\ \A n \in DOMAIN gpu : gpu'[n] = gpu[n]
        /\ DOMAIN fences = 1 .. Len(fences) /\ DOMAIN gpu = 1 .. Len(gpu)
    BY <1>1, <1>4, <2>1
  <2>3. UploadTypeOK'
    BY <1>1, <1>2, <2>2 DEF UInv, UploadTypeOK, UploadBatch, ringVars
  <2>4. \A i \in Slots : Copying(i)' => Copying(i)
    BY <1>1, <2>2 DEF Copying
  <2>5. WholeSlots'
    BY <1>1, <2>4 DEF UInv, WholeSlots
  <2>6. BatchesDisjoint'
    BY <1>1, <2>2 DEF UInv, BatchesDisjoint
  <2>7. GpuBehind'
    BY <2>2 DEF UInv, GpuBehind
  <2>8. OwnSlots'
    BY <1>1 DEF UInv, OwnSlots, Assembles
  <2> QED BY <2>3, <2>5, <2>6, <2>7, <2>8 DEF UInv
<1> QED BY <1>3, <1>4

(* The GPU finishes its oldest batch, whose fence stays. *)
LEMMA GpuKeepsUInv == UInv /\ GpuFinishes => UInv'
<1> SUFFICES ASSUME UInv, GpuFinishes PROVE UInv'
  OBVIOUS
<1>1. /\ gpu \in Seq((SUBSET Slots) \ {{}}) /\ gpu # <<>> /\ gpu' = Tail(gpu)
      /\ fences \in Seq((SUBSET Slots) \ {{}})
      /\ UNCHANGED <<slot, content, worker, fences, batch>>
  BY DEF UInv, UploadTypeOK, GpuFinishes, ringVars, drainVars
<1>2. /\ gpu' \in Seq((SUBSET Slots) \ {{}})
      /\ Len(gpu') = Len(gpu) - 1
      /\ Len(gpu) \in Nat /\ Len(fences) \in Nat
      /\ \A n \in DOMAIN gpu' : n \in Nat /\ n + 1 \in DOMAIN gpu /\ gpu'[n] = gpu[n + 1]
  BY <1>1
<1>3. UploadTypeOK'
  BY <1>1, <1>2 DEF UInv, UploadTypeOK, GpuFinishes, ringVars, drainVars, history
<1>4. GpuBehind'
  <2>1. Len(gpu') <= Len(fences)
    BY <1>2 DEF UInv, GpuBehind
  <2>2. ASSUME NEW n \in DOMAIN gpu'
        PROVE  gpu'[n] = fences[n + (Len(fences) - Len(gpu'))]
    <3>1. (n + 1) + (Len(fences) - Len(gpu)) = n + (Len(fences) - Len(gpu'))
      BY <1>2
    <3> QED BY <1>2, <3>1 DEF UInv, GpuBehind
  <2> QED BY <1>1, <2>1, <2>2 DEF GpuBehind
<1>5. WholeSlots' /\ BatchesDisjoint' /\ OwnSlots'
  BY <1>1 DEF UInv, WholeSlots, Copying, BatchesDisjoint, OwnSlots, Assembles
<1> QED BY <1>3, <1>4, <1>5 DEF UInv

-----------------------------------------------------------------------------
(* Workers. *)

(* A worker that takes a job or gives up. *)
LEMMA IdleSteps ==
  ASSUME UInv, NEW w \in UploadWorkers, StartJob(w) \/ EndJob(w)
  PROVE  UInv'
<1>1. /\ worker \in [UploadWorkers -> WorkerState]
      /\ UNCHANGED <<ring, slot, content, fences, gpu, batch>>
  BY DEF UInv, UploadTypeOK, StartJob, EndJob, ringVars, drainVars
<1>2. PICK s \in {At("idle", 0), At("scanning", 0)} : worker' = [worker EXCEPT ![w] = s]
  BY DEF StartJob, EndJob
<1>3. s \in WorkerState /\ s.pc # "assembling"
  BY <1>2, AtFields DEF WorkerState
<1>4. kicks' \in Nat
  BY DEF UInv, UploadTypeOK, StartJob, EndJob
<1>5. UploadTypeOK'
  BY <1>1, <1>2, <1>3, <1>4
  DEF UInv, UploadTypeOK, StartJob, EndJob, ringVars, drainVars, history
<1>6. OwnSlots'
  BY <1>1, <1>2, <1>3 DEF UInv, UploadTypeOK, OwnSlots, Assembles
<1>7. WholeSlots' /\ BatchesDisjoint' /\ GpuBehind'
  BY <1>1 DEF UInv, WholeSlots, Copying, BatchesDisjoint, GpuBehind
<1> QED BY <1>5, <1>6, <1>7 DEF UInv

(* A worker is given a slot that is free, hence nobody's. *)
LEMMA TakeKeepsUInv ==
  ASSUME UInv, NEW w \in UploadWorkers, Take(w)
  PROVE  UInv'
<1> DEFINE i == Lowest(InSlotState("Free"))
           b == Head(pendingBricks)
<1>1. i \in Slots /\ slot[i].state = "Free"
  <2>1. InSlotState("Free") \subseteq Slots /\ InSlotState("Free") # {}
    BY DEF UInv, UploadTypeOK, Take, NothingToDo, InSlotState
  <2>2. i \in InSlotState("Free")
    BY <2>1, LowestIsOne
  <2> QED BY <2>1, <2>2 DEF InSlotState
<1>2. b \in Bricks /\ pendingBricks' \in Seq(Bricks) /\ Len(pendingBricks') <= MaxPending
  BY UploaderAssumption DEF UInv, UploadTypeOK, Take, NothingToDo, UploaderAssumption
<1> DEFINE taken == [state |-> "Writing", brick |-> b]
<1>3. /\ slot \in [Slots -> Slot] /\ content \in [Slots -> Bricks \cup {NoBrick, Torn}]
      /\ worker \in [UploadWorkers -> WorkerState]
      /\ slot' = [slot EXCEPT ![i] = taken]
      /\ content' = [content EXCEPT ![i] = Torn]
      /\ worker' = [worker EXCEPT ![w] = At("assembling", i)]
      /\ UNCHANGED <<ring, fences, gpu, batch>>
  BY DEF UInv, UploadTypeOK, Take, drainVars
<1>4. taken \in Slot /\ taken.state = "Writing"
  BY <1>2 DEF Slot, SlotState
<1>5. /\ At("assembling", i) \in WorkerState
      /\ At("assembling", i).pc = "assembling" /\ At("assembling", i).slot = i
  BY <1>1, AtFields DEF WorkerState
<1> HIDE DEF i, b, taken
<1>6. UploadTypeOK'
  BY <1>1, <1>2, <1>3, <1>4, <1>5
  DEF UInv, UploadTypeOK, Take, drainVars, history
<1>7. ~Copying(i)
  BY <1>1 DEF UInv, WholeSlots
<1>8. \A j \in Slots : Copying(j)' = Copying(j)
  BY <1>3 DEF Copying
<1>9. WholeSlots'
  BY <1>1, <1>3, <1>4, <1>7, <1>8 DEF UInv, WholeSlots
<1>10. \A v \in UploadWorkers :
         Assembles(v) => worker[v].slot \in Slots /\ worker[v].slot # i
  BY <1>1, WorkerCases DEF UInv, UploadTypeOK, OwnSlots, Assembles
<1>11. OwnSlots'
  BY <1>1, <1>3, <1>4, <1>5, <1>10 DEF UInv, OwnSlots, Assembles
<1>12. BatchesDisjoint' /\ GpuBehind'
  BY <1>3 DEF UInv, BatchesDisjoint, GpuBehind
<1> QED BY <1>6, <1>9, <1>11, <1>12 DEF UInv

(* The brick is whole before its slot is ready. *)
LEMMA FinishKeepsUInv ==
  ASSUME UInv, NEW w \in UploadWorkers, FinishAssembly(w)
  PROVE  UInv'
<1> DEFINE i == worker[w].slot
           done == [slot[i] EXCEPT !.state = "Ready"]
<1>1. i \in Slots /\ slot[i].state = "Writing"
  BY WorkerCases DEF UInv, UploadTypeOK, OwnSlots, Assembles, FinishAssembly
<1>2. /\ slot \in [Slots -> Slot] /\ content \in [Slots -> Bricks \cup {NoBrick, Torn}]
      /\ worker \in [UploadWorkers -> WorkerState]
      /\ slot' = [slot EXCEPT ![i] = done]
      /\ content' = [content EXCEPT ![i] = slot[i].brick]
      /\ worker' = [worker EXCEPT ![w] = At("scanning", 0)]
      /\ UNCHANGED <<ring, fences, gpu, batch>>
  BY DEF UInv, UploadTypeOK, FinishAssembly, drainVars
<1>3. done \in Slot /\ done.state = "Ready" /\ done.brick = slot[i].brick
  BY <1>1, <1>2, StateChanges DEF SlotState
<1>4. slot[i].brick \in Bricks \cup {NoBrick}
  BY <1>1, <1>2 DEF Slot
<1>5. At("scanning", 0) \in WorkerState /\ At("scanning", 0).pc = "scanning"
  BY AtFields DEF WorkerState
<1>6. Assembles(w)
  BY DEF FinishAssembly, Assembles
<1> HIDE DEF done
<1>7. UploadTypeOK'
  BY <1>1, <1>2, <1>3, <1>4, <1>5
  DEF UInv, UploadTypeOK, FinishAssembly, drainVars, history
<1>8. ~Copying(i)
  BY <1>1 DEF UInv, WholeSlots
<1>9. \A j \in Slots : Copying(j)' = Copying(j)
  BY <1>2 DEF Copying
<1>10. WholeSlots'
  BY <1>1, <1>2, <1>3, <1>8, <1>9 DEF UInv, WholeSlots
<1>11. \A v \in UploadWorkers :
         Assembles(v) /\ v # w => worker[v].slot \in Slots /\ worker[v].slot # i
  BY <1>6, WorkerCases DEF UInv, UploadTypeOK, OwnSlots, Assembles
<1>12. OwnSlots'
  BY <1>1, <1>2, <1>5, <1>11 DEF UInv, OwnSlots, Assembles
<1>13. BatchesDisjoint' /\ GpuBehind'
  BY <1>2 DEF UInv, BatchesDisjoint, GpuBehind
<1> QED BY <1>7, <1>10, <1>12, <1>13 DEF UInv

-----------------------------------------------------------------------------
(* Every step keeps the invariant. *)
LEMMA UploadSteps == UInv /\ [UploadNext]_uploadVars => UInv'
<1> SUFFICES ASSUME UInv, [UploadNext]_uploadVars PROVE UInv'
  OBVIOUS
<1>1. CASE (\E b \in Bricks : Enqueue(b)) \/ MapBuffer \/ AssignSlots \/ BeginDrain
  BY <1>1, QuietSteps
<1>2. CASE Recycle \/ SelectBatch \/ UploadBatch \/ GpuFinishes
  BY <1>2, RecycleKeepsUInv, SelectKeepsUInv, UploadKeepsUInv, GpuKeepsUInv
<1>3. ASSUME NEW w \in UploadWorkers, Assemble(w) PROVE UInv'
  BY <1>3, IdleSteps, TakeKeepsUInv, FinishKeepsUInv DEF Assemble
<1>4. CASE UNCHANGED uploadVars
  <2>1. UploadTypeOK'
    BY <1>4 DEF UInv, UploadTypeOK, uploadVars, ringVars, drainVars, history
  <2> QED BY <1>4, <2>1, QuietKeepsUInv DEF uploadVars, ringVars, drainVars
<1> QED BY <1>1, <1>2, <1>3, <1>4 DEF UploadNext, Frame

(* The inductive invariant holds throughout. *)
LEMMA UInvAlways == UploadSpec => []UInv
<1> QED BY UploadStarts, UploadSteps, PTL DEF UploadSpec

-----------------------------------------------------------------------------
(* The ring's counters and slots stay in their types; in particular the      *)
(* queue never exceeds kMaxPending.                                          *)
THEOREM UploaderTypeCorrect == UploadSpec => []UploadTypeOK
<1>1. UInv => UploadTypeOK
  BY DEF UInv
<1> QED BY <1>1, UInvAlways, PTL

(* While the GPU may read a slot, the slot holds the brick under whose key   *)
(* it is uploaded, and no worker has it (workerAssemble, drainToGpu).        *)
THEOREM CopiesAreWhole == UploadSpec => []CopiesSeeTheirBrick
<1>1. UInv => CopiesSeeTheirBrick
  <2> SUFFICES ASSUME UInv, NEW i \in UnderCopy
               PROVE  /\ slot[i].state = "InFlight"
                      /\ content[i] = slot[i].brick
                      /\ \A w \in UploadWorkers : worker[w].slot # i
    BY DEF CopiesSeeTheirBrick
  <2>1. i \in Slots /\ Copying(i)
    <3>1. CASE i \in batch
      BY <3>1 DEF UInv, UploadTypeOK, Copying
    <3>2. CASE i \in UNION Range(gpu)
      <4>1. PICK n \in DOMAIN gpu : i \in gpu[n]
        BY <3>2 DEF Range
      <4>2. /\ n + (Len(fences) - Len(gpu)) \in DOMAIN fences
            /\ gpu[n] = fences[n + (Len(fences) - Len(gpu))]
            /\ gpu[n] \subseteq Slots
        BY <4>1 DEF UInv, UploadTypeOK, GpuBehind
      <4> QED BY <4>1, <4>2 DEF Copying
    <3> QED BY <3>1, <3>2 DEF UnderCopy
  <2>2. slot[i].state = "InFlight" /\ content[i] = slot[i].brick
    BY <2>1 DEF UInv, WholeSlots
  <2>3. ASSUME NEW w \in UploadWorkers PROVE worker[w].slot # i
    <3>1. CASE Assembles(w)
      BY <2>2, <3>1 DEF UInv, OwnSlots
    <3>2. CASE ~Assembles(w)
      <4>1. worker[w].slot = 0
        BY <3>2, WorkerCases DEF UInv, UploadTypeOK, Assembles
      <4> QED BY <2>1, <4>1 DEF Slots
    <3> QED BY <3>1, <3>2
  <2> QED BY <2>2, <2>3
<1> QED BY <1>1, UInvAlways, PTL

-----------------------------------------------------------------------------
(* No brick is lost or copied twice. *)

Waits(b) == {n \in DOMAIN pendingBricks : pendingBricks[n] = b}

Places(b) == Cardinality(Waits(b)) + Cardinality(InRing(b)) + copies[b]

OnePlace ==
  \A b \in Bricks : Places(b) = IF b \in enqueued THEN 1 ELSE 0

(* Before initialize() no slot is used, and between drains there is no batch.*)
RingAtRest ==
  /\ ring = {} => batch = {} /\ \A i \in Slots : slot[i].state = "Free"
  /\ render # "uploading" => batch = {}

PInv == RingAtRest /\ OnePlace

(* A brick has a finite number of places. *)
LEMMA PlacesFinite ==
  ASSUME UploadTypeOK, NEW b \in Bricks
  PROVE  /\ IsFiniteSet(Waits(b)) /\ Cardinality(Waits(b)) \in Nat
         /\ IsFiniteSet(InRing(b)) /\ Cardinality(InRing(b)) \in Nat
         /\ InRing(b) \subseteq Slots /\ copies[b] \in Nat
<1>1. IsFiniteSet(Slots)
  BY FS_Interval, UploaderAssumption DEF Slots
<1>2. InRing(b) \subseteq Slots
  BY DEF UploadTypeOK, InRing
<1>3. IsFiniteSet(DOMAIN pendingBricks)
  <2>1. pendingBricks \in Seq(Bricks)
    BY DEF UploadTypeOK
  <2>2. DOMAIN pendingBricks = 1 .. Len(pendingBricks)
        /\ 1 \in Int /\ Len(pendingBricks) \in Int
    BY <2>1
  <2> QED BY <2>2, FS_Interval
<1>4. Waits(b) \subseteq DOMAIN pendingBricks
  BY DEF Waits
<1>5. copies[b] \in Nat
  BY DEF UploadTypeOK
<1> QED BY <1>1, <1>2, <1>3, <1>4, <1>5, FS_Subset, FS_CardinalityType

(* The last of a longer queue is one more place of its brick alone. *)
LEMMA AppendWaits ==
  ASSUME NEW q \in Seq(Bricks), NEW b \in Bricks, NEW c \in Bricks
  PROVE  {n \in DOMAIN Append(q, b) : Append(q, b)[n] = c} =
           {n \in DOMAIN q : q[n] = c} \cup (IF c = b THEN {Len(q) + 1} ELSE {})
<1>1. /\ DOMAIN q = 1 .. Len(q) /\ Len(q) \in Nat
      /\ DOMAIN Append(q, b) = 1 .. Len(q) + 1
      /\ \A n \in 1 .. Len(q) : Append(q, b)[n] = q[n]
      /\ Append(q, b)[Len(q) + 1] = b
  OBVIOUS
<1> QED BY <1>1

(* The head of a queue is a place of its brick alone. *)
LEMMA TailWaits ==
  ASSUME NEW q \in Seq(Bricks), q # <<>>, NEW c \in Bricks
  PROVE  Cardinality({n \in DOMAIN Tail(q) : Tail(q)[n] = c}) =
           Cardinality({n \in DOMAIN q : q[n] = c}) - (IF c = Head(q) THEN 1 ELSE 0)
<1> DEFINE S == {n \in DOMAIN Tail(q) : Tail(q)[n] = c}
           T == {n \in DOMAIN q : q[n] = c}
           f == [n \in S |-> n + 1]
<1>1. /\ DOMAIN q = 1 .. Len(q) /\ Len(q) \in Nat \ {0} /\ Head(q) = q[1]
      /\ DOMAIN Tail(q) = 1 .. Len(q) - 1
      /\ \A n \in 1 .. Len(q) - 1 : Tail(q)[n] = q[n + 1]
  OBVIOUS
<1>2. S \subseteq 1 .. Len(q) /\ T \subseteq 1 .. Len(q)
  BY <1>1
<1>3. IsFiniteSet(S) /\ IsFiniteSet(T)
  <2>1. IsFiniteSet(1 .. Len(q))
    BY <1>1, FS_Interval
  <2> QED BY <1>2, <2>1, FS_Subset
<1>4. f \in [S -> T \ {1}] /\ \A m, n \in S : f[m] = f[n] => m = n
  BY <1>1
<1>5. ASSUME NEW t \in T \ {1} PROVE \E n \in S : f[n] = t
  <2>1. t \in 2 .. Len(q) /\ q[t] = c
    BY <1>1
  <2>2. t - 1 \in S
    BY <1>1, <2>1
  <2>3. f[t - 1] = t
    BY <2>1, <2>2
  <2> QED BY <2>2, <2>3
<1> HIDE DEF S, T, f
<1>6. f \in Bijection(S, T \ {1})
  BY <1>4, <1>5, Fun_IsBij
<1>7. Cardinality(T \ {1}) = Cardinality(S)
  <2>1. ExistsBijection(S, T \ {1})
    BY <1>6 DEF ExistsBijection
  <2> QED BY <1>3, <2>1, FS_Bijection
<1>8. Cardinality(T \ {1}) = IF 1 \in T THEN Cardinality(T) - 1 ELSE Cardinality(T)
  BY <1>3, FS_RemoveElement
<1>9. 1 \in T <=> c = Head(q)
  BY <1>1 DEF T
<1>10. Cardinality(T) \in Nat
  BY <1>3, FS_CardinalityType
<1>11. Cardinality(S) = Cardinality(T) - (IF c = Head(q) THEN 1 ELSE 0)
  BY <1>7, <1>8, <1>9, <1>10
<1> QED BY <1>11 DEF S, T

(* At the start no brick has a place. *)
LEMMA OnePlaceStarts == UploadInit => PInv
<1> SUFFICES ASSUME UploadInit PROVE PInv
  OBVIOUS
<1>1. RingAtRest
  BY DEF UploadInit, RingAtRest
<1>2. ASSUME NEW b \in Bricks PROVE Places(b) = 0
  <2>1. Waits(b) = {} /\ InRing(b) = {} /\ copies[b] = 0
    BY DEF UploadInit, Waits, InRing
  <2> QED BY <2>1, FS_EmptySet DEF Places
<1>3. enqueued = {}
  BY DEF UploadInit
<1> QED BY <1>1, <1>2, <1>3 DEF PInv, OnePlace

(* A step that leaves the queue, the copies and what the ring holds alone.   *)
LEMMA HeldKeepsOnePlace ==
  ASSUME PInv, UNCHANGED <<pendingBricks, copies, enqueued>>,
         \A b \in Bricks : InRing(b)' = InRing(b)
  PROVE  OnePlace'
BY DEF PInv, OnePlace, Places, Waits

(* An accepted brick gets its first place. *)
LEMMA EnqueueKeepsOnePlace ==
  ASSUME UInv, PInv, NEW b \in Bricks, Enqueue(b)
  PROVE  PInv'
<1>1. /\ b \notin enqueued /\ enqueued' = enqueued \cup {b}
      /\ pendingBricks' = Append(pendingBricks, b) /\ pendingBricks \in Seq(Bricks)
      /\ UNCHANGED <<ring, slot, batch, render, copies>>
  BY DEF Enqueue, UInv, UploadTypeOK, ringVars, drainVars
<1>2. RingAtRest'
  BY <1>1 DEF PInv, RingAtRest
<1>3. ASSUME NEW c \in Bricks
      PROVE  Places(c)' = IF c \in enqueued' THEN 1 ELSE 0
  <2>1. InRing(c)' = InRing(c) /\ copies'[c] = copies[c]
    BY <1>1 DEF InRing
  <2>2. Waits(c)' = Waits(c) \cup (IF c = b THEN {Len(pendingBricks) + 1} ELSE {})
    BY <1>1, AppendWaits DEF Waits
  <2>3. Len(pendingBricks) + 1 \notin Waits(c)
    BY <1>1 DEF Waits
  <2>4. /\ IsFiniteSet(Waits(c)) /\ Cardinality(Waits(c)) \in Nat
        /\ Cardinality(InRing(c)) \in Nat /\ copies[c] \in Nat
    BY PlacesFinite DEF UInv
  <2>5. Cardinality(Waits(c)') = Cardinality(Waits(c)) + IF c = b THEN 1 ELSE 0
    <3>1. CASE c = b
      <4>1. Waits(c)' = Waits(c) \cup {Len(pendingBricks) + 1}
        BY <2>2, <3>1
      <4> QED BY <2>3, <2>4, <3>1, <4>1, FS_AddElement
    <3>2. CASE c # b
      BY <2>2, <2>4, <3>2
    <3> QED BY <3>1, <3>2
  <2>6. Places(c) = IF c \in enqueued THEN 1 ELSE 0
    BY DEF PInv, OnePlace
  <2>7. Places(c)' = Places(c) + IF c = b THEN 1 ELSE 0
    BY <2>1, <2>4, <2>5 DEF Places
  <2> QED BY <1>1, <2>6, <2>7
<1> QED BY <1>2, <1>3 DEF PInv, OnePlace

(* The slots taken back held bricks that were copied. *)
LEMMA RecycleKeepsOnePlace ==
  ASSUME UInv, PInv, Recycle
  PROVE  PInv'
<1>1. /\ slot' = [i \in Slots |-> IF i \in Head(fences)
                              THEN [slot[i] EXCEPT !.state = "Free"] ELSE slot[i]]
      /\ fences \in Seq((SUBSET Slots) \ {{}}) /\ Len(fences) > Len(gpu)
      /\ gpu \in Seq((SUBSET Slots) \ {{}})
      /\ slot \in [Slots -> Slot] /\ ring \subseteq Slots
      /\ UNCHANGED <<ring, batch, render, pendingBricks, copies, enqueued>>
  BY DEF Recycle, Signaled, UInv, UploadTypeOK, history
<1>2. 1 \in DOMAIN fences /\ Head(fences) = fences[1]
  BY <1>1
<1>3. \A i \in Slots : i \in Head(fences) =>
         /\ slot[i].state = "InFlight" /\ i \notin batch
         /\ slot'[i].state = "Free"
  <2>1. ASSUME NEW i \in Slots, i \in Head(fences)
        PROVE  slot[i].state = "InFlight" /\ i \notin batch /\ slot'[i].state = "Free"
    <3>1. slot[i].state = "InFlight" /\ i \notin batch
      BY <1>2, <2>1 DEF UInv, WholeSlots, Copying, BatchesDisjoint
    <3>2. slot'[i].state = "Free"
      BY <1>1, <2>1, StateChanges DEF SlotState
    <3> QED BY <3>1, <3>2
  <2> QED BY <2>1
<1>4. \A i \in Slots : i \notin Head(fences) => slot'[i] = slot[i]
  BY <1>1
<1>5. \A b \in Bricks : InRing(b)' = InRing(b)
  BY <1>1, <1>3, <1>4 DEF InRing
<1>6. RingAtRest'
  BY <1>1, <1>3, <1>4 DEF PInv, RingAtRest
<1> QED BY <1>1, <1>5, <1>6, HeldKeepsOnePlace DEF PInv

(* A selected slot stays in the ring until its copy is issued. *)
LEMMA SelectKeepsOnePlace ==
  ASSUME UInv, PInv, SelectBatch
  PROVE  PInv'
<1>1. /\ batch' = FirstReady /\ render = "recycling" /\ render' = "uploading"
      /\ slot' = [i \in Slots |-> IF i \in FirstReady
                              THEN [slot[i] EXCEPT !.state = "InFlight"] ELSE slot[i]]
      /\ slot \in [Slots -> Slot] /\ ring \subseteq Slots
      /\ UNCHANGED <<ring, pendingBricks, copies, enqueued>>
  BY DEF SelectBatch, UInv, UploadTypeOK, history
<1>2. batch = {}
  BY <1>1 DEF PInv, RingAtRest
<1>3. \A i \in FirstReady : i \in ring /\ slot[i].state = "Ready"
  BY DEF FirstReady, InSlotState
<1>4. \A i \in FirstReady : slot'[i].state = "InFlight" /\ slot'[i].brick = slot[i].brick
  <2>1. ASSUME NEW i \in FirstReady
        PROVE  slot'[i].state = "InFlight" /\ slot'[i].brick = slot[i].brick
    <3>1. i \in Slots /\ slot'[i] = [slot[i] EXCEPT !.state = "InFlight"]
      BY <1>1, <1>3
    <3> QED BY <1>1, <3>1, StateChanges DEF SlotState
  <2> QED BY <2>1
<1>5. \A i \in Slots : i \notin FirstReady => slot'[i] = slot[i]
  BY <1>1
<1>6. \A b \in Bricks : InRing(b)' = InRing(b)
  BY <1>1, <1>2, <1>3, <1>4, <1>5 DEF InRing
<1>7. RingAtRest'
  BY <1>1, <1>3, <1>5 DEF PInv, RingAtRest
<1> QED BY <1>1, <1>6, <1>7, HeldKeepsOnePlace DEF PInv

(* A batch leaves the ring for the copies. *)
LEMMA UploadKeepsOnePlace ==
  ASSUME UInv, PInv, UploadBatch
  PROVE  PInv'
<1>1. /\ copies' = [b \in Bricks |->
                     copies[b] + Cardinality({i \in batch : slot[i].brick = b})]
      /\ batch' = {} /\ batch \subseteq Slots /\ ring \in {{}, Slots}
      /\ UNCHANGED <<ring, slot, pendingBricks, enqueued>>
  BY DEF UploadBatch, UInv, UploadTypeOK, ringVars
<1>2. batch \subseteq ring
  BY <1>1 DEF PInv, RingAtRest
<1>3. \A i \in batch : slot[i].state = "InFlight"
  BY <1>1 DEF UInv, WholeSlots, Copying
<1>4. ASSUME NEW b \in Bricks PROVE Places(b)' = Places(b)
  <2> DEFINE out == {i \in batch : slot[i].brick = b}
  <2>1. InRing(b) = InRing(b)' \cup out /\ InRing(b)' \cap out = {}
    BY <1>1, <1>2, <1>3 DEF InRing
  <2>2. Waits(b)' = Waits(b)
    BY <1>1 DEF Waits
  <2>3. copies'[b] = copies[b] + Cardinality(out)
    BY <1>1
  <2> HIDE DEF out
  <2>4. /\ IsFiniteSet(InRing(b)) /\ Cardinality(InRing(b)) \in Nat
        /\ Cardinality(Waits(b)) \in Nat /\ copies[b] \in Nat
    BY PlacesFinite DEF UInv
  <2>5. IsFiniteSet(InRing(b)') /\ IsFiniteSet(out)
    BY <2>1, <2>4, FS_Subset
  <2>6. Cardinality(InRing(b)') \in Nat /\ Cardinality(out) \in Nat
    BY <2>5, FS_CardinalityType
  <2>7. Cardinality(InRing(b)) = Cardinality(InRing(b)') + Cardinality(out)
    BY <2>1, <2>5, <2>6, FS_Union, FS_EmptySet
  <2> QED BY <2>2, <2>3, <2>4, <2>6, <2>7 DEF Places
<1>5. OnePlace'
  BY <1>1, <1>4 DEF PInv, OnePlace
<1>6. RingAtRest'
  BY <1>1 DEF PInv, RingAtRest
<1> QED BY <1>5, <1>6 DEF PInv

(* A taken brick moves from the queue to a slot that held none. *)
LEMMA TakeKeepsOnePlace ==
  ASSUME UInv, PInv, NEW w \in UploadWorkers, Take(w)
  PROVE  PInv'
<1> DEFINE i == Lowest(InSlotState("Free"))
           b == Head(pendingBricks)
           taken == [state |-> "Writing", brick |-> b]
<1>1. i \in ring /\ slot[i].state = "Free"
  <2>1. InSlotState("Free") \subseteq Slots /\ InSlotState("Free") # {}
    BY DEF UInv, UploadTypeOK, Take, NothingToDo, InSlotState
  <2>2. i \in InSlotState("Free")
    BY <2>1, LowestIsOne
  <2> QED BY <2>2 DEF InSlotState
<1>2. /\ pendingBricks \in Seq(Bricks) /\ pendingBricks # <<>>
      /\ pendingBricks' = Tail(pendingBricks) /\ b \in Bricks
      /\ slot \in [Slots -> Slot] /\ ring \in {{}, Slots}
      /\ slot' = [slot EXCEPT ![i] = taken]
      /\ UNCHANGED <<ring, batch, render, copies, enqueued>>
  BY DEF UInv, UploadTypeOK, Take, NothingToDo, drainVars, history
<1>3. taken.state = "Writing" /\ taken.brick = b
  OBVIOUS
<1> HIDE DEF i, taken
<1>4. i \in Slots /\ i \notin batch
  <2>1. i \in Slots
    BY <1>1, <1>2
  <2> QED BY <1>1, <2>1 DEF UInv, WholeSlots, Copying
<1>5. slot'[i] = taken /\ \A j \in Slots : j # i => slot'[j] = slot[j]
  BY <1>2, <1>4
<1>6. ASSUME NEW c \in Bricks PROVE Places(c)' = Places(c)
  <2>1. i \notin InRing(c)
    BY <1>1, <1>4 DEF InRing
  <2>2. InRing(c)' = InRing(c) \cup (IF c = b THEN {i} ELSE {})
    BY <1>1, <1>2, <1>3, <1>4, <1>5 DEF InRing
  <2>3. Cardinality(Waits(c)') = Cardinality(Waits(c)) - IF c = b THEN 1 ELSE 0
    BY <1>2, TailWaits DEF Waits
  <2>4. /\ IsFiniteSet(InRing(c)) /\ Cardinality(InRing(c)) \in Nat
        /\ Cardinality(Waits(c)) \in Nat /\ copies[c] \in Nat
    BY PlacesFinite DEF UInv
  <2>5. Cardinality(InRing(c)') = Cardinality(InRing(c)) + IF c = b THEN 1 ELSE 0
    <3>1. CASE c = b
      <4>1. InRing(c)' = InRing(c) \cup {i}
        BY <2>2, <3>1
      <4> QED BY <2>1, <2>4, <3>1, <4>1, FS_AddElement
    <3>2. CASE c # b
      BY <2>2, <2>4, <3>2
    <3> QED BY <3>1, <3>2
  <2> HIDE DEF b
  <2> QED BY <1>2, <2>3, <2>4, <2>5 DEF Places
<1>7. OnePlace'
  BY <1>2, <1>6 DEF PInv, OnePlace
<1>8. RingAtRest'
  BY <1>1, <1>2 DEF PInv, RingAtRest
<1> QED BY <1>7, <1>8 DEF PInv

(* An assembled brick stays where it is. *)
LEMMA FinishKeepsOnePlace ==
  ASSUME UInv, PInv, NEW w \in UploadWorkers, FinishAssembly(w)
  PROVE  PInv'
<1> DEFINE i == worker[w].slot
           done == [slot[i] EXCEPT !.state = "Ready"]
<1>1. i \in Slots /\ slot[i].state = "Writing"
  BY WorkerCases DEF UInv, UploadTypeOK, OwnSlots, Assembles, FinishAssembly
<1>2. /\ slot \in [Slots -> Slot] /\ ring \in {{}, Slots}
      /\ slot' = [slot EXCEPT ![i] = done]
      /\ UNCHANGED <<ring, batch, render, pendingBricks, copies, enqueued>>
  BY DEF UInv, UploadTypeOK, FinishAssembly, drainVars, history
<1>3. done.state = "Ready" /\ done.brick = slot[i].brick
  BY <1>1, <1>2, StateChanges DEF SlotState
<1> HIDE DEF done, i
<1>4. slot'[i] = done /\ \A j \in Slots : j # i => slot'[j] = slot[j]
  BY <1>1, <1>2
<1>5. \A b \in Bricks : InRing(b)' = InRing(b)
  BY <1>1, <1>2, <1>3, <1>4 DEF InRing
<1>6. RingAtRest'
  BY <1>1, <1>2 DEF PInv, RingAtRest
<1> QED BY <1>2, <1>5, <1>6, HeldKeepsOnePlace DEF PInv

(* The other steps leave the places and the slots alone. *)
LEMMA OtherKeepsOnePlace ==
  ASSUME UInv, PInv,
         \/ MapBuffer \/ AssignSlots \/ BeginDrain \/ GpuFinishes
         \/ \E w \in UploadWorkers : StartJob(w) \/ EndJob(w)
         \/ UNCHANGED uploadVars
  PROVE  PInv'
<1>1. /\ UNCHANGED <<slot, batch, pendingBricks, copies, enqueued>>
      /\ render' = render \/ (render # "uploading" /\ render' # "uploading")
      /\ ring' = ring \/ ring' = Slots
  BY DEF MapBuffer, AssignSlots, BeginDrain, GpuFinishes, StartJob, EndJob, ringVars,
         drainVars, history, uploadVars
<1>2. ring \in {{}, Slots} /\ slot \in [Slots -> Slot]
  BY DEF UInv, UploadTypeOK
<1>3. \A b \in Bricks : InRing(b)' = InRing(b)
  <2>1. CASE ring' = ring
    BY <1>1, <2>1 DEF InRing
  <2>2. CASE ring = {} /\ ring' = Slots
    BY <1>1, <2>2 DEF InRing, PInv, RingAtRest
  <2> QED BY <1>1, <1>2, <2>1, <2>2
<1>4. RingAtRest'
  <2>1. render' # "uploading" => batch' = {}
    BY <1>1 DEF PInv, RingAtRest
  <2>2. ring' = {} => batch' = {} /\ \A i \in Slots : slot'[i].state = "Free"
    <3>1. ring' = {} => ring = {}
      BY <1>1, <1>2
    <3> QED BY <1>1, <3>1 DEF PInv, RingAtRest
  <2> QED BY <2>1, <2>2 DEF RingAtRest
<1> QED BY <1>1, <1>3, <1>4, HeldKeepsOnePlace DEF PInv

(* Every step keeps the places. *)
LEMMA OnePlaceSteps == UInv /\ PInv /\ [UploadNext]_uploadVars => PInv'
<1> SUFFICES ASSUME UInv, PInv, [UploadNext]_uploadVars PROVE PInv'
  OBVIOUS
<1>1. ASSUME NEW b \in Bricks, Enqueue(b) PROVE PInv'
  BY <1>1, EnqueueKeepsOnePlace
<1>2. CASE Recycle \/ SelectBatch \/ UploadBatch
  BY <1>2, RecycleKeepsOnePlace, SelectKeepsOnePlace, UploadKeepsOnePlace
<1>3. CASE MapBuffer \/ AssignSlots \/ BeginDrain \/ GpuFinishes \/ UNCHANGED uploadVars
  BY <1>3, OtherKeepsOnePlace
<1>4. ASSUME NEW w \in UploadWorkers, Assemble(w) PROVE PInv'
  BY <1>4, OtherKeepsOnePlace, TakeKeepsOnePlace, FinishKeepsOnePlace DEF Assemble
<1> QED BY <1>1, <1>2, <1>3, <1>4 DEF UploadNext, Frame

(* Of each brick that enqueue() accepted the queue, the ring and the copies  *)
(* issued together hold exactly one: none is dropped, none copied twice      *)
(* (GpuUploader.h:35, "nothing is lost").                                    *)
THEOREM NothingIsLost == UploadSpec => []UploadedOnce
<1>1. UInv /\ PInv => UploadedOnce
  <2> SUFFICES ASSUME UInv, PInv, NEW b \in enqueued PROVE Places(b) = 1
    BY DEF UploadedOnce, Places, Waits
  <2>1. b \in Bricks
    BY DEF UInv, UploadTypeOK
  <2> QED BY <2>1 DEF PInv, OnePlace
<1> QED BY <1>1, UInvAlways, OnePlaceStarts, OnePlaceSteps, PTL DEF UploadSpec

-----------------------------------------------------------------------------
(* The segmentation. *)

(* There is a voxel, and finitely many. *)
LEMMA VoxelsAre ==
  /\ Dx * Dy \in Nat \ {0} /\ Voxels = 0 .. Dx * Dy - 1 /\ Voxels \subseteq Nat
  /\ IsFiniteSet(Voxels)
<1>1. Dx \in Nat \ {0} /\ Dy \in Nat \ {0}
  BY SegAssumption DEF SegAssumption
<1>2. 1 * Dy <= Dx * Dy /\ Dx * Dy \in Nat
  BY <1>1, Monotone
<1> DEFINE N == Dx * Dy
<1> HIDE DEF N
<1>3. N \in Nat \ {0}
  BY <1>1, <1>2 DEF N
<1>4. Voxels = 0 .. N - 1
  BY DEF Voxels, N
<1>5. IsFiniteSet(0 .. N - 1)
  BY <1>3, FS_Interval
<1>. QED  BY <1>3, <1>4, <1>5 DEF N

(* The neighbours of a voxel are at most four voxels.                        *)
LEMMA NeighboursAre ==
  ASSUME NEW i \in Voxels
  PROVE  Neighbours(i) \in Seq(Voxels) /\ Len(Neighbours(i)) <= 4
<1> DEFINE x == i % Dx
           y == i \div Dx
           n1 == IF x > 0 THEN <<i - 1>> ELSE <<>>
           n2 == IF x + 1 < Dx THEN <<i + 1>> ELSE <<>>
           n3 == IF y > 0 THEN <<i - Dx>> ELSE <<>>
           n4 == IF y + 1 < Dy THEN <<i + Dx>> ELSE <<>>
<1>1. Dx \in Nat \ {0} /\ Dy \in Nat \ {0} /\ i \in Nat /\ i < Dx * Dy /\ Dx * Dy \in Nat
  BY VoxelsAre, SegAssumption DEF SegAssumption
<1>2. x \in Nat /\ x < Dx /\ y \in Nat /\ i = y * Dx + x /\ y * Dx \in Nat
  BY <1>1
<1>3. y < Dy
  <2>1. SUFFICES ASSUME Dy <= y PROVE FALSE
    BY <1>1, <1>2
  <2>2. Dy * Dx <= y * Dx /\ Dy * Dx = Dx * Dy
    BY <1>1, <1>2, <2>1, Monotone
  <2>. QED  BY <1>1, <1>2, <2>2
<1>4. Neighbours(i) = n1 \o n2 \o n3 \o n4
  BY DEF Neighbours
<1> HIDE DEF x, y
<1>5. \A j : j \in Voxels <=> j \in Int /\ 0 <= j /\ j < Dx * Dy
  BY VoxelsAre
<1>6. x > 0 => i - 1 \in Voxels
  BY <1>1, <1>2, <1>5
<1>7. ASSUME x + 1 < Dx PROVE i + 1 \in Voxels
  <2>1. (y + 1) * Dx <= Dy * Dx /\ (y + 1) * Dx = y * Dx + Dx /\ Dy * Dx = Dx * Dy
    <3>1. y + 1 <= Dy
      BY <1>1, <1>2, <1>3
    <3>. QED  BY <1>1, <1>2, <3>1, Monotone
  <2>. QED  BY <1>1, <1>2, <1>5, <1>7, <2>1
<1>8. ASSUME y > 0 PROVE i - Dx \in Voxels
  <2>1. 1 * Dx <= y * Dx
    BY <1>1, <1>2, <1>8, Monotone
  <2>. QED  BY <1>1, <1>2, <1>5, <2>1
<1>9. ASSUME y + 1 < Dy PROVE i + Dx \in Voxels
  <2>1. (y + 2) * Dx <= Dy * Dx /\ (y + 2) * Dx = y * Dx + Dx + Dx /\ Dy * Dx = Dx * Dy
    <3>1. y + 2 <= Dy
      BY <1>1, <1>2, <1>9
    <3>. QED  BY <1>1, <1>2, <3>1, Monotone
  <2>. QED  BY <1>1, <1>2, <1>5, <2>1
<1>10. n1 \in Seq(Voxels) /\ Len(n1) <= 1
  BY <1>6
<1>11. n2 \in Seq(Voxels) /\ Len(n2) <= 1
  BY <1>7
<1>12. n3 \in Seq(Voxels) /\ Len(n3) <= 1
  BY <1>8
<1>13. n4 \in Seq(Voxels) /\ Len(n4) <= 1
  BY <1>9
<1> HIDE DEF n1, n2, n3, n4
<1>14. n1 \o n2 \in Seq(Voxels) /\ Len(n1 \o n2) <= 2
  BY <1>10, <1>11, OneIs
<1>15. n1 \o n2 \o n3 \in Seq(Voxels) /\ Len(n1 \o n2 \o n3) <= 3
  BY <1>12, <1>14, OneIs
<1>16. n1 \o n2 \o n3 \o n4 \in Seq(Voxels) /\ Len(n1 \o n2 \o n3 \o n4) <= 4
  BY <1>13, <1>15, OneIs
<1>. QED  BY <1>4, <1>16

(* Seeds are not in air. *)
LEMMA SeedsAre ==
  ASSUME NEW v \in [Voxels -> Int], NEW threshold, NEW step
  PROVE  SeedsOf(v, threshold, step) \in Seq({i \in Voxels : v[i] > threshold})
<1> DEFINE N == Dx * Dy
           T == {i \in Voxels : v[i] > threshold}
           onGrid(i) == /\ (i % Dx) % step = step \div 2
                        /\ (i \div Dx) % step = step \div 2
           wanted(i) == onGrid(i) /\ v[i] > threshold
           Found(g) == [n \in 0 .. N |->
                         IF n = 0 THEN <<>>
                         ELSE IF wanted(n - 1) THEN Append(g[n - 1], n - 1) ELSE g[n - 1]]
           found == CHOOSE g : g = Found(g)
           next == [i \in 1 .. N |-> [s \in Seq(T) |->
                      IF wanted(i - 1) THEN Append(s, i - 1) ELSE s]]
<1>1. N \in Nat \ {0} /\ Voxels = 0 .. N - 1
  BY VoxelsAre
<1>2. SeedsOf(v, threshold, step) = found[N]
  BY Zenon DEF SeedsOf
<1> HIDE DEF N, found
<1>3. \A i \in 1 .. N : i - 1 \in Voxels /\ (wanted(i - 1) => i - 1 \in T)
  BY <1>1
<1> HIDE DEF onGrid, wanted, T
<1>4. next \in [1 .. N -> [Seq(T) -> Seq(T)]]
  BY <1>3
<1>5. \A i \in 1 .. N, s \in Seq(T) :
        next[i][s] = IF wanted(i - 1) THEN Append(s, i - 1) ELSE s
  OBVIOUS
<1> HIDE DEF next
<1>6. PICK g : GoesOn(g, N, Seq(T), <<>>, next)
  <2>1. <<>> \in Seq(T) /\ N \in Nat
    BY <1>1
  <2>. QED  BY <1>4, <2>1, Recursion, Zenon
<1>7. \A i \in 1 .. N : i - 1 \in 0 .. N /\ i \in 0 .. N
  BY <1>1
<1>8. /\ g \in [0 .. N -> Seq(T)]
      /\ g[0] = <<>>
      /\ \A i \in 1 .. N : g[i] = IF wanted(i - 1) THEN Append(g[i - 1], i - 1) ELSE g[i - 1]
  BY <1>5, <1>6, <1>7 DEF GoesOn
<1>9. g = Found(g)
  <2>1. \A n \in 0 .. N : n = 0 \/ n \in 1 .. N
    BY <1>1
  <2>. QED  BY <1>8, <2>1
<1>10. found = Found(found)
  BY <1>9, Zenon DEF found
<1> DEFINE R == {i \in 0 .. N : found[i] \in Seq(T)}
<1>11. 0 \in R
  BY <1>1, <1>10
<1>12. ASSUME NEW i \in 1 .. N, i - 1 \in R PROVE i \in R
  <2>0. i # 0 /\ i \in 0 .. N
    BY <1>1, <1>7
  <2>1. found[i] = IF wanted(i - 1) THEN Append(found[i - 1], i - 1) ELSE found[i - 1]
    BY <1>10, <2>0, Zenon
  <2>2. found[i - 1] \in Seq(T)
    BY <1>12
  <2>3. found[i] \in Seq(T)
    BY <1>3, <2>1, <2>2
  <2>. QED  BY <1>7, <2>3
<1> HIDE DEF R
<1>13. \A i \in 0 .. N : i \in R
  BY <1>1, <1>11, <1>12, UpTo
<1>14. N \in R
  BY <1>1, <1>13
<1>. QED  BY <1>2, <1>14 DEF R, T

(* A threshold that is not 0 splits the voxels. *)
LEMMA OtsuIs ==
  ASSUME NEW v \in [Voxels -> 0 .. Brightest]
  PROVE  /\ Otsu(v) \in 0 .. Brightest
         /\ v # Blank => \E i \in Voxels : v[i] > Otsu(v)
<1> DEFINE N == Brightest + 1
           S == 0 .. Brightest
           next(t) == [u \in S |-> IF BetterSplit(v, t, u) THEN t ELSE u]
           Thr(g) == [n \in 0 .. N |-> IF n = 0 THEN 0 ELSE next(n - 1)[g[n - 1]]]
           thr == CHOOSE g : g = Thr(g)
           step == [i \in 1 .. N |-> next(i - 1)]
<1>1. Brightest \in Nat /\ N \in Nat /\ 0 \in S
  BY SegAssumption DEF SegAssumption
<1>2. Otsu(v) = thr[N]
  BY Zenon DEF Otsu
<1>3. \A i \in 1 .. N : i - 1 \in S /\ i - 1 \in 0 .. N /\ i \in 0 .. N
  BY <1>1
<1>4. step \in [1 .. N -> [S -> S]]
  BY <1>3
<1>5. \A i \in 1 .. N : step[i] = next(i - 1)
  OBVIOUS
<1> HIDE DEF step, thr, N
<1>6. PICK g : GoesOn(g, N, S, 0, step)
  BY <1>1, <1>4, Recursion, Zenon
<1>7. /\ g \in [0 .. N -> S]
      /\ g[0] = 0
      /\ \A i \in 1 .. N : g[i] = next(i - 1)[g[i - 1]]
  BY <1>5, <1>6 DEF GoesOn
<1>8. g = Thr(g)
  <2>1. \A n \in 0 .. N : n = 0 \/ n \in 1 .. N
    BY <1>1
  <2>. QED  BY <1>7, <2>1
<1>9. thr = Thr(thr)
  BY <1>8, Zenon DEF thr
<1> DEFINE Splits(t) == \E i \in Voxels : v[i] > t
           R == {i \in 0 .. N : thr[i] \in S /\ (thr[i] = 0 \/ Splits(thr[i]))}
<1>10. 0 \in R
  BY <1>1, <1>9
<1>11. ASSUME NEW i \in 1 .. N, i - 1 \in R PROVE i \in R
  <2>1. thr[i] = next(i - 1)[thr[i - 1]]
    BY <1>1, <1>3, <1>9
  <2>2. thr[i - 1] \in S /\ (thr[i - 1] = 0 \/ Splits(thr[i - 1]))
    BY <1>11
  <2>3. thr[i] = IF BetterSplit(v, i - 1, thr[i - 1]) THEN i - 1 ELSE thr[i - 1]
    BY <2>1, <2>2
  <2>4. BetterSplit(v, i - 1, thr[i - 1]) => Splits(i - 1)
    BY DEF BetterSplit
  <2> HIDE DEF Splits
  <2>. QED  BY <1>3, <2>2, <2>3, <2>4
<1> HIDE DEF R
<1>12. \A i \in 0 .. N : i \in R
  BY <1>1, <1>10, <1>11, UpTo
<1>13. N \in R
  BY <1>1, <1>12
<1>14. Otsu(v) \in S /\ (Otsu(v) = 0 \/ Splits(Otsu(v)))
  BY <1>2, <1>13 DEF R
<1>15. ASSUME v # Blank, Otsu(v) = 0 PROVE Splits(0)
  <2>1. PICK i \in Voxels : v[i] # 0
    BY <1>15 DEF Blank
  <2>2. v[i] > 0
    BY <1>1, <2>1
  <2>. QED  BY <2>2
<1>. QED  BY <1>14, <1>15

(* A set that is connected with x stays so when a neighbour of it joins, and *)
(* so does the empty set when x joins.                                       *)
LEMMA SpreadGrows ==
  ASSUME NEW S, NEW x, NEW v, Spread(S, {x}) = S,
         v = x \/ \E n \in S : v \in ToSet(Neighbours(n))
  PROVE  Spread(S \cup {v}, {x}) = S \cup {v}
<1> DEFINE T == S \cup {v}
<1>1. SUFFICES ASSUME NEW W \in SUBSET T, Whole(W, T, {x}) PROVE \A i \in T : i \in W
  BY DEF Spread
<1>2. {x} \cap T \subseteq W /\ \A n \in W : ToSet(Neighbours(n)) \cap T \subseteq W
  BY <1>1 DEF Whole
<1>3. W \cap S \in SUBSET S /\ Whole(W \cap S, S, {x})
  BY <1>2 DEF Whole
<1>4. \A i \in S : i \in W \cap S
  BY <1>3 DEF Spread
<1>5. v \in W
  BY <1>2, <1>4
<1>. QED  BY <1>4, <1>5

(* A set that is connected with a seed is in every set that has the seeds    *)
(* and its own neighbours.                                                   *)
LEMMA SpreadWithin ==
  ASSUME NEW S, NEW M, S \subseteq M, NEW Q, NEW x \in Q, Spread(S, {x}) = S,
         NEW W, Whole(W, M, Q)
  PROVE  S \subseteq W
<1>1. W \cap S \in SUBSET S /\ Whole(W \cap S, S, {x})
  BY DEF Whole
<1>2. \A i \in S : i \in W \cap S
  BY <1>1 DEF Spread
<1>. QED  BY <1>2

(* The later of two buckets. *)
LEMMA BucketIs ==
  ASSUME NEW b \in Nat, NEW c \in Nat
  PROVE  BucketFor(b, c) \in {b, c} /\ BucketFor(b, c) >= c
<1>1. \E m \in {b, c} : \A k \in {b, c} : m >= k
  OBVIOUS
<1>2. Max({b, c}) \in {b, c} /\ \A k \in {b, c} : Max({b, c}) >= k
  BY <1>1, Zenon DEF Max
<1>. QED  BY <1>2 DEF BucketFor

(* What arrives at bucket b is what was pushed there, none before the cursor. *)
Arrived(K, next, D, near, k, c, b) ==
  /\ Arrivals(next, near, k, c, b) \in Seq(Voxels \X K)
  /\ \A e \in ToSet(Arrivals(next, near, k, c, b)) : b >= c /\ \E j \in D : e = <<next[j], k>>
  /\ \A j \in D : BucketFor(near[j], c) = b =>
       <<next[j], k>> \in ToSet(Arrivals(next, near, k, c, b))

(* What the arrivals at the neighbours of a voxel leave in the buckets.      *)
LEMMA ArrivalsAre ==
  ASSUME NEW K, NEW next \in Seq(Voxels), Len(next) <= 4, NEW D \in SUBSET DOMAIN next,
         NEW near \in [D -> 0 .. Buckets - 1], NEW k \in K,
         NEW c \in 0 .. Buckets - 1, NEW b \in 0 .. Buckets - 1
  PROVE  Arrived(K, next, D, near, k, c, b)
<1> DEFINE push(j) == IF j \in DOMAIN near /\ BucketFor(near[j], c) = b
                      THEN <<<<next[j], k>>>> ELSE <<>>
           E == Voxels \X K
<1>1. DOMAIN next = 1 .. Len(next) /\ Len(next) \in Nat /\ DOMAIN near = D
  BY LenProperties
<1>2. \A j \in D : next[j] \in Voxels /\ j \in 1 .. 4 /\ near[j] \in 0 .. Buckets - 1
  BY <1>1, ElementOfSeq
<1>3. \A j : j \in D /\ BucketFor(near[j], c) = b => ToSet(push(j)) = {<<next[j], k>>}
  BY <1>1 DEF ToSet
<1>4. \A j : ~(j \in D /\ BucketFor(near[j], c) = b) => ToSet(push(j)) = {}
  BY <1>1 DEF ToSet
<1>5. \A j : push(j) \in Seq(E)
  <2>1. ASSUME NEW j, j \in D, BucketFor(near[j], c) = b PROVE push(j) \in Seq(E)
    <3>1. push(j) = <<<<next[j], k>>>>
      BY <1>1, <2>1
    <3>2. <<next[j], k>> \in E
      BY <1>2, <2>1
    <3> DEFINE e == <<next[j], k>>
    <3> HIDE DEF e
    <3>3. <<e>> \in Seq(E)
      BY <3>2 DEF e
    <3>. QED  BY <3>1, <3>3 DEF e
  <2>2. ASSUME NEW j, ~(j \in D /\ BucketFor(near[j], c) = b) PROVE push(j) \in Seq(E)
    <3>1. push(j) = <<>>
      BY <1>1, <2>2
    <3>. QED  BY <3>1
  <2>. QED  BY <2>1, <2>2, Zenon
<1>6. Arrivals(next, near, k, c, b) = push(1) \o push(2) \o push(3) \o push(4)
  BY DEF Arrivals
<1> HIDE DEF push, E
<1> DEFINE two == push(1) \o push(2)
           three == two \o push(3)
           four == three \o push(4)
<1>7. two \in Seq(E) /\ ToSet(two) = ToSet(push(1)) \cup ToSet(push(2))
  BY <1>5, JoinIs
<1> HIDE DEF two
<1>8. three \in Seq(E) /\ ToSet(three) = ToSet(two) \cup ToSet(push(3))
  BY <1>5, <1>7, JoinIs
<1> HIDE DEF three
<1>9. four \in Seq(E) /\ ToSet(four) = ToSet(three) \cup ToSet(push(4))
  BY <1>5, <1>8, JoinIs
<1>10. ToSet(four) = UNION {ToSet(push(j)) : j \in 1 .. 4}
  <2>1. {ToSet(push(j)) : j \in 1 .. 4}
          = {ToSet(push(1)), ToSet(push(2)), ToSet(push(3)), ToSet(push(4))}
    <3>1. 1 .. 4 = {1, 2, 3, 4}
      OBVIOUS
    <3>. QED  BY <3>1
  <2>. QED  BY <1>7, <1>8, <1>9, <2>1
<1>11. Arrivals(next, near, k, c, b) = four
  BY <1>6 DEF three, two
<1> HIDE DEF four
<1>12. ASSUME NEW e \in ToSet(four) PROVE b >= c /\ \E j \in D : e = <<next[j], k>>
  <2>1. PICK j \in 1 .. 4 : e \in ToSet(push(j))
    BY <1>10
  <2>2. j \in D /\ BucketFor(near[j], c) = b
    BY <1>4, <2>1
  <2>3. near[j] \in Nat /\ c \in Nat
    BY <1>2, <2>2
  <2>4. b >= c
    BY <2>2, <2>3, BucketIs
  <2>. QED  BY <1>3, <2>1, <2>2, <2>4
<1>13. ASSUME NEW j \in D, BucketFor(near[j], c) = b PROVE <<next[j], k>> \in ToSet(four)
  <2>1. j \in 1 .. 4
    BY <1>2
  <2>2. <<next[j], k>> \in ToSet(push(j))
    BY <1>3, <1>13
  <2>. QED  BY <1>10, <2>1, <2>2
<1>. QED  BY <1>9, <1>11, <1>12, <1>13 DEF E, Arrived

(* The seeds of the flood. *)
Seeds == SeedsOf(vol, air, settings.step)

(* Pair e waits in the queue. *)
InQueue(e) == \E b \in 0 .. Buckets - 1 : e \in ToSet(buckets[b])

FloodTyped ==
  /\ label \in [Voxels -> {-1} \cup DOMAIN Seeds]
  /\ acc \in [DOMAIN Seeds -> Nat]
  /\ buckets \in [0 .. Buckets - 1 -> Seq(Voxels \X DOMAIN Seeds)]
  /\ cursor \in 0 .. Buckets - 1

(* No bucket before the cursor has an entry. *)
NoneBehind == \A b \in 0 .. Buckets - 1 : b < cursor => buckets[b] = <<>>

(* What waits is material next to its cluster, or the cluster's seed.        *)
WaitingReached ==
  \A v \in Voxels, k \in DOMAIN Seeds :
    InQueue(<<v, k>>) => /\ Material(v)
                         /\ v = Seeds[k] \/ \E n \in Members(k) : v \in ToSet(Neighbours(n))

(* A seed waits until it is in a cluster. *)
SeedsWait == \A k \in DOMAIN Seeds : label[Seeds[k]] # -1 \/ InQueue(<<Seeds[k], k>>)

(* What is in a cluster is material, and so is its neighbour or waits.       *)
Frontier ==
  \A n \in Voxels :
    label[n] # -1 =>
      /\ Material(n)
      /\ \A i \in ToSet(Neighbours(n)) :
           Material(i) => label[i] # -1 \/ \E k \in DOMAIN Seeds : InQueue(<<i, k>>)

(* A cluster is connected with its seed, and counts its voxels.              *)
Clustered ==
  \A k \in DOMAIN Seeds : /\ Spread(Members(k), {Seeds[k]}) = Members(k)
                          /\ acc[k] = Cardinality(Members(k))

(* The threshold leaves material. *)
SomeMaterial == settings.floor = 0 /\ vol # Blank => \E i \in Voxels : Material(i)

FloodInv ==
  /\ FloodTyped
  /\ NoneBehind
  /\ WaitingReached
  /\ SeedsWait
  /\ Frontier
  /\ Clustered
  /\ SomeMaterial

SegInv ==
  /\ scroll \in [Voxels -> 0 .. Brightest]
  /\ vol \in [Voxels -> 0 .. Brightest]
  /\ settings \in [step : Nat \ {0}, floor : Nat]
  /\ segThread \in {"flooding", "posted"} => FloodInv
  /\ segThread = "posted" => Queued = {}

(* A step of the flood takes the entry <<voxel, k>> out of bucket here, what  *)
(* is then in the buckets is rest, and perhaps voxel joins cluster k.        *)
Pops(here, voxel, k, rest) ==
  /\ cursor' = here
  /\ \A b \in 0 .. Buckets - 1 : b < here => rest[b] = <<>>
  /\ \A b \in 0 .. Buckets - 1 :
       ToSet(buckets[b]) = ToSet(rest[b]) \cup IF b = here THEN {<<voxel, k>>} ELSE {}
  /\ IF label[voxel] # -1
     THEN buckets' = rest /\ UNCHANGED <<label, acc>>
     ELSE /\ label' = [label EXCEPT ![voxel] = k]
          /\ acc' = [acc EXCEPT ![k] = @ + 1]
          /\ \E near \in [{j \in DOMAIN Neighbours(voxel) :
                             Floodable(Neighbours(voxel)[j])} -> 0 .. Buckets - 1] :
               buckets' = [b \in DOMAIN rest |->
                             rest[b] \o Arrivals(Neighbours(voxel), near, k, here, b)]

(* Each step of the flood takes one entry off the queue.                     *)
LEMMA FloodPops ==
  ASSUME FloodTyped, NoneBehind, Flood
  PROVE  \E here \in 0 .. Buckets - 1, voxel \in Voxels, k \in DOMAIN Seeds,
            rest \in [0 .. Buckets - 1 -> Seq(Voxels \X DOMAIN Seeds)] :
           Pops(here, voxel, k, rest)
<1> DEFINE T == {b \in Queued : b >= cursor}
           here == Min(T)
           q == buckets[here]
           voxel == Last(q)[1]
           k == Last(q)[2]
           rest == [buckets EXCEPT ![here] = Front(@)]
           E == Voxels \X DOMAIN Seeds
<1>1. buckets \in [0 .. Buckets - 1 -> Seq(E)] /\ cursor \in 0 .. Buckets - 1
  BY DEF FloodTyped
<1>2. T \in SUBSET Nat /\ T # {}
  <2>1. PICK b \in Queued : TRUE
    BY DEF Flood
  <2>2. b \in 0 .. Buckets - 1 /\ buckets[b] # <<>>
    BY DEF Queued
  <2>3. b >= cursor
    BY <1>1, <2>2 DEF NoneBehind
  <2>. QED  BY <2>1, <2>3 DEF Queued
<1>3. here \in T /\ \A b \in T : here <= b
  <2> HIDE DEF T
  <2>. QED  BY <1>2, MinIs
<1>4. here \in 0 .. Buckets - 1 /\ q # <<>> /\ cursor <= here
  <2> HIDE DEF here
  <2>. QED  BY <1>1, <1>3 DEF Queued
<1>5. \A b \in 0 .. Buckets - 1 : b < here => buckets[b] = <<>>
  <2> SUFFICES ASSUME NEW b \in 0 .. Buckets - 1, b < here, buckets[b] # <<>> PROVE FALSE
    OBVIOUS
  <2>1. b >= cursor
    BY <1>1 DEF NoneBehind
  <2>2. b \in T
    BY <2>1 DEF Queued
  <2> HIDE DEF T, here
  <2>. QED  BY <1>3, <1>4, <2>2
<1> HIDE DEF here, E
<1>6. q \in Seq(E) /\ Last(q) \in E /\ Front(q) \in Seq(E)
      /\ ToSet(q) = ToSet(Front(q)) \cup {Last(q)}
  <2>1. q \in Seq(E)
    BY <1>1, <1>4
  <2> HIDE DEF q
  <2>. QED  BY <1>4, <2>1, LastOff
<1>7. voxel \in Voxels /\ k \in DOMAIN Seeds /\ Last(q) = <<voxel, k>>
  <2> HIDE DEF q
  <2>. QED  BY <1>6 DEF E
<1>8. /\ rest \in [0 .. Buckets - 1 -> Seq(E)]
      /\ rest[here] = Front(q) /\ DOMAIN rest = 0 .. Buckets - 1
      /\ \A b \in 0 .. Buckets - 1 : b # here => rest[b] = buckets[b]
  BY <1>1, <1>4, <1>6
<1>9. \A b \in 0 .. Buckets - 1 :
        ToSet(buckets[b]) = ToSet(rest[b]) \cup IF b = here THEN {<<voxel, k>>} ELSE {}
  <2>1. ToSet(buckets[here]) = ToSet(rest[here]) \cup {<<voxel, k>>}
    BY <1>6, <1>7, <1>8
  <2> HIDE DEF rest, voxel, k, q
  <2>. QED  BY <1>8, <2>1
<1>10. cursor' = here
  BY DEF Flood, here, T
<1>11. \A b \in 0 .. Buckets - 1 : b < here => rest[b] = <<>>
  <2> HIDE DEF rest
  <2>1. \A b \in 0 .. Buckets - 1 : b < here => b # here
    BY <1>4
  <2>. QED  BY <1>5, <1>8, <2>1
<1>12. IF label[voxel] # -1
       THEN buckets' = rest /\ UNCHANGED <<label, acc>>
       ELSE /\ label' = [label EXCEPT ![voxel] = k]
            /\ acc' = [acc EXCEPT ![k] = @ + 1]
            /\ \E near \in [{j \in DOMAIN Neighbours(voxel) :
                               Floodable(Neighbours(voxel)[j])} -> 0 .. Buckets - 1] :
                 buckets' = [b \in DOMAIN rest |->
                               rest[b] \o Arrivals(Neighbours(voxel), near, k, here, b)]
  BY Zenon DEF Flood, here, T
<1> HIDE DEF rest, voxel, k, q
<1>13. Pops(here, voxel, k, rest)
  BY <1>9, <1>10, <1>11, <1>12, Zenon DEF Pops
<1>14. rest \in [0 .. Buckets - 1 -> Seq(Voxels \X DOMAIN Seeds)]
  BY <1>8 DEF E
<1>. QED  BY <1>4, <1>7, <1>13, <1>14, Zenon

(* The flood changes neither the level nor the seeds. *)
LEMMA SameSeeds ==
  ASSUME UNCHANGED <<vol, air, settings>>
  PROVE  /\ Seeds' = Seeds
         /\ \A i : Material(i)' = Material(i)
         /\ SomeMaterial => SomeMaterial'
BY DEF Seeds, Material, SomeMaterial

(* Passing over a voxel that is in a cluster. *)
LEMMA PassedOver ==
  ASSUME FloodInv, UNCHANGED <<vol, air, settings>>,
         NEW here \in 0 .. Buckets - 1, NEW voxel \in Voxels, NEW k \in DOMAIN Seeds,
         NEW rest \in [0 .. Buckets - 1 -> Seq(Voxels \X DOMAIN Seeds)],
         Pops(here, voxel, k, rest), label[voxel] # -1
  PROVE  FloodInv'
<1> USE SameSeeds
<1>1. buckets' = rest /\ label' = label /\ acc' = acc /\ cursor' = here
  BY DEF Pops
<1>2. \A e : InQueue(e)' <=> \E b \in 0 .. Buckets - 1 : e \in ToSet(rest[b])
  BY <1>1 DEF InQueue
<1>3. \A b \in 0 .. Buckets - 1 :
        ToSet(buckets[b]) = ToSet(rest[b]) \cup IF b = here THEN {<<voxel, k>>} ELSE {}
  BY DEF Pops
<1>4. \A e : InQueue(e)' => InQueue(e)
  BY <1>2, <1>3 DEF InQueue
<1>5. \A e : InQueue(e) => InQueue(e)' \/ e = <<voxel, k>>
  BY <1>2, <1>3 DEF InQueue
<1>6. \A j : Members(j)' = Members(j)
  BY <1>1 DEF Members
<1>7. FloodTyped'
  <2>1. label' \in [Voxels -> {-1} \cup DOMAIN Seeds] /\ acc' \in [DOMAIN Seeds -> Nat]
    BY <1>1 DEF FloodInv, FloodTyped
  <2>. QED  BY <1>1, <2>1 DEF FloodTyped
<1>8. NoneBehind'
  BY <1>1 DEF NoneBehind, Pops
<1>9. WaitingReached'
  BY <1>4, <1>6 DEF FloodInv, WaitingReached
<1>10. SeedsWait'
  <2>1. ASSUME NEW j \in DOMAIN Seeds PROVE label[Seeds[j]] # -1 \/ InQueue(<<Seeds[j], j>>)'
    <3>1. CASE label[Seeds[j]] # -1
      BY <3>1
    <3>2. CASE InQueue(<<Seeds[j], j>>)
      <4>1. <<Seeds[j], j>> = <<voxel, k>> => Seeds[j] = voxel
        OBVIOUS
      <4>. QED  BY <1>5, <3>2, <4>1
    <3>. QED  BY <3>1, <3>2 DEF FloodInv, SeedsWait
  <2>. QED  BY <1>1, <2>1 DEF SeedsWait
<1>11. Frontier'
  <2>1. ASSUME NEW n \in Voxels, label[n] # -1, NEW i \in ToSet(Neighbours(n)), Material(i)
        PROVE  label[i] # -1 \/ \E j \in DOMAIN Seeds : InQueue(<<i, j>>)'
    <3>1. CASE label[i] # -1
      BY <3>1
    <3>2. ASSUME NEW j \in DOMAIN Seeds, InQueue(<<i, j>>)
          PROVE  label[i] # -1 \/ InQueue(<<i, j>>)'
      <4>1. <<i, j>> = <<voxel, k>> => i = voxel
        OBVIOUS
      <4>. QED  BY <1>5, <3>2, <4>1
    <3>. QED  BY <2>1, <3>1, <3>2 DEF FloodInv, Frontier
  <2>2. \A n \in Voxels : label[n] # -1 => Material(n)
    BY DEF FloodInv, Frontier
  <2>. QED  BY <1>1, <2>1, <2>2 DEF Frontier
<1>12. Clustered'
  BY <1>1, <1>6 DEF FloodInv, Clustered
<1>. QED  BY <1>7, <1>8, <1>9, <1>10, <1>11, <1>12 DEF FloodInv

(* A voxel joins a cluster. *)
LEMMA Joined ==
  ASSUME FloodInv, UNCHANGED <<vol, air, settings>>,
         NEW here \in 0 .. Buckets - 1, NEW voxel \in Voxels, NEW k \in DOMAIN Seeds,
         NEW rest \in [0 .. Buckets - 1 -> Seq(Voxels \X DOMAIN Seeds)],
         Pops(here, voxel, k, rest), label[voxel] = -1, Seeds \in Seq(Voxels)
  PROVE  FloodInv'
<1> USE SameSeeds
<1> DEFINE next == Neighbours(voxel)
           D == {j \in DOMAIN next : Floodable(next[j])}
           new(near, b) == Arrivals(next, near, k, here, b)
           E == Voxels \X DOMAIN Seeds
<1>1. label' = [label EXCEPT ![voxel] = k] /\ acc' = [acc EXCEPT ![k] = @ + 1] /\ cursor' = here
  BY DEF Pops
<1>2. PICK near \in [D -> 0 .. Buckets - 1] :
        buckets' = [b \in 0 .. Buckets - 1 |-> rest[b] \o new(near, b)]
  BY DEF Pops
<1>3. next \in Seq(Voxels) /\ Len(next) <= 4 /\ D \in SUBSET DOMAIN next
  BY NeighboursAre
<1>t. /\ label \in [Voxels -> {-1} \cup DOMAIN Seeds] /\ acc \in [DOMAIN Seeds -> Nat]
      /\ DOMAIN Seeds \subseteq Nat \ {0}
  BY LenProperties DEF FloodInv, FloodTyped
<1>n. \A j \in D : next[j] \in Voxels /\ next[j] \in ToSet(next) /\ Floodable(next[j])
  BY <1>3, ElementOfSeq, LenProperties DEF ToSet
<1>d. \A i \in ToSet(next) : Floodable(i) => \E j \in D : i = next[j]
  BY DEF ToSet
<1> HIDE DEF next, D
<1>4. ASSUME NEW b \in 0 .. Buckets - 1
      PROVE  /\ new(near, b) \in Seq(E)
             /\ \A e \in ToSet(new(near, b)) : b >= here /\ \E j \in D : e = <<next[j], k>>
             /\ \A j \in D : BucketFor(near[j], here) = b => <<next[j], k>> \in ToSet(new(near, b))
  <2>1. Arrived(DOMAIN Seeds, next, D, near, k, here, b)
    BY <1>2, <1>3, ArrivalsAre
  <2>. QED  BY <2>1 DEF Arrived
<1> HIDE DEF new
<1>5. ASSUME NEW b \in 0 .. Buckets - 1
      PROVE  /\ buckets'[b] \in Seq(E)
             /\ ToSet(buckets'[b]) = ToSet(rest[b]) \cup ToSet(new(near, b))
  <2>1. rest[b] \in Seq(E) /\ new(near, b) \in Seq(E) /\ buckets'[b] = rest[b] \o new(near, b)
    BY <1>2, <1>4
  <2> HIDE DEF E
  <2>. QED  BY <2>1, JoinIs
<1>6. \A b \in 0 .. Buckets - 1 :
        ToSet(buckets[b]) = ToSet(rest[b]) \cup IF b = here THEN {<<voxel, k>>} ELSE {}
  BY DEF Pops
<1>7. \A e : InQueue(e) => InQueue(e)' \/ e = <<voxel, k>>
  BY <1>5, <1>6 DEF InQueue
<1>8. \A e : InQueue(e)' => InQueue(e) \/ \E j \in D : e = <<next[j], k>>
  BY <1>4, <1>5, <1>6 DEF InQueue
<1>9. \A j \in D : InQueue(<<next[j], k>>)'
  <2>1. ASSUME NEW j \in D PROVE InQueue(<<next[j], k>>)'
    <3>1. BucketFor(near[j], here) \in 0 .. Buckets - 1
      <4>1. near[j] \in 0 .. Buckets - 1
        BY <1>2
      <4>. QED  BY <4>1, BucketIs
    <3>2. <<next[j], k>> \in ToSet(buckets'[BucketFor(near[j], here)])
      BY <1>4, <1>5, <3>1
    <3>. QED  BY <3>1, <3>2 DEF InQueue
  <2>. QED  BY <2>1
<1>10. InQueue(<<voxel, k>>)
  BY <1>6 DEF InQueue
<1>11. /\ Material(voxel)
       /\ voxel = Seeds[k] \/ \E n \in Members(k) : voxel \in ToSet(Neighbours(n))
  BY <1>10 DEF FloodInv, WaitingReached
<1>12. \A i \in Voxels : label'[i] = IF i = voxel THEN k ELSE label[i]
  BY <1>1, <1>t
<1>13. k # -1 /\ voxel \notin Members(k) /\ Members(k)' = Members(k) \cup {voxel}
  <2>1. k # -1
    BY <1>t
  <2>. QED  BY <1>12, <2>1 DEF Members
<1>14. \A j \in DOMAIN Seeds : j # k => Members(j)' = Members(j)
  <2>1. \A j \in DOMAIN Seeds : j # -1
    BY <1>t
  <2>. QED  BY <1>12, <2>1 DEF Members
<1>15. FloodTyped'
  <2>1. label' \in [Voxels -> {-1} \cup DOMAIN Seeds]
    BY <1>1, <1>t
  <2>2. acc' \in [DOMAIN Seeds -> Nat]
    BY <1>1, <1>t
  <2>3. buckets' \in [0 .. Buckets - 1 -> Seq(E)]
    <3>1. \A b \in 0 .. Buckets - 1 : buckets'[b] \in Seq(E)
      BY <1>5
    <3> DEFINE B == 0 .. Buckets - 1
    <3>2. buckets' = [b \in B |-> buckets'[b]]
      BY <1>2
    <3> HIDE DEF E, B
    <3>. QED  BY <3>1, <3>2 DEF B
  <2>. QED  BY <1>1, <2>1, <2>2, <2>3 DEF FloodTyped
<1>16. NoneBehind'
  <2>1. ASSUME NEW b \in 0 .. Buckets - 1, b < here PROVE buckets'[b] = <<>>
    <3>1. rest[b] = <<>>
      BY <2>1 DEF Pops
    <3>2. ToSet(rest[b]) = {}
      BY <3>1 DEF ToSet
    <3>3. ToSet(new(near, b)) = {}
      BY <1>4, <2>1
    <3>4. ToSet(buckets'[b]) = {}
      BY <1>5, <3>2, <3>3
    <3>. QED  BY <1>5, <3>4, NothingIn
  <2>. QED  BY <1>1, <2>1 DEF NoneBehind
<1>17. WaitingReached'
  <2>1. ASSUME NEW v \in Voxels, NEW j \in DOMAIN Seeds, InQueue(<<v, j>>)'
        PROVE  /\ Material(v)
               /\ v = Seeds[j] \/ \E n \in Members(j)' : v \in ToSet(Neighbours(n))
    <3>1. Members(j) \subseteq Members(j)'
      BY <1>13, <1>14
    <3>2. ASSUME InQueue(<<v, j>>)
          PROVE  /\ Material(v)
                 /\ v = Seeds[j] \/ \E n \in Members(j)' : v \in ToSet(Neighbours(n))
      BY <3>1, <3>2 DEF FloodInv, WaitingReached
    <3>3. ASSUME NEW m \in D, <<v, j>> = <<next[m], k>>
          PROVE  /\ Material(v)
                 /\ v = Seeds[j] \/ \E n \in Members(j)' : v \in ToSet(Neighbours(n))
      <4>1. v = next[m] /\ j = k
        BY <3>3
      <4>2. Material(v) /\ v \in ToSet(next)
        BY <1>n, <4>1 DEF Floodable
      <4>3. voxel \in Members(j)'
        BY <1>13, <4>1
      <4>. QED  BY <4>2, <4>3 DEF next
    <3>. QED  BY <1>8, <2>1, <3>2, <3>3
  <2>. QED  BY <2>1 DEF WaitingReached
<1>18. \A i \in Voxels : label[i] # -1 => label'[i] # -1
  BY <1>12, <1>13
<1>19. label'[voxel] # -1
  BY <1>12, <1>13
<1>20. SeedsWait'
  <2>1. ASSUME NEW j \in DOMAIN Seeds PROVE label'[Seeds[j]] # -1 \/ InQueue(<<Seeds[j], j>>)'
    <3>1. Seeds[j] \in Voxels
      BY ElementOfSeq, LenProperties
    <3>2. CASE label[Seeds[j]] # -1
      BY <1>18, <3>1, <3>2
    <3>3. CASE InQueue(<<Seeds[j], j>>)
      <4>1. <<Seeds[j], j>> = <<voxel, k>> => Seeds[j] = voxel
        OBVIOUS
      <4>. QED  BY <1>7, <1>19, <3>3, <4>1
    <3>. QED  BY <3>2, <3>3 DEF FloodInv, SeedsWait
  <2>. QED  BY <2>1 DEF SeedsWait
<1>21. Frontier'
  <2>1. ASSUME NEW n \in Voxels, label'[n] # -1, NEW i \in ToSet(Neighbours(n)), Material(i)
        PROVE  label'[i] # -1 \/ \E j \in DOMAIN Seeds : InQueue(<<i, j>>)'
    <3>1. i \in Voxels
      BY NeighboursAre, ElementOfSeq, LenProperties DEF ToSet
    <3>2. CASE label[i] # -1
      BY <1>18, <3>1, <3>2
    <3>3. CASE label[i] = -1 /\ n = voxel
      <4>1. i \in ToSet(next) /\ Floodable(i)
        BY <2>1, <3>3 DEF next, Floodable
      <4>2. PICK j \in D : i = next[j]
        BY <1>d, <4>1
      <4>3. InQueue(<<i, k>>)'
        BY <1>9, <4>2
      <4>. QED  BY <4>3
    <3>4. CASE label[i] = -1 /\ n # voxel
      <4>1. label[n] # -1
        BY <1>12, <2>1, <3>4
      <4>2. PICK j \in DOMAIN Seeds : InQueue(<<i, j>>)
        BY <2>1, <3>4, <4>1 DEF FloodInv, Frontier
      <4>3. <<i, j>> = <<voxel, k>> => i = voxel
        OBVIOUS
      <4>. QED  BY <1>7, <1>19, <4>2, <4>3
    <3>. QED  BY <3>2, <3>3, <3>4
  <2>2. \A n \in Voxels : label'[n] # -1 => Material(n)
    BY <1>11, <1>12 DEF FloodInv, Frontier
  <2>. QED  BY <2>1, <2>2 DEF Frontier
<1>22. Clustered'
  <2>1. ASSUME NEW j \in DOMAIN Seeds
        PROVE  /\ Spread(Members(j)', {Seeds[j]}) = Members(j)'
               /\ acc'[j] = Cardinality(Members(j)')
    <3>0. Spread(Members(j), {Seeds[j]}) = Members(j) /\ acc[j] = Cardinality(Members(j))
      BY DEF FloodInv, Clustered
    <3>1. CASE j # k
      BY <1>1, <1>14, <1>t, <3>0, <3>1
    <3>2. CASE j = k
      <4>1. Spread(Members(j) \cup {voxel}, {Seeds[j]}) = Members(j) \cup {voxel}
        <5>1. Spread(Members(j), {Seeds[j]}) = Members(j)
          BY <3>0
        <5>2. voxel = Seeds[j] \/ \E n \in Members(j) : voxel \in ToSet(Neighbours(n))
          BY <1>11, <3>2
        <5>. QED  BY <5>1, <5>2, SpreadGrows, Zenon
      <4>2. IsFiniteSet(Members(k))
        BY VoxelsAre, FS_Subset DEF Members
      <4>3. Cardinality(Members(k) \cup {voxel}) = Cardinality(Members(k)) + 1
        BY <1>13, <4>2, FS_AddElement
      <4>4. acc'[k] = acc[k] + 1
        BY <1>1, <1>t
      <4>. QED  BY <1>13, <3>0, <3>2, <4>1, <4>3, <4>4
    <3>. QED  BY <3>1, <3>2
  <2>. QED  BY <2>1 DEF Clustered
<1>. QED  BY <1>15, <1>16, <1>17, <1>20, <1>21, <1>22 DEF FloodInv

(* The seeds are material. *)
LEMMA SeedsAreMaterial ==
  ASSUME vol \in [Voxels -> 0 .. Brightest]
  PROVE  /\ Seeds \in Seq(Voxels)
         /\ \A k \in DOMAIN Seeds : Seeds[k] \in Voxels /\ Material(Seeds[k])
<1>1. vol \in [Voxels -> Int]
  BY SegAssumption DEF SegAssumption
<1>2. Seeds \in Seq({i \in Voxels : vol[i] > air})
  BY <1>1, SeedsAre DEF Seeds
<1>3. \A k \in DOMAIN Seeds : Seeds[k] \in {i \in Voxels : vol[i] > air}
  BY <1>2, ElementOfSeq, LenProperties
<1>. QED  BY <1>2, <1>3 DEF Material

(* The flood starts with its seeds. *)
LEMMA FloodStarts ==
  ASSUME SegInv, Seed
  PROVE  FloodInv'
<1> DEFINE s == Seeds'
           K == DOMAIN s
           first == [k \in K |-> <<s[k], k>>]
<1>1. vol' = vol /\ settings' = settings /\ vol \in [Voxels -> 0 .. Brightest]
      /\ settings \in [step : Nat \ {0}, floor : Nat]
  BY DEF Seed, SegInv
<1>3. s = SeedsOf(vol, air', settings.step)
  BY <1>1 DEF Seeds
<1>2. s \in Seq(Voxels) /\ \A k \in K : s[k] \in Voxels /\ vol[s[k]] > air'
  <2> DEFINE T == {i \in Voxels : vol[i] > air'}
  <2>1. vol \in [Voxels -> Int]
    BY <1>1, SegAssumption DEF SegAssumption
  <2>2. s \in Seq(T)
    BY <1>3, <2>1, SeedsAre
  <2>3. \A k \in K : s[k] \in T
    <3> HIDE DEF T, s
    <3>. QED  BY <2>2, ElementOfSeq, LenProperties
  <2>. QED  BY <2>2, <2>3
<1>4. /\ label' = Unlabeled /\ cursor' = 0
      /\ acc' = [k \in K |-> 0]
      /\ buckets' = [NoBuckets EXCEPT ![0] = first]
      /\ air' = IF settings.floor > 0 THEN settings.floor ELSE Otsu(vol)
  BY <1>3 DEF Seed
<1> HIDE DEF s
<1>5. K \subseteq Nat \ {0} /\ Len(s) \in Nat /\ K = 1 .. Len(s)
  BY <1>2, LenProperties
<1>6. 0 \in 0 .. Buckets - 1
  BY SegAssumption DEF SegAssumption
<1> DEFINE E == Voxels \X K
<1>7. first \in Seq(E)
  <2>1. \A k \in K : <<s[k], k>> \in E
    BY <1>2
  <2> HIDE DEF E
  <2>. QED  BY <1>5, <2>1
<1>8. ToSet(first) = {<<s[k], k>> : k \in K}
  BY DEF ToSet
<1> HIDE DEF first, K
<1>9. /\ buckets' \in [0 .. Buckets - 1 -> Seq(E)]
      /\ buckets'[0] = first
      /\ \A b \in 0 .. Buckets - 1 : b # 0 => buckets'[b] = <<>>
  <2> DEFINE B == 0 .. Buckets - 1
  <2>1. buckets' = [b \in B |-> IF b = 0 THEN first ELSE <<>>]
    BY <1>4, <1>6 DEF NoBuckets
  <2>2. <<>> \in Seq(E)
    OBVIOUS
  <2> HIDE DEF B, E
  <2>. QED  BY <1>6, <1>7, <2>1, <2>2 DEF B
<1>10. \A e : InQueue(e)' <=> \E k \in K : e = <<s[k], k>>
  <2>1. \A b \in 0 .. Buckets - 1 : b # 0 => ToSet(buckets'[b]) = {}
    BY <1>9 DEF ToSet
  <2>. QED  BY <1>6, <1>8, <1>9, <2>1 DEF InQueue
<1>11. \A v \in Voxels : label'[v] = -1
  BY <1>4 DEF Unlabeled
<1>12. \A k \in K : Members(k)' = {}
  BY <1>5, <1>11 DEF Members
<1>13. FloodTyped'
  <2>1. label' \in [Voxels -> {-1} \cup K] /\ acc' \in [K -> Nat]
    BY <1>4 DEF Unlabeled
  <2>. QED  BY <1>4, <1>6, <1>9, <2>1 DEF FloodTyped, K, s
<1>14. NoneBehind'
  BY <1>4 DEF NoneBehind
<1>15. WaitingReached'
  <2>1. \A v \in Voxels, j \in K : InQueue(<<v, j>>)' => Material(v)' /\ v = s[j]
    <3>1. ASSUME NEW v \in Voxels, NEW j \in K, InQueue(<<v, j>>)' PROVE Material(v)' /\ v = s[j]
      <4>1. PICK k \in K : <<v, j>> = <<s[k], k>>
        BY <1>10, <3>1
      <4>2. v = s[k] /\ j = k
        BY <4>1
      <4>3. vol'[v] > air'
        BY <1>1, <1>2, <4>2 DEF K
      <4>. QED  BY <4>2, <4>3 DEF Material
    <3>. QED  BY <3>1
  <2>. QED  BY <2>1 DEF WaitingReached, K, s
<1>16. SeedsWait'
  <2>1. \A k \in K : <<s[k], k>> \in ToSet(buckets'[0])
    BY <1>8, <1>9
  <2>. QED  BY <1>6, <2>1 DEF SeedsWait, InQueue, K, s
<1>17. Frontier'
  BY <1>11 DEF Frontier
<1>18. Clustered'
  <2>1. \A x : Spread({}, {x}) = {}
    BY DEF Spread
  <2>2. Cardinality({}) = 0
    BY FS_EmptySet
  <2>3. \A k \in K : acc'[k] = 0
    BY <1>4
  <2>. QED  BY <1>12, <2>1, <2>2, <2>3 DEF Clustered, K, s
<1>19. SomeMaterial'
  BY <1>1, <1>4, OtsuIs DEF SomeMaterial, Material
<1>. QED  BY <1>13, <1>14, <1>15, <1>16, <1>17, <1>18, <1>19 DEF FloodInv

(* A step of the flood. *)
LEMMA FloodGoesOn ==
  ASSUME SegInv, Flood
  PROVE  FloodInv'
<1>1. FloodInv /\ UNCHANGED <<vol, air, settings>> /\ vol \in [Voxels -> 0 .. Brightest]
  BY DEF SegInv, Flood
<1>2. Seeds \in Seq(Voxels)
  BY <1>1, SeedsAreMaterial
<1>3. PICK here \in 0 .. Buckets - 1, voxel \in Voxels, k \in DOMAIN Seeds,
           rest \in [0 .. Buckets - 1 -> Seq(Voxels \X DOMAIN Seeds)] :
        Pops(here, voxel, k, rest)
  BY <1>1, FloodPops, Zenon DEF FloodInv
<1>4. CASE label[voxel] # -1
  BY <1>1, <1>3, <1>4, PassedOver
<1>5. CASE label[voxel] = -1
  BY <1>1, <1>2, <1>3, <1>5, Joined
<1>. QED  BY <1>4, <1>5

(* The flood, when nothing of it changes. *)
LEMMA FloodRests ==
  ASSUME FloodInv, UNCHANGED <<vol, air, settings, label, acc, buckets, cursor>>
  PROVE  FloodInv' /\ (Queued = {} => Queued' = {})
<1>1. Seeds' = Seeds /\ \A e : InQueue(e)' = InQueue(e) /\ Members(e)' = Members(e)
  BY DEF Seeds, InQueue, Members
<1>2. FloodTyped' /\ NoneBehind' /\ WaitingReached' /\ SeedsWait'
  BY <1>1 DEF FloodInv, FloodTyped, NoneBehind, WaitingReached, SeedsWait, Material
<1>3. Frontier' /\ Clustered' /\ SomeMaterial'
  BY <1>1 DEF FloodInv, Frontier, Clustered, SomeMaterial, Material
<1>. QED  BY <1>2, <1>3 DEF FloodInv, Queued

(* The invariant is inductive. *)
LEMMA SegSteps ==
  ASSUME SegInv, [SegNext]_segVars
  PROVE  SegInv'
<1>0. /\ scroll \in [Voxels -> 0 .. Brightest]
      /\ vol \in [Voxels -> 0 .. Brightest]
      /\ settings \in [step : Nat \ {0}, floor : Nat]
  BY DEF SegInv
<1>1. CASE RunSegmentation
  <2>1. scroll' \in [Voxels -> 0 .. Brightest]
    BY <1>0, <1>1, SegAssumption DEF RunSegmentation, SegAssumption
  <2>2. vol' \in [Voxels -> 0 .. Brightest]
    BY <1>1, SegAssumption DEF RunSegmentation, SegAssumption, Blank
  <2>3. settings' \in [step : Nat \ {0}, floor : Nat]
    BY <1>1, SegAssumption DEF RunSegmentation, SegAssumption
  <2>4. segThread' = "reading"
    BY <1>1 DEF RunSegmentation
  <2>. QED  BY <2>1, <2>2, <2>3, <2>4 DEF SegInv
<1>2. CASE ReadChunk
  <2>1. vol' \in [Voxels -> 0 .. Brightest]
    BY <1>0, <1>2 DEF ReadChunk
  <2>2. segThread' = "reading" /\ scroll' = scroll /\ settings' = settings
    BY <1>2 DEF ReadChunk
  <2>. QED  BY <1>0, <2>1, <2>2 DEF SegInv
<1>3. CASE Seed
  <2>1. FloodInv'
    BY <1>3, FloodStarts
  <2>2. segThread' = "flooding" /\ scroll' = scroll /\ settings' = settings /\ vol' = vol
    BY <1>3 DEF Seed
  <2>. QED  BY <1>0, <2>1, <2>2 DEF SegInv
<1>4. CASE Flood
  <2>1. FloodInv'
    BY <1>4, FloodGoesOn
  <2>2. segThread' = "flooding" /\ scroll' = scroll /\ settings' = settings /\ vol' = vol
    BY <1>4 DEF Flood
  <2>. QED  BY <1>0, <2>1, <2>2 DEF SegInv
<1>5. CASE PostClusters
  <2>1. FloodInv' /\ Queued' = {}
    BY <1>5, FloodRests DEF PostClusters, SegInv
  <2>2. scroll' = scroll /\ settings' = settings /\ vol' = vol
    BY <1>5 DEF PostClusters
  <2>. QED  BY <1>0, <2>1, <2>2 DEF SegInv
<1>6. CASE ShowClusters
  <2>1. segThread' = "none" /\ scroll' = scroll /\ settings' = settings /\ vol' = vol
    BY <1>6 DEF ShowClusters
  <2>. QED  BY <1>0, <2>1 DEF SegInv
<1>7. CASE UNCHANGED segVars
  <2>1. scroll' = scroll /\ settings' = settings /\ vol' = vol /\ segThread' = segThread
        /\ UNCHANGED <<air, label, acc, buckets, cursor>>
    BY <1>7 DEF segVars
  <2>2. FloodInv => FloodInv' /\ (Queued = {} => Queued' = {})
    BY <2>1, FloodRests
  <2>. QED  BY <1>0, <2>1, <2>2 DEF SegInv
<1>. QED  BY <1>1, <1>2, <1>3, <1>4, <1>5, <1>6, <1>7 DEF SegNext, SegWork

(* What the invariant says of the end of a flood. *)
LEMMA FloodEnds ==
  ASSUME SegInv
  PROVE  SnicPartition
<1>1. ASSUME segThread = "flooding" PROVE \A b \in Queued : b >= cursor
  <2>1. cursor \in 0 .. Buckets - 1 /\ NoneBehind
    BY <1>1 DEF SegInv, FloodInv, FloodTyped
  <2>. QED  BY <2>1 DEF NoneBehind, Queued
<1>2. ASSUME segThread = "posted"
      PROVE LET material == {i \in Voxels : Material(i)}
            IN /\ {i \in Voxels : label[i] # -1} = Spread(material, ToSet(Seeds))
               /\ \A k \in DOMAIN Seeds :
                    /\ Spread(Members(k), {Seeds[k]}) = Members(k)
                    /\ acc[k] = Cardinality(Members(k))
               /\ settings.floor = 0 /\ vol # Blank => material # {}
  <2> DEFINE M == {i \in Voxels : Material(i)}
             L == {i \in Voxels : label[i] # -1}
             Q == ToSet(Seeds)
  <2>1. FloodInv /\ Queued = {} /\ vol \in [Voxels -> 0 .. Brightest]
    BY <1>2 DEF SegInv
  <2>2. \A e : ~InQueue(e)
    BY <2>1 DEF InQueue, Queued, ToSet
  <2>3. Seeds \in Seq(Voxels) /\ \A k \in DOMAIN Seeds : Seeds[k] \in Voxels
    BY <2>1, SeedsAreMaterial
  <2>4. L \in SUBSET M
    BY <2>1 DEF FloodInv, Frontier
  <2>5. Whole(L, M, Q)
    <3>1. Q \cap M \subseteq L
      BY <2>1, <2>2, <2>3 DEF FloodInv, SeedsWait, ToSet
    <3>2. \A n \in L : ToSet(Neighbours(n)) \cap M \subseteq L
      BY <2>1, <2>2 DEF FloodInv, Frontier
    <3>. QED  BY <3>1, <3>2 DEF Whole
  <2>6. ASSUME NEW W \in SUBSET M, Whole(W, M, Q) PROVE L \subseteq W
    <3>1. ASSUME NEW i \in L PROVE i \in W
      <4>1. label[i] \in DOMAIN Seeds
        BY <2>1 DEF FloodInv, FloodTyped
      <4>2. PICK k \in DOMAIN Seeds : k = label[i]
        BY <4>1
      <4>3. Members(k) \subseteq M
        <5>1. \A j \in Members(k) : j \in L
          BY <2>1, <3>1, <4>2 DEF Members
        <5> HIDE DEF L, M
        <5>. QED  BY <2>4, <5>1
      <4>4. Spread(Members(k), {Seeds[k]}) = Members(k)
        BY <2>1 DEF FloodInv, Clustered
      <4>5. Seeds[k] \in Q
        BY DEF ToSet
      <4>6. i \in Members(k)
        BY <4>2 DEF Members
      <4> HIDE DEF L, M, Q
      <4>7. Members(k) \subseteq W
        BY <2>6, <4>3, <4>4, <4>5, SpreadWithin
      <4>. QED  BY <4>6, <4>7
    <3>. QED  BY <3>1
  <2>7. L = Spread(M, Q)
    <3> HIDE DEF L, M, Q
    <3>. QED  BY <2>4, <2>5, <2>6 DEF Spread
  <2>8. \A k \in DOMAIN Seeds : /\ Spread(Members(k), {Seeds[k]}) = Members(k)
                                /\ acc[k] = Cardinality(Members(k))
    BY <2>1 DEF FloodInv, Clustered
  <2>9. settings.floor = 0 /\ vol # Blank => M # {}
    BY <2>1 DEF FloodInv, SomeMaterial
  <2>. QED  BY <2>7, <2>8, <2>9
<1>. QED  BY <1>1, <1>2 DEF SnicPartition, Seeds

(* Nothing is segmented at first.                                            *)
LEMMA SegStarts == SegInit => SegInv
<1> SUFFICES ASSUME SegInit PROVE SegInv
  OBVIOUS
<1>1. scroll = Blank /\ vol = Blank /\ settings = [step |-> 2, floor |-> 0] /\ segThread = "none"
  BY DEF SegInit
<1>2. Blank \in [Voxels -> 0 .. Brightest]
  BY SegAssumption DEF SegAssumption, Blank
<1>. QED  BY <1>1, <1>2 DEF SegInv

(* Every label and every entry of the queue names a cluster, at all times.   *)
LEMMA LabelsTyped ==
  ASSUME SegTypeOK, SegInv, SegInv', [SegNext]_segVars
  PROVE  /\ acc' \in Seq(Nat)
         /\ label' \in [Voxels -> {-1} \cup DOMAIN acc']
         /\ buckets' \in [0 .. Buckets - 1 -> Seq(Voxels \X DOMAIN acc')]
         /\ cursor' \in 0 .. Buckets - 1
<1>1. CASE UNCHANGED <<label, acc, buckets, cursor>>
  BY <1>1 DEF SegTypeOK
<1>2. CASE Seed \/ Flood
  <2>1. segThread' = "flooding"
    BY <1>2 DEF Seed, Flood
  <2>2. FloodTyped' /\ vol' \in [Voxels -> 0 .. Brightest]
    BY <2>1 DEF SegInv, FloodInv
  <2>3. Seeds' \in Seq(Voxels)
    <3>1. vol' \in [Voxels -> Int]
      BY <2>2, SegAssumption DEF SegAssumption
    <3>2. Seeds' \in Seq({i \in Voxels : vol'[i] > air'})
      BY <3>1, SeedsAre DEF Seeds
    <3>. QED  BY <3>2
  <2>4. DOMAIN Seeds' = 1 .. Len(Seeds') /\ Len(Seeds') \in Nat
    BY <2>3, LenProperties
  <2>5. acc' \in [DOMAIN Seeds' -> Nat] /\ DOMAIN acc' = DOMAIN Seeds'
    BY <2>2 DEF FloodTyped
  <2>6. acc' \in Seq(Nat)
    BY <2>4, <2>5
  <2>. QED  BY <2>2, <2>5, <2>6 DEF FloodTyped
<1>. QED  BY <1>1, <1>2 DEF SegNext, SegWork, RunSegmentation, ReadChunk, PostClusters,
             ShowClusters, segVars

(* The segmentation's state stays in its type.                               *)
LEMMA SegTypeSteps ==
  ASSUME SegTypeOK, SegInv, SegInv', [SegNext]_segVars
  PROVE  SegTypeOK'
<1>1. /\ acc' \in Seq(Nat)
      /\ label' \in [Voxels -> {-1} \cup DOMAIN acc']
      /\ buckets' \in [0 .. Buckets - 1 -> Seq(Voxels \X DOMAIN acc')]
      /\ cursor' \in 0 .. Buckets - 1
  BY LabelsTyped
<1>2. /\ scroll' \in [Voxels -> 0 .. Brightest]
      /\ vol' \in [Voxels -> 0 .. Brightest]
      /\ settings' \in [step : Nat \ {0}, floor : Nat]
  BY DEF SegInv
<1>3. /\ segThread' \in {"none", "reading", "flooding", "posted"}
      /\ clicks' \in Nat
  <2>1. clicks \in Nat /\ segThread \in {"none", "reading", "flooding", "posted"}
    BY DEF SegTypeOK
  <2>2. CASE RunSegmentation
    BY <2>1, <2>2 DEF RunSegmentation
  <2>3. CASE ~RunSegmentation
    <3>1. UNCHANGED clicks
      BY <2>3 DEF SegNext, SegWork, ReadChunk, Seed, Flood, PostClusters, ShowClusters,
                  segVars
    <3>2. segThread' = segThread \/ segThread' \in {"none", "flooding", "posted"}
      BY <2>3 DEF SegNext, SegWork, ReadChunk, Seed, Flood, PostClusters, ShowClusters,
                  segVars
    <3>. QED  BY <2>1, <3>1, <3>2
  <2>. QED  BY <2>2, <2>3
<1>4. segRunning' \in BOOLEAN /\ enabled' \in BOOLEAN
  <2>1. segRunning \in BOOLEAN /\ enabled \in BOOLEAN
    BY DEF SegTypeOK
  <2>2. CASE UNCHANGED <<segRunning, enabled>>
    BY <2>1, <2>2
  <2>3. CASE RunSegmentation \/ ShowClusters
    BY <2>3 DEF RunSegmentation, ShowClusters
  <2>. QED  BY <2>2, <2>3 DEF SegNext, SegWork, ReadChunk, Seed, Flood, PostClusters, segVars
<1>5. nextChunk' \in 0 .. Chunks
  <2>1. Chunks \in Nat
    BY SegAssumption DEF SegAssumption, Chunks
  <2>2. CASE RunSegmentation
    BY <2>1, <2>2 DEF RunSegmentation
  <2>3. CASE ReadChunk
    BY <2>1, <2>3 DEF ReadChunk, SegTypeOK
  <2>4. CASE UNCHANGED nextChunk
    BY <2>4 DEF SegTypeOK
  <2>. QED  BY <2>2, <2>3, <2>4 DEF SegNext, SegWork, Seed, Flood, PostClusters,
               ShowClusters, segVars
<1>6. air' \in Nat
  <2>1. CASE Seed
    <3>1. Otsu(vol) \in 0 .. Brightest /\ settings.floor \in Nat
      BY OtsuIs DEF SegTypeOK
    <3>. QED  BY <2>1, <3>1, SegAssumption DEF Seed, SegAssumption
  <2>2. CASE ~Seed
    BY <2>2 DEF SegTypeOK, SegNext, SegWork, RunSegmentation, ReadChunk, Flood, PostClusters,
                ShowClusters, segVars
  <2>. QED  BY <2>1, <2>2
<1>7. \A k \in DOMAIN spheres' : spheres'[k] \in Nat
  <2>1. CASE ShowClusters
    <3>1. acc \in Seq(Nat)
      BY DEF SegTypeOK
    <3>2. \A k \in DOMAIN acc : acc[k] \in Nat
      BY <3>1
    <3>. QED  BY <2>1, <3>2 DEF ShowClusters, Restrict
  <2>2. CASE UNCHANGED spheres
    BY <2>2 DEF SegTypeOK
  <2>. QED  BY <2>1, <2>2 DEF SegNext, SegWork, RunSegmentation, ReadChunk, Seed, Flood,
               PostClusters, segVars
<1>. QED  BY <1>1, <1>2, <1>3, <1>4, <1>5, <1>6, <1>7 DEF SegTypeOK

(* In every state of a segmentation, from the click to the clusters shown,   *)
(* labels and queue entries name clusters and the cursor a bucket.           *)
THEOREM FloodTypeCorrect == SegSpec => []SegTypeOK
<1>1. SegInit => SegInv
  BY SegStarts
<1>2. SegInit => SegTypeOK
  <2> SUFFICES ASSUME SegInit PROVE SegTypeOK
    OBVIOUS
  <2>1. Blank \in [Voxels -> 0 .. Brightest] /\ Chunks \in Nat /\ 0 \in 0 .. Buckets - 1
    BY SegAssumption DEF SegAssumption, Blank, Chunks
  <2>2. /\ acc \in Seq(Nat) /\ cursor \in 0 .. Buckets - 1
        /\ \A k \in DOMAIN spheres : spheres[k] \in Nat
    BY <2>1 DEF SegInit
  <2>3. label \in [Voxels -> {-1} \cup DOMAIN acc]
    BY DEF SegInit, Unlabeled
  <2>4. buckets \in [0 .. Buckets - 1 -> Seq(Voxels \X DOMAIN acc)]
    BY DEF SegInit, NoBuckets
  <2>5. {segRunning, enabled} \subseteq BOOLEAN
    BY DEF SegInit
  <2>6. settings \in [step : Nat \ {0}, floor : Nat]
    BY DEF SegInit
  <2>7. /\ scroll \in [Voxels -> 0 .. Brightest] /\ vol \in [Voxels -> 0 .. Brightest]
        /\ nextChunk \in 0 .. Chunks
        /\ segThread \in {"none", "reading", "flooding", "posted"}
        /\ air \in Nat /\ clicks \in Nat
    BY <2>1 DEF SegInit
  <2>. QED  BY <2>2, <2>3, <2>4, <2>5, <2>6, <2>7 DEF SegTypeOK
<1>3. SegInv /\ SegTypeOK /\ [SegNext]_segVars => SegInv' /\ SegTypeOK'
  BY SegSteps, SegTypeSteps
<1>. QED  BY <1>1, <1>2, <1>3, PTL DEF SegSpec

(* When SNIC (Snic3D.cpp) has posted its clusters, every voxel of material   *)
(* that a seed reaches is in exactly one of them and no other voxel is, and  *)
(* each is connected with its seed and has as many voxels as it counted.     *)
THEOREM FloodIsExact == SegSpec => []SnicPartition
<1>1. SegInit => SegInv
  BY SegStarts
<1>2. SegInv /\ [SegNext]_segVars => SegInv'
  BY SegSteps
<1>3. SegInv => SnicPartition
  BY FloodEnds
<1>. QED  BY <1>1, <1>2, <1>3, PTL DEF SegSpec

-----------------------------------------------------------------------------
(* The window's pool of threads. *)

(* AnswersAccounted: the main thread counts down answers that jobs of the    *)
(* pool owe it, and a job may pass its answer on to the remote, or be        *)
(* destroyed with the pool before it ran.  Each answer awaited is owed by    *)
(* one queued or running job, or by the remote, and none is owed twice, so   *)
(* that no wait is for nothing and none ends too early.                      *)
Owes(job)   == job.kind \in {"read", "band"}
QueuedOwing == {i \in DOMAIN jobs : Owes(jobs[i])}
BusyOwing   == {w \in PoolWorkers : Owes(busy[w])}

AnswersAccounted ==
  /\ IsFiniteSet(BusyOwing)
  /\ owed = Cardinality(QueuedOwing) + Cardinality(BusyOwing) + forwarded

(* What the steps keep besides.                                              *)
LifetimeInv ==
  /\ PoolTypeOK
  /\ AnswersAccounted
  /\ joiner = "main" => owed = 0
  /\ joiner = "worker" => crashed

(* Jobs of the queue that owe an answer, when more are posted. *)
OwingIn(q) == {i \in DOMAIN q : Owes(q[i])}

(* The jobs of a queue that owe an answer can be counted.                    *)
LEMMA OwingInIs ==
  ASSUME NEW q \in Seq(JobType)
  PROVE  /\ DOMAIN q = 1 .. Len(q) /\ Len(q) \in Nat
         /\ IsFiniteSet(OwingIn(q))
         /\ Cardinality(OwingIn(q)) \in Nat
         /\ Cardinality(OwingIn(q)) = 0 <=> OwingIn(q) = {}
<1>1. DOMAIN q = 1 .. Len(q) /\ Len(q) \in Nat
  BY LenProperties
<1>2. IsFiniteSet(1 .. Len(q))
  BY <1>1, FS_Interval
<1>3. OwingIn(q) \in SUBSET (1 .. Len(q))
  BY <1>1 DEF OwingIn
<1>4. IsFiniteSet(OwingIn(q))
  BY <1>2, <1>3, FS_Subset
<1>. QED  BY <1>1, <1>4, FS_CardinalityType, FS_EmptySet

(* The jobs posted come after the others. *)
LEMMA PostedIs ==
  ASSUME NEW q \in Seq(JobType), NEW t \in Seq(JobType)
  PROVE  /\ q \o t \in Seq(JobType)
         /\ \A i : i \in OwingIn(q \o t) <=>
                    \/ i \in OwingIn(q)
                    \/ i \in 1 + Len(q) .. Len(t) + Len(q) /\ Owes(t[i - Len(q)])
<1> DEFINE u == q \o t
           m == Len(q)
           n == Len(t)
<1>1. u \in Seq(JobType) /\ Len(u) = m + n /\ m \in Nat /\ n \in Nat
      /\ \A i \in 1 .. m + n : u[i] = IF i <= m THEN q[i] ELSE t[i - m]
  BY ConcatProperties, LenProperties
<1>2. DOMAIN u = 1 .. m + n /\ DOMAIN q = 1 .. m
  BY <1>1, LenProperties
<1> HIDE DEF u, m, n
<1>3. \A i : i \in 1 .. m + n <=> i \in 1 .. m \/ i \in 1 + m .. n + m
  BY <1>1
<1>4. \A i \in 1 .. m : u[i] = q[i]
  BY <1>1
<1>5. \A i \in 1 + m .. n + m : u[i] = t[i - m] /\ i \notin 1 .. m
  BY <1>1
<1>6. \A i : i \in OwingIn(u) <=> i \in OwingIn(q) \/ (i \in 1 + m .. n + m /\ Owes(t[i - m]))
  BY <1>2, <1>3, <1>4, <1>5 DEF OwingIn
<1>. QED  BY <1>1, <1>6 DEF u, m, n

(* Taking the first job. *)
LEMMA TakenIs ==
  ASSUME NEW q \in Seq(JobType), q # <<>>
  PROVE  /\ Tail(q) \in Seq(JobType) /\ Head(q) \in JobType
         /\ Cardinality(OwingIn(q)) = Cardinality(OwingIn(Tail(q))) + IF Owes(Head(q)) THEN 1 ELSE 0
<1> DEFINE t == Tail(q)
           S == OwingIn(q) \ {1}
           T == OwingIn(t)
           f == [i \in T |-> i + 1]
<1>1. t \in Seq(JobType) /\ Head(q) \in JobType /\ Len(t) = Len(q) - 1
      /\ \A i \in 1 .. Len(t) : t[i] = q[i + 1]
  BY HeadTailProperties
<1>2. DOMAIN q = 1 .. Len(q) /\ Len(q) \in Nat /\ DOMAIN t = 1 .. Len(t) /\ Len(t) \in Nat
  BY <1>1, LenProperties
<1>3. Head(q) = q[1] /\ 1 \in DOMAIN q
  BY <1>1, <1>2
<1> HIDE DEF t
<1>4. \A i \in T : i + 1 \in S
  BY <1>1, <1>2 DEF OwingIn
<1>5. \A j \in S : j - 1 \in T /\ (j - 1) + 1 = j
  <2>1. ASSUME NEW j \in S PROVE j - 1 \in T /\ (j - 1) + 1 = j
    <3>1. j \in 1 .. Len(q) /\ j # 1 /\ Owes(q[j])
      BY <1>2 DEF OwingIn
    <3>2. j - 1 \in 1 .. Len(t) /\ (j - 1) + 1 = j
      BY <1>1, <1>2, <3>1
    <3>3. t[j - 1] = q[j]
      BY <1>1, <3>2
    <3>. QED  BY <1>2, <3>1, <3>2, <3>3 DEF OwingIn
  <2>. QED  BY <2>1
<1>6. T \subseteq Nat
  BY <1>2 DEF OwingIn
<1> HIDE DEF S, T
<1>7. f \in Bijection(T, S)
  <2>1. f \in [T -> S]
    BY <1>4
  <2>2. \A i, j \in T : f[i] = f[j] => i = j
    BY <1>6
  <2>3. \A j \in S : \E i \in T : f[i] = j
    BY <1>5
  <2>. QED  BY <2>1, <2>2, <2>3 DEF Bijection, Injection, Surjection, IsInjective
<1>8. /\ IsFiniteSet(T) /\ IsFiniteSet(OwingIn(q))
      /\ Cardinality(T) \in Nat /\ Cardinality(OwingIn(q)) \in Nat
  BY <1>1, OwingInIs DEF T
<1>9. Cardinality(S) = Cardinality(T)
  BY <1>7, <1>8, FS_Bijection DEF ExistsBijection
<1>10. Cardinality(S) = IF 1 \in OwingIn(q) THEN Cardinality(OwingIn(q)) - 1
                        ELSE Cardinality(OwingIn(q))
  BY <1>8, FS_RemoveElement DEF S
<1>11. 1 \in OwingIn(q) <=> Owes(Head(q))
  BY <1>3 DEF OwingIn
<1>. QED  BY <1>1, <1>8, <1>9, <1>10, <1>11 DEF T, t

(* Posting jobs that owe nothing, and jobs that owe an answer when none did. *)
LEMMA PostedCounts ==
  ASSUME NEW q \in Seq(JobType), NEW t \in Seq(JobType)
  PROVE  /\ (\A i \in 1 .. Len(t) : ~Owes(t[i])) => OwingIn(q \o t) = OwingIn(q)
         /\ OwingIn(q) = {} /\ (\A i \in 1 .. Len(t) : Owes(t[i]))
              => Cardinality(OwingIn(q \o t)) = Len(t)
<1> DEFINE m == Len(q)
           n == Len(t)
           u == q \o t
<1>1. \A i : i \in OwingIn(u) <=> i \in OwingIn(q) \/ (i \in 1 + m .. n + m /\ Owes(t[i - m]))
  BY PostedIs
<1>2. m \in Nat /\ n \in Nat
  BY LenProperties
<1> HIDE DEF m, n, u
<1>3. \A i \in 1 + m .. n + m : i - m \in 1 .. n
  BY <1>2
<1>4. (\A i \in 1 .. n : ~Owes(t[i])) => OwingIn(u) = OwingIn(q)
  BY <1>1, <1>3
<1>5. ASSUME OwingIn(q) = {}, \A i \in 1 .. n : Owes(t[i]) PROVE Cardinality(OwingIn(u)) = n
  <2>1. OwingIn(u) = 1 + m .. n + m
    BY <1>1, <1>3, <1>5
  <2>2. Cardinality(1 + m .. n + m) = n
    <3>1. Cardinality(1 + m .. n + m)
            = IF 1 + m > n + m THEN 0 ELSE (n + m) - (1 + m) + 1
      BY <1>2, FS_Interval
    <3>. QED  BY <1>2, <3>1
  <2>. QED  BY <2>1, <2>2
<1>. QED  BY <1>4, <1>5 DEF u, n

(* What the invariant says of a moment when the main thread waits for none.  *)
LEMMA NoneOwed ==
  ASSUME LifetimeInv, owed = 0
  PROVE  OwingIn(jobs) = {} /\ BusyOwing = {} /\ forwarded = 0
<1>1. jobs \in Seq(JobType) /\ forwarded \in Nat
  BY DEF LifetimeInv, PoolTypeOK
<1>2. Cardinality(BusyOwing) \in Nat /\ (Cardinality(BusyOwing) = 0 <=> BusyOwing = {})
  BY FS_CardinalityType, FS_EmptySet DEF LifetimeInv, AnswersAccounted
<1>3. Cardinality(OwingIn(jobs)) \in Nat /\ (Cardinality(OwingIn(jobs)) = 0 <=> OwingIn(jobs) = {})
  BY <1>1, OwingInIs
<1>4. 0 = Cardinality(OwingIn(jobs)) + Cardinality(BusyOwing) + forwarded
  BY DEF LifetimeInv, AnswersAccounted, QueuedOwing, OwingIn
<1>. QED  BY <1>1, <1>2, <1>3, <1>4

(* At first nothing is owed.                                                 *)
LEMMA LifetimeStarts == LifetimeInit => LifetimeInv
<1> SUFFICES ASSUME LifetimeInit PROVE LifetimeInv
  OBVIOUS
<1>1. PoolTypeOK
  <2>1. busy \in [PoolWorkers -> JobType \cup {Asleep, Ended}]
    BY DEF LifetimeInit
  <2>2. remote \subseteq Stores /\ members \subseteq Stores \cup {"ioPool"}
        /\ jobs \in Seq(JobType)
    BY DEF LifetimeInit
  <2>3. forwarded \in Nat /\ owed \in Nat /\ joiner \in {"nobody", "main", "worker"}
        /\ crashed \in BOOLEAN
    BY DEF LifetimeInit
  <2>. QED  BY <2>1, <2>2, <2>3 DEF PoolTypeOK
<1>2. QueuedOwing = {} /\ BusyOwing = {}
  BY DEF LifetimeInit, QueuedOwing, BusyOwing, Owes, Asleep, Job
<1>3. AnswersAccounted
  BY <1>2, FS_EmptySet DEF AnswersAccounted, LifetimeInit
<1>. QED  BY <1>1, <1>3 DEF LifetimeInv, LifetimeInit

(* A step of the main thread that posts nothing it will wait for.            *)
LEMMA MainPostsNone ==
  ASSUME LifetimeInv, NEW t \in Seq(JobType), \A i \in 1 .. Len(t) : ~Owes(t[i]),
         jobs' = jobs \o t, UNCHANGED <<busy, forwarded, owed>>
  PROVE  jobs' \in Seq(JobType) /\ AnswersAccounted'
<1>1. jobs \in Seq(JobType)
  BY DEF LifetimeInv, PoolTypeOK
<1>2. OwingIn(jobs \o t) = OwingIn(jobs) /\ jobs \o t \in Seq(JobType)
  BY <1>1, PostedCounts, PostedIs
<1>3. QueuedOwing' = QueuedOwing /\ BusyOwing' = BusyOwing
  BY <1>2 DEF QueuedOwing, OwingIn, BusyOwing
<1>. QED  BY <1>2, <1>3 DEF LifetimeInv, AnswersAccounted

(* A step of the main thread that posts what it waits for.                   *)
LEMMA MainPostsOwing ==
  ASSUME LifetimeInv, NEW t \in Seq(JobType), \A i \in 1 .. Len(t) : Owes(t[i]),
         jobs' = jobs \o t, UNCHANGED <<busy, forwarded>>, owed = 0, owed' = Len(t)
  PROVE  jobs' \in Seq(JobType) /\ AnswersAccounted' /\ owed' \in Nat
<1>1. jobs \in Seq(JobType)
  BY DEF LifetimeInv, PoolTypeOK
<1>2. OwingIn(jobs) = {} /\ BusyOwing = {} /\ forwarded = 0
  BY NoneOwed
<1>3. Cardinality(OwingIn(jobs \o t)) = Len(t) /\ jobs \o t \in Seq(JobType) /\ Len(t) \in Nat
  BY <1>1, <1>2, PostedCounts, PostedIs, LenProperties
<1>4. QueuedOwing' = OwingIn(jobs \o t) /\ BusyOwing' = {}
  BY <1>2 DEF QueuedOwing, OwingIn, BusyOwing
<1>. QED  BY <1>2, <1>3, <1>4, FS_EmptySet DEF AnswersAccounted

(* The steps of the main thread. *)
LEMMA MainKeeps ==
  ASSUME LifetimeInv, Main
  PROVE  LifetimeInv'
<1> USE DEF LifetimeInv, PoolTypeOK
<1> SUFFICES ASSUME ~crashed PROVE LifetimeInv'
  BY DEF Main, OpenVolume, ReadMeta, RebuildMask, Step, Release, MainJoined, MainRuns, Running
<1>1. ASSUME NEW s \in Stores, NEW from, NEW to, OpenVolume(s, from, to) PROVE LifetimeInv'
  <2>1. PICK t \in {<<>>, <<Job("evict", s)>>} : jobs' = jobs \o t
    BY <1>1 DEF OpenVolume, Post
  <2>2. t \in Seq(JobType) /\ \A i \in 1 .. Len(t) : ~Owes(t[i])
    <3>1. CASE t = <<>>
      BY <3>1
    <3>2. CASE t = <<Job("evict", s)>>
      <4>1. Job("evict", s) \in JobType /\ ~Owes(Job("evict", s))
        BY DEF Job, JobType, Owes
      <4>. QED  BY <3>2, <4>1
    <3>. QED  BY <3>1, <3>2
  <2>3. jobs' \in Seq(JobType) /\ AnswersAccounted'
    BY <1>1, <2>1, <2>2, MainPostsNone DEF OpenVolume
  <2>4. members' \subseteq Stores \cup {"ioPool"} /\ remote' \subseteq Stores
    BY <1>1 DEF OpenVolume
  <2>. QED  BY <1>1, <2>3, <2>4 DEF OpenVolume
<1>2. ASSUME NEW s \in Stores, NEW at, ReadMeta(s, at) PROVE LifetimeInv'
  <2> DEFINE t == <<Job("read", s)>>
  <2>1. Job("read", s) \in JobType /\ Owes(Job("read", s))
    BY DEF Job, JobType, Owes
  <2>2. t \in Seq(JobType) /\ Len(t) = 1 /\ \A i \in 1 .. Len(t) : Owes(t[i])
    BY <2>1
  <2>3. jobs' = jobs \o t /\ owed = 0 /\ owed' = 1 /\ joiner = "nobody"
    BY <1>2 DEF ReadMeta, Post, MainRuns
  <2> HIDE DEF t
  <2>4. jobs' \in Seq(JobType) /\ AnswersAccounted' /\ owed' \in Nat
    BY <1>2, <2>2, <2>3, MainPostsOwing DEF ReadMeta
  <2>. QED  BY <1>2, <2>3, <2>4 DEF ReadMeta
<1>3. ASSUME RebuildMask PROVE LifetimeInv'
  <2> DEFINE t == [i \in 1 .. MaskTasks |-> Job("band", "none")]
  <2>1. Job("band", "none") \in JobType /\ Owes(Job("band", "none")) /\ MaskTasks \in Nat
    BY LifetimeAssumption DEF Job, JobType, Owes, LifetimeAssumption
  <2>2. t \in Seq(JobType) /\ Len(t) = MaskTasks /\ \A i \in 1 .. Len(t) : Owes(t[i])
    BY <2>1
  <2>3. jobs' = jobs \o t /\ owed = 0 /\ owed' = MaskTasks /\ joiner = "nobody"
    BY <1>3 DEF RebuildMask, Post, MainRuns
  <2> HIDE DEF t
  <2>4. jobs' \in Seq(JobType) /\ AnswersAccounted' /\ owed' \in Nat
    BY <1>3, <2>2, <2>3, MainPostsOwing DEF RebuildMask
  <2>. QED  BY <1>3, <2>3, <2>4 DEF RebuildMask
<1>4. ASSUME NEW from, NEW to, Step(from, to) PROVE LifetimeInv'
  BY <1>4 DEF Step, AnswersAccounted, QueuedOwing, BusyOwing
<1>5. ASSUME NEW m, NEW from, NEW to, Release(m, from, to) PROVE LifetimeInv'
  <2>1. joiner' \in {"main", "nobody"} /\ owed = 0 /\ members' \subseteq members
    BY <1>5 DEF Release, MainRuns
  <2>2. UNCHANGED <<remote, jobs, busy, forwarded, owed, crashed>>
    BY <1>5 DEF Release
  <2>. QED  BY <2>1, <2>2 DEF AnswersAccounted, QueuedOwing, BusyOwing
<1>6. ASSUME MainJoined PROVE LifetimeInv'
  <2>1. owed = 0 /\ jobs' = <<>> /\ joiner' = "nobody"
        /\ UNCHANGED <<remote, members, busy, forwarded, owed, crashed>>
    BY <1>6 DEF MainJoined
  <2>2. BusyOwing = {} /\ forwarded = 0
    BY <2>1, NoneOwed
  <2>3. QueuedOwing' = {} /\ BusyOwing' = {}
    BY <2>1, <2>2 DEF QueuedOwing, BusyOwing
  <2>4. AnswersAccounted'
    BY <2>1, <2>2, <2>3, FS_EmptySet DEF AnswersAccounted
  <2>. QED  BY <2>1, <2>4
<1>7. "store" \in Stores /\ "ovStore" \in Stores
  BY DEF Stores
<1>. QED  BY <1>1, <1>2, <1>3, <1>4, <1>5, <1>6, <1>7, Zenon DEF Main

(* A worker takes a job: what it owes is then the worker's.                  *)
LEMMA TakeKeeps ==
  ASSUME LifetimeInv, NEW w \in PoolWorkers, TakeJob(w)
  PROVE  LifetimeInv'
<1> USE DEF LifetimeInv, PoolTypeOK
<1>1. /\ busy[w] = Asleep /\ jobs # <<>> /\ jobs' = Tail(jobs)
      /\ busy' = [busy EXCEPT ![w] = Head(jobs)] /\ joiner = "nobody"
      /\ UNCHANGED <<remote, members, forwarded, owed, joiner>> /\ crashed' \in BOOLEAN
  BY DEF TakeJob
<1>2. Tail(jobs) \in Seq(JobType) /\ Head(jobs) \in JobType
      /\ Cardinality(OwingIn(jobs))
           = Cardinality(OwingIn(Tail(jobs))) + IF Owes(Head(jobs)) THEN 1 ELSE 0
  BY <1>1, TakenIs
<1>3. Cardinality(OwingIn(jobs)) \in Nat /\ Cardinality(OwingIn(Tail(jobs))) \in Nat
  BY <1>2, OwingInIs
<1>4. busy' \in [PoolWorkers -> JobType \cup {Asleep, Ended}]
  BY <1>1, <1>2
<1>5. \A v \in PoolWorkers : busy'[v] = IF v = w THEN Head(jobs) ELSE busy[v]
  BY <1>1
<1>6. w \notin BusyOwing
  BY <1>1 DEF BusyOwing, Owes, Asleep, Job
<1>7. BusyOwing' = IF Owes(Head(jobs)) THEN BusyOwing \cup {w} ELSE BusyOwing
  BY <1>5, <1>6 DEF BusyOwing
<1>8. IsFiniteSet(BusyOwing) /\ Cardinality(BusyOwing) \in Nat
      /\ IsFiniteSet(BusyOwing \cup {w})
      /\ Cardinality(BusyOwing \cup {w}) = Cardinality(BusyOwing) + 1
  BY <1>6, FS_CardinalityType, FS_AddElement DEF AnswersAccounted
<1>9. QueuedOwing = OwingIn(jobs) /\ QueuedOwing' = OwingIn(Tail(jobs))
  BY <1>1 DEF QueuedOwing, OwingIn
<1>10. AnswersAccounted'
  <2>1. Cardinality(QueuedOwing)
          = Cardinality(QueuedOwing') + IF Owes(Head(jobs)) THEN 1 ELSE 0
    BY <1>2, <1>9
  <2>2. IsFiniteSet(BusyOwing')
        /\ Cardinality(BusyOwing')
             = Cardinality(BusyOwing) + IF Owes(Head(jobs)) THEN 1 ELSE 0
    BY <1>7, <1>8
  <2>3. Cardinality(QueuedOwing) \in Nat /\ Cardinality(QueuedOwing') \in Nat /\ forwarded \in Nat
    BY <1>3, <1>9
  <2>4. owed = Cardinality(QueuedOwing) + Cardinality(BusyOwing) + forwarded
    BY DEF AnswersAccounted
  <2> QED  BY <1>1, <1>8, <2>1, <2>2, <2>3, <2>4 DEF AnswersAccounted
<1>. QED  BY <1>1, <1>2, <1>4, <1>10

(* A job ends: it answers, or hands what it owes to the remote.              *)
LEMMA FinishKeeps ==
  ASSUME LifetimeInv, NEW w \in PoolWorkers, FinishPoolJob(w)
  PROVE  LifetimeInv'
<1> USE DEF LifetimeInv, PoolTypeOK
<1> DEFINE job == busy[w]
           n == IF Owes(job) THEN 1 ELSE 0
<1>1. /\ busy' = [busy EXCEPT ![w] = Asleep]
      /\ UNCHANGED <<remote, members, jobs>> /\ crashed' \in BOOLEAN
      /\ joiner' = (IF crashed' THEN "worker" ELSE joiner)
      /\ ~crashed
  BY DEF FinishPoolJob, Running
<1>2. \/ owed' = owed - n /\ forwarded' = forwarded
      \/ n = 1 /\ owed' = owed /\ forwarded' = forwarded + 1
  BY DEF FinishPoolJob, Answers, Owes
<1>3. busy' \in [PoolWorkers -> JobType \cup {Asleep, Ended}]
  BY <1>1
<1>4. \A v \in PoolWorkers : busy'[v] = IF v = w THEN Asleep ELSE busy[v]
  BY <1>1
<1>5. BusyOwing' = BusyOwing \ {w} /\ (w \in BusyOwing <=> Owes(job))
  <2>1. ~Owes(Asleep)
    BY DEF Owes, Asleep, Job
  <2>. QED  BY <1>4, <2>1 DEF BusyOwing
<1>6. IsFiniteSet(BusyOwing) /\ Cardinality(BusyOwing) \in Nat
      /\ IsFiniteSet(BusyOwing \ {w}) /\ Cardinality(BusyOwing \ {w}) \in Nat
      /\ Cardinality(BusyOwing \ {w}) = Cardinality(BusyOwing) - n
  BY <1>5, FS_CardinalityType, FS_RemoveElement DEF AnswersAccounted
<1>7. QueuedOwing' = QueuedOwing /\ Cardinality(QueuedOwing) \in Nat
  BY <1>1, OwingInIs DEF QueuedOwing, OwingIn
<1>8. n \in {0, 1}
  OBVIOUS
<1> HIDE DEF n
<1>9. owed = Cardinality(QueuedOwing) + Cardinality(BusyOwing) + forwarded
      /\ forwarded \in Nat /\ owed \in Nat
  BY DEF AnswersAccounted
<1>10. AnswersAccounted' /\ owed' \in Nat /\ forwarded' \in Nat
  <2>1. IsFiniteSet(BusyOwing') /\ Cardinality(BusyOwing') = Cardinality(BusyOwing) - n
        /\ Cardinality(BusyOwing') \in Nat /\ Cardinality(BusyOwing) \in Nat
    BY <1>5, <1>6
  <2>2. Cardinality(QueuedOwing') = Cardinality(QueuedOwing) /\ Cardinality(QueuedOwing) \in Nat
    BY <1>7
  <2>3. owed' = Cardinality(QueuedOwing') + Cardinality(BusyOwing') + forwarded'
        /\ forwarded' \in Nat
    <3>1. CASE owed' = owed - n /\ forwarded' = forwarded
      BY <1>8, <1>9, <2>1, <2>2, <3>1
    <3>2. CASE n = 1 /\ owed' = owed /\ forwarded' = forwarded + 1
      BY <1>9, <2>1, <2>2, <3>2
    <3>. QED  BY <1>2, <3>1, <3>2
  <2>. QED  BY <2>1, <2>2, <2>3 DEF AnswersAccounted
<1>11. owed = 0 => owed' = 0
  BY <1>2, <1>6, <1>7, <1>8, <1>9
<1>. QED  BY <1>1, <1>3, <1>10, <1>11

(* Every step of the window, its pool and the remote keeps the account.      *)
LEMMA LifetimeSteps ==
  ASSUME LifetimeInv, [LifetimeNext]_lifetimeVars
  PROVE  LifetimeInv'
<1> USE DEF LifetimeInv, PoolTypeOK
<1>1. CASE Main
  BY <1>1, MainKeeps
<1>2. ASSUME NEW w \in PoolWorkers, PoolWorker(w) PROVE LifetimeInv'
  <2>1. CASE TakeJob(w)
    BY <2>1, TakeKeeps
  <2>2. CASE FinishPoolJob(w)
    BY <2>2, FinishKeeps
  <2>3. CASE End(w)
    <3>1. busy[w] = Asleep /\ busy' = [busy EXCEPT ![w] = Ended]
          /\ UNCHANGED <<remote, members, jobs, forwarded, owed, joiner, crashed>>
      BY <2>3 DEF End
    <3>2. busy' \in [PoolWorkers -> JobType \cup {Asleep, Ended}]
      BY <3>1
    <3>3. ~Owes(Asleep) /\ ~Owes(Ended)
      BY DEF Owes, Asleep, Ended, Job
    <3>4. \A v \in PoolWorkers : Owes(busy'[v]) <=> Owes(busy[v])
      BY <3>1, <3>3
    <3>5. BusyOwing' = BusyOwing /\ QueuedOwing' = QueuedOwing
      BY <3>1, <3>4 DEF BusyOwing, QueuedOwing
    <3>. QED  BY <3>1, <3>2, <3>5 DEF AnswersAccounted
  <2>. QED  BY <1>2, <2>1, <2>2, <2>3 DEF PoolWorker
<1>3. CASE RemoteAnswers
  <2>1. /\ forwarded > 0 /\ forwarded' = forwarded - 1 /\ owed' = owed - 1
        /\ UNCHANGED <<remote, members, jobs, busy, joiner, crashed>>
    BY <1>3 DEF RemoteAnswers
  <2>2. QueuedOwing' = QueuedOwing /\ BusyOwing' = BusyOwing
    BY <2>1 DEF QueuedOwing, BusyOwing
  <2>3. Cardinality(QueuedOwing) \in Nat /\ Cardinality(BusyOwing) \in Nat
    BY OwingInIs, FS_CardinalityType DEF QueuedOwing, OwingIn, AnswersAccounted
  <2>4. owed = Cardinality(QueuedOwing) + Cardinality(BusyOwing) + forwarded
        /\ forwarded \in Nat /\ owed \in Nat
    BY DEF AnswersAccounted
  <2>5. owed # 0 /\ owed' \in Nat /\ forwarded' \in Nat
    BY <2>1, <2>3, <2>4
  <2>6. AnswersAccounted'
    BY <2>1, <2>2, <2>3, <2>4 DEF AnswersAccounted
  <2>. QED  BY <2>1, <2>5, <2>6
<1>4. ASSUME NEW s \in Stores, ChunkArrives(s) PROVE LifetimeInv'
  <2> DEFINE t == <<Job("encode", s)>>
  <2>1. Job("encode", s) \in JobType /\ ~Owes(Job("encode", s))
    BY DEF Job, JobType, Owes
  <2>2. t \in Seq(JobType) /\ \A i \in 1 .. Len(t) : ~Owes(t[i])
    BY <2>1
  <2>3. jobs' = jobs \o t
    BY <1>4 DEF ChunkArrives, Post
  <2> HIDE DEF t
  <2>4. jobs' \in Seq(JobType) /\ AnswersAccounted'
    BY <1>4, <2>2, <2>3, MainPostsNone DEF ChunkArrives
  <2>. QED  BY <1>4, <2>4 DEF ChunkArrives
<1>5. CASE UNCHANGED lifetimeVars
  BY <1>5 DEF lifetimeVars, AnswersAccounted, QueuedOwing, BusyOwing
<1>. QED  BY <1>1, <1>2, <1>3, <1>4, <1>5 DEF LifetimeNext

(* The main thread is in one of its places. *)
LEMMA MainPlaces ==
  ASSUME LifetimeTypeOK, LifetimeInv', [LifetimeNext]_lifetimeVars
  PROVE  LifetimeTypeOK'
<1>1. PoolTypeOK'
  BY DEF LifetimeInv
<1>2. \/ main' = main
      \/ main' \in {"opening", "volume", "opened", "overlay", "showing", "exited"} \/ Closing'
  BY DEF LifetimeNext, Main, PoolWorker, TakeJob, FinishPoolJob, End, RemoteAnswers, ChunkArrives,
         OpenVolume, ReadMeta, RebuildMask, Step, Release, MainJoined, Closing, lifetimeVars
<1>. QED  BY <1>1, <1>2 DEF LifetimeTypeOK, Closing

(* Whatever the window's pool does, and in whatever order it is taken down,  *)
(* each answer that the main thread counts down (remoteBlockingGet,          *)
(* computeMaskBands) is owed by one job in the pool or by the remote.        *)
THEOREM WaitsAreAnswered == LifetimeSpec => []AnswersAccounted
<1>1. LifetimeInit => LifetimeInv
  BY LifetimeStarts
<1>2. LifetimeInv /\ [LifetimeNext]_lifetimeVars => LifetimeInv'
  BY LifetimeSteps
<1>3. LifetimeInv => AnswersAccounted
  BY DEF LifetimeInv
<1>. QED  BY <1>1, <1>2, <1>3, PTL DEF LifetimeSpec

(* Whatever happens while it closes, the window's state stays in its type.   *)
THEOREM WindowTypeCorrect == LifetimeSpec => []LifetimeTypeOK
<1>1. LifetimeInit => LifetimeInv /\ LifetimeTypeOK
  BY LifetimeStarts DEF LifetimeInit, LifetimeInv, LifetimeTypeOK
<1>2. LifetimeInv /\ LifetimeTypeOK /\ [LifetimeNext]_lifetimeVars
        => LifetimeInv' /\ LifetimeTypeOK'
  BY LifetimeSteps, MainPlaces
<1>. QED  BY <1>1, <1>2, PTL DEF LifetimeSpec

-----------------------------------------------------------------------------
(* The run of all of them. *)

(* A behaviour of the run is one of each component, so that the theorems     *)
(* about them hold of it.                                                    *)
LEMMA PartsRunEach == PartsSpec => Spec /\ UploadSpec /\ SegSpec /\ LifetimeSpec
<1>1. PartsInit => Init /\ UploadInit /\ SegInit /\ LifetimeInit
  BY DEF PartsInit
<1>2. [PartsNext]_partsVars =>
        /\ [Next]_vars
        /\ [UploadNext]_uploadVars
        /\ [SegNext]_segVars
        /\ [LifetimeNext]_lifetimeVars
  BY DEF PartsNext, partsVars
<1>. QED  BY <1>1, <1>2, PTL DEF PartsSpec, Spec, UploadSpec, SegSpec, LifetimeSpec

(* Whichever component runs, the state of all four (the curl thread, the     *)
(* ring, the segmentation and the window) stays in its type, and none of the *)
(* counters kept by hand wraps (attempts, brick jobs, the answers a wait     *)
(* counts down).                                                             *)
THEOREM ThreadsTyped == PartsSpec => []PartsTypeOK
<1>1. IInv => TypeOK
  BY DEF IInv
<1>2. TypeOK /\ UploadTypeOK /\ SegTypeOK /\ LifetimeTypeOK => PartsTypeOK
  BY DEF PartsTypeOK
<1>. QED
  BY <1>1, <1>2, PartsRunEach, StoreInvariant, UploaderTypeCorrect, FloodTypeCorrect,
     WindowTypeCorrect, PTL

=============================================================================

---------------------------- MODULE GpuUploader ----------------------------
(***************************************************************************)
(* The upload ring (render/GpuUploader): the render thread enqueues decoded *)
(* bricks, worker threads assemble each into a free slot of a persistently   *)
(* mapped buffer, and drainToGpu, once a frame, issues the copies of the     *)
(* ready slots to the GPU and takes back the slots whose fence has signaled. *)
(*                                                                         *)
(* Actors: the render thread (Initialize, Enqueue, the steps of one drain),  *)
(* the workers, and the GPU, which finishes batches in order.  A pool job    *)
(* runs workerAssemble, which keeps taking bricks until none is pending or   *)
(* no slot is free; kicks counts the jobs posted and not started.            *)
(*                                                                         *)
(* A brick stands for its voxels, and a slot's content is the brick last     *)
(* assembled into it, or Torn while a worker writes.  release() is not here: *)
(* nothing calls it.                                                         *)
(*                                                                         *)
(* TakeFirst, RecycleUnsignaled, KickIfUploaded and FenceAlways are faulty   *)
(* variants of the definitions they precede; nothing uses them.              *)
(***************************************************************************)
EXTENDS Naturals, Sequences, FiniteSets, Functions

CONSTANTS
  Bricks,        \* the calls of enqueue(), each with its own brick
  RingSlots,     \* slots of the ring
  UploadWorkers,       \* assembly threads
  MaxPending,    \* kMaxPending
  UploadBudget,        \* bricks one drain may upload
  NoBrick,       \* content of a slot never written
  Torn           \* content of a slot being written

ASSUME UploaderAssumption ==
  /\ RingSlots \in Nat \ {0}
  /\ MaxPending \in Nat \ {0}
  /\ UploadBudget \in Nat \ {0}
  /\ NoBrick \notin Bricks
  /\ Torn \notin Bricks \cup {NoBrick}

VARIABLES
  ringMapped,    \* mapped_ is not null
  ring,      \* slots_: its indices, none before initialize()
  slot,      \* state and brick of each slot
  content,   \* what the mapped buffer holds in each slot
  pendingBricks,   \* pending_
  kicks,     \* jobs in the pool's queue
  worker,    \* what each worker is doing
  fences,    \* fences_: the batches whose copies were issued, oldest first
  gpu,       \* the batches the GPU has not finished copying, oldest first
  render,    \* where the render thread is in a drain
  batch,     \* the slots this drain uploads
  freed,     \* this drain took a slot back
  enqueued,  \* history: bricks accepted by enqueue()
  copies,    \* history: how often each brick's copy was issued
  late       \* history: a brick has been accepted since initialize()

ringVars  == <<ringMapped, ring, slot, content>>
drainVars == <<fences, render, batch, freed>>
history   == <<enqueued, copies, late>>
uploadVars == <<ringVars, pendingBricks, kicks, worker, gpu, drainVars, history>>

Slots == 1..RingSlots

SlotState == {"Free", "Writing", "Ready", "InFlight"}

Slot == [state : SlotState, brick : Bricks \cup {NoBrick}]

(* "idle": in the pool; "scanning": at the top of workerAssemble's loop;     *)
(* "assembling": writing the slot.                                           *)
At(pc, i) == [pc |-> pc, slot |-> i]

WorkerState ==
  {At("idle", 0), At("scanning", 0)} \cup {At("assembling", i) : i \in Slots}

InSlotState(s) == {i \in ring : slot[i].state = s}

Lowest(S) == CHOOSE i \in S : \A j \in S : i <= j

-----------------------------------------------------------------------------
(* The render thread. *)

MapBuffer ==
  /\ render = "uninitialized"
  /\ ringMapped' = TRUE
  /\ render' = "mapping"
  /\ UNCHANGED <<ring, slot, content, pendingBricks, kicks, worker, gpu, fences,
                 batch, freed, history>>

AssignSlots ==
  /\ render = "mapping"
  /\ ring' = Slots
  /\ render' = "idle"
  /\ UNCHANGED <<ringMapped, slot, content, pendingBricks, kicks, worker, gpu,
                 fences, batch, freed, history>>

(* A full queue rejects the brick and changes nothing.  The overlay's first  *)
(* bricks are enqueued before initialize() (ViewerWindow.cpp:1323, :1340).   *)
Enqueue(b) ==
  /\ render \in {"uninitialized", "idle"}
  /\ b \notin enqueued
  /\ Len(pendingBricks) < MaxPending
  /\ pendingBricks' = Append(pendingBricks, b)
  /\ kicks' = kicks + 1
  /\ enqueued' = enqueued \cup {b}
  /\ late' = (late \/ render = "idle")
  /\ UNCHANGED <<ringVars, worker, gpu, drainVars, copies>>

(* drainToGpu(): the frame's drain begins... *)
BeginDrain ==
  /\ render = "idle"
  /\ render' = "recycling"
  /\ freed' = FALSE
  /\ UNCHANGED <<ringVars, pendingBricks, kicks, worker, gpu, fences, batch,
                 history>>

(* The oldest fence has signaled: the GPU has finished that batch. *)
Signaled == Len(fences) > Len(gpu)

(* ... takes back the slots of each batch whose fence has signaled, ...      *)
RecycleUnsignaled ==
  /\ render = "recycling"
  /\ fences # <<>>
  /\ slot' = [i \in Slots |-> IF i \in Head(fences)
                              THEN [slot[i] EXCEPT !.state = "Free"]
                              ELSE slot[i]]
  /\ fences' = Tail(fences)
  /\ freed' = TRUE
  /\ UNCHANGED <<ringMapped, ring, content, pendingBricks, kicks, worker, gpu, render,
                 batch, history>>

Recycle ==
  /\ render = "recycling"
  /\ Signaled
  /\ slot' = [i \in Slots |-> IF i \in Head(fences)
                              THEN [slot[i] EXCEPT !.state = "Free"]
                              ELSE slot[i]]
  /\ fences' = Tail(fences)
  /\ freed' = TRUE
  /\ UNCHANGED <<ringMapped, ring, content, pendingBricks, kicks, worker, gpu, render,
                 batch, history>>

(* ... chooses the first UploadBudget ready slots, ...                             *)
FirstReady ==
  {i \in InSlotState("Ready") :
     Cardinality({j \in InSlotState("Ready") : j < i}) < UploadBudget}

SelectBatch ==
  /\ render = "recycling"
  /\ ~Signaled
  /\ batch' = FirstReady
  /\ slot' = [i \in Slots |-> IF i \in FirstReady
                              THEN [slot[i] EXCEPT !.state = "InFlight"]
                              ELSE slot[i]]
  /\ render' = "uploading"
  /\ UNCHANGED <<ringMapped, ring, content, pendingBricks, kicks, worker, gpu,
                 fences, freed, history>>

(* ... issues their copies, fences them, and kicks a worker if a slot may    *)
(* have become free.                                                         *)
FenceAlways == Append(fences, batch)
Fenced == IF batch = {} THEN fences ELSE Append(fences, batch)

KickIfUploaded == IF batch # {} THEN kicks + 1 ELSE kicks
KickAfterDrain == IF freed \/ (batch # {}) THEN kicks + 1 ELSE kicks

UploadBatch ==
  /\ render = "uploading"
  /\ copies' = [b \in Bricks |->
                 copies[b] + Cardinality({i \in batch : slot[i].brick = b})]
  /\ fences' = Fenced
  /\ gpu' = IF batch = {} THEN gpu ELSE Append(gpu, batch)
  /\ kicks' = KickAfterDrain
  /\ batch' = {}
  /\ render' = "idle"
  /\ UNCHANGED <<ringVars, pendingBricks, worker, freed, enqueued, late>>

-----------------------------------------------------------------------------
(* The GPU finishes the oldest batch it has been given. *)
GpuFinishes ==
  /\ gpu # <<>>
  /\ gpu' = Tail(gpu)
  /\ UNCHANGED <<ringVars, pendingBricks, kicks, worker, drainVars, history>>

-----------------------------------------------------------------------------
(* A worker. *)

StartJob(w) ==
  /\ worker[w].pc = "idle"
  /\ kicks > 0
  /\ kicks' = kicks - 1
  /\ worker' = [worker EXCEPT ![w] = At("scanning", 0)]
  /\ UNCHANGED <<ringVars, pendingBricks, gpu, drainVars, history>>

NothingToDo == ~ringMapped \/ pendingBricks = <<>> \/ InSlotState("Free") = {}

EndJob(w) ==
  /\ worker[w].pc = "scanning"
  /\ NothingToDo
  /\ worker' = [worker EXCEPT ![w] = At("idle", 0)]
  /\ UNCHANGED <<ringVars, pendingBricks, kicks, gpu, drainVars, history>>

(* The next brick and the first free slot, taken together. *)
TakeFirst(w) ==
  /\ worker[w].pc = "scanning"
  /\ ringMapped
  /\ pendingBricks # <<>>
  /\ pendingBricks' = Tail(pendingBricks)
  /\ IF InSlotState("Free") = {}
     THEN /\ worker' = [worker EXCEPT ![w] = At("idle", 0)]
          /\ UNCHANGED <<slot, content>>
     ELSE LET i == Lowest(InSlotState("Free")) IN
          /\ slot' = [slot EXCEPT ![i] = [state |-> "Writing",
                                          brick |-> Head(pendingBricks)]]
          /\ content' = [content EXCEPT ![i] = Torn]
          /\ worker' = [worker EXCEPT ![w] = At("assembling", i)]
  /\ UNCHANGED <<ringMapped, ring, kicks, gpu, drainVars, history>>

Take(w) ==
  LET i == Lowest(InSlotState("Free")) IN
  /\ worker[w].pc = "scanning"
  /\ ~NothingToDo
  /\ pendingBricks' = Tail(pendingBricks)
  /\ slot' = [slot EXCEPT ![i] = [state |-> "Writing", brick |-> Head(pendingBricks)]]
  /\ content' = [content EXCEPT ![i] = Torn]
  /\ worker' = [worker EXCEPT ![w] = At("assembling", i)]
  /\ UNCHANGED <<ringMapped, ring, kicks, gpu, drainVars, history>>

FinishAssembly(w) ==
  LET i == worker[w].slot IN
  /\ worker[w].pc = "assembling"
  /\ content' = [content EXCEPT ![i] = slot[i].brick]
  /\ slot' = [slot EXCEPT ![i].state = "Ready"]
  /\ worker' = [worker EXCEPT ![w] = At("scanning", 0)]
  /\ UNCHANGED <<ringMapped, ring, pendingBricks, kicks, gpu, drainVars, history>>

-----------------------------------------------------------------------------
UploadInit ==
  /\ ringMapped = FALSE
  /\ ring = {}
  /\ slot = [i \in Slots |-> [state |-> "Free", brick |-> NoBrick]]
  /\ content = [i \in Slots |-> NoBrick]
  /\ pendingBricks = <<>>
  /\ kicks = 0
  /\ worker = [w \in UploadWorkers |-> At("idle", 0)]
  /\ fences = <<>>
  /\ gpu = <<>>
  /\ render = "uninitialized"
  /\ batch = {}
  /\ freed = FALSE
  /\ enqueued = {}
  /\ copies = [b \in Bricks |-> 0]
  /\ late = FALSE

Frame == MapBuffer \/ AssignSlots \/ BeginDrain \/ Recycle \/ SelectBatch
           \/ UploadBatch

Assemble(w) == StartJob(w) \/ EndJob(w) \/ Take(w) \/ FinishAssembly(w)

UploadNext ==
  \/ \E b \in Bricks : Enqueue(b)
  \/ Frame
  \/ GpuFinishes
  \/ \E w \in UploadWorkers : Assemble(w)

UploadSpec == UploadInit /\ [][UploadNext]_uploadVars

(* Frames keep coming while anything is pending (pumpStreaming renders then, *)
(* ViewerWindow.cpp:1103), the workers run, and the GPU finishes its copies. *)
UploadFairness ==
  /\ WF_uploadVars(Frame)
  /\ WF_uploadVars(GpuFinishes)
  /\ \A w \in UploadWorkers : WF_uploadVars(Assemble(w))

-----------------------------------------------------------------------------
(* Properties. *)

UploadTypeOK ==
  /\ ringMapped \in BOOLEAN
  /\ ring \in {{}, Slots}
  /\ slot \in [Slots -> Slot]
  /\ content \in [Slots -> Bricks \cup {NoBrick, Torn}]
  /\ pendingBricks \in Seq(Bricks)
  /\ Len(pendingBricks) <= MaxPending
  /\ kicks \in Nat
  /\ worker \in [UploadWorkers -> WorkerState]
  /\ fences \in Seq((SUBSET Slots) \ {{}})
  /\ gpu \in Seq((SUBSET Slots) \ {{}})
  /\ render \in {"uninitialized", "mapping", "idle", "recycling", "uploading"}
  /\ batch \subseteq Slots
  /\ freed \in BOOLEAN
  /\ enqueued \subseteq Bricks
  /\ copies \in [Bricks -> Nat]
  /\ late \in BOOLEAN

(* Slots the GPU may be reading, or is about to be told to read. *)
UnderCopy == batch \cup UNION Range(gpu)

(* CopiesSeeTheirBrick: the copy reads the mapped buffer some time between   *)
(* the call and its fence, on another processor.  Until then the slot holds  *)
(* exactly the brick under whose key it is uploaded: no worker has been      *)
(* given the slot again.                                                     *)
CopiesSeeTheirBrick ==
  \A i \in UnderCopy :
    /\ slot[i].state = "InFlight"
    /\ content[i] = slot[i].brick
    /\ \A w \in UploadWorkers : worker[w].slot # i

(* Bricks waiting in the ring for their copy. *)
InRing(b) ==
  {i \in ring : /\ slot[i].brick = b
                /\ \/ slot[i].state \in {"Writing", "Ready"}
                   \/ i \in batch}

(* UploadedOnce: between the queue, two kinds of threads and the drain, a    *)
(* brick the uploader accepted is never dropped and never copied twice.      *)
(* GpuUploader.h:35 promises "nothing is lost".                              *)
UploadedOnce ==
  \A b \in enqueued :
    Cardinality({n \in DOMAIN pendingBricks : pendingBricks[n] = b})
      + Cardinality(InRing(b)) + copies[b] = 1

(* EveryBrickUploaded: a brick handed to enqueue() reaches the GPU           *)
(* (GpuUploader.h:18): a worker gives up when the ring is full and relies on *)
(* the drain to post another job, and no such wakeup is lost.  The exception *)
(* is the start: the job posted for a brick enqueued before initialize()     *)
(* finds no ring and returns, and only the next enqueue() posts another (so  *)
(* "late").  The number of bricks is finite here, so that all reach it: the  *)
(* drain takes the lowest ready slots first, and under an endless supply of  *)
(* bricks and a small budget the highest slots can wait for ever.            *)
EveryBrickUploaded == late ~> \A b \in enqueued : copies[b] > 0

=============================================================================

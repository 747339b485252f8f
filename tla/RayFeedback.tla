----------------------------- MODULE RayFeedback -----------------------------
(***************************************************************************)
(* Ray-guided streaming (render/vtkScrollVolumeMapper).  Each frame's        *)
(* raymarch shader walks the page tables along its rays; a ray that has to   *)
(* sample a coarser brick than it wants asks for the finer one in a request  *)
(* buffer.  There are two: a frame writes one, and the CPU harvests the      *)
(* other, behind a fence, without ever waiting for the GPU.  What it         *)
(* harvests joins the streaming loop's next plan.                            *)
(*                                                                         *)
(* Actors: the render thread (frames, plans), the GPU, which runs the frames *)
(* issued to it in order, and the stores.                                    *)
(*                                                                         *)
(* Abstractions.  A ray is the sequence of the level-0 bricks it crosses,    *)
(* each with the level it wants there (the cone LOD and the opacity reached, *)
(* never finer than the frame's minimum); the bricks of level i are 2^i of   *)
(* them wide.  Rays whose static jitter forbids them to ask are left out, as *)
(* are jumps over whole empty tiles, the probes of coarser bricks and the    *)
(* shading.  A fence is the number of frames that must retire before it      *)
(* signals: 0 if there is none, or if it has.  What is resident stays so     *)
(* (GpuBrickCache evicts), and a frame for which the shader does not compile *)
(* leaves the buffers alone.                                                 *)
(*                                                                         *)
(* WalkWithoutEmpties, KeepsFence and ReadsUnfenced are faulty variants of   *)
(* the definitions they precede; nothing uses them.                          *)
(***************************************************************************)
EXTENDS Integers, Sequences, FiniteSets, FiniteSetsExt

CONSTANTS
  TopLevel,     \* the coarsest level
  Width,        \* level-0 bricks across the volume
  Rays,         \* sequence of rays, each a sequence of records [at, lod]
  Contents,     \* sets of level-0 bricks with data, for a volume to have
  Dark,         \* level-0 bricks below the visibility window, if they have data
  MaxFeedback,  \* kMaxFeedback
  MaxAhead,     \* bound on the frames the GPU is behind
  MaxReleases   \* bound on the graphics resources released

ASSUME FeedbackAssumption ==
  /\ TopLevel \in Nat
  /\ Width \in Nat \ {0}
  /\ MaxFeedback \in Nat
  /\ MaxAhead \in Nat

VARIABLES
  solid,       \* bricks with data, at every level; the others are the fill value
  pages,       \* page tables: "unknown", "resident" or "empty"
  mapped,      \* FeedbackSsbo, FeedbackMapped: the buffers exist
  buffers,     \* for each, how many requests were written, and which
  frameFences, \* FeedbackFence
  writeIndex,  \* FeedbackWriteIndex
  frames,      \* frames issued and not retired, with the requests of their rays
  harvested,   \* FeedbackRequests
  requested,   \* bricks the streaming loop has asked for
  releases     \* number of releases

feedbackVars == <<solid, pages, mapped, buffers, frameFences, writeIndex, frames,
                  harvested, requested, releases>>

Nobody == -1
Cells  == 0 .. Width - 1
BrickAt(c, i) == <<i, c \div 2^i>>
RayBricks == {BrickAt(c, i) : c \in Cells, i \in 0..TopLevel}

Fresh == [count |-> 0, bricks |-> {}]

-----------------------------------------------------------------------------
(* The shader. *)

WalkWithoutEmpties(c, lod) ==
  LET known == {i \in lod..TopLevel : pages[BrickAt(c, i)] # "unknown"} IN
  IF known = {} THEN Nobody ELSE Max(known)

(* The fallback walk from the level wanted upwards: the first brick known    *)
(* to the page tables and, if it is empty, the coarsest of the empty ones    *)
(* that follow without a gap.                                                *)
Walk(c, lod) ==
  LET known == {i \in lod..TopLevel : pages[BrickAt(c, i)] # "unknown"} IN
  IF known = {} THEN Nobody
  ELSE Max({Min(known)} \cup
           {j \in known : \A i \in Min(known)..j : pages[BrickAt(c, i)] = "empty"})

(* No data, or none that the window shows: the ray jumps over it.            *)
Skipped(b) ==
  \/ pages[b] = "empty"
  \/ \A c \in Cells : BrickAt(c, b[1]) = b /\ <<0, c>> \in solid => c \in Dark

(* Where the ray leaves the brick of level i it is in at n.                  *)
Exit(ray, n, i) ==
  Min({m \in n + 1 .. Len(ray) + 1 :
         m <= Len(ray) => BrickAt(ray[m].at, i) # BrickAt(ray[n].at, i)})

(* The first brick the ray would rather have had, and it asks for no other.  *)
(* Where nothing is known it goes on by a step.                              *)
Ask(ray) ==
  LET ask[n \in 1 .. Len(ray) + 1] ==
        IF n > Len(ray) THEN {}
        ELSE LET found == Walk(ray[n].at, ray[n].lod) IN
             IF found = Nobody THEN ask[n + 1]
             ELSE IF found = ray[n].lod \/ Skipped(BrickAt(ray[n].at, found))
                  THEN ask[Exit(ray, n, found)]
                  ELSE {BrickAt(ray[n].at, ray[n].lod)}
  IN ask[1]

Asks == UNION {{r} \X Ask(Rays[r]) : r \in DOMAIN Rays}

(* The requests of a frame land in any order, as long as there is room; two  *)
(* rays may ask for the same brick.                                          *)
Retire ==
  /\ frames # <<>>
  /\ frames' = Tail(frames)
  /\ LET frame == Head(frames)
         room  == MaxFeedback - buffers[frame.buffer].count
     IN IF frame.buffer = Nobody THEN UNCHANGED buffers
        ELSE \E kept \in SUBSET frame.asks :
               /\ Cardinality(kept) =
                    IF Cardinality(frame.asks) <= room THEN Cardinality(frame.asks)
                                                       ELSE room
               /\ buffers' = [buffers EXCEPT
                    ![frame.buffer].count = @ + Cardinality(kept),
                    ![frame.buffer].bricks = @ \cup {a[2] : a \in kept}]
  /\ frameFences' = [i \in {0, 1} |-> IF frameFences[i] = 0 THEN 0 ELSE frameFences[i] - 1]
  /\ UNCHANGED <<solid, pages, mapped, writeIndex, harvested, requested, releases>>

-----------------------------------------------------------------------------
(* The render thread. *)

(* A volume is opened: its coarsest bricks come first and stay.              *)
Open ==
  /\ solid = {}
  /\ \E data \in Contents :
       solid' = {BrickAt(c, i) : c \in data, i \in 0..TopLevel}
  /\ pages' = [b \in RayBricks |-> IF b[1] < TopLevel THEN "unknown"
                                ELSE IF b \in solid' THEN "resident" ELSE "empty"]
  /\ UNCHANGED <<mapped, buffers, frameFences, writeIndex, frames, harvested, requested,
                 releases>>

Other == 1 - writeIndex

KeepsFence ==
  IF frameFences[writeIndex] # 0 THEN frameFences
  ELSE [frameFences EXCEPT ![writeIndex] = Len(frames) + 1]

(* A fence of an older frame that has not signaled is deleted.               *)
FencesAfter == [frameFences EXCEPT ![writeIndex] = Len(frames) + 1]

ReadsUnfenced(b, i) ==
  /\ harvested' = IF b[i].count > 0 THEN b[i].bricks ELSE harvested
  /\ buffers' = [b EXCEPT ![i] = Fresh]

(* ReadFeedback(): what was harvested before, and not taken, is replaced.    *)
ReadFeedback(b, i) ==
  IF FencesAfter[i] = 0
  THEN /\ harvested' = IF b[i].count > 0 THEN b[i].bricks ELSE harvested
       /\ buffers' = [b EXCEPT ![i] = Fresh]
  ELSE /\ buffers' = b
       /\ UNCHANGED harvested

Render ==
  /\ solid # {}
  /\ Len(frames) < MaxAhead
  /\ writeIndex' = Other
  /\ mapped' = TRUE
  /\ frames' = Append(frames, [buffer |-> writeIndex, asks |-> Asks])
  /\ frameFences' = FencesAfter
  /\ ReadFeedback(IF mapped THEN buffers ELSE [i \in {0, 1} |-> Fresh], Other)
  /\ UNCHANGED <<solid, pages, requested, releases>>

(* ReleaseGraphicsResources(): the frames under way write to buffers that    *)
(* nobody will read; the index stays.                                        *)
ReleaseResources ==
  /\ mapped
  /\ releases < MaxReleases
  /\ mapped' = FALSE
  /\ frameFences' = [i \in {0, 1} |-> 0]
  /\ frames' = [j \in DOMAIN frames |-> [frames[j] EXCEPT !.buffer = Nobody]]
  /\ releases' = releases + 1
  /\ UNCHANGED <<solid, pages, buffers, writeIndex, harvested, requested>>

(* TakeFeedbackRequests(), on a tick that plans. *)
TakeRequests ==
  /\ harvested # {}
  /\ requested' = requested \cup harvested
  /\ harvested' = {}
  /\ UNCHANGED <<solid, pages, mapped, buffers, frameFences, writeIndex, frames, releases>>

(* A brick asked for is uploaded, or marked empty if it is all fill value... *)
Arrive(b) ==
  /\ b \in requested
  /\ requested' = requested \ {b}
  /\ pages' = [pages EXCEPT ![b] = IF b \in solid THEN "resident" ELSE "empty"]
  /\ UNCHANGED <<solid, mapped, buffers, frameFences, writeIndex, frames, harvested,
                 releases>>

(* ... or its read fails, or a later submit leaves it out.                   *)
Lose(b) ==
  /\ b \in requested
  /\ requested' = requested \ {b}
  /\ UNCHANGED <<solid, pages, mapped, buffers, frameFences, writeIndex, frames,
                 harvested, releases>>

FeedbackInit ==
  /\ solid = {}
  /\ pages = [b \in RayBricks |-> "unknown"]
  /\ mapped = FALSE
  /\ buffers = [i \in {0, 1} |-> Fresh]
  /\ frameFences = [i \in {0, 1} |-> 0]
  /\ writeIndex = 0
  /\ frames = <<>>
  /\ harvested = {}
  /\ requested = {}
  /\ releases = 0

FeedbackNext ==
  \/ Open
  \/ Render
  \/ Retire
  \/ ReleaseResources
  \/ TakeRequests
  \/ \E b \in RayBricks : Arrive(b) \/ Lose(b)

FeedbackSpec == FeedbackInit /\ [][FeedbackNext]_feedbackVars

(* The loop renders and plans again and again, the GPU retires its frames,   *)
(* and of the bricks asked for again and again some arrive.                  *)
FeedbackFairness ==
  /\ WF_feedbackVars(Render)
  /\ WF_feedbackVars(Retire)
  /\ WF_feedbackVars(TakeRequests)
  /\ SF_feedbackVars(\E b \in RayBricks : Arrive(b))

(* Again and again the GPU has caught up before another frame is issued.     *)
CatchesUp == []<>(frames = <<>>)

-----------------------------------------------------------------------------
(* Properties. *)

(* FencesGuard: an older frame may still be writing a buffer whose fence was *)
(* replaced, but never after the fence that replaced it has signaled.        *)
FencesGuard ==
  \A j \in DOMAIN frames : frames[j].buffer # Nobody => frameFences[frames[j].buffer] >= j

(* CpuReadsRetired: the render thread never waits for the GPU, deletes       *)
(* fences that have not signaled, writes one buffer again before it was      *)
(* harvested, and loses all fences when resources are released; yet when it  *)
(* reads a buffer and resets its counter, no frame that writes to that       *)
(* buffer is still to run (vtkScrollVolumeMapper.h:233-235).                 *)
CpuReadsRetired ==
  [][\A i \in {0, 1} : Len(frames') > Len(frames) /\ buffers'[i] # buffers[i] =>
       \A j \in DOMAIN frames : frames[j].buffer # i]_feedbackVars

(* RaysGetTheirBricks: requests are dropped when the buffer is full, when a  *)
(* harvest replaces an untaken one, when a read fails and when resources are *)
(* released, and a ray asks for one brick at a time; but a frame asks again. *)
(* The camera at rest, every brick of the level wanted on any ray, if it has *)
(* data to show, is resident in the end.                                     *)
RaysGetTheirBricks ==
  solid # {} ~>
    \A r \in DOMAIN Rays : \A n \in DOMAIN Rays[r] :
      LET c == Rays[r][n].at IN
      <<0, c>> \in solid /\ c \notin Dark =>
        pages[BrickAt(c, Rays[r][n].lod)] = "resident"

(* HarvestComes: vtkScrollVolumeMapper.cpp:160-161 reads a buffer "only once *)
(* the frame that wrote this buffer has retired; otherwise leave it for the  *)
(* next harvest": requests that were written are harvested in the end.       *)
HarvestComes ==
  \A i \in {0, 1} : mapped /\ buffers[i].count > 0 ~> buffers[i].count = 0 \/ ~mapped

=============================================================================

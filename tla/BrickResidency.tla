--------------------------- MODULE BrickResidency ---------------------------
(***************************************************************************)
(* What a brick cache on the GPU promises the renderer                       *)
(* (render/GpuBrickCache.h:19-30), without tiles, dirty flags or a           *)
(* replacement policy: one page entry per brick, a pool of slots, and a copy *)
(* of the entries that the shaders see.  Shaders run only while drawable.    *)
(***************************************************************************)
CONSTANTS
  Keys,    \* bricks
  Slots,   \* slots of the brick pool
  NoBrick  \* content of a slot never written

VARIABLES
  table,    \* page entry of each brick
  pool,     \* the brick whose voxels each slot holds
  shown,    \* the page entries the shaders see
  drawable  \* frames may be drawn

residencyVars == <<table, pool, shown, drawable>>

Unknown     == [is |-> "Unknown", slot |-> 0]
Empty       == [is |-> "Empty", slot |-> 0]
Resident(s) == [is |-> "Resident", slot |-> s]

Init ==
  /\ table = [k \in Keys |-> Unknown]
  /\ pool = [s \in Slots |-> NoBrick]
  /\ shown = [k \in Keys |-> Unknown]
  /\ drawable = FALSE

BeginFrame ==
  /\ drawable' = FALSE
  /\ UNCHANGED <<table, pool, shown>>

MarkEmpty(S) ==
  /\ ~drawable
  /\ table' = [k \in Keys |-> IF k \in S THEN Empty ELSE table[k]]
  /\ UNCHANGED <<pool, shown, drawable>>

(* The brick that had the slot goes back to Unknown.                         *)
Upload(k, s) ==
  /\ ~drawable
  /\ pool' = [pool EXCEPT ![s] = k]
  /\ table' = [j \in Keys |-> CASE j = k       -> Resident(s)
                                [] j = pool[s] -> Unknown
                                [] OTHER       -> table[j]]
  /\ UNCHANGED <<shown, drawable>>

Publish ==
  /\ shown' = table
  /\ drawable' \in BOOLEAN
  /\ UNCHANGED <<table, pool>>

Next ==
  \/ BeginFrame
  \/ Publish
  \/ \E S \in SUBSET Keys : MarkEmpty(S)
  \/ \E k \in Keys, s \in Slots : Upload(k, s)

Spec == Init /\ [][Next]_residencyVars

=============================================================================

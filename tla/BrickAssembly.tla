----------------------------- MODULE BrickAssembly -----------------------------
(***************************************************************************)
(* Bricks get their borders (render/BrickAssembler): the decode threads put  *)
(* bricks into the RAM cache and hand them to the render thread, and an      *)
(* upload worker copies the border of each from the neighbours that are in   *)
(* the cache at that moment, or else repeats the brick's own outer voxels.   *)
(*                                                                         *)
(* Abstractions.  RowBricks lie in a row (the code looks at the 26 around a  *)
(* brick); a border is the set of the neighbours it was copied from.  A      *)
(* brick handed over is kept alive by those who hold it, in the cache or     *)
(* not, and so are the neighbours while they are copied.  The GPU may evict  *)
(* a brick, and the brick is then assembled again.                           *)
(*                                                                         *)
(* HandOverEarly is a faulty variant of the definition it precedes; nothing  *)
(* uses it.                                                                  *)
(***************************************************************************)
EXTENDS LruCache, Integers

CONSTANTS
  RowBricks,   \* bricks, by their place in the row
  Assemblers,  \* the workers that assemble
  BrickBytes,  \* the size of a brick
  NoKey

ASSUME AssemblyAssumption ==
  /\ RowBricks \subseteq RamKeys \cap Int
  /\ BrickBytes \in Sizes
  /\ 1 \in Pins
  /\ NoKey \notin RamKeys

VARIABLES
  waiting,     \* bricks the uploader's workers have to assemble
  assembly,    \* for each worker its brick, the neighbours still to look up, and those held
  border,      \* the borders of the bricks assembled
  dropped      \* history: bricks that were evicted from the cache

assemblyVars == <<lruVars, waiting, assembly, border, dropped>>

Beside(k) == {k - 1, k + 1} \cap RowBricks

Resting == [key |-> NoKey, left |-> {}, held |-> {}]

Dropping == dropped' = dropped \cup (KeysOf(lru) \ KeysOf(lru'))

-----------------------------------------------------------------------------
(* A decode thread: insertPinned() of a brick that was not in the cache. *)
Decode(k) ==
  /\ k \notin KeysOf(lru)
  /\ Insert(k, BrickBytes, 1)
  /\ Dropping
  /\ UNCHANGED <<waiting, assembly, border>>

Pinned(k) == k \in KeysOf(lru) /\ lru[Position(lru, k)].pinCount > 0

HandOverEarly(k) == TRUE

(* A brick is ready once it is in the cache, and stays pinned till drained. *)
MayHandOver(k) == Pinned(k)

(* drainReady() hands it to the uploader, which keeps it alive, and unpins it. *)
HandOver(k) ==
  /\ MayHandOver(k)
  /\ waiting' = waiting \cup {k}
  /\ IF Pinned(k) THEN Unpin(k) ELSE UNCHANGED lruVars
  /\ UNCHANGED <<assembly, border, dropped>>

(* The render thread finds the brick in the cache and uploads it, for the    *)
(* first time or again, after the GPU has evicted it.                        *)
RamHit(k) ==
  /\ Get(k)
  /\ waiting' = waiting \cup {k}
  /\ UNCHANGED <<assembly, border, dropped>>

(* workerAssemble() takes a brick. *)
BeginAssembly(a, k) ==
  /\ assembly[a] = Resting
  /\ k \in waiting
  /\ waiting' = waiting \ {k}
  /\ assembly' = [assembly EXCEPT ![a] = [key |-> k, left |-> Beside(k), held |-> {}]]
  /\ UNCHANGED <<lruVars, border, dropped>>

(* One neighbour is looked up, and becomes the most recently used. *)
LookUp(a) ==
  LET n == CHOOSE m \in assembly[a].left : \A l \in assembly[a].left : m <= l IN
  /\ assembly[a].left # {}
  /\ IF n \in KeysOf(lru) THEN Get(n) ELSE UNCHANGED lruVars
  /\ assembly' = [assembly EXCEPT ![a] =
       [key  |-> @.key,
        left |-> @.left \ {n},
        held |-> IF n \in KeysOf(lru) THEN @.held \cup {n} ELSE @.held]]
  /\ UNCHANGED <<waiting, border, dropped>>

EndAssembly(a) ==
  /\ assembly[a].key # NoKey
  /\ assembly[a].left = {}
  /\ border' = [border EXCEPT ![assembly[a].key] = [made |-> TRUE, of |-> assembly[a].held]]
  /\ assembly' = [assembly EXCEPT ![a] = Resting]
  /\ UNCHANGED <<lruVars, waiting, dropped>>

AssemblyInit ==
  /\ LruInit
  /\ waiting = {}
  /\ assembly = [a \in Assemblers |-> Resting]
  /\ border = [k \in RowBricks |-> [made |-> FALSE, of |-> {}]]
  /\ dropped = {}

AssemblyNext ==
  \/ \E k \in RowBricks : Decode(k) \/ HandOver(k) \/ RamHit(k)
  \/ \E a \in Assemblers :
       \/ \E k \in RowBricks : BeginAssembly(a, k)
       \/ LookUp(a)
       \/ EndAssembly(a)

AssemblySpec == AssemblyInit /\ [][AssemblyNext]_assemblyVars

-----------------------------------------------------------------------------
(* Properties. *)

(* AssemblyTypeOK: an assembler looks up neighbours of its own brick only.   *)
AssemblyTypeOK ==
  /\ waiting \subseteq RowBricks
  /\ assembly \in [Assemblers -> [key  : RowBricks \cup {NoKey},
                                  left : SUBSET RowBricks,
                                  held : SUBSET RowBricks]]
  /\ \A a \in Assemblers : assembly[a].left \subseteq Beside(assembly[a].key)
  /\ border \in [RowBricks -> [made : BOOLEAN, of : SUBSET RowBricks]]
  /\ dropped \subseteq RamKeys

(* OneSidedSeams: a border can be wrong only because the neighbour was not   *)
(* there yet, and the neighbour comes later then: whatever the workers'      *)
(* order, of two bricks side by side that have stayed in the cache at least  *)
(* one has the other's voxels in its border.                                 *)
OneSidedSeams ==
  \A k \in RowBricks : \A n \in Beside(k) :
    border[k].made /\ border[n].made /\ {k, n} \cap dropped = {} =>
      n \in border[k].of \/ k \in border[n].of

=============================================================================

---------------------------- MODULE MCDiskCache ----------------------------
(* DiskCache on small instances. *)
EXTENDS DiskCache, TLC

CONSTANTS r1, r2, r3

Calm == [viewer |-> (r1 :> 1 @@ r2 :> 2 @@ r3 :> 2), codec |-> "none",
         kill |-> FALSE, full |-> FALSE, evict |-> FALSE]

OneViewerRestarted ==
  [Calm EXCEPT !.viewer = (r1 :> 1 @@ r2 :> 1 @@ r3 :> 1), !.kill = TRUE, !.evict = TRUE]

RoughDisk(codec) ==
  [viewer |-> (r1 :> 1 @@ r2 :> 2), codec |-> codec,
   kill |-> TRUE, full |-> TRUE, evict |-> TRUE]

AllSetups == {Calm, OneViewerRestarted} \cup {RoughDisk(c) : c \in Codecs}
FullDisk ==
  {[Calm EXCEPT !.viewer = (r1 :> 1 @@ r2 :> 1 @@ r3 :> 1), !.full = TRUE]}
=============================================================================

------------------------- MODULE MCViewerStreaming -------------------------
(* ViewerStreaming on small instances: one brick of the main volume and one  *)
(* of the overlay in view, or two views of the main volume; RAM for one      *)
(* brick or for two; bricks that are empty, or prefetched in or out of view. *)
EXTENDS ViewerStreaming

CONSTANTS near, far, ink

Scene(views, prefetch, fill, ramSlots) ==
  [views |-> views, prefetch |-> prefetch, fill |-> fill, ramSlots |-> ramSlots]

Turning   == Scene({{near}, {far}}, {}, {}, 1)
Thrashing == Scene({{near, ink}}, {}, {}, 1)
Overlaid  == Scene({{near, ink}}, {ink}, {}, 2)
EmptyInk  == Scene({{near, ink}}, {}, {ink}, 2)
EmptyNear == Scene({{near, ink}}, {}, {near}, 2)
Opening   == Scene({{near}}, {far}, {}, 2)

AllScenes   == {Turning, Thrashing, Overlaid, EmptyInk, EmptyNear, Opening}
OpeningOnly == {Opening}
=============================================================================

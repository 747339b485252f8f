---------------------------- MODULE MCRayFeedback ----------------------------
(* RayFeedback on a small instance: of two rays in a row of two cells one    *)
(* sees both cells at the finest level, the other only the second.           *)
EXTENDS RayFeedback

Ray(cells) == [n \in DOMAIN cells |-> [at |-> cells[n], lod |-> 0]]
TwoRays == <<Ray(<<0, 1>>), Ray(<<1>>)>>
DataIn == {{0, 1}, {1}}

RenderingSpec == FeedbackSpec /\ FeedbackFairness

CalmSpec == RenderingSpec /\ CatchesUp

=============================================================================

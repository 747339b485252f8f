---------------------------- MODULE BrickDelivery ----------------------------
(***************************************************************************)
(* What the fetch pipeline promises the render thread                        *)
(* (data/ChunkFetchPipeline.h:44-70), without heap, priorities, caps,        *)
(* counters, decode threads or RAM-cache pins: a brick that is asked for     *)
(* goes through the stages below and comes back, may fail on the way, and is *)
(* forgotten while still queued once two submits in a row left it out.       *)
(*                                                                         *)
(* One promise is the viewer's life insurance: whenever a brick is queued,   *)
(* some other brick is on its way or waits to be released, so that somebody  *)
(* will look at the queue again (Awake).                                     *)
(***************************************************************************)
EXTENDS FiniteSets, Naturals

CONSTANTS
  Keys    \* brick keys

VARIABLES
  delivery  \* the stage of each key, the submits it was left out of while
            \* queued, the reads told to stop, and the bricks handed over
            \* and not yet released

Stage == {"no", "queued", "fetching", "decoding", "inserted"}

Delivery == [stage      : [Keys -> Stage],
             missed     : [Keys -> 0..2],
             stopped    : SUBSET Keys,
             unreleased : SUBSET Keys]

AtStage(d, s) == {k \in Keys : d.stage[k] = s}

(* Bricks whose fetch or decode will end in a pump.                          *)
UnderWay(d) == {k \in Keys : d.stage[k] \notin {"no", "queued"}}

Awake(d) ==
  AtStage(d, "queued") # {} => UnderWay(d) # {} \/ d.unreleased # {}

Moved(d, k, s) == [stage      |-> [d.stage EXCEPT ![k] = s],
                   missed     |-> d.missed,
                   stopped    |-> d.stopped \ {k},
                   unreleased |-> d.unreleased]

(* What a pump may make of d: it starts some of the queued bricks and drops  *)
(* some that the last two submits left out.                                  *)
Pumped(d) ==
  LET started(S) ==
        [stage      |-> [k \in Keys |-> IF k \in S.start THEN "fetching"
                                        ELSE IF k \in S.drop THEN "no"
                                        ELSE d.stage[k]],
         missed     |-> [k \in Keys |-> IF k \in S.start \cup S.drop
                                        THEN 0 ELSE d.missed[k]],
         stopped    |-> d.stopped,
         unreleased |-> d.unreleased]
      fresh == {k \in AtStage(d, "queued") : d.missed[k] < 2}
      stale == AtStage(d, "queued") \ fresh
  IN  {e \in {started(S) : S \in [start : SUBSET fresh, drop : SUBSET stale]} :
         Awake(e)}

(* A submit of the set W.                                                    *)
Asked(d, W) ==
  [stage      |-> [k \in Keys |-> IF k \in W /\ d.stage[k] = "no" THEN "queued"
                                  ELSE d.stage[k]],
   missed     |-> [k \in Keys |->
                    CASE k \in W -> 0
                      [] k \notin W /\ d.stage[k] = "queued" /\ d.missed[k] < 2
                           -> d.missed[k] + 1
                      [] OTHER -> d.missed[k]],
   stopped    |-> d.stopped \cup (AtStage(d, "fetching") \ W),
   unreleased |-> d.unreleased]

Submit(W) == delivery' \in Pumped(Asked(delivery, W))

(* The read fails or is cancelled, or the decode fails.                      *)
Fail(k) ==
  /\ delivery.stage[k] \in {"fetching", "decoding"}
  /\ delivery' \in Pumped(Moved(delivery, k, "no"))

(* The read brings bytes or NotFound.  This step does not pump.              *)
Fetched(k) ==
  /\ delivery.stage[k] = "fetching"
  /\ delivery' = Moved(delivery, k, "decoding")

(* The decoded brick enters the RAM cache.                                   *)
Insert(k) ==
  /\ delivery.stage[k] = "decoding"
  /\ delivery' = Moved(delivery, k, "inserted")

Publish(k) ==
  /\ delivery.stage[k] = "inserted"
  /\ delivery' \in Pumped([Moved(delivery, k, "no") EXCEPT
                             !.unreleased = @ \cup {k}])

Released(d, S) == [d EXCEPT !.unreleased = @ \ S]

(* The render thread has taken the bricks S and unpinned them.               *)
Release(S) == delivery' \in Pumped(Released(delivery, S))

StopAll ==
  delivery' = [delivery EXCEPT !.stopped = AtStage(delivery, "fetching")]

Nothing == [stage      |-> [k \in Keys |-> "no"],
            missed     |-> [k \in Keys |-> 0],
            stopped    |-> {},
            unreleased |-> {}]

Init == delivery = Nothing

Next ==
  \/ \E W \in SUBSET Keys : Submit(W)
  \/ \E k \in Keys : Fail(k) \/ Fetched(k) \/ Insert(k) \/ Publish(k)
  \/ \E S \in SUBSET Keys : Release(S)
  \/ StopAll

Spec == Init /\ [][Next]_delivery

=============================================================================

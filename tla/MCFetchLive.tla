---------------------------- MODULE MCFetchLive ----------------------------
(* FetchPipeline under its fairness, with a history variable: has a read    *)
(* failed of itself, or a decode?                                           *)
EXTENDS FetchPipeline

VARIABLE failed

liveVars == <<vars, failed>>

ReadFails ==
  \E k \in Keys :
    /\ reads'[k] < reads[k]
    /\ tracked'[k].state = "Untracked"
    /\ ~tracked[k].stop

DecodeFails ==
  \E w \in Workers : worker[w].pc = "decoding" /\ worker'[w] = Idle

LiveInit == Init /\ failed = FALSE

LiveNext == Next /\ failed' = (failed \/ ReadFails \/ DecodeFails)

LiveSpec == LiveInit /\ [][LiveNext]_liveVars /\ Fairness

(* LatestDelivered: a key the latest submit asked for is handed to the render *)
(* thread, whatever is queued before it, unless its read had already been     *)
(* told to stop, a read or a decode fails, or the pipeline is closed.  The    *)
(* submit that counts is the last one.                                        *)
LatestDelivered ==
  \A k \in Keys :
    /\ currentEpoch = MaxEpoch
    /\ tracked[k].state # "Untracked"
    /\ tracked[k].epoch = MaxEpoch
    /\ ~tracked[k].stop
    ~> ready[k] + held[k] > 0 \/ failed \/ phase # "live"

=============================================================================

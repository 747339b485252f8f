--------------------------- MODULE ViewerLifetime ---------------------------
(***************************************************************************)
(* Opening and closing the window (app/ViewerWindow): who owns the stores    *)
(* and the I/O pool (core/ThreadPool), which jobs the pool runs, and what    *)
(* happens when the window's members are destroyed, in the reverse of the    *)
(* order they are declared in.                                               *)
(*                                                                         *)
(* Abstractions.  A store is alive while the window or an eviction job holds *)
(* it (shared_ptr), the pool while the window or a live store does; the      *)
(* other jobs of a store keep a bare pointer to it.  The pipelines are       *)
(* FetchPipeline's: here they only deliver chunks, which the cache encodes   *)
(* on the pool, and stop when the window begins to close.  A job whose store *)
(* is gone may work or crash.  The detached segmentation thread is not here. *)
(*                                                                         *)
(* AnswersFilesOnly is a faulty variant of the definition it precedes;       *)
(* nothing uses it.                                                          *)
(***************************************************************************)
EXTENDS Naturals, Sequences, Functions

CONSTANTS
  PoolWorkers,  \* threads of ioPool_
  MaskTasks,    \* jobs one rebuild of the surface mask posts
  MaxQueued     \* bound on the chunks that wait for their encoding

ASSUME LifetimeAssumption == MaskTasks \in Nat \ {0} /\ MaxQueued \in Nat

VARIABLES
  remote,    \* the stores that are DiskCacheStores, the others are LocalStores
  members,   \* what the window still owns: "store", "ioPool", "ovStore"
  jobs,      \* queue_ of the pool
  busy,      \* what each worker of the pool does
  forwarded, \* reads a DiskCacheStore has passed on to the remote
  main,      \* where the main thread is
  owed,      \* answers the main thread waits for
  joiner,    \* who runs ~ThreadPool
  crashed

lifetimeVars ==
  <<remote, members, jobs, busy, forwarded, main, owed, joiner, crashed>>

Stores == {"store", "ovStore"}

Job(kind, store) == [kind |-> kind, store |-> store]
JobType == [kind : {"evict", "read", "encode", "band"}, store : Stores \cup {"none"}]
Asleep == Job("asleep", "none")
Ended  == Job("ended", "none")

-----------------------------------------------------------------------------
(* Ownership, for given members, queue and workers. *)
Alive(s, own, q, b) == s \in own \/ Job("evict", s) \in Range(q) \cup Range(b)

PoolHeld(own, q, b) == "ioPool" \in own \/ \E s \in Stores : Alive(s, own, q, b)

IsAlive(s) == Alive(s, members, jobs, busy)

Running == ~crashed /\ main # "exited"

(* The main thread goes on when it has all the answers it waits for. *)
MainRuns(at) == Running /\ joiner = "nobody" /\ owed = 0 /\ main = at

Post(q) == jobs' = jobs \o q

-----------------------------------------------------------------------------
(* The main thread. *)

(* openVolume() and loadOverlay() make a store and have the pool evict. *)
OpenVolume(s, from, to) ==
  /\ MainRuns(from)
  /\ main' = to
  /\ members' = members \cup {"ioPool", s}
  /\ \E isRemote \in BOOLEAN :
       /\ remote' = IF isRemote THEN remote \cup {s} ELSE remote
       /\ Post(IF isRemote THEN <<Job("evict", s)>> ELSE <<>>)
  /\ UNCHANGED <<busy, forwarded, owed, joiner, crashed>>

(* readMetaSync() waits for a read, of whatever metadata or sidecar. *)
ReadMeta(s, at) ==
  /\ MainRuns(at)
  /\ Post(<<Job("read", s)>>)
  /\ owed' = 1
  /\ UNCHANGED <<remote, members, busy, forwarded, main, joiner, crashed>>

(* SurfaceMask::build() waits for its bands. *)
RebuildMask ==
  /\ MainRuns("showing")
  /\ Post([i \in 1..MaskTasks |-> Job("band", "none")])
  /\ owed' = MaskTasks
  /\ UNCHANGED <<remote, members, busy, forwarded, main, joiner, crashed>>

Step(from, to) ==
  /\ MainRuns(from)
  /\ main' = to
  /\ UNCHANGED <<remote, members, jobs, busy, forwarded, owed, joiner, crashed>>

(* One member is destroyed, and with the pool's last owner the pool. *)
Release(m, from, to) ==
  /\ MainRuns(from)
  /\ main' = to
  /\ members' = members \ {m}
  /\ joiner' = IF PoolHeld(members, jobs, busy) /\ ~PoolHeld(members', jobs, busy)
                 THEN "main" ELSE "nobody"
  /\ UNCHANGED <<remote, jobs, busy, forwarded, owed, crashed>>

(* ~ThreadPool has asked the threads to stop, and the jthreads are joined. *)
AllJoined == \A w \in PoolWorkers : busy[w] = Ended

MainJoined ==
  /\ Running
  /\ joiner = "main"
  /\ AllJoined
  /\ joiner' = "nobody"
  /\ jobs' = <<>>
  /\ UNCHANGED <<remote, members, busy, forwarded, main, owed, crashed>>

Main ==
  \/ OpenVolume("store", "opening", "volume")
  \/ ReadMeta("store", "volume")
  \/ Step("volume", "opened")
  \/ Step("volume", "closing")      \* the volume cannot be opened
  \/ OpenVolume("ovStore", "opened", "overlay")
  \/ ReadMeta("ovStore", "overlay")
  \/ Step("overlay", "showing")
  \/ Step("opened", "showing")
  \/ RebuildMask
  \/ Step("showing", "closing")
  \/ Release("store", "closing", "noStore")
  \/ Release("ioPool", "noStore", "noPool")
  \/ Release("ovStore", "noPool", "closed")
  \/ Step("closed", "exited")
  \/ MainJoined

-----------------------------------------------------------------------------
(* The workers, and the remote's thread. *)
TakeJob(w) ==
  /\ Running
  /\ joiner = "nobody"
  /\ busy[w] = Asleep
  /\ jobs # <<>>
  /\ jobs' = Tail(jobs)
  /\ busy' = [busy EXCEPT ![w] = Head(jobs)]
  /\ \/ UNCHANGED crashed
     \/ /\ Head(jobs).store # "none"
        /\ ~IsAlive(Head(jobs).store)
        /\ crashed' = TRUE
  /\ UNCHANGED <<remote, members, forwarded, main, owed, joiner>>

AnswersFilesOnly(job) ==
  {n \in {0, 1} : (job.kind = "band" => n = 1) /\ (n = 1 => job.kind \in {"read", "band"})}

(* The answers a job that ends gives, whether the file is there or not. *)
Answers(job) == {IF job.kind \in {"read", "band"} THEN 1 ELSE 0}

(* A read that the cache directory cannot answer goes to the remote.  When a *)
(* job is over the worker destroys it, and what only the job kept alive.     *)
FinishPoolJob(w) ==
  LET job  == busy[w]
      idle == [busy EXCEPT ![w] = Asleep]
      last == PoolHeld(members, jobs, busy) /\ ~PoolHeld(members, jobs, idle)
  IN
  /\ Running
  /\ job \notin {Asleep, Ended}
  /\ busy' = idle
  /\ \/ \E n \in Answers(job) : owed' = owed - n
        /\ UNCHANGED forwarded
     \/ /\ job.kind = "read" /\ job.store \in remote
        /\ forwarded' = forwarded + 1
        /\ UNCHANGED owed
  /\ joiner' = IF last THEN "worker" ELSE joiner
  /\ crashed' = last
  /\ UNCHANGED <<remote, members, jobs, main>>

(* A worker that is asked to stop takes no further job. *)
End(w) ==
  /\ Running
  /\ joiner # "nobody"
  /\ busy[w] = Asleep
  /\ busy' = [busy EXCEPT ![w] = Ended]
  /\ UNCHANGED <<remote, members, jobs, forwarded, main, owed, joiner, crashed>>

RemoteAnswers ==
  /\ Running
  /\ forwarded > 0
  /\ forwarded' = forwarded - 1
  /\ owed' = owed - 1
  /\ UNCHANGED <<remote, members, jobs, busy, main, joiner, crashed>>

(* A pipeline's chunk arrives: the caller has it, the cache encodes it. *)
ChunkArrives(s) ==
  /\ Running
  /\ main = "showing"
  /\ s \in members \cap remote
  /\ Len(SelectSeq(jobs, LAMBDA j : j.kind = "encode")) < MaxQueued
  /\ Post(<<Job("encode", s)>>)
  /\ UNCHANGED <<remote, members, busy, forwarded, main, owed, joiner, crashed>>

PoolWorker(w) == TakeJob(w) \/ FinishPoolJob(w) \/ End(w)

-----------------------------------------------------------------------------
LifetimeInit ==
  /\ remote = {}
  /\ members = {}
  /\ jobs = <<>>
  /\ busy = [w \in PoolWorkers |-> Asleep]
  /\ forwarded = 0
  /\ main = "opening"
  /\ owed = 0
  /\ joiner = "nobody"
  /\ crashed = FALSE

LifetimeNext ==
  \/ Main
  \/ \E w \in PoolWorkers : PoolWorker(w)
  \/ RemoteAnswers
  \/ \E s \in Stores : ChunkArrives(s)

LifetimeSpec == LifetimeInit /\ [][LifetimeNext]_lifetimeVars

Closing == main \in {"closing", "noStore", "noPool", "closed"}

(* The threads run; the main thread, once it closes, goes on closing. *)
LifetimeFairness ==
  /\ \A w \in PoolWorkers : WF_lifetimeVars(PoolWorker(w))
  /\ WF_lifetimeVars(RemoteAnswers)
  /\ WF_lifetimeVars(Closing /\ Main)

-----------------------------------------------------------------------------
(* Properties. *)

(* PoolTypeOK: the pool's variables; owed, counted down by hand, never       *)
(* passes none.                                                              *)
PoolTypeOK ==
  /\ remote \subseteq Stores
  /\ members \subseteq Stores \cup {"ioPool"}
  /\ jobs \in Seq(JobType)
  /\ busy \in [PoolWorkers -> JobType \cup {Asleep, Ended}]
  /\ forwarded \in Nat
  /\ owed \in Nat
  /\ joiner \in {"nobody", "main", "worker"}
  /\ crashed \in BOOLEAN

(* LifetimeTypeOK: those, and where the main thread is.                      *)
LifetimeTypeOK ==
  /\ PoolTypeOK
  /\ main \in {"opening", "volume", "opened", "overlay", "showing", "exited"} \/ Closing

(* WindowGoesOn: the main thread blocks on the pool four times: for          *)
(* metadata, for optional sidecars, for the bands of the mask, and in        *)
(* ~ThreadPool.  Each time it is released, whatever else the pool has to do, *)
(* so the window opens, repaints and, once it closes, is gone.               *)
WindowGoesOn ==
  /\ owed > 0 ~> owed = 0 \/ crashed
  /\ main = "closing" ~> main = "exited" \/ crashed

(* JoinsBeforeRestDies: ThreadPool.h:38 says of threads_ "last member: joins *)
(* before rest dies": whoever destroys the pool waits for its threads.       *)
JoinsBeforeRestDies ==
  /\ joiner # "worker"
  /\ main = "exited" /\ ~PoolHeld(members, jobs, busy) => AllJoined

=============================================================================

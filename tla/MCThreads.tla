------------------------------ MODULE MCThreads -------------------------------
(* The components whose threads have to get on: each shares no state with    *)
(* the others, so a behaviour runs one of them, named by part, and the       *)
(* others stay as they were at the start.                                    *)
EXTENDS HttpStore, GpuUploader, Segmentation, ViewerLifetime

VARIABLE part

Parts == {"http", "upload", "segment", "window"}

(* Scrolls of five by two voxels: sheets in air, air only, bright material.  *)
Scroll(bytes) == [i \in Voxels |-> bytes[i + 1]]
ThreeScrolls ==
  {Scroll(<<1, 2, 2, 0, 2, 2, 2, 3, 2, 3>>),
   Scroll([i \in 1..10 |-> 0]),
   Scroll(<<1, 3, 3, 3, 0, 2, 2, 3, 2, 1>>)}

-----------------------------------------------------------------------------
PartsInit ==
  /\ part \in Parts
  /\ Init
  /\ UploadInit
  /\ SegInit
  /\ LifetimeInit

PartsNext ==
  /\ UNCHANGED part
  /\ \/ /\ part = "http" /\ Next
        /\ UNCHANGED <<uploadVars, segVars, lifetimeVars>>
     \/ /\ part = "upload" /\ UploadNext
        /\ UNCHANGED <<vars, segVars, lifetimeVars>>
     \/ /\ part = "segment" /\ SegNext
        /\ UNCHANGED <<vars, uploadVars, lifetimeVars>>
     \/ /\ part = "window" /\ LifetimeNext
        /\ UNCHANGED <<vars, uploadVars, segVars>>

partsVars ==
  <<part, vars, uploadVars, segVars, lifetimeVars>>

(* The fairness of each, while it is the one that runs. *)
PartsFairness ==
  /\ WF_vars(part = "http" /\ Loop)
  /\ \A r \in Reads : SF_vars(part = "http" /\ \E s \in Status : Reap(r, s))
  /\ WF_uploadVars(part = "upload" /\ Frame)
  /\ WF_uploadVars(part = "upload" /\ GpuFinishes)
  /\ \A w \in UploadWorkers : WF_uploadVars(part = "upload" /\ Assemble(w))
  /\ WF_segVars(part = "segment" /\ SegWork)
  /\ WF_segVars(part = "segment" /\ ShowClusters)
  /\ \A w \in PoolWorkers : WF_lifetimeVars(part = "window" /\ PoolWorker(w))
  /\ WF_lifetimeVars(part = "window" /\ RemoteAnswers)
  /\ WF_lifetimeVars(part = "window" /\ Closing /\ Main)

PartsSpec == PartsInit /\ [][PartsNext]_partsVars /\ PartsFairness

(* PartsTypeOK: every variable of the four parts stays in its type; of the   *)
(* counters kept by hand (retries, jobs, answers owed) none wraps.           *)
PartsTypeOK == TypeOK /\ UploadTypeOK /\ SegTypeOK /\ LifetimeTypeOK

=============================================================================

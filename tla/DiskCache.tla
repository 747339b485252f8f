----------------------------- MODULE DiskCache -----------------------------
(***************************************************************************)
(* The disk cache in front of a remote store (store/DiskCacheStore), for one *)
(* key: entries do not share files, so keys do not affect each other.        *)
(*                                                                         *)
(* A read is a job of the io pool that looks for a transcoded entry, a       *)
(* verbatim one and a ".miss" marker, and asks the remote store when there   *)
(* is none.  What comes back is written beside the entry as ".tmp" and       *)
(* renamed: on the remote store's callback thread, before the caller is      *)
(* answered, or by an io job after it was, if there is a transcoder.         *)
(* Several viewers may use the same directory; one may be killed.            *)
(*                                                                         *)
(* A file is the set of the units of the object written to it: opening it    *)
(* for writing empties it, also for whoever has it open, and a unit written  *)
(* beyond the end leaves a hole.  A transcoded entry holds the same units;   *)
(* decode() accepts an entry only if it is whole (DiskCacheStore.h:25).      *)
(* Evict removes any file at any time: runEviction() and invalidate() are    *)
(* such removals (the budget and the age of files are left out).             *)
(*                                                                         *)
(* BeginGoesOn, MarkAnyError, WrittenEarly and FinishOnlyIfOk are faulty     *)
(* variants of the definitions they precede; nothing uses them.              *)
(***************************************************************************)
EXTENDS Naturals, Sequences, FiniteSets

CONSTANTS
  Reads,        \* the calls of read() on this key
  Length,       \* units of the object
  Setups,       \* the installations to consider
  NoFile, Remote, Marker  \* sources of an answer other than a file

Codecs == {"none", "accepts", "refuses"}
Variants == {"coded", "plain"}
Files == Reads \X Variants

ASSUME DiskAssumption ==
  /\ Length \in Nat \ {0}
  /\ NoFile \notin Files

(* An installation: the viewer each read belongs to, for the reads that are  *)
(* called; no transcoder_, or one whose encode() accepts or refuses the      *)
(* object; and whether viewers may be killed, the disk may fill, and files   *)
(* may be removed.                                                           *)
IsSetup(s) ==
  /\ DOMAIN s = {"viewer", "codec", "kill", "full", "evict"}
  /\ DOMAIN s.viewer \subseteq Reads
  /\ s.codec \in Codecs
  /\ {s.kill, s.full, s.evict} \subseteq BOOLEAN

ASSUME SetupAssumption == \A s \in Setups : IsSetup(s)

VARIABLES
  setup,    \* the installation; it does not change
  asked,    \* reads that have been called
  stop,     \* reads whose stop token is set
  answers,  \* what each read's callback was called with, in order
  pc,       \* where each read is
  writer,   \* what is being written on behalf of each read
  units,    \* the units each file holds
  tmp,      \* the file named ".tmp" of each variant
  entry,    \* the file with the final name of each variant
  miss,     \* the ".miss" marker exists
  given,    \* history: where each read's answer came from, and its units
  refused,  \* history: files that had been read corrupt when a read began
  saidMissing  \* history: the remote store answered NotFound

callerVars == <<setup, asked, stop, refused>>
diskVars == <<units, tmp, entry, miss>>
answerVars == <<answers, given, pc>>
vars == <<callerVars, answerVars, writer, diskVars, saidMissing>>

Contract == INSTANCE StoreContract WITH closed <- FALSE

Whole == 1..Length

Idle == [at |-> "idle", variant |-> "plain", file |-> NoFile, next |-> 1]
Opening(v) == [at |-> "open", variant |-> v, file |-> NoFile, next |-> 1]

(* The callback of r is called, and nothing is left to do for r. *)
Answer(r, outcome, from, bytes) ==
  /\ answers' = [answers EXCEPT ![r] = Append(@, outcome)]
  /\ given' = [given EXCEPT ![r] = [from |-> from, units |-> bytes]]
  /\ pc' = [pc EXCEPT ![r] = "done"]

Goto(r, place) ==
  /\ pc' = [pc EXCEPT ![r] = place]
  /\ UNCHANGED <<answers, given>>

-----------------------------------------------------------------------------
(* Callers. *)

Corrupt(r) == given[r].from \in Files /\ given[r].units # Whole

Ask(r) ==
  /\ pc[r] = "new"
  /\ r \in DOMAIN setup.viewer
  /\ asked' = asked \cup {r}
  /\ refused' = [refused EXCEPT
                   ![r] = {given[q].from : q \in {p \in Reads : Corrupt(p)}}]
  /\ Goto(r, "posted")
  /\ UNCHANGED <<setup, stop, writer, diskVars, saidMissing>>

Stop(r) ==
  /\ r \in asked \ stop
  /\ stop' = stop \cup {r}
  /\ UNCHANGED <<setup, asked, refused, answerVars, writer, diskVars, saidMissing>>

-----------------------------------------------------------------------------
(* The job of a read. *)

FirstVariant == IF setup.codec = "none" THEN "plain" ELSE "coded"

BeginGoesOn(r) ==
  /\ pc[r] = "posted"
  /\ IF r \in stop
     THEN /\ answers' = [answers EXCEPT ![r] = Append(@, "Cancelled")]
          /\ pc' = [pc EXCEPT ![r] = FirstVariant]
          /\ UNCHANGED given
     ELSE Goto(r, FirstVariant)
  /\ UNCHANGED <<callerVars, writer, diskVars, saidMissing>>

Begin(r) ==
  /\ pc[r] = "posted"
  /\ IF r \in stop THEN Answer(r, "Cancelled", NoFile, Whole)
                    ELSE Goto(r, FirstVariant)
  /\ UNCHANGED <<callerVars, writer, diskVars, saidMissing>>

Decodes(file) == units[file] = Whole

LookForCoded(r) ==
  /\ pc[r] = "coded"
  /\ LET f == entry["coded"] IN
       IF f = NoFile THEN Goto(r, "plain")
       ELSE IF Decodes(f) THEN Answer(r, "Bytes", f, units[f])
       ELSE Goto(r, "corrupt")
  /\ UNCHANGED <<callerVars, writer, diskVars, saidMissing>>

DropCoded(r) ==
  /\ pc[r] = "corrupt"
  /\ entry' = [entry EXCEPT !["coded"] = NoFile]
  /\ Goto(r, "plain")
  /\ UNCHANGED <<callerVars, writer, units, tmp, miss, saidMissing>>

(* readWholeFile() compares what it read with the file's size a moment ago:  *)
(* a file cut short is as good as any.                                       *)
LookForPlain(r) ==
  /\ pc[r] = "plain"
  /\ LET f == entry["plain"] IN
       IF f = NoFile THEN Goto(r, "forward")
                     ELSE Answer(r, "Bytes", f, units[f])
  /\ UNCHANGED <<callerVars, writer, diskVars, saidMissing>>

Forward(r) ==
  /\ pc[r] = "forward"
  /\ entry' = [entry EXCEPT !["plain"] = NoFile]
  /\ IF miss THEN Answer(r, "NotFound", Marker, {}) ELSE Goto(r, "remote")
  /\ UNCHANGED <<callerVars, writer, units, tmp, miss, saidMissing>>

-----------------------------------------------------------------------------
(* The remote store's answers.  A viewer has one thread for them, which is   *)
(* busy while it stores a verbatim entry.                                    *)
CallbackThreadFree(r) ==
  \A q \in asked : setup.viewer[q] = setup.viewer[r] => pc[q] # "storing"

RemoteBytes(r) ==
  /\ pc[r] = "remote"
  /\ CallbackThreadFree(r)
  /\ IF setup.codec = "none" THEN Goto(r, "storing")
                             ELSE Answer(r, "Bytes", Remote, Whole)
  /\ writer' = [writer EXCEPT
                  ![r] = Opening(IF setup.codec = "accepts" THEN "coded" ELSE "plain")]
  /\ UNCHANGED <<callerVars, diskVars, saidMissing>>

MarkAnyError(outcome) == TRUE
Marks(outcome) == outcome = "NotFound"

RemoteFails(r, outcome) ==
  /\ pc[r] = "remote"
  /\ CallbackThreadFree(r)
  /\ outcome = "Cancelled" => r \in stop
  /\ Answer(r, outcome, Remote, {})
  /\ IF Marks(outcome) THEN miss' \in {TRUE} \cup (IF setup.full THEN {miss} ELSE {})
                       ELSE UNCHANGED miss
  /\ saidMissing' = (saidMissing \/ outcome = "NotFound")
  /\ UNCHANGED <<callerVars, writer, units, tmp, entry>>

-----------------------------------------------------------------------------
(* writeFileAtomic(), on behalf of r. *)

Writing(r, place) == writer[r].at = place

(* It returned ok.  A coded entry that could not be written is written       *)
(* verbatim instead; the caller that waits is answered either way.           *)
FinishOnlyIfOk(r, ok) ==
  IF writer[r].variant = "coded" /\ ~ok
  THEN /\ writer' = [writer EXCEPT ![r] = Opening("plain")]
       /\ UNCHANGED answerVars
  ELSE /\ writer' = [writer EXCEPT ![r] = Idle]
       /\ IF pc[r] = "storing" /\ ok THEN Answer(r, "Bytes", Remote, Whole)
                                     ELSE UNCHANGED answerVars

Finish(r, ok) ==
  IF writer[r].variant = "coded" /\ ~ok
  THEN /\ writer' = [writer EXCEPT ![r] = Opening("plain")]
       /\ UNCHANGED answerVars
  ELSE /\ writer' = [writer EXCEPT ![r] = Idle]
       /\ IF pc[r] = "storing" THEN Answer(r, "Bytes", Remote, Whole)
                               ELSE UNCHANGED answerVars

(* A ".tmp" that exists is the same file to both that have it open. *)
Open(r) ==
  LET v == writer[r].variant
      f == IF tmp[v] = NoFile THEN <<r, v>> ELSE tmp[v]
  IN /\ Writing(r, "open")
     /\ tmp' = [tmp EXCEPT ![v] = f]
     /\ units' = [units EXCEPT ![f] = {}]
     /\ writer' = [writer EXCEPT ![r].at = "write", ![r].file = f]
     /\ UNCHANGED <<callerVars, answerVars, entry, miss, saidMissing>>

(* The end of the data may wait in the stream's buffer for fclose(), whose   *)
(* result is not looked at.                                                  *)
Lost(n) == n = Length /\ setup.full

Write(r) ==
  LET n == writer[r].next IN
  /\ Writing(r, "write")
  /\ n <= Length
  /\ \/ units' = [units EXCEPT ![writer[r].file] = @ \cup {n}]
     \/ Lost(n) /\ UNCHANGED units
  /\ writer' = [writer EXCEPT ![r].next = n + 1]
  /\ UNCHANGED <<callerVars, answerVars, tmp, entry, miss, saidMissing>>

WrittenEarly(r) == Writing(r, "write") /\ writer[r].next >= Length
Written(r) == Writing(r, "write") /\ writer[r].next > Length

(* rename() fails where another writer has renamed or removed the file. *)
Rename(r) ==
  LET v == writer[r].variant IN
  /\ Written(r)
  /\ IF tmp[v] # NoFile
     THEN /\ entry' = [entry EXCEPT ![v] = tmp[v]]
          /\ tmp' = [tmp EXCEPT ![v] = NoFile]
          /\ Finish(r, TRUE)
     ELSE /\ writer' = [writer EXCEPT ![r].at = "lost"]
          /\ UNCHANGED <<answerVars, tmp, entry>>
  /\ UNCHANGED <<callerVars, units, miss, saidMissing>>

(* The loser removes a ".tmp", which may be a third writer's by now, and is  *)
(* content with any entry.                                                   *)
LoseRace(r) ==
  LET v == writer[r].variant IN
  /\ Writing(r, "lost")
  /\ tmp' = [tmp EXCEPT ![v] = NoFile]
  /\ Finish(r, entry[v] # NoFile)
  /\ UNCHANGED <<callerVars, units, entry, miss, saidMissing>>

CannotOpen(r) ==
  /\ setup.full
  /\ Writing(r, "open")
  /\ Finish(r, FALSE)
  /\ UNCHANGED <<callerVars, diskVars, saidMissing>>

CannotWrite(r) ==
  /\ setup.full
  /\ Writing(r, "write")
  /\ writer[r].next <= Length
  /\ tmp' = [tmp EXCEPT ![writer[r].variant] = NoFile]
  /\ Finish(r, FALSE)
  /\ UNCHANGED <<callerVars, units, entry, miss, saidMissing>>

-----------------------------------------------------------------------------
Evict ==
  /\ setup.evict
  /\ \/ \E v \in Variants : /\ entry' = [entry EXCEPT ![v] = NoFile]
                            /\ UNCHANGED <<tmp, miss>>
     \/ \E v \in Variants : /\ tmp' = [tmp EXCEPT ![v] = NoFile]
                            /\ UNCHANGED <<entry, miss>>
     \/ miss' = FALSE /\ UNCHANGED <<entry, tmp>>
  /\ UNCHANGED <<callerVars, answerVars, writer, units, saidMissing>>

Crash(p) ==
  /\ setup.kill
  /\ pc' = [r \in Reads |-> IF r \in asked /\ setup.viewer[r] = p /\ pc[r] # "done"
                            THEN "dead" ELSE pc[r]]
  /\ writer' = [r \in Reads |-> IF r \in asked /\ setup.viewer[r] = p
                                THEN Idle ELSE writer[r]]
  /\ UNCHANGED <<callerVars, answers, given, diskVars, saidMissing>>

-----------------------------------------------------------------------------
Init ==
  /\ setup \in Setups
  /\ asked = {}
  /\ stop = {}
  /\ answers = [r \in Reads |-> <<>>]
  /\ pc = [r \in Reads |-> "new"]
  /\ writer = [r \in Reads |-> Idle]
  /\ units = [f \in Files |-> {}]
  /\ tmp = [v \in Variants |-> NoFile]
  /\ entry = [v \in Variants |-> NoFile]
  /\ miss = FALSE
  /\ given = [r \in Reads |-> [from |-> NoFile, units |-> Whole]]
  /\ refused = [r \in Reads |-> {}]
  /\ saidMissing = FALSE

Look(r) ==
  Begin(r) \/ LookForCoded(r) \/ DropCoded(r) \/ LookForPlain(r) \/ Forward(r)

RemoteAnswers(r) ==
  \/ RemoteBytes(r)
  \/ \E o \in Contract!Outcome \ {"Bytes"} : RemoteFails(r, o)

Store(r) ==
  \/ Open(r) \/ Write(r) \/ Rename(r) \/ LoseRace(r)
  \/ CannotOpen(r) \/ CannotWrite(r)

Work(r) == Look(r) \/ RemoteAnswers(r) \/ Store(r)

Next ==
  \/ \E r \in Reads : Ask(r) \/ Stop(r) \/ Work(r)
  \/ Evict
  \/ \E r \in asked : Crash(setup.viewer[r])

Spec == Init /\ [][Next]_vars

(* The io pool's threads and the remote store run (StoreContract; HttpStore  *)
(* shows that a read that is not closed on is answered).                     *)
FairSpec == Spec /\ \A r \in Reads : WF_vars(Work(r))

-----------------------------------------------------------------------------
(* Properties. *)

(* ImplementsContract: as its callers see it, the cache answers every read   *)
(* at most once, with Cancelled only when the read was told to stop.         *)
ImplementsContract == Contract!Spec

(* EveryReadAnswered: no path through the lookups, the callback or the       *)
(* writer forgets the caller, whatever fails on the disk.                    *)
EveryReadAnswered ==
  \A r \in Reads : r \in asked ~> answers[r] # <<>> \/ pc[r] = "dead"

OneViewer == \A q, r \in DOMAIN setup.viewer : setup.viewer[q] = setup.viewer[r]
Undisturbed == ~setup.kill /\ ~setup.full /\ ~setup.evict

(* MissingOnRemote: absence is learnt from the remote store only: a timeout, *)
(* a cancellation or an empty disk never turns into NotFound (which the      *)
(* viewer draws as empty space for the whole session, and the next ones).    *)
MissingOnRemote ==
  miss \/ (\E r \in Reads : answers[r] = <<"NotFound">>) => saidMissing

AllBytesWhole ==
  \A r \in Reads : answers[r] = <<"Bytes">> => given[r].units = Whole

EntriesWhole == \A v \in Variants : entry[v] # NoFile => units[entry[v]] = Whole

(* BytesAreWhole: without a transcoder and with room on the disk, what a     *)
(* caller gets is the object if one viewer at a time uses the directory,     *)
(* which is killed and started again and loses files to eviction: readers    *)
(* meet the writer of the same entry, but one thread does all the writing.   *)
(* Two viewers share the ".tmp" file: each may empty it, write into it or    *)
(* rename it under the other.  Once all are done the entry is whole all the  *)
(* same, if nothing else touches the directory.                              *)
BytesAreWhole ==
  setup.codec = "none" /\ ~setup.full =>
    /\ OneViewer => AllBytesWhole
    /\ Undisturbed /\ (\A r \in Reads : writer[r] = Idle) => EntriesWhole

(* CorruptIsRefetched: DiskCacheStore.h:37-38 says that corrupt entries are  *)
(* handled by a refetch: a later read does not get the same corrupt file.    *)
CorruptIsRefetched ==
  \A r \in Reads : Corrupt(r) => given[r].from \notin refused[r]

=============================================================================

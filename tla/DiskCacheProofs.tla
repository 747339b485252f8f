--------------------------- MODULE DiskCacheProofs ---------------------------
(***************************************************************************)
(* Proofs about DiskCache, for any reads, viewers, transcoders and length of *)
(* the object: absence is learnt from the remote store only, what callers    *)
(* get is the whole object where the code can promise it, and the cache      *)
(* keeps the contract of a store.                                            *)
(*                                                                         *)
(* BytesAreWhole has two halves with an argument each.  With one viewer, the *)
(* callback thread makes one writer (OneWriter), which has a file of its own *)
(* that no reader can open (SingleWriter).  With several that share a file,  *)
(* whoever emptied it last goes on to write all of it (Covered).             *)
(***************************************************************************)
EXTENDS DiskCache, SequenceTheorems, TLAPS

Places == {"new", "posted", "coded", "plain", "corrupt", "forward", "remote",
           "storing", "done", "dead"}

Early == {"new", "posted", "coded", "plain", "corrupt", "forward", "remote"}

Writer == [at      : {"idle", "open", "write", "lost"},
           variant : Variants,
           file    : Files \cup {NoFile},
           next    : 1 .. Length + 1]

Given == [from : Files \cup {NoFile, Remote, Marker}, units : SUBSET Whole]

DiskTypeOK ==
  /\ setup \in Setups
  /\ asked \subseteq Reads \cap DOMAIN setup.viewer
  /\ stop \subseteq asked
  /\ pc \in [Reads -> Places]
  /\ answers \in [Reads -> Seq(Contract!Outcome)]
  /\ writer \in [Reads -> Writer]
  /\ units \in [Files -> SUBSET Whole]
  /\ tmp \in [Variants -> Files \cup {NoFile}]
  /\ entry \in [Variants -> Files \cup {NoFile}]
  /\ miss \in BOOLEAN
  /\ given \in [Reads -> Given]
  /\ saidMissing \in BOOLEAN

(* A read is answered when it is done, once. *)
AnsweredOnce ==
  \A r \in Reads :
    /\ r \in asked <=> pc[r] # "new"
    /\ pc[r] # "done" => answers[r] = <<>>
    /\ pc[r] = "done" => \E o \in Contract!Outcome : answers[r] = <<o>>

MissLearnt ==
  /\ miss => saidMissing
  /\ \A r \in Reads : answers[r] = <<"NotFound">> => saidMissing

(* Nothing is written for a read before its bytes have come.                 *)
WritersRun ==
  \A r \in Reads : /\ pc[r] \in Early => writer[r].at = "idle"
                   /\ writer[r].at = "open" => writer[r].next = 1
                   /\ writer[r].at = "write" => writer[r].file \in Files

Base == DiskTypeOK /\ AnsweredOnce /\ MissLearnt /\ WritersRun

(* Where writers run to their end, a file in use is whole, or whoever emptied *)
(* it last is still writing.                                                 *)
Fills(r, f) ==
  /\ writer[r].at = "write"
  /\ writer[r].file = f
  /\ 1 .. writer[r].next - 1 \subseteq units[f]

InUse == {f \in Files : \E v \in Variants : f = tmp[v] \/ f = entry[v]}

Covered ==
  ~setup.kill /\ ~setup.full =>
    \A f \in InUse : units[f] = Whole \/ \E r \in Reads : Fills(r, f)

(* The case of one viewer without a transcoder and with room on the disk.    *)
SingleCase == OneViewer /\ setup.codec = "none" /\ ~setup.full

OneWriter ==
  /\ \A r \in Reads : writer[r].at # "idle" => pc[r] = "storing" /\ writer[r].variant = "plain"
  /\ \A q, r \in Reads : pc[q] = "storing" /\ pc[r] = "storing" => q = r

(* A read that has not opened its file finds it unused; the ".tmp" file is   *)
(* not the entry, and the one being written to is the ".tmp" file, if any.   *)
FilesApart ==
  /\ tmp["coded"] = NoFile /\ entry["coded"] = NoFile
  /\ \A r \in Reads : pc[r] \in Early \/ writer[r].at = "open" =>
       <<r, "plain">> # tmp["plain"] /\ <<r, "plain">> # entry["plain"]
  /\ tmp["plain"] # NoFile => tmp["plain"] # entry["plain"]
  /\ \A r \in Reads : writer[r].at = "write" =>
       /\ tmp["plain"] \in {writer[r].file, NoFile}
       /\ writer[r].file # entry["plain"]
       /\ Fills(r, writer[r].file)

Single == OneWriter /\ FilesApart /\ EntriesWhole /\ AllBytesWhole
SingleWriter == SingleCase => Single

DInv == Base /\ Covered /\ SingleWriter

-----------------------------------------------------------------------------
(* The steps, by what they change. *)

Loses(r) == writer' = [writer EXCEPT ![r].at = "lost"]
Starts(r, f) == writer' = [writer EXCEPT ![r].at = "write", ![r].file = f]
Advances(r) == writer' = [writer EXCEPT ![r].next = writer[r].next + 1]

(* The three ways in which a writer goes on, field by field.                 *)
LEMMA LosesFields ==
  ASSUME writer \in [Reads -> Writer], NEW r \in Reads, Loses(r)
  PROVE  /\ writer' \in [Reads -> Writer]
         /\ writer'[r].at = "lost" /\ writer'[r].variant = writer[r].variant
         /\ \A q \in Reads \ {r} : writer'[q] = writer[q]
BY DEF Writer, Loses

(* A writer has opened its file and keeps the rest of its record.            *)
LEMMA StartsFields ==
  ASSUME writer \in [Reads -> Writer], NEW r \in Reads, NEW f \in Files, Starts(r, f)
  PROVE  /\ writer' \in [Reads -> Writer]
         /\ writer'[r].at = "write" /\ writer'[r].file = f
         /\ writer'[r].next = writer[r].next /\ writer'[r].variant = writer[r].variant
         /\ \A q \in Reads \ {r} : writer'[q] = writer[q]
BY DEF Writer, Starts

(* A writer goes on to the next unit.                                        *)
LEMMA AdvancesFields ==
  ASSUME writer \in [Reads -> Writer], NEW r \in Reads, writer[r].next <= Length, Advances(r)
  PROVE  /\ writer' \in [Reads -> Writer]
         /\ writer'[r].at = writer[r].at /\ writer'[r].file = writer[r].file
         /\ writer'[r].next = writer[r].next + 1 /\ writer'[r].variant = writer[r].variant
         /\ \A q \in Reads \ {r} : writer'[q] = writer[q]
BY DiskAssumption DEF Writer, Advances, DiskAssumption

(* A writer at rest, and one about to open its file.                         *)
LEMMA IdleFields ==
  /\ Idle \in Writer /\ Idle.at = "idle"
  /\ \A v \in Variants : /\ Opening(v) \in Writer /\ Opening(v).at = "open"
                         /\ Opening(v).variant = v /\ Opening(v).next = 1
<1>1. Idle \in Writer /\ Idle.at = "idle"
  BY DiskAssumption DEF Writer, Idle, Variants, DiskAssumption
<1>2. ASSUME NEW v \in Variants
      PROVE  /\ Opening(v) \in Writer /\ Opening(v).at = "open"
             /\ Opening(v).variant = v /\ Opening(v).next = 1
  BY DiskAssumption DEF Opening, Writer, DiskAssumption
<1> QED BY <1>1, <1>2, Zenon

(* A read is answered.                                                       *)
LEMMA AnswerChanges ==
  ASSUME DiskTypeOK, AnsweredOnce, NEW r \in Reads, pc[r] # "done",
         NEW o \in Contract!Outcome,
         NEW from \in Files \cup {NoFile, Remote, Marker}, NEW bytes \in SUBSET Whole,
         Answer(r, o, from, bytes)
  PROVE  /\ pc' = [pc EXCEPT ![r] = "done"] /\ pc' \in [Reads -> Places]
         /\ answers' = [answers EXCEPT ![r] = <<o>>]
         /\ answers' \in [Reads -> Seq(Contract!Outcome)]
         /\ given' \in [Reads -> Given]
         /\ given'[r].from = from /\ given'[r].units = bytes
         /\ \A q \in Reads \ {r} : given'[q] = given[q]
<1>1. answers[r] = <<>>
  BY DEF AnsweredOnce
<1>2. Append(answers[r], o) = <<o>>
  BY <1>1
<1>3. answers' = [answers EXCEPT ![r] = <<o>>]
  BY <1>2 DEF Answer
<1>4. answers' \in [Reads -> Seq(Contract!Outcome)]
  BY <1>3 DEF DiskTypeOK
<1>5. pc' = [pc EXCEPT ![r] = "done"] /\ pc' \in [Reads -> Places]
  BY DEF DiskTypeOK, Answer, Places
<1>6. [from |-> from, units |-> bytes] \in Given
  BY DEF Given
<1>7. given' \in [Reads -> Given] /\ given'[r] = [from |-> from, units |-> bytes]
      /\ \A q \in Reads \ {r} : given'[q] = given[q]
  BY <1>6 DEF DiskTypeOK, Answer
<1>8. given'[r].from = from /\ given'[r].units = bytes
  BY <1>7
<1> QED BY <1>3, <1>4, <1>5, <1>7, <1>8

(* A read goes on without an answer.                                         *)
LEMMA GotoChanges ==
  ASSUME DiskTypeOK, NEW r \in Reads, NEW place \in Places, Goto(r, place)
  PROVE  /\ pc' = [pc EXCEPT ![r] = place] /\ pc' \in [Reads -> Places]
         /\ answers' = answers /\ given' = given
BY DEF DiskTypeOK, Goto

(* What a step does to the read it works for: nothing, or it goes on, or is  *)
(* answered: NotFound when the remote store has said so, Cancelled when the  *)
(* read was told to stop, bytes that are the object's or those of an entry.  *)
Learnt(r, outcome, bytes) ==
  /\ outcome = "NotFound" => saidMissing'
  /\ outcome = "Cancelled" => r \in stop
  /\ outcome = "Bytes" =>
       \/ bytes = Whole
       \/ entry["plain"] \in Files /\ bytes = units[entry["plain"]]

Reply(r) ==
  \E o \in Contract!Outcome, from \in Files \cup {NoFile, Remote, Marker},
     bytes \in SUBSET Whole : Answer(r, o, from, bytes) /\ Learnt(r, o, bytes)

Proceed(r) == \E place \in Places \ {"new", "done"} : Goto(r, place)

Under == asked' = asked /\ stop' = stop /\ setup' = setup

ReadStep(r) ==
  /\ Under
  /\ \/ UNCHANGED answerVars
     \/ pc[r] \notin {"new", "done"} /\ (Proceed(r) \/ Reply(r))

ReadsTyped ==
  /\ pc \in [Reads -> Places]
  /\ answers \in [Reads -> Seq(Contract!Outcome)]
  /\ given \in [Reads -> Given]

(* Whatever a step does to its read, reads stay well answered.               *)
LEMMA ReadStepKeeps ==
  ASSUME Base, NEW r \in Reads, ReadStep(r), saidMissing => saidMissing'
  PROVE  /\ ReadsTyped' /\ AnsweredOnce'
         /\ \A q \in Reads : answers'[q] = <<"NotFound">> => saidMissing'
<1> USE DEF Base, Under
<1>1. CASE UNCHANGED answerVars
  BY <1>1 DEF ReadStep, answerVars, ReadsTyped, AnsweredOnce, DiskTypeOK, MissLearnt
<1>2. CASE pc[r] \notin {"new", "done"} /\ Proceed(r)
  <2>1. PICK place \in Places \ {"new", "done"} : Goto(r, place)
    BY <1>2 DEF Proceed
  <2>2. /\ pc' = [pc EXCEPT ![r] = place] /\ pc' \in [Reads -> Places]
        /\ answers' = answers /\ given' = given
    BY <2>1, GotoChanges
  <2> QED BY <1>2, <2>2 DEF ReadStep, ReadsTyped, AnsweredOnce, DiskTypeOK, MissLearnt
<1>3. CASE pc[r] \notin {"new", "done"} /\ Reply(r)
  <2>1. PICK o \in Contract!Outcome, from \in Files \cup {NoFile, Remote, Marker},
             bytes \in SUBSET Whole : Answer(r, o, from, bytes) /\ Learnt(r, o, bytes)
    BY <1>3 DEF Reply
  <2>2. /\ pc' = [pc EXCEPT ![r] = "done"] /\ pc' \in [Reads -> Places]
        /\ answers' = [answers EXCEPT ![r] = <<o>>]
        /\ answers' \in [Reads -> Seq(Contract!Outcome)]
        /\ given' \in [Reads -> Given]
    BY <1>3, <2>1, AnswerChanges
  <2>3. ReadsTyped'
    BY <2>2 DEF ReadsTyped
  <2>4. AnsweredOnce'
    BY <1>3, <2>2 DEF ReadStep, AnsweredOnce, DiskTypeOK
  <2>5. o = "NotFound" => saidMissing'
    BY <2>1 DEF Learnt
  <2>6. ASSUME NEW q \in Reads, answers'[q] = <<"NotFound">> PROVE saidMissing'
    <3>1. CASE q = r
      <4>1. answers'[q] = <<o>>
        BY <2>2, <3>1 DEF DiskTypeOK
      <4>2. o = "NotFound"
        BY <2>6, <4>1
      <4> QED BY <2>5, <4>2
    <3>2. CASE q # r
      BY <2>2, <2>6, <3>2 DEF DiskTypeOK, MissLearnt
    <3> QED BY <3>1, <3>2
  <2> QED BY <2>3, <2>4, <2>6
<1> QED BY <1>1, <1>2, <1>3 DEF ReadStep

DiskTyped ==
  /\ units \in [Files -> SUBSET Whole]
  /\ tmp \in [Variants -> Files \cup {NoFile}]
  /\ entry \in [Variants -> Files \cup {NoFile}]
  /\ miss \in BOOLEAN
  /\ saidMissing \in BOOLEAN

(* Base is kept if the disk stays typed and the writers sound.               *)
LEMMA StepKeepsBase ==
  ASSUME Base, NEW r \in Reads, ReadStep(r), DiskTyped',
         saidMissing => saidMissing', miss' => saidMissing',
         writer' \in [Reads -> Writer], WritersRun'
  PROVE  Base'
<1>1. ReadsTyped' /\ AnsweredOnce'
      /\ \A q \in Reads : answers'[q] = <<"NotFound">> => saidMissing'
  BY ReadStepKeeps
<1>2. /\ setup' \in Setups /\ asked' \subseteq Reads \cap DOMAIN setup'.viewer
      /\ stop' \subseteq asked'
  BY DEF Base, DiskTypeOK, ReadStep, Under
<1>3. DiskTypeOK'
  BY <1>1, <1>2 DEF DiskTypeOK, ReadsTyped, DiskTyped
<1>4. MissLearnt'
  BY <1>1 DEF MissLearnt
<1> QED BY <1>1, <1>3, <1>4 DEF Base

(* What the lookups, the remote store's errors and evictions do to the disk: *)
(* names go, files stay as they are.                                         *)
Removes ==
  /\ units' = units
  /\ tmp' \in [Variants -> Files \cup {NoFile}]
  /\ entry' \in [Variants -> Files \cup {NoFile}]
  /\ \A v \in Variants : tmp'[v] \in {tmp[v], NoFile} /\ entry'[v] \in {entry[v], NoFile}

(* A step that works for a read leaves the other reads alone.                *)
LEMMA OthersStay ==
  ASSUME Base, NEW r \in Reads, ReadStep(r)
  PROVE  \A q \in Reads \ {r} : pc'[q] = pc[q] /\ answers'[q] = answers[q] /\ given'[q] = given[q]
<1>1. CASE UNCHANGED answerVars
  BY <1>1 DEF answerVars
<1>2. CASE Proceed(r)
  BY <1>2 DEF Proceed, Goto, Base, DiskTypeOK
<1>3. CASE Reply(r)
  BY <1>3 DEF Reply, Answer, Base, DiskTypeOK
<1> QED BY <1>1, <1>2, <1>3 DEF ReadStep

(* The writers go on, and a read that was not written for still is not.      *)
LEMMA WriterUntouched ==
  ASSUME Base, NEW r \in Reads, ReadStep(r), pc[r] \in Early, writer' = writer
  PROVE  WritersRun'
<1>1. \A q \in Reads \ {r} : pc'[q] = pc[q]
  BY OthersStay
<1>2. writer[r].at = "idle"
  BY DEF Base, WritersRun
<1> QED BY <1>1, <1>2 DEF Base, WritersRun

(* The writer of the read a step works for moves.                            *)
Sound(w) ==
  /\ w \in Writer
  /\ w.at = "open" => w.next = 1
  /\ w.at = "write" => w.file \in Files

(* A writer may move while its read is past the lookups.                     *)
LEMMA WriterMoves ==
  ASSUME Base, NEW r \in Reads, ReadStep(r), pc'[r] \notin Early,
         writer' \in [Reads -> Writer], Sound(writer'[r]),
         \A q \in Reads \ {r} : writer'[q] = writer[q]
  PROVE  WritersRun'
<1>1. \A q \in Reads \ {r} : pc'[q] = pc[q]
  BY OthersStay
<1> QED BY <1>1 DEF Base, WritersRun, Sound

(* The job of a read starts, or finds that the read was stopped.             *)
LEMMA BeginChanges ==
  ASSUME Base, NEW r \in Reads, Begin(r)
  PROVE  ReadStep(r) /\ Removes
<1>1. pc[r] = "posted" /\ Under
  BY DEF Begin, callerVars, Under
<1>2. Removes
  BY DEF Begin, diskVars, Removes, Base, DiskTypeOK
<1>3. CASE r \in stop
  <2>1. Answer(r, "Cancelled", NoFile, Whole)
    BY <1>3 DEF Begin
  <2>2. Learnt(r, "Cancelled", Whole)
    BY <1>3 DEF Learnt
  <2>3. "Cancelled" \in Contract!Outcome /\ Whole \in SUBSET Whole
    BY DEF Contract!Outcome
  <2>4. Reply(r)
    BY <2>1, <2>2, <2>3, Zenon DEF Reply
  <2> QED BY <1>1, <1>2, <2>4 DEF ReadStep
<1>4. CASE r \notin stop
  <2>1. Goto(r, FirstVariant) /\ FirstVariant \in Places \ {"new", "done"}
    BY <1>4 DEF Begin, FirstVariant, Places
  <2>2. Proceed(r)
    BY <2>1, Zenon DEF Proceed
  <2> QED BY <1>1, <1>2, <2>2 DEF ReadStep
<1> QED BY <1>3, <1>4

(* A transcoded entry answers the read only if it is whole.                  *)
LEMMA LookForCodedChanges ==
  ASSUME Base, NEW r \in Reads, LookForCoded(r)
  PROVE  ReadStep(r) /\ Removes
<1> DEFINE f == entry["coded"]
<1>1. pc[r] = "coded" /\ Under
  BY DEF LookForCoded, callerVars, Under
<1>2. Removes
  BY DEF LookForCoded, diskVars, Removes, Base, DiskTypeOK
<1>3. "plain" \in Places \ {"new", "done"} /\ "corrupt" \in Places \ {"new", "done"}
  BY DEF Places
<1>4. f \in Files \cup {NoFile}
  BY DEF Base, DiskTypeOK, Variants
<1>5. CASE f = NoFile
  <2>1. Goto(r, "plain")
    BY <1>5 DEF LookForCoded
  <2>2. Proceed(r)
    BY <1>3, <2>1, Zenon DEF Proceed
  <2> QED BY <1>1, <1>2, <2>2 DEF ReadStep
<1>6. CASE f # NoFile /\ Decodes(f)
  <2>1. Answer(r, "Bytes", f, units[f])
    BY <1>6 DEF LookForCoded
  <2>2. units[f] = Whole
    BY <1>6 DEF Decodes
  <2>3. "Bytes" \in Contract!Outcome /\ units[f] \in SUBSET Whole
        /\ f \in Files \cup {NoFile, Remote, Marker}
    BY <2>2, <1>4 DEF Contract!Outcome
  <2>4. Learnt(r, "Bytes", units[f])
    BY <2>2 DEF Learnt
  <2>5. Reply(r)
    BY <2>1, <2>3, <2>4, Zenon DEF Reply
  <2> QED BY <1>1, <1>2, <2>5 DEF ReadStep
<1>7. CASE f # NoFile /\ ~Decodes(f)
  <2>1. Goto(r, "corrupt")
    BY <1>7 DEF LookForCoded
  <2>2. Proceed(r)
    BY <1>3, <2>1, Zenon DEF Proceed
  <2> QED BY <1>1, <1>2, <2>2 DEF ReadStep
<1> QED BY <1>5, <1>6, <1>7

(* A corrupt transcoded entry loses its name.                                *)
LEMMA DropCodedChanges ==
  ASSUME Base, NEW r \in Reads, DropCoded(r)
  PROVE  ReadStep(r) /\ Removes
<1>1. pc[r] = "corrupt" /\ Under /\ Goto(r, "plain")
  BY DEF DropCoded, callerVars, Under
<1>2. Removes
  BY DEF DropCoded, Removes, Base, DiskTypeOK
<1>3. Proceed(r)
  BY <1>1 DEF Proceed, Places
<1> QED BY <1>1, <1>2, <1>3 DEF ReadStep

(* A verbatim entry answers the read as it is.                               *)
LEMMA LookForPlainChanges ==
  ASSUME Base, NEW r \in Reads, LookForPlain(r)
  PROVE  ReadStep(r) /\ Removes
<1> DEFINE f == entry["plain"]
<1>1. pc[r] = "plain" /\ Under
  BY DEF LookForPlain, callerVars, Under
<1>2. Removes
  BY DEF LookForPlain, diskVars, Removes, Base, DiskTypeOK
<1>3. f \in Files \cup {NoFile}
  BY DEF Base, DiskTypeOK, Variants
<1>4. CASE f = NoFile
  <2>1. Goto(r, "forward") /\ "forward" \in Places \ {"new", "done"}
    BY <1>4 DEF LookForPlain, Places
  <2>2. Proceed(r)
    BY <2>1, Zenon DEF Proceed
  <2> QED BY <1>1, <1>2, <2>2 DEF ReadStep
<1>5. CASE f # NoFile
  <2>1. Answer(r, "Bytes", f, units[f])
    BY <1>5 DEF LookForPlain
  <2>2. f \in Files
    BY <1>3, <1>5
  <2>3. "Bytes" \in Contract!Outcome /\ units[f] \in SUBSET Whole
        /\ f \in Files \cup {NoFile, Remote, Marker}
    BY <2>2 DEF Contract!Outcome, Base, DiskTypeOK
  <2>4. Learnt(r, "Bytes", units[f])
    BY <2>2 DEF Learnt
  <2>5. Reply(r)
    BY <2>1, <2>3, <2>4, Zenon DEF Reply
  <2> QED BY <1>1, <1>2, <2>5 DEF ReadStep
<1> QED BY <1>4, <1>5

(* The marker answers NotFound, which the remote store once said.            *)
LEMMA ForwardChanges ==
  ASSUME Base, NEW r \in Reads, Forward(r)
  PROVE  ReadStep(r) /\ Removes
<1>1. pc[r] = "forward" /\ Under
  BY DEF Forward, callerVars, Under
<1>2. Removes
  BY DEF Forward, Removes, Base, DiskTypeOK
<1>3. CASE miss
  <2>1. Answer(r, "NotFound", Marker, {})
    BY <1>3 DEF Forward
  <2>2. Learnt(r, "NotFound", {})
    BY <1>3 DEF Learnt, Forward, Base, MissLearnt
  <2>3. "NotFound" \in Contract!Outcome /\ {} \in SUBSET Whole
    BY DEF Contract!Outcome
  <2>4. Reply(r)
    BY <2>1, <2>2, <2>3, Zenon DEF Reply
  <2> QED BY <1>1, <1>2, <2>4 DEF ReadStep
<1>4. CASE ~miss
  <2>1. Goto(r, "remote") /\ "remote" \in Places \ {"new", "done"}
    BY <1>4 DEF Forward, Places
  <2>2. Proceed(r)
    BY <2>1, Zenon DEF Proceed
  <2> QED BY <1>1, <1>2, <2>2 DEF ReadStep
<1> QED BY <1>3, <1>4

(* The job of a read removes names at most, and writes nothing.              *)
LEMMA LookChanges ==
  ASSUME Base, NEW r \in Reads, Look(r)
  PROVE  ReadStep(r) /\ Removes /\ writer' = writer /\ Base'
<1>1. /\ pc[r] \in Early /\ writer' = writer
      /\ miss' = miss /\ saidMissing' = saidMissing
  BY DEF Look, Begin, LookForCoded, DropCoded, LookForPlain, Forward, Early, diskVars
<1>2. ReadStep(r) /\ Removes
  BY BeginChanges, LookForCodedChanges, DropCodedChanges, LookForPlainChanges, ForwardChanges
     DEF Look
<1>3. WritersRun'
  BY <1>1, <1>2, WriterUntouched
<1>4. /\ DiskTyped' /\ writer' \in [Reads -> Writer]
      /\ saidMissing => saidMissing'
      /\ miss' => saidMissing'
  BY <1>1, <1>2 DEF DiskTyped, Removes, Base, DiskTypeOK, MissLearnt
<1>5. Base'
  BY <1>2, <1>3, <1>4, StepKeepsBase
<1> QED BY <1>1, <1>2, <1>5

-----------------------------------------------------------------------------
(* The remote store answers. *)

LEMMA RemoteFailsChanges ==
  ASSUME Base, NEW r \in Reads, NEW o \in Contract!Outcome \ {"Bytes"}, RemoteFails(r, o)
  PROVE  ReadStep(r) /\ Removes /\ writer' = writer /\ Base'
<1>1. /\ pc[r] = "remote" /\ Under /\ writer' = writer
      /\ saidMissing' = (saidMissing \/ o = "NotFound")
      /\ Answer(r, o, Remote, {})
      /\ o = "Cancelled" => r \in stop
  BY DEF RemoteFails, callerVars, Under
<1>2. Removes
  BY DEF RemoteFails, Removes, Base, DiskTypeOK
<1>3. ReadStep(r)
  <2>1. Learnt(r, o, {})
    BY <1>1 DEF Learnt
  <2>2. {} \in SUBSET Whole
    OBVIOUS
  <2>3. Reply(r)
    BY <1>1, <2>1, <2>2, Zenon DEF Reply
  <2> QED BY <1>1, <2>3 DEF ReadStep
<1>4. WritersRun'
  BY <1>1, <1>3, WriterUntouched DEF Early
<1>5. miss' \in BOOLEAN /\ (miss' => saidMissing')
  BY <1>1 DEF RemoteFails, Marks, Base, DiskTypeOK, MissLearnt
<1>6. saidMissing' \in BOOLEAN /\ (saidMissing => saidMissing')
  BY <1>1 DEF Base, DiskTypeOK
<1>7. DiskTyped' /\ writer' \in [Reads -> Writer]
  BY <1>1, <1>2, <1>5, <1>6 DEF DiskTyped, Removes, Base, DiskTypeOK
<1>8. Base'
  BY <1>3, <1>4, <1>5, <1>6, <1>7, StepKeepsBase
<1> QED BY <1>1, <1>2, <1>3, <1>8

(* The bytes are there: a writer starts for the read that asked for them.    *)
LEMMA RemoteBytesChanges ==
  ASSUME Base, NEW r \in Reads, RemoteBytes(r)
  PROVE  /\ ReadStep(r) /\ UNCHANGED diskVars /\ Base'
         /\ writer[r].at = "idle"
         /\ \A q \in Reads \ {r} : writer'[q] = writer[q]
         /\ \E v \in Variants : /\ writer'[r] = Opening(v)
                                /\ setup.codec = "none" => v = "plain" /\ Goto(r, "storing")
<1> DEFINE v == IF setup.codec = "accepts" THEN "coded" ELSE "plain"
<1>1. /\ pc[r] = "remote" /\ Under /\ UNCHANGED diskVars /\ saidMissing' = saidMissing
      /\ writer' = [writer EXCEPT ![r] = Opening(v)]
  BY DEF RemoteBytes, callerVars, Under
<1>2. v \in Variants /\ (setup.codec = "none" => v = "plain")
  BY DEF Variants
<1> HIDE DEF v
<1>3. Sound(Opening(v)) /\ Opening(v) \in Writer
  BY <1>2, IdleFields DEF Sound
<1>4. writer' \in [Reads -> Writer] /\ writer'[r] = Opening(v)
      /\ \A q \in Reads \ {r} : writer'[q] = writer[q]
  BY <1>1, <1>3 DEF Base, DiskTypeOK
<1>5. ReadStep(r) /\ pc'[r] \notin Early /\ (setup.codec = "none" => Goto(r, "storing"))
  <2>1. CASE setup.codec = "none"
    <3>1. Goto(r, "storing") /\ "storing" \in Places \ {"new", "done"}
      BY <2>1 DEF RemoteBytes, Places
    <3>2. Proceed(r)
      BY <3>1, Zenon DEF Proceed
    <3>3. pc'[r] = "storing"
      BY <3>1 DEF Goto, Base, DiskTypeOK
    <3> QED BY <1>1, <3>1, <3>2, <3>3 DEF ReadStep, Early
  <2>2. CASE setup.codec # "none"
    <3>1. Answer(r, "Bytes", Remote, Whole) /\ "Bytes" \in Contract!Outcome
      BY <2>2 DEF RemoteBytes, Contract!Outcome
    <3>2. Learnt(r, "Bytes", Whole) /\ Whole \in SUBSET Whole
      BY DEF Learnt
    <3>3. Reply(r)
      BY <3>1, <3>2, Zenon DEF Reply
    <3>4. pc'[r] = "done"
      BY <3>1 DEF Answer, Base, DiskTypeOK
    <3> QED BY <1>1, <2>2, <3>3, <3>4 DEF ReadStep, Early
  <2> QED BY <2>1, <2>2
<1>6. WritersRun'
  BY <1>3, <1>4, <1>5, WriterMoves
<1>7. /\ DiskTyped'
      /\ saidMissing => saidMissing'
      /\ miss' => saidMissing'
  BY <1>1 DEF DiskTyped, diskVars, Base, DiskTypeOK, MissLearnt
<1>8. Base'
  BY <1>4, <1>5, <1>6, <1>7, StepKeepsBase
<1>9. writer[r].at = "idle"
  BY <1>1 DEF Base, WritersRun, Early
<1> QED BY <1>1, <1>2, <1>4, <1>5, <1>8, <1>9

-----------------------------------------------------------------------------
(* The writer. *)

(* writeFileAtomic() returned: the writer stops, or tries the other variant. *)
LEMMA FinishChanges ==
  ASSUME Base, NEW r \in Reads, NEW ok, Under, writer[r].at # "idle", Finish(r, ok)
  PROVE  /\ ReadStep(r) /\ pc'[r] \notin Early
         /\ writer' \in [Reads -> Writer] /\ Sound(writer'[r])
         /\ writer'[r] \in {Idle, Opening("plain")}
         /\ \A q \in Reads \ {r} : writer'[q] = writer[q]
         /\ writer[r].variant = "plain" =>
              /\ writer'[r] = Idle
              /\ pc[r] = "storing" => pc'[r] = "done"
<1>1. pc[r] \notin Early
  BY DEF Base, WritersRun
<1>2. Sound(Idle) /\ Sound(Opening("plain")) /\ Idle \in Writer /\ Opening("plain") \in Writer
  BY IdleFields DEF Sound, Variants
<1>3. CASE writer[r].variant = "coded" /\ ~ok
  <2>1. writer' = [writer EXCEPT ![r] = Opening("plain")] /\ UNCHANGED answerVars
    BY <1>3 DEF Finish
  <2>2. ReadStep(r) /\ pc'[r] \notin Early
    BY <1>1, <2>1 DEF ReadStep, answerVars
  <2>3. writer' \in [Reads -> Writer] /\ writer'[r] = Opening("plain")
        /\ \A q \in Reads \ {r} : writer'[q] = writer[q]
    BY <1>2, <2>1 DEF Base, DiskTypeOK
  <2> QED BY <1>2, <1>3, <2>2, <2>3
<1>4. CASE ~(writer[r].variant = "coded" /\ ~ok)
  <2>1. writer' = [writer EXCEPT ![r] = Idle]
        /\ IF pc[r] = "storing" THEN Answer(r, "Bytes", Remote, Whole) ELSE UNCHANGED answerVars
    BY <1>4 DEF Finish
  <2>2. writer' \in [Reads -> Writer] /\ writer'[r] = Idle
        /\ \A q \in Reads \ {r} : writer'[q] = writer[q]
    BY <1>2, <2>1 DEF Base, DiskTypeOK
  <2>3. ReadStep(r) /\ pc'[r] \notin Early /\ (pc[r] = "storing" => pc'[r] = "done")
    <3>1. CASE pc[r] = "storing"
      <4>1. Answer(r, "Bytes", Remote, Whole) /\ "Bytes" \in Contract!Outcome
        BY <2>1, <3>1 DEF Contract!Outcome
      <4>2. Learnt(r, "Bytes", Whole) /\ Whole \in SUBSET Whole
        BY DEF Learnt
      <4>3. Reply(r)
        BY <4>1, <4>2, Zenon DEF Reply
      <4>4. pc'[r] = "done"
        BY <4>1 DEF Answer, Base, DiskTypeOK
      <4> QED BY <3>1, <4>3, <4>4 DEF ReadStep, Early
    <3>2. CASE pc[r] # "storing"
      BY <1>1, <2>1, <3>2 DEF ReadStep, answerVars
    <3> QED BY <3>1, <3>2
  <2> QED BY <1>2, <2>2, <2>3
<1> QED BY <1>3, <1>4

(* The other steps of a writer, of which the read is not told.               *)
LEMMA WriterKeepsBase ==
  ASSUME Base, NEW r \in Reads, Under, UNCHANGED <<answerVars, saidMissing, miss>>,
         writer[r].at # "idle",
         writer' \in [Reads -> Writer], Sound(writer'[r]),
         \A q \in Reads \ {r} : writer'[q] = writer[q],
         units' \in [Files -> SUBSET Whole],
         tmp' \in [Variants -> Files \cup {NoFile}],
         entry' \in [Variants -> Files \cup {NoFile}]
  PROVE  ReadStep(r) /\ Base'
<1>1. ReadStep(r) /\ pc' = pc
  BY DEF ReadStep, answerVars
<1>2. pc'[r] \notin Early
  BY <1>1 DEF Base, WritersRun
<1>3. WritersRun'
  BY <1>1, <1>2, WriterMoves
<1>4. /\ DiskTyped'
      /\ saidMissing => saidMissing'
      /\ miss' => saidMissing'
  BY DEF DiskTyped, Base, DiskTypeOK, MissLearnt
<1>5. Base'
  BY <1>1, <1>3, <1>4, StepKeepsBase
<1> QED BY <1>1, <1>5

(* The file a writer opens: the ".tmp" there is, or one of its own.          *)
Opened(r) == LET v == writer[r].variant IN IF tmp[v] = NoFile THEN <<r, v>> ELSE tmp[v]

(* The ".tmp" file is emptied, or made.                                      *)
LEMMA OpenChanges ==
  ASSUME Base, NEW r \in Reads, Open(r)
  PROVE  /\ ReadStep(r) /\ Base' /\ UNCHANGED <<answerVars, entry>>
         /\ Opened(r) \in Files
         /\ writer[r].at = "open" /\ writer[r].variant \in Variants
         /\ tmp' = [tmp EXCEPT ![writer[r].variant] = Opened(r)]
         /\ units' = [units EXCEPT ![Opened(r)] = {}]
         /\ writer'[r].at = "write" /\ writer'[r].file = Opened(r) /\ writer'[r].next = 1
         /\ writer'[r].variant = writer[r].variant
         /\ \A q \in Reads \ {r} : writer'[q] = writer[q]
<1> DEFINE v == writer[r].variant
           f == Opened(r)
<1>1. writer[r].at = "open" /\ writer[r].next = 1 /\ v \in Variants
  BY DEF Open, Writing, Base, WritersRun, DiskTypeOK, Writer
<1>2. f \in Files
  BY <1>1 DEF Opened, Base, DiskTypeOK, Files
<1>3. /\ tmp' = [tmp EXCEPT ![v] = f] /\ units' = [units EXCEPT ![f] = {}]
      /\ UNCHANGED <<answerVars, entry, miss, saidMissing>> /\ Under
  BY DEF Open, Opened, callerVars, Under
<1>4. Starts(r, f)
  BY Zenon DEF Open, Opened, Starts
<1>5. writer \in [Reads -> Writer]
  BY DEF Base, DiskTypeOK
<1> HIDE DEF f
<1>6. /\ writer' \in [Reads -> Writer]
      /\ writer'[r].at = "write" /\ writer'[r].file = f /\ writer'[r].next = writer[r].next
      /\ writer'[r].variant = writer[r].variant
      /\ \A q \in Reads \ {r} : writer'[q] = writer[q]
  BY <1>2, <1>4, <1>5, StartsFields
<1>7. Sound(writer'[r])
  BY <1>2, <1>6 DEF Sound
<1>8. /\ units' \in [Files -> SUBSET Whole]
      /\ tmp' \in [Variants -> Files \cup {NoFile}]
      /\ entry' \in [Variants -> Files \cup {NoFile}]
  BY <1>1, <1>2, <1>3 DEF Base, DiskTypeOK
<1>9. ReadStep(r) /\ Base'
  BY <1>1, <1>3, <1>6, <1>7, <1>8, WriterKeepsBase
<1> QED BY <1>1, <1>2, <1>3, <1>6, <1>9 DEF f

(* One file grows by one unit, which may be lost on a full disk only.        *)
LEMMA WriteChanges ==
  ASSUME Base, NEW r \in Reads, Write(r)
  PROVE  /\ ReadStep(r) /\ Base' /\ UNCHANGED <<answerVars, entry, tmp>>
         /\ writer[r].at = "write" /\ writer[r].file \in Files
         /\ \A f \in Files \ {writer[r].file} : units'[f] = units[f]
         /\ \A f \in Files : units[f] \subseteq units'[f]
         /\ ~setup.full => writer[r].next \in units'[writer[r].file]
         /\ writer'[r].at = "write" /\ writer'[r].file = writer[r].file
         /\ writer'[r].next = writer[r].next + 1
         /\ writer'[r].variant = writer[r].variant
         /\ \A q \in Reads \ {r} : writer'[q] = writer[q]
<1> DEFINE n == writer[r].next
           f == writer[r].file
<1>1. /\ writer[r].at = "write" /\ f \in Files
      /\ n \in Whole
  <2>1. writer[r].at = "write" /\ f \in Files /\ n <= Length
    BY DEF Write, Writing, Base, WritersRun
  <2>2. n \in 1 .. Length + 1
    BY DEF Base, DiskTypeOK, Writer
  <2> QED BY <2>1, <2>2, DiskAssumption DEF Whole, DiskAssumption
<1>2. /\ UNCHANGED <<answerVars, entry, tmp, miss, saidMissing>> /\ Under
      /\ Advances(r)
      /\ units' = [units EXCEPT ![f] = @ \cup {n}] \/ (setup.full /\ units' = units)
  BY DEF Write, Lost, callerVars, Under, Advances
<1>3. writer \in [Reads -> Writer] /\ n <= Length
  BY <1>1, DiskAssumption DEF Base, DiskTypeOK, Whole, DiskAssumption
<1>4. /\ writer' \in [Reads -> Writer]
      /\ writer'[r].at = writer[r].at /\ writer'[r].file = f /\ writer'[r].next = n + 1
      /\ writer'[r].variant = writer[r].variant
      /\ \A q \in Reads \ {r} : writer'[q] = writer[q]
  BY <1>2, <1>3, AdvancesFields
<1> HIDE DEF n, f
<1>5. /\ units' \in [Files -> SUBSET Whole]
      /\ \A g \in Files \ {f} : units'[g] = units[g]
      /\ \A g \in Files : units[g] \subseteq units'[g]
      /\ ~setup.full => n \in units'[f]
  BY <1>1, <1>2 DEF Base, DiskTypeOK
<1>6. Sound(writer'[r])
  BY <1>1, <1>4 DEF Sound, f
<1>7. writer[r].at # "idle"
  BY <1>1
<1>8. tmp' \in [Variants -> Files \cup {NoFile}] /\ entry' \in [Variants -> Files \cup {NoFile}]
  BY <1>2 DEF Base, DiskTypeOK
<1>9. ReadStep(r) /\ Base'
  BY <1>2, <1>4, <1>5, <1>6, <1>7, <1>8, WriterKeepsBase
<1> QED BY <1>1, <1>2, <1>4, <1>5, <1>9 DEF n, f

(* The end of a writer's work, where names may go but files stay.            *)
LEMMA FinishKeepsBase ==
  ASSUME Base, NEW r \in Reads, NEW ok, Under, writer[r].at # "idle", Finish(r, ok),
         UNCHANGED <<units, miss, saidMissing>>,
         tmp' \in [Variants -> Files \cup {NoFile}],
         entry' \in [Variants -> Files \cup {NoFile}]
  PROVE  Base'
<1>1. /\ ReadStep(r) /\ pc'[r] \notin Early
      /\ writer' \in [Reads -> Writer] /\ Sound(writer'[r])
      /\ \A q \in Reads \ {r} : writer'[q] = writer[q]
  BY FinishChanges
<1>2. WritersRun'
  BY <1>1, WriterMoves
<1>3. /\ DiskTyped'
      /\ saidMissing => saidMissing'
      /\ miss' => saidMissing'
  BY DEF DiskTyped, Base, DiskTypeOK, MissLearnt
<1> QED BY <1>1, <1>2, <1>3, StepKeepsBase

(* What is known of the read and its writer after Finish.                    *)
Finished(r) ==
  /\ writer'[r] \in {Idle, Opening("plain")}
  /\ \A q \in Reads \ {r} : writer'[q] = writer[q]
  /\ writer[r].variant = "plain" =>
       /\ writer'[r] = Idle
       /\ pc[r] = "storing" => pc'[r] = "done"

(* The ".tmp" file becomes the entry, or is found to be gone.                *)
LEMMA RenameChanges ==
  ASSUME Base, NEW r \in Reads, Rename(r)
  PROVE  /\ ReadStep(r) /\ Base' /\ units' = units
         /\ writer[r].at = "write" /\ writer[r].file \in Files
         /\ writer[r].next = Length + 1 /\ writer[r].variant \in Variants
         /\ \/ /\ tmp[writer[r].variant] # NoFile
               /\ entry' = [entry EXCEPT ![writer[r].variant] = tmp[writer[r].variant]]
               /\ tmp' = [tmp EXCEPT ![writer[r].variant] = NoFile]
               /\ Finished(r)
            \/ /\ tmp[writer[r].variant] = NoFile
               /\ UNCHANGED <<answerVars, tmp, entry>>
               /\ writer'[r].at = "lost" /\ writer'[r].variant = writer[r].variant
               /\ \A q \in Reads \ {r} : writer'[q] = writer[q]
<1> DEFINE v == writer[r].variant
<1>1. /\ writer[r].at = "write" /\ writer[r].file \in Files /\ v \in Variants
      /\ writer[r].next = Length + 1
  <2>1. writer[r].at = "write" /\ writer[r].file \in Files /\ writer[r].next > Length
    BY DEF Rename, Written, Writing, Base, WritersRun
  <2>2. writer[r].next \in 1 .. Length + 1 /\ v \in Variants
    BY DEF Base, DiskTypeOK, Writer
  <2> QED BY <2>1, <2>2, DiskAssumption DEF DiskAssumption
<1>2. Under /\ UNCHANGED <<units, miss, saidMissing>>
  BY DEF Rename, callerVars, Under
<1>3. CASE tmp[v] # NoFile
  <2>1. /\ entry' = [entry EXCEPT ![v] = tmp[v]] /\ tmp' = [tmp EXCEPT ![v] = NoFile]
        /\ Finish(r, TRUE)
    BY <1>3 DEF Rename
  <2>2. tmp' \in [Variants -> Files \cup {NoFile}] /\ entry' \in [Variants -> Files \cup {NoFile}]
    BY <1>1, <2>1 DEF Base, DiskTypeOK
  <2>3. writer[r].at # "idle"
    BY <1>1
  <2>4. Base'
    BY <1>2, <2>1, <2>2, <2>3, FinishKeepsBase
  <2>5. ReadStep(r) /\ Finished(r)
    BY <1>2, <2>1, <2>3, FinishChanges DEF Finished
  <2> QED BY <1>1, <1>2, <1>3, <2>1, <2>4, <2>5
<1>4. CASE tmp[v] = NoFile
  <2>1. Loses(r) /\ UNCHANGED <<answerVars, tmp, entry>>
    BY <1>4 DEF Rename, Loses
  <2>2. writer \in [Reads -> Writer]
    BY DEF Base, DiskTypeOK
  <2>3. /\ writer' \in [Reads -> Writer]
        /\ writer'[r].at = "lost" /\ writer'[r].variant = v
        /\ \A q \in Reads \ {r} : writer'[q] = writer[q]
    BY <2>1, <2>2, LosesFields
  <2>4. Sound(writer'[r])
    BY <2>3 DEF Sound
  <2>5. /\ units' \in [Files -> SUBSET Whole]
        /\ tmp' \in [Variants -> Files \cup {NoFile}]
        /\ entry' \in [Variants -> Files \cup {NoFile}]
    BY <1>2, <2>1 DEF Base, DiskTypeOK
  <2>6. writer[r].at # "idle" /\ UNCHANGED <<answerVars, saidMissing, miss>>
    BY <1>1, <1>2, <2>1
  <2>7. ReadStep(r) /\ Base'
    BY <1>2, <2>3, <2>4, <2>5, <2>6, WriterKeepsBase
  <2> QED BY <1>1, <1>2, <1>4, <2>1, <2>3, <2>7
<1> QED BY <1>3, <1>4

(* A writer gives up: it lost the race, or found no room.                    *)
GiveUp(r) == LoseRace(r) \/ CannotOpen(r) \/ CannotWrite(r)

(* The reader is answered all the same, and the ".tmp" name goes.            *)
LEMMA GiveUpChanges ==
  ASSUME Base, NEW r \in Reads, GiveUp(r)
  PROVE  /\ ReadStep(r) /\ Base' /\ Removes /\ Finished(r)
         /\ writer[r].at = "lost" \/ setup.full
<1>1. writer[r].variant \in Variants
  BY DEF Base, DiskTypeOK, Writer
<1>2. /\ Under /\ UNCHANGED <<units, entry, miss, saidMissing>>
      /\ writer[r].at = "lost" \/ (writer[r].at \in {"open", "write"} /\ setup.full)
      /\ tmp' = tmp \/ tmp' = [tmp EXCEPT ![writer[r].variant] = NoFile]
  BY DEF GiveUp, LoseRace, CannotOpen, CannotWrite, Writing, callerVars, diskVars, Under
<1>3. PICK ok : Finish(r, ok)
  BY DEF GiveUp, LoseRace, CannotOpen, CannotWrite
<1>4. writer[r].at # "idle"
  BY <1>2
<1>5. Removes
  BY <1>1, <1>2 DEF Removes, Base, DiskTypeOK
<1>6. Base'
  BY <1>2, <1>3, <1>4, <1>5, FinishKeepsBase DEF Removes
<1>7. ReadStep(r) /\ Finished(r)
  BY <1>2, <1>3, <1>4, FinishChanges DEF Finished
<1> QED BY <1>2, <1>5, <1>6, <1>7

-----------------------------------------------------------------------------
(* Callers, evictions and the end of a viewer. *)

LEMMA AskChanges ==
  ASSUME Base, NEW r \in Reads, Ask(r)
  PROVE  /\ Base' /\ UNCHANGED <<setup, stop, writer, diskVars, answers, given>>
         /\ pc[r] = "new" /\ pc' = [pc EXCEPT ![r] = "posted"]
         /\ asked' = asked \cup {r}
<1> USE DEF Base
<1>1. /\ pc[r] = "new" /\ r \in DOMAIN setup.viewer /\ asked' = asked \cup {r}
      /\ UNCHANGED <<setup, stop, writer, diskVars, saidMissing>>
      /\ pc' = [pc EXCEPT ![r] = "posted"] /\ UNCHANGED <<answers, given>>
  BY DEF Ask, Goto
<1>2. UNCHANGED <<units, tmp, entry, miss>>
  BY <1>1 DEF diskVars
<1>3. DiskTypeOK'
  BY <1>1, <1>2 DEF DiskTypeOK, Places
<1>4. AnsweredOnce'
  BY <1>1 DEF AnsweredOnce, DiskTypeOK
<1>5. MissLearnt' /\ WritersRun'
  BY <1>1, <1>2 DEF MissLearnt, WritersRun, DiskTypeOK, Early
<1> QED BY <1>1, <1>3, <1>4, <1>5

(* A stop token is set.                                                      *)
LEMMA StopChanges ==
  ASSUME Base, NEW r \in Reads, Stop(r)
  PROVE  /\ Base' /\ UNCHANGED <<setup, asked, writer, diskVars, answerVars>>
         /\ r \in asked \ stop /\ stop' = stop \cup {r}
<1>1. /\ r \in asked \ stop /\ stop' = stop \cup {r}
      /\ UNCHANGED <<setup, asked, writer, diskVars, answerVars, saidMissing>>
  BY DEF Stop
<1>2. DiskTypeOK' /\ AnsweredOnce' /\ MissLearnt' /\ WritersRun'
  BY <1>1 DEF Base, DiskTypeOK, AnsweredOnce, MissLearnt, WritersRun, diskVars, answerVars
<1> QED BY <1>1, <1>2 DEF Base

(* An eviction removes a name.                                               *)
LEMMA EvictChanges ==
  ASSUME Base, Evict
  PROVE  Base' /\ Removes /\ UNCHANGED <<setup, asked, stop, answerVars, writer>>
<1>1. /\ UNCHANGED <<callerVars, answerVars, writer, units, saidMissing>>
      /\ \/ /\ \E v \in Variants : entry' = [entry EXCEPT ![v] = NoFile]
            /\ UNCHANGED <<tmp, miss>>
         \/ /\ \E v \in Variants : tmp' = [tmp EXCEPT ![v] = NoFile]
            /\ UNCHANGED <<entry, miss>>
         \/ miss' = FALSE /\ UNCHANGED <<entry, tmp>>
  BY DEF Evict
<1>2. Removes
  BY <1>1 DEF Removes, Base, DiskTypeOK
<1>3. miss' \in BOOLEAN /\ (miss' => miss)
  <2>1. miss' = miss \/ miss' = FALSE
    BY <1>1, Zenon
  <2>2. miss \in BOOLEAN
    BY DEF Base, DiskTypeOK
  <2>3. CASE miss' = miss
    BY <2>2, <2>3, Zenon
  <2>4. CASE miss' = FALSE
    BY <2>4
  <2> QED BY <2>1, <2>3, <2>4
<1>4. DiskTypeOK' /\ AnsweredOnce' /\ MissLearnt' /\ WritersRun'
  BY <1>1, <1>2, <1>3
     DEF Base, DiskTypeOK, AnsweredOnce, MissLearnt, WritersRun, callerVars, answerVars, Removes
<1> QED BY <1>1, <1>2, <1>4 DEF Base, callerVars

(* A killed viewer leaves the disk as it is; its reads and writers end.      *)
LEMMA CrashChanges ==
  ASSUME Base, NEW p, Crash(p)
  PROVE  /\ Base' /\ UNCHANGED <<setup, asked, stop, diskVars, answers, given>> /\ setup.kill
         /\ \A r \in Reads : /\ writer'[r] \in {writer[r], Idle}
                             /\ \/ pc'[r] = pc[r]
                                \/ pc[r] # "done" /\ pc'[r] = "dead"
                             /\ pc[r] = "storing" /\ pc'[r] = "dead" => writer'[r] = Idle
<1> DEFINE hit(r) == r \in asked /\ setup.viewer[r] = p
<1>1. /\ UNCHANGED <<setup, asked, stop, diskVars, answers, given, saidMissing>> /\ setup.kill
      /\ pc' = [r \in Reads |-> IF hit(r) /\ pc[r] # "done" THEN "dead" ELSE pc[r]]
      /\ writer' = [r \in Reads |-> IF hit(r) THEN Idle ELSE writer[r]]
  BY DEF Crash, callerVars
<1>2. \A r \in Reads : hit(r) => pc[r] # "new"
  BY DEF Base, AnsweredOnce
<1> HIDE DEF hit
<1>3. UNCHANGED <<units, tmp, entry, miss>>
  BY <1>1 DEF diskVars
<1>4. pc' \in [Reads -> Places] /\ writer' \in [Reads -> Writer]
  BY <1>1, IdleFields DEF Base, DiskTypeOK, Places
<1>5. DiskTypeOK' /\ MissLearnt'
  BY <1>1, <1>3, <1>4 DEF Base, DiskTypeOK, MissLearnt
<1>6. AnsweredOnce'
  BY <1>1, <1>2 DEF Base, AnsweredOnce
<1>7. WritersRun'
  BY <1>1, IdleFields DEF Base, WritersRun, Early
<1>8. \A r \in Reads : /\ writer'[r] \in {writer[r], Idle}
                       /\ \/ pc'[r] = pc[r]
                          \/ pc[r] # "done" /\ pc'[r] = "dead"
                       /\ pc[r] = "storing" /\ pc'[r] = "dead" => writer'[r] = Idle
  BY <1>1
<1> QED BY <1>1, <1>5, <1>6, <1>7, <1>8 DEF Base

-----------------------------------------------------------------------------
(* Base holds at first. *)
LEMMA BaseInit ==
  ASSUME Init
  PROVE  Base
<1> USE DEF Init
<1>1. setup \in Setups /\ asked \subseteq Reads \cap DOMAIN setup.viewer /\ stop \subseteq asked
  OBVIOUS
<1>2. ReadsTyped
  BY DEF ReadsTyped, Places, Given, Contract!Outcome
<1>3. writer \in [Reads -> Writer] /\ \A r \in Reads : writer[r].at = "idle"
  BY IdleFields
<1>4. DiskTyped
  BY DEF DiskTyped
<1>5. DiskTypeOK
  BY <1>1, <1>2, <1>3, <1>4 DEF DiskTypeOK, ReadsTyped, DiskTyped
<1>6. AnsweredOnce
  BY DEF AnsweredOnce
<1>7. MissLearnt
  BY DEF MissLearnt
<1>8. WritersRun
  BY <1>3 DEF WritersRun
<1> QED BY <1>5, <1>6, <1>7, <1>8 DEF Base

(* Whatever is done for a read keeps Base.                                   *)
LEMMA WorkKeepsBase ==
  ASSUME Base, NEW r \in Reads, Work(r)
  PROVE  ReadStep(r) /\ Base'
<1>1. CASE Look(r)
  BY <1>1, LookChanges
<1>2. CASE RemoteBytes(r)
  BY <1>2, RemoteBytesChanges
<1>3. ASSUME NEW o \in Contract!Outcome \ {"Bytes"}, RemoteFails(r, o)
      PROVE  ReadStep(r) /\ Base'
  BY <1>3, RemoteFailsChanges
<1>4. CASE Open(r)
  BY <1>4, OpenChanges
<1>5. CASE Write(r)
  BY <1>5, WriteChanges
<1>6. CASE Rename(r)
  BY <1>6, RenameChanges
<1>7. CASE GiveUp(r)
  BY <1>7, GiveUpChanges
<1> QED BY <1>1, <1>2, <1>3, <1>4, <1>5, <1>6, <1>7 DEF Work, RemoteAnswers, Store, GiveUp

(* So does a stuttering step.                                                *)
LEMMA BaseUnchanged ==
  ASSUME Base, UNCHANGED vars
  PROVE  Base'
BY DEF Base, DiskTypeOK, AnsweredOnce, MissLearnt, WritersRun,
       vars, callerVars, answerVars, diskVars

(* Every step keeps Base.                                                    *)
LEMMA NextKeepsBase ==
  ASSUME Base, [Next]_vars
  PROVE  Base'
<1>1. ASSUME NEW r \in Reads, Ask(r) PROVE Base'
  BY <1>1, AskChanges
<1>2. ASSUME NEW r \in Reads, Stop(r) PROVE Base'
  BY <1>2, StopChanges
<1>3. ASSUME NEW r \in Reads, Work(r) PROVE Base'
  BY <1>3, WorkKeepsBase
<1>4. CASE Evict
  BY <1>4, EvictChanges
<1>5. ASSUME NEW r \in asked, Crash(setup.viewer[r]) PROVE Base'
  BY <1>5, CrashChanges
<1>6. CASE UNCHANGED vars
  BY <1>6, BaseUnchanged
<1> QED BY <1>1, <1>2, <1>3, <1>4, <1>5, <1>6 DEF Next

-----------------------------------------------------------------------------
(* Files that several writers share. *)

(* A step keeps Covered if no other file comes into use, and a writer that   *)
(* no longer fills its file leaves it whole.                                 *)
LEMMA CoverKept ==
  ASSUME Covered, setup' = setup,
         InUse' \subseteq InUse,
         \A f \in InUse : units[f] = Whole => units'[f] = Whole,
         \A q \in Reads : \A f \in InUse :
           Fills(q, f) => Fills(q, f)' \/ units'[f] = Whole
  PROVE  Covered'
BY DEF Covered

(* No file comes into use when names go.                                     *)
LEMMA RemovesUnused ==
  ASSUME Base, Removes
  PROVE  InUse' \subseteq InUse
<1> SUFFICES ASSUME NEW f \in InUse' PROVE f \in InUse
  OBVIOUS
<1>1. f \in Files /\ f # NoFile
  BY DiskAssumption DEF InUse, DiskAssumption
<1>2. PICK v \in Variants : f = tmp'[v] \/ f = entry'[v]
  BY DEF InUse
<1>3. f = tmp[v] \/ f = entry[v]
  BY <1>1, <1>2 DEF Removes
<1> QED BY <1>1, <1>3 DEF InUse

(* Names go, and at most the writer of r stops before it has opened a file.  *)
LEMMA RemovesCovers ==
  ASSUME Base, Covered, Removes, setup' = setup,
         \A q \in Reads : writer'[q] = writer[q] \/ writer[q].at # "write"
  PROVE  Covered'
<1>1. InUse' \subseteq InUse
  BY RemovesUnused
<1>2. \A q \in Reads : \A f \in InUse : Fills(q, f) => Fills(q, f)'
  BY DEF Fills, Removes
<1> QED BY <1>1, <1>2, CoverKept DEF Removes

(* The file that is emptied has a new writer to fill it.                     *)
LEMMA OpenCovers ==
  ASSUME Base, Covered, NEW r \in Reads, Open(r)
  PROVE  Covered'
<1>0. PICK f \in Files, v \in Variants : f = Opened(r) /\ v = writer[r].variant
  BY OpenChanges
<1>1. /\ Under /\ UNCHANGED entry
      /\ writer[r].at = "open"
      /\ tmp' = [tmp EXCEPT ![v] = f]
      /\ units' = [units EXCEPT ![f] = {}]
      /\ writer'[r].at = "write" /\ writer'[r].file = f /\ writer'[r].next = 1
      /\ \A q \in Reads \ {r} : writer'[q] = writer[q]
  BY <1>0, OpenChanges DEF ReadStep
<1>2. Fills(r, f)'
  <2>1. 1 .. writer'[r].next - 1 \subseteq units'[f]
    BY <1>1
  <2> QED BY <1>1, <2>1 DEF Fills
<1>3. InUse' \subseteq InUse \cup {f}
  BY <1>1 DEF InUse, Base, DiskTypeOK
<1>4. \A g \in Files \ {f} : units'[g] = units[g]
  BY <1>1 DEF Base, DiskTypeOK
<1>5. \A q \in Reads : \A g \in InUse \ {f} : Fills(q, g) => Fills(q, g)'
  BY <1>1, <1>4 DEF Fills, InUse
<1>6. \A g \in InUse \ {f} : units'[g] = units[g]
  BY <1>4 DEF InUse
<1>7. ASSUME ~setup.kill, ~setup.full, NEW g \in InUse'
      PROVE  units'[g] = Whole \/ \E q \in Reads : Fills(q, g)'
  <2>1. CASE g = f
    BY <1>2, <2>1
  <2>2. CASE g # f
    BY <1>3, <1>5, <1>6, <1>7, <2>2 DEF Covered
  <2> QED BY <2>1, <2>2
<1>8. setup' = setup
  BY <1>1 DEF Under
<1> QED BY <1>7, <1>8 DEF Covered

(* A unit is added to the file, after the ones before it.                    *)
LEMMA WriteFills ==
  ASSUME Base, ~setup.full, NEW r \in Reads, Write(r), NEW f \in Files, Fills(r, f)
  PROVE  Fills(r, f)'
<1>1. /\ writer[r].file \in Files
      /\ \A g \in Files : units[g] \subseteq units'[g]
      /\ writer[r].next \in units'[writer[r].file]
      /\ writer'[r].at = "write" /\ writer'[r].file = writer[r].file
      /\ writer'[r].next = writer[r].next + 1
  BY WriteChanges
<1>2. writer[r].file = f /\ 1 .. writer[r].next - 1 \subseteq units[f]
  BY DEF Fills
<1>3. writer[r].next \in Nat
  BY DiskAssumption DEF Base, DiskTypeOK, Writer, DiskAssumption
<1>4. 1 .. writer'[r].next - 1 \subseteq units'[f]
  BY <1>1, <1>2, <1>3
<1> QED BY <1>1, <1>2, <1>4 DEF Fills

(* Writing keeps the other files, and what fillers have written.             *)
LEMMA WriteCovers ==
  ASSUME Base, Covered, NEW r \in Reads, Write(r)
  PROVE  Covered'
<1>1. /\ Under /\ UNCHANGED <<entry, tmp>>
      /\ \A f \in Files : units[f] \subseteq units'[f]
      /\ \A q \in Reads \ {r} : writer'[q] = writer[q]
      /\ Base'
  BY WriteChanges DEF ReadStep
<1>2. InUse' \subseteq InUse /\ InUse \subseteq Files
  BY <1>1 DEF InUse
<1>3. CASE setup.full
  BY <1>1, <1>3 DEF Covered, Under
<1>4. CASE ~setup.full
  <2>1. \A f \in InUse : units[f] = Whole => units'[f] = Whole
    BY <1>1, <1>2 DEF Base, DiskTypeOK
  <2>2. ASSUME NEW q \in Reads, NEW f \in InUse, Fills(q, f) PROVE Fills(q, f)'
    <3>1. CASE q = r
      <4>1. Fills(r, f) /\ f \in Files
        BY <1>2, <2>2, <3>1
      <4>2. Fills(r, f)'
        BY <1>4, <4>1, WriteFills DEF Fills
      <4> QED BY <3>1, <4>2 DEF Fills
    <3>2. CASE q # r
      <4>1. writer'[q] = writer[q] /\ units[f] \subseteq units'[f]
        BY <1>1, <1>2, <3>2
      <4>2. 1 .. writer[q].next - 1 \subseteq units'[f]
        BY <2>2, <4>1 DEF Fills
      <4> QED BY <2>2, <4>1, <4>2 DEF Fills
    <3> QED BY <3>1, <3>2
  <2> QED BY <1>1, <1>2, <2>1, <2>2, CoverKept DEF Under
<1> QED BY <1>3, <1>4

(* A writer that has written all units leaves its file whole.                *)
LEMMA FilledIsWhole ==
  ASSUME Base, NEW r \in Reads, NEW f \in Files, Fills(r, f), writer[r].next = Length + 1
  PROVE  units[f] = Whole
<1>1. writer[r].next - 1 = Length
  BY DiskAssumption DEF DiskAssumption
<1>2. 1 .. writer[r].next - 1 \subseteq units[f]
  BY DEF Fills
<1>3. Whole \subseteq units[f]
  BY <1>1, <1>2 DEF Whole
<1> QED BY <1>3 DEF Base, DiskTypeOK

(* The writer that leaves its file leaves it whole, whoever owned the name.  *)
LEMMA RenameCovers ==
  ASSUME Base, Covered, NEW r \in Reads, Rename(r)
  PROVE  Covered'
<1> DEFINE v == writer[r].variant
<1>1. /\ Under /\ units' = units /\ v \in Variants
      /\ writer[r].next = Length + 1
      /\ \A q \in Reads \ {r} : writer'[q] = writer[q]
      /\ \/ /\ tmp[v] # NoFile
            /\ entry' = [entry EXCEPT ![v] = tmp[v]] /\ tmp' = [tmp EXCEPT ![v] = NoFile]
         \/ UNCHANGED <<tmp, entry>>
  BY RenameChanges DEF ReadStep, Finished
<1> HIDE DEF v
<1>2. InUse' \subseteq InUse
  <2>1. CASE UNCHANGED <<tmp, entry>>
    BY <2>1 DEF InUse
  <2>2. CASE /\ tmp[v] # NoFile
             /\ entry' = [entry EXCEPT ![v] = tmp[v]] /\ tmp' = [tmp EXCEPT ![v] = NoFile]
    BY <1>1, <2>2, DiskAssumption DEF InUse, Base, DiskTypeOK, DiskAssumption
  <2> QED BY <1>1, <2>1, <2>2
<1>3. ASSUME NEW q \in Reads, NEW f \in InUse, Fills(q, f)
      PROVE  Fills(q, f)' \/ units'[f] = Whole
  <2>1. CASE q = r
    BY <1>1, <1>3, <2>1, FilledIsWhole DEF InUse
  <2>2. CASE q # r
    BY <1>1, <1>3, <2>2 DEF Fills
  <2> QED BY <2>1, <2>2
<1> QED BY <1>1, <1>2, <1>3, CoverKept DEF Under

(* A writer that lost the race no longer has a file.                         *)
LEMMA GiveUpCovers ==
  ASSUME Base, Covered, NEW r \in Reads, GiveUp(r)
  PROVE  Covered'
<1>1. /\ Under /\ Removes /\ \A q \in Reads \ {r} : writer'[q] = writer[q]
      /\ writer[r].at = "lost" \/ setup.full
  BY GiveUpChanges DEF ReadStep, Finished
<1>2. CASE setup.full
  BY <1>1, <1>2 DEF Covered, Under
<1>3. CASE writer[r].at = "lost"
  BY <1>1, <1>3, RemovesCovers DEF Under
<1> QED BY <1>1, <1>2, <1>3

(* Every step keeps Covered.                                                 *)
LEMMA NextCovers ==
  ASSUME Base, Covered, [Next]_vars
  PROVE  Covered'
<1>1. ASSUME NEW r \in Reads, Ask(r) \/ Stop(r) PROVE Covered'
  BY <1>1, AskChanges, StopChanges DEF Covered, InUse, Fills, diskVars
<1>2. ASSUME NEW r \in Reads, Look(r) PROVE Covered'
  BY <1>2, LookChanges, RemovesCovers DEF ReadStep, Under
<1>3. ASSUME NEW r \in Reads, RemoteBytes(r) PROVE Covered'
  <2>1. /\ Under /\ UNCHANGED diskVars /\ writer[r].at = "idle"
        /\ \A q \in Reads \ {r} : writer'[q] = writer[q]
    BY <1>3, RemoteBytesChanges DEF ReadStep
  <2>2. Removes
    BY <2>1 DEF Removes, diskVars, Base, DiskTypeOK
  <2> QED BY <2>1, <2>2, RemovesCovers DEF Under
<1>4. ASSUME NEW r \in Reads, NEW o \in Contract!Outcome \ {"Bytes"}, RemoteFails(r, o)
      PROVE  Covered'
  BY <1>4, RemoteFailsChanges, RemovesCovers DEF ReadStep, Under
<1>5. ASSUME NEW r \in Reads, Store(r) PROVE Covered'
  BY <1>5, OpenCovers, WriteCovers, RenameCovers, GiveUpCovers DEF Store, GiveUp
<1>6. CASE Evict
  BY <1>6, EvictChanges, RemovesCovers
<1>7. ASSUME NEW r \in asked, Crash(setup.viewer[r]) PROVE Covered'
  BY <1>7, CrashChanges DEF Covered
<1>8. CASE UNCHANGED vars
  BY <1>8 DEF Covered, InUse, Fills, vars, callerVars, diskVars
<1> QED BY <1>1, <1>2, <1>3, <1>4, <1>5, <1>6, <1>7, <1>8 DEF Next, Work, RemoteAnswers

-----------------------------------------------------------------------------
(* One viewer, without a transcoder and with room on the disk. *)

(* An answer is whole if the entries are.                                    *)
LEMMA BytesStayWhole ==
  ASSUME Base, EntriesWhole, AllBytesWhole, NEW r \in Reads, ReadStep(r)
  PROVE  AllBytesWhole'
<1>1. ASSUME NEW q \in Reads \ {r}, answers'[q] = <<"Bytes">> PROVE given'[q].units = Whole
  BY <1>1, OthersStay DEF AllBytesWhole
<1>2. ASSUME answers'[r] = <<"Bytes">> PROVE given'[r].units = Whole
  <2>1. CASE UNCHANGED answerVars
    BY <1>2, <2>1 DEF AllBytesWhole, answerVars
  <2>2. CASE pc[r] \notin {"new", "done"} /\ Proceed(r)
    BY <1>2, <2>2 DEF AllBytesWhole, Proceed, Goto
  <2>3. CASE pc[r] \notin {"new", "done"} /\ Reply(r)
    <3>1. PICK o \in Contract!Outcome, from \in Files \cup {NoFile, Remote, Marker},
               bytes \in SUBSET Whole : Answer(r, o, from, bytes) /\ Learnt(r, o, bytes)
      BY <2>3 DEF Reply
    <3>2. answers' = [answers EXCEPT ![r] = <<o>>] /\ given'[r].units = bytes
      BY <2>3, <3>1, AnswerChanges DEF Base
    <3>3. answers'[r] = <<o>>
      BY <3>2 DEF Base, DiskTypeOK
    <3>4. o = "Bytes"
      BY <1>2, <3>3
    <3>5. CASE bytes = Whole
      BY <3>2, <3>5
    <3>6. CASE entry["plain"] \in Files /\ bytes = units[entry["plain"]]
      <4>1. units[entry["plain"]] = Whole
        BY <3>6, DiskAssumption DEF EntriesWhole, Variants, DiskAssumption
      <4> QED BY <3>2, <3>6, <4>1
    <3> QED BY <3>1, <3>4, <3>5, <3>6 DEF Learnt
  <2> QED BY <2>1, <2>2, <2>3 DEF ReadStep
<1> QED BY <1>1, <1>2 DEF AllBytesWhole

(* No second writer appears if no read starts to be stored.                  *)
LEMMA OneWriterKept ==
  ASSUME OneWriter,
         \A q \in Reads : pc'[q] = "storing" => pc[q] = "storing",
         \A q \in Reads : writer'[q].at # "idle" =>
           /\ writer[q].at # "idle" /\ writer'[q].variant = writer[q].variant
           /\ pc'[q] = pc[q]
  PROVE  OneWriter'
BY DEF OneWriter

(* Files that are in use stay apart when names go.                           *)
LEMMA RemovesApart ==
  ASSUME Base, FilesApart, Removes,
         \A q \in Reads : pc'[q] \in Early => pc[q] \in Early,
         \A q \in Reads : writer'[q].at \in {"open", "write"} => writer'[q] = writer[q]
  PROVE  FilesApart'
<1>0. \A q \in Reads, v \in Variants : <<q, v>> # NoFile
  BY DiskAssumption DEF DiskAssumption, Files
<1>1. /\ tmp'["coded"] \in {tmp["coded"], NoFile} /\ tmp'["plain"] \in {tmp["plain"], NoFile}
      /\ entry'["coded"] \in {entry["coded"], NoFile}
      /\ entry'["plain"] \in {entry["plain"], NoFile}
      /\ units' = units
  BY DEF Removes, Variants
<1>2. tmp'["coded"] = NoFile /\ entry'["coded"] = NoFile
  BY <1>1 DEF FilesApart
<1>3. ASSUME NEW q \in Reads, pc'[q] \in Early \/ writer'[q].at = "open"
      PROVE  <<q, "plain">> # tmp'["plain"] /\ <<q, "plain">> # entry'["plain"]
  <2>1. <<q, "plain">> # tmp["plain"] /\ <<q, "plain">> # entry["plain"]
    BY <1>3 DEF FilesApart
  <2>2. <<q, "plain">> # NoFile
    BY <1>0 DEF Variants
  <2> QED BY <1>1, <2>1, <2>2
<1>4. tmp'["plain"] # NoFile => tmp'["plain"] # entry'["plain"]
  BY <1>1 DEF FilesApart
<1>5. ASSUME NEW q \in Reads, writer'[q].at = "write"
      PROVE  /\ tmp'["plain"] \in {writer'[q].file, NoFile}
             /\ writer'[q].file # entry'["plain"]
             /\ 1 .. writer'[q].next - 1 \subseteq units'[writer'[q].file]
  <2>1. writer'[q] = writer[q] /\ writer[q].file # NoFile
    BY <1>5, DiskAssumption DEF Base, WritersRun, DiskAssumption
  <2>2. /\ tmp["plain"] \in {writer[q].file, NoFile}
        /\ writer[q].file # entry["plain"]
        /\ 1 .. writer[q].next - 1 \subseteq units[writer[q].file]
    BY <1>5, <2>1 DEF FilesApart, Fills
  <2> QED BY <1>1, <2>1, <2>2
<1> QED BY <1>2, <1>3, <1>4, <1>5 DEF FilesApart, Fills

(* Entries stay whole when names go.                                         *)
LEMMA RemovesWhole ==
  ASSUME EntriesWhole, Removes
  PROVE  EntriesWhole'
BY DEF EntriesWhole, Removes

(* A lookup does not start a writer.                                         *)
LEMMA LookStoresNothing ==
  ASSUME Base, NEW r \in Reads, Look(r)
  PROVE  pc'[r] # "storing" /\ pc[r] \in Early
BY DEF Look, Begin, LookForCoded, DropCoded, LookForPlain, Forward, Goto, Answer, Early,
       Base, DiskTypeOK, FirstVariant

(* The steps that remove names at most and start no writer.                  *)
LEMMA QuietKeepsSingle ==
  ASSUME Base, Single, NEW r \in Reads, ReadStep(r), Removes,
         pc'[r] = "storing" => pc[r] = "storing",
         pc'[r] \in Early => pc[r] \in Early,
         \A q \in Reads \ {r} : writer'[q] = writer[q],
         writer'[r].at = "idle"
  PROVE  Single'
<1>1. \A q \in Reads \ {r} : pc'[q] = pc[q]
  BY OthersStay
<1>2. OneWriter'
  <2>1. \A q \in Reads : pc'[q] = "storing" => pc[q] = "storing"
    BY <1>1
  <2>2. \A q \in Reads : writer'[q].at # "idle" =>
           /\ writer[q].at # "idle" /\ writer'[q].variant = writer[q].variant
           /\ pc'[q] = pc[q]
    BY <1>1
  <2> QED BY <2>1, <2>2, OneWriterKept DEF Single
<1>3. FilesApart'
  <2>1. \A q \in Reads : pc'[q] \in Early => pc[q] \in Early
    BY <1>1
  <2>2. \A q \in Reads : writer'[q].at \in {"open", "write"} => writer'[q] = writer[q]
    OBVIOUS
  <2> QED BY <2>1, <2>2, RemovesApart DEF Single
<1>4. EntriesWhole' /\ AllBytesWhole'
  BY RemovesWhole, BytesStayWhole DEF Single
<1> QED BY <1>2, <1>3, <1>4 DEF Single

(* Lookups, the errors of the remote store and a lost race.                  *)
LEMMA LookKeepsSingle ==
  ASSUME Base, Single, NEW r \in Reads, Look(r)
  PROVE  Single'
<1>1. ReadStep(r) /\ Removes /\ writer' = writer /\ pc'[r] # "storing" /\ pc[r] \in Early
  BY LookChanges, LookStoresNothing
<1>2. writer'[r].at = "idle"
  BY <1>1 DEF Base, WritersRun
<1> QED BY <1>1, <1>2, QuietKeepsSingle

(* An error answers the read, and nothing is stored.                         *)
LEMMA RemoteFailsKeepsSingle ==
  ASSUME Base, Single, NEW r \in Reads, NEW o \in Contract!Outcome \ {"Bytes"}, RemoteFails(r, o)
  PROVE  Single'
<1>1. ReadStep(r) /\ Removes /\ writer' = writer
  BY RemoteFailsChanges
<1>2. pc[r] \in Early /\ pc'[r] = "done"
  BY DEF RemoteFails, Early, Answer, Base, DiskTypeOK
<1>3. writer'[r].at = "idle"
  BY <1>1, <1>2 DEF Base, WritersRun
<1> QED BY <1>1, <1>2, <1>3, QuietKeepsSingle

(* With room on the disk, only the loser of a race gives up.                 *)
LEMMA GiveUpKeepsSingle ==
  ASSUME Base, Single, NEW r \in Reads, GiveUp(r), ~setup.full
  PROVE  Single'
<1>1. ReadStep(r) /\ Removes /\ Finished(r) /\ writer[r].at = "lost"
  BY GiveUpChanges
<1>2. pc[r] = "storing" /\ writer[r].variant = "plain"
  BY <1>1 DEF Single, OneWriter
<1>3. writer'[r] = Idle /\ pc'[r] = "done" /\ \A q \in Reads \ {r} : writer'[q] = writer[q]
  BY <1>1, <1>2 DEF Finished
<1>4. writer'[r].at = "idle" /\ pc'[r] \notin Early
  BY <1>3, IdleFields DEF Early
<1> QED BY <1>1, <1>3, <1>4, QuietKeepsSingle

(* Evictions, kills and calls: no read goes on.                              *)
LEMMA CallersKeepSingle ==
  ASSUME Base, Single, Removes, UNCHANGED <<answers, given>>,
         \A q \in Reads : /\ pc'[q] = "storing" => pc[q] = "storing"
                          /\ pc'[q] \in Early => pc[q] \in Early
                          /\ writer'[q].at # "idle" => writer'[q] = writer[q] /\ pc'[q] = pc[q]
  PROVE  Single'
<1>1. OneWriter'
  BY OneWriterKept DEF Single
<1>2. FilesApart'
  BY RemovesApart DEF Single
<1>3. EntriesWhole'
  BY RemovesWhole DEF Single
<1>4. AllBytesWhole'
  BY DEF Single, AllBytesWhole
<1> QED BY <1>1, <1>2, <1>3, <1>4 DEF Single

(* The callback thread is busy while a read is being stored: the next one    *)
(* has to wait for it.                                                       *)
LEMMA RemoteBytesKeepsSingle ==
  ASSUME Base, SingleCase, Single, NEW r \in Reads, RemoteBytes(r)
  PROVE  Single'
<1>1. /\ ReadStep(r) /\ UNCHANGED diskVars
      /\ \A q \in Reads \ {r} : writer'[q] = writer[q] /\ pc'[q] = pc[q]
  BY RemoteBytesChanges, OthersStay
<1>2. writer'[r] = Opening("plain") /\ pc'[r] = "storing"
  BY RemoteBytesChanges DEF SingleCase, Goto, Base, DiskTypeOK
<1>3. writer'[r].at = "open" /\ writer'[r].variant = "plain"
  BY <1>2, IdleFields DEF Variants
<1>4. \A q \in Reads : pc[q] # "storing"
  <2>1. r \in asked /\ r \in DOMAIN setup.viewer
    BY DEF RemoteBytes, Base, AnsweredOnce, DiskTypeOK
  <2>2. ASSUME NEW q \in Reads, pc[q] = "storing" PROVE FALSE
    <3>1. q \in asked /\ q \in DOMAIN setup.viewer
      BY <2>2 DEF Base, AnsweredOnce, DiskTypeOK
    <3>2. setup.viewer[q] = setup.viewer[r]
      BY <2>1, <3>1 DEF SingleCase, OneViewer
    <3> QED BY <2>2, <3>1, <3>2 DEF RemoteBytes, CallbackThreadFree
  <2> QED BY <2>2
<1>5. OneWriter'
  BY <1>1, <1>2, <1>3, <1>4 DEF Single, OneWriter
<1>6. FilesApart'
  <2>1. pc[r] \in Early
    BY DEF RemoteBytes, Early
  <2>2. UNCHANGED <<tmp, entry, units>>
    BY <1>1 DEF diskVars
  <2> QED BY <1>1, <1>2, <1>3, <2>1, <2>2 DEF Single, FilesApart, Fills
<1>7. EntriesWhole' /\ AllBytesWhole'
  BY <1>1, BytesStayWhole DEF Single, EntriesWhole, diskVars
<1> QED BY <1>5, <1>6, <1>7 DEF Single

(* What the other reads are doing while the one writer writes.               *)
LEMMA OthersIdle ==
  ASSUME Single, NEW r \in Reads, writer[r].at # "idle"
  PROVE  /\ pc[r] = "storing" /\ writer[r].variant = "plain"
         /\ \A q \in Reads \ {r} : writer[q].at = "idle"
BY DEF Single, OneWriter

(* The writer empties the ".tmp" file, which no reader can open.             *)
LEMMA OpenKeepsSingle ==
  ASSUME Base, Single, NEW r \in Reads, Open(r)
  PROVE  Single'
<1>1. PICK f \in Files : f = Opened(r)
  BY OpenChanges
<1>2. /\ ReadStep(r) /\ Base' /\ UNCHANGED <<answerVars, entry>>
      /\ writer[r].at = "open"
      /\ tmp' = [tmp EXCEPT ![writer[r].variant] = f]
      /\ units' = [units EXCEPT ![f] = {}]
      /\ writer'[r].at = "write" /\ writer'[r].file = f /\ writer'[r].next = 1
      /\ writer'[r].variant = writer[r].variant
      /\ \A q \in Reads \ {r} : writer'[q] = writer[q]
  BY <1>1, OpenChanges
<1>3. /\ pc[r] = "storing" /\ writer[r].variant = "plain" /\ pc' = pc
      /\ \A q \in Reads \ {r} : writer[q].at = "idle"
  BY <1>2, OthersIdle DEF answerVars
<1>4. \/ f = <<r, "plain">> /\ tmp["plain"] = NoFile
      \/ f = tmp["plain"] /\ tmp["plain"] # NoFile
  BY <1>1, <1>3 DEF Opened
<1>5. f # entry["plain"] /\ f # entry["coded"] /\ f # NoFile
  BY <1>2, <1>4, DiskAssumption DEF Single, FilesApart, DiskAssumption
<1>6. tmp'["plain"] = f /\ tmp'["coded"] = NoFile
  BY <1>2, <1>3 DEF Single, FilesApart, Base, DiskTypeOK, Variants
<1>7. \A q \in Reads \ {r} : <<q, "plain">> # <<r, "plain">>
  OBVIOUS
<1>8. OneWriter'
  BY <1>2, <1>3 DEF Single, OneWriter
<1>9. FilesApart'
  <2>1. ASSUME NEW q \in Reads, pc'[q] \in Early \/ writer'[q].at = "open"
        PROVE  <<q, "plain">> # tmp'["plain"] /\ <<q, "plain">> # entry'["plain"]
    <3>1. q # r
      BY <1>2, <1>3, <2>1 DEF Early
    <3>2. <<q, "plain">> # tmp["plain"] /\ <<q, "plain">> # entry["plain"]
      BY <1>2, <1>3, <2>1, <3>1 DEF Single, FilesApart
    <3>3. <<q, "plain">> # f
      BY <1>4, <1>7, <3>1, <3>2
    <3> QED BY <1>2, <1>6, <3>2, <3>3
  <2>2. 1 .. writer'[r].next - 1 \subseteq units'[f]
    BY <1>2
  <2>3. \A q \in Reads : writer'[q].at = "write" => q = r
    BY <1>2, <1>3
  <2> QED BY <1>2, <1>5, <1>6, <2>1, <2>2, <2>3 DEF Single, FilesApart, Fills
<1>10. EntriesWhole'
  BY <1>2, <1>5 DEF Single, EntriesWhole, Variants, Base, DiskTypeOK
<1>11. AllBytesWhole'
  BY <1>2, BytesStayWhole DEF Single
<1> QED BY <1>8, <1>9, <1>10, <1>11 DEF Single

(* It writes to that file and to no entry.                                   *)
LEMMA WriteKeepsSingle ==
  ASSUME Base, Single, ~setup.full, NEW r \in Reads, Write(r)
  PROVE  Single'
<1>1. /\ ReadStep(r) /\ UNCHANGED <<answerVars, entry, tmp>>
      /\ writer[r].at = "write" /\ writer[r].file \in Files
      /\ \A f \in Files \ {writer[r].file} : units'[f] = units[f]
      /\ writer'[r].at = "write" /\ writer'[r].file = writer[r].file
      /\ writer'[r].variant = writer[r].variant
      /\ \A q \in Reads \ {r} : writer'[q] = writer[q]
  BY WriteChanges
<1>2. /\ pc[r] = "storing" /\ writer[r].variant = "plain" /\ pc' = pc
      /\ \A q \in Reads \ {r} : writer[q].at = "idle"
  BY <1>1, OthersIdle DEF answerVars
<1>3. /\ writer[r].file # entry["plain"] /\ tmp["plain"] \in {writer[r].file, NoFile}
      /\ entry["coded"] = NoFile
      /\ Fills(r, writer[r].file)
  BY <1>1 DEF Single, FilesApart
<1>4. OneWriter'
  BY <1>1, <1>2 DEF Single, OneWriter
<1>5. PICK f \in Files : f = writer[r].file
  BY <1>1
<1>6. Fills(r, f)'
  BY <1>3, <1>5, WriteFills DEF Fills
<1>7. Fills(r, writer[r].file)'
  BY <1>1, <1>5, <1>6 DEF Fills
<1>8. FilesApart'
  <2>1. ASSUME NEW q \in Reads, pc'[q] \in Early \/ writer'[q].at = "open"
        PROVE  <<q, "plain">> # tmp'["plain"] /\ <<q, "plain">> # entry'["plain"]
    <3>1. q # r
      BY <1>1, <1>2, <2>1 DEF Early
    <3> QED BY <1>1, <1>2, <2>1, <3>1 DEF Single, FilesApart
  <2>2. \A q \in Reads : writer'[q].at = "write" => q = r
    BY <1>1, <1>2
  <2>3. /\ tmp'["coded"] = NoFile /\ entry'["coded"] = NoFile
        /\ tmp'["plain"] # NoFile => tmp'["plain"] # entry'["plain"]
    BY <1>1 DEF Single, FilesApart
  <2>4. ASSUME NEW q \in Reads, writer'[q].at = "write"
        PROVE  /\ tmp'["plain"] \in {writer'[q].file, NoFile}
               /\ writer'[q].file # entry'["plain"]
               /\ 1 .. writer'[q].next - 1 \subseteq units'[writer'[q].file]
    <3>1. q = r
      BY <2>2, <2>4
    <3>2. 1 .. writer'[r].next - 1 \subseteq units'[writer'[r].file]
      BY <1>1, <1>5, <1>6 DEF Fills
    <3> QED BY <1>1, <1>3, <3>1, <3>2
  <2> QED BY <2>1, <2>3, <2>4 DEF FilesApart, Fills
<1>9. EntriesWhole'
  <2>1. ASSUME NEW v \in Variants, entry'[v] # NoFile PROVE units'[entry'[v]] = Whole
    <3>1. entry'[v] = entry[v] /\ entry[v] \in Files \ {writer[r].file}
      BY <1>1, <1>3, <2>1 DEF Variants, Base, DiskTypeOK
    <3> QED BY <1>1, <2>1, <3>1 DEF Single, EntriesWhole
  <2> QED BY <2>1 DEF EntriesWhole
<1>10. AllBytesWhole'
  BY <1>1, BytesStayWhole DEF Single
<1> QED BY <1>4, <1>8, <1>9, <1>10 DEF Single

(* The file that becomes the entry is the writer's own, and it is written.   *)
LEMMA RenameKeepsSingle ==
  ASSUME Base, Single, NEW r \in Reads, Rename(r)
  PROVE  Single'
<1>1. /\ ReadStep(r) /\ units' = units
      /\ writer[r].at = "write" /\ writer[r].file \in Files
      /\ writer[r].next = Length + 1
      /\ \/ /\ tmp[writer[r].variant] # NoFile
            /\ entry' = [entry EXCEPT ![writer[r].variant] = tmp[writer[r].variant]]
            /\ tmp' = [tmp EXCEPT ![writer[r].variant] = NoFile]
            /\ Finished(r)
         \/ /\ UNCHANGED <<answerVars, tmp, entry>>
            /\ writer'[r].at = "lost" /\ writer'[r].variant = writer[r].variant
            /\ \A q \in Reads \ {r} : writer'[q] = writer[q]
  BY RenameChanges
<1>2. /\ pc[r] = "storing" /\ writer[r].variant = "plain"
      /\ \A q \in Reads \ {r} : writer[q].at = "idle"
  BY <1>1, OthersIdle
<1>3. /\ tmp["plain"] \in {writer[r].file, NoFile}
      /\ units[writer[r].file] = Whole
  BY <1>1, FilledIsWhole DEF Single, FilesApart
<1>4. \A q \in Reads \ {r} : pc'[q] = pc[q]
  BY <1>1, OthersStay
<1>5. AllBytesWhole'
  BY <1>1, BytesStayWhole DEF Single
<1>6. CASE /\ tmp["plain"] # NoFile
           /\ entry' = [entry EXCEPT !["plain"] = tmp["plain"]]
           /\ tmp' = [tmp EXCEPT !["plain"] = NoFile]
           /\ Finished(r)
  <2>1. /\ entry'["plain"] = writer[r].file /\ entry'["coded"] = NoFile
        /\ tmp'["plain"] = NoFile /\ tmp'["coded"] = NoFile
    BY <1>3, <1>6 DEF Single, FilesApart, Base, DiskTypeOK, Variants
  <2>2. /\ writer'[r] = Idle /\ writer'[r].at = "idle" /\ pc'[r] = "done"
        /\ \A q \in Reads \ {r} : writer'[q] = writer[q]
    BY <1>2, <1>6, IdleFields DEF Finished
  <2>3. OneWriter'
    BY <1>2, <1>4, <2>2 DEF Single, OneWriter
  <2>4. ASSUME NEW q \in Reads, pc'[q] \in Early \/ writer'[q].at = "open"
        PROVE  <<q, "plain">> # tmp'["plain"] /\ <<q, "plain">> # entry'["plain"]
    <3>1. q # r
      BY <2>2, <2>4 DEF Early
    <3>2. <<q, "plain">> # tmp["plain"] /\ tmp["plain"] = writer[r].file
      BY <1>3, <1>4, <1>6, <2>2, <2>4, <3>1 DEF Single, FilesApart
    <3>3. <<q, "plain">> # NoFile
      BY DiskAssumption DEF DiskAssumption, Files, Variants
    <3> QED BY <2>1, <3>2, <3>3
  <2>5. \A q \in Reads : writer'[q].at = "idle"
    BY <1>2, <2>2
  <2>6. FilesApart'
    BY <2>1, <2>4, <2>5 DEF FilesApart
  <2>7. EntriesWhole'
    BY <1>1, <1>3, <2>1 DEF EntriesWhole, Variants
  <2> QED BY <1>5, <2>3, <2>6, <2>7 DEF Single
<1>7. CASE /\ UNCHANGED <<answerVars, tmp, entry>>
           /\ writer'[r].at = "lost" /\ writer'[r].variant = "plain"
           /\ \A q \in Reads \ {r} : writer'[q] = writer[q]
  <2>1. pc' = pc
    BY <1>7 DEF answerVars
  <2>2. OneWriter'
    BY <1>2, <1>7, <2>1 DEF Single, OneWriter
  <2>3. Removes
    BY <1>1, <1>7 DEF Removes, Base, DiskTypeOK
  <2>4. \A q \in Reads : writer'[q].at \in {"open", "write"} => writer'[q] = writer[q]
    BY <1>7
  <2>5. FilesApart' /\ EntriesWhole'
    BY <2>1, <2>3, <2>4, RemovesApart, RemovesWhole DEF Single
  <2> QED BY <1>5, <2>2, <2>5 DEF Single
<1> QED BY <1>1, <1>2, <1>6, <1>7

(* Every step keeps SingleWriter.                                            *)
LEMMA NextKeepsSingle ==
  ASSUME Base, SingleWriter, [Next]_vars
  PROVE  SingleWriter'
<1>1. setup' = setup
  <2>1. ASSUME NEW r \in Reads, Ask(r) \/ Stop(r) \/ Work(r) PROVE setup' = setup
    BY <2>1, AskChanges, StopChanges, WorkKeepsBase DEF ReadStep, Under
  <2>2. Evict \/ (\E r \in asked : Crash(setup.viewer[r])) => setup' = setup
    BY EvictChanges, CrashChanges
  <2>3. UNCHANGED vars => setup' = setup
    BY DEF vars, callerVars
  <2> QED BY <2>1, <2>2, <2>3 DEF Next
<1>2. SingleCase' => SingleCase
  BY <1>1 DEF SingleCase, OneViewer
<1> SUFFICES ASSUME SingleCase, Single PROVE Single'
  BY <1>2 DEF SingleWriter
<1>3. ASSUME NEW r \in Reads, Ask(r) PROVE Single'
  <2>1. /\ UNCHANGED <<writer, diskVars, answers, given>>
        /\ pc[r] = "new" /\ pc' = [pc EXCEPT ![r] = "posted"]
    BY <1>3, AskChanges
  <2>2. Removes
    BY <2>1 DEF Removes, diskVars, Base, DiskTypeOK
  <2>3. writer[r].at = "idle"
    BY <2>1 DEF Base, WritersRun, Early
  <2>4. \A q \in Reads : /\ pc'[q] = "storing" => pc[q] = "storing"
                         /\ pc'[q] \in Early => pc[q] \in Early
                         /\ writer'[q].at # "idle" => writer'[q] = writer[q] /\ pc'[q] = pc[q]
    BY <2>1, <2>3 DEF Base, DiskTypeOK, Early
  <2> QED BY <2>1, <2>2, <2>4, CallersKeepSingle
<1>4. ASSUME UNCHANGED <<answerVars, writer>>, Removes PROVE Single'
  <2>1. \A q \in Reads : /\ pc'[q] = "storing" => pc[q] = "storing"
                         /\ pc'[q] \in Early => pc[q] \in Early
                         /\ writer'[q].at # "idle" => writer'[q] = writer[q] /\ pc'[q] = pc[q]
    BY <1>4 DEF answerVars
  <2> QED BY <1>4, <2>1, CallersKeepSingle DEF answerVars
<1>5. ASSUME UNCHANGED diskVars PROVE Removes
  BY <1>5 DEF Removes, diskVars, Base, DiskTypeOK
<1>6. ASSUME NEW r \in Reads, Stop(r) PROVE Single'
  BY <1>4, <1>5, <1>6, StopChanges
<1>7. ASSUME NEW r \in Reads, Work(r) PROVE Single'
  BY <1>7, LookKeepsSingle, RemoteBytesKeepsSingle, RemoteFailsKeepsSingle, OpenKeepsSingle,
     WriteKeepsSingle, RenameKeepsSingle, GiveUpKeepsSingle
     DEF Work, RemoteAnswers, Store, GiveUp, SingleCase
<1>8. CASE Evict
  BY <1>4, <1>8, EvictChanges
<1>9. ASSUME NEW p, Crash(p) PROVE Single'
  <2>1. /\ UNCHANGED <<diskVars, answers, given>>
        /\ \A r \in Reads : /\ writer'[r] \in {writer[r], Idle}
                            /\ pc'[r] = pc[r] \/ (pc[r] # "done" /\ pc'[r] = "dead")
                            /\ pc[r] = "storing" /\ pc'[r] = "dead" => writer'[r] = Idle
    BY <1>9, CrashChanges
  <2>2. ASSUME NEW q \in Reads
        PROVE  /\ pc'[q] = "storing" => pc[q] = "storing"
               /\ pc'[q] \in Early => pc[q] \in Early
               /\ writer'[q].at # "idle" => writer'[q] = writer[q] /\ pc'[q] = pc[q]
    <3>1. pc'[q] = "storing" => pc[q] = "storing"
      BY <2>1
    <3>2. pc'[q] \in Early => pc[q] \in Early
      BY <2>1 DEF Early
    <3>3. ASSUME writer'[q].at # "idle" PROVE writer'[q] = writer[q] /\ pc'[q] = pc[q]
      <4>1. writer'[q] = writer[q]
        BY <2>1, <3>3, IdleFields
      <4>2. pc[q] = "storing"
        BY <3>3, <4>1 DEF Single, OneWriter
      <4> QED BY <2>1, <3>3, <4>1, <4>2, IdleFields
    <3> QED BY <3>1, <3>2, <3>3
  <2> QED BY <1>5, <2>1, <2>2, CallersKeepSingle
<1>10. CASE UNCHANGED vars
  BY <1>4, <1>5, <1>10 DEF vars
<1> QED BY <1>3, <1>6, <1>7, <1>8, <1>9, <1>10 DEF Next

-----------------------------------------------------------------------------
(* The theorems. *)

LEMMA DInvInit ==
  ASSUME Init
  PROVE  DInv
<1>1. Base
  BY BaseInit
<1>2. InUse = {}
  BY DiskAssumption DEF Init, InUse, DiskAssumption
<1>3. Covered
  BY <1>2 DEF Covered
<1>4. /\ \A r \in Reads : pc[r] = "new" /\ writer[r].at = "idle" /\ answers[r] = <<>>
      /\ tmp["plain"] = NoFile /\ tmp["coded"] = NoFile
      /\ \A v \in Variants : entry[v] = NoFile
  BY IdleFields DEF Init, Variants
<1>5. OneWriter
  BY <1>4 DEF OneWriter
<1>6. FilesApart
  <2>1. \A r \in Reads : <<r, "plain">> # NoFile
    BY DiskAssumption DEF DiskAssumption, Files, Variants
  <2>2. entry["plain"] = NoFile /\ entry["coded"] = NoFile
    BY <1>4 DEF Variants
  <2>3. \A r \in Reads : writer[r].at # "open" /\ writer[r].at # "write"
    BY <1>4
  <2> QED BY <1>4, <2>1, <2>2, <2>3, Zenon DEF FilesApart
<1>7. EntriesWhole /\ AllBytesWhole
  BY <1>4 DEF EntriesWhole, AllBytesWhole
<1> QED BY <1>1, <1>3, <1>5, <1>6, <1>7 DEF DInv, SingleWriter, Single

(* DInv is an invariant.                                                     *)
LEMMA DiskInvariant == Spec => []DInv
<1>1. Init => DInv
  BY DInvInit
<1>2. DInv /\ [Next]_vars => DInv'
  BY NextKeepsBase, NextCovers, NextKeepsSingle DEF DInv
<1> QED BY <1>1, <1>2, PTL DEF Spec

(* The variables keep their types.                                           *)
THEOREM DiskCacheTyped == Spec => []DiskTypeOK
<1>1. DInv => DiskTypeOK
  BY DEF DInv, Base
<1> QED BY <1>1, DiskInvariant, PTL

(* NotFound and the ".miss" marker come from the remote store's NotFound,    *)
(* however lookups, errors, evictions and kills interleave.                  *)
THEOREM AbsenceIsLearnt == Spec => []MissingOnRemote
<1>1. DInv => MissingOnRemote
  BY DEF DInv, Base, MissLearnt, MissingOnRemote
<1> QED BY <1>1, DiskInvariant, PTL

(* Without a transcoder and with room on the disk, one viewer's callers get  *)
(* whole objects, evictions and kills included; and what several viewers     *)
(* write at once to one ".tmp" file is whole when the last of them is done.  *)
THEOREM CallersGetWholeBytes == Spec => []BytesAreWhole
<1>1. ASSUME DInv PROVE BytesAreWhole
  <2>1. ASSUME setup.codec = "none", ~setup.full, OneViewer PROVE AllBytesWhole
    BY <1>1, <2>1 DEF DInv, SingleWriter, SingleCase, Single
  <2>2. ASSUME Undisturbed, \A r \in Reads : writer[r] = Idle, NEW v \in Variants,
               entry[v] # NoFile
        PROVE  units[entry[v]] = Whole
    <3>1. entry[v] \in InUse
      BY <1>1, <2>2 DEF InUse, DInv, Base, DiskTypeOK
    <3>2. \A r \in Reads : ~Fills(r, entry[v])
      BY <2>2, IdleFields DEF Fills
    <3> QED BY <1>1, <2>2, <3>1, <3>2 DEF DInv, Covered, Undisturbed
  <2> QED BY <2>1, <2>2 DEF BytesAreWhole, EntriesWhole
<1> QED BY <1>1, DiskInvariant, PTL

(* A step of the cache is a step of a store as StoreContract describes it,   *)
(* or none that its callers see.                                             *)
LEMMA ReadStepImplements ==
  ASSUME Base, NEW r \in Reads, ReadStep(r)
  PROVE  Contract!Answer(r) \/ UNCHANGED <<asked, stop, answers>>
<1>1. CASE UNCHANGED answerVars
  BY <1>1 DEF ReadStep, Under, answerVars
<1>2. CASE Proceed(r)
  BY <1>2 DEF ReadStep, Under, Proceed, Goto
<1>3. CASE pc[r] \notin {"new", "done"} /\ Reply(r)
  <2>1. PICK o \in Contract!Outcome, from \in Files \cup {NoFile, Remote, Marker},
             bytes \in SUBSET Whole : Answer(r, o, from, bytes) /\ Learnt(r, o, bytes)
    BY <1>3 DEF Reply
  <2>2. answers' = [answers EXCEPT ![r] = <<o>>]
    BY <1>3, <2>1, AnswerChanges DEF Base
  <2>3. r \in asked /\ answers[r] = <<>> /\ (o = "Cancelled" => r \in stop)
    BY <1>3, <2>1 DEF Base, AnsweredOnce, Learnt
  <2>4. asked' = asked /\ stop' = stop
    BY DEF ReadStep, Under
  <2> QED BY <2>2, <2>3, <2>4 DEF Contract!Answer, Contract!Answered
<1> QED BY <1>1, <1>2, <1>3 DEF ReadStep

(* Every step of the cache, as the contract sees it.                         *)
LEMMA NextImplements ==
  ASSUME Base, [Next]_vars
  PROVE  [Contract!Next]_(Contract!contractVars)
<1>1. ASSUME NEW r \in Reads, Ask(r) PROVE Contract!Ask(r)
  <2>1. /\ UNCHANGED <<stop, answers>> /\ pc[r] = "new" /\ asked' = asked \cup {r}
    BY <1>1, AskChanges
  <2>2. r \notin asked
    BY <2>1 DEF Base, AnsweredOnce
  <2> QED BY <2>1, <2>2 DEF Contract!Ask
<1>2. ASSUME NEW r \in Reads, Stop(r) PROVE Contract!Stop(r)
  BY <1>2, StopChanges DEF Contract!Stop, answerVars
<1>3. ASSUME NEW r \in Reads, Work(r)
      PROVE  Contract!Answer(r) \/ UNCHANGED <<asked, stop, answers>>
  BY <1>3, WorkKeepsBase, ReadStepImplements
<1>4. CASE Evict
  BY <1>4, EvictChanges DEF Contract!contractVars, answerVars
<1>5. ASSUME NEW r \in asked, Crash(setup.viewer[r]) PROVE UNCHANGED <<asked, stop, answers>>
  BY <1>5, CrashChanges
<1>6. CASE UNCHANGED vars
  BY <1>6 DEF vars, callerVars, answerVars, Contract!contractVars
<1> QED BY <1>1, <1>2, <1>3, <1>4, <1>5, <1>6 DEF Next, Contract!Next, Contract!contractVars

(* Every read is answered at most once, and only as a store may answer it.   *)
THEOREM CacheIsAStore == Spec => ImplementsContract
<1>1. Init => Contract!Init
  BY DEF Init, Contract!Init
<1>2. DInv /\ [Next]_vars => [Contract!Next]_(Contract!contractVars)
  BY NextImplements DEF DInv
<1> QED BY <1>1, <1>2, DiskInvariant, PTL DEF Spec, ImplementsContract, Contract!Spec
=============================================================================

-------------------------- MODULE EffectLibraryProofs --------------------------
(***************************************************************************)
(* For any number of saved effects, devices, deployments, saves that fail  *)
(* and restarts: the library is what was answered, what a light shows as   *)
(* active was played, and what refers to a saved effect finds it.  The     *)
(* second rests on what every copy of a record or a hint says, in memory,  *)
(* on disk, in a deployment under way and in a removal, and on the lock of *)
(* library mutations, which keeps deployments of saved effects apart from  *)
(* deletions.  The third rests on what records on disk refer to as well    *)
(* (RInv), and on a deletion holding every record of its item.             *)
(***************************************************************************)
EXTENDS EffectLibrary, TLAPS

Sources == Items \cup {None}
Sights == Signatures \cup {None}
Library == [Items -> Nat]

Record == [dev : Devices, of : Sources, ver : Nat, hash : Nat, sig : Sights,
           attached : BOOLEAN, phase : {"running", "confirmed", "ended"}]

Hint == [of : Sources, ver : Nat, hash : Nat, sig : Sights, attached : BOOLEAN]

\* What was seen of devices: items and versions.
Seen == [Devices -> SUBSET (Sources \X Nat)]

\* A record says of its device what was seen, and of its item what it was,
\* but for the items whose records were given another version.
RecordIsTrue(r, other, seen) ==
    r # None /\ r.of \notin other =>
        /\ r.phase = "confirmed" => <<r.of, r.hash>> \in seen[r.dev]
        /\ r.attached => r.hash = r.ver

HintIsTrue(h, d, other, seen) ==
    h # None /\ h.attached /\ h.of \notin other =>
        /\ <<h.of, h.hash>> \in seen[d]
        /\ h.hash = h.ver

GoodRecords(all, other, seen) ==
    /\ all \in [Op -> Record \cup {None}]
    /\ \A o \in Op : RecordIsTrue(all[o], other, seen)

GoodHint(h, d, other, seen) ==
    h \in Hint \cup {None} /\ HintIsTrue(h, d, other, seen)

GoodHints(all, other, seen) ==
    /\ all \in [Devices -> Hint \cup {None}]
    /\ \A d \in Devices : HintIsTrue(all[d], d, other, seen)

GoodDisk(d, other, seen) ==
    /\ d \in [library : Library, records : [Op -> Record \cup {None}],
              hints : [Devices -> Hint \cup {None}]]
    /\ GoodRecords(d.records, other, seen)
    /\ GoodHints(d.hints, other, seen)

Work == [op : Nat, of : Sources, ver : Nat, sig : Sights, prior : Hint \cup {None},
         step : {"idle", "running", "failing"}]

GoodWork(all, other, seen) ==
    /\ all \in [Devices -> Work]
    /\ \A d \in Devices : HintIsTrue(all[d].prior, d, other, seen)

GoodRemoval(r, other, seen) ==
    /\ r \in [dev : Devices \cup {None}, copy : [Devices -> Hint \cup {None}] \cup {None},
              todo : SUBSET {"hints", "records"}]
    /\ "hints" \in r.todo => GoodHints(r.copy, other, seen)

JobType ==
    /\ job \in [kind : {"idle", "delete", "apply"}, item : Sources, ver : Nat,
                dev : Devices \cup {None},
                step : {"idle", "remove", "reattach", "waits", "runs"},
                held : SUBSET Op]
    /\ job.kind = "delete" => job.item \in Items

\* Who deploys a saved effect holds the lock, and a deletion does not.
WorkIsLocked ==
    \A d \in Devices : work[d].of # None =>
        job.kind = "apply" /\ job.step = "runs" /\ job.dev = d

\* What a deletion detached is of its item as long as it is of an item.
HeldIsOfItem ==
    job.kind = "delete" =>
        \A o \in job.held :
            records[o] # None /\ records[o].of # None => records[o].of = job.item

\* What is on disk was answered as well, or written since by a call that was
\* cancelled.
DiskIsKept == disk.library \in {promised} \cup doubt

Facts(other, seen) ==
    /\ other \subseteq Sources /\ seen \in Seen

IInv ==
    /\ Facts(rewritten, confirmed)
    /\ library \in Library /\ ops \in Nat
    /\ GoodRecords(records, rewritten, confirmed)
    /\ GoodHints(hints, rewritten, confirmed)
    /\ GoodDisk(disk, rewritten, confirmed)
    /\ GoodWork(work, rewritten, confirmed)
    /\ GoodRemoval(removal, rewritten, confirmed)
    /\ JobType /\ WorkIsLocked /\ HeldIsOfItem
    /\ AnsweredIsKept /\ DiskIsKept

-----------------------------------------------------------------------------
(* What is done to records and hints.                                      *)

\* What is true stays true when more is seen or excepted.
LEMMA MoreIsSeen ==
    ASSUME NEW other, NEW seen, NEW more, NEW since,
           other \subseteq more, \A d \in Devices : seen[d] \subseteq since[d]
    PROVE  /\ \A all : GoodRecords(all, other, seen) => GoodRecords(all, more, since)
           /\ \A all : GoodHints(all, other, seen) => GoodHints(all, more, since)
           /\ \A d : GoodDisk(d, other, seen) => GoodDisk(d, more, since)
           /\ \A all : GoodWork(all, other, seen) => GoodWork(all, more, since)
           /\ \A r : GoodRemoval(r, other, seen) => GoodRemoval(r, more, since)
<1>1. ASSUME NEW all, GoodRecords(all, other, seen) PROVE GoodRecords(all, more, since)
  BY <1>1 DEF GoodRecords, RecordIsTrue, Record
<1>2. ASSUME NEW all, GoodHints(all, other, seen) PROVE GoodHints(all, more, since)
  BY <1>2 DEF GoodHints, HintIsTrue
<1>3. ASSUME NEW d, GoodDisk(d, other, seen) PROVE GoodDisk(d, more, since)
  BY <1>1, <1>2, <1>3 DEF GoodDisk
<1>4. ASSUME NEW all, GoodWork(all, other, seen) PROVE GoodWork(all, more, since)
  BY <1>4 DEF GoodWork, HintIsTrue
<1>5. ASSUME NEW r, GoodRemoval(r, other, seen) PROVE GoodRemoval(r, more, since)
  BY <1>2, <1>5 DEF GoodRemoval
<1> QED
  BY <1>1, <1>2, <1>3, <1>4, <1>5

\* Letting go of an item leaves the rest of a record as it was.
LEMMA DetachedRecords ==
    ASSUME NEW all, NEW i, NEW other, NEW seen, GoodRecords(all, other, seen)
    PROVE  /\ GoodRecords(Detached(all, i), other, seen)
           /\ \A o \in Op : Detached(all, i)[o] # None =>
                 all[o] # None /\ Detached(all, i)[o].of = all[o].of
<1>1. ASSUME NEW o \in Op
      PROVE  /\ Detached(all, i)[o] \in Record \cup {None}
             /\ RecordIsTrue(Detached(all, i)[o], other, seen)
             /\ Detached(all, i)[o] # None =>
                   all[o] # None /\ Detached(all, i)[o].of = all[o].of
  BY <1>1 DEF GoodRecords, Detached, Names, Record, RecordIsTrue
<1> QED
  BY <1>1 DEF GoodRecords, Detached

LEMMA DetachedHints ==
    ASSUME NEW all, NEW i, NEW other, NEW seen, GoodHints(all, other, seen)
    PROVE  GoodHints(Detached(all, i), other, seen)
<1>1. ASSUME NEW d \in Devices
      PROVE  GoodHint(Detached(all, i)[d], d, other, seen)
  BY <1>1 DEF GoodHints, GoodHint, Detached, Names, Hint, HintIsTrue
<1> QED
  BY <1>1 DEF GoodHints, GoodHint, Detached

\* A new content hash is that of the version, as it was already.
LEMMA RehashedRecords ==
    ASSUME NEW all, NEW lib, NEW other, NEW seen, GoodRecords(all, other, seen)
    PROVE  GoodRecords(Rehashed(all, lib), other, seen)
<1>1. ASSUME NEW o \in Op
      PROVE  /\ Rehashed(all, lib)[o] \in Record \cup {None}
             /\ RecordIsTrue(Rehashed(all, lib)[o], other, seen)
  BY ZenonT(60), <1>1 DEF GoodRecords, Rehashed, Record, RecordIsTrue
<1> QED
  BY <1>1 DEF GoodRecords, Rehashed

LEMMA RehashedHints ==
    ASSUME NEW all, NEW lib, NEW other, NEW seen, GoodHints(all, other, seen)
    PROVE  GoodHints(Rehashed(all, lib), other, seen)
<1>1. ASSUME NEW d \in Devices
      PROVE  GoodHint(Rehashed(all, lib)[d], d, other, seen)
  BY <1>1 DEF GoodHints, GoodHint, Rehashed, Hint, HintIsTrue
<1> QED
  BY <1>1 DEF GoodHints, GoodHint, Rehashed

LEMMA InterruptedRecords ==
    ASSUME NEW all, NEW other, NEW seen, GoodRecords(all, other, seen)
    PROVE  GoodRecords(Interrupted(all), other, seen)
<1>1. ASSUME NEW o \in Op
      PROVE  /\ Interrupted(all)[o] \in Record \cup {None}
             /\ RecordIsTrue(Interrupted(all)[o], other, seen)
  BY <1>1 DEF GoodRecords, Interrupted, Record, RecordIsTrue
<1> QED
  BY <1>1 DEF GoodRecords, Interrupted

\* The hint that a confirmed record gives is as true as the record.
LEMMA HintOfConfirmed ==
    ASSUME NEW r \in Record, NEW other, NEW seen, r # None,
           r.phase = "confirmed", RecordIsTrue(r, other, seen)
    PROVE  GoodHint(HintOf(r), r.dev, other, seen)
BY DEF GoodHint, HintOf, HintIsTrue, RecordIsTrue, Record, Hint

\* What a sight of the device makes of records and an earlier hint.
LEMMA ReconciledIsTrue ==
    ASSUME NEW all, NEW other, NEW seen, NEW d \in Devices, NEW sig, NEW previous,
           GoodRecords(all, other, seen), GoodHint(previous, d, other, seen)
    PROVE  GoodHint(Reconciled(all, d, sig, previous), d, other, seen)
<1>1. CASE Matched(all, d, sig) # {}
  <2> DEFINE o == CHOOSE p \in Matched(all, d, sig) : TRUE
  <2>1. o \in Matched(all, d, sig)
    BY <1>1
  <2>2. /\ o \in Op /\ all[o] # None /\ all[o].dev = d
        /\ all[o].phase = "confirmed"
    BY <2>1 DEF Matched, Newest
  <2>3. all[o] \in Record /\ RecordIsTrue(all[o], other, seen)
    BY <2>2 DEF GoodRecords
  <2>4. GoodHint(HintOf(all[o]), d, other, seen)
    BY <2>2, <2>3, HintOfConfirmed
  <2> QED
    BY <1>1, <2>4 DEF Reconciled
<1>2. CASE Matched(all, d, sig) = {}
  BY <1>2 DEF Reconciled, GoodHint, HintIsTrue
<1> QED
  BY <1>1, <1>2

LEMMA SavesAreGood ==
    ASSUME NEW d, NEW other, NEW seen, GoodDisk(d, other, seen)
    PROVE  /\ \A new : GoodRecords(new, other, seen) =>
                 /\ GoodDisk([d EXCEPT !.records = new], other, seen)
                 /\ [d EXCEPT !.records = new].library = d.library
           /\ \A new : GoodHints(new, other, seen) =>
                 /\ GoodDisk([d EXCEPT !.hints = new], other, seen)
                 /\ [d EXCEPT !.hints = new].library = d.library
           /\ \A new \in Library :
                 /\ GoodDisk([d EXCEPT !.library = new], other, seen)
                 /\ [d EXCEPT !.library = new].library = new
BY DEF GoodDisk, GoodRecords, GoodHints

\* However the save of good records ends.
LEMMA RecordsSaved ==
    ASSUME NEW new, NEW other, NEW seen,
           GoodRecords(records, other, seen), GoodDisk(disk, other, seen),
           GoodRecords(new, other, seen),
           \/ SaveReturns(new)
           \/ SaveRefused
           \/ SaveCancelled(new)
           \/ UNCHANGED <<records, disk>>
    PROVE  /\ GoodRecords(records', other, seen) /\ GoodDisk(disk', other, seen)
           /\ disk'.library = disk.library
<1>1. CASE SaveReturns(new)
  BY <1>1, SavesAreGood DEF SaveReturns
<1>2. CASE SaveRefused
  BY <1>2 DEF SaveRefused
<1>3. CASE SaveCancelled(new)
  BY <1>3, SavesAreGood DEF SaveCancelled
<1>4. CASE UNCHANGED <<records, disk>>
  BY <1>4
<1> QED
  BY <1>1, <1>2, <1>3, <1>4

\* However the save of the library ends.
LEMMA LibrarySaved ==
    ASSUME NEW new \in Library, NEW other, NEW seen,
           library \in Library, AnsweredIsKept, DiskIsKept, GoodDisk(disk, other, seen),
           CommitReturns(new) \/ CommitRefused \/ CommitCancelled(new)
    PROVE  /\ library' \in Library /\ AnsweredIsKept' /\ DiskIsKept'
           /\ GoodDisk(disk', other, seen)
<1>1. CASE CommitReturns(new)
  BY <1>1, SavesAreGood DEF CommitReturns, AnsweredIsKept, DiskIsKept
<1>2. CASE CommitRefused
  BY <1>2 DEF CommitRefused, AnsweredIsKept, DiskIsKept
<1>3. CASE CommitCancelled(new)
  BY <1>3, SavesAreGood DEF CommitCancelled, AnsweredIsKept, DiskIsKept
<1> QED
  BY <1>1, <1>2, <1>3

LEMMA InitIInv == Init => IInv
<1> SUFFICES ASSUME Init PROVE IInv
  OBVIOUS
<1> USE DEF Init
<1>1. Facts(rewritten, confirmed) /\ library \in Library /\ ops \in Nat
  BY DEF Facts, Seen, Library
<1>2. GoodRecords(records, rewritten, confirmed) /\ GoodHints(hints, rewritten, confirmed)
  BY DEF GoodRecords, GoodHints, RecordIsTrue, HintIsTrue
<1>3. GoodDisk(disk, rewritten, confirmed)
  BY <1>1, <1>2 DEF GoodDisk, GoodRecords, GoodHints
<1>4. GoodWork(work, rewritten, confirmed)
  BY DEF GoodWork, Work, NoWork, HintIsTrue, Sources, Sights
<1>5. GoodRemoval(removal, rewritten, confirmed)
  BY DEF GoodRemoval, NoRemoval
<1>6. JobType /\ WorkIsLocked /\ HeldIsOfItem
  BY DEF JobType, WorkIsLocked, HeldIsOfItem, Idle, NoWork, Sources
<1>7. AnsweredIsKept /\ DiskIsKept
  BY DEF AnsweredIsKept, DiskIsKept
<1> QED
  BY <1>1, <1>2, <1>3, <1>4, <1>5, <1>6, <1>7 DEF IInv

-----------------------------------------------------------------------------
(* The steps.                                                              *)

\* The library is changed.
LEMMA ChangeKeeps ==
    ASSUME IInv, NEW new \in Library, Change(new)
    PROVE  IInv'
<1>1. /\ library' \in Library /\ AnsweredIsKept' /\ DiskIsKept'
      /\ GoodDisk(disk', rewritten, confirmed)
  BY LibrarySaved DEF Change, IInv
<1>2. UNCHANGED <<records, hints, job, work, removal, ops, rewritten, confirmed>>
  BY DEF Change
<1> QED
  BY <1>1, <1>2 DEF IInv, JobType, WorkIsLocked, HeldIsOfItem

LEMMA CreateKeeps ==
    ASSUME IInv, NEW i \in Items, Create(i)
    PROVE  IInv'
BY ChangeKeeps DEF Create, IInv, Library

LEMMA UpdateKeeps ==
    ASSUME IInv, NEW i \in Items, NEW seen \in 1..MaxVersion, Update(i, seen)
    PROVE  IInv'
<1>1. [library EXCEPT ![i] = seen + 1] \in Library
  BY DEF IInv, Library
<1> QED
  BY <1>1, ChangeKeeps DEF Update

\* A deletion begins while no saved effect is deployed, and detaches its records.
LEMMA DeleteKeeps ==
    ASSUME IInv, NEW i \in Items, NEW seen \in 1..MaxVersion, Delete(i, seen)
    PROVE  IInv'
<1> DEFINE held == {o \in Op : Names(records[o], i)}
           new == Detached(records, i)
           next == [kind |-> "delete", item |-> i, ver |-> seen, dev |-> None,
                    step |-> "remove", held |-> held]
<1>1. /\ GoodRecords(new, rewritten, confirmed)
      /\ \A o \in Op : new[o] # None => records[o] # None /\ new[o].of = records[o].of
  BY DetachedRecords DEF IInv
<1>2. UNCHANGED <<library, hints, work, removal, ops, promised, doubt, rewritten,
                  confirmed>>
  BY DEF Delete
<1>3. \/ held = {} /\ job' = next /\ UNCHANGED <<records, disk>>
      \/ held # {} /\ SaveReturns(new) /\ job' = next
      \/ held # {} /\ SaveRefused /\ UNCHANGED job
      \/ held # {} /\ SaveCancelled(new) /\ UNCHANGED job
  BY DEF Delete
<1>4. /\ GoodRecords(records', rewritten, confirmed)
      /\ GoodDisk(disk', rewritten, confirmed) /\ disk'.library = disk.library
  BY <1>1, <1>3, RecordsSaved DEF IInv
<1>5. /\ job = Idle
      /\ \/ job' = job
         \/ job' = next /\ (records' = records \/ records' = new)
  BY <1>3 DEF Delete, SaveReturns
<1>6. /\ next.kind = "delete" /\ next.item = i /\ next.ver = seen /\ next.dev = None
      /\ next.step = "remove" /\ next.held = held
  OBVIOUS
<1>7. \A o \in held : records[o].of = i
  BY DEF Names
<1> HIDE DEF new, next
<1>8. JobType'
  BY <1>5 DEF IInv, JobType, Sources, next
<1>9. WorkIsLocked'
  BY <1>2, <1>5 DEF IInv, WorkIsLocked, Idle
<1>10. HeldIsOfItem'
  BY <1>1, <1>5, <1>6, <1>7 DEF HeldIsOfItem, Idle
<1> QED
  BY <1>2, <1>4, <1>8, <1>9, <1>10 DEF IInv, AnsweredIsKept, DiskIsKept

LEMMA RemoveKeeps ==
    ASSUME IInv, Remove
    PROVE  IInv'
<1> DEFINE new == [library EXCEPT ![job.item] = 0]
<1>1. new \in Library
  BY DEF IInv, Library
<1>2. UNCHANGED <<records, work, removal, ops, rewritten, confirmed>>
  BY DEF Remove
<1>3. \/ CommitReturns(new) /\ hints' = Detached(hints, job.item) /\ job' = Idle
      \/ /\ CommitRefused \/ CommitCancelled(new)
         /\ job' = [job EXCEPT !.step = "reattach"] /\ UNCHANGED hints
  BY DEF Remove, DetachHints
<1>4. /\ library' \in Library /\ AnsweredIsKept' /\ DiskIsKept'
      /\ GoodDisk(disk', rewritten, confirmed)
  BY <1>1, <1>3, LibrarySaved DEF IInv
<1>5. GoodHints(hints', rewritten, confirmed)
  BY <1>3, DetachedHints DEF IInv
<1>6. /\ JobType' /\ (job' = Idle \/ (job'.item = job.item /\ job'.held = job.held))
      /\ job.kind = "delete"
  BY <1>3 DEF Remove, IInv, JobType, Idle, Sources
<1>7. WorkIsLocked'
  BY <1>2, <1>6 DEF IInv, WorkIsLocked
<1>8. HeldIsOfItem'
  BY <1>2, <1>6 DEF IInv, HeldIsOfItem, Idle
<1> QED
  BY <1>2, <1>4, <1>5, <1>6, <1>7, <1>8 DEF IInv

\* A roll-back attaches records of the item that was to go: as they were, or the
\* item counts as rewritten.
LEMMA ReattachKeeps ==
    ASSUME IInv, Reattach
    PROVE  IInv'
<1> USE DEF IInv
<1>1. /\ UNCHANGED <<library, hints, work, removal, ops, promised, doubt, confirmed>>
      /\ job.kind = "delete" /\ job' = Idle
  BY DEF Reattach
<1>2. /\ rewritten \subseteq rewritten' /\ rewritten' \subseteq Sources
      /\ \/ UNCHANGED <<records, disk>>
         \/ SaveRefused
         \/ /\ SaveReturns(Reattached) \/ SaveCancelled(Reattached)
            /\ MayReattach /\ rewritten' = Rewritten
  BY DEF Reattach, Rewritten, Facts, JobType, Sources
<1>3. /\ Facts(rewritten', confirmed)
      /\ GoodRecords(records, rewritten', confirmed)
      /\ GoodHints(hints, rewritten', confirmed)
      /\ GoodDisk(disk, rewritten', confirmed)
      /\ GoodWork(work, rewritten', confirmed)
      /\ GoodRemoval(removal, rewritten', confirmed)
  BY <1>2, MoreIsSeen DEF Facts
<1>4. ASSUME MayReattach, rewritten' = Rewritten
      PROVE  GoodRecords(Reattached, rewritten', confirmed)
  <2>1. ASSUME NEW o \in Op
        PROVE  /\ Reattached[o] \in Record \cup {None}
               /\ RecordIsTrue(Reattached[o], rewritten', confirmed)
    <3>1. CASE o \notin job.held
      BY <1>3, <2>1, <3>1 DEF Reattached, GoodRecords
    <3>2. CASE o \in job.held
      <4>1. /\ records[o] # None /\ records[o] \in Record
            /\ records[o].of = job.item /\ job.ver \in Nat
        BY <1>1, <1>4, <2>1, <3>2 DEF MayReattach, HeldIsOfItem, GoodRecords, JobType
      <4>2. Reattached[o] = [records[o] EXCEPT !.attached = TRUE, !.ver = job.ver]
        BY <2>1, <3>2 DEF Reattached
      <4>3. RecordIsTrue(records[o], rewritten', confirmed)
        BY <1>3, <2>1 DEF GoodRecords
      <4>4. records[o].hash # job.ver => job.item \in rewritten'
        BY <1>4, <3>2 DEF Rewritten
      <4> QED
        BY <4>1, <4>2, <4>3, <4>4 DEF Record, RecordIsTrue
    <3> QED
      BY <3>1, <3>2
  <2> QED
    BY <2>1 DEF GoodRecords, Reattached
<1>5. /\ GoodRecords(records', rewritten', confirmed)
      /\ GoodDisk(disk', rewritten', confirmed)
      /\ disk'.library = disk.library
  BY <1>2, <1>3, <1>4, RecordsSaved
<1>6. JobType' /\ WorkIsLocked' /\ HeldIsOfItem'
  BY <1>1 DEF JobType, WorkIsLocked, HeldIsOfItem, Idle, Sources
<1> QED
  BY <1>1, <1>3, <1>5, <1>6 DEF AnsweredIsKept, DiskIsKept

\* The lock is taken for a deployment, or given up.
LEMMA LockKeeps ==
    ASSUME IInv,
           \/ GiveUp
           \/ \E d \in Devices, i \in Items, seen \in 1..MaxVersion :
                 TakeForApply(d, i, seen)
    PROVE  IInv'
<1> USE DEF IInv
<1>1. /\ UNCHANGED <<library, records, hints, disk, work, removal, ops, history>>
      /\ job = Idle \/ (job.kind = "apply" /\ job.step = "waits")
      /\ job'.kind # "delete"
  BY DEF GiveUp, TakeForApply, Idle
<1>2. JobType'
  BY DEF GiveUp, TakeForApply, JobType, Idle, Sources
<1>3. WorkIsLocked' /\ HeldIsOfItem'
  BY <1>1 DEF WorkIsLocked, HeldIsOfItem, Idle
<1> QED
  BY <1>1, <1>2, <1>3 DEF history, AnsweredIsKept, DiskIsKept

\* A record that is put: the device and the item it is of, and what holds of it.
LEMMA PutKeeps ==
    ASSUME NEW other, NEW seen, NEW o, NEW r \in Record,
           GoodRecords(records, other, seen), GoodDisk(disk, other, seen),
           JobType, HeldIsOfItem, RecordIsTrue(r, other, seen),
           job'.kind = "delete" => job' = job /\ r.of = None,
           PutReturns(o, r) \/ PutRaises(o, r)
    PROVE  /\ GoodRecords(records', other, seen) /\ GoodDisk(disk', other, seen)
           /\ disk'.library = disk.library
           /\ HeldIsOfItem'
<1>1. /\ GoodRecords(With(o, r), other, seen)
      /\ \A p \in Op : With(o, r)[p] = records[p] \/ With(o, r)[p] = r
  BY DEF GoodRecords, With
<1>2. SaveReturns(With(o, r)) \/ SaveRefused \/ SaveCancelled(With(o, r))
  BY DEF PutReturns, PutRaises
<1>3. records' = records \/ records' = With(o, r)
  BY <1>2 DEF SaveReturns, SaveRefused, SaveCancelled
<1>4. HeldIsOfItem'
  BY <1>1, <1>3 DEF HeldIsOfItem, JobType
<1> QED
  BY <1>1, <1>2, <1>4, RecordsSaved

\* A deployment begins: that of a saved effect under the lock.
LEMMA BeginKeeps ==
    ASSUME IInv, NEW d \in Devices, NEW of \in Sources, NEW ver \in Nat,
           NEW sig \in Signatures, Begin(d, of, ver, sig),
           \/ of = None /\ job' = job
           \/ /\ job.kind = "apply" /\ job.step = "waits" /\ job.dev = d
              /\ job' = [job EXCEPT !.step = "runs"]
    PROVE  IInv'
<1> USE DEF IInv
<1> DEFINE w == [op |-> ops + 1, of |-> of, ver |-> ver, sig |-> sig,
                 prior |-> hints[d], step |-> "running"]
           r == RecordOf(d, w, "running")
<1>1. /\ UNCHANGED <<library, hints, removal, promised, doubt, rewritten, confirmed>>
      /\ ops + 1 \in Nat /\ ops' \in Nat
  BY DEF Begin, history
<1>2. /\ r \in Record /\ r.of = of
      /\ RecordIsTrue(r, rewritten, confirmed)
  BY DEF RecordOf, Record, RecordIsTrue, Sights
<1>3. PutReturns(w.op, r) \/ PutRaises(w.op, r)
  BY DEF Begin
<1> PICK n \in Work : /\ work' = [work EXCEPT ![d] = n] /\ n.of = of
                      /\ HintIsTrue(n.prior, d, rewritten, confirmed)
  <2> DEFINE n == [w EXCEPT !.step = "failing", !.prior = None]
  <2>1. work' = [work EXCEPT ![d] = w] \/ work' = [work EXCEPT ![d] = n]
    BY DEF Begin
  <2>2. /\ w \in Work /\ w.of = of
        /\ HintIsTrue(w.prior, d, rewritten, confirmed)
    BY <1>1 DEF Work, GoodHints, Sights
  <2>3. n \in Work /\ n.of = of /\ n.prior = None
    BY <2>2 DEF Work
  <2>4. HintIsTrue(n.prior, d, rewritten, confirmed)
    BY <2>3 DEF HintIsTrue
  <2> HIDE DEF w, n
  <2> QED
    BY <2>1, <2>2, <2>3, <2>4
<1>4. /\ GoodRecords(records', rewritten, confirmed)
      /\ GoodDisk(disk', rewritten, confirmed)
      /\ disk'.library = disk.library /\ HeldIsOfItem'
  <2>1. job'.kind = "delete" => job' = job /\ r.of = None
    BY <1>2 DEF JobType
  <2> HIDE DEF r
  <2> QED
    BY <1>2, <1>3, <2>1, PutKeeps
<1>5. GoodWork(work', rewritten, confirmed)
  BY DEF GoodWork
<1>6. JobType'
  BY DEF JobType
<1>7. WorkIsLocked'
  BY DEF WorkIsLocked, GoodWork, JobType
<1> QED
  BY <1>1, <1>4, <1>5, <1>6, <1>7 DEF AnsweredIsKept, DiskIsKept

\* A deployment is over, and the lock of a saved effect's is free.
LEMMA LeavesKeeps ==
    ASSUME NEW d \in Devices, NEW other, NEW seen, GoodWork(work, other, seen),
           JobType, WorkIsLocked, Leaves(d)
    PROVE  /\ GoodWork(work', other, seen) /\ JobType' /\ WorkIsLocked'
           /\ job'.kind = "delete" => job' = job
           /\ job.kind = "delete" => work[d].of = None
<1>1. /\ work' = [work EXCEPT ![d] = NoWork]
      /\ job' = IF job.dev = d /\ job.step = "runs" THEN Idle ELSE job
  BY DEF Leaves
<1>2. NoWork \in Work /\ NoWork.of = None /\ HintIsTrue(NoWork.prior, d, other, seen)
  BY DEF NoWork, Work, Sources, Sights, HintIsTrue
<1>3. GoodWork(work', other, seen)
  BY <1>1, <1>2 DEF GoodWork
<1>4. JobType' /\ (job'.kind = "delete" => job' = job)
  BY <1>1 DEF JobType, Idle, Sources
<1>5. WorkIsLocked'
  BY <1>1, <1>2 DEF WorkIsLocked, GoodWork
<1> QED
  BY <1>3, <1>4, <1>5 DEF WorkIsLocked

\* The record of a deployment, in any of its phases.
LEMMA RecordOfWork ==
    ASSUME NEW d \in Devices, NEW w \in Work, NEW other, NEW seen,
           NEW phase \in {"running", "confirmed", "ended"},
           phase = "confirmed" => <<w.of, w.ver>> \in seen[d]
    PROVE  /\ RecordOf(d, w, phase) \in Record
           /\ RecordOf(d, w, phase).of = w.of
           /\ RecordOf(d, w, phase).dev = d
           /\ RecordOf(d, w, phase).hash = w.ver
           /\ RecordOf(d, w, phase).ver = w.ver
           /\ RecordIsTrue(RecordOf(d, w, phase), other, seen)
BY DEF RecordOf, Record, RecordIsTrue, Work

\* A hint that is changed for one device.
LEMMA HintKeeps ==
    ASSUME NEW d \in Devices, NEW h, NEW other, NEW seen,
           GoodHints(hints, other, seen), GoodHint(h, d, other, seen)
    PROVE  GoodHints([hints EXCEPT ![d] = h], other, seen)
BY DEF GoodHints, GoodHint

\* What is confirmed was seen, and is put down only then.
LEMMA ConfirmKeeps ==
    ASSUME IInv, NEW d \in Devices, Confirm(d)
    PROVE  IInv'
<1> USE DEF IInv
<1> DEFINE w == work[d]
           r == RecordOf(d, w, "confirmed")
<1>1. /\ UNCHANGED <<library, removal, ops, promised, doubt, rewritten>>
      /\ confirmed' = [confirmed EXCEPT ![d] = @ \cup {<<w.of, w.ver>>}]
  BY DEF Confirm
<1>2. w \in Work
  BY DEF GoodWork
<1>3. /\ confirmed' \in Seen /\ <<w.of, w.ver>> \in confirmed'[d]
      /\ \A e \in Devices : confirmed[e] \subseteq confirmed'[e]
  BY <1>1, <1>2 DEF Facts, Seen, Work
<1>4. /\ Facts(rewritten, confirmed')
      /\ GoodRecords(records, rewritten, confirmed')
      /\ GoodHints(hints, rewritten, confirmed')
      /\ GoodDisk(disk, rewritten, confirmed')
      /\ GoodWork(work, rewritten, confirmed')
      /\ GoodRemoval(removal, rewritten, confirmed')
  BY <1>3, MoreIsSeen DEF Facts
<1>5. /\ r \in Record /\ r.of = w.of /\ r.dev = d
      /\ r.hash = w.ver /\ r.ver = w.ver
      /\ RecordIsTrue(r, rewritten, confirmed')
  BY <1>2, <1>3, RecordOfWork
<1>6. \/ /\ PutReturns(w.op, r) /\ Leaves(d)
         /\ hints' = [hints EXCEPT ![d] = HintOf(r)]
      \/ /\ PutRaises(w.op, r)
         /\ work' = [work EXCEPT ![d].step = "failing"]
         /\ UNCHANGED <<hints, job>>
  BY DEF Confirm
<1> HIDE DEF r
<1>7. CASE PutReturns(w.op, r) /\ Leaves(d) /\ hints' = [hints EXCEPT ![d] = HintOf(r)]
  <2>1. /\ GoodWork(work', rewritten, confirmed') /\ JobType' /\ WorkIsLocked'
        /\ job'.kind = "delete" => job' = job /\ r.of = None
    BY <1>4, <1>5, <1>7, LeavesKeeps
  <2>2. /\ GoodRecords(records', rewritten, confirmed')
        /\ GoodDisk(disk', rewritten, confirmed')
        /\ disk'.library = disk.library /\ HeldIsOfItem'
    BY <1>4, <1>5, <1>7, <2>1, PutKeeps
  <2>3. GoodHints(hints', rewritten, confirmed')
    <3>1. GoodHint(HintOf(r), d, rewritten, confirmed')
      BY <1>3, <1>5 DEF HintOf, GoodHint, HintIsTrue, Record, Hint
    <3> QED
      BY <1>4, <1>7, <3>1, HintKeeps
  <2> QED
    BY <1>1, <1>4, <2>1, <2>2, <2>3 DEF AnsweredIsKept, DiskIsKept
<1>8. CASE /\ PutRaises(w.op, r)
           /\ work' = [work EXCEPT ![d].step = "failing"]
           /\ UNCHANGED <<hints, job>>
  <2>1. job'.kind = "delete" => job' = job /\ r.of = None
    BY <1>5, <1>8 DEF WorkIsLocked
  <2>2. /\ GoodRecords(records', rewritten, confirmed')
        /\ GoodDisk(disk', rewritten, confirmed')
        /\ disk'.library = disk.library /\ HeldIsOfItem'
    BY <1>4, <1>5, <1>8, <2>1, PutKeeps
  <2>3. GoodWork(work', rewritten, confirmed')
    BY <1>4, <1>8 DEF GoodWork, Work
  <2>4. JobType' /\ WorkIsLocked'
    BY <1>8 DEF JobType, WorkIsLocked, GoodWork, Work
  <2> QED
    BY <1>1, <1>4, <1>8, <2>2, <2>3, <2>4 DEF AnsweredIsKept, DiskIsKept
<1> QED
  BY <1>6, <1>7, <1>8

\* What was known before comes back only if it was true.
LEMMA FailKeeps ==
    ASSUME IInv, NEW d \in Devices, Fail(d)
    PROVE  IInv'
<1> USE DEF IInv
<1> DEFINE w == work[d]
           r == RecordOf(d, w, "ended")
<1>1. /\ UNCHANGED <<library, removal, ops, promised, doubt, rewritten, confirmed>>
      /\ Leaves(d) /\ w \in Work
  BY DEF Fail, history, GoodWork
<1>2. /\ r \in Record /\ r.of = w.of
      /\ RecordIsTrue(r, rewritten, confirmed)
  BY <1>1, RecordOfWork
<1>3. /\ PutReturns(w.op, r) \/ PutRaises(w.op, r)
      /\ \/ UNCHANGED hints
         \/ \E recovered \in BOOLEAN, sig \in Signatures \cup {None} :
               hints' = [hints EXCEPT ![d] =
                            Reconciled(records', d, sig, PriorOrigin(d, recovered))]
  BY DEF Fail
<1> HIDE DEF r
<1>4. /\ GoodWork(work', rewritten, confirmed) /\ JobType' /\ WorkIsLocked'
      /\ job'.kind = "delete" => job' = job /\ r.of = None
  BY <1>1, <1>2, LeavesKeeps
<1>5. /\ GoodRecords(records', rewritten, confirmed)
      /\ GoodDisk(disk', rewritten, confirmed)
      /\ disk'.library = disk.library /\ HeldIsOfItem'
  BY <1>2, <1>3, <1>4, PutKeeps
<1>6. ASSUME NEW recovered \in BOOLEAN, NEW sig
      PROVE  GoodHint(Reconciled(records', d, sig, PriorOrigin(d, recovered)), d,
                      rewritten, confirmed)
  <2>1. GoodHint(PriorOrigin(d, recovered), d, rewritten, confirmed)
    BY DEF PriorOrigin, GoodHint, GoodHints, GoodWork, Work
  <2> QED
    BY <1>5, <2>1, ReconciledIsTrue
<1>7. GoodHints(hints', rewritten, confirmed)
  BY <1>3, <1>6, HintKeeps
<1> QED
  BY <1>1, <1>4, <1>5, <1>7 DEF AnsweredIsKept, DiskIsKept

\* Hints alone change: a sight of the device, a command, a delayed save.
LEMMA HintsKeep ==
    ASSUME IInv,
           \/ FlushHints
           \/ \E d \in Devices : Reconcile(d) \/ ClearOrigin(d)
    PROVE  IInv'
<1> USE DEF IInv
<1>1. /\ UNCHANGED <<library, records, job, work, removal, ops, promised, doubt,
                    rewritten, confirmed>>
      /\ \/ UNCHANGED hints
         \/ \E d \in Devices : hints' = [hints EXCEPT ![d] = None]
         \/ \E d \in Devices, sig \in Signatures \cup {None} :
               hints' = [hints EXCEPT ![d] = Reconciled(records, d, sig, hints[d])]
      /\ disk' = disk \/ disk' = [disk EXCEPT !.hints = hints]
  BY DEF FlushHints, Reconcile, ClearOrigin, history
<1>2. ASSUME NEW d \in Devices, NEW sig
      PROVE  GoodHint(Reconciled(records, d, sig, hints[d]), d, rewritten, confirmed)
  <2>1. GoodHint(hints[d], d, rewritten, confirmed)
    BY DEF GoodHint, GoodHints
  <2> QED
    BY <2>1, ReconciledIsTrue
<1>3. ASSUME NEW d \in Devices
      PROVE  GoodHint(None, d, rewritten, confirmed)
  BY DEF GoodHint, HintIsTrue
<1>4. GoodHints(hints', rewritten, confirmed)
  BY <1>1, <1>2, <1>3, HintKeeps
<1>5. GoodDisk(disk', rewritten, confirmed) /\ disk'.library = disk.library
  <2>1. /\ GoodDisk([disk EXCEPT !.hints = hints], rewritten, confirmed)
        /\ [disk EXCEPT !.hints = hints].library = disk.library
    BY SavesAreGood
  <2> QED
    BY <1>1, <2>1
<1> QED
  BY <1>1, <1>4, <1>5
     DEF AnsweredIsKept, DiskIsKept, JobType, WorkIsLocked, HeldIsOfItem

\* The removal of an entry works on a copy of hints as they were.
LEMMA RemovalKeeps ==
    ASSUME IInv,
           RemoveHints \/ RemoveRecords \/ \E d \in Devices : RemoveEntry(d)
    PROVE  IInv'
<1> USE DEF IInv
<1> DEFINE new == [o \in Op |-> IF records[o] # None /\ records[o].dev = removal.dev
                                THEN None ELSE records[o]]
<1>1. UNCHANGED <<library, job, work, ops, promised, doubt, rewritten, confirmed>>
  BY DEF RemoveHints, RemoveRecords, RemoveEntry, history
<1>2. ASSUME NEW d \in Devices, RemoveEntry(d)
      PROVE  /\ GoodRemoval(removal', rewritten, confirmed)
             /\ UNCHANGED <<records, hints, disk>>
  <2>1. GoodHints([hints EXCEPT ![d] = None], rewritten, confirmed)
    BY HintKeeps DEF GoodHint, HintIsTrue
  <2> QED
    BY <1>2, <2>1 DEF RemoveEntry, GoodRemoval, GoodHints
<1>3. ASSUME NEW what, Dealt(what)
      PROVE  GoodRemoval(removal', rewritten, confirmed)
  BY <1>3 DEF Dealt, GoodRemoval, NoRemoval
<1>4. CASE RemoveHints
  <2>1. /\ UNCHANGED records
        /\ GoodRemoval(removal', rewritten, confirmed)
        /\ GoodHints(removal.copy, rewritten, confirmed)
        /\ \/ hints' = removal.copy /\ disk' = [disk EXCEPT !.hints = removal.copy]
           \/ UNCHANGED <<hints, disk>>
    BY <1>3, <1>4 DEF RemoveHints, GoodRemoval
  <2>2. /\ GoodHints(hints', rewritten, confirmed)
        /\ GoodDisk(disk', rewritten, confirmed) /\ disk'.library = disk.library
    <3>1. /\ GoodDisk([disk EXCEPT !.hints = removal.copy], rewritten, confirmed)
          /\ [disk EXCEPT !.hints = removal.copy].library = disk.library
      BY <2>1, SavesAreGood
    <3> QED
      BY <2>1, <3>1
  <2> QED
    BY <1>1, <2>1, <2>2
       DEF AnsweredIsKept, DiskIsKept, JobType, WorkIsLocked, HeldIsOfItem
<1>5. CASE RemoveRecords
  <2>1. /\ UNCHANGED hints /\ GoodRemoval(removal', rewritten, confirmed)
        /\ SaveReturns(new) \/ SaveRefused
    BY <1>3, <1>5 DEF RemoveRecords
  <2>2. GoodRecords(new, rewritten, confirmed)
    BY DEF GoodRecords, RecordIsTrue
  <2>3. /\ GoodRecords(records', rewritten, confirmed)
        /\ GoodDisk(disk', rewritten, confirmed) /\ disk'.library = disk.library
    BY <2>1, <2>2, RecordsSaved
  <2>4. \A o \in Op : records'[o] # None => records'[o] = records[o]
    BY <2>1 DEF SaveReturns, SaveRefused
  <2> QED
    BY <1>1, <2>1, <2>3, <2>4
       DEF AnsweredIsKept, DiskIsKept, JobType, WorkIsLocked, HeldIsOfItem
<1>6. CASE \E d \in Devices : RemoveEntry(d)
  BY <1>1, <1>2, <1>6
     DEF AnsweredIsKept, DiskIsKept, JobType, WorkIsLocked, HeldIsOfItem
<1> QED
  BY <1>4, <1>5, <1>6

\* A start takes everything from disk.
LEMMA RestartKeeps ==
    ASSUME IInv, Restart
    PROVE  IInv'
<1> USE DEF IInv
<1>1. /\ UNCHANGED <<ops, promised, doubt, rewritten, confirmed>>
      /\ library' = disk.library
      /\ records' = Rehashed(Interrupted(disk.records), disk.library)
      /\ hints' = Rehashed(disk.hints, disk.library)
      /\ disk' = [disk EXCEPT !.records = records', !.hints = hints']
      /\ job' = Idle /\ work' = [d \in Devices |-> NoWork] /\ removal' = NoRemoval
  BY DEF Restart
<1>2. /\ GoodRecords(records', rewritten, confirmed)
      /\ GoodHints(hints', rewritten, confirmed)
  BY <1>1, InterruptedRecords, RehashedRecords, RehashedHints DEF GoodDisk
<1>3. GoodDisk(disk', rewritten, confirmed) /\ disk'.library = disk.library
  BY <1>1, <1>2 DEF GoodDisk, GoodRecords, GoodHints
<1>4. library' \in Library
  BY <1>1 DEF GoodDisk
<1>5. GoodWork(work', rewritten, confirmed)
  BY <1>1 DEF GoodWork, Work, NoWork, HintIsTrue, Sources, Sights
<1>6. GoodRemoval(removal', rewritten, confirmed)
  BY <1>1 DEF GoodRemoval, NoRemoval
<1>7. JobType' /\ WorkIsLocked' /\ HeldIsOfItem'
  BY <1>1 DEF JobType, WorkIsLocked, HeldIsOfItem, Idle, NoWork, Sources
<1>8. AnsweredIsKept' /\ DiskIsKept'
  BY <1>1, <1>3 DEF AnsweredIsKept, DiskIsKept
<1> QED
  BY <1>1, <1>2, <1>3, <1>4, <1>5, <1>6, <1>7, <1>8

LEMMA Step == IInv /\ [Next]_vars => IInv'
<1> SUFFICES ASSUME IInv, [Next]_vars PROVE IInv'
  OBVIOUS
<1>1. CASE FlushHints \/ \E d \in Devices : Reconcile(d) \/ ClearOrigin(d)
  BY <1>1, HintsKeep
<1>2. CASE Remove
  BY <1>2, RemoveKeeps
<1>3. CASE Reattach
  BY <1>3, ReattachKeeps
<1>4. CASE GiveUp \/ \E d \in Devices, i \in Items, seen \in 1..MaxVersion :
                        TakeForApply(d, i, seen)
  BY <1>4, LockKeeps
<1>5. CASE RemoveHints \/ RemoveRecords \/ \E d \in Devices : RemoveEntry(d)
  BY <1>5, RemovalKeeps
<1>6. CASE Restart
  BY <1>6, RestartKeeps
<1>7. ASSUME NEW i \in Items, Create(i) PROVE IInv'
  BY <1>7, CreateKeeps
<1>8. ASSUME NEW i \in Items, NEW seen \in 1..MaxVersion, Update(i, seen) PROVE IInv'
  BY <1>8, UpdateKeeps
<1>9. ASSUME NEW i \in Items, NEW seen \in 1..MaxVersion, Delete(i, seen) PROVE IInv'
  BY <1>9, DeleteKeeps
<1>10. ASSUME NEW d \in Devices, BeginSaved(d) PROVE IInv'
  <2>1. job.item \in Sources /\ job.ver \in Nat
    BY DEF IInv, JobType
  <2> QED
    BY <1>10, <2>1, BeginKeeps DEF BeginSaved
<1>11. ASSUME NEW d \in Devices, BeginSnapshot(d) PROVE IInv'
  <2>1. None \in Sources /\ 0 \in Nat
    BY DEF Sources
  <2> QED
    BY <1>11, <2>1, BeginKeeps DEF BeginSnapshot
<1>12. ASSUME NEW d \in Devices, Confirm(d) PROVE IInv'
  BY <1>12, ConfirmKeeps
<1>13. ASSUME NEW d \in Devices, Fail(d) PROVE IInv'
  BY <1>13, FailKeeps
<1>14. CASE UNCHANGED vars
  BY <1>14 DEF vars, history, IInv, JobType, WorkIsLocked, HeldIsOfItem,
               AnsweredIsKept, DiskIsKept
<1> QED
  BY <1>1, <1>2, <1>3, <1>4, <1>5, <1>6, <1>7, <1>8, <1>9, <1>10, <1>11, <1>12,
     <1>13, <1>14 DEF Next

(***************************************************************************)
(* Every step of the library, the engine and the store keeps IInv, so      *)
(* every copy of a record or a hint, in memory, on disk or carried by a    *)
(* deletion or an application, is true of what its device was seen to do.  *)
(***************************************************************************)
THEOREM Invariant == Spec => []IInv
BY InitIInv, Step, PTL DEF Spec

(***************************************************************************)
(* _async_commit: the library in memory, which everybody reads, is the one *)
(* that was last answered, or one that a call cancelled in its save has    *)
(* written since, whatever saves fail and wherever Home Assistant stops.   *)
(***************************************************************************)
THEOREM AnswersAreKept == Spec => []AnsweredIsKept
<1>1. IInv => AnsweredIsKept
  BY DEF IInv
<1> QED
  BY <1>1, Invariant, PTL

(***************************************************************************)
(* _active_saved_effect: the version of a saved effect that a light shows  *)
(* as active is one that its device was seen to play, unless a deletion of *)
(* the effect was rolled back after it had been edited.                    *)
(***************************************************************************)
THEOREM ShownWasSeen == Spec => []ShownWasPlayed
<1>1. IInv => ShownWasPlayed
  <2> SUFFICES ASSUME IInv, NEW d \in Devices, Shown(d), hints[d].of \notin rewritten
               PROVE  <<hints[d].of, hints[d].hash>> \in confirmed[d]
    BY DEF ShownWasPlayed
  <2> QED
    BY DEF IInv, GoodHints, HintIsTrue, Shown
<1> QED
  BY <1>1, Invariant, PTL

-----------------------------------------------------------------------------
(* What records and hints refer to.  A record keeps in memory and on disk  *)
(* whether its item is there, over saves of either that are cancelled.     *)
(* During a deletion the records of the item are those that it detached,   *)
(* so that a roll-back attaches all of them again; and a hint outlives its *)
(* item only as a copy that someone still holds.                           *)

\* What references are true of.
Now == [lib |-> library, saved |-> disk.library, made |-> made, torn |-> torn,
        stray |-> stray, job |-> job]

Of(r, i) == r # None /\ r.of = i

Deletes(j, i) == j.kind = "delete" /\ j.item = i

SoundRecord(r, o, w) ==
    \A i \in Items : Of(r, i) =>
        /\ i \in w.made
        /\ i \notin w.torn =>
              /\ r.attached => w.lib[i] # 0 /\ ~Deletes(w.job, i)
              /\ ~r.attached => IF Deletes(w.job, i) THEN o \in w.job.held
                                ELSE w.lib[i] = 0
              /\ w.lib[i] = 0 => w.saved[i] = 0

SoundRecords(all, w) == \A o \in Op : SoundRecord(all[o], o, w)

SoundHint(h, w) ==
    \A i \in Items : i \notin w.torn /\ i \notin w.stray /\ Names(h, i) => w.lib[i] # 0

SoundHints(all, w) == \A d \in Devices : SoundHint(all[d], w)

\* Ids are used once, and an item that is there is on disk.
LibraryInv ==
    \A i \in Items :
        /\ library[i] # 0 \/ disk.library[i] # 0 => i \in made
        /\ i \notin torn /\ library[i] # 0 => disk.library[i] # 0

\* The item that a call holds the lock for is there.
JobInv ==
    /\ job.kind # "idle" => job.item \in Items /\ job.item \in made
    /\ job.kind = "apply" => library[job.item] # 0
    /\ job.kind = "delete" =>
          /\ job.step \in {"remove", "reattach"}
          /\ job.item \notin torn => library[job.item] # 0

WorkInv ==
    \A d \in Devices : work[d].of # None => job.kind = "apply" /\ work[d].of = job.item

RInv ==
    /\ LibraryInv /\ JobInv /\ WorkInv
    /\ SoundRecords(records, Now) /\ SoundRecords(disk.records, Now)
    /\ SoundHints(hints, Now)
    /\ \A d \in Devices : SoundHint(work[d].prior, Now)
    /\ "hints" \in removal.todo => SoundHints(removal.copy, Now)

LEMMA InitRInv == Init => RInv
BY DEF Init, RInv, LibraryInv, JobInv, WorkInv, SoundRecords, SoundRecord, SoundHints,
       SoundHint, Of, Names, Idle, NoWork, NoRemoval, Now

\* References stay sound while the library and what is deleted from it stay.
LEMMA WorldStays ==
    ASSUME UNCHANGED <<library, made, torn>>, disk'.library = disk.library,
           stray \subseteq stray',
           job' = job \/ (job.kind # "delete" /\ job'.kind # "delete")
    PROVE  /\ \A r, o : SoundRecord(r, o, Now) => SoundRecord(r, o, Now')
           /\ \A h : SoundHint(h, Now) => SoundHint(h, Now')
           /\ \A all : SoundRecords(all, Now) => SoundRecords(all, Now')
           /\ \A all : SoundHints(all, Now) => SoundHints(all, Now')
           /\ LibraryInv => LibraryInv'
<1>1. /\ Now'.lib = Now.lib /\ Now'.saved = Now.saved /\ Now'.made = Now.made
      /\ Now'.torn = Now.torn /\ Now.stray \subseteq Now'.stray
      /\ Now'.job = Now.job \/ (Now.job.kind # "delete" /\ Now'.job.kind # "delete")
  BY DEF Now
<1>2. \A r, o : SoundRecord(r, o, Now) => SoundRecord(r, o, Now')
  BY <1>1 DEF SoundRecord, Deletes
<1>3. \A h : SoundHint(h, Now) => SoundHint(h, Now')
  BY <1>1 DEF SoundHint
<1> QED
  BY <1>2, <1>3 DEF SoundRecords, SoundHints, LibraryInv

\* A record in whose place there is another one that refers to the same.
LEMMA SameReference ==
    ASSUME NEW r, NEW s, NEW o, NEW w, SoundRecord(r, o, w),
           s # None => r # None /\ s.of = r.of /\ s.attached = r.attached
    PROVE  SoundRecord(s, o, w)
BY DEF SoundRecord, Of

\* What a sight of the device makes of sound records and an earlier hint.
LEMMA ReconciledIsSound ==
    ASSUME NEW all, NEW w, NEW d, NEW sig, NEW previous,
           SoundRecords(all, w), SoundHint(previous, w)
    PROVE  SoundHint(Reconciled(all, d, sig, previous), w)
<1>1. \A r, o : r # None /\ SoundRecord(r, o, w) => SoundHint(HintOf(r), w)
  BY DEF SoundRecord, SoundHint, HintOf, Names, Of
<1>2. SoundHint(None, w)
  BY DEF SoundHint, Names
<1>3. CASE Matched(all, d, sig) # {}
  <2> DEFINE o == CHOOSE p \in Matched(all, d, sig) : TRUE
  <2>1. o \in Matched(all, d, sig)
    BY <1>3
  <2>2. o \in Op /\ all[o] # None
    BY <2>1 DEF Matched, Newest
  <2> QED
    BY <1>1, <1>3, <2>2 DEF Reconciled, SoundRecords
<1>4. CASE Matched(all, d, sig) = {}
  BY <1>2, <1>4 DEF Reconciled
<1> QED
  BY <1>3, <1>4

\* The record of a deployment, made under the lock if it is of an item.
LEMMA DeployedIsSound ==
    ASSUME RInv, NEW d, NEW w, NEW phase, NEW o,
           w.of # None => job.kind = "apply" /\ w.of = job.item
    PROVE  SoundRecord(RecordOf(d, w, phase), o, Now)
<1> DEFINE r == RecordOf(d, w, phase)
<1>1. r.of = w.of /\ (w.of # None => r.attached)
  BY DEF RecordOf
<1> HIDE DEF r
<1> SUFFICES ASSUME NEW i \in Items, Of(r, i)
             PROVE  /\ i \in Now.made /\ r.attached /\ Now.lib[i] # 0
                    /\ ~Deletes(Now.job, i)
  BY DEF SoundRecord, r
<1>2. w.of = i /\ w.of # None
  BY <1>1, LibraryAssumption DEF Of
<1>3. i \in made /\ library[i] # 0 /\ job.kind # "delete"
  BY <1>2 DEF RInv, JobInv
<1> QED
  BY <1>1, <1>2, <1>3 DEF Now, Deletes

\* However a save of sound records ends.
LEMMA SavedIsSound ==
    ASSUME IInv, RInv, NEW new, SoundRecords(new, Now),
           SaveReturns(new) \/ SaveRefused \/ SaveCancelled(new)
    PROVE  /\ SoundRecords(records', Now) /\ SoundRecords(disk'.records, Now)
           /\ disk'.library = disk.library
BY DEF RInv, SaveReturns, SaveRefused, SaveCancelled, IInv, GoodDisk

LEMMA PutIsSound ==
    ASSUME IInv, RInv, NEW o, NEW r, \A p \in Op : SoundRecord(r, p, Now),
           PutReturns(o, r) \/ PutRaises(o, r)
    PROVE  /\ SoundRecords(records', Now) /\ SoundRecords(disk'.records, Now)
           /\ disk'.library = disk.library
<1>1. SoundRecords(With(o, r), Now)
  BY DEF With, SoundRecords, RInv, IInv, GoodRecords
<1> QED
  BY <1>1, SavedIsSound DEF PutReturns, PutRaises

\* The lock is taken for a deployment, and let go of.
LEMMA LockSound ==
    ASSUME IInv, RInv, IInv',
           GiveUp \/ \E d \in Devices, i \in Items, seen \in 1..MaxVersion :
                        TakeForApply(d, i, seen)
    PROVE  RInv'
<1>1. /\ UNCHANGED <<library, records, hints, disk, made, work, removal, torn, stray>>
      /\ job.kind # "delete" /\ job'.kind # "delete"
      /\ \A d \in Devices : work[d].of = None
  BY DEF GiveUp, TakeForApply, Idle, history, IInv, WorkIsLocked
<1>2. JobInv'
  BY DEF GiveUp, TakeForApply, Idle, RInv, JobInv, LibraryInv, history
<1>3. WorkInv'
  BY <1>1 DEF WorkInv
<1> QED
  BY <1>1, <1>2, <1>3, WorldStays DEF RInv

\* A deployment begins.
LEMMA BeginSound ==
    ASSUME IInv, RInv, NEW d \in Devices, NEW of, NEW ver, NEW sig,
           of # None => job.kind = "apply" /\ of = job.item,
           job' = job \/ (job.kind = "apply" /\ job' = [job EXCEPT !.step = "runs"]),
           Begin(d, of, ver, sig)
    PROVE  RInv'
<1> DEFINE w == [op |-> ops + 1, of |-> of, ver |-> ver, sig |-> sig,
                 prior |-> hints[d], step |-> "running"]
           r == RecordOf(d, w, "running")
<1>1. UNCHANGED <<library, hints, made, removal, torn, stray>>
  BY DEF Begin, history
<1>2. \A p \in Op : SoundRecord(r, p, Now)
  BY DeployedIsSound
<1>3. PICK x : /\ work' = [work EXCEPT ![d] = x] /\ x.of = of
               /\ x.prior = hints[d] \/ x.prior = None
  <2>1. w.of = of /\ [w EXCEPT !.step = "failing", !.prior = None].of = of
        /\ w.prior = hints[d] /\ [w EXCEPT !.step = "failing", !.prior = None].prior = None
    OBVIOUS
  <2> HIDE DEF r
  <2> QED
    BY <2>1 DEF Begin
<1>4. /\ SoundRecords(records', Now) /\ SoundRecords(disk'.records, Now)
      /\ disk'.library = disk.library
  <2>1. PutReturns(w.op, r) \/ PutRaises(w.op, r)
    BY DEF Begin
  <2> HIDE DEF w, r
  <2> QED
    BY <1>2, <2>1, PutIsSound
<1>5. /\ job'.kind = job.kind /\ job'.item = job.item /\ job'.held = job.held
      /\ job' = job \/ (job.kind # "delete" /\ job'.kind # "delete")
  BY DEF IInv, JobType
<1>6. JobInv'
  BY <1>1, <1>5 DEF RInv, JobInv
<1>7. WorkInv'
  BY <1>3, <1>5 DEF RInv, WorkInv, IInv, GoodWork
<1>8. \A e \in Devices : SoundHint(work'[e].prior, Now)
  <2>1. SoundHint(None, Now)
    BY DEF SoundHint, Names
  <2> QED
    BY <1>3, <2>1 DEF RInv, SoundHints, IInv, GoodWork
<1> QED
  BY <1>1, <1>4, <1>5, <1>6, <1>7, <1>8, WorldStays DEF RInv

\* A deployment ends: its record is put, its lock and its copy of the hint go.
LEMMA EndSound ==
    ASSUME IInv, RInv, IInv', NEW d \in Devices, NEW phase, NEW h,
           PutReturns(work[d].op, RecordOf(d, work[d], phase))
           \/ PutRaises(work[d].op, RecordOf(d, work[d], phase)),
           \/ Leaves(d)
           \/ job' = job /\ work' = [work EXCEPT ![d].step = "failing"],
           UNCHANGED <<library, made, removal, torn, stray>>,
           hints' = hints \/ (hints' = [hints EXCEPT ![d] = h] /\ SoundHint(h, Now))
    PROVE  RInv'
<1>1. \A p \in Op : SoundRecord(RecordOf(d, work[d], phase), p, Now)
  BY DeployedIsSound DEF RInv, WorkInv
<1>2. /\ SoundRecords(records', Now) /\ SoundRecords(disk'.records, Now)
      /\ disk'.library = disk.library
  BY <1>1, PutIsSound
<1>3. SoundHints(hints', Now)
  BY DEF RInv, SoundHints, IInv, GoodHints
<1>4. job' = job \/ (job.kind # "delete" /\ job' = Idle)
  BY DEF Leaves, RInv, JobInv
<1>5. JobInv'
  BY <1>4 DEF RInv, JobInv, Idle
<1>6. \A e \in Devices : work'[e].of = None
                         \/ (work'[e].of = work[e].of /\ job' = job)
  <2> SUFFICES ASSUME NEW e \in Devices, work'[e].of # None
               PROVE  work'[e].of = work[e].of /\ job' = job
    OBVIOUS
  <2>1. CASE Leaves(d)
    <3>1. e # d /\ work'[e] = work[e]
      BY <2>1 DEF Leaves, NoWork, IInv, GoodWork
    <3>2. job.dev # d
      BY <3>1 DEF IInv, WorkIsLocked
    <3> QED
      BY <2>1, <3>1, <3>2 DEF Leaves
  <2>2. CASE job' = job /\ work' = [work EXCEPT ![d].step = "failing"]
    BY <2>2 DEF IInv, GoodWork, Work
  <2> QED
    BY <2>1, <2>2
<1>7. WorkInv'
  BY <1>6 DEF RInv, WorkInv
<1>8. \A e \in Devices : SoundHint(work'[e].prior, Now)
  <2>1. SoundHint(None, Now)
    BY DEF SoundHint, Names
  <2>2. \A e \in Devices : work'[e].prior = None \/ work'[e].prior = work[e].prior
    BY DEF Leaves, NoWork, IInv, GoodWork, Work
  <2> QED
    BY <2>1, <2>2 DEF RInv
<1> QED
  BY <1>2, <1>3, <1>4, <1>5, <1>7, <1>8, WorldStays DEF RInv, Idle

LEMMA ConfirmSound ==
    ASSUME IInv, RInv, IInv', NEW d \in Devices, Confirm(d)
    PROVE  RInv'
<1> DEFINE r == RecordOf(d, work[d], "confirmed")
<1>1. SoundHint(HintOf(r), Now)
  <2>1. \A p \in Op : SoundRecord(r, p, Now)
    BY DeployedIsSound DEF RInv, WorkInv
  <2>2. /\ Names(HintOf(r), work[d].of) => work[d].of # None
        /\ \A i : Names(HintOf(r), i) => i = work[d].of /\ i # None
    BY DEF HintOf, Names, RecordOf
  <2> QED
    BY <2>2 DEF SoundHint, Now, RInv, WorkInv, JobInv
<1>2. UNCHANGED <<library, made, removal, torn, stray>>
  BY DEF Confirm
<1>3. \/ /\ PutReturns(work[d].op, r) /\ Leaves(d)
         /\ hints' = [hints EXCEPT ![d] = HintOf(r)]
      \/ /\ PutRaises(work[d].op, r) /\ UNCHANGED <<hints, job>>
         /\ work' = [work EXCEPT ![d].step = "failing"]
  BY DEF Confirm
<1> QED
  BY <1>1, <1>2, <1>3, EndSound

LEMMA FailSound ==
    ASSUME IInv, RInv, IInv', NEW d \in Devices, Fail(d)
    PROVE  RInv'
<1> DEFINE r == RecordOf(d, work[d], "ended")
<1>1. /\ UNCHANGED <<library, made, removal, torn, stray>> /\ Leaves(d)
      /\ PutReturns(work[d].op, r) \/ PutRaises(work[d].op, r)
  BY DEF Fail, history
<1>2. SoundRecords(records', Now)
  <2>1. \A p \in Op : SoundRecord(r, p, Now)
    BY DeployedIsSound DEF RInv, WorkInv
  <2> HIDE DEF r
  <2> QED
    BY <1>1, <2>1, PutIsSound
<1>3. PICK h : hints' = hints \/ (hints' = [hints EXCEPT ![d] = h] /\ SoundHint(h, Now))
  <2>1. ASSUME NEW recovered \in BOOLEAN, NEW sig
        PROVE  SoundHint(Reconciled(records', d, sig, PriorOrigin(d, recovered)), Now)
    <3>1. SoundHint(PriorOrigin(d, recovered), Now)
      BY DEF PriorOrigin, RInv, SoundHints
    <3> QED
      BY <1>2, <3>1, ReconciledIsSound
  <2> QED
    BY <2>1 DEF Fail
<1> QED
  BY <1>1, <1>3, EndSound

\* Hints alone change: a sight of the device, a command, a delayed save.
LEMMA HintsSound ==
    ASSUME IInv, RInv,
           FlushHints \/ \E d \in Devices : Reconcile(d) \/ ClearOrigin(d)
    PROVE  RInv'
<1>1. /\ UNCHANGED <<library, records, made, job, work, removal, torn, stray>>
      /\ disk'.library = disk.library /\ disk'.records = disk.records
      /\ \/ UNCHANGED hints
         \/ \E d \in Devices : \E h :
               hints' = [hints EXCEPT ![d] = h] /\ SoundHint(h, Now)
  <2>1. CASE FlushHints
    BY <2>1 DEF FlushHints, history, IInv, GoodDisk
  <2>2. ASSUME NEW d \in Devices, Reconcile(d)
        PROVE  \E h : hints' = [hints EXCEPT ![d] = h] /\ SoundHint(h, Now)
    <3>1. \A sig : SoundHint(Reconciled(records, d, sig, hints[d]), Now)
      BY ReconciledIsSound DEF RInv, SoundHints
    <3> QED
      BY <2>2, <3>1 DEF Reconcile
  <2>3. ASSUME NEW d \in Devices, ClearOrigin(d)
        PROVE  hints' = [hints EXCEPT ![d] = None] /\ SoundHint(None, Now)
    BY <2>3 DEF ClearOrigin, SoundHint, Names
  <2> QED
    BY <2>1, <2>2, <2>3 DEF Reconcile, ClearOrigin, history
<1>2. SoundHints(hints', Now)
  BY <1>1 DEF RInv, SoundHints, IInv, GoodHints
<1>3. JobInv' /\ WorkInv'
  BY <1>1 DEF RInv, JobInv, WorkInv
<1> QED
  BY <1>1, <1>2, <1>3, WorldStays DEF RInv

\* An entry is removed, with its hint and its records.
LEMMA RemovalSound ==
    ASSUME IInv, RInv,
           RemoveHints \/ RemoveRecords \/ \E d \in Devices : RemoveEntry(d)
    PROVE  RInv'
<1>1. UNCHANGED <<library, made, job, work, torn, stray>>
  BY DEF RemoveHints, RemoveRecords, RemoveEntry, history
<1>2. JobInv' /\ WorkInv'
  BY <1>1 DEF RInv, JobInv, WorkInv
<1>3. "hints" \in removal'.todo => SoundHints(removal'.copy, Now)
  <2>1. ASSUME NEW d \in Devices, RemoveEntry(d)
        PROVE  SoundHints(removal'.copy, Now)
    <3>1. removal'.copy = [hints EXCEPT ![d] = None] /\ SoundHint(None, Now)
      BY <2>1 DEF RemoveEntry, SoundHint, Names
    <3> QED
      BY <3>1 DEF RInv, SoundHints, IInv, GoodHints
  <2>2. ASSUME NEW what, Dealt(what), "hints" \in removal'.todo
        PROVE  removal'.copy = removal.copy /\ "hints" \in removal.todo
    BY <2>2 DEF Dealt, NoRemoval, IInv, GoodRemoval
  <2> QED
    BY <2>1, <2>2 DEF RemoveHints, RemoveRecords, RInv
<1>4. /\ SoundHints(hints', Now) /\ disk'.library = disk.library
      /\ SoundRecords(records', Now) /\ SoundRecords(disk'.records, Now)
  <2>1. CASE RemoveHints
    BY <2>1 DEF RemoveHints, Fault, RInv, IInv, GoodDisk
  <2>2. CASE RemoveRecords
    <3> DEFINE new == [o \in Op |-> IF records[o] # None /\ records[o].dev = removal.dev
                                    THEN None ELSE records[o]]
    <3>1. SoundRecords(new, Now)
      BY DEF RInv, SoundRecords, SoundRecord, Of
    <3>2. SaveReturns(new) \/ SaveRefused
      BY <2>2 DEF RemoveRecords
    <3> HIDE DEF new
    <3>3. UNCHANGED hints
      BY <2>2 DEF RemoveRecords
    <3> QED
      BY <3>1, <3>2, <3>3, SavedIsSound DEF RInv
  <2>3. ASSUME NEW d \in Devices, RemoveEntry(d)
        PROVE  UNCHANGED <<hints, records, disk>>
    BY <2>3 DEF RemoveEntry
  <2> QED
    BY <2>1, <2>2, <2>3 DEF RInv
<1> QED
  BY <1>1, <1>2, <1>3, <1>4, WorldStays DEF RInv

\* An item is created or edited: nothing refers to one that was not there, and
\* one that is there stays.
LEMMA ChangeSound ==
    ASSUME IInv, RInv, NEW i \in Items, NEW v \in Nat \ {0},
           IF v = 1 THEN Create(i) ELSE Update(i, v - 1)
    PROVE  RInv'
<1> DEFINE new == [library EXCEPT ![i] = v]
<1>1. /\ UNCHANGED <<records, hints, work, removal, job, torn, stray>>
      /\ made \subseteq made' /\ i \in made' /\ job = Idle
      /\ CommitReturns(new) \/ CommitRefused \/ CommitCancelled(new)
      /\ i \notin made \/ library[i] # 0
  <2>1. CASE v = 1
    BY <2>1 DEF Create, Change
  <2>2. CASE v # 1
    <3>1. Update(i, v - 1) /\ (v - 1) + 1 = v /\ v - 1 # 0
      BY <2>2
    <3> QED
      BY <3>1 DEF Update, Change, RInv, LibraryInv
  <2> QED
    BY <2>1, <2>2
<1>2. /\ new[i] # 0 /\ \A j \in Items : j # i => new[j] = library[j]
  BY DEF IInv, Library
<1> HIDE DEF new
<1>3. /\ disk'.records = disk.records
      /\ \/ library' = library /\ disk'.library = disk.library
         \/ library' = library /\ disk'.library = new
         \/ library' = new /\ disk'.library = new
  BY <1>1 DEF CommitReturns, CommitRefused, CommitCancelled, IInv, GoodDisk
<1>4. LibraryInv'
  BY <1>1, <1>2, <1>3 DEF RInv, LibraryInv
<1>5. \A r, o : SoundRecord(r, o, Now) => SoundRecord(r, o, Now')
  <2> SUFFICES ASSUME NEW r, NEW o, SoundRecord(r, o, Now), NEW j \in Items, Of(r, j)
               PROVE  /\ j \in made'
                      /\ j \notin torn =>
                            /\ r.attached => library'[j] # 0
                            /\ ~r.attached => library'[j] = 0
                            /\ library'[j] = 0 => disk'.library[j] = 0
    BY <1>1 DEF SoundRecord, Now, Deletes, Idle
  <2>1. /\ j \in made
        /\ j \notin torn => /\ r.attached => library[j] # 0
                            /\ ~r.attached => library[j] = 0
                            /\ library[j] = 0 => disk.library[j] = 0
    BY <1>1 DEF SoundRecord, Now, Deletes, Idle
  <2>2. CASE j # i
    BY <1>1, <1>2, <1>3, <2>1, <2>2
  <2>3. CASE j = i
    BY <1>1, <1>2, <1>3, <2>1, <2>3
  <2> QED
    BY <2>2, <2>3
<1>6. \A h : SoundHint(h, Now) => SoundHint(h, Now')
  BY <1>1, <1>2, <1>3 DEF SoundHint, Now
<1>7. JobInv' /\ WorkInv'
  BY <1>1 DEF RInv, JobInv, WorkInv, Idle
<1> QED
  BY <1>1, <1>3, <1>4, <1>5, <1>6, <1>7 DEF RInv, SoundRecords, SoundHints

\* A deletion detaches all records of its item, in memory and on disk.
LEMMA DeleteSound ==
    ASSUME IInv, RInv, NEW i \in Items, NEW seen \in 1..MaxVersion, Delete(i, seen)
    PROVE  RInv'
<1> DEFINE held == {o \in Op : Names(records[o], i)}
           new == Detached(records, i)
           next == [kind |-> "delete", item |-> i, ver |-> seen, dev |-> None,
                    step |-> "remove", held |-> held]
<1>1. /\ UNCHANGED <<library, hints, made, work, removal, stray>>
      /\ job = Idle /\ library[i] # 0 /\ torn \subseteq torn'
      /\ i \in made
  BY DEF Delete, RInv, LibraryInv
<1>2. /\ DOMAIN records = Op /\ DOMAIN new = Op
      /\ \A o \in Op : IF Names(records[o], i)
                       THEN /\ new[o] # None => Of(new[o], i) /\ ~new[o].attached
                       ELSE new[o] = records[o]
  <2>1. DOMAIN records = Op
    BY DEF IInv, GoodRecords
  <2>2. ASSUME NEW o \in Op, Names(records[o], i)
        PROVE  /\ [records[o] EXCEPT !.attached = FALSE, !.ver = 0].of = i
               /\ ~[records[o] EXCEPT !.attached = FALSE, !.ver = 0].attached
    <3>1. records[o] \in Record
      BY <2>2 DEF IInv, GoodRecords, Names
    <3> QED
      BY <2>2, <3>1 DEF Record, Names
  <2> QED
    BY <2>1, <2>2 DEF Detached, Of
<1>11. \/ /\ held = {} /\ job' = next
          /\ torn' = IF \E o \in Op : Names(disk.records[o], i)
                     THEN torn \cup {i} ELSE torn
          /\ UNCHANGED <<records, disk>>
       \/ held # {} /\ SaveReturns(new) /\ job' = next /\ UNCHANGED torn
       \/ held # {} /\ SaveRefused /\ UNCHANGED <<job, torn>>
       \/ held # {} /\ SaveCancelled(new) /\ torn' = torn \cup {i} /\ UNCHANGED job
  BY DEF Delete
<1> HIDE DEF new
<1>3. /\ SoundRecords(records, Now) /\ SoundRecords(disk.records, Now)
      /\ LibraryInv /\ JobInv
  BY DEF RInv
<1>4. LibraryInv' \/ disk'.library # disk.library
  BY <1>1, <1>3 DEF LibraryInv
<1>5. \A h : SoundHint(h, Now) => SoundHint(h, Now')
  BY <1>1 DEF SoundHint, Now
<1>6. WorkInv'
  BY <1>1 DEF RInv, WorkInv, Idle
<1>7. ASSUME NEW r, NEW o, SoundRecord(r, o, Now), NEW j \in Items, Of(r, j), j # i
      PROVE  /\ j \in made'
             /\ j \notin torn' => /\ r.attached => library'[j] # 0
                                  /\ ~r.attached => library'[j] = 0
                                  /\ library'[j] = 0 => disk.library[j] = 0
  BY <1>1, <1>7 DEF SoundRecord, Now, Deletes, Idle
<1>8. ASSUME NEW r, NEW o, SoundRecord(r, o, Now), Of(r, i), i \notin torn
      PROVE  r.attached
  BY <1>1, <1>8 DEF SoundRecord, Now, Deletes, Idle
<1>9. CASE job' = job
  <2>1. \A r, o : SoundRecord(r, o, Now) /\ disk'.library = disk.library
                  => SoundRecord(r, o, Now')
    BY <1>1, <1>9 DEF SoundRecord, Now, Deletes, Idle
  <2>2. /\ disk'.library = disk.library /\ UNCHANGED records
        /\ SoundRecords(disk'.records, Now')
    <3>1. CASE disk' = disk /\ UNCHANGED records
      BY <1>3, <2>1, <3>1 DEF SoundRecords
    <3>2. CASE SaveCancelled(new) /\ torn' = torn \cup {i}
      <4>1. /\ disk'.library = disk.library /\ disk'.records = new
            /\ UNCHANGED records
        BY <3>2 DEF SaveCancelled, IInv, GoodDisk
      <4>2. ASSUME NEW o \in Op PROVE SoundRecord(new[o], o, Now')
        <5>1. SoundRecord(records[o], o, Now')
          BY <1>3, <2>1, <4>1 DEF SoundRecords
        <5>2. CASE Names(records[o], i)
          <6>1. \A j \in Items : Of(new[o], j) => j = i
            BY <1>2, <5>2 DEF Of
          <6>2. i \in made' /\ i \in torn'
            BY <1>1, <3>2
          <6> QED
            BY <6>1, <6>2 DEF SoundRecord, Now
        <5> QED
          BY <1>2, <5>1, <5>2
      <4> QED
        BY <4>1, <4>2 DEF SoundRecords
    <3>3. job' # next
      BY <1>1, <1>9 DEF Idle
    <3> QED
      BY <1>11, <3>1, <3>2, <3>3 DEF SaveRefused
  <2>3. SoundRecords(records', Now') /\ LibraryInv'
    BY <1>3, <1>4, <2>1, <2>2 DEF SoundRecords
  <2>4. JobInv'
    BY <1>1, <1>9 DEF JobInv, Idle
  <2> QED
    BY <1>1, <1>5, <1>6, <2>2, <2>3, <2>4 DEF RInv, SoundHints
<1>10. CASE job' # job
  <2>1. /\ job' = next /\ disk'.library = disk.library
        /\ \/ /\ held = {} /\ UNCHANGED <<records, disk>>
              /\ (\E o \in Op : Names(disk.records[o], i)) => i \in torn'
           \/ held # {} /\ records' = new /\ disk'.records = new
    BY <1>10, <1>11 DEF SaveReturns, IInv, GoodDisk
  <2>2. /\ job'.kind = "delete" /\ job'.item = i /\ job'.held = held
        /\ job'.step = "remove"
    BY <2>1
  <2>3. JobInv' /\ LibraryInv'
    BY <1>1, <1>4, <2>1, <2>2 DEF JobInv
  \* No record of the item is left attached, and all that are left are held.
  <2>4. ASSUME NEW r, NEW o,
               \A j \in Items : Of(r, j) /\ j # i =>
                   /\ j \in made'
                   /\ j \notin torn' => /\ r.attached => library'[j] # 0
                                        /\ ~r.attached => library'[j] = 0
                                        /\ library'[j] = 0 => disk.library[j] = 0,
               Of(r, i) /\ i \notin torn' => ~r.attached /\ o \in held
        PROVE  SoundRecord(r, o, Now')
    BY <1>1, <2>1, <2>2, <2>4 DEF SoundRecord, Now, Deletes
  <2>5. CASE held = {}
    <3>1. ASSUME NEW o \in Op
          PROVE  SoundRecord(records'[o], o, Now')
      <4>1. i \notin torn' => ~Of(records[o], i)
        BY <1>1, <1>3, <1>8, <2>5, <3>1 DEF SoundRecords, Names, Of
      <4> QED
        BY <1>3, <1>7, <2>1, <2>4, <2>5, <3>1, <4>1 DEF SoundRecords
    <3>2. ASSUME NEW o \in Op
          PROVE  SoundRecord(disk'.records[o], o, Now')
      <4>1. i \notin torn' => ~Of(disk.records[o], i)
        BY <1>1, <1>3, <1>8, <2>1, <2>5, <3>2 DEF SoundRecords, Names, Of
      <4> QED
        BY <1>3, <1>7, <2>1, <2>4, <2>5, <3>2, <4>1 DEF SoundRecords
    <3> QED
      BY <1>1, <1>5, <1>6, <2>3, <3>1, <3>2 DEF RInv, SoundHints, SoundRecords
  <2>6. CASE held # {}
    <3>1. ASSUME NEW o \in Op
          PROVE  SoundRecord(new[o], o, Now')
      <4>1. CASE Names(records[o], i)
        <5>1. \A j \in Items : Of(new[o], j) => j = i /\ ~new[o].attached /\ o \in held
          BY <1>2, <4>1 DEF Of
        <5> QED
          BY <2>4, <5>1
      <4>2. CASE ~Names(records[o], i)
        <5>1. new[o] = records[o] /\ SoundRecord(records[o], o, Now)
          BY <1>2, <1>3, <4>2 DEF SoundRecords
        <5>2. i \notin torn => ~Of(records[o], i)
          BY <1>8, <4>2, <5>1 DEF Names, Of
        <5> QED
          BY <1>1, <1>7, <2>4, <5>1, <5>2
      <4> QED
        BY <4>1, <4>2
    <3> QED
      BY <1>1, <1>5, <1>6, <2>1, <2>3, <2>6, <3>1 DEF RInv, SoundHints, SoundRecords
  <2> QED
    BY <2>5, <2>6
<1> QED
  BY <1>9, <1>10

\* The item goes, and what the hints and their copies say of it; or it stays
\* and its records are to be attached again.
LEMMA RemoveSound ==
    ASSUME IInv, RInv, Remove
    PROVE  RInv'
<1> DEFINE i == job.item
           new == [library EXCEPT ![i] = 0]
<1>1. /\ UNCHANGED <<records, made, work, removal>>
      /\ i \in Items /\ i \in made /\ job.kind = "delete"
      /\ \A d \in Devices : work[d].of = None
  BY DEF Remove, RInv, JobInv, WorkInv
<1>2. \/ /\ CommitReturns(new) /\ hints' = Detached(hints, i) /\ job' = Idle
         /\ stray' = (IF CopyIsOut(i) THEN stray \cup {i} ELSE stray)
         /\ UNCHANGED torn
      \/ /\ CommitRefused \/ CommitCancelled(new)
         /\ torn' = IF disk'.library = new THEN torn \cup {i} ELSE torn
         /\ job' = [job EXCEPT !.step = "reattach"]
         /\ UNCHANGED <<hints, stray>>
  BY DEF Remove, DetachHints
<1>3. /\ new[i] = 0 /\ \A j \in Items : j # i => new[j] = library[j]
  BY <1>1 DEF IInv, Library
<1> HIDE DEF new
<1>4. WorkInv'
  BY <1>1 DEF WorkInv
<1>5. CASE /\ CommitReturns(new) /\ hints' = Detached(hints, i) /\ job' = Idle
           /\ stray' = (IF CopyIsOut(i) THEN stray \cup {i} ELSE stray)
           /\ UNCHANGED torn
  <2>1. /\ library' = new /\ disk'.library = new /\ disk'.records = disk.records
    BY <1>5 DEF CommitReturns, IInv, GoodDisk
  <2>2. LibraryInv' /\ JobInv'
    BY <1>1, <1>3, <1>5, <2>1 DEF RInv, LibraryInv, JobInv, Idle
  <2>3. ASSUME NEW r, NEW o, SoundRecord(r, o, Now)
        PROVE  SoundRecord(r, o, Now')
    <3> SUFFICES ASSUME NEW j \in Items, Of(r, j)
                 PROVE  /\ j \in made'
                        /\ j \notin torn' => /\ r.attached => library'[j] # 0
                                             /\ ~r.attached => library'[j] = 0
                                             /\ library'[j] = 0 => disk'.library[j] = 0
      BY <1>5 DEF SoundRecord, Now, Deletes, Idle
    <3>1. CASE j = i
      BY <1>1, <1>3, <1>5, <2>1, <2>3, <3>1 DEF SoundRecord, Now, Deletes
    <3>2. CASE j # i
      BY <1>1, <1>3, <1>5, <2>1, <2>3, <3>2 DEF SoundRecord, Now, Deletes
    <3> QED
      BY <3>1, <3>2
  <2>4. ASSUME NEW h, SoundHint(h, Now), Names(h, i) => CopyIsOut(i)
        PROVE  SoundHint(h, Now')
    BY <1>3, <1>5, <2>1, <2>4 DEF SoundHint, Now
  <2>5. ASSUME NEW d \in Devices
        PROVE  SoundHint(hints'[d], Now')
    <3>1. /\ ~Names(hints'[d], i)
          /\ \A j \in Items : Names(hints'[d], j) => Names(hints[d], j)
      <4>1. hints[d] \in Hint \cup {None} /\ DOMAIN hints = Devices
        BY DEF IInv, GoodHints
      <4>2. hints'[d] = IF Names(hints[d], i)
                        THEN [hints[d] EXCEPT !.attached = FALSE, !.ver = 0]
                        ELSE hints[d]
        BY <1>5, <4>1 DEF Detached
      <4> QED
        BY <4>1, <4>2 DEF Names, Hint
    <3>2. SoundHint(hints[d], Now)
      BY DEF RInv, SoundHints
    <3> QED
      BY <1>3, <1>5, <2>1, <3>1, <3>2 DEF SoundHint, Now
  <2>6. \A d \in Devices : SoundHint(work'[d].prior, Now')
    BY <1>1, <2>4 DEF RInv, CopyIsOut
  <2>7. "hints" \in removal'.todo => SoundHints(removal'.copy, Now')
    BY <1>1, <2>4 DEF RInv, SoundHints, CopyIsOut
  <2> QED
    BY <1>1, <1>4, <2>1, <2>2, <2>3, <2>5, <2>6, <2>7 DEF RInv, SoundRecords, SoundHints
<1>6. CASE /\ CommitRefused \/ CommitCancelled(new)
           /\ torn' = IF disk'.library = new THEN torn \cup {i} ELSE torn
           /\ job' = [job EXCEPT !.step = "reattach"]
           /\ UNCHANGED <<hints, stray>>
  <2>1. /\ library' = library /\ disk'.records = disk.records
        /\ disk'.library = disk.library \/ disk'.library = new
        /\ torn \subseteq torn' /\ (disk'.library = new => i \in torn')
        /\ \A j \in torn' : j \in torn \/ j = i
    BY <1>6 DEF CommitRefused, CommitCancelled, IInv, GoodDisk
  <2>2. /\ job'.kind = job.kind /\ job'.item = i /\ job'.held = job.held
        /\ job'.step = "reattach"
    BY <1>6 DEF IInv, JobType
  <2>3. LibraryInv' /\ JobInv'
    BY <1>1, <1>3, <2>1, <2>2 DEF RInv, LibraryInv, JobInv
  <2>4. ASSUME NEW r, NEW o, SoundRecord(r, o, Now)
        PROVE  SoundRecord(r, o, Now')
    <3> SUFFICES ASSUME NEW j \in Items, Of(r, j)
                 PROVE  /\ j \in made'
                        /\ j \notin torn' =>
                              /\ r.attached => library'[j] # 0 /\ ~Deletes(job', j)
                              /\ ~r.attached => IF Deletes(job', j) THEN o \in job'.held
                                                ELSE library'[j] = 0
                              /\ library'[j] = 0 => disk'.library[j] = 0
      BY DEF SoundRecord, Now
    <3>1. j # i \/ j \in torn' \/ disk'.library = disk.library
      BY <2>1
    <3> QED
      BY <1>1, <1>3, <2>1, <2>2, <2>4, <3>1 DEF SoundRecord, Now, Deletes
  <2>5. \A h : SoundHint(h, Now) => SoundHint(h, Now')
    BY <1>6, <2>1 DEF SoundHint, Now
  <2> QED
    BY <1>1, <1>4, <1>6, <2>1, <2>3, <2>4, <2>5 DEF RInv, SoundRecords, SoundHints
<1> QED
  BY <1>2, <1>5, <1>6

\* The records that a deletion detached are attached again, all of them.
LEMMA ReattachSound ==
    ASSUME IInv, RInv, Reattach
    PROVE  RInv'
<1> DEFINE i == job.item
<1>1. /\ UNCHANGED <<library, hints, made, work, removal, stray>> /\ job' = Idle
      /\ i \in Items /\ i \in made /\ job.kind = "delete"
      /\ i \notin torn => library[i] # 0
      /\ \A d \in Devices : work[d].of = None
  BY DEF Reattach, RInv, JobInv, WorkInv
<1>2. /\ disk'.library = disk.library
      /\ \/ job.held = {} /\ UNCHANGED <<records, disk, torn>>
         \/ MayReattach /\ SaveReturns(Reattached) /\ UNCHANGED torn
         \/ /\ torn' = torn \cup {i} /\ UNCHANGED records
            /\ \/ UNCHANGED disk
               \/ MayReattach /\ disk'.records = Reattached
  BY DEF Reattach, SaveReturns, SaveCancelled, SaveRefused, IInv, GoodDisk
<1>3. torn' = torn \/ torn' = torn \cup {i}
  BY <1>2
<1>4. LibraryInv' /\ JobInv' /\ WorkInv'
  BY <1>1, <1>2, <1>3 DEF RInv, LibraryInv, JobInv, WorkInv, Idle
<1>5. \A h : SoundHint(h, Now) => SoundHint(h, Now')
  BY <1>1, <1>3 DEF SoundHint, Now
\* What is sound of the other items stays, and of this one there is only what
\* is said below.
<1>6. ASSUME NEW r, NEW o, SoundRecord(r, o, Now),
             Of(r, i) => i \in torn'
      PROVE  SoundRecord(r, o, Now')
  <2> SUFFICES ASSUME NEW j \in Items, Of(r, j)
               PROVE  /\ j \in made'
                      /\ j \notin torn' => /\ r.attached => library'[j] # 0
                                           /\ ~r.attached => library'[j] = 0
                                           /\ library'[j] = 0 => disk'.library[j] = 0
    BY <1>1 DEF SoundRecord, Now, Deletes, Idle
  <2> QED
    BY <1>1, <1>2, <1>3, <1>6 DEF SoundRecord, Now, Deletes
<1>7. ASSUME NEW r, NEW o, SoundRecord(r, o, Now), Of(r, i), i \notin torn
      PROVE  o \in job.held
  BY <1>1, <1>7 DEF SoundRecord, Now, Deletes
<1>8. ASSUME MayReattach, NEW o \in Op
      PROVE  SoundRecord(Reattached[o], o, Now')
  <2>1. SoundRecord(records[o], o, Now)
    BY DEF RInv, SoundRecords
  <2>2. CASE o \notin job.held
    <3>1. Reattached[o] = records[o]
      BY <2>2 DEF Reattached
    <3> QED
      BY <1>3, <1>6, <1>7, <2>1, <2>2, <3>1
  <2>3. CASE o \in job.held
    <3>1. /\ records[o] # None /\ records[o] \in Record /\ records[o].of = i
          /\ Reattached[o] = [records[o] EXCEPT !.attached = TRUE, !.ver = job.ver]
      BY <1>1, <1>8, <2>3 DEF MayReattach, Reattached, IInv, HeldIsOfItem, GoodRecords
    <3>2. Reattached[o].of = i /\ Reattached[o].attached
      BY <3>1 DEF Record
    <3>3. i \notin torn' => library'[i] # 0
      BY <1>1, <1>3
    <3> QED
      BY <1>1, <3>2, <3>3 DEF SoundRecord, Of, Now, Deletes, Idle
  <2> QED
    BY <2>2, <2>3
<1>9. SoundRecords(records', Now') /\ SoundRecords(disk'.records, Now')
  <2>1. CASE job.held = {} /\ UNCHANGED <<records, disk, torn>>
    BY <1>6, <1>7, <2>1 DEF RInv, SoundRecords
  <2>2. CASE MayReattach /\ SaveReturns(Reattached) /\ UNCHANGED torn
    <3>1. records' = Reattached /\ disk'.records = Reattached
      BY <2>2 DEF SaveReturns, IInv, GoodDisk
    <3> QED
      BY <1>8, <2>2, <3>1 DEF SoundRecords
  <2>3. CASE /\ torn' = torn \cup {i} /\ UNCHANGED records
             /\ \/ UNCHANGED disk
                \/ MayReattach /\ disk'.records = Reattached
    BY <1>6, <1>8, <2>3 DEF RInv, SoundRecords
  <2> QED
    BY <1>2, <2>1, <2>2, <2>3
<1> QED
  BY <1>1, <1>4, <1>5, <1>9 DEF RInv, SoundHints

\* A start takes everything from disk; a deletion that it ends was cut short.
LEMMA RestartSound ==
    ASSUME IInv, RInv, Restart
    PROVE  RInv'
<1>1. /\ library' = disk.library /\ made' = made
      /\ job' = Idle /\ work' = [d \in Devices |-> NoWork] /\ removal' = NoRemoval
      /\ torn' = (IF job.kind = "delete" THEN torn \cup {job.item} ELSE torn)
      /\ stray' = stray \cup
            {i \in Items : disk.library[i] = 0
                           /\ \E d \in Devices : Names(disk.hints[d], i)}
      /\ records' = Rehashed(Interrupted(disk.records), disk.library)
      /\ hints' = Rehashed(disk.hints, disk.library)
  BY DEF Restart
<1>2. disk'.library = disk.library /\ disk'.records = records'
  BY DEF Restart, IInv, GoodDisk
<1>3. ASSUME NEW o \in Op
      PROVE  records'[o] # None =>
                /\ disk.records[o] # None /\ records'[o].of = disk.records[o].of
                /\ records'[o].attached = disk.records[o].attached
  <2> DEFINE all == Interrupted(disk.records)
  <2>1. disk.records[o] \in Record \cup {None}
    BY DEF IInv, GoodDisk
  <2>2. /\ all[o] \in Record \cup {None}
        /\ all[o] # None => /\ disk.records[o] # None /\ all[o].of = disk.records[o].of
                            /\ all[o].attached = disk.records[o].attached
    BY <2>1 DEF Interrupted, Record
  <2>3. DOMAIN all = Op
    BY DEF Interrupted
  <2> HIDE DEF all
  <2>4. \/ records'[o] = all[o]
        \/ all[o] # None /\ records'[o] = [all[o] EXCEPT !.hash = all[o].ver]
    <3>1. records' = Rehashed(all, disk.library)
      BY <1>1 DEF all
    <3> QED
      BY <2>3, <3>1 DEF Rehashed
  <2> QED
    BY <2>2, <2>4 DEF Record
<1>4. ASSUME NEW d \in Devices, NEW i \in Items, Names(hints'[d], i)
      PROVE  Names(disk.hints[d], i)
  <2>1. disk.hints[d] \in Hint \cup {None} /\ DOMAIN disk.hints = Devices
    BY DEF IInv, GoodDisk
  <2>2. \/ hints'[d] = disk.hints[d]
        \/ /\ disk.hints[d] # None
           /\ hints'[d] = [disk.hints[d] EXCEPT !.hash = disk.hints[d].ver]
    BY <1>1, <2>1 DEF Rehashed
  <2> QED
    BY <1>4, <2>1, <2>2 DEF Names, Hint
<1>5. ASSUME NEW o \in Op PROVE SoundRecord(records'[o], o, Now')
  <2>1. SoundRecord(disk.records[o], o, Now)
    BY DEF RInv, SoundRecords
  <2>2. ASSUME NEW r, SoundRecord(r, o, Now)
        PROVE  SoundRecord(r, o, Now')
    <3> SUFFICES ASSUME NEW j \in Items, Of(r, j)
                 PROVE  /\ j \in made'
                        /\ j \notin torn' => /\ r.attached => library'[j] # 0
                                             /\ ~r.attached => library'[j] = 0
                                             /\ library'[j] = 0 => disk'.library[j] = 0
      BY <1>1 DEF SoundRecord, Now, Deletes, Idle
    <3>1. j \in made
      BY <2>2 DEF SoundRecord, Now
    <3>2. ASSUME j \notin torn'
          PROVE  /\ j \notin torn /\ ~Deletes(job, j)
                 /\ library[j] # 0 => disk.library[j] # 0
      BY <1>1, <3>2 DEF Deletes, RInv, LibraryInv
    <3> QED
      BY <1>1, <1>2, <2>2, <3>1, <3>2 DEF SoundRecord, Now
  <2> QED
    BY <1>3, <2>1, <2>2, SameReference
<1>6. SoundHints(hints', Now')
  BY <1>1, <1>4 DEF SoundHints, SoundHint, Now
<1>7. LibraryInv' /\ JobInv' /\ WorkInv'
  BY <1>1, <1>2 DEF RInv, LibraryInv, JobInv, WorkInv, Idle, NoWork
<1>8. \A d \in Devices : SoundHint(work'[d].prior, Now')
  BY <1>1 DEF NoWork, SoundHint, Names
<1>9. removal'.todo = {}
  BY <1>1 DEF NoRemoval
<1> QED
  BY <1>2, <1>5, <1>6, <1>7, <1>8, <1>9 DEF RInv, SoundRecords

LEMMA StepRInv == IInv /\ IInv' /\ RInv /\ [Next]_vars => RInv'
<1> SUFFICES ASSUME IInv, IInv', RInv, [Next]_vars PROVE RInv'
  OBVIOUS
<1>1. CASE FlushHints \/ \E d \in Devices : Reconcile(d) \/ ClearOrigin(d)
  BY <1>1, HintsSound
<1>2. CASE Remove
  BY <1>2, RemoveSound
<1>3. CASE Reattach
  BY <1>3, ReattachSound
<1>4. CASE GiveUp \/ \E d \in Devices, i \in Items, seen \in 1..MaxVersion :
                        TakeForApply(d, i, seen)
  BY <1>4, LockSound
<1>5. CASE RemoveHints \/ RemoveRecords \/ \E d \in Devices : RemoveEntry(d)
  BY <1>5, RemovalSound
<1>6. CASE Restart
  BY <1>6, RestartSound
<1>7. ASSUME NEW i \in Items, Create(i) PROVE RInv'
  BY <1>7, ChangeSound
<1>8. ASSUME NEW i \in Items, NEW seen \in 1..MaxVersion, Update(i, seen) PROVE RInv'
  <2>1. seen + 1 \in Nat \ {0} /\ seen + 1 # 1 /\ (seen + 1) - 1 = seen
    BY <1>8, LibraryAssumption DEF Update
  <2> DEFINE v == seen + 1
  <2>2. v \in Nat \ {0} /\ v # 1 /\ Update(i, v - 1)
    BY <1>8, <2>1
  <2> QED
    BY <2>2, ChangeSound
<1>9. ASSUME NEW i \in Items, NEW seen \in 1..MaxVersion, Delete(i, seen) PROVE RInv'
  BY <1>9, DeleteSound
<1>10. ASSUME NEW d \in Devices, BeginSaved(d) PROVE RInv'
  <2>1. PICK sig \in Signatures : Begin(d, job.item, job.ver, sig)
    BY <1>10 DEF BeginSaved
  <2>2. job.kind = "apply" /\ job' = [job EXCEPT !.step = "runs"]
    BY <1>10 DEF BeginSaved
  <2> QED
    BY <2>1, <2>2, BeginSound
<1>11. ASSUME NEW d \in Devices, BeginSnapshot(d) PROVE RInv'
  <2>1. PICK sig \in Signatures : Begin(d, None, 0, sig)
    BY <1>11 DEF BeginSnapshot
  <2> QED
    BY <1>11, <2>1, BeginSound DEF BeginSnapshot
<1>12. ASSUME NEW d \in Devices, Confirm(d) PROVE RInv'
  BY <1>12, ConfirmSound
<1>13. ASSUME NEW d \in Devices, Fail(d) PROVE RInv'
  BY <1>13, FailSound
<1>14. CASE UNCHANGED vars
  <2>1. /\ UNCHANGED <<library, records, hints, disk, made, job, work, removal, torn,
                       stray>>
    BY <1>14 DEF vars, history
  <2> QED
    BY <2>1 DEF RInv, LibraryInv, JobInv, WorkInv, Now
<1> QED
  BY <1>1, <1>2, <1>3, <1>4, <1>5, <1>6, <1>7, <1>8, <1>9, <1>10, <1>11, <1>12,
     <1>13, <1>14 DEF Next

(***************************************************************************)
(* async_delete_library_item and what goes on meanwhile: a record names a  *)
(* saved effect exactly while the library has it, and no hint names one    *)
(* that is gone, through deletions that succeed or are rolled back,        *)
(* deployments, sightings, removals of entries and restarts; but for the   *)
(* deletions that were cut short and the hints put back from an old copy.  *)
(***************************************************************************)
THEOREM ReferencesAlwaysResolve == Spec => []ReferencesResolve
<1>1. IInv /\ RInv => ReferencesResolve
  <2> SUFFICES ASSUME IInv, RInv PROVE ReferencesResolve
    OBVIOUS
  <2>1. ASSUME NEW o \in Op, records[o] # None, records[o].of # None,
               records[o].of \notin torn
        PROVE  \/ records[o].attached <=> library[records[o].of] # 0
               \/ job.kind = "delete" /\ job.item = records[o].of /\ ~records[o].attached
    <3>1. records[o].of \in Items
      BY <2>1 DEF IInv, GoodRecords, Record, Sources
    <3>2. SoundRecord(records[o], o, Now) /\ Of(records[o], records[o].of)
      BY <2>1 DEF RInv, SoundRecords, Of
    <3> QED
      BY <2>1, <3>1, <3>2 DEF SoundRecord, Now, Deletes
  <2>2. \A d \in Devices, i \in Items \ (torn \cup stray) :
           Names(hints[d], i) => library[i] # 0
    BY DEF RInv, SoundHints, SoundHint, Now
  <2> QED
    BY <2>1, <2>2 DEF ReferencesResolve
<1>2. Init => IInv /\ RInv
  BY InitIInv, InitRInv
<1>3. IInv /\ RInv /\ [Next]_vars => IInv' /\ RInv'
  BY Step, StepRInv
<1> QED
  BY <1>1, <1>2, <1>3, PTL DEF Spec
=============================================================================

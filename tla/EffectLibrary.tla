------------------------------ MODULE EffectLibrary ------------------------------
(***************************************************************************)
(* Saved effects and what refers to them: the library of saved effects     *)
(* (effect_storage), the records of deployments that name the item they    *)
(* were made from (effect_deployments), and the active-effect hint of each *)
(* device (effect_identity), which the light shows when the library still  *)
(* has that content.  Three stores, each saved on its own.                 *)
(*                                                                         *)
(* The lock of library mutations is held over a whole deletion and over    *)
(* the whole deployment of a saved effect, not over that of a snapshot.    *)
(* What happens under it up to the end of one save is one step, with the   *)
(* ways the save can end; a cancelled save has reached the disk.  Every    *)
(* version of an item has other content than those before.  A deployment   *)
(* is its record, begun and ended (Deployments has the rest).  A record's  *)
(* number is the order of updated_at.                                      *)
(***************************************************************************)
EXTENDS Naturals

CONSTANTS
    Items,        \* ids of saved effects; a deleted one does not come back
    Devices,
    Signatures,   \* what devices report of what they show
    None,
    MaxOps,       \* bound: deployments
    MaxVersion,   \* bound: versions of an item
    MaxFaults,    \* bound: saves refused or cancelled
    MaxRestarts   \* bound: restarts of Home Assistant

ASSUME LibraryAssumption ==
    /\ MaxOps \in Nat /\ MaxVersion \in Nat
    /\ MaxFaults \in Nat /\ MaxRestarts \in Nat
    /\ None \notin Items

VARIABLES
    library,     \* version of each item, 0 for one that is not there
    records,     \* of deployments
    hints,       \* active_effect of each device's observed state
    disk,        \* the three stores
    made,        \* ids that have been used
    job,         \* the call that holds _library_mutation_lock
    work,        \* the deployment in progress on each device
    removal,     \* async_remove_entry in progress
    gone,        \* devices whose entry was removed
    ops,         \* deployments so far
    faults, restarts,   \* counted against the bounds
    \* What has happened, for the properties only.
    promised,    \* the library as last answered to a caller
    doubt,       \* libraries written since by calls that were cancelled
    torn,        \* items a deletion of which was cut short
    stray,       \* deleted items that a copy of an older hint still named
    rewritten,   \* items whose records were given another version
    confirmed    \* item and version that each device was seen to play

history == <<promised, doubt, torn, stray, rewritten, confirmed>>
vars == <<library, records, hints, disk, made, job, work, removal, gone, ops,
          faults, restarts, history>>

Op == 1..MaxOps
Idle == [kind |-> "idle", item |-> None, ver |-> 0, dev |-> None, step |-> "idle",
         held |-> {}]
NoWork == [op |-> 0, of |-> None, ver |-> 0, sig |-> None, prior |-> None,
           step |-> "idle"]
NoRemoval == [dev |-> None, copy |-> None, todo |-> {}]

Init ==
    /\ library = [i \in Items |-> 0]
    /\ records = [o \in Op |-> None]
    /\ hints = [d \in Devices |-> None]
    /\ disk = [library |-> library, records |-> records, hints |-> hints]
    /\ made = {} /\ job = Idle /\ work = [d \in Devices |-> NoWork]
    /\ removal = NoRemoval /\ gone = {} /\ ops = 0 /\ faults = 0 /\ restarts = 0
    /\ promised = library /\ doubt = {} /\ torn = {} /\ stray = {}
    /\ rewritten = {} /\ confirmed = [d \in Devices |-> {}]

Fault == faults < MaxFaults /\ faults' = faults + 1

\* A record or a hint that names the saved item i.
Names(r, i) == r # None /\ r.attached /\ r.of = i

\* replace(..., source_kind="deleted_effect", item_id=None, item_version=None)
Detached(all, i) ==
    [x \in DOMAIN all |-> IF Names(all[x], i)
                          THEN [all[x] EXCEPT !.attached = FALSE, !.ver = 0]
                          ELSE all[x]]

-----------------------------------------------------------------------------
(* Saves.                                                                  *)

\* Fault: the caller is answered, and the save follows later.
CommitLater(new) ==
    /\ library' = new /\ promised' = new /\ doubt' = {}
    /\ UNCHANGED <<disk, faults>>

\* _async_commit of the library: on disk first, then in memory, then answered.
CommitReturns(new) ==
    /\ library' = new /\ disk' = [disk EXCEPT !.library = new]
    /\ promised' = new /\ doubt' = {}
    /\ UNCHANGED faults

CommitRefused ==
    Fault /\ UNCHANGED <<library, disk, promised, doubt>>

CommitCancelled(new) ==
    /\ Fault
    /\ disk' = [disk EXCEPT !.library = new] /\ doubt' = doubt \cup {new}
    /\ UNCHANGED <<library, promised>>

\* The same of the records.
SaveReturns(new) ==
    /\ records' = new /\ disk' = [disk EXCEPT !.records = new]
    /\ UNCHANGED faults

SaveRefused == Fault /\ UNCHANGED <<records, disk>>

SaveCancelled(new) ==
    /\ Fault
    /\ disk' = [disk EXCEPT !.records = new]
    /\ UNCHANGED records

\* The stores are saved with a delay of five seconds: any time later.
FlushHints ==
    /\ disk.hints # hints
    /\ disk' = [disk EXCEPT !.hints = hints]
    /\ UNCHANGED <<library, records, hints, made, job, work, removal, gone, ops,
                   faults, history, restarts>>

-----------------------------------------------------------------------------
(* EffectStudioApplication: the library is changed.                        *)

Change(new) ==
    /\ job = Idle
    /\ CommitReturns(new) \/ CommitRefused \/ CommitCancelled(new)
    /\ UNCHANGED <<records, hints, job, work, removal, gone, ops, torn, stray,
                   rewritten, confirmed, restarts>>

Create(i) ==
    /\ i \notin made
    /\ made' = made \cup {i}
    /\ Change([library EXCEPT ![i] = 1])

\* Update or overwrite by a caller that has seen version seen.
Update(i, seen) ==
    /\ library[i] = seen /\ seen \in 1..MaxVersion - 1
    /\ Change([library EXCEPT ![i] = seen + 1])
    /\ UNCHANGED made

\* async_delete_library_item: first the records let go of the item.
Delete(i, seen) ==
    /\ job = Idle
    /\ library[i] = seen /\ seen > 0
    /\ LET held == {o \in Op : Names(records[o], i)}
           new == Detached(records, i)
           next == [kind |-> "delete", item |-> i, ver |-> seen, dev |-> None,
                    step |-> "remove", held |-> held]
       IN  \/ /\ held = {} /\ job' = next
              /\ torn' = IF \E o \in Op : Names(disk.records[o], i)
                         THEN torn \cup {i} ELSE torn
              /\ UNCHANGED <<records, disk, faults>>
           \/ held # {} /\ SaveReturns(new) /\ job' = next /\ UNCHANGED torn
           \/ held # {} /\ SaveRefused /\ UNCHANGED <<job, torn>>
           \/ held # {} /\ SaveCancelled(new) /\ torn' = torn \cup {i}
              /\ UNCHANGED job
    /\ UNCHANGED <<library, hints, made, work, removal, gone, ops, promised, doubt,
                   stray, rewritten, confirmed, restarts>>

\* Someone will put a hint back that was copied while it named item i.
CopyIsOut(i) ==
    \/ \E d \in Devices : Names(work[d].prior, i)
    \/ "hints" \in removal.todo /\ \E d \in Devices : Names(removal.copy[d], i)

\* Fault: the hints keep what they name.
KeepHints(i) == UNCHANGED hints

\* Then the item goes, and with it what the hints say of it.
DetachHints(i) == hints' = Detached(hints, i)

Remove ==
    /\ job.kind = "delete" /\ job.step = "remove"
    /\ LET i == job.item
           new == [library EXCEPT ![i] = 0]
       IN  \/ /\ CommitReturns(new) /\ DetachHints(i)
              /\ stray' = IF CopyIsOut(i) THEN stray \cup {i} ELSE stray
              /\ job' = Idle
              /\ UNCHANGED torn
           \/ /\ CommitRefused \/ CommitCancelled(new)
              /\ torn' = IF disk'.library = new THEN torn \cup {i} ELSE torn
              /\ job' = [job EXCEPT !.step = "reattach"]
              /\ UNCHANGED <<hints, stray>>
    /\ UNCHANGED <<records, made, work, removal, gone, ops, rewritten, confirmed,
                   restarts>>

\* What async_reattach_item makes of the records that were detached.
Reattached ==
    [o \in Op |-> IF o \in job.held
                  THEN [records[o] EXCEPT !.attached = TRUE, !.ver = job.ver]
                  ELSE records[o]]

\* A record that is no longer that of a deleted effect ends the roll-back.
MayReattach ==
    \A o \in job.held :
        records[o] # None /\ ~records[o].attached /\ records[o].of # None

\* Is the version they get another than the one that was deployed?
Rewritten ==
    IF \E o \in job.held : records[o].hash # job.ver
    THEN rewritten \cup {job.item} ELSE rewritten

\* Or the records are attached again: async_reattach_item.
Reattach ==
    /\ job.kind = "delete" /\ job.step = "reattach"
    /\ \/ job.held = {} /\ UNCHANGED <<records, disk, faults, torn, rewritten>>
       \/ /\ job.held # {} /\ MayReattach
          /\ \/ SaveReturns(Reattached) /\ rewritten' = Rewritten /\ UNCHANGED torn
             \/ /\ SaveCancelled(Reattached) /\ rewritten' = Rewritten
                /\ torn' = torn \cup {job.item}
             \/ SaveRefused /\ torn' = torn \cup {job.item} /\ UNCHANGED rewritten
       \/ /\ ~MayReattach /\ torn' = torn \cup {job.item}
          /\ UNCHANGED <<records, disk, faults, rewritten>>
    /\ job' = Idle
    /\ UNCHANGED <<library, hints, made, work, removal, gone, ops, promised, doubt,
                   stray, confirmed, restarts>>

-----------------------------------------------------------------------------
(* Deployments, as far as they refer to items.                             *)

\* saved_effect_for_apply: the lock is held until the deployment is over.
TakeForApply(d, i, seen) ==
    /\ job = Idle /\ d \notin gone
    /\ library[i] = seen /\ seen > 0
    /\ job' = [kind |-> "apply", item |-> i, ver |-> seen, dev |-> d,
               step |-> "waits", held |-> {}]
    /\ UNCHANGED <<library, records, hints, disk, made, work, removal, gone, ops,
                   faults, history, restarts>>

\* The effect does not compile, or the call is cancelled before it has a record.
\* One that is cancelled while it waits for control has one, which fails without
\* a write: BeginSaved, then Fail.
GiveUp ==
    /\ job.kind = "apply" /\ job.step = "waits"
    /\ job' = Idle
    /\ UNCHANGED <<library, records, hints, disk, made, work, removal, gone, ops,
                   faults, history, restarts>>

RecordOf(d, w, phase) ==
    [dev |-> d, of |-> w.of, ver |-> w.ver, hash |-> w.ver, sig |-> w.sig,
     attached |-> w.of # None, phase |-> phase]

\* async_put of a record.
With(o, r) == [records EXCEPT ![o] = r]

PutReturns(o, r) == SaveReturns(With(o, r))

PutRaises(o, r) == SaveRefused \/ SaveCancelled(With(o, r))

\* Control is granted, the record is put, what the device had is remembered.
Begin(d, of, ver, sig) ==
    /\ work[d] = NoWork /\ d \notin gone /\ ops < MaxOps
    /\ ops' = ops + 1
    /\ LET w == [op |-> ops + 1, of |-> of, ver |-> ver, sig |-> sig,
                 prior |-> hints[d], step |-> "running"]
           r == RecordOf(d, w, "running")
       IN  \/ PutReturns(w.op, r) /\ work' = [work EXCEPT ![d] = w]
           \/ PutRaises(w.op, r)
              /\ work' = [work EXCEPT ![d] = [w EXCEPT !.step = "failing",
                                                       !.prior = None]]
    /\ UNCHANGED <<library, hints, made, removal, gone, history, restarts>>

BeginSaved(d) ==
    /\ job.kind = "apply" /\ job.dev = d /\ job.step = "waits"
    /\ \E sig \in Signatures : Begin(d, job.item, job.ver, sig)
    /\ job' = [job EXCEPT !.step = "runs"]

\* async_apply_snapshot: nothing of the library is held.
BeginSnapshot(d) ==
    /\ \E sig \in Signatures : Begin(d, None, 0, sig)
    /\ UNCHANGED job

\* The deployment is over and, if it was a saved effect's, the lock is free.
Leaves(d) ==
    /\ work' = [work EXCEPT ![d] = NoWork]
    /\ job' = IF job.dev = d /\ job.step = "runs" THEN Idle ELSE job

\* A snapshot is known by its workspace, which is not modelled.
HintOf(r) ==
    IF r.of = None THEN None
    ELSE [of |-> r.of, ver |-> r.ver, hash |-> r.hash, sig |-> r.sig,
          attached |-> r.attached]

\* Only the newest record of what the device shows counts.
Newest(all, d, sig, o) ==
    LET mine == {p \in Op : all[p] # None /\ all[p].dev = d /\ all[p].sig = sig}
    IN  o \in mine /\ \A p \in mine : p <= o

\* Fault: a deployment that was only begun counts too.
Attempted(all, d, sig) == {o \in Op : Newest(all, d, sig, o)}

\* And only if the deployment was confirmed.
Matched(all, d, sig) ==
    {o \in Op : Newest(all, d, sig, o) /\ all[o].phase = "confirmed"}

\* _reconcile_observation: from the record, or what was known of the same sight.
Reconciled(all, d, sig, previous) ==
    IF Matched(all, d, sig) # {}
    THEN HintOf(all[CHOOSE o \in Matched(all, d, sig) : TRUE])
    ELSE IF previous # None /\ previous.sig = sig THEN previous ELSE None

\* A notification, a set-up or a page asks for it, at any time.
Reconcile(d) ==
    /\ d \notin gone
    /\ \E sig \in Signatures \cup {None} :
          hints' = [hints EXCEPT ![d] = Reconciled(records, d, sig, hints[d])]
    /\ hints' # hints
    /\ UNCHANGED <<library, records, disk, made, job, work, removal, gone, ops,
                   faults, history, restarts>>

\* clear_active_effect: another command was written to the device.
ClearOrigin(d) ==
    /\ d \notin gone /\ work[d] = NoWork /\ hints[d] # None
    /\ hints' = [hints EXCEPT ![d] = None]
    /\ UNCHANGED <<library, records, disk, made, job, work, removal, gone, ops,
                   faults, history, restarts>>

\* The device was seen to play it; a save that fails is a failure after all.
Confirm(d) ==
    /\ work[d].step = "running"
    /\ confirmed' = [confirmed EXCEPT ![d] = @ \cup {<<work[d].of, work[d].ver>>}]
    /\ LET r == RecordOf(d, work[d], "confirmed")
       IN  \/ /\ PutReturns(work[d].op, r) /\ Leaves(d)
              /\ hints' = [hints EXCEPT ![d] = HintOf(r)]
           \/ /\ PutRaises(work[d].op, r)
              /\ work' = [work EXCEPT ![d].step = "failing"]
              /\ UNCHANGED <<hints, job>>
    /\ UNCHANGED <<library, made, removal, gone, ops, promised, doubt, torn, stray,
                   rewritten, restarts>>

\* The origin that is put back when what the device had was restored.
PriorOrigin(d, recovered) ==
    IF recovered /\ work[d].prior # None THEN work[d].prior ELSE hints[d]

\* _async_finish_failure
Fail(d) ==
    /\ work[d].step \in {"running", "failing"}
    /\ LET r == RecordOf(d, work[d], "ended")
       IN  \/ /\ PutReturns(work[d].op, r)
              /\ \E recovered \in BOOLEAN, sig \in Signatures \cup {None} :
                    hints' = [hints EXCEPT ![d] =
                        Reconciled(records', d, sig, PriorOrigin(d, recovered))]
           \/ PutRaises(work[d].op, r) /\ UNCHANGED hints
    /\ Leaves(d)
    /\ UNCHANGED <<library, made, removal, gone, ops, history, restarts>>

-----------------------------------------------------------------------------
(* An entry is removed; Home Assistant is restarted.                       *)

\* async_remove_entry: the cache works on a copy until it is saved.
RemoveEntry(d) ==
    /\ removal = NoRemoval /\ d \notin gone
    /\ work[d] = NoWork /\ job.dev # d
    /\ gone' = gone \cup {d}
    /\ removal' = [dev |-> d, copy |-> [hints EXCEPT ![d] = None],
                   todo |-> {"hints", "records"}]
    /\ UNCHANGED <<library, records, hints, disk, made, job, work, ops, faults,
                   history, restarts>>

Dealt(what) ==
    removal' = IF removal.todo = {what} THEN NoRemoval
               ELSE [removal EXCEPT !.todo = @ \ {what}]

RemoveHints ==
    /\ "hints" \in removal.todo
    /\ Dealt("hints")
    /\ \/ /\ hints' = removal.copy /\ disk' = [disk EXCEPT !.hints = removal.copy]
          /\ UNCHANGED faults
       \/ Fault /\ UNCHANGED <<hints, disk>>
    /\ UNCHANGED <<library, records, made, job, work, gone, ops, history, restarts>>

RemoveRecords ==
    /\ "records" \in removal.todo
    /\ Dealt("records")
    /\ SaveReturns([o \in Op |->
          IF records[o] # None /\ records[o].dev = removal.dev THEN None
          ELSE records[o]]) \/ SaveRefused
    /\ UNCHANGED <<library, hints, made, job, work, gone, ops, history, restarts>>

\* async_reconcile_library_hashes: the content of that item and version.
Rehashed(all, lib) ==
    [x \in DOMAIN all |->
        IF all[x] # None /\ all[x].attached /\ lib[all[x].of] = all[x].ver
        THEN [all[x] EXCEPT !.hash = all[x].ver] ELSE all[x]]

\* async_load: a deployment that was interrupted has ended.
Interrupted(all) ==
    [o \in Op |-> IF all[o] # None /\ all[o].phase = "running"
                  THEN [all[o] EXCEPT !.phase = "ended"] ELSE all[o]]

\* Home Assistant stops at any point and starts again: async_create.
Restart ==
    /\ restarts < MaxRestarts /\ restarts' = restarts + 1
    /\ library' = disk.library
    /\ records' = Rehashed(Interrupted(disk.records), disk.library)
    /\ hints' = Rehashed(disk.hints, disk.library)
    /\ disk' = [disk EXCEPT !.records = records', !.hints = hints']
    /\ job' = Idle /\ work' = [d \in Devices |-> NoWork] /\ removal' = NoRemoval
    /\ torn' = IF job.kind = "delete" THEN torn \cup {job.item} ELSE torn
    /\ stray' = stray \cup
          {i \in Items : disk.library[i] = 0 /\ \E d \in Devices : Names(disk.hints[d], i)}
    /\ UNCHANGED <<made, gone, ops, faults, promised, doubt, rewritten, confirmed>>

Next ==
    \/ FlushHints \/ Remove \/ Reattach \/ GiveUp \/ RemoveHints \/ RemoveRecords \/ Restart
    \/ \E i \in Items : \/ Create(i)
                        \/ \E seen \in 1..MaxVersion :
                              \/ Update(i, seen) \/ Delete(i, seen)
                              \/ \E d \in Devices : TakeForApply(d, i, seen)
    \/ \E d \in Devices : \/ BeginSaved(d) \/ BeginSnapshot(d) \/ Confirm(d) \/ Fail(d)
                          \/ Reconcile(d) \/ ClearOrigin(d) \/ RemoveEntry(d)

Spec == Init /\ [][Next]_vars

-----------------------------------------------------------------------------
(* Properties.                                                             *)

(***************************************************************************)
(* The library is what callers were last answered, through saves that fail *)
(* and restarts, or what a cancelled call has written since.               *)
(***************************************************************************)
AnsweredIsKept == library \in {promised} \cup doubt

(***************************************************************************)
(* A record names an item exactly while the library has it, and no hint    *)
(* names one that is gone: through deletions, those that are rolled back   *)
(* too, and the deployments, sightings and removals meanwhile.  Excepted   *)
(* are a deletion that was cut short (cancelled in a save, ended by a      *)
(* restart, with a roll-back that failed or met a record that was gone, or *)
(* with a record on disk whose cancelled save memory has never heard of)   *)
(* and a hint put back from a copy made before: by a failed deployment of  *)
(* a snapshot, the removal of another entry, or a restart within the five  *)
(* seconds.                                                                *)
(***************************************************************************)
ReferencesResolve ==
    /\ \A o \in Op : LET r == records[o] IN
          r # None /\ r.of # None /\ r.of \notin torn =>
              \/ r.attached <=> library[r.of] # 0
              \/ job.kind = "delete" /\ job.item = r.of /\ ~r.attached
    /\ \A d \in Devices, i \in Items \ (torn \cup stray) :
          Names(hints[d], i) => library[i] # 0

\* _active_saved_effect: the library still has what the hint was made from.
Shown(d) ==
    hints[d] # None /\ hints[d].attached /\ library[hints[d].of] = hints[d].hash

(***************************************************************************)
(* What the light shows as active is an effect the device was seen to play *)
(* in just that version, through edits, failed deployments and restarts.   *)
(* Excepted is an item whose deletion was rolled back after an edit: its   *)
(* records come back with the version the item has by then, and the next   *)
(* start takes that version's content for what was deployed.               *)
(***************************************************************************)
ShownWasPlayed ==
    \A d \in Devices : Shown(d) =>
        \/ <<hints[d].of, hints[d].hash>> \in confirmed[d]
        \/ hints[d].of \in rewritten

=============================================================================

----------------------------- MODULE Deployments -----------------------------
(***************************************************************************)
(* EffectDeploymentEngine of effect_runtime.py applying effects to one     *)
(* device, with the records EffectDeploymentRepository keeps of them, the  *)
(* upload transaction of the coordinator and the restore of what the       *)
(* device showed before.                                                   *)
(*                                                                         *)
(* A call applies an operation; two calls may name the same one (a retry). *)
(* Every await is a state of its own, where the call can be cancelled and  *)
(* Home Assistant can stop.  A record is its phase and whether it holds    *)
(* the state captured before the first write.  The device shows what its   *)
(* selector points at; uploading replaces what a selector points at.       *)
(***************************************************************************)
EXTENDS Naturals

CONSTANTS
    Ops,                    \* operation ids
    Calls,                  \* calls of async_apply_saved / _snapshot
    Selectors,              \* what the device can be told to show
    Plain,                  \* the selector that nothing is uploaded to
    Selector,               \* Selector[o]: what the effect of o is shown by
    Uploads,                \* the operations that upload before they select
    Acked,                  \* those whose upload the device acknowledges
    Profiles,               \* those that apply a music or video profile
    EffectSequenceAttempts, \* tries of the upload transaction
    VerificationAttempts,   \* tries of the read-back
    MaxFaults,              \* bound: writes, reads and saves that go wrong
    MaxCancels,             \* bound: calls that are cancelled
    MaxCrashes              \* bound: stops of Home Assistant

ASSUME DeploymentsAssumption ==
    /\ Plain \in Selectors /\ Selector \in [Ops -> Selectors \ {Plain}]
    /\ Acked \subseteq Uploads /\ Uploads \subseteq Ops \ Profiles
    /\ EffectSequenceAttempts \in Nat \ {0}
    /\ VerificationAttempts \in Nat \ {0}

VARIABLES
    profile,    \* [readable, retry]: what the model of the device allows
    up,         \* Home Assistant is running
    device,     \* [on, shows, holds]: the truth about the device
    mem, disk,  \* the records: _data of the repository, and the store
    delayed,    \* a delayed save is scheduled
    saving,     \* the call that holds the lock of the repository
    lock,       \* lock[o]: the call that holds the lock of the operation
    control,    \* the call that holds the control of the device
    call,       \* what each call is doing
    faults, cancels, crashes,   \* counted against the bounds
    before,     \* history: what was shown when a call of o was admitted
    harmed,     \* history: operations whose writes changed what is shown
    seen,       \* history: operations read back as shown
    answered,   \* history: operations a caller was told are confirmed
    excused     \* history: operations whose clean-up was itself cut short

store == <<mem, disk, delayed, saving>>
bounds == <<faults, cancels, crashes>>
history == <<before, harmed, seen, answered, excused>>
vars == <<profile, up, device, store, lock, control, call, bounds, history>>

None == "none"

\* "none" stands for the absence of a call.
ASSUME NoneAssumption == None \notin Calls

Absent == [phase |-> "absent", prior |-> FALSE]
New == [phase |-> "compiling", prior |-> FALSE]
MayHaveWritten == {"uploading", "activating", "verifying", "recovering"}
Terminal == {"confirmed", "failed", "uncertain"}

Idle == [step |-> "idle", op |-> None, put |-> Absent, next |-> None,
         touched |-> FALSE, uploaded |-> FALSE, attempt |-> 1, tries |-> 1,
         reads |-> 1, error |-> None, cleaning |-> "no", sure |-> FALSE,
         result |-> None]

Look(d) == [on |-> d.on, shows |-> d.shows, body |-> d.holds[d.shows]]

Op(c) == call[c].op
At(c, step) == up /\ call[c].step = step

Init ==
    /\ profile \in [readable : BOOLEAN, retry : BOOLEAN]
    /\ up = TRUE
    /\ device \in [on : BOOLEAN, shows : Selectors,
                   holds : {[s \in Selectors |-> "original"]}]
    /\ mem = [o \in Ops |-> Absent] /\ disk = mem
    /\ delayed = FALSE /\ saving = None
    /\ lock = [o \in Ops |-> None] /\ control = None
    /\ call = [c \in Calls |-> Idle]
    /\ faults = 0 /\ cancels = 0 /\ crashes = 0
    /\ before = [o \in Ops |-> Look(device)]
    /\ harmed = {} /\ seen = {} /\ answered = {} /\ excused = {}

-----------------------------------------------------------------------------
(* What the steps share.                                                   *)

Goto(c, step) == call' = [call EXCEPT ![c].step = step]

\* A call waits in async_put, and continues at next once the record is saved.
Putting(cc, rec, next) ==
    [cc EXCEPT !.step = "put", !.put = rec, !.next = next]

Put(c, rec, next) == call' = [call EXCEPT ![c] = Putting(@, rec, next)]

Phased(o, phase) == [mem[o] EXCEPT !.phase = phase]

\* async_put(durable=False): memory now, the store within five seconds.
PutLater(o, phase) ==
    /\ saving = None
    /\ mem' = [mem EXCEPT ![o].phase = phase]
    /\ delayed' = TRUE
    /\ UNCHANGED <<disk, saving>>

Ended(cc, result) ==
    [Idle EXCEPT !.step = "done", !.op = cc.op, !.result = result]

Released(holder, c) == IF holder = c THEN None ELSE holder

\* A call returns or raises: its locks are released.
End(c, result) ==
    /\ call' = [call EXCEPT ![c] = Ended(@, result)]
    /\ lock' = [o \in Ops |-> Released(lock[o], c)]
    /\ control' = Released(control, c)

NothingToUndo(cc, rec) == ~cc.touched \/ rec.phase \notin MayHaveWritten

\* _async_finish_failure up to its first save: either nothing was written,
\* and the operation failed, or what was shown before has to be restored.
CleanedUp(cc, error, cleaning) ==
    LET rec == IF mem[cc.op] = Absent THEN New ELSE mem[cc.op]
        ct == [cc EXCEPT !.error = error, !.cleaning = cleaning, !.sure = FALSE]
    IN  IF NothingToUndo(ct, rec)
        THEN Putting(ct, [rec EXCEPT !.phase = "failed"], "end")
        ELSE Putting(ct, [rec EXCEPT !.phase = "recovering"], "restore")

CleanUp(c, error, cleaning) ==
    call' = [call EXCEPT ![c] = CleanedUp(@, error, cleaning)]

Fault == faults < MaxFaults /\ faults' = faults + 1

\* An exception at an await of the transaction, after a write was tried or
\* not; one in the handler itself is logged, and the call ends.
Raise(c, tried) ==
    IF call[c].cleaning = "handler"
    THEN /\ End(c, "raised")
         /\ excused' = excused \cup {Op(c)}
    ELSE /\ call' = [call EXCEPT ![c] =
                CleanedUp([call[c] EXCEPT !.touched = @ \/ tried],
                          "raised", "handler")]
         /\ UNCHANGED <<lock, control, excused>>

\* The device changes under the writes of the call.
Becomes(c, d) ==
    /\ device' = d
    /\ harmed' = IF Look(d) = before[Op(c)] THEN harmed \ {Op(c)}
                 ELSE harmed \cup {Op(c)}

Shows(c) == [device EXCEPT !.shows = Selector[Op(c)]]
Holds(c, body) == [device EXCEPT !.holds[Selector[Op(c)]] = body]

-----------------------------------------------------------------------------
(* A call is admitted.                                                     *)

Submit(c, o) ==
    /\ At(c, "idle")
    /\ call' = [call EXCEPT ![c].step = "locking", ![c].op = o]
    /\ UNCHANGED <<profile, up, device, store, lock, control, bounds, history>>

\* Fault: whatever became of the operation before, it is done again.
KnownNever(o) == FALSE

Known(o) == mem[o] # Absent

\* _operation_lock, and what _async_apply_serialised does with a record that
\* exists: a confirmed one is the answer, any other is an error.
Locked(c) ==
    /\ At(c, "locking") /\ lock[Op(c)] = None
    /\ IF ~Known(Op(c))
       THEN /\ Goto(c, "claiming")
            /\ lock' = [lock EXCEPT ![Op(c)] = c]
            /\ UNCHANGED <<control, answered>>
       ELSE LET confirmed == mem[Op(c)].phase = "confirmed" IN
            /\ End(c, IF confirmed THEN "confirmed" ELSE "raised")
            /\ answered' = IF confirmed THEN answered \cup {Op(c)} ELSE answered
    /\ UNCHANGED <<profile, up, device, store, bounds, before, harmed, seen,
                   excused>>

\* async_control_intent(APPLY) is entered; the record is saved first of all.
Admitted(c) ==
    /\ At(c, "claiming") /\ control = None
    /\ control' = c
    /\ Put(c, New, "prepare")
    /\ before' = [before EXCEPT ![Op(c)] = Look(device)]
    /\ UNCHANGED <<profile, up, device, store, lock, bounds, harmed, seen,
                   answered, excused>>

-----------------------------------------------------------------------------
(* async_put(durable=True) of the repository.                              *)

\* Fault: what is saved is what memory held before the record was put.
CandidateBefore(c) == mem

Candidate(c) == [mem EXCEPT ![Op(c)] = call[c].put]

\* The candidate reaches the store, atomically.
SaveReaches(c) ==
    /\ At(c, "put") /\ saving = None
    /\ disk' = Candidate(c)
    /\ saving' = c /\ delayed' = FALSE
    /\ Goto(c, "saved")
    /\ UNCHANGED <<profile, up, device, mem, lock, control, bounds, history>>

SaveRaises(c) ==
    /\ At(c, "put") /\ saving = None
    /\ Fault
    /\ Raise(c, FALSE)
    /\ UNCHANGED <<profile, up, device, store, cancels, crashes, before,
                   harmed, seen, answered>>

Result(c) == IF call[c].cleaning = "handler" THEN "raised"
             ELSE call[c].put.phase

\* The save returned: memory follows, and the call goes on.
SaveReturns(c) ==
    /\ At(c, "saved")
    /\ mem' = [mem EXCEPT ![Op(c)] = call[c].put]
    /\ saving' = None
    /\ IF call[c].next = "end"
       THEN /\ End(c, Result(c))
            /\ answered' = IF Result(c) = "confirmed"
                           THEN answered \cup {Op(c)} ELSE answered
       ELSE /\ Goto(c, call[c].next)
            /\ UNCHANGED <<lock, control, answered>>
    /\ UNCHANGED <<profile, up, device, disk, delayed, bounds, before, harmed,
                   seen, excused>>

\* async_delay_save fires.
DelayedSave ==
    /\ up /\ delayed /\ saving = None
    /\ disk' = mem /\ delayed' = FALSE
    /\ UNCHANGED <<profile, up, device, mem, saving, lock, control, call,
                   bounds, history>>

-----------------------------------------------------------------------------
(* The transaction.                                                        *)

\* The prior state is read, the slot and the geometry are valid; what is
\* shown now is captured.
Prepare(c) ==
    /\ At(c, "prepare")
    /\ Put(c, [mem[Op(c)] EXCEPT !.prior = TRUE], "begin")
    /\ UNCHANGED <<profile, up, device, store, lock, control, bounds, history>>

PrepareRaises(c) ==
    /\ At(c, "prepare")
    /\ Fault
    /\ Raise(c, FALSE)
    /\ UNCHANGED <<profile, up, device, store, cancels, crashes, before,
                   harmed, seen, answered>>

Begin(c) ==
    /\ At(c, "begin")
    /\ Put(c, Phased(Op(c), "uploading"),
           IF Op(c) \in Profiles THEN "apply" ELSE "power")
    /\ UNCHANGED <<profile, up, device, store, lock, control, bounds, history>>

\* A light that is off is switched on before its effect is uploaded.
Power(c) ==
    /\ At(c, "power")
    /\ IF device.on THEN UNCHANGED <<device, harmed>>
       ELSE Becomes(c, [device EXCEPT !.on = TRUE])
    /\ LET cc == [call[c] EXCEPT !.touched = @ \/ ~device.on] IN
       call' = [call EXCEPT ![c] =
           IF Op(c) \in Uploads THEN [cc EXCEPT !.step = "attempt"]
           ELSE Putting(cc, Phased(Op(c), "activating"), "attempt")]
    /\ UNCHANGED <<profile, up, store, lock, control, bounds, before, seen,
                   answered, excused>>

\* A write that raises: it was refused before it was tried, or was tried in
\* vain, or reached the device all the same, which is d then.
Broken(c, tried, reached, d) ==
    /\ Fault
    /\ reached => tried
    /\ IF reached THEN Becomes(c, d) ELSE UNCHANGED <<device, harmed>>

PowerRaises(c) ==
    /\ At(c, "power") /\ ~device.on
    /\ \E tried, reached \in BOOLEAN :
        /\ Broken(c, tried, reached, [device EXCEPT !.on = TRUE])
        /\ Raise(c, tried)
    /\ UNCHANGED <<profile, up, store, cancels, crashes, before, seen, answered>>

\* One try of async_write_effect_sequence; the second says so in the record.
Attempt(c) ==
    /\ At(c, "attempt")
    /\ LET phase == IF Op(c) \in Uploads THEN "uploading" ELSE "activating" IN
       IF call[c].attempt = 1 THEN UNCHANGED store ELSE PutLater(Op(c), phase)
    /\ Goto(c, IF Op(c) \in Uploads THEN "upload" ELSE "select")
    /\ UNCHANGED <<profile, up, device, lock, control, bounds, history>>

\* The packets of the upload arrive, and are acknowledged where that is asked.
Upload(c) ==
    /\ At(c, "upload")
    /\ Becomes(c, Holds(c, Op(c)))
    /\ PutLater(Op(c), "activating")
    /\ call' = [call EXCEPT ![c].step = "select", ![c].touched = TRUE,
                            ![c].uploaded = TRUE]
    /\ UNCHANGED <<profile, up, lock, control, bounds, before, seen, answered,
                   excused>>

\* The packet that selects the effect; a device may ignore it.
Select(c) ==
    /\ At(c, "select")
    /\ \/ Becomes(c, Shows(c)) /\ UNCHANGED faults
       \/ Fault /\ UNCHANGED <<device, harmed>>
    /\ PutLater(Op(c), "activating")
    /\ call' = [call EXCEPT ![c].step = "written", ![c].touched = TRUE]
    /\ UNCHANGED <<profile, up, lock, control, cancels, crashes, before, seen,
                   answered, excused>>

\* After BleakError or TimeoutError the transaction is tried again on a new
\* connection, unless the device could not bear a second upload.
MayRetry(c, uploaded) ==
    /\ call[c].attempt < EffectSequenceAttempts
    /\ uploaded => profile.retry

\* A packet of the transaction fails.
SequenceBreaks(c) ==
    /\ call[c].step \in {"upload", "select"} /\ up
    /\ \E tried, reached, lost \in BOOLEAN, body \in {Op(c), "broken"} :
        LET uploading == At(c, "upload")
            uploaded == Op(c) \in Acked
                        /\ (call[c].uploaded \/ (uploading /\ tried))
        IN  /\ Broken(c, tried, reached,
                      IF uploading THEN Holds(c, body) ELSE Shows(c))
            /\ IF lost /\ MayRetry(c, uploaded)
               THEN /\ call' = [call EXCEPT ![c].step = "attempt",
                                            ![c].attempt = @ + 1,
                                            ![c].touched = @ \/ tried,
                                            ![c].uploaded = uploaded]
                    /\ UNCHANGED <<lock, control, excused>>
               ELSE Raise(c, tried)
    /\ UNCHANGED <<profile, up, store, cancels, crashes, before, seen, answered>>

Plays(c) == [Shows(c) EXCEPT !.on = TRUE, !.holds[Selector[Op(c)]] = Op(c)]

\* _async_apply_profile: the settings of a music or video profile.
Apply(c) ==
    /\ At(c, "apply")
    /\ \/ Becomes(c, Plays(c)) /\ UNCHANGED faults
       \/ Fault /\ UNCHANGED <<device, harmed>>
    /\ call' = [call EXCEPT ![c].step = "written", ![c].touched = TRUE]
    /\ UNCHANGED <<profile, up, store, lock, control, cancels, crashes, before,
                   seen, answered, excused>>

ApplyRaises(c) ==
    /\ At(c, "apply")
    /\ \E tried, reached \in BOOLEAN :
        /\ Broken(c, tried, reached, Plays(c))
        /\ Raise(c, tried)
    /\ UNCHANGED <<profile, up, store, cancels, crashes, before, seen, answered>>

Written(c) ==
    /\ At(c, "written")
    /\ Put(c, Phased(Op(c), "verifying"), "observe")
    /\ UNCHANGED <<profile, up, device, store, lock, control, bounds, history>>

-----------------------------------------------------------------------------
(* The read-back.                                                          *)

IsShown(c) == profile.readable /\ device.on /\ device.shows = Selector[Op(c)]

\* What async_observe_effect may report: nothing, or what the device shows.
Reports(c) == {"nothing"} \cup
    (IF profile.readable THEN {IF IsShown(c) THEN "match" ELSE "mismatch"} ELSE {})

\* Fault: a read-back that says nothing passes for a match.
NotContradicted(report) == report # "mismatch"

Confirms(report) == report = "match"

\* A read-back answers.  Only a contradiction spends a try of an effect, which
\* is then selected once more; a profile is applied once more, or read again
\* where the device could not bear a second upload.
Observe(c) ==
    /\ At(c, "observe")
    /\ \E report \in Reports(c) :
        LET cc == call[c]
            isProfile == Op(c) \in Profiles
            readAgain == /\ profile.readable
                         /\ cc.reads < VerificationAttempts
                         /\ IF isProfile THEN ~profile.retry
                            ELSE report = "nothing"
            writeAgain == /\ profile.readable
                          /\ cc.tries < VerificationAttempts
                          /\ IF isProfile THEN profile.retry
                             ELSE report = "mismatch"
        IN  /\ IF report = "nothing" /\ profile.readable THEN Fault
               ELSE UNCHANGED faults
            /\ seen' = IF report = "match" THEN seen \cup {Op(c)} ELSE seen
            /\ call' = [call EXCEPT ![c] =
                CASE Confirms(report) ->
                        Putting(cc, Phased(Op(c), "confirmed"), "end")
                  [] ~Confirms(report) /\ readAgain ->
                        [cc EXCEPT !.reads = @ + 1]
                  [] ~Confirms(report) /\ ~readAgain /\ writeAgain ->
                        Putting([cc EXCEPT !.tries = @ + 1, !.reads = 1],
                                Phased(Op(c), IF isProfile THEN "uploading"
                                              ELSE "activating"),
                                IF isProfile THEN "apply" ELSE "again")
                  [] OTHER -> CleanedUp(cc, "unconfirmed", "inside")]
    /\ UNCHANGED <<profile, up, device, store, lock, control, cancels, crashes,
                   before, harmed, answered, excused>>

ObserveRaises(c) ==
    /\ At(c, "observe") /\ profile.readable
    /\ Fault
    /\ IF Op(c) \notin Profiles /\ call[c].reads < VerificationAttempts
       THEN /\ call' = [call EXCEPT ![c].reads = @ + 1]
            /\ UNCHANGED <<lock, control, excused>>
       ELSE Raise(c, FALSE)
    /\ UNCHANGED <<profile, up, device, store, cancels, crashes, before,
                   harmed, seen, answered>>

\* _async_activate
Again(c) ==
    /\ At(c, "again")
    /\ \/ Becomes(c, Shows(c)) /\ UNCHANGED faults
       \/ Fault /\ UNCHANGED <<device, harmed>>
    /\ Put(c, Phased(Op(c), "verifying"), "observe")
    /\ UNCHANGED <<profile, up, store, lock, control, cancels, crashes, before,
                   seen, answered, excused>>

AgainRaises(c) ==
    /\ At(c, "again")
    /\ \E reached \in BOOLEAN :
        /\ Broken(c, TRUE, reached, Shows(c))
        /\ Raise(c, TRUE)
    /\ UNCHANGED <<profile, up, store, cancels, crashes, before, seen, answered>>

-----------------------------------------------------------------------------
(* The restore.                                                            *)

Prior(c) == before[Op(c)]

\* Fault: what the upload put in the place of the prior effect is forgotten.
OverwrittenNever(c) == FALSE

\* The prior effect was selected by what the operation has written to.
Overwritten(c) == Op(c) \notin Profiles /\ Prior(c).shows = Selector[Op(c)]

\* Fault: only what was restored is settled.
FinalOnlyIfRestored(c, recovered) ==
    Phased(Op(c), IF recovered THEN "failed" ELSE "recovering")

Final(c, recovered) ==
    Phased(Op(c), IF recovered THEN "failed" ELSE "uncertain")

Settle(c, recovered) == Put(c, Final(c, recovered), "end")

\* Without a captured state there is nothing to restore, and without a
\* read-back nothing is when the writes went well.
NoRestore(c) ==
    /\ At(c, "restore")
    /\ \/ ~mem[Op(c)].prior
       \/ ~profile.readable /\ call[c].error = "unconfirmed"
    /\ Settle(c, FALSE)
    /\ UNCHANGED <<profile, up, device, store, lock, control, bounds, history>>

Restoring(c) ==
    /\ At(c, "restore")
    /\ mem[Op(c)].prior
    /\ profile.readable \/ call[c].error # "unconfirmed"

\* What the appearance came to; a device that was off is switched off again.
Appeared(c, restored) ==
    IF Prior(c).on THEN Settle(c, restored)
    ELSE call' = [call EXCEPT ![c].step = "turnOff", ![c].sure = restored]

\* The state captured cannot be reproduced.
RestoreRefused(c) ==
    /\ Restoring(c)
    /\ Overwritten(c)
    /\ Appeared(c, FALSE)
    /\ UNCHANGED <<profile, up, device, store, lock, control, bounds, history>>

\* What a mode shows are its settings, which are written with it; what a slot
\* shows is in the device only.
IsMode(s) == \E o \in Profiles : Selector[o] = s

Restored(c) ==
    LET p == Prior(c) IN
    [device EXCEPT !.on = TRUE, !.shows = p.shows,
                   !.holds[p.shows] = IF IsMode(p.shows) THEN p.body ELSE @]

RestoreWrites(c) ==
    /\ Restoring(c) /\ ~Overwritten(c)
    /\ \/ Becomes(c, Restored(c)) /\ UNCHANGED faults
       \/ Fault /\ UNCHANGED <<device, harmed>>
    /\ Goto(c, "readBack")
    /\ UNCHANGED <<profile, up, store, lock, control, cancels, crashes, before,
                   seen, answered, excused>>

\* A write of the restore raises; a device that was off is switched off.
RestoreRaises(c) ==
    /\ Restoring(c) /\ ~Overwritten(c)
    /\ \E reached, off \in BOOLEAN :
        LET d == IF reached THEN Restored(c) ELSE device IN
        /\ Fault
        /\ Becomes(c, IF off /\ ~Prior(c).on THEN [d EXCEPT !.on = FALSE] ELSE d)
    /\ Settle(c, FALSE)
    /\ UNCHANGED <<profile, up, store, lock, control, cancels, crashes, before,
                   seen, answered, excused>>

ReadsBack(c) ==
    LET p == Prior(c) IN
    /\ profile.readable /\ device.on /\ device.shows = p.shows
    /\ IsMode(p.shows) => device.holds[p.shows] = p.body

\* The read-back of the restored appearance; it may be incomplete.
ReadBack(c) ==
    /\ At(c, "readBack")
    /\ \E fresh \in BOOLEAN :
        /\ IF fresh THEN UNCHANGED faults ELSE Fault
        /\ Appeared(c, fresh /\ ReadsBack(c))
    /\ UNCHANGED <<profile, up, device, store, lock, control, cancels, crashes,
                   history>>

TurnOff(c) ==
    /\ At(c, "turnOff")
    /\ \/ Becomes(c, [device EXCEPT !.on = FALSE]) /\ UNCHANGED faults
       \/ Fault /\ UNCHANGED <<device, harmed>>
    /\ Goto(c, "readOff")
    /\ UNCHANGED <<profile, up, store, lock, control, cancels, crashes, before,
                   seen, answered, excused>>

TurnOffRaises(c) ==
    /\ At(c, "turnOff")
    /\ \E reached \in BOOLEAN :
        Broken(c, TRUE, reached, [device EXCEPT !.on = FALSE])
    /\ Settle(c, FALSE)
    /\ UNCHANGED <<profile, up, store, lock, control, cancels, crashes, before,
                   seen, answered, excused>>

ReadOff(c) ==
    /\ At(c, "readOff")
    /\ \E fresh \in BOOLEAN :
        /\ IF fresh THEN UNCHANGED faults ELSE Fault
        /\ Settle(c, fresh /\ profile.readable /\ ~device.on /\ call[c].sure)
    /\ UNCHANGED <<profile, up, device, store, lock, control, cancels, crashes,
                   history>>

-----------------------------------------------------------------------------
(* Cancellation, and stops of Home Assistant.                              *)

Awaiting == {"locking", "claiming", "put", "saved", "prepare", "power",
             "attempt", "upload", "select", "apply", "observe", "again",
             "restore", "readBack", "turnOff", "readOff"}

\* CancelledError at the await of a call.
Cancel(c) ==
    /\ up /\ call[c].step \in Awaiting
    /\ cancels < MaxCancels /\ cancels' = cancels + 1
    /\ saving' = Released(saving, c)
    /\ IF call[c].step = "locking" \/ call[c].cleaning = "handler"
       THEN /\ End(c, "raised")
            /\ excused' = IF call[c].cleaning = "handler"
                          THEN excused \cup {Op(c)} ELSE excused
       ELSE /\ CleanUp(c, "cancelled", "handler")
            /\ UNCHANGED <<lock, control, excused>>
    /\ UNCHANGED <<profile, up, device, mem, disk, delayed, faults, crashes,
                   before, harmed, seen, answered>>

Crash ==
    /\ up /\ crashes < MaxCrashes
    /\ up' = FALSE /\ crashes' = crashes + 1
    /\ mem' = [o \in Ops |-> Absent] /\ delayed' = FALSE /\ saving' = None
    /\ lock' = [o \in Ops |-> None] /\ control' = None
    /\ call' = [c \in Calls |-> IF call[c].step = "idle" THEN Idle
                                ELSE Ended(call[c], "lost")]
    /\ UNCHANGED <<profile, device, disk, faults, cancels, history>>

\* What async_load makes of a phase that was interrupted.
Loaded(phase) ==
    IF phase = "compiling" THEN "failed"
    ELSE IF phase \in MayHaveWritten THEN "uncertain" ELSE phase

Restart ==
    /\ ~up /\ up' = TRUE
    /\ mem' = [o \in Ops |-> [disk[o] EXCEPT !.phase = Loaded(@)]]
    /\ disk' = mem'
    /\ excused' = {}
    /\ UNCHANGED <<profile, device, delayed, saving, lock, control, call,
                   bounds, before, harmed, seen, answered>>

-----------------------------------------------------------------------------
Works(c) ==
    \/ Locked(c) \/ Admitted(c)
    \/ SaveReaches(c) \/ SaveRaises(c) \/ SaveReturns(c)
    \/ Prepare(c) \/ PrepareRaises(c) \/ Begin(c)
    \/ Power(c) \/ PowerRaises(c)
    \/ Attempt(c) \/ Upload(c) \/ Select(c) \/ SequenceBreaks(c)
    \/ Apply(c) \/ ApplyRaises(c) \/ Written(c)
    \/ Observe(c) \/ ObserveRaises(c) \/ Again(c) \/ AgainRaises(c)
    \/ NoRestore(c) \/ RestoreRefused(c) \/ RestoreWrites(c)
    \/ RestoreRaises(c) \/ ReadBack(c)
    \/ TurnOff(c) \/ TurnOffRaises(c) \/ ReadOff(c)

Next ==
    \/ \E c \in Calls : \/ \E o \in Ops : Submit(c, o)
                        \/ Works(c)
                        \/ Cancel(c)
    \/ DelayedSave
    \/ Crash \/ Restart

Spec == Init /\ [][Next]_vars

-----------------------------------------------------------------------------
(* Correctness.                                                            *)

Records == [phase : {"absent", "compiling", "confirmed", "failed", "uncertain"}
                    \cup MayHaveWritten, prior : BOOLEAN]

TypeOK ==
    /\ profile \in [readable : BOOLEAN, retry : BOOLEAN]
    /\ up \in BOOLEAN /\ delayed \in BOOLEAN
    /\ device \in [on : BOOLEAN, shows : Selectors,
                   holds : [Selectors -> Ops \cup {"original", "broken"}]]
    /\ mem \in [Ops -> Records] /\ disk \in [Ops -> Records]
    /\ saving \in Calls \cup {None} /\ control \in Calls \cup {None}
    /\ lock \in [Ops -> Calls \cup {None}]
    /\ harmed \subseteq Ops /\ seen \subseteq Ops /\ answered \subseteq Ops

\* An operation that is recorded as failed left the device as it found it:
\* nothing of it was written, or what was shown before was written and read
\* back.  This holds of what memory says, of what a restart makes of the
\* store, and for every await at which a write, a save or the call is cut off
\* (_async_finish_failure, async_load).
FailedIsHarmless ==
    \A o \in Ops : /\ mem[o].phase = "failed" => o \notin harmed
                   /\ ~up /\ Loaded(disk[o].phase) = "failed" => o \notin harmed

\* A confirmed operation was read back from the device, however often its
\* writes and reads were repeated (_async_verify); no answer is not a yes.
ConfirmedWasSeen ==
    \A o \in Ops : mem[o].phase = "confirmed" \/ disk[o].phase = "confirmed"
                   => o \in seen

\* What a caller was told is confirmed stays so in the store, over delayed
\* saves, later operations, retries and restarts (async_put).
AnswerSurvives == \A o \in answered : disk[o].phase = "confirmed"

\* A call that ended leaves no record in a phase of work, unless its clean-up
\* was itself cancelled or could not be saved: the restart settles that one.
EndsTerminal ==
    \A o \in Ops :
        up /\ mem[o] # Absent /\ o \notin excused
           /\ (\A c \in Calls : Op(c) = o => call[c].step \in {"done", "locking"})
        => mem[o].phase \in Terminal

\* An operation that was confirmed is not written again: a retry with its id
\* is given the answer (_async_apply_serialised).
ConfirmedOnce ==
    [][\A c \in Calls : ~call[c].touched /\ call'[c].touched
                        => Op(c) \notin answered]_vars
=============================================================================

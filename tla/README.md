# A formal model of the Govee LED BLE integration

`ha-govee-led-ble` is a Home Assistant integration that drives Govee lights over
Bluetooth LE.  Everything in it runs on one asyncio event loop, and nearly all of
what is hard about it comes from there: tasks that suspend in the middle of a
transaction, callbacks of a Bluetooth stack that arrive late, cancellations,
replies that are lost, and users who ask for something else meanwhile.  This
directory holds TLA+ models of the parts where that matters, the TLC
configurations that check them, and theorems that TLAPS proves about all of
them.  `custom_components/ha_govee_led_ble/` is meant whenever a file is named
without a directory.  `PROJECT.json` maps every definition to its source lines.

## The system

### How the parts interact

```
 entities (light, select, ...)      Effect Studio panel (frontend, WebSocket)
      |  LatestRequests                    |  queue / cancel / close a preview
      v                                    v
 GoveeBLECoordinator  <---- leases, ---- EffectPreviewManager
      |   the task that holds control      (one worker per device)
      |   = BLEControlArbiter
      v
 connection: resolve, establish, select and negotiate encryption, subscribe,
             keep alive, idle timer, disconnect
      |  every frame: encode -> ReplyGate -> GATT write
      v
 the device --- notifications ---> receive closure -> decode -> ReplyGate,
                                   expectations, state
```

* An entity setter queues in `LatestRequests`; its turn calls the coordinator.
* Whoever talks to the device takes `BLEControlArbiter` with an intent:
  BACKGROUND < PREVIEW < APPLY < USER.  A foreground intent (APPLY, USER) also
  withdraws the admission of the preview in progress.
* The holder makes the connection when there is none; a command and a poll
  renew its lease, a timer, an error, the device or Home Assistant ends it.
* Setting a connection up selects and negotiates encryption; afterwards each
  frame passes the session's `encode` and the `ReplyGate`.
* A transaction of the coordinator writes, asks and waits for revisions that
  the notifications bring; the replies name no question.
* The deployment engine takes the control for a whole application: capture,
  upload, select, read back, and on failure restore; each phase is a record in
  a repository that survives a restart.
* The library holds the saved effects.  A deployment's record names the item and
  version it was made from, and the device's hint names what is active; both are
  in stores of their own, and a deletion has to go through all three.
* A DreamView centre takes its members' devices over: their config entries are
  claimed in a journal, disabled, and their coordinators let their links go.

### Inventory

For each component: its state, its operations, what is hard, what makes it
correct, and where it is modelled.

| Component | State | Operations | Hard because | Correct when | Modelled |
|---|---|---|---|---|---|
| Device control arbiter (`control_arbiter.py`) | owner, depth, intent stack, waiters, sequence, preview generation | hold (nested), release, admit and invalidate previews | a notified waiter runs later, or is cancelled first | one holder, in order of intent and arrival; nobody sleeps beside a free device; an admission is exact | `ControlArbiter`, `PriorityLock` |
| Reply pacing (`reply_pacing.py`) | pending key, deadline, event, answered and silent keys | arm, sent, abort, observe, wait, reset | late, lost and early replies; writes that fail or outlive their subscription | silence is learned only from real silence, and never of a command that answered | `ReplyGate` |
| Latest requests (`control_arbiter.py`, `entity.py`) | newest token per control, lock queue | run, skip, end, cancel | tokens removed by requests that end early | a request is skipped only for a newer one | `LatestRequests` |
| Light entity (`light.py`) | `_pending_turn_on` | turn_on, turn_off, other setters | the buffer outlives its call | the mode of one call, once, nothing from before an off | `LightRequests` |
| Live previews (`effect_preview.py`) | sessions, worker record, verification, health, blocked devices | queue, cancel, close, expire, transmit, read back, supersede, check health, unload, shut down | the worker suspends between its stages and anything cuts in | latest wins, once; answers are true, final and given | `EffectPreview` |
| Connection (`coordinator.py`) | client, token, session, idle timer, keep-alive, closing, initializing | ensure, connect, disconnect, write, query, retry, callback, shutdown, hand-over | every await can lose the link; callbacks come after a reconnect | no forgotten link, every link leased, every write for the current one | `Connection` |
| Encryption session (`govee_encryption/session.py`) | version, keys, counters, evidence, future | select, negotiate, encode, decode, reset | evidence and frames arrive during the set-up | no fall-back to plaintext, keys confirmed, nonces and frames used once | `EncryptionSession` |
| Write and query transactions (`coordinator.py`) | the transaction, its link, incomplete queries | send_command, state and segment queries, set a bar, observe, poll | replies carry no query id; a query is abandoned half way | what returns as done has been done | `Readback`, in part |
| Notifications and expectations (`coordinator_notifications.py`, `coordinator_expectations.py`, `coordinator_status.py`) | armed expectations, revisions | arm, observe, expire | a reply to an earlier question comes after a command | a command is not contradicted by what was asked before it | `Readback`, in part |
| Refresh, modes, segments (`coordinator_refresh.py`, `coordinator_modes.py`, `coordinator_segments.py`) | segment pages so far, source of the picture | collect, publish, paint, confirm | pages of two reads mix | an observed picture is the device's | `Readback`, in part |
| Effect recovery (`coordinator_recovery.py`) | prior control state | capture, restore, read back | the restore fails half way, or restores a slot that was overwritten | what is claimed restored was read back | `Deployments` |
| GATT recovery (`ble_connection.py`) | addresses whose cache is stale | establish, bootstrap, clear | three awaits with deadlines of their own | one link at most, recovery stays pending until ready | not modelled: one step of `Connection` that succeeds or fails |
| DreamView (`coordinator_dreamview.py`, `dreamview*.py`) | claims, the entries' disabled state | claim, release, restore after restart | two stores and a crash between them | a grouped member is claimed and let go, and a disabled one is enabled again | `DreamviewClaims`; one hand-over is in `Connection` |
| Deployments (`effect_deployments.py`, `effect_runtime.py`) | records in memory and on disk, locks, what the device shows | apply, save, verify, fail, restore, load | a stop, a cancellation or a save that fails at any await | a record never claims more, or less, than happened | `Deployments` |
| Effect library and per-device state (`effect_storage.py`, `effect_store.py`, `effect_identity.py`, `effect_application.py`, ...) | versioned documents, hints | create, update, delete with roll-back, detach, reattach, reconcile | three stores, each of whose saves fails alone, and calls that hold no lock | what was answered is there, references resolve, what is shown is played | `EffectLibrary`, in part |
| Transport framing (`transport.py`, `protocol_core.py`) | none | split, checksum, reassemble | lengths at the boundaries | reassembly inverts splitting | not modelled: no state |
| Effect Studio panel (`frontend/src`) | request tokens, drafts | load, save, preview | answers race the next action | the screen shows the newest answer | not modelled: another program, in the browser |
| WebSocket API and services | none of its own | validate, call | | | not modelled: no state |
| Effect compiler, model protocols, catalogues | none | translate to packets | byte layouts | agreement with captures | not modelled: no state machine, and the repository's own tests compare with captures |
| Entities, config flow, diagnostics, tools | little | | | | not modelled: thin callers and reports |

## Modules

| Module | What it is |
|---|---|
| `PriorityLock` | what the arbiter promises, without notifications and wake-ups |
| `ControlArbiter` | the arbiter; refines `PriorityLock` (`Abstract == INSTANCE ... WITH`) |
| `ReplyGate` | the gate and the write path that drives it |
| `LatestRequests` | the queue of entity requests |
| `LightRequests` | `EXTENDS LatestRequests` with the merge buffer of the light entity |
| `ControlProofs` | theorems about the arbiter, its refinement included, and both queues |
| `EffectPreview`, `EffectPreviewProofs` | the preview manager for one device; theorems |
| `Connection`, `ConnectionProofs` | the connection of one coordinator; theorems |
| `EncryptionSession`, `EncryptionSessionProofs` | the session, driven by the connection set-up; theorems |
| `Readback` | the transactions of the coordinator and what replies make of its picture |
| `ReplyProofs` | theorems about `ReplyGate` and `Readback` |
| `Deployments`, `DeploymentsProofs` | the deployment engine, its records, the upload, the restore; theorems |
| `DreamviewClaims`, `DreamviewClaimsProofs` | the claims of DreamView groups over two stores; theorems |
| `EffectLibrary`, `EffectLibraryProofs` | saved effects, and the records and hints that refer to them; theorems |
| `MC*` | instances for TLC: nothing but symmetry sets and model constants |

Some definitions carry a comment that begins with "Fault:".  They are mutated
forms of the definition below them, used by no specification: substituting one
must make the property named beside it in `PROJECT.json` fail, which shows that
the property can fail.

### How the modules correspond to the code

**Atomicity.**  asyncio switches tasks only at an `await` that suspends, so the
code between two such awaits is one action.  What happens at an await is
explicit: a notified or cancelled task is only *marked*, and runs in a later
action.  Locks that no code holds across an await are left out.

**`ControlArbiter`.**  Variables are the fields of `BLEControlArbiter`.  A task
inside `Condition.wait_for` is in `suspended`; `notify_all` puts all of them in
`woken`, `Task.cancel()` puts one in `cancelling`, and the three `Resume`
actions are what the loop does with it then.  `_acquire` has four outcomes
(`AcquireNested`, `AcquireAtOnce`, `AcquireQueued`, `AcquireRefused`), each
with the invalidation of previews by a foreground intent that precedes them.

**`ReplyGate`.**  Time is one bit: has the deadline of the pending reply passed.
The writer is the coordinator's only write path (`_async_write_packet`), with
the GATT write as an await of its own; a reply may come while the frame is
still being written, after the timeout, after a later frame, or never.

**`LatestRequests`, `LightRequests`.**  A request is named by its place in the
order of arrival, which is also its token.  The lock is asyncio's: first come,
first served, and a newcomer takes a free lock only when nobody queues.  A
`turn_on` comes with any set of attributes, several modes at once included; an
attribute's value is represented by the request that asked for it.

**`EffectPreview`.**  A request is named by its generation.  The worker is at
one of the awaits of `_async_device_worker` and `_async_execute_request`
(`step`), its verification task has a delay and a read-back, and a health
check has its own
read.  `admit_preview` increments the arbiter's generation, hence only the
newest admission is current; `lapsed` is that fact.  One device is modelled:
what two devices share in the manager is its sessions and its stop flag.

**`Connection`.**  `job` is the task that holds control, at one of its awaits or
(in `Running`) in synchronous code, during which nothing else moves.  It is a
command, a poll, the preflight of a preview, the task of the idle timer,
`_disconnect_if_current`, the keep-alive, the shutdown or a hand-over.  `up` is
the truth about the radio; `owed` are the disconnected callbacks that are still
to run.  A preflight clears the client when the connection fails, and a task of
its own disconnects that link (`cleaning`); `spilt` are the links it dropped so
under a claim.  The hand-over to a DreamView centre goes through the stages no,
claimed, noted, closing and then released or refused, and undone.  Restricted to
a profile that reads its state over notifications; `RuntimeError` of
`disconnect()` counts as `BleakError`.

**`EncryptionSession`.**  Ciphers are data: a frame is named by what it says and
a key by the link it was negotiated on; the random part of the nonce is the
link's.  "The generation is still the one I captured" is one bit.  Version 1
data frames have no counter and so no state; they are left out.  The teardown
after a failed set-up is one step.

**`Readback`.**  `op` is the one transaction that holds the control, at one of
its awaits: a power command, a paint, the setting of a bar, a refresh, an
observation or a keep-alive poll.  `wire` are replies on their way, each with
the subscription it will come on and the number of the question it answers, a
number the code does not have; only properties and the window of expectations
look at it.  A revision beyond a baseline is membership in a set of fresh
fields.  An observation's wait is outside the control, hence `watch`.  A group
of segments is what one page of the query shows.  Links are made and lost as in
`Connection`; here they are numbers.  A link on which a segment query was
abandoned, or that has been silent for too long, is given up when a transaction
next needs one, and the transaction goes on over a new one (`Relink`, the
reconnection in `_ensure_connected`).

**`Deployments`.**  A call of `async_apply_saved` or `async_apply_snapshot` is at
one of the awaits of the engine (`call[c].step`), with the lock of its
operation, the lock of the repository and the control taken in the code's
order.  `mem` and `disk` are the repository's data and its store; saving
durably is three steps (the store has it, or raises, or returns), so that a
cancellation may fall between them.  The device shows what its selector points
at, and an upload replaces what a selector points at, which is why restoring a
selector does not always restore what was seen.  `harmed`, `seen` and
`answered` record what really happened.

**`DreamviewClaims`.**  `entry` is a member's `disabled_by` together with who did
it: "off" by the user, "taken" by a centre whose claim says so, "late" by its
user while a claim or release that owes its enabling stands, "unrecorded" by a
centre whose claim does not say so.  A member its user has enabled while it was
claimed is "reenabled" until the entry's guard has recorded that.  `links` tells
apart what the code can see: a connection of the coordinator in `runtime_data`
("held"), one that is up though no coordinator knows of it, because its
`disconnect()` failed or the entry was unloaded ("stray"), and one that the
hand-over found it could not end ("refused").  A restart ends them all.
`stored` is what Home Assistant's own store has of entries, saved by it whenever
it likes, and `storedClaims` the claims store; a restart reads both.  A service
on a centre goes through `op[c].step`; its beginning and its claims are one step
(`Replace`), for nothing shows in between, and claims that are refused or not
saved change nothing.  A release is a job of its own, begun by a service, the
removal of a centre, the guard of an entry or the recovery after a restart.

**`EffectLibrary`.**  `job` is the call that holds the lock of library mutations:
a deletion, through its three stores, or the application of a saved effect.
`work[d]` is the deployment on a device, of a saved effect or a snapshot, and
`removal` an `async_remove_entry`; neither of the last two holds the lock.
`disk` has the three stores.  A save returns, is refused, or is cancelled, and a
cancelled one has reached the disk while memory has not changed.  A record's
number is the order of its `updated_at`.  `promised`, `doubt`, `torn`, `stray`,
`rewritten` and `confirmed` record what really happened.

## Runs

Each takes under five minutes with two workers, a third of them under one.  "States"
are distinct states.  Deadlock is not checked where requests are bounded or the
system is meant to stop; it is checked in `encryption_session`, where another
connection or advertisement is always possible.

| Run | Bounds | States | What it shows |
|---|---|---|---|
| `arbiter` | 3 tasks, 4 intents, depth 2, 3 queued requests, 2 generations | 44,806 | nested holds keep the highest intent, no lost wake-up, admissions exact, everyone served, and the arbiter implements `PriorityLock` with its liveness |
| `reply_gate` | 2 keys and unpaced frames | 21,953 | what answered stays paced, and silence is earned |
| `light_requests` | 4 requests, 2 controls, any set of 2 modes and a brightness | 645,136 | skipped only for a newer one, and tokens are the newest; merged attributes are the mode of one call, written once, withdrawn by off |
| `preview_requests` | 2 sessions, 3 requests, retries of one sequence, foreground commands | 2,780,238 | one live copy of a retried sequence; answers are given, final and true |
| `preview_entry` | 1 session, 2 requests, 2 sequences, unload, stop, health check | 483,912 | nothing begins after a stop; requests, unload and shutdown end |
| `connection_use` | 2 links, 1 command, poll or preflight, both modes, cancellation, silence, unload, hand-over | 2,888,449 | no stray link or keep-alive, set-ups undone as a whole, writes current, leases honoured, hand-over real |
| `connection_live` | 2 links, 1 command, poll or preflight, release mode, unload, stop | 165,993 | an idle link closes, control is given back |
| `encryption_session` | counters to 4, 3 links, 3 frames per link | 72,414 | no plaintext beside evidence, keys confirmed, nonces and frames used once, set-up bounded |
| `deployments` | 3 operations (authored, built-in with the same slot, music), 2 calls, 2 tries of upload and read-back, 2 faults, 1 cancellation, 1 stop | 3,339,882 | a failed operation is harmless, a confirmed one was read back, an answer survives, every call ends its record, no answered operation is written again |
| `readback` | 3 transactions, 2 bars, 2 pages, 2 colours, 2 tries, 1 failed or ignored write, 1 lost link | 4,396,838 | a confirmed control happened, an observed picture is whole, a bar keeps its sibling, late replies contradict nothing |
| `dreamview_claims` | 2 centres, 2 members, 3 services, 1 fault, 1 restart, 1 change by hand | 2,226,352 | no group is used beside a connection to a member that the code has seen, whoever may be grouped is claimed, whoever was disabled is recorded but for two exceptions, and what the user turned off stays off |
| `effect_library` | 1 saved effect, 2 devices, 2 signatures, 2 deployments, 2 versions, 1 fault, 1 restart | 2,126,018 | answered changes stay, records and hints name what exists, and a light shows only what its device was seen to play |

### Why the bounds are enough

* *Arbiter.*  The races need a holder, a notified waiter and a newcomer: three
  tasks.  Two more would only lengthen the queue, in which only the first
  waiter matters.  The safety part is proved for any number.
* *Reply gate.*  A reply belongs to one key or to another one.  Proved for all.
* *Light.*  Four requests are a running one, a replaced one, its replacement,
  and one that comes after a cancellation.
* *Previews.*  Three requests are one written, one read back and one waiting;
  a second session shows that one does not answer for the other.
* *Connection.*  Two links are an old one whose callback is late and its
  successor; three retries and the timer use the same two.  One command, poll or
  preflight suffices because only one job holds control; the others wait outside
  the fields.  With two of them `connection_use` passes as well (12,446,792
  states), and three links are beyond a five-minute run; the proofs have no bound.
* *Encryption.*  Three links show that a nonce survives two resets; the counter
  starts at 2, so that 4 leaves three sealed frames and then refuses, as the
  code does at its last counter.
* *Deployments.*  A retry and a second operation are two calls; two faults are
  one that spoils the deployment and one in the second try or the clean-up, in
  which the cancellation and the stop may fall too.  Two operations share a slot,
  so that an upload overwrites what the other one showed.
* *Readback.*  A late reply needs the transaction that asked, the one that
  changed the device and the one that reads: three.  Two pages are enough for
  a picture of two queries, two bars for a sibling.  The code tries a command
  three times; each try after the second is like the second.
* *DreamView.*  Two centres want the same member while another is in the group
  or leaves it; two services and the delete that follows; one crash in between.
* *Library.*  Two devices are one whose deployment races the deletion and one
  whose entry is removed; two versions make a roll-back restore another one.
  With one device, three faults and two restarts were checked as well.

Bounds are constants of the modules and guards of the actions that create
something (requests, links, calls, waiters, generations, frames).

### Fairness, and why the code justifies it

* The event loop resumes every task that is ready: weak fairness of each resume
  step, of timers and of callbacks.
* Every await of a transaction has a timeout (connecting, the handshake, GATT
  writes through the stack, read-backs): weak fairness of the steps that end it.
* `ReleaseLast` of the arbiter is strongly fair: a transaction opens and closes
  finitely many nested holds before its last release.  Only finitely many
  requests arrive (`MaxSequence`); an endless stream of USER requests may
  starve BACKGROUND ones, by design.
* In `Connection` the firing of the idle timer, the task it starts and the
  shutdown's closing step are strongly fair.  Such a task gives way to a job in
  control and restarts the timer; since the period of the keep-alive is longer
  by the time its queries take, the two cannot keep pace for ever.
* Nothing is assumed of users, the device, the radio, other integrations or
  Home Assistant: nobody has to ask, answer, cancel, drop or stop.
* `ReplyGate`, `LatestRequests`, `LightRequests`, `Readback`, `Deployments`,
  `DreamviewClaims` and `EffectLibrary` state safety only, and no fairness.

## Proofs

TLAPS checks 12,918 obligations in eight modules.  The theorems hold for every
value of the constants: any number of tasks, requests, sessions, links, calls,
members, items, faults, cancellations and restarts.  They assume what the modules
assume of their constants and no more: bounds are natural numbers, a "nobody"
(`NoTask`, `NoKey`, `None`) is nobody, an attribute either is a mode or is not,
"power" is not the name of a page, nothing is uploaded to the plain selector,
there are two bars, and what is tried is tried at least once.

All proofs have the same shape.  What a run checks is seldom inductive, because
it compares two ends of something in progress.  The invariant adds what is true
wherever a task stands between them; TLC has checked each invariant before it
was proved.  A step of the proof is an action, in the order of `Next`.

**`ControlProofs`.**  *Arbiter.*  `IInv` is `TypeOK`, `HolderAgreement`,
`QueueAgreement`, `NoLostWakeup`, `ActiveIntentIsHighest`, `AdmissionExact`, and
two facts without which it would not be inductive: every sequence number in a
waiter has been issued, and so has every generation that was handed out.  From it
follow type correctness, mutual exclusion (a release never raises), the agreement
of queue and parked tasks, the absence of lost wake-ups, the intent of nested
holds, exact admissions, and `Refines`: `SafeSpec` implies `PriorityLock`'s
`SafeSpec`, one step at a time.
*Requests.*  `QueueInv` says that the queue is in
the order of arrival and that whoever is in it or was skipped has its token or
was replaced by a newer one, and that a token belongs to a request that has not
ended; from it follow `LastWordIsSent` and, since nobody then stands in the queue
twice, that a request is in the queue exactly while it waits.  `LightInv` adds
whose attributes are in the merge buffer, that the modes in it are those of one
call and all of them, and that none is older than the last `off`, and gives
`MergedIsCurrent`.  `LightImplements` shows that `LightRequests` does to the
queue only what `LatestRequests` allows.

**`ReplyProofs`.**  *Gate.*  What is pending is not silent, an expired deadline
of a completed write makes its key ripe, a writer whose subscription changed left
nothing pending, a reply under way belongs to a command that was written, and
what was heard was recorded.  This gives `AnsweredStaysPaced`, `SilenceEarned`
and `EventFaithful`.
*Transactions.*  The argument is about what may still come
on the link in use.  Pages may come only while a query is open, during which no
command changes the device, since a transaction that finds it open goes on over
another link; they are pages the query has not got, and what it has got is true
(`PagesInv`).  The bars come once, to the read that waits for them (`BarsInv`).  A
power that is not true any more was asked for before the expectation that rejects
it (`PowerInv`).  This gives `PicturesAreWhole`, `OkIsTrue`,
`ContradictionIsReal` and `SiblingKept`.

**`EffectPreviewProofs`.**  A record holds up to three generations, and they are
ordered: what waits is the newest, and nothing is read back beside something
that waits or is written (`RecordInv`).  The rest compares the worker with what
its session was told: it can still tell the session of its request, unless that
heard of an end already (`AnswerInv`); what was called cancelled is among the
cancelled ones, or its admission does not hold (`FinalInv`); a retry of what is
under way is acknowledged, or falls under the exception named below (`CopyInv`);
and who waits for the worker to end has seen to it that it gets nothing more
(`StopInv`).  This gives `OnceOrAnswered`, `CancelledIsFinal`,
`ConfirmedIsOnDevice` and `NothingBeginsAfterStop`.

**`ConnectionProofs`.**  Where the job stands says what the coordinator's fields
are, for instance that no keep-alive task is current during a set-up
(`SetupInv`).  Every link that is up is the client's, the teardown's, or given
up, and its callback is not due (`LinkInv`).  A keep-alive task other than the
current one has been cancelled, or has control (`LoopInv`).  A coordinator that
is shut down has a link only for a job that will take it down (`EndInv`).  This
gives `NothingIsLeft`, `LetGoIsReal`, `WritesAreCurrent` and `LeaseIsHonoured`,
and with `TimersInv` that no idle timer runs in hold mode.

**`EncryptionSessionProofs`.**  The strengthening follows the set-up: at rest
nothing is pending; while a version is being chosen nothing is ready; no request
has been made before the exchange; during it the opcode says which answer is
awaited; nonces from the counter on and frames above the received counter are
unused.  It gives type correctness, `PlaintextNeedsNoEvidence`,
`ReadyIsConfirmed`, `NonceIsFresh` and `FrameIsTakenOnce`.

**`DeploymentsProofs`.**  A call writes only when its record says, in memory and
in the store, that it may have written (`RecordInv`).  Once it has, it keeps the
control until its record is terminal or it is lost with the process, so nobody
else changes the device under it (`TouchInv`, `ControlInv`), and what a selector
pointed at that is not the call's own is still there (`DeviceInv`).  Hence a
restore that was read back has restored (`RestoreInv`).  `OpInv` says what the
record of an operation then means after any save, failure or restart.  This
gives `FailedIsHarmless`, `ConfirmedWasSeen`, `AnswerSurvives`, `EndsTerminal` and
`ConfirmedOnce`.

**`DreamviewClaimsProofs`.**  `IInv`: claims are on disk before they act; what
its user turned off is so in Home Assistant's store; and nobody who is off by
hand is owed an enabling, by a claim in memory, one on disk, or a release under
way. `GInv`: who is in the group of a centre that stays is held by it and has no
connection that the code has seen, and during a service this is so of those the
service remembers to have handed over or to have had before.  `OInv`: a release
agrees with the claims it found, as long as these stand, and forgets a claim only
when its member is enabled and that is saved; what was done by hand is on disk;
and a claimed member that is on without its user having enabled it since was on
when it was claimed.  Releases, which come from four places, have one lemma.
This gives `OffIsKept`, `GroupedIsClaimed`, `NoContention` and `OwedIsRecorded`.

**`EffectLibraryProofs`.**  Records and hints are copied a lot: into memory, to
disk, into a deployment that may put its copy back, into a removal.  `IInv` says
of every such copy that it is true of what its device was seen to play; that a
deployment of a saved effect holds the lock, so that no deletion runs beside it
(`WorkIsLocked`); and that what a deletion detached is of its item
(`HeldIsOfItem`), which is what makes putting it back true.  It gives
`ShownWasPlayed`, and with the same statement about the disk `AnsweredIsKept`.
`RInv` says of every copy whether its item is there: during a deletion the
item's records are those it detached, so that a roll-back attaches them all, and
a hint outlives its item only as a copy that someone holds (`stray`).  It gives
`ReferencesResolve`.

`HolderAgreement`, `QueueAgreement`, `EventFaithful` and the type invariants are
proved for every instance and are not repeated in a run.

**Only model-checked:** the liveness properties `WaitersServed`,
`PriorityLockLive`, `WorkerSettles`, `UseComesToAnEnd` and `SetUpIsBounded`.
Liveness under fairness and `ENABLED` are beyond the prover, and so is induction
over data.

## What the checks found

Building and checking the models brought out the following behaviours, which the
models have as the code does, and which the properties name as exceptions or
leave open.  The first of the connection and the first two of DreamView are at
odds with what a comment or docstring beside the code intends.  No run is made to
fail over any of them.

Requests:

* The newest queued request of a control is not always sent: when it is
  cancelled, its `finally` removes the token, and the one queued before it is
  skipped as well (`control_arbiter.py:170-174`).  `CONTRIBUTING.md:19` says that
  the newest queued request is sent; it does not speak of cancellations.
* The attributes of a `turn_on` that is cancelled in the queue stay in
  `_pending_turn_on` (`light.py:1002`) and are written by a later `turn_on`.

Previews and the connection:

* A link whose `disconnect()` failed under a DreamView claim is kept in `_client`,
  "so handover cannot mistake cleared state for release" (`coordinator.py:3299`).
  The except clause of `async_preview_preflight` (`coordinator.py:2667-2672`) then
  forgets it, and the task it starts may fail to disconnect it too; a hand-over
  that has not looked yet finds nothing and reports the device as released
  (exception of `LetGoIsReal`).
* A session that cancels and retries a sequence while the worker has the
  cancelled copy in hand: the end of that copy replaces the status of the retry,
  and a further retry is accepted as well, and so on beside each such retry
  (exception of `OnceOrAnswered`, for these requests only).
* A foreground command or a newer request that arrives while the default of a
  written preview is saved: WRITTEN is not published (exception of
  `OnceOrAnswered`).
* A health check that hears nothing restores the phase it started from, even
  when a read-back changed it meanwhile; a preview ended by a foreground command
  before its read-back leaves the health at "checking".
* Generations that were cancelled while pending stay in
  `cancelled_generations`; nothing reads them again.
* A link that drops while a command waits for its turn raises
  `GoveeCryptoError`, which `send_command` does not retry as it does a
  `BleakError`.  `WritesAreCurrent` holds either way.
* In hold mode the keep-alive of a silent link may end without a disconnection
  when control is taken; a later poll repairs that.
* A device without a marker that loses its link in the moment of its selection
  sets `_selection_failed`, which only a readable marker clears
  (`SelectWithoutMarkerFails`).

DreamView:

* "Confirm physical BLE disconnect before uploading `0x50`" (the docstring of
  `coordinator_dreamview.py`) is done by asking the coordinator in `runtime_data`
  for its client (`coordinator_dreamview.py:466-467`, `479-485`).  A link that it
  gave up after a failed `disconnect()` (`coordinator.py:3288-3291`), that an
  unload left up, or of an entry that an earlier, refused hand-over unloaded, is
  not seen, and the group is uploaded beside it.  `NoContention` speaks of the
  connections that were seen.
* "Preserve pre-existing user-disabled entries unless the user explicitly
  re-enables them while claimed" (the same docstring, lines 16-17): when the
  hand-over disables a member (`coordinator_dreamview.py:473-476`) after its user
  has enabled it and before the guard has recorded that (`316-322`), nothing says
  that it is owed, and it stays off (exception of `OwedIsRecorded`).
* When an entry is removed and its clean-up cannot save the release mark, another
  centre may claim the disabled member with `disabled_by_dreamview` False
  (`coordinator_dreamview.py:222-226`, `454`), and nobody enables it again.
* Two overlapping releases of the same member can enable an entry that its user
  has disabled in between, or, since they compare the claim with the one they
  began with, forget a newer release's claim.

Transactions:

* `_read_configured_strings`, `async_set_h6199_control` and
  `_async_set_verified_setting` (`coordinator.py:1860`, `2041`, `1752`) do not
  disconnect after an abandoned query, as the other transactions do, so the next
  transaction may hear its late answer.

The effect library:

* The roll-back of a deletion restores records with the version the item has by
  then (`effect_application.py:248-254`, `effect_deployments.py:1009-1044`).  The
  hash is renewed at the next start, after which the light shows the item as
  active although the device plays its older content (`rewritten`).
  `test_failed_library_delete_restores_deployment_link` covers equal versions.
* Removing an entry saves a copy of all hints without a lock, and a failed
  snapshot puts back the hint it found (`effect_runtime.py:926-945`); either may
  bring back a hint on an item deleted meanwhile (`stray`).
* A reconciliation between the detaching and the failure of a deletion leaves the
  hint detached until the next one.
* After a failed upload over a slot that could not be restored, the hint of the
  effect with the same signature stays, and the light shows it.
* A record whose save was cancelled is on disk and not in memory, and survives
  there the deletion of its item (`torn`).
* `light.turn_on` with a colour and a saved effect holds control while it waits
  for the library's lock (`coordinator.py:1887-1906`, `light.py:1009-1020`); an
  application over WebSocket takes them in the other order
  (`effect_websocket.py:1384`).  No model has both.
* A save that is refused raises in the port the repositories are written against,
  and in the tests.  Home Assistant's own `Store` logs write errors.

## What is not modelled

The map covers about an eighth of the implementation's lines.  Most of the rest
is tables (catalogues, constants), generated protocol adapters, codecs of effect
content, validation of documents, and entities and handlers that keep nothing;
a model of those would be a transcription.

* Bytes: ciphers, checksums, packet layouts, effect compilation, status texts.
* In `EffectPreview`: several devices; exceptions of compiling outside the
  guarded section of `_async_execute_request`.
* In `Connection`: profiles without notifications; resolving the device and the
  recovery of a stale GATT cache (one step that succeeds or fails); what is
  decoded from a notification; a second job waiting for control, which is the
  arbiter's subject; more than one hand-over.
* In `LightRequests`: what a `turn_on` does with its merged attributes.
* In `Readback`: layout generations and the count of ICs, bulk status, zones and
  the body of a music profile; colour groups are pages; the bars start on; only
  `BleakError` fails a write; callers look at what was commanded last; no `on`
  reply outlives `EXPECTED_STATE_TTL`; the optional pages of a poll may stay
  incomplete.  That an observation which reports a match is right about every
  field is not stated.
* In `Deployments`: the limit of the history; the hints of workspaces; zone
  controls of the restore; an acknowledgement of an earlier upload of the same
  subtype that comes late, and the details of the second acknowledgement; a
  device changed by another application.  A save fails by an exception.  A write
  without response is taken as delivered, and the device may ignore it.  A
  cancellation during the clean-up leaves a record RECOVERING until a restart
  (`excused`).  Liveness is too large for TLC here.
* In `DreamviewClaims`: the store of authored groups and the packets; a save and
  the work after it under the lock of claims are one step; changes by hand are
  saved at once; Home Assistant drops an entry after `async_remove_entry`; an
  upload to a profile without acknowledgements is obeyed.
* In `EffectLibrary`: the limit of the history, workspaces, validation of names
  and limits, a change of model, a clock that goes back between two
  `updated_at`, the UNCERTAIN match of profiles that cannot be read, an
  application that outlives the removal of its entry.  Every version is taken
  to have content of its own.  Defaults of scenes and templates and the users'
  state are stores nothing else refers to.
* `WebSocket` handlers, services, entities, the config flow: callers that keep
  nothing.  Transport framing and the panel are left for later.

## Plan

What is left, in the order of what it would add:

1. The execution of a `turn_on` (`_async_turn_on` with its roll-back), composed
   with `LightRequests`, and the two locks it takes with `EffectLibrary`'s.
2. `GattRecovery`: the bootstrap link, the clearing of the cache and the pending
   set, shown to implement the one step that `Connection` has of it.
3. The mode setters of the coordinator and the verified settings, over
   `Readback`; layouts that change while pages are read.
4. `Framing`, with operators checked against a reference definition, and
   `PanelRequests`.

Every invariant and action property of the runs has a theorem, so each of these
models comes with its own.  What would say more about the models there are: that
`Connection` implements an abstract link that is leased, used and let go; that
`Deployments` implements a register which is changed, unchanged or unknown; and
the safety part of `SetUpIsBounded`, a bound on the frames of a handshake.

-------------------------- MODULE DeploymentsProofs --------------------------
(***************************************************************************)
(* For any number of operations, calls, retries, faults, cancellations and *)
(* stops of Home Assistant: a failed operation left the device as it was,  *)
(* a confirmed one was read back, what a caller was told stays true of the *)
(* store, and a call that ended leaves a settled record.  None of these is *)
(* inductive.  They rest on what a call that works relies on: its record   *)
(* says in memory and in the store that it may have written before it      *)
(* writes, and nobody else writes while it may still have to undo.         *)
(***************************************************************************)
EXTENDS Deployments, TLAPS

\* The steps at which a call may write to the device or read from it.
Active == {"power", "attempt", "upload", "select", "apply", "written",
           "observe", "again", "restore", "readBack", "turnOff", "readOff"}

\* Those that are reached only after a write was tried.
AfterWrite == {"written", "observe", "again", "restore", "readBack",
               "turnOff", "readOff"}

Working == Active \cup {"claiming", "put", "saved", "prepare", "begin"}
Steps == Working \cup {"idle", "locking", "done"}
Nexts == {"prepare", "begin", "power", "apply", "attempt", "observe", "again",
          "restore", "end"}

Phases == {"absent", "compiling", "confirmed", "failed", "uncertain"}
          \cup MayHaveWritten

Bodies == Ops \cup {"original", "broken"}

Device == [on : BOOLEAN, shows : Selectors, holds : [Selectors -> Bodies]]

Errors == {None, "raised", "unconfirmed", "cancelled"}
Results == Phases \cup {None, "raised", "lost"}

CallRecord ==
    [step : Steps, op : Ops \cup {None}, put : Records, next : Nexts \cup {None},
     touched : BOOLEAN, uploaded : BOOLEAN, attempt : Nat, tries : Nat,
     reads : Nat, error : Errors,
     cleaning : {"no", "inside", "handler"}, sure : BOOLEAN,
     result : Results]

Types ==
    /\ TypeOK
    /\ call \in [Calls -> CallRecord]
    /\ before \in [Ops -> [on : BOOLEAN, shows : Selectors, body : Bodies]]
    /\ \A o \in Ops : /\ mem[o].phase = "absent" => mem[o] = Absent
                      /\ disk[o].phase = "absent" => disk[o] = Absent
                      /\ ~up => mem[o] = Absent

Busy(c) == call[c].step \in Working

\* What a call is about to save, or has saved and not yet in memory.
PutInv(cc) ==
    /\ cc.put.phase # "absent"
    /\ cc.next = "end" => cc.put.phase \in Terminal
    /\ cc.next \in {"prepare", "begin"} => cc.put.phase = "compiling"
    /\ cc.next \in Active => cc.put.phase \in MayHaveWritten
    /\ cc.next \in AfterWrite => cc.touched
    /\ cc.next \in Nexts
    /\ cc.put.phase \in {"compiling", "failed"} => cc.op \notin harmed
    /\ cc.put.phase = "confirmed" => cc.op \in seen

\* Nothing was written, or the call still has the control.
TouchInv(c) ==
    /\ call[c].step \in AfterWrite => call[c].touched
    /\ call[c].step = "claiming" => ~call[c].touched
    /\ call[c].touched => control = c
    /\ ~call[c].touched => Op(c) \notin harmed

ControlInv(c) ==
    call[c].step # "claiming"
    /\ (call[c].step \in {"put", "saved"} => call[c].next # "end")
    => control = c

RecordInv(c) ==
    /\ mem[Op(c)].phase \in {"absent", "compiling"} \cup MayHaveWritten
    /\ call[c].step \in Active => /\ mem[Op(c)].phase \in MayHaveWritten
                                  /\ disk[Op(c)].phase \in MayHaveWritten
    /\ call[c].step \in {"prepare", "begin"} => mem[Op(c)].phase = "compiling"
    /\ call[c].step \in {"put", "saved"} => PutInv(call[c])
    /\ call[c].step = "saved" => saving = c /\ disk[Op(c)] = call[c].put

RestoreInv(c) ==
    /\ call[c].step = "readBack" => ~Overwritten(c)
    /\ call[c].step \in {"turnOff", "readOff"} =>
           /\ ~before[Op(c)].on
           /\ call[c].sure => /\ device.shows = before[Op(c)].shows
                              /\ device.holds[device.shows] = before[Op(c)].body

CallInv(c) ==
    /\ call[c].step \in {"locking", "idle"} => ~call[c].touched
    /\ call[c].step # "idle" => Op(c) \in Ops
    /\ Busy(c) => /\ up /\ lock[Op(c)] = c
                  /\ TouchInv(c) /\ ControlInv(c) /\ RecordInv(c) /\ RestoreInv(c)

OpInv(o) ==
    /\ disk[o].phase \in {"absent", "compiling", "failed"} => o \notin harmed
    /\ mem[o].phase \in {"compiling", "failed"} => o \notin harmed
    /\ up /\ mem[o].phase = "absent" => o \notin harmed
    /\ mem[o].phase = "confirmed" \/ disk[o].phase = "confirmed" => o \in seen
    /\ o \in answered => /\ disk[o].phase = "confirmed"
                         /\ up => mem[o].phase = "confirmed"
    /\ up /\ mem[o].phase = "confirmed" => disk[o].phase = "confirmed"
    /\ up /\ mem[o] # Absent /\ o \notin excused
          /\ (\A c \in Calls : Busy(c) => Op(c) # o)
       => mem[o].phase \in Terminal

\* The call that has the control knows whether the device shows what it did
\* before, and what that was is still in its place.
DeviceInv(c) ==
    control = c =>
        /\ Busy(c)
        /\ Op(c) \in harmed => Look(device) # before[Op(c)]
        /\ before[Op(c)].shows # Selector[Op(c)]
           => device.holds[before[Op(c)].shows] = before[Op(c)].body

IInv ==
    /\ Types
    /\ \A c \in Calls : CallInv(c) /\ DeviceInv(c)
    /\ \A o \in Ops : OpInv(o)

-----------------------------------------------------------------------------
(* What the operators on the records of calls come to.                     *)

\* A call that waits in async_put has what it saves and where it goes on.
LEMMA PuttingFields ==
    ASSUME NEW cc \in CallRecord, NEW rec \in Records, NEW next \in Nexts
    PROVE  LET x == Putting(cc, rec, next) IN
           /\ x \in CallRecord
           /\ x.step = "put" /\ x.put = rec /\ x.next = next
           /\ x.op = cc.op /\ x.touched = cc.touched /\ x.sure = cc.sure
           /\ x.cleaning = cc.cleaning
BY DEF Putting, CallRecord, Steps, Working

\* A call that ended.
LEMMA EndedFields ==
    ASSUME NEW cc \in CallRecord, NEW result \in Results
    PROVE  LET x == Ended(cc, result) IN
           x \in CallRecord /\ x.step = "done" /\ x.op = cc.op /\ ~x.touched
BY ZenonT(60) DEF Ended, Idle, Absent, Records, CallRecord, Steps, Errors

\* The clean-up saves a failure where nothing was written, and otherwise that
\* it recovers, before it does.
LEMMA CleanedUpFields ==
    ASSUME mem \in [Ops -> Records], NEW cc \in CallRecord, cc.op \in Ops,
           NEW error \in Errors, NEW cleaning \in {"no", "inside", "handler"}
    PROVE  LET x == CleanedUp(cc, error, cleaning) IN
           /\ x \in CallRecord
           /\ x.step = "put" /\ x.op = cc.op /\ x.touched = cc.touched
           /\ \/ /\ x.put.phase = "failed" /\ x.next = "end"
                 /\ ~cc.touched \/ mem[cc.op].phase \notin MayHaveWritten
              \/ /\ x.put.phase = "recovering" /\ x.next = "restore"
                 /\ cc.touched
<1> DEFINE rec == IF mem[cc.op] = Absent THEN New ELSE mem[cc.op]
           ct == [cc EXCEPT !.error = error, !.cleaning = cleaning, !.sure = FALSE]
<1>0. /\ rec \in Records
      /\ rec.phase \in MayHaveWritten <=> mem[cc.op].phase \in MayHaveWritten
  BY DEF New, Absent, Records, MayHaveWritten
<1>1. ct \in CallRecord /\ ct.op = cc.op /\ ct.touched = cc.touched
  BY DEF CallRecord
<1>2. CleanedUp(cc, error, cleaning) =
        IF NothingToUndo(ct, rec)
        THEN Putting(ct, [rec EXCEPT !.phase = "failed"], "end")
        ELSE Putting(ct, [rec EXCEPT !.phase = "recovering"], "restore")
  BY DEF CleanedUp
<1> HIDE DEF rec, ct
<1>3. /\ [rec EXCEPT !.phase = "failed"] \in Records
      /\ [rec EXCEPT !.phase = "failed"].phase = "failed"
      /\ [rec EXCEPT !.phase = "recovering"] \in Records
      /\ [rec EXCEPT !.phase = "recovering"].phase = "recovering"
  BY <1>0 DEF Records, MayHaveWritten
<1>4. CASE NothingToUndo(ct, rec)
  <2> DEFINE new == [rec EXCEPT !.phase = "failed"]
  <2>1. new \in Records /\ new.phase = "failed"
    BY <1>3
  <2> HIDE DEF new
  <2>2. Putting(ct, new, "end") = CleanedUp(cc, error, cleaning)
    BY <1>2, <1>4 DEF new
  <2>3. "end" \in Nexts
    BY DEF Nexts
  <2> QED
    BY <1>0, <1>1, <1>4, <2>1, <2>2, <2>3, PuttingFields DEF NothingToUndo
<1>5. CASE ~NothingToUndo(ct, rec)
  <2> DEFINE new == [rec EXCEPT !.phase = "recovering"]
  <2>1. new \in Records /\ new.phase = "recovering"
    BY <1>3
  <2> HIDE DEF new
  <2>2. Putting(ct, new, "restore") = CleanedUp(cc, error, cleaning)
    BY <1>2, <1>5 DEF new
  <2>3. "restore" \in Nexts
    BY DEF Nexts
  <2> QED
    BY <1>0, <1>1, <1>5, <2>1, <2>2, <2>3, PuttingFields DEF NothingToUndo
<1> QED
  BY <1>4, <1>5

-----------------------------------------------------------------------------
(* What a step of a call that works leaves to the others.                  *)

\* A call writes to the device only where its records say that it may, and
\* leaves what was shown before in its place where it does not write to that.
Writes(c) ==
    \/ UNCHANGED <<device, harmed>>
    \/ /\ call[c].step \in Active
       /\ \E d \in Device :
            /\ Becomes(c, d)
            /\ before[Op(c)].shows # Selector[Op(c)]
               => d.holds[before[Op(c)].shows] = before[Op(c)].body

\* A call that may write changes the phase of its record to another one that
\* says so.
Remembers(c) ==
    \/ mem' = mem
    \/ /\ call[c].step \in Active
       /\ \E phase \in MayHaveWritten : mem' = [mem EXCEPT ![Op(c)].phase = phase]

\* Locks, the store and what was answered are left alone.
Quiet(c) ==
    /\ UNCHANGED <<profile, up, disk, before, answered>>
    /\ delayed' \in BOOLEAN
    /\ saving' = saving \/ saving' = Released(saving, c)
    /\ seen' = seen \/ seen' = seen \cup {Op(c)}

\* What is known of a call that works.
LEMMA BusyFacts ==
    ASSUME IInv, NEW c \in Calls, Busy(c)
    PROVE  /\ Op(c) \in Ops /\ call[c] \in CallRecord /\ up /\ lock[Op(c)] = c
           /\ TouchInv(c) /\ ControlInv(c) /\ RecordInv(c) /\ RestoreInv(c)
           /\ Op(c) \notin answered
           /\ call[c].step \in Active => control = c
<1>1. CallInv(c) /\ call[c] \in CallRecord
  BY DEF IInv, Types
<1>2. call[c].step # "idle"
  BY DEF Busy, Working, Active
<1>3. /\ Op(c) \in Ops /\ up /\ lock[Op(c)] = c
      /\ TouchInv(c) /\ ControlInv(c) /\ RecordInv(c) /\ RestoreInv(c)
  BY <1>1, <1>2 DEF CallInv
<1>4. mem[Op(c)].phase # "confirmed"
  BY <1>3 DEF RecordInv, MayHaveWritten
<1>5. Op(c) \notin answered
  BY <1>3, <1>4 DEF IInv, OpInv
<1>6. call[c].step \in Active => control = c
  BY <1>3 DEF ControlInv, Active
<1> QED
  BY <1>1, <1>3, <1>5, <1>6

\* What a write of a call comes to.
LEMMA WritesFacts ==
    ASSUME IInv, NEW c \in Calls, Busy(c), Writes(c), before' = before
    PROVE  /\ device' \in Device /\ harmed' \subseteq Ops
           /\ \A o \in Ops : o # Op(c) => (o \in harmed' <=> o \in harmed)
           /\ control = c =>
                /\ Op(c) \in harmed' => Look(device)' # before[Op(c)]
                /\ before[Op(c)].shows # Selector[Op(c)]
                   => device'.holds[before[Op(c)].shows] = before[Op(c)].body
           /\ UNCHANGED <<device, harmed>> \/ call[c].step \in Active
<1>1. Op(c) \in Ops /\ DeviceInv(c) /\ device \in Device /\ harmed \subseteq Ops
  BY BusyFacts DEF IInv, Types, TypeOK, Device, Bodies
<1>2. CASE UNCHANGED <<device, harmed>>
  BY <1>1, <1>2 DEF DeviceInv, Look
<1>3. CASE ~UNCHANGED <<device, harmed>>
  <2> PICK d \in Device : /\ Becomes(c, d)
                          /\ before[Op(c)].shows # Selector[Op(c)]
                             => d.holds[before[Op(c)].shows] = before[Op(c)].body
    BY <1>3 DEF Writes
  <2> QED
    BY <1>1, <1>3 DEF Writes, Becomes, Look
<1> QED
  BY <1>2, <1>3

\* What a change of its record by a call comes to.
LEMMA RemembersFacts ==
    ASSUME IInv, NEW c \in Calls, Busy(c), Remembers(c)
    PROVE  /\ mem' \in [Ops -> Records]
           /\ \A o \in Ops : o # Op(c) => mem'[o] = mem[o]
           /\ \/ mem' = mem
              \/ mem'[Op(c)].phase \in MayHaveWritten /\ call[c].step \in Active
<1>1. Op(c) \in Ops /\ mem \in [Ops -> Records]
  BY BusyFacts DEF IInv, Types, TypeOK
<1>2. CASE mem' = mem
  BY <1>1, <1>2
<1>3. CASE mem' # mem
  <2> PICK phase \in MayHaveWritten : mem' = [mem EXCEPT ![Op(c)].phase = phase]
    BY <1>3 DEF Remembers
  <2>1. mem' = [mem EXCEPT ![Op(c)] = [mem[Op(c)] EXCEPT !.phase = phase]]
    BY <1>1
  <2>2. /\ [mem[Op(c)] EXCEPT !.phase = phase] \in Records
        /\ [mem[Op(c)] EXCEPT !.phase = phase].phase = phase
    BY <1>1 DEF Records
  <2> QED
    BY <1>1, <1>3, <2>1, <2>2 DEF Remembers
<1> QED
  BY <1>2, <1>3

\* What a step of a call leaves of the operations and the locks of others.  The
\* store follows the memory where it is saved.
Local(c) ==
    /\ up' = up
    /\ \A o \in Ops \ {Op(c)} :
        /\ mem'[o] = mem[o] /\ before'[o] = before[o]
        /\ lock'[o] = lock[o] \/ lock[o] = c
        /\ disk'[o] = disk[o] \/ (saving = None /\ up /\ disk'[o] = mem[o])
        /\ o \in harmed' <=> o \in harmed
        /\ o \in seen' <=> o \in seen
        /\ o \in answered' <=> o \in answered
        /\ o \in excused' <=> o \in excused
    /\ \A d \in Calls \ {c} : /\ saving = d => saving' = d
                              /\ control = d <=> control' = d
    /\ device' = device \/ control = c

\* Calls that work have operations of their own.
LEMMA OwnOperation ==
    ASSUME IInv, NEW c \in Calls, NEW d \in Calls \ {c}, Busy(c), Busy(d)
    PROVE  Op(c) # Op(d)
BY BusyFacts

\* The invariant of all others is kept.
LEMMA OthersKeep ==
    ASSUME IInv, NEW c \in Calls, NEW x \in CallRecord,
           call' = [call EXCEPT ![c] = x], x.op = Op(c), Local(c),
           \A d \in Calls \ {c} : Busy(d) => Op(d) # Op(c)
    PROVE  /\ \A d \in Calls \ {c} : CallInv(d)' /\ DeviceInv(d)'
           /\ \A o \in Ops \ {Op(c)} : OpInv(o)'
<1>1. call'[c].op = Op(c) /\ \A d \in Calls \ {c} : call'[d] = call[d]
  BY DEF IInv, Types
<1>2. ASSUME NEW d \in Calls \ {c} PROVE CallInv(d)' /\ DeviceInv(d)'
  <2>1. CallInv(d) /\ DeviceInv(d) /\ call'[d] = call[d]
    BY <1>1 DEF IInv
  <2>2. (Busy(d)' <=> Busy(d)) /\ Op(d)' = Op(d)
    BY <2>1 DEF Busy, Op
  <2>3. CASE ~Busy(d)
    <3>1. control' # d
      BY <2>1, <2>3 DEF Local, DeviceInv
    <3> QED
      BY <2>1, <2>2, <2>3, <3>1 DEF CallInv, DeviceInv, Op
  <2>4. CASE Busy(d)
    <3> PICK o \in Ops : o = Op(d) /\ o # Op(c)
      BY <2>4, BusyFacts
    <3>1. TouchInv(d) /\ ControlInv(d) /\ RecordInv(d) /\ RestoreInv(d) /\ lock[o] = d /\ up
      BY <2>4, BusyFacts
    <3>2. /\ mem'[o] = mem[o] /\ before'[o] = before[o] /\ lock'[o] = lock[o]
          /\ disk'[o] = disk[o] \/ (saving = None /\ disk'[o] = mem[o])
          /\ o \in harmed' <=> o \in harmed
          /\ o \in seen' <=> o \in seen
          /\ saving = d => saving' = d
          /\ control = d <=> control' = d
          /\ control = d => device' = device
      BY <3>1 DEF Local
    <3>3. TouchInv(d)'
      BY <2>1, <2>2, <3>1, <3>2 DEF TouchInv
    <3>4. ControlInv(d)'
      BY <2>1, <2>2, <3>1, <3>2 DEF ControlInv
    <3>5. PutInv(call[d]) => PutInv(call[d])'
      BY <2>1, <3>2 DEF PutInv, Op
    <3>6. RecordInv(d)'
      <4>1. call[d].step \in Active => disk'[o].phase \in MayHaveWritten
        BY <3>1, <3>2 DEF RecordInv
      <4>2. call[d].step = "saved" => saving' = d /\ disk'[o] = call[d].put
        BY <3>1, <3>2, NoneAssumption DEF RecordInv
      <4>3. call[d].step \in {"put", "saved"} => PutInv(call[d])'
        BY <3>1, <3>5 DEF RecordInv
      <4> QED
        BY <2>1, <2>2, <3>1, <3>2, <4>1, <4>2, <4>3 DEF RecordInv
    <3>7. RestoreInv(d)'
      <4>1. Overwritten(d)' = Overwritten(d)
        BY <2>2, <3>2 DEF Overwritten, Prior
      <4>2. call[d].step \in {"turnOff", "readOff"} => control = d
        BY <3>1 DEF ControlInv
      <4> QED
        BY <2>1, <2>2, <3>1, <3>2, <4>1, <4>2 DEF RestoreInv
    <3>8. CallInv(d)'
      BY <2>1, <2>2, <3>1, <3>2, <3>3, <3>4, <3>6, <3>7 DEF CallInv, Local
    <3>9. DeviceInv(d)'
      BY <2>1, <2>2, <2>4, <3>2 DEF DeviceInv
    <3> QED
      BY <3>8, <3>9
  <2> QED
    BY <2>3, <2>4
<1>3. ASSUME NEW o \in Ops \ {Op(c)} PROVE OpInv(o)'
  <2>1. OpInv(o)
    BY DEF IInv
  <2>2. /\ mem'[o] = mem[o] /\ up' = up
        /\ disk'[o] = disk[o] \/ (up /\ disk'[o] = mem[o])
        /\ o \in harmed' <=> o \in harmed
        /\ o \in seen' <=> o \in seen
        /\ o \in answered' <=> o \in answered
        /\ o \in excused' <=> o \in excused
    BY DEF Local
  <2>3. (\A e \in Calls : Busy(e)' => Op(e)' # o) => (\A e \in Calls : Busy(e) => Op(e) # o)
    BY <1>1 DEF Busy, Op
  <2> QED
    BY <2>1, <2>2, <2>3 DEF OpInv
<1> QED
  BY <1>2, <1>3

\* A step is local to the operation of its call.
LEMMA QuietIsLocal ==
    ASSUME IInv, NEW c \in Calls, Busy(c), Quiet(c), Writes(c), Remembers(c),
           \A o \in Ops \ {Op(c)} : (o \in excused') <=> (o \in excused),
           \A o \in Ops \ {Op(c)} : lock'[o] = lock[o] \/ lock[o] = c,
           control' = control \/ control' = Released(control, c)
    PROVE  Local(c)
<1>1. /\ \A o \in Ops : o # Op(c) => (o \in harmed' <=> o \in harmed)
      /\ \A o \in Ops : o # Op(c) => mem'[o] = mem[o]
      /\ UNCHANGED <<device, harmed>> \/ call[c].step \in Active
  BY WritesFacts, RemembersFacts DEF Quiet
<1>2. device' = device \/ control = c
  BY <1>1, BusyFacts
<1>3. \A d \in Calls \ {c} : (saving = d => saving' = d) /\ (control = d <=> control' = d)
  BY NoneAssumption DEF Quiet, Released
<1>4. \A o \in Ops \ {Op(c)} :
        /\ mem'[o] = mem[o] /\ before'[o] = before[o] /\ disk'[o] = disk[o]
        /\ o \in harmed' <=> o \in harmed
        /\ o \in seen' <=> o \in seen
        /\ o \in answered' <=> o \in answered
  BY <1>1 DEF Quiet
<1>5. up' = up
  BY DEF Quiet
<1> QED
  BY <1>2, <1>3, <1>4, <1>5 DEF Local

\* A step that leaves the records and the saves of others alone keeps the types.
LEMMA QuietTypes ==
    ASSUME IInv, NEW c \in Calls, Busy(c), Quiet(c), Writes(c), Remembers(c),
           NEW x \in CallRecord, call' = [call EXCEPT ![c] = x],
           lock' \in [Ops -> Calls \cup {None}], control' \in Calls \cup {None}
    PROVE  Types'
<1>1. Types /\ Op(c) \in Ops /\ up /\ lock[Op(c)] = c
  BY BusyFacts DEF IInv
<1>2. /\ call' \in [Calls -> CallRecord]
      /\ before' \in [Ops -> [on : BOOLEAN, shows : Selectors, body : Bodies]]
  BY <1>1 DEF Types, Quiet
<1>3. device' \in Device /\ harmed' \subseteq Ops
  BY WritesFacts DEF Quiet
<1>4. mem' \in [Ops -> Records]
  BY RemembersFacts
<1>5. saving' \in Calls \cup {None} /\ seen' \subseteq Ops
  BY <1>1 DEF Types, TypeOK, Quiet, Released
<1>6. TypeOK'
  BY <1>1, <1>3, <1>4, <1>5 DEF Types, TypeOK, Quiet, Device, Bodies
<1>7. \A o \in Ops : /\ mem'[o].phase = "absent" => mem'[o] = Absent
                     /\ disk'[o].phase = "absent" => disk'[o] = Absent
                     /\ up'
  BY <1>1, RemembersFacts DEF Types, Quiet, MayHaveWritten
<1> QED
  BY <1>2, <1>6, <1>7 DEF Types

\* A step of a call that works on.
LEMMA StepKeeps ==
    ASSUME IInv, NEW c \in Calls, Busy(c), Quiet(c), Writes(c), Remembers(c),
           NEW x \in CallRecord, call' = [call EXCEPT ![c] = x],
           x.op = Op(c), x.step \in Working,
           UNCHANGED <<lock, control, excused>>, CallInv(c)'
    PROVE  IInv'
<1> PICK o \in Ops : o = Op(c)
  BY BusyFacts
<1>1. Types'
  BY QuietTypes DEF IInv, Types, TypeOK
<1>2. /\ \A d \in Calls \ {c} : CallInv(d)' /\ DeviceInv(d)'
      /\ \A p \in Ops \ {Op(c)} : OpInv(p)'
  BY QuietIsLocal, OthersKeep, OwnOperation
<1>3. call'[c] = x /\ Busy(c)' /\ Op(c)' = o
  BY DEF IInv, Types, Busy, Op
<1>4. DeviceInv(c)'
  BY <1>3, WritesFacts DEF DeviceInv, Quiet, Look
<1>5. OpInv(o)'
  <2>1. OpInv(o) /\ RecordInv(c) /\ up /\ o \notin answered
    BY BusyFacts DEF IInv
  <2>2. disk[o].phase \in {"absent", "compiling", "failed"} => o \notin harmed'
    BY <2>1, WritesFacts DEF OpInv, RecordInv, Quiet, MayHaveWritten
  <2>3. mem'[o].phase \in {"absent", "compiling", "failed"} => o \notin harmed'
    BY <2>1, WritesFacts, RemembersFacts DEF OpInv, RecordInv, Quiet, MayHaveWritten
  <2>4. mem'[o].phase # "confirmed"
    BY <2>1, RemembersFacts DEF RecordInv, MayHaveWritten
  <2>5. disk[o].phase = "confirmed" => o \in seen'
    BY <2>1 DEF OpInv, Quiet
  <2>6. o \notin answered' /\ disk' = disk
    BY <2>1 DEF Quiet
  <2> QED
    BY <1>3, <2>2, <2>3, <2>4, <2>5, <2>6 DEF OpInv
<1> QED
  BY <1>1, <1>2, <1>3, <1>4, <1>5, BusyFacts DEF IInv

\* The last step of a call whose clean-up was cut short.
LEMMA EndKeeps ==
    ASSUME IInv, NEW c \in Calls, Busy(c), Quiet(c), Writes(c), Remembers(c),
           NEW result \in Results, End(c, result), excused' = excused \cup {Op(c)}
    PROVE  IInv'
<1> PICK o \in Ops : o = Op(c)
  BY BusyFacts
<1> PICK x \in CallRecord : /\ x.step = "done" /\ x.op = Op(c)
                            /\ call' = [call EXCEPT ![c] = x]
  <2>1. call' = [call EXCEPT ![c] = Ended(call[c], result)] /\ call[c] \in CallRecord
    BY BusyFacts DEF End, IInv, Types
  <2> QED
    BY <2>1, EndedFields DEF Op
<1>1. /\ lock' \in [Ops -> Calls \cup {None}] /\ control' \in Calls \cup {None}
      /\ \A p \in Ops \ {Op(c)} : lock'[p] = lock[p] \/ lock[p] = c
  BY DEF IInv, Types, TypeOK, End, Released
<1>2. control' = Released(control, c)
  BY DEF End
<1>3. Types'
  BY <1>1, QuietTypes
<1>4. /\ \A d \in Calls \ {c} : CallInv(d)' /\ DeviceInv(d)'
      /\ \A p \in Ops \ {Op(c)} : OpInv(p)'
  BY <1>1, <1>2, QuietIsLocal, OthersKeep, OwnOperation
<1>5. call'[c] = x /\ ~Busy(c)' /\ Op(c)' = o
  BY DEF IInv, Types, Busy, Op, Working, Active
<1>6. CallInv(c)' /\ DeviceInv(c)'
  BY <1>2, <1>5, NoneAssumption DEF CallInv, DeviceInv, Released
<1>7. OpInv(o)'
  <2>1. OpInv(o) /\ RecordInv(c) /\ up /\ o \notin answered
    BY BusyFacts DEF IInv
  <2>2. disk[o].phase \in {"absent", "compiling", "failed"} => o \notin harmed'
    BY <2>1, WritesFacts DEF OpInv, RecordInv, Quiet, MayHaveWritten
  <2>3. mem'[o].phase \in {"absent", "compiling", "failed"} => o \notin harmed'
    BY <2>1, WritesFacts, RemembersFacts DEF OpInv, RecordInv, Quiet, MayHaveWritten
  <2>4. mem'[o].phase # "confirmed"
    BY <2>1, RemembersFacts DEF RecordInv, MayHaveWritten
  <2>5. disk[o].phase = "confirmed" => o \in seen'
    BY <2>1 DEF OpInv, Quiet
  <2>6. o \notin answered' /\ disk' = disk /\ o \in excused'
    BY <2>1 DEF Quiet
  <2> QED
    BY <2>2, <2>3, <2>4, <2>5, <2>6 DEF OpInv
<1> QED
  BY <1>3, <1>4, <1>5, <1>6, <1>7 DEF IInv

-----------------------------------------------------------------------------
(* Steps that end in a save.                                               *)

\* A call that goes on to save is sound if what it saves is.
LEMMA PutKeeps ==
    ASSUME IInv, NEW c \in Calls, Busy(c), Quiet(c), Writes(c), Remembers(c),
           NEW x \in CallRecord, call' = [call EXCEPT ![c] = x],
           x.op = Op(c), x.step = "put", UNCHANGED <<lock, control, excused>>,
           x.touched \/ x.next # "end" => control = c,
           ~x.touched => Op(c) \notin harmed',
           PutInv(x)'
    PROVE  IInv'
<1> PICK o \in Ops : o = Op(c)
  BY BusyFacts
<1>1. call'[c] = x /\ Op(c)' = o
  BY DEF IInv, Types, Op
<1>2. TouchInv(c)' /\ ControlInv(c)' /\ RestoreInv(c)'
  BY <1>1 DEF TouchInv, ControlInv, RestoreInv, AfterWrite
<1>3. mem'[o].phase \in {"absent", "compiling"} \cup MayHaveWritten
  BY BusyFacts, RemembersFacts DEF RecordInv
<1>4. RecordInv(c)'
  <2>1. PutInv(call[c])'
    BY <1>1
  <2> QED
    BY <1>1, <1>3, <2>1 DEF RecordInv, Active
<1>5. up' /\ lock'[o] = c
  BY BusyFacts DEF Quiet
<1>6. CallInv(c)'
  BY <1>1, <1>2, <1>4, <1>5 DEF CallInv
<1> QED
  BY <1>6, StepKeeps DEF Working

\* The clean-up begins after a write that was tried, or before any was.
LEMMA CleanUpKeeps ==
    ASSUME IInv, NEW c \in Calls, Busy(c), Quiet(c), Writes(c),
           UNCHANGED <<mem, lock, control, excused>>,
           NEW cc \in CallRecord, cc.op = Op(c),
           NEW error \in Errors, NEW cleaning \in {"no", "inside", "handler"},
           call' = [call EXCEPT ![c] = CleanedUp(cc, error, cleaning)],
           cc.touched => control = c,
           cc.touched \/ (~call[c].touched /\ harmed' = harmed)
    PROVE  IInv'
<1> PICK o \in Ops : o = Op(c)
  BY BusyFacts
<1> PICK x \in CallRecord :
      /\ call' = [call EXCEPT ![c] = x]
      /\ x.step = "put" /\ x.op = o /\ x.touched = cc.touched
      /\ \/ /\ x.put.phase = "failed" /\ x.next = "end"
            /\ ~cc.touched \/ mem[o].phase \notin MayHaveWritten
         \/ /\ x.put.phase = "recovering" /\ x.next = "restore"
            /\ cc.touched
  <2>1. mem \in [Ops -> Records]
    BY DEF IInv, Types, TypeOK
  <2> DEFINE x == CleanedUp(cc, error, cleaning)
  <2>2. /\ x \in CallRecord
        /\ x.step = "put" /\ x.op = cc.op /\ x.touched = cc.touched
        /\ \/ /\ x.put.phase = "failed" /\ x.next = "end"
              /\ ~cc.touched \/ mem[cc.op].phase \notin MayHaveWritten
           \/ /\ x.put.phase = "recovering" /\ x.next = "restore"
              /\ cc.touched
    BY <2>1, CleanedUpFields
  <2> HIDE DEF x
  <2>3. call' = [call EXCEPT ![c] = x]
    BY DEF x
  <2> QED
    BY <2>2, <2>3
<1>1. OpInv(o) /\ TouchInv(c) /\ RecordInv(c) /\ up
  BY BusyFacts DEF IInv
<1>2. ~cc.touched => o \notin harmed'
  BY <1>1 DEF TouchInv
<1>3. mem[o].phase \notin MayHaveWritten => o \notin harmed'
  BY <1>1, WritesFacts DEF OpInv, RecordInv, Quiet
<1>4. PutInv(x)'
  BY <1>2, <1>3 DEF PutInv, Nexts, Active, AfterWrite, MayHaveWritten, Terminal
<1>5. Remembers(c)
  BY DEF Remembers
<1> QED
  BY <1>2, <1>4, <1>5, PutKeeps

\* An exception, after a write was tried or not.
LEMMA RaiseKeeps ==
    ASSUME IInv, NEW c \in Calls, Busy(c), Quiet(c), Writes(c), mem' = mem,
           NEW tried \in BOOLEAN, Raise(c, tried),
           tried => control = c, tried \/ harmed' = harmed
    PROVE  IInv'
<1>1. CASE call[c].cleaning = "handler"
  <2>1. End(c, "raised") /\ excused' = excused \cup {Op(c)} /\ Remembers(c)
    BY <1>1 DEF Raise, Remembers
  <2>2. "raised" \in Results
    BY DEF Results
  <2> QED
    BY <2>1, <2>2, EndKeeps
<1>2. CASE call[c].cleaning # "handler"
  <2> PICK cc \in CallRecord :
        /\ cc.op = Op(c) /\ cc.touched = (call[c].touched \/ tried)
        /\ call' = [call EXCEPT ![c] = CleanedUp(cc, "raised", "handler")]
    <3> DEFINE cc == [call[c] EXCEPT !.touched = @ \/ tried]
    <3>1. call' = [call EXCEPT ![c] = CleanedUp(cc, "raised", "handler")]
      BY <1>2 DEF Raise
    <3>2. cc \in CallRecord /\ cc.op = Op(c) /\ cc.touched = (call[c].touched \/ tried)
      BY BusyFacts DEF CallRecord, Op
    <3> QED
      BY <3>1, <3>2
  <2>1. UNCHANGED <<lock, control, excused>>
    BY <1>2 DEF Raise
  <2>2. call[c].touched => control = c
    BY BusyFacts DEF TouchInv
  <2>3. "raised" \in Errors
    BY DEF Errors
  <2>4. cc.touched \/ (~call[c].touched /\ harmed' = harmed)
    OBVIOUS
  <2> QED
    BY <2>1, <2>2, <2>3, <2>4, CleanUpKeeps
<1> QED
  BY <1>1, <1>2

\* A record in its next phase is a record.
LEMMA PhasedFields ==
    ASSUME IInv, NEW o \in Ops, NEW phase \in Phases
    PROVE  Phased(o, phase) \in Records /\ Phased(o, phase).phase = phase
BY DEF IInv, Types, TypeOK, Phased, Records, Phases

\* A call that has the control goes on to save.
LEMMA PuttingKeeps ==
    ASSUME IInv, NEW c \in Calls, Busy(c), Quiet(c), Writes(c), Remembers(c),
           NEW cc \in CallRecord, cc.op = Op(c),
           NEW rec \in Records, NEW next \in Nexts,
           call' = [call EXCEPT ![c] = Putting(cc, rec, next)],
           UNCHANGED <<lock, control, excused>>, control = c,
           cc.touched \/ (~call[c].touched /\ harmed' = harmed),
           next = "end" => rec.phase \in Terminal,
           next = "begin" => rec.phase = "compiling",
           next \in Active => rec.phase \in MayHaveWritten,
           next \in AfterWrite => cc.touched,
           next # "prepare",
           rec.phase # "absent",
           rec.phase \in {"compiling", "failed"} => Op(c) \notin harmed',
           rec.phase = "confirmed" => Op(c) \in seen'
    PROVE  IInv'
<1> PICK x \in CallRecord :
      /\ call' = [call EXCEPT ![c] = x]
      /\ x.step = "put" /\ x.put = rec /\ x.next = next
      /\ x.op = Op(c) /\ x.touched = cc.touched
  <2> DEFINE x == Putting(cc, rec, next)
  <2>1. /\ x \in CallRecord /\ x.step = "put" /\ x.put = rec /\ x.next = next
        /\ x.op = cc.op /\ x.touched = cc.touched
    BY PuttingFields
  <2> HIDE DEF x
  <2>2. call' = [call EXCEPT ![c] = x]
    BY DEF x
  <2> QED
    BY <2>1, <2>2
<1>1. ~x.touched => Op(c) \notin harmed'
  BY BusyFacts DEF TouchInv
<1>2. PutInv(x)'
  BY DEF PutInv
<1> QED
  BY <1>1, <1>2, PutKeeps

-----------------------------------------------------------------------------
(* The writes.                                                             *)

\* The prior content of a selector that is not written to.
Keeps(c, d) ==
    /\ d \in Device
    /\ before[Op(c)].shows # Selector[Op(c)]
       => d.holds[before[Op(c)].shows] = before[Op(c)].body

\* Whatever the call in control makes of the device, what was shown before is
\* still there to be selected, unless the call uploads to that very place.
LEMMA ShapesKeep ==
    ASSUME IInv, NEW c \in Calls, Busy(c), control = c
    PROVE  /\ Keeps(c, device) /\ Keeps(c, Shows(c)) /\ Keeps(c, Plays(c))
           /\ Keeps(c, Restored(c))
           /\ \A body \in Bodies : Keeps(c, Holds(c, body))
           /\ \A b \in BOOLEAN : Keeps(c, [device EXCEPT !.on = b])
           /\ \A b \in BOOLEAN : Keeps(c, [Restored(c) EXCEPT !.on = b])
<1> PICK o \in Ops : o = Op(c)
  BY BusyFacts
<1> PICK p : p = before[o]
  OBVIOUS
<1> PICK s \in Selectors : s = Selector[o]
  BY DeploymentsAssumption
<1>1. /\ device \in Device /\ p.shows \in Selectors /\ p.body \in Bodies /\ o \in Bodies
      /\ p.shows # s => device.holds[p.shows] = p.body
  BY DEF IInv, Types, TypeOK, Device, Bodies, DeviceInv
<1>2. Keeps(c, device)
  BY <1>1 DEF Keeps
<1>3. Keeps(c, Shows(c))
  BY <1>1 DEF Keeps, Shows, Device
<1>4. \A body \in Bodies : Keeps(c, Holds(c, body))
  BY <1>1 DEF Keeps, Holds, Device
<1>5. Keeps(c, Plays(c))
  <2>1. Shows(c) \in Device /\ Shows(c).holds = device.holds
    BY <1>1 DEF Shows, Device
  <2>2. /\ Plays(c) \in Device
        /\ \A t \in Selectors : t # s => Plays(c).holds[t] = Shows(c).holds[t]
    BY <1>1, <2>1 DEF Plays, Device
  <2> QED
    BY <1>1, <2>1, <2>2 DEF Keeps
<1>6. Keeps(c, Restored(c))
  BY <1>1 DEF Keeps, Restored, Prior, Device
<1>7. \A b \in BOOLEAN, d \in Device : Keeps(c, d) => Keeps(c, [d EXCEPT !.on = b])
  BY DEF Keeps, Device
<1> QED
  BY <1>1, <1>2, <1>3, <1>4, <1>5, <1>6, <1>7 DEF Keeps

\* A write that raises.
LEMMA BrokenWrites ==
    ASSUME NEW c \in Calls, call[c].step \in Active, NEW d, Keeps(c, d),
           NEW tried \in BOOLEAN, NEW reached \in BOOLEAN,
           Broken(c, tried, reached, d)
    PROVE  Writes(c) /\ (tried \/ harmed' = harmed)
BY DEF Broken, Keeps, Writes

-----------------------------------------------------------------------------
(* Steps that only go on to save.                                          *)

\* What is left alone where nothing is written.
LEMMA NothingWritten ==
    ASSUME NEW c \in Calls, UNCHANGED <<device, harmed, mem>>
    PROVE  Writes(c) /\ Remembers(c)
BY DEF Writes, Remembers

\* A call at one of these steps works and has the control.
LEMMA InControl ==
    ASSUME IInv, NEW c \in Calls, call[c].step \in Active \cup {"prepare", "begin"}
    PROVE  /\ Busy(c) /\ control = c /\ Op(c) \in Ops /\ call[c] \in CallRecord
           /\ call[c].step \in AfterWrite => call[c].touched
<1>1. Busy(c)
  BY DEF Busy, Working
<1> QED
  BY <1>1, BusyFacts DEF ControlInv, TouchInv, Active

\* What is saved once the operation is prepared, begun and written.
LEMMA ProgressKeeps ==
    ASSUME IInv, NEW c \in Calls, Prepare(c) \/ Begin(c) \/ Written(c)
    PROVE  IInv'
<1>1. call[c].step \in {"prepare", "begin", "written"}
  BY DEF Prepare, Begin, Written, At
<1> PICK o \in Ops : o = Op(c)
  BY <1>1, InControl DEF Active
<1>2. /\ Busy(c) /\ control = c /\ call[c] \in CallRecord /\ call[c].op = o
      /\ call[c].step = "written" => call[c].touched
      /\ UNCHANGED <<lock, control, excused, harmed>>
  BY <1>1, InControl DEF Active, AfterWrite, Prepare, Begin, Written, history, Op
<1>3. Quiet(c) /\ Writes(c) /\ Remembers(c)
  BY <1>2, NothingWritten DEF Quiet, IInv, Types, TypeOK, Prepare, Begin, Written,
     store, history, bounds
<1>4. CASE Prepare(c)
  <2> DEFINE rec == [mem[o] EXCEPT !.prior = TRUE]
  <2>1. mem[o].phase = "compiling" /\ mem[o] \in Records /\ o \notin harmed
    BY <1>2, <1>4, BusyFacts DEF RecordInv, Prepare, At, IInv, Types, TypeOK, OpInv
  <2>2. rec \in Records /\ rec.phase = "compiling"
    BY <2>1 DEF Records
  <2>3. call' = [call EXCEPT ![c] = Putting(call[c], rec, "begin")]
    BY <1>4 DEF Prepare, Put
  <2> HIDE DEF rec
  <2> QED
    BY ZenonT(60), <1>2, <1>3, <2>1, <2>2, <2>3, PuttingKeeps DEF Nexts, Active, AfterWrite
<1>5. CASE Begin(c)
  <2> DEFINE rec == Phased(o, "uploading")
             next == IF o \in Profiles THEN "apply" ELSE "power"
  <2>1. rec \in Records /\ rec.phase = "uploading"
    BY PhasedFields DEF Phases, MayHaveWritten
  <2>2. call' = [call EXCEPT ![c] = Putting(call[c], rec, next)]
    BY <1>5 DEF Begin, Put
  <2>3. next \in {"apply", "power"}
    OBVIOUS
  <2>4. ~call[c].touched \/ call[c].touched
    OBVIOUS
  <2> HIDE DEF rec, next
  <2> QED
    BY <1>2, <1>3, <2>1, <2>2, <2>3, PuttingKeeps
    DEF Nexts, Active, AfterWrite, MayHaveWritten
<1>6. CASE Written(c)
  <2> DEFINE rec == Phased(o, "verifying")
  <2>1. rec \in Records /\ rec.phase = "verifying"
    BY PhasedFields DEF Phases, MayHaveWritten
  <2>2. call' = [call EXCEPT ![c] = Putting(call[c], rec, "observe")] /\ call[c].touched
    BY <1>2, <1>6 DEF Written, Put, At
  <2> HIDE DEF rec
  <2> QED
    BY <1>2, <1>3, <2>1, <2>2, PuttingKeeps
    DEF Nexts, Active, AfterWrite, MayHaveWritten
<1> QED
  BY <1>4, <1>5, <1>6

\* The clean-up settles the record: as failed only if the device shows what it
\* did before, or nothing was written.
LEMMA SettleKeeps ==
    ASSUME IInv, NEW c \in Calls,
           call[c].step \in {"restore", "readBack", "turnOff", "readOff"},
           Quiet(c), Writes(c), UNCHANGED <<mem, lock, control, excused>>,
           NEW recovered \in BOOLEAN, Settle(c, recovered),
           recovered => Op(c) \notin harmed'
    PROVE  IInv'
<1>1. call[c].step \in Active /\ call[c].step \in AfterWrite
  BY DEF Active, AfterWrite
<1> PICK o \in Ops : o = Op(c)
  BY <1>1, InControl
<1>2. Busy(c) /\ control = c /\ call[c] \in CallRecord /\ call[c].op = o /\ call[c].touched
  BY <1>1, InControl DEF Op
<1> DEFINE phase == IF recovered THEN "failed" ELSE "uncertain"
           rec == Phased(o, phase)
<1>3. phase \in {"failed", "uncertain"} /\ (phase = "failed" => recovered)
  OBVIOUS
<1>4. rec \in Records /\ rec.phase = phase
  BY PhasedFields DEF Phases
<1>5. call' = [call EXCEPT ![c] = Putting(call[c], rec, "end")]
  BY DEF Settle, Put, Final
<1>6. Remembers(c)
  BY DEF Remembers
<1> HIDE DEF rec, phase
<1> QED
  BY <1>2, <1>3, <1>4, <1>5, <1>6, PuttingKeeps
  DEF Nexts, Active, AfterWrite, Terminal

\* A call goes on to another step at which it may write.
LEMMA GotoKeeps ==
    ASSUME IInv, NEW c \in Calls, call[c].step \in Active,
           Quiet(c), Writes(c), Remembers(c), UNCHANGED <<lock, control, excused>>,
           NEW x \in CallRecord, call' = [call EXCEPT ![c] = x], x.op = Op(c),
           x.step \in Active, x.step \in AfterWrite => x.touched,
           x.touched \/ (~call[c].touched /\ harmed' = harmed),
           x.step = "readBack" => ~Overwritten(c),
           x.step \in {"turnOff", "readOff"} =>
               /\ ~before[Op(c)].on
               /\ x.sure => /\ device'.shows = before[Op(c)].shows
                            /\ device'.holds[device'.shows] = before[Op(c)].body
    PROVE  IInv'
<1> PICK o \in Ops : o = Op(c)
  BY InControl
<1>1. Busy(c) /\ control = c /\ x.step \in Working
  BY InControl DEF Working
<1>2. /\ TouchInv(c) /\ RecordInv(c) /\ up /\ lock[o] = c
  BY <1>1, BusyFacts
<1>3. call'[c] = x /\ Op(c)' = o
  BY DEF IInv, Types, Op
<1>4. TouchInv(c)' /\ ControlInv(c)'
  BY <1>1, <1>2, <1>3 DEF TouchInv, ControlInv, Active
<1>5. RecordInv(c)'
  BY <1>1, <1>2, <1>3, RemembersFacts DEF RecordInv, Quiet, Active
<1>6. RestoreInv(c)'
  <2>1. Overwritten(c)' = Overwritten(c)
    BY <1>3 DEF Overwritten, Prior, Quiet
  <2> QED
    BY <1>3, <2>1 DEF RestoreInv, Quiet
<1>7. CallInv(c)'
  BY <1>1, <1>2, <1>3, <1>4, <1>5, <1>6 DEF CallInv, Quiet, Active
<1> QED
  BY <1>1, <1>7, StepKeeps

-----------------------------------------------------------------------------
(* The restore.                                                            *)

\* What the appearance came to is settled, or the device is switched off.
LEMMA AppearedKeeps ==
    ASSUME IInv, NEW c \in Calls, call[c].step \in {"restore", "readBack"},
           UNCHANGED <<profile, up, device, store, lock, control, history>>,
           NEW restored \in BOOLEAN, Appeared(c, restored),
           restored => /\ device.on /\ device.shows = before[Op(c)].shows
                       /\ device.holds[device.shows] = before[Op(c)].body
    PROVE  IInv'
<1>1. call[c].step \in Active /\ call[c].step \in AfterWrite
  BY DEF Active, AfterWrite
<1> PICK o \in Ops : o = Op(c)
  BY <1>1, InControl
<1>2. Busy(c) /\ control = c /\ call[c] \in CallRecord /\ call[c].op = o /\ call[c].touched
  BY <1>1, InControl DEF Op
<1>3. Quiet(c) /\ Writes(c) /\ Remembers(c) /\ UNCHANGED <<mem, lock, control, excused>>
  BY NothingWritten DEF Quiet, IInv, Types, TypeOK, store, history
<1>4. CASE before[o].on
  <2>1. Settle(c, restored)
    BY <1>4 DEF Appeared, Prior
  <2>2. before[o] = [on |-> before[o].on, shows |-> before[o].shows,
                     body |-> before[o].body]
    BY DEF IInv, Types
  <2>3. restored => Look(device) = before[o]
    BY <1>4, <2>2 DEF Look, IInv, Types, TypeOK
  <2>4. restored => o \notin harmed'
    BY <1>2, <2>3 DEF IInv, DeviceInv, history
  <2> QED
    BY <1>3, <2>1, <2>4, SettleKeeps
<1>5. CASE ~before[o].on
  <2> DEFINE x == [call[c] EXCEPT !.step = "turnOff", !.sure = restored]
  <2>1. x \in CallRecord /\ x.step = "turnOff" /\ x.sure = restored
        /\ x.op = o /\ x.touched
    BY <1>2 DEF CallRecord, Steps, Working, Active
  <2>2. call' = [call EXCEPT ![c] = x]
    BY <1>5 DEF Appeared, Prior, IInv, Types
  <2> HIDE DEF x
  <2> QED
    BY <1>1, <1>3, <1>5, <2>1, <2>2, GotoKeeps DEF Active
<1> QED
  BY <1>4, <1>5

\* The clean-up writes back, in part or not at all, what was shown before.
LEMMA RestoreKeeps ==
    ASSUME IInv, NEW c \in Calls,
           NoRestore(c) \/ RestoreRefused(c) \/ RestoreWrites(c) \/ RestoreRaises(c)
    PROVE  IInv'
<1>1. /\ call[c].step = "restore"
      /\ call[c].step \in Active /\ call[c].step \in AfterWrite
  BY DEF NoRestore, RestoreRefused, RestoreWrites, RestoreRaises, Restoring, At,
         Active, AfterWrite
<1> PICK o \in Ops : o = Op(c)
  BY <1>1, InControl
<1>2. Busy(c) /\ control = c /\ call[c] \in CallRecord /\ call[c].op = o /\ call[c].touched
  BY <1>1, InControl DEF Op
<1>3. Quiet(c) /\ UNCHANGED <<mem, lock, control, excused>>
  BY DEF Quiet, IInv, Types, TypeOK, store, history, NoRestore, RestoreRefused,
     RestoreWrites, RestoreRaises
<1>4. CASE NoRestore(c)
  <2>1. Writes(c) /\ Settle(c, FALSE)
    BY <1>3, <1>4, NothingWritten DEF NoRestore, history
  <2> QED
    BY <1>1, <1>3, <2>1, SettleKeeps
<1>5. CASE RestoreRefused(c)
  BY <1>1, <1>5, AppearedKeeps DEF RestoreRefused
<1>6. CASE RestoreWrites(c)
  <2>1. Writes(c)
    BY <1>1, <1>2, <1>6, ShapesKeep DEF RestoreWrites, Writes, Keeps
  <2> DEFINE x == [call[c] EXCEPT !.step = "readBack"]
  <2>2. x \in CallRecord /\ x.step = "readBack" /\ x.op = o /\ x.touched
    BY <1>2 DEF CallRecord, Steps, Working, Active
  <2>3. call' = [call EXCEPT ![c] = x] /\ ~Overwritten(c)
    BY <1>6 DEF RestoreWrites, Goto, IInv, Types
  <2>4. Remembers(c)
    BY <1>3 DEF Remembers
  <2> HIDE DEF x
  <2> QED
    BY <1>1, <1>3, <2>1, <2>2, <2>3, <2>4, GotoKeeps DEF Active
<1>7. CASE RestoreRaises(c)
  <2> PICK reached \in BOOLEAN, off \in BOOLEAN :
        LET d == IF reached THEN Restored(c) ELSE device IN
        Becomes(c, IF off /\ ~Prior(c).on THEN [d EXCEPT !.on = FALSE] ELSE d)
    BY <1>7 DEF RestoreRaises
  <2>1. Writes(c)
    <3> DEFINE d == IF reached THEN Restored(c) ELSE device
               e == IF off /\ ~Prior(c).on THEN [d EXCEPT !.on = FALSE] ELSE d
    <3>1. Keeps(c, e)
      BY <1>2, ShapesKeep
    <3> HIDE DEF e
    <3>2. Becomes(c, e)
      BY DEF e
    <3> QED
      BY <1>1, <3>1, <3>2 DEF Writes, Keeps
  <2>2. Settle(c, FALSE)
    BY <1>7 DEF RestoreRaises
  <2> QED
    BY <1>1, <1>3, <2>1, <2>2, SettleKeeps
<1> QED
  BY <1>4, <1>5, <1>6, <1>7

\* What was shown before is read back.  A mode is read with its settings; what
\* another selector shows is what it did before, because nobody wrote to it.
LEMMA ReadBackKeeps ==
    ASSUME IInv, NEW c \in Calls, ReadBack(c)
    PROVE  IInv'
<1>1. /\ call[c].step = "readBack"
      /\ UNCHANGED <<profile, up, device, store, lock, control, history>>
  BY DEF ReadBack, At
<1>2. Busy(c) /\ control = c /\ Op(c) \in Ops
  BY <1>1, InControl DEF Active
<1>3. ~Overwritten(c) /\ DeviceInv(c)
  BY <1>1, <1>2, BusyFacts DEF RestoreInv, IInv
<1>4. ReadsBack(c) => /\ device.on /\ device.shows = before[Op(c)].shows
                      /\ device.holds[device.shows] = before[Op(c)].body
  <2> SUFFICES ASSUME ReadsBack(c)
               PROVE  device.holds[before[Op(c)].shows] = before[Op(c)].body
    BY DEF ReadsBack, Prior
  <2>1. CASE before[Op(c)].shows # Selector[Op(c)]
    BY <1>2, <1>3, <2>1 DEF DeviceInv
  <2>2. CASE before[Op(c)].shows = Selector[Op(c)]
    BY <1>2, <1>3, <2>2 DEF Overwritten, ReadsBack, Prior, IsMode
  <2> QED
    BY <2>1, <2>2
<1> PICK fresh \in BOOLEAN : Appeared(c, fresh /\ ReadsBack(c))
  BY DEF ReadBack
<1> DEFINE restored == fresh /\ ReadsBack(c)
<1>5. restored \in BOOLEAN /\ (restored => ReadsBack(c)) /\ Appeared(c, restored)
  BY DEF ReadsBack
<1> HIDE DEF restored
<1> QED
  BY <1>1, <1>4, <1>5, AppearedKeeps

\* The clean-up turns a device off again that was off.
LEMMA SwitchOffKeeps ==
    ASSUME IInv, NEW c \in Calls, TurnOff(c) \/ TurnOffRaises(c) \/ ReadOff(c)
    PROVE  IInv'
<1>1. /\ call[c].step \in {"turnOff", "readOff"}
      /\ call[c].step \in Active /\ call[c].step \in AfterWrite
  BY DEF TurnOff, TurnOffRaises, ReadOff, At, Active, AfterWrite
<1> PICK o \in Ops : o = Op(c)
  BY <1>1, InControl
<1>2. Busy(c) /\ control = c /\ call[c] \in CallRecord /\ call[c].op = o /\ call[c].touched
  BY <1>1, InControl DEF Op
<1>3. Quiet(c) /\ UNCHANGED <<mem, lock, control, excused>>
  BY DEF Quiet, IInv, Types, TypeOK, store, history, TurnOff, TurnOffRaises, ReadOff
<1>4. RestoreInv(c) /\ DeviceInv(c)
  BY <1>2, BusyFacts DEF IInv
<1> DEFINE off == [device EXCEPT !.on = FALSE]
<1>5. Keeps(c, off) /\ off.shows = device.shows /\ off.holds = device.holds
  BY <1>2, ShapesKeep DEF IInv, Types, TypeOK
<1> HIDE DEF off
<1>6. CASE TurnOff(c)
  <2>1. Becomes(c, off) \/ UNCHANGED <<device, harmed>>
    BY <1>6 DEF TurnOff, off
  <2>2. Writes(c)
    BY <1>1, <1>5, <2>1 DEF Writes, Keeps
  <2>3. device'.shows = device.shows /\ device'.holds = device.holds
    BY <1>5, <2>1 DEF Becomes
  <2> DEFINE x == [call[c] EXCEPT !.step = "readOff"]
  <2>4. /\ x \in CallRecord /\ x.step = "readOff" /\ x.op = o
        /\ x.touched /\ x.sure = call[c].sure
    BY <1>2 DEF CallRecord, Steps, Working, Active
  <2>5. call' = [call EXCEPT ![c] = x]
    BY <1>6 DEF TurnOff, Goto, IInv, Types
  <2>6. Remembers(c)
    BY <1>3 DEF Remembers
  <2> HIDE DEF x
  <2> QED
    BY <1>1, <1>3, <1>4, <2>2, <2>3, <2>4, <2>5, <2>6, GotoKeeps DEF Active, RestoreInv
<1>7. CASE TurnOffRaises(c)
  <2>1. Settle(c, FALSE) /\ \E reached \in BOOLEAN : Broken(c, TRUE, reached, off)
    BY <1>7 DEF TurnOffRaises, off
  <2>2. Writes(c)
    BY <1>1, <1>5, <2>1, BrokenWrites
  <2> QED
    BY <1>1, <1>3, <2>1, <2>2, SettleKeeps
<1>8. CASE ReadOff(c)
  <2> PICK fresh \in BOOLEAN :
        Settle(c, fresh /\ profile.readable /\ ~device.on /\ call[c].sure)
    BY <1>8 DEF ReadOff
  <2> DEFINE recovered == fresh /\ profile.readable /\ ~device.on /\ call[c].sure
  <2>1. recovered \in BOOLEAN /\ (recovered => ~device.on /\ call[c].sure)
    BY DEF IInv, Types, TypeOK
  <2>2. Settle(c, recovered)
    OBVIOUS
  <2> HIDE DEF recovered
  <2>3. before[o] = [on |-> before[o].on, shows |-> before[o].shows,
                     body |-> before[o].body]
        /\ before[o].on \in BOOLEAN /\ device.on \in BOOLEAN
    BY DEF IInv, Types, TypeOK
  <2>4. recovered => Look(device) = before[o]
    BY <1>1, <1>4, <2>1, <2>3 DEF Look, RestoreInv
  <2>5. harmed' = harmed /\ device' = device
    BY <1>8 DEF ReadOff, history
  <2>6. Writes(c) /\ (recovered => o \notin harmed')
    BY <1>2, <1>4, <2>4, <2>5, NothingWritten DEF DeviceInv, Writes
  <2> QED
    BY <1>1, <1>3, <2>1, <2>2, <2>6, SettleKeeps
<1> QED
  BY <1>6, <1>7, <1>8

-----------------------------------------------------------------------------
(* The writes of the transaction, and what breaks it.                      *)

\* A device that is off is turned on, and the record has said so before.
LEMMA PowerKeeps ==
    ASSUME IInv, NEW c \in Calls, Power(c)
    PROVE  IInv'
<1>1. call[c].step = "power" /\ call[c].step \in Active
  BY DEF Power, At, Active
<1> PICK o \in Ops : o = Op(c)
  BY <1>1, InControl
<1>2. Busy(c) /\ control = c /\ call[c] \in CallRecord /\ call[c].op = o
  BY <1>1, InControl DEF Op
<1>3. Quiet(c) /\ UNCHANGED <<mem, lock, control, excused>> /\ Remembers(c)
  BY DEF Quiet, Remembers, IInv, Types, TypeOK, store, history, Power
<1>4. Keeps(c, [device EXCEPT !.on = TRUE]) /\ device.on \in BOOLEAN
  BY <1>2, ShapesKeep DEF IInv, Types, TypeOK
<1>5. Writes(c) /\ (device.on => harmed' = harmed)
  BY <1>1, <1>4 DEF Power, Writes, Keeps
<1> DEFINE cc == [call[c] EXCEPT !.touched = @ \/ ~device.on]
<1>6. /\ cc \in CallRecord /\ cc.op = o /\ cc.touched = (call[c].touched \/ ~device.on)
      /\ [cc EXCEPT !.step = "attempt"] \in CallRecord
      /\ [cc EXCEPT !.step = "attempt"].step = "attempt"
      /\ [cc EXCEPT !.step = "attempt"].op = o
      /\ [cc EXCEPT !.step = "attempt"].touched = cc.touched
  BY ZenonT(60), <1>2, <1>4 DEF CallRecord, Steps, Working, Active
<1>7. call' = [call EXCEPT ![c] =
                 IF o \in Uploads THEN [cc EXCEPT !.step = "attempt"]
                 ELSE Putting(cc, Phased(o, "activating"), "attempt")]
  BY DEF Power
<1> HIDE DEF cc
<1>8. cc.touched \/ (~call[c].touched /\ harmed' = harmed)
  BY <1>4, <1>5, <1>6
<1>9. CASE o \in Uploads
  <2> DEFINE x == [cc EXCEPT !.step = "attempt"]
  <2>1. x \in CallRecord /\ x.step = "attempt" /\ x.op = o /\ x.touched = cc.touched
    BY <1>6
  <2>2. call' = [call EXCEPT ![c] = x]
    BY <1>7, <1>9
  <2> HIDE DEF x
  <2> QED
    BY <1>1, <1>3, <1>5, <1>8, <2>1, <2>2, GotoKeeps DEF Active, AfterWrite
<1>10. CASE o \notin Uploads
  <2> DEFINE rec == Phased(o, "activating")
  <2>1. rec \in Records /\ rec.phase = "activating"
    BY PhasedFields DEF Phases, MayHaveWritten
  <2>2. call' = [call EXCEPT ![c] = Putting(cc, rec, "attempt")]
    BY <1>7, <1>10
  <2> HIDE DEF rec
  <2> QED
    BY <1>2, <1>3, <1>5, <1>6, <1>8, <2>1, <2>2, PuttingKeeps
    DEF Nexts, Active, AfterWrite, MayHaveWritten
<1> QED
  BY <1>9, <1>10

\* The record says what may have been written before the first write.
LEMMA AttemptKeeps ==
    ASSUME IInv, NEW c \in Calls, Attempt(c)
    PROVE  IInv'
<1>1. call[c].step = "attempt" /\ call[c].step \in Active
  BY DEF Attempt, At, Active
<1> PICK o \in Ops : o = Op(c)
  BY <1>1, InControl
<1>2. Busy(c) /\ control = c /\ call[c] \in CallRecord /\ call[c].op = o
  BY <1>1, InControl DEF Op
<1>3. Quiet(c) /\ UNCHANGED <<lock, control, excused, device, harmed>>
  BY DEF Quiet, PutLater, IInv, Types, TypeOK, store, history, Attempt
<1>4. Writes(c)
  BY <1>3 DEF Writes
<1>5. Remembers(c)
  BY <1>1 DEF Attempt, Remembers, PutLater, store, MayHaveWritten
<1> PICK step \in {"upload", "select"} : call' = [call EXCEPT ![c].step = step]
  BY DEF Attempt, Goto
<1> DEFINE x == [call[c] EXCEPT !.step = step]
<1>6. x \in CallRecord /\ x.step = step /\ x.op = o /\ x.touched = call[c].touched
      /\ call[c].touched \in BOOLEAN
  BY <1>2 DEF CallRecord, Steps, Working, Active
<1>7. call' = [call EXCEPT ![c] = x]
  BY DEF IInv, Types
<1> HIDE DEF x
<1> QED
  BY ZenonT(60), <1>1, <1>3, <1>4, <1>5, <1>6, <1>7, GotoKeeps DEF Active, AfterWrite

\* The packets of the transaction and of a profile.
LEMMA WriteKeeps ==
    ASSUME IInv, NEW c \in Calls, Upload(c) \/ Select(c) \/ Apply(c)
    PROVE  IInv'
<1>1. call[c].step \in {"upload", "select", "apply"} /\ call[c].step \in Active
  BY DEF Upload, Select, Apply, At, Active
<1> PICK o \in Ops : o = Op(c)
  BY <1>1, InControl
<1>2. Busy(c) /\ control = c /\ call[c] \in CallRecord /\ call[c].op = o
  BY <1>1, InControl DEF Op
<1>3. Quiet(c) /\ UNCHANGED <<lock, control, excused>>
  BY DEF Quiet, PutLater, IInv, Types, TypeOK, store, history, Upload, Select, Apply
<1>4. Remembers(c)
  BY <1>1 DEF Upload, Select, Apply, Remembers, PutLater, store, MayHaveWritten
<1>5. Keeps(c, Shows(c)) /\ Keeps(c, Holds(c, o)) /\ Keeps(c, Plays(c))
  BY <1>2, ShapesKeep DEF Bodies
<1>6. Writes(c)
  BY <1>1, <1>5 DEF Upload, Select, Apply, Writes, Keeps
<1> PICK x \in CallRecord : /\ call' = [call EXCEPT ![c] = x]
                            /\ x.op = o /\ x.touched /\ x.step \in {"select", "written"}
  <2>1. CASE Upload(c)
    <3> DEFINE x == [call[c] EXCEPT !.step = "select", !.touched = TRUE, !.uploaded = TRUE]
    <3>1. x \in CallRecord /\ x.op = o /\ x.touched /\ x.step = "select"
      BY <1>2 DEF CallRecord, Steps, Working, Active
    <3>2. call' = [call EXCEPT ![c] = x]
      BY <2>1 DEF Upload, IInv, Types
    <3> QED
      BY <3>1, <3>2
  <2>2. CASE Select(c) \/ Apply(c)
    <3> DEFINE x == [call[c] EXCEPT !.step = "written", !.touched = TRUE]
    <3>1. x \in CallRecord /\ x.op = o /\ x.touched /\ x.step = "written"
      BY <1>2 DEF CallRecord, Steps, Working, Active
    <3>2. call' = [call EXCEPT ![c] = x]
      BY <2>2 DEF Select, Apply, IInv, Types
    <3> QED
      BY <3>1, <3>2
  <2> QED
    BY <2>1, <2>2
<1> QED
  BY <1>1, <1>3, <1>4, <1>6, GotoKeeps DEF Active, AfterWrite

\* An activation that was contradicted is written again.
LEMMA AgainKeeps ==
    ASSUME IInv, NEW c \in Calls, Again(c)
    PROVE  IInv'
<1>1. call[c].step = "again" /\ call[c].step \in Active /\ call[c].step \in AfterWrite
  BY DEF Again, At, Active, AfterWrite
<1> PICK o \in Ops : o = Op(c)
  BY <1>1, InControl
<1>2. Busy(c) /\ control = c /\ call[c] \in CallRecord /\ call[c].op = o /\ call[c].touched
  BY <1>1, InControl DEF Op
<1>3. Quiet(c) /\ UNCHANGED <<lock, control, excused>> /\ Remembers(c)
  BY DEF Quiet, Remembers, IInv, Types, TypeOK, store, history, Again
<1>4. Writes(c)
  BY <1>1, <1>2, ShapesKeep DEF Again, Writes, Keeps
<1> DEFINE rec == Phased(o, "verifying")
<1>5. rec \in Records /\ rec.phase = "verifying"
  BY PhasedFields DEF Phases, MayHaveWritten
<1>6. call' = [call EXCEPT ![c] = Putting(call[c], rec, "observe")]
  BY DEF Again, Put
<1> HIDE DEF rec
<1> QED
  BY <1>2, <1>3, <1>4, <1>5, <1>6, PuttingKeeps
  DEF Nexts, Active, AfterWrite, MayHaveWritten

\* Exceptions of the steps.
LEMMA RaisesKeep ==
    ASSUME IInv, NEW c \in Calls,
           \/ SaveRaises(c) \/ PrepareRaises(c)
           \/ PowerRaises(c) \/ ApplyRaises(c) \/ AgainRaises(c)
    PROVE  IInv'
<1>1. CASE SaveRaises(c) \/ PrepareRaises(c)
  <2>1. call[c].step \in {"put", "prepare"} /\ Busy(c)
    BY <1>1 DEF SaveRaises, PrepareRaises, At, Busy, Working
  <2>2. Quiet(c) /\ UNCHANGED <<mem, device, harmed>> /\ Raise(c, FALSE)
    BY <1>1 DEF Quiet, IInv, Types, TypeOK, store, SaveRaises, PrepareRaises
  <2> QED
    BY <2>1, <2>2, NothingWritten, RaiseKeeps
<1>2. CASE PowerRaises(c) \/ ApplyRaises(c) \/ AgainRaises(c)
  <2>1. call[c].step \in {"power", "apply", "again"} /\ call[c].step \in Active
    BY <1>2 DEF PowerRaises, ApplyRaises, AgainRaises, At, Active
  <2>2. Busy(c) /\ control = c
    BY <2>1, InControl
  <2>3. Quiet(c) /\ mem' = mem
    BY <1>2 DEF Quiet, IInv, Types, TypeOK, store, PowerRaises, ApplyRaises, AgainRaises
  <2>4. ASSUME NEW d, Keeps(c, d), NEW tried \in BOOLEAN, NEW reached \in BOOLEAN,
               Broken(c, tried, reached, d), Raise(c, tried)
        PROVE  IInv'
    BY <2>1, <2>2, <2>3, <2>4, BrokenWrites, RaiseKeeps
  <2>5. CASE PowerRaises(c)
    <3> PICK tried \in BOOLEAN, reached \in BOOLEAN :
          Broken(c, tried, reached, [device EXCEPT !.on = TRUE]) /\ Raise(c, tried)
      BY <2>5 DEF PowerRaises
    <3> QED
      BY <2>2, <2>4, ShapesKeep
  <2>6. CASE ApplyRaises(c)
    <3> PICK tried \in BOOLEAN, reached \in BOOLEAN :
          Broken(c, tried, reached, Plays(c)) /\ Raise(c, tried)
      BY <2>6 DEF ApplyRaises
    <3> QED
      BY <2>2, <2>4, ShapesKeep
  <2>7. CASE AgainRaises(c)
    <3> PICK reached \in BOOLEAN : Broken(c, TRUE, reached, Shows(c)) /\ Raise(c, TRUE)
      BY <2>7 DEF AgainRaises
    <3> QED
      BY <2>2, <2>4, ShapesKeep
  <2> QED
    BY <1>2, <2>5, <2>6, <2>7
<1> QED
  BY <1>1, <1>2

\* A packet of the transaction fails: it is tried again, or the clean-up begins.
LEMMA SequenceBreaksKeeps ==
    ASSUME IInv, NEW c \in Calls, SequenceBreaks(c)
    PROVE  IInv'
<1>1. call[c].step \in {"upload", "select"} /\ call[c].step \in Active
  BY DEF SequenceBreaks, Active
<1> PICK o \in Ops : o = Op(c)
  BY <1>1, InControl
<1>2. Busy(c) /\ control = c /\ call[c] \in CallRecord /\ call[c].op = o
  BY <1>1, InControl DEF Op
<1>3. Quiet(c) /\ mem' = mem /\ Remembers(c)
  BY DEF Quiet, Remembers, IInv, Types, TypeOK, store, SequenceBreaks
<1> PICK tried \in BOOLEAN, reached \in BOOLEAN, lost \in BOOLEAN,
         body \in {Op(c), "broken"} :
      LET uploading == At(c, "upload")
          uploaded == Op(c) \in Acked
                      /\ (call[c].uploaded \/ (uploading /\ tried))
      IN  /\ Broken(c, tried, reached,
                    IF uploading THEN Holds(c, body) ELSE Shows(c))
          /\ IF lost /\ MayRetry(c, uploaded)
             THEN /\ call' = [call EXCEPT ![c].step = "attempt",
                                          ![c].attempt = @ + 1,
                                          ![c].touched = @ \/ tried,
                                          ![c].uploaded = uploaded]
                  /\ UNCHANGED <<lock, control, excused>>
             ELSE Raise(c, tried)
  BY DEF SequenceBreaks
<1> DEFINE again == Op(c) \in Acked /\ (call[c].uploaded \/ (At(c, "upload") /\ tried))
           d == IF At(c, "upload") THEN Holds(c, body) ELSE Shows(c)
<1>7. Keeps(c, d)
  BY <1>2, ShapesKeep DEF Bodies
<1>8. Broken(c, tried, reached, d)
  OBVIOUS
<1> PICK uploaded \in BOOLEAN :
      \/ Raise(c, tried)
      \/ /\ call' = [call EXCEPT ![c].step = "attempt",
                                 ![c].attempt = @ + 1,
                                 ![c].touched = @ \/ tried,
                                 ![c].uploaded = uploaded]
         /\ UNCHANGED <<lock, control, excused>>
  <2>1. again \in BOOLEAN
    OBVIOUS
  <2> QED
    BY <2>1
<1> HIDE DEF again, d
<1>4. Writes(c) /\ (tried \/ harmed' = harmed)
  BY <1>1, <1>7, <1>8, BrokenWrites
<1>5. CASE Raise(c, tried)
  BY <1>2, <1>3, <1>4, <1>5, RaiseKeeps
<1>6. CASE /\ call' = [call EXCEPT ![c].step = "attempt", ![c].attempt = @ + 1,
                                   ![c].touched = @ \/ tried, ![c].uploaded = uploaded]
           /\ UNCHANGED <<lock, control, excused>>
  <2> PICK touched \in BOOLEAN : touched = (call[c].touched \/ tried)
    OBVIOUS
  <2> PICK attempt \in Nat : attempt = call[c].attempt + 1
    BY <1>2 DEF CallRecord
  <2> DEFINE x == [call[c] EXCEPT !.step = "attempt", !.attempt = attempt,
                                  !.touched = touched, !.uploaded = uploaded]
  <2>1. x \in CallRecord /\ x.op = o /\ x.step = "attempt" /\ x.touched = touched
    BY ZenonT(60), <1>2 DEF CallRecord, Steps, Working, Active
  <2>2. call' = [call EXCEPT ![c] = x]
    BY <1>6 DEF IInv, Types
  <2> HIDE DEF x
  <2>3. x.touched \/ (~call[c].touched /\ harmed' = harmed)
    BY <1>4, <2>1
  <2> QED
    BY <1>1, <1>3, <1>4, <1>6, <2>1, <2>2, <2>3, GotoKeeps DEF Active, AfterWrite
<1> QED
  BY <1>5, <1>6

-----------------------------------------------------------------------------
(* The read-back.                                                          *)

\* A read-back confirms, contradicts or says nothing.
LEMMA ObserveKeeps ==
    ASSUME IInv, NEW c \in Calls, Observe(c)
    PROVE  IInv'
<1>1. call[c].step = "observe" /\ call[c].step \in Active /\ call[c].step \in AfterWrite
  BY DEF Observe, At, Active, AfterWrite
<1> PICK o \in Ops : o = Op(c)
  BY <1>1, InControl
<1>2. Busy(c) /\ control = c /\ call[c] \in CallRecord /\ call[c].op = o /\ call[c].touched
  BY <1>1, InControl DEF Op
<1>3. /\ UNCHANGED <<lock, control, excused>> /\ UNCHANGED <<device, harmed, mem>>
      /\ Writes(c) /\ Remembers(c)
  BY NothingWritten DEF Observe, store
<1>11. PICK report \in Reports(c) :
      /\ seen' = IF report = "match" THEN seen \cup {o} ELSE seen
      /\ \E readAgain \in BOOLEAN, writeAgain \in BOOLEAN :
         call' = [call EXCEPT ![c] =
            CASE Confirms(report) -> Putting(call[c], Phased(o, "confirmed"), "end")
              [] ~Confirms(report) /\ readAgain -> [call[c] EXCEPT !.reads = @ + 1]
              [] ~Confirms(report) /\ ~readAgain /\ writeAgain ->
                    Putting([call[c] EXCEPT !.tries = @ + 1, !.reads = 1],
                            Phased(o, IF o \in Profiles THEN "uploading" ELSE "activating"),
                            IF o \in Profiles THEN "apply" ELSE "again")
              [] OTHER -> CleanedUp(call[c], "unconfirmed", "inside")]
  <2>2. PICK report \in Reports(c) :
        LET cc == call[c]
            isProfile == Op(c) \in Profiles
            readAgain == /\ profile.readable
                         /\ cc.reads < VerificationAttempts
                         /\ IF isProfile THEN ~profile.retry
                            ELSE report = "nothing"
            writeAgain == /\ profile.readable
                          /\ cc.tries < VerificationAttempts
                          /\ IF isProfile THEN profile.retry
                             ELSE report = "mismatch"
        IN  /\ seen' = IF report = "match" THEN seen \cup {Op(c)} ELSE seen
            /\ call' = [call EXCEPT ![c] =
                CASE Confirms(report) ->
                        Putting(cc, Phased(Op(c), "confirmed"), "end")
                  [] ~Confirms(report) /\ readAgain ->
                        [cc EXCEPT !.reads = @ + 1]
                  [] ~Confirms(report) /\ ~readAgain /\ writeAgain ->
                        Putting([cc EXCEPT !.tries = @ + 1, !.reads = 1],
                                Phased(Op(c), IF isProfile THEN "uploading"
                                              ELSE "activating"),
                                IF isProfile THEN "apply" ELSE "again")
                  [] OTHER -> CleanedUp(cc, "unconfirmed", "inside")]
    BY DEF Observe
  <2> DEFINE readAgain == /\ profile.readable
                          /\ call[c].reads < VerificationAttempts
                          /\ IF o \in Profiles THEN ~profile.retry
                             ELSE report = "nothing"
             writeAgain == /\ profile.readable
                           /\ call[c].tries < VerificationAttempts
                           /\ IF o \in Profiles THEN profile.retry
                              ELSE report = "mismatch"
  <2>1. readAgain \in BOOLEAN /\ writeAgain \in BOOLEAN
    OBVIOUS
  <2> QED
    BY <2>1, <2>2
<1>12. PICK readAgain \in BOOLEAN, writeAgain \in BOOLEAN :
      call' = [call EXCEPT ![c] =
            CASE Confirms(report) -> Putting(call[c], Phased(o, "confirmed"), "end")
              [] ~Confirms(report) /\ readAgain -> [call[c] EXCEPT !.reads = @ + 1]
              [] ~Confirms(report) /\ ~readAgain /\ writeAgain ->
                    Putting([call[c] EXCEPT !.tries = @ + 1, !.reads = 1],
                            Phased(o, IF o \in Profiles THEN "uploading" ELSE "activating"),
                            IF o \in Profiles THEN "apply" ELSE "again")
              [] OTHER -> CleanedUp(call[c], "unconfirmed", "inside")]
  BY <1>11
<1>4. Quiet(c)
  BY <1>11 DEF Quiet, IInv, Types, TypeOK, store, Observe
<1>5. CASE Confirms(report)
  <2> DEFINE rec == Phased(o, "confirmed")
  <2>1. rec \in Records /\ rec.phase = "confirmed"
    BY PhasedFields DEF Phases
  <2>2. call' = [call EXCEPT ![c] = Putting(call[c], rec, "end")] /\ o \in seen'
    BY <1>5, <1>11, <1>12 DEF Confirms
  <2> HIDE DEF rec
  <2> QED
    BY <1>2, <1>3, <1>4, <2>1, <2>2, PuttingKeeps DEF Nexts, Active, AfterWrite, Terminal
<1>6. CASE ~Confirms(report) /\ readAgain
  <2> DEFINE x == [call[c] EXCEPT !.reads = @ + 1]
  <2>1. x \in CallRecord /\ x.op = o /\ x.step = "observe" /\ x.touched
    BY <1>1, <1>2 DEF CallRecord
  <2>2. call' = [call EXCEPT ![c] = x]
    BY <1>6, <1>12
  <2> HIDE DEF x
  <2> QED
    BY <1>1, <1>3, <1>4, <2>1, <2>2, GotoKeeps
<1>7. CASE ~Confirms(report) /\ ~readAgain /\ writeAgain
  <2> PICK tries \in Nat : tries = call[c].tries + 1
    BY <1>2 DEF CallRecord
  <2> DEFINE cc == [call[c] EXCEPT !.tries = tries, !.reads = 1]
             phase == IF o \in Profiles THEN "uploading" ELSE "activating"
             next == IF o \in Profiles THEN "apply" ELSE "again"
             rec == Phased(o, phase)
  <2>1. cc \in CallRecord /\ cc.op = o /\ cc.touched
    BY <1>2 DEF CallRecord
  <2>2. phase \in {"uploading", "activating"} /\ next \in {"apply", "again"}
    OBVIOUS
  <2>3. rec \in Records /\ rec.phase = phase
    BY PhasedFields DEF Phases, MayHaveWritten
  <2>4. call' = [call EXCEPT ![c] = Putting(cc, rec, next)]
    BY <1>7, <1>12
  <2> HIDE DEF cc, phase, next, rec
  <2> QED
    BY <1>2, <1>3, <1>4, <2>1, <2>2, <2>3, <2>4, PuttingKeeps
    DEF Nexts, Active, AfterWrite, MayHaveWritten
<1>8. CASE ~Confirms(report) /\ ~readAgain /\ ~writeAgain
  <2>1. call' = [call EXCEPT ![c] = CleanedUp(call[c], "unconfirmed", "inside")]
    BY <1>8, <1>12
  <2>2. "unconfirmed" \in Errors
    BY DEF Errors
  <2> QED
    BY <1>2, <1>3, <1>4, <2>1, <2>2, CleanUpKeeps
<1> QED
  BY <1>5, <1>6, <1>7, <1>8

\* A read-back that fails is no confirmation.
LEMMA ObserveRaisesKeeps ==
    ASSUME IInv, NEW c \in Calls, ObserveRaises(c)
    PROVE  IInv'
<1>1. call[c].step = "observe" /\ call[c].step \in Active /\ call[c].step \in AfterWrite
  BY DEF ObserveRaises, At, Active, AfterWrite
<1> PICK o \in Ops : o = Op(c)
  BY <1>1, InControl
<1>2. Busy(c) /\ control = c /\ call[c] \in CallRecord /\ call[c].op = o /\ call[c].touched
  BY <1>1, InControl DEF Op
<1>3. UNCHANGED <<device, harmed, mem>> /\ Writes(c) /\ Remembers(c) /\ Quiet(c)
  BY NothingWritten DEF ObserveRaises, store, Quiet, IInv, Types, TypeOK
<1>4. CASE Raise(c, FALSE)
  BY <1>2, <1>3, <1>4, RaiseKeeps
<1>5. CASE /\ call' = [call EXCEPT ![c].reads = @ + 1]
           /\ UNCHANGED <<lock, control, excused>>
  <2> DEFINE x == [call[c] EXCEPT !.reads = @ + 1]
  <2>1. x \in CallRecord /\ x.op = o /\ x.step = "observe" /\ x.touched
    BY <1>1, <1>2 DEF CallRecord
  <2>2. call' = [call EXCEPT ![c] = x]
    BY <1>5 DEF IInv, Types
  <2> HIDE DEF x
  <2> QED
    BY <1>1, <1>3, <1>5, <2>1, <2>2, GotoKeeps
<1> QED
  BY <1>4, <1>5 DEF ObserveRaises

-----------------------------------------------------------------------------
(* Admission.                                                              *)

\* A call is submitted with an operation id, new or used before.
LEMMA SubmitKeeps ==
    ASSUME IInv, NEW c \in Calls, NEW o \in Ops, Submit(c, o)
    PROVE  IInv'
<1> DEFINE x == [call[c] EXCEPT !.step = "locking", !.op = o]
<1>1. call[c] \in CallRecord /\ call[c].step = "idle" /\ CallInv(c)
  BY DEF IInv, Types, Submit, At
<1>2. x \in CallRecord /\ x.step = "locking" /\ x.op = o /\ x.touched = call[c].touched
  BY <1>1 DEF CallRecord, Steps
<1>3. call' = [call EXCEPT ![c] = x]
  BY DEF Submit, IInv, Types
<1> HIDE DEF x
<1>4. UNCHANGED <<profile, up, device, mem, disk, delayed, saving, lock, control,
                  before, harmed, seen, answered, excused>>
  BY DEF Submit, store, history
<1>5. ~Busy(c) /\ ~Busy(c)'
  BY <1>1, <1>2, <1>3 DEF Busy, Working, Active, IInv, Types
<1>6. \A d \in Calls : d # c =>
          call'[d] = call[d] /\ (Busy(d)' <=> Busy(d)) /\ Op(d)' = Op(d)
  BY <1>3 DEF Busy, Op, IInv, Types
<1>7. Types'
  BY <1>2, <1>3, <1>4 DEF IInv, Types, TypeOK
<1>8. ASSUME NEW d \in Calls PROVE CallInv(d)' /\ DeviceInv(d)'
  <2>1. CallInv(d) /\ DeviceInv(d)
    BY DEF IInv
  <2>2. CASE d = c
    <3>1. CallInv(d)'
      BY <1>1, <1>2, <1>3, <1>5, <2>2 DEF CallInv, IInv, Types, Op
    <3>2. control' # d
      BY <1>4, <1>5, <2>1, <2>2 DEF DeviceInv
    <3> QED
      BY <3>1, <3>2 DEF DeviceInv
  <2>3. CASE d # c
    <3>1. call'[d] = call[d] /\ Op(d)' = Op(d) /\ (Busy(d)' <=> Busy(d))
      BY <1>6, <2>3
    <3>2. TouchInv(d) /\ ControlInv(d) /\ RestoreInv(d)
          => TouchInv(d)' /\ ControlInv(d)' /\ RestoreInv(d)'
      BY <1>4, <3>1 DEF TouchInv, ControlInv, RestoreInv, Overwritten, Prior
    <3>3. RecordInv(d) => RecordInv(d)'
      BY <1>4, <3>1 DEF RecordInv, PutInv
    <3> QED
      BY <1>4, <2>1, <3>1, <3>2, <3>3 DEF CallInv, DeviceInv
  <2> QED
    BY <2>2, <2>3
<1>9. ASSUME NEW p \in Ops PROVE OpInv(p)'
  <2>1. (\A e \in Calls : Busy(e)' => Op(e)' # p) => (\A e \in Calls : Busy(e) => Op(e) # p)
    BY <1>5, <1>6
  <2> QED
    BY <1>4, <2>1 DEF OpInv, IInv
<1> QED
  BY <1>7, <1>8, <1>9 DEF IInv

\* A call that gets the lock of its operation, or learns what became of it.
LEMMA LockedKeeps ==
    ASSUME IInv, NEW c \in Calls, Locked(c)
    PROVE  IInv'
<1> PICK o \in Ops : o = Op(c)
  BY DEF IInv, CallInv, Locked, At
<1>1. /\ call[c] \in CallRecord /\ call[c].step = "locking" /\ up /\ lock[o] = None
      /\ CallInv(c) /\ DeviceInv(c) /\ OpInv(o) /\ ~call[c].touched
  BY DEF IInv, Types, CallInv, Locked, At
<1>2. UNCHANGED <<profile, up, device, mem, disk, delayed, saving,
                  before, harmed, seen, excused>>
  BY DEF Locked, store
<1>3. ~Busy(c) /\ control # c
  BY <1>1 DEF Busy, Working, Active, DeviceInv
<1>4. \A d \in Calls \ {c} : Busy(d) => Op(d) # Op(c)
  BY <1>1, BusyFacts, NoneAssumption
<1>5. CASE ~Known(o)
  <2> DEFINE x == [call[c] EXCEPT !.step = "claiming"]
  <2>1. x \in CallRecord /\ x.step = "claiming" /\ x.op = o /\ x.touched = FALSE
    BY <1>1 DEF CallRecord, Steps, Working, Op
  <2>2. /\ call' = [call EXCEPT ![c] = x] /\ lock' = [lock EXCEPT ![o] = c]
        /\ UNCHANGED <<control, answered>>
    BY <1>5 DEF Locked, Goto, IInv, Types
  <2> HIDE DEF x
  <2>3. Local(c)
    BY <1>2, <2>2 DEF Local, IInv, Types, TypeOK
  <2>4. /\ \A d \in Calls \ {c} : CallInv(d)' /\ DeviceInv(d)'
        /\ \A p \in Ops \ {Op(c)} : OpInv(p)'
    BY <1>4, <2>1, <2>2, <2>3, OthersKeep
  <2>5. call'[c] = x /\ Op(c)' = o /\ Busy(c)' /\ lock'[o] = c
    BY <2>1, <2>2 DEF IInv, Types, TypeOK, Op, Busy, Working
  <2>6. mem[o].phase = "absent" /\ o \notin harmed
    BY <1>1, <1>5 DEF Known, Absent, OpInv
  <2>7. CallInv(c)'
    BY <1>1, <1>2, <2>1, <2>5, <2>6
    DEF CallInv, TouchInv, ControlInv, RecordInv, RestoreInv, Active, AfterWrite
  <2>8. DeviceInv(c)'
    BY <1>3, <2>2 DEF DeviceInv
  <2>9. OpInv(o)'
    BY <1>1, <1>2, <2>2, <2>5 DEF OpInv
  <2>10. Types'
    BY <1>2, <2>1, <2>2 DEF IInv, Types, TypeOK
  <2> QED
    BY <2>4, <2>7, <2>8, <2>9, <2>10 DEF IInv
<1>6. CASE Known(o)
  <2> PICK result \in Results : End(c, result)
    BY <1>6 DEF Locked, Results, Phases
  <2> DEFINE x == Ended(call[c], result)
  <2>1. x \in CallRecord /\ x.step = "done" /\ x.op = o
    BY <1>1, EndedFields DEF Op
  <2>2. /\ call' = [call EXCEPT ![c] = x]
        /\ lock' = [p \in Ops |-> Released(lock[p], c)] /\ control' = Released(control, c)
        /\ answered' = IF mem[o].phase = "confirmed" THEN answered \cup {o} ELSE answered
    BY <1>6 DEF End, Locked
  <2> HIDE DEF x
  <2>3. control' = control
    BY <1>3, <2>2 DEF Released
  <2>4. \A p \in Ops \ {o} : /\ lock'[p] = lock[p] \/ lock[p] = c
                             /\ p \in answered' <=> p \in answered
    BY <2>2 DEF Released
  <2>5. Local(c)
    BY <1>2, <2>3, <2>4 DEF Local
  <2>6. /\ \A d \in Calls \ {c} : CallInv(d)' /\ DeviceInv(d)'
        /\ \A p \in Ops \ {Op(c)} : OpInv(p)'
    BY <1>4, <2>1, <2>2, <2>5, OthersKeep
  <2>7. call'[c] = x /\ Op(c)' = o /\ ~Busy(c)'
    BY <2>1, <2>2 DEF IInv, Types, TypeOK, Op, Busy, Working, Active
  <2>8. CallInv(c)' /\ DeviceInv(c)'
    BY <1>3, <2>1, <2>3, <2>7 DEF CallInv, DeviceInv
  <2>9. (\A e \in Calls : Busy(e)' => Op(e)' # o) => (\A e \in Calls : Busy(e) => Op(e) # o)
    BY <1>3, <2>2 DEF Busy, Op, IInv, Types
  <2>10. OpInv(o)'
    BY <1>1, <1>2, <2>2, <2>9 DEF OpInv
  <2>11. Types'
    <3>1. lock' \in [Ops -> Calls \cup {None}] /\ answered' \subseteq Ops
      BY <2>2 DEF IInv, Types, TypeOK, Released
    <3> QED
      BY <1>2, <2>1, <2>2, <2>3, <3>1 DEF IInv, Types, TypeOK
  <2> QED
    BY <2>6, <2>8, <2>10, <2>11 DEF IInv
<1> QED
  BY <1>5, <1>6

\* What the device shows is what has to be restored.
LEMMA AdmittedKeeps ==
    ASSUME IInv, NEW c \in Calls, Admitted(c)
    PROVE  IInv'
<1>1. call[c].step = "claiming" /\ Busy(c) /\ control = None
  BY DEF Admitted, At, Busy, Working
<1> PICK o \in Ops : o = Op(c)
  BY <1>1, BusyFacts
<1>2. /\ call[c] \in CallRecord /\ up /\ lock[o] = c /\ TouchInv(c) /\ RecordInv(c)
      /\ ~call[c].touched /\ o \notin harmed /\ OpInv(o)
  BY <1>1, BusyFacts DEF TouchInv, IInv
<1>3. UNCHANGED <<profile, up, device, mem, disk, delayed, saving, lock,
                  harmed, seen, answered, excused>>
      /\ control' = c /\ before' = [before EXCEPT ![o] = Look(device)]
  BY DEF Admitted, store
<1>4. PICK x \in CallRecord :
        /\ x.step = "put" /\ x.put = New /\ x.next = "prepare"
        /\ x.op = o /\ x.touched = FALSE /\ call' = [call EXCEPT ![c] = x]
  <2> DEFINE x == Putting(call[c], New, "prepare")
  <2>1. New \in Records /\ "prepare" \in Nexts
    BY DEF New, Records, Nexts
  <2>2. /\ x \in CallRecord /\ x.step = "put" /\ x.put = New /\ x.next = "prepare"
        /\ x.op = o /\ x.touched = FALSE
    BY <1>2, <2>1, PuttingFields DEF CallRecord, Op
  <2>3. call' = [call EXCEPT ![c] = x]
    BY DEF Admitted, Put
  <2> HIDE DEF x
  <2> QED
    BY <2>2, <2>3
<1>5. call' = [call EXCEPT ![c] = x]
  BY <1>4
<1>6. Local(c)
  BY <1>1, <1>3, NoneAssumption DEF Local, IInv, Types
<1>7. /\ \A d \in Calls \ {c} : CallInv(d)' /\ DeviceInv(d)'
      /\ \A p \in Ops \ {Op(c)} : OpInv(p)'
  BY <1>1, <1>4, <1>5, <1>6, OthersKeep, OwnOperation
<1>8. call'[c] = x /\ Op(c)' = o /\ Busy(c)'
  BY <1>4, <1>5 DEF IInv, Types, Op, Busy, Working
<1>9. PutInv(x)'
  BY <1>2, <1>3, <1>4 DEF PutInv, New, Nexts, Active, AfterWrite
<1>10. RecordInv(c)'
  <2>1. PutInv(call[c])'
    BY <1>8, <1>9
  <2> QED
    BY <1>2, <1>3, <1>4, <1>8, <2>1 DEF RecordInv, Active
<1>11. CallInv(c)'
  BY <1>2, <1>3, <1>4, <1>8, <1>10
  DEF CallInv, TouchInv, ControlInv, RestoreInv, AfterWrite
<1>12. Look(device) \in [on : BOOLEAN, shows : Selectors, body : Bodies]
  BY DEF Look, IInv, Types, TypeOK, Bodies
<1>13. Types'
  BY <1>3, <1>4, <1>5, <1>12 DEF IInv, Types, TypeOK
<1>14. DeviceInv(c)'
  <2>1. before'[o] = Look(device)
    BY <1>3 DEF IInv, Types
  <2> QED
    BY <1>2, <1>3, <1>8, <2>1 DEF DeviceInv, Look
<1>15. OpInv(o)'
  BY <1>2, <1>3, <1>8 DEF OpInv
<1> QED
  BY <1>7, <1>11, <1>13, <1>14, <1>15 DEF IInv

-----------------------------------------------------------------------------
(* async_put.                                                              *)

\* The store has the record, and nobody else writes to the store until memory
\* follows or the call is cancelled.
LEMMA SaveReachesKeeps ==
    ASSUME IInv, NEW c \in Calls, SaveReaches(c)
    PROVE  IInv'
<1>1. call[c].step = "put" /\ Busy(c) /\ saving = None
  BY DEF SaveReaches, At, Busy, Working
<1> PICK o \in Ops : o = Op(c)
  BY <1>1, BusyFacts
<1>2. /\ call[c] \in CallRecord /\ up /\ lock[o] = c /\ TouchInv(c) /\ RecordInv(c)
      /\ ControlInv(c) /\ PutInv(call[c]) /\ o \notin answered /\ OpInv(o) /\ DeviceInv(c)
  BY <1>1, BusyFacts DEF RecordInv, IInv
<1>3. UNCHANGED <<profile, up, device, mem, lock, control, before,
                  harmed, seen, answered, excused>>
      /\ saving' = c /\ delayed' = FALSE
  BY DEF SaveReaches, history
<1> PICK rec \in Records : rec = call[c].put
  BY <1>2 DEF CallRecord
<1>4. disk' = [mem EXCEPT ![o] = rec]
  BY DEF SaveReaches, Candidate
<1>5. PICK x \in CallRecord :
        /\ x.step = "saved" /\ x.put = rec /\ x.next = call[c].next
        /\ x.op = o /\ x.touched = call[c].touched /\ call' = [call EXCEPT ![c] = x]
  <2> DEFINE x == [call[c] EXCEPT !.step = "saved"]
  <2>1. /\ x \in CallRecord /\ x.step = "saved" /\ x.put = rec /\ x.next = call[c].next
        /\ x.op = o /\ x.touched = call[c].touched
    BY <1>2 DEF CallRecord, Steps, Working, Op
  <2>2. call' = [call EXCEPT ![c] = x]
    BY DEF SaveReaches, Goto, IInv, Types
  <2> HIDE DEF x
  <2> QED
    BY <2>1, <2>2
<1>6. Local(c)
  <2>1. \A p \in Ops \ {o} : disk'[p] = mem[p]
    BY <1>4 DEF IInv, Types, TypeOK
  <2>2. \A d \in Calls : saving # d
    BY <1>1, NoneAssumption
  <2> QED
    BY <1>1, <1>2, <1>3, <2>1, <2>2 DEF Local
<1>7. /\ \A d \in Calls \ {c} : CallInv(d)' /\ DeviceInv(d)'
      /\ \A p \in Ops \ {Op(c)} : OpInv(p)'
  BY <1>1, <1>5, <1>6, OthersKeep, OwnOperation
<1>8. call'[c] = x /\ Op(c)' = o /\ Busy(c)' /\ disk'[o] = rec /\ mem'[o] = mem[o]
  BY <1>3, <1>4, <1>5 DEF IInv, Types, TypeOK, Op, Busy, Working
<1>9. PutInv(call[c])'
  <2>1. call[c].op = o
    BY DEF Op
  <2> QED
    BY <1>2, <1>3, <1>5, <1>8, <2>1 DEF PutInv
<1>10. RecordInv(c)'
  BY <1>2, <1>3, <1>5, <1>8, <1>9 DEF RecordInv, Active
<1>11. CallInv(c)'
  BY <1>1, <1>2, <1>3, <1>5, <1>8, <1>10
  DEF CallInv, TouchInv, ControlInv, RestoreInv, AfterWrite
<1>12. Types'
  <2>1. disk' \in [Ops -> Records]
    BY <1>4 DEF IInv, Types, TypeOK
  <2>2. rec.phase # "absent"
    BY <1>2 DEF PutInv
  <2>3. \A p \in Ops : disk'[p].phase = "absent" => disk'[p] = Absent
    BY <1>4, <2>2 DEF IInv, Types, TypeOK
  <2> QED
    BY <1>3, <1>5, <2>1, <2>3 DEF IInv, Types, TypeOK
<1>13. DeviceInv(c)'
  BY <1>2, <1>3, <1>8 DEF DeviceInv
<1>14. OpInv(o)'
  <2>1. rec.phase # "absent" /\ (rec.phase \in {"compiling", "failed"} => o \notin harmed)
        /\ (rec.phase = "confirmed" => o \in seen)
    BY <1>2 DEF PutInv, Op
  <2>2. mem[o].phase # "confirmed"
    BY <1>2 DEF RecordInv, MayHaveWritten
  <2> QED
    BY <1>2, <1>3, <1>8, <2>1, <2>2 DEF OpInv
<1> QED
  BY <1>7, <1>11, <1>12, <1>13, <1>14 DEF IInv

\* Memory follows, and the call goes on or returns.
LEMMA SaveReturnsKeeps ==
    ASSUME IInv, NEW c \in Calls, SaveReturns(c)
    PROVE  IInv'
<1>1. call[c].step = "saved" /\ Busy(c)
  BY DEF SaveReturns, At, Busy, Working
<1> PICK o \in Ops : o = Op(c)
  BY <1>1, BusyFacts
<1>2. /\ call[c] \in CallRecord /\ up /\ lock[o] = c /\ TouchInv(c) /\ RecordInv(c)
      /\ ControlInv(c) /\ PutInv(call[c]) /\ o \notin answered /\ OpInv(o) /\ DeviceInv(c)
      /\ saving = c
  BY <1>1, BusyFacts DEF RecordInv, IInv
<1>3. UNCHANGED <<profile, up, device, disk, delayed, before, harmed, seen, excused>>
      /\ saving' = None
  BY DEF SaveReturns
<1> PICK rec \in Records : rec = call[c].put
  BY <1>2 DEF CallRecord
<1>4. mem' = [mem EXCEPT ![o] = rec] /\ disk[o] = rec
  BY <1>1, <1>2 DEF SaveReturns, RecordInv
<1>5. /\ mem' \in [Ops -> Records] /\ mem'[o] = rec
      /\ \A p \in Ops \ {o} : mem'[p] = mem[p]
      /\ \A p \in Ops : mem'[p].phase = "absent" => mem'[p] = Absent
  <2>1. rec.phase # "absent"
    BY <1>2 DEF PutInv
  <2> QED
    BY <1>4, <2>1 DEF IInv, Types, TypeOK
<1>6. /\ rec.phase # "absent" /\ (rec.phase \in {"compiling", "failed"} => o \notin harmed)
      /\ rec.phase = "confirmed" => o \in seen
  BY <1>2 DEF PutInv, Op
<1>7. CASE call[c].next # "end"
  <2>1. UNCHANGED <<lock, control, answered>>
    BY <1>7 DEF SaveReturns
  <2>2. PICK x \in CallRecord : /\ x.step = call[c].next /\ x.op = o
                                /\ x.touched = call[c].touched
                                /\ call' = [call EXCEPT ![c] = x]
    <3> DEFINE x == [call[c] EXCEPT !.step = call[c].next]
    <3>1. call[c].next \in Steps
      BY <1>2, <1>7 DEF PutInv, Nexts, Steps, Working, Active
    <3>2. /\ x \in CallRecord /\ x.step = call[c].next /\ x.op = o
          /\ x.touched = call[c].touched
      BY <1>2, <3>1 DEF CallRecord, Op
    <3>3. call' = [call EXCEPT ![c] = x]
      BY <1>7 DEF SaveReturns, Goto, IInv, Types
    <3> HIDE DEF x
    <3> QED
      BY <3>2, <3>3
  <2>3. x.step \in {"prepare", "begin", "power", "apply", "attempt", "observe",
                    "again", "restore"}
    BY <1>2, <1>7, <2>2 DEF PutInv, Nexts
  <2>4. Local(c)
    BY <1>2, <1>3, <1>5, <2>1 DEF Local
  <2>5. /\ \A d \in Calls \ {c} : CallInv(d)' /\ DeviceInv(d)'
        /\ \A p \in Ops \ {Op(c)} : OpInv(p)'
    BY <1>1, <2>2, <2>4, OthersKeep, OwnOperation
  <2>6. call'[c] = x /\ Op(c)' = o /\ Busy(c)'
    BY <2>2, <2>3 DEF IInv, Types, Op, Busy, Working, Active
  <2>7. RecordInv(c)'
    BY <1>2, <1>3, <1>4, <1>5, <2>2, <2>3, <2>6 DEF RecordInv, PutInv, Active
  <2>8. TouchInv(c)' /\ ControlInv(c)'
    BY <1>1, <1>2, <1>3, <1>7, <2>1, <2>2, <2>3, <2>6 DEF TouchInv, ControlInv, PutInv
  <2>9. CallInv(c)'
    BY <1>2, <1>3, <2>1, <2>2, <2>3, <2>6, <2>7, <2>8 DEF CallInv, RestoreInv
  <2>10. DeviceInv(c)'
    BY <1>2, <1>3, <2>1, <2>6 DEF DeviceInv
  <2>11. OpInv(o)'
    BY <1>2, <1>3, <1>4, <1>5, <1>6, <2>1, <2>6 DEF OpInv
  <2>12. Types'
    BY <1>2, <1>3, <1>5, <2>1, <2>2 DEF IInv, Types, TypeOK
  <2> QED
    BY <2>5, <2>9, <2>10, <2>11, <2>12 DEF IInv
<1>8. CASE call[c].next = "end"
  <2>1. Result(c) \in Results /\ (Result(c) = "confirmed" => rec.phase = "confirmed")
    BY <1>2 DEF Result, Results, Phases, Records
  <2>2. /\ call' = [call EXCEPT ![c] = Ended(call[c], Result(c))]
        /\ lock' = [p \in Ops |-> Released(lock[p], c)] /\ control' = Released(control, c)
        /\ answered' = IF Result(c) = "confirmed" THEN answered \cup {o} ELSE answered
    BY <1>8 DEF SaveReturns, End
  <2>3. PICK x \in CallRecord : /\ x.step = "done" /\ x.op = o
                                /\ call' = [call EXCEPT ![c] = x]
    BY <1>2, <2>1, <2>2, EndedFields DEF Op
  <2>4. \A p \in Ops \ {o} : /\ lock'[p] = lock[p] \/ lock[p] = c
                             /\ p \in answered' <=> p \in answered
    BY <2>2 DEF Released
  <2>5. \A d \in Calls \ {c} : /\ saving = d => saving' = d
                               /\ control = d <=> control' = d
    BY <1>2, <2>2, NoneAssumption DEF Released
  <2>6. Local(c)
    BY <1>3, <1>5, <2>4, <2>5 DEF Local
  <2>7. /\ \A d \in Calls \ {c} : CallInv(d)' /\ DeviceInv(d)'
        /\ \A p \in Ops \ {Op(c)} : OpInv(p)'
    BY <1>1, <2>3, <2>6, OthersKeep, OwnOperation
  <2>8. call'[c] = x /\ Op(c)' = o /\ ~Busy(c)'
    BY <2>3 DEF IInv, Types, Op, Busy, Working, Active
  <2>9. control' # c
    BY <2>2, NoneAssumption DEF Released
  <2>10. CallInv(c)' /\ DeviceInv(c)'
    BY <2>3, <2>8, <2>9 DEF CallInv, DeviceInv
  <2>11. OpInv(o)'
    <3>1. rec.phase \in Terminal
      BY <1>2, <1>8 DEF PutInv
    <3> QED
      BY <1>2, <1>3, <1>4, <1>5, <1>6, <2>1, <2>2, <3>1 DEF OpInv
  <2>12. Types'
    <3>1. /\ lock' \in [Ops -> Calls \cup {None}] /\ control' \in Calls \cup {None}
          /\ answered' \subseteq Ops
      BY <2>2 DEF IInv, Types, TypeOK, Released
    <3> QED
      BY <1>2, <1>3, <1>5, <2>3, <3>1 DEF IInv, Types, TypeOK
  <2> QED
    BY <2>7, <2>10, <2>11, <2>12 DEF IInv
<1> QED
  BY <1>7, <1>8

\* A delayed save brings the store up to the memory.
LEMMA DelayedSaveKeeps ==
    ASSUME IInv, DelayedSave
    PROVE  IInv'
<1>1. UNCHANGED <<profile, up, device, mem, saving, lock, control, call,
                  before, harmed, seen, answered, excused>>
      /\ disk' = mem /\ delayed' = FALSE /\ up /\ saving = None
  BY DEF DelayedSave, history
<1>2. Types'
  BY <1>1 DEF IInv, Types, TypeOK
<1>3. ASSUME NEW c \in Calls PROVE CallInv(c)' /\ DeviceInv(c)'
  <2>1. CallInv(c) /\ DeviceInv(c) /\ (Busy(c)' <=> Busy(c)) /\ Op(c)' = Op(c)
    BY <1>1 DEF IInv, Busy, Op
  <2>2. RecordInv(c) => RecordInv(c)'
    BY <1>1, <2>1, NoneAssumption DEF RecordInv, PutInv
  <2>3. TouchInv(c) /\ ControlInv(c) /\ RestoreInv(c)
        => TouchInv(c)' /\ ControlInv(c)' /\ RestoreInv(c)'
    BY <1>1, <2>1 DEF TouchInv, ControlInv, RestoreInv, Overwritten, Prior
  <2> QED
    BY <1>1, <2>1, <2>2, <2>3 DEF CallInv, DeviceInv
<1>4. ASSUME NEW o \in Ops PROVE OpInv(o)'
  <2>1. (\A e \in Calls : Busy(e)' => Op(e)' # o) => (\A e \in Calls : Busy(e) => Op(e) # o)
    BY <1>1 DEF Busy, Op
  <2> QED
    BY <1>1, <2>1 DEF IInv, OpInv
<1> QED
  BY <1>2, <1>3, <1>4 DEF IInv

-----------------------------------------------------------------------------
(* Cancellation, and stops of Home Assistant.                              *)

\* A call that waits for the lock of its operation leaves nothing behind.
LEMMA CancelWaitingKeeps ==
    ASSUME IInv, NEW c \in Calls, Cancel(c), call[c].step = "locking"
    PROVE  IInv'
<1> PICK o \in Ops : o = Op(c)
  BY DEF IInv, CallInv
<1>1. /\ call[c] \in CallRecord /\ OpInv(o) /\ DeviceInv(c)
      /\ UNCHANGED <<profile, up, device, mem, disk, delayed, before, harmed, seen,
                     answered>>
      /\ End(c, "raised") /\ saving' = Released(saving, c)
      /\ excused' = IF call[c].cleaning = "handler" THEN excused \cup {o} ELSE excused
  BY DEF IInv, Types, Cancel
<1>2. ~Busy(c) /\ control # c
  BY <1>1 DEF Busy, Working, Active, DeviceInv
<1>3. PICK x \in CallRecord : /\ x.step = "done" /\ x.op = o
                              /\ call' = [call EXCEPT ![c] = x]
  <2>1. "raised" \in Results
    BY DEF Results
  <2> QED
    BY <1>1, <2>1, EndedFields DEF End, Op
<1>4. control' = control /\ lock' = [p \in Ops |-> Released(lock[p], c)]
  BY <1>1, <1>2 DEF End, Released
<1>5. call'[c] = x /\ ~Busy(c)' /\ Op(c)' = o
      /\ \A d \in Calls \ {c} :
            call'[d] = call[d] /\ (Busy(d)' <=> Busy(d)) /\ Op(d)' = Op(d)
  BY <1>3 DEF IInv, Types, Busy, Op, Working, Active
<1>6. Types'
  <2>1. lock' \in [Ops -> Calls \cup {None}] /\ saving' \in Calls \cup {None}
    BY <1>1, <1>4 DEF IInv, Types, TypeOK, Released
  <2> QED
    BY <1>1, <1>3, <1>4, <2>1 DEF IInv, Types, TypeOK
<1>7. ASSUME NEW d \in Calls PROVE CallInv(d)' /\ DeviceInv(d)'
  <2>1. CASE d = c
    BY <1>2, <1>3, <1>4, <1>5, <2>1 DEF CallInv, DeviceInv
  <2>2. CASE d # c
    <3>1. CallInv(d) /\ DeviceInv(d) /\ call'[d] = call[d] /\ Op(d)' = Op(d)
          /\ (Busy(d)' <=> Busy(d))
      BY <1>5, <2>2 DEF IInv
    <3>2. saving = d => saving' = d
      BY <1>1, <2>2 DEF Released
    <3>3. RecordInv(d) => RecordInv(d)'
      BY <1>1, <3>1, <3>2 DEF RecordInv, PutInv
    <3>4. TouchInv(d) /\ ControlInv(d) /\ RestoreInv(d)
          => TouchInv(d)' /\ ControlInv(d)' /\ RestoreInv(d)'
      BY <1>1, <1>4, <3>1 DEF TouchInv, ControlInv, RestoreInv, Overwritten, Prior
    <3>5. Busy(d) => Op(d) \in Ops /\ lock'[Op(d)] = d
      BY <1>4, <2>2, BusyFacts DEF Released
    <3> QED
      BY <1>1, <1>4, <3>1, <3>3, <3>4, <3>5 DEF CallInv, DeviceInv
  <2> QED
    BY <2>1, <2>2
<1>8. ASSUME NEW p \in Ops PROVE OpInv(p)'
  <2>1. (\A e \in Calls : Busy(e)' => Op(e)' # p) => (\A e \in Calls : Busy(e) => Op(e) # p)
    BY <1>2, <1>5
  <2>2. p \notin excused' => p \notin excused
    BY <1>1
  <2> QED
    BY <1>1, <2>1, <2>2 DEF IInv, OpInv
<1> QED
  BY <1>6, <1>7, <1>8 DEF IInv

\* A cancellation meets the call at any await.
LEMMA CancelKeeps ==
    ASSUME IInv, NEW c \in Calls, Cancel(c)
    PROVE  IInv'
<1>1. CASE call[c].step = "locking"
  BY <1>1, CancelWaitingKeeps
<1>2. CASE call[c].step # "locking"
  <2>1. Busy(c)
    BY <1>2 DEF Cancel, Awaiting, Busy, Working, Active
  <2>2. Quiet(c) /\ UNCHANGED <<device, harmed, mem>>
    BY DEF Quiet, Cancel, IInv, Types, TypeOK
  <2>3. Writes(c) /\ Remembers(c)
    BY <2>2, NothingWritten
  <2>4. CASE call[c].cleaning = "handler"
    <3>1. End(c, "raised") /\ excused' = excused \cup {Op(c)} /\ "raised" \in Results
      BY <2>4 DEF Cancel, Results
    <3> QED
      BY <2>1, <2>2, <2>3, <3>1, EndKeeps
  <2>5. CASE call[c].cleaning # "handler"
    <3>1. call' = [call EXCEPT ![c] = CleanedUp(call[c], "cancelled", "handler")]
          /\ UNCHANGED <<mem, lock, control, excused>> /\ "cancelled" \in Errors
      BY <1>2, <2>2, <2>5 DEF Cancel, CleanUp, Errors
    <3>2. call[c] \in CallRecord /\ call[c].op = Op(c) /\ (call[c].touched => control = c)
          /\ (call[c].touched \/ ~call[c].touched)
      BY <2>1, BusyFacts DEF TouchInv, Op
    <3> QED
      BY <2>1, <2>2, <2>3, <3>1, <3>2, CleanUpKeeps
  <2> QED
    BY <2>4, <2>5
<1> QED
  BY <1>1, <1>2

\* Nobody works any more; the store is what is left.
LEMMA CrashKeeps ==
    ASSUME IInv, Crash
    PROVE  IInv'
<1>1. /\ UNCHANGED <<profile, device, disk, before, harmed, seen, answered, excused>>
      /\ up' = FALSE /\ delayed' = FALSE /\ saving' = None /\ control' = None
      /\ mem' = [o \in Ops |-> Absent] /\ lock' = [o \in Ops |-> None]
  BY DEF Crash, history
<1>2. ASSUME NEW c \in Calls
      PROVE  /\ call'[c] \in CallRecord /\ ~Busy(c)' /\ CallInv(c)' /\ DeviceInv(c)'
  <2>1. call[c] \in CallRecord /\ CallInv(c) /\ "lost" \in Results
    BY DEF IInv, Types, Results
  <2>2. call'[c] = IF call[c].step = "idle" THEN Idle ELSE Ended(call[c], "lost")
    BY DEF Crash
  <2>3. control' # c
    BY <1>1, NoneAssumption
  <2>4. CASE call[c].step = "idle"
    <3>1. Idle \in CallRecord /\ Idle.step = "idle" /\ ~Idle.touched
      BY DEF Idle, CallRecord, Absent, Records, Steps, Errors, Results
    <3> QED
      BY <2>2, <2>3, <2>4, <3>1 DEF CallInv, DeviceInv, Busy, Working, Active
  <2>5. CASE call[c].step # "idle"
    <3>1. Op(c) \in Ops
      BY <2>1, <2>5 DEF CallInv
    <3> PICK x \in CallRecord : call'[c] = x /\ x.step = "done" /\ x.op = Op(c)
      BY <2>1, <2>2, <2>5, EndedFields DEF Op
    <3> QED
      BY <2>3, <3>1 DEF CallInv, DeviceInv, Busy, Working, Active, Op
  <2> QED
    BY <2>4, <2>5
<1>3. call' \in [Calls -> CallRecord]
  BY <1>2 DEF Crash
<1>4. Types'
  <2>1. Absent \in Records
    BY DEF Absent, Records
  <2>2. mem' \in [Ops -> Records] /\ lock' \in [Ops -> Calls \cup {None}]
    BY <1>1, <2>1
  <2>3. TypeOK'
    BY <1>1, <2>2 DEF IInv, Types, TypeOK
  <2> QED
    BY <1>1, <1>3, <2>3 DEF IInv, Types
<1>5. ASSUME NEW o \in Ops PROVE OpInv(o)'
  BY <1>1 DEF IInv, OpInv, Absent
<1> QED
  BY <1>2, <1>4, <1>5 DEF IInv

\* async_load: an interrupted phase is settled, by whether it may have written.
LEMMA RestartKeeps ==
    ASSUME IInv, Restart
    PROVE  IInv'
<1>1. /\ UNCHANGED <<profile, device, delayed, saving, lock, control, call,
                     before, harmed, seen, answered>>
      /\ ~up /\ up' /\ disk' = mem' /\ excused' = {}
      /\ mem' = [o \in Ops |-> [disk[o] EXCEPT !.phase = Loaded(disk[o].phase)]]
  BY DEF Restart
<1>2. ASSUME NEW o \in Ops
      PROVE  /\ mem'[o] \in Records /\ mem'[o].phase = Loaded(disk[o].phase)
             /\ mem'[o].phase = "absent" => mem'[o] = Absent
             /\ mem'[o].phase \in Terminal \cup {"absent"}
             /\ mem'[o].phase = "confirmed" <=> disk[o].phase = "confirmed"
             /\ mem'[o].phase = "absent" => disk[o].phase = "absent"
             /\ mem'[o].phase = "failed" => disk[o].phase \in {"compiling", "failed"}
  <2>1. disk[o] \in Records /\ (disk[o].phase = "absent" => disk[o] = Absent)
    BY DEF IInv, Types, TypeOK
  <2>2. /\ Loaded(disk[o].phase) \in Terminal \cup {"absent"}
        /\ Loaded(disk[o].phase) = "confirmed" <=> disk[o].phase = "confirmed"
        /\ Loaded(disk[o].phase) = "absent" <=> disk[o].phase = "absent"
        /\ Loaded(disk[o].phase) = "failed" => disk[o].phase \in {"compiling", "failed"}
    BY <2>1 DEF Loaded, Records, Terminal, MayHaveWritten
  <2>3. mem'[o] = [disk[o] EXCEPT !.phase = Loaded(disk[o].phase)]
    BY <1>1
  <2>4. Loaded(disk[o].phase) \in {"absent", "confirmed", "failed", "uncertain"}
    BY <2>2 DEF Terminal
  <2> HIDE DEF Loaded
  <2>5. mem'[o] \in Records /\ mem'[o].phase = Loaded(disk[o].phase)
    BY <2>1, <2>3, <2>4 DEF Records
  <2>6. mem'[o].phase = "absent" => mem'[o] = Absent
    BY <2>1, <2>2, <2>3, <2>5 DEF Absent
  <2> QED
    BY <2>2, <2>5, <2>6
<1>3. ASSUME NEW c \in Calls PROVE CallInv(c)' /\ DeviceInv(c)'
  <2>1. CallInv(c) /\ DeviceInv(c) /\ ~Busy(c)
    BY <1>1, BusyFacts DEF IInv
  <2> QED
    BY <1>1, <2>1 DEF CallInv, DeviceInv, Busy, Op
<1>4. mem' \in [Ops -> Records]
  BY <1>1, <1>2
<1>5. Types'
  BY <1>1, <1>2, <1>4 DEF IInv, Types, TypeOK
<1>6. ASSUME NEW o \in Ops PROVE OpInv(o)'
  <2>1. OpInv(o)
    BY DEF IInv
  <2>2. /\ mem'[o].phase \notin {"compiling"}
        /\ mem'[o] # Absent => mem'[o].phase \in Terminal
    BY <1>2 DEF Terminal
  <2> QED
    BY <1>1, <1>2, <2>1, <2>2 DEF OpInv
<1> QED
  BY <1>3, <1>5, <1>6 DEF IInv

-----------------------------------------------------------------------------
(* The invariant, and what it says of the operations.                      *)

\* There are no records and no calls at first.
LEMMA InitIInv == Init => IInv
<1> SUFFICES ASSUME Init PROVE IInv
  OBVIOUS
<1>1. /\ Absent \in Records /\ Absent.phase = "absent"
      /\ Idle \in CallRecord /\ Idle.step = "idle" /\ ~Idle.touched
  BY DEF Idle, CallRecord, Absent, Records, Steps, Errors, Results
<1>2. device \in Device /\ Look(device) \in [on : BOOLEAN, shows : Selectors, body : Bodies]
  BY DEF Init, Device, Bodies, Look
<1>3. Types
  BY <1>1, <1>2 DEF Init, Types, TypeOK, Device, Bodies
<1>4. ASSUME NEW c \in Calls PROVE CallInv(c) /\ DeviceInv(c)
  BY <1>1, NoneAssumption DEF Init, CallInv, DeviceInv, Busy, Working, Active
<1>5. ASSUME NEW o \in Ops PROVE OpInv(o)
  BY <1>1 DEF Init, OpInv
<1> QED
  BY <1>3, <1>4, <1>5 DEF IInv

\* What only counters see keeps the invariant.
LEMMA StutterKeeps == ASSUME IInv, UNCHANGED vars PROVE IInv'
<1>1. UNCHANGED <<profile, up, device, mem, disk, delayed, saving, lock, control,
                  call, before, harmed, seen, answered, excused>>
  BY DEF vars, store, history
<1>2. Types'
  BY <1>1 DEF IInv, Types, TypeOK
<1>3. ASSUME NEW c \in Calls PROVE CallInv(c)' /\ DeviceInv(c)'
  <2>1. CallInv(c) /\ DeviceInv(c) /\ (Busy(c)' <=> Busy(c)) /\ Op(c)' = Op(c)
    BY <1>1 DEF IInv, Busy, Op
  <2>2. RecordInv(c) => RecordInv(c)'
    BY <1>1, <2>1 DEF RecordInv, PutInv
  <2>3. TouchInv(c) /\ ControlInv(c) /\ RestoreInv(c)
        => TouchInv(c)' /\ ControlInv(c)' /\ RestoreInv(c)'
    BY <1>1, <2>1 DEF TouchInv, ControlInv, RestoreInv, Overwritten, Prior
  <2> QED
    BY <1>1, <2>1, <2>2, <2>3 DEF CallInv, DeviceInv
<1>4. ASSUME NEW o \in Ops PROVE OpInv(o)'
  <2>1. (\A e \in Calls : Busy(e)' => Op(e)' # o) => (\A e \in Calls : Busy(e) => Op(e) # o)
    BY <1>1 DEF Busy, Op
  <2> QED
    BY <1>1, <2>1 DEF IInv, OpInv
<1> QED
  BY <1>2, <1>3, <1>4 DEF IInv

\* Every step keeps the invariant.
LEMMA NextIInv == ASSUME IInv, [Next]_vars PROVE IInv'
<1>1. ASSUME NEW c \in Calls, Works(c) PROVE IInv'
  <2>1. CASE Locked(c) \/ Admitted(c)
    BY <2>1, LockedKeeps, AdmittedKeeps
  <2>2. CASE SaveReaches(c) \/ SaveReturns(c)
    BY <2>2, SaveReachesKeeps, SaveReturnsKeeps
  <2>3. CASE \/ SaveRaises(c) \/ PrepareRaises(c)
             \/ PowerRaises(c) \/ ApplyRaises(c) \/ AgainRaises(c)
    BY <2>3, RaisesKeep
  <2>4. CASE Prepare(c) \/ Begin(c) \/ Written(c)
    BY <2>4, ProgressKeeps
  <2>5. CASE Power(c) \/ Attempt(c)
    BY <2>5, PowerKeeps, AttemptKeeps
  <2>6. CASE Upload(c) \/ Select(c) \/ Apply(c)
    BY <2>6, WriteKeeps
  <2>7. CASE SequenceBreaks(c) \/ Again(c)
    BY <2>7, SequenceBreaksKeeps, AgainKeeps
  <2>8. CASE Observe(c) \/ ObserveRaises(c)
    BY <2>8, ObserveKeeps, ObserveRaisesKeeps
  <2>9. CASE NoRestore(c) \/ RestoreRefused(c) \/ RestoreWrites(c) \/ RestoreRaises(c)
    BY <2>9, RestoreKeeps
  <2>10. CASE ReadBack(c) \/ TurnOff(c) \/ TurnOffRaises(c) \/ ReadOff(c)
    BY <2>10, ReadBackKeeps, SwitchOffKeeps
  <2> QED
    BY <1>1, <2>1, <2>2, <2>3, <2>4, <2>5, <2>6, <2>7, <2>8, <2>9, <2>10 DEF Works
<1>2. ASSUME NEW c \in Calls, NEW o \in Ops, Submit(c, o) PROVE IInv'
  BY <1>2, SubmitKeeps
<1>3. ASSUME NEW c \in Calls, Cancel(c) PROVE IInv'
  BY <1>3, CancelKeeps
<1>4. CASE DelayedSave \/ Crash \/ Restart
  BY <1>4, DelayedSaveKeeps, CrashKeeps, RestartKeeps
<1>5. CASE UNCHANGED vars
  BY <1>5, StutterKeeps
<1> QED
  BY <1>1, <1>2, <1>3, <1>4, <1>5 DEF Next

\* Variables, records and what was captured have their types, for any number
\* of operations and calls.
THEOREM DeploymentsTypes == Spec => []TypeOK
<1>1. IInv => TypeOK
  BY DEF IInv, Types
<1> QED
  BY <1>1, InitIInv, NextIInv, PTL DEF Spec

\* An operation that is recorded as failed, in memory or by what a restart
\* makes of the store, left the device as it found it (_async_finish_failure,
\* async_load).
THEOREM FailedIsHarmlessAlways == Spec => []FailedIsHarmless
<1>1. IInv => FailedIsHarmless
  <2> SUFFICES ASSUME IInv, NEW o \in Ops
               PROVE  /\ mem[o].phase = "failed" => o \notin harmed
                      /\ Loaded(disk[o].phase) = "failed" => o \notin harmed
    BY DEF FailedIsHarmless
  <2>1. OpInv(o)
    BY DEF IInv
  <2>2. Loaded(disk[o].phase) = "failed" => disk[o].phase \in {"compiling", "failed"}
    BY DEF Loaded
  <2> QED
    BY <2>1, <2>2 DEF OpInv
<1> QED
  BY <1>1, InitIInv, NextIInv, PTL DEF Spec

\* A confirmed operation was read back from the device (_async_verify).
THEOREM ConfirmedWasSeenAlways == Spec => []ConfirmedWasSeen
<1>1. IInv => ConfirmedWasSeen
  BY DEF IInv, OpInv, ConfirmedWasSeen
<1> QED
  BY <1>1, InitIInv, NextIInv, PTL DEF Spec

\* What a caller was told is confirmed stays so in the store, over delayed
\* saves, other operations, retries and restarts (async_put).
THEOREM AnswerSurvivesAlways == Spec => []AnswerSurvives
<1>1. IInv => AnswerSurvives
  BY DEF IInv, Types, TypeOK, OpInv, AnswerSurvives
<1> QED
  BY <1>1, InitIInv, NextIInv, PTL DEF Spec

\* A call that ended leaves no record in a phase of work, unless its clean-up
\* was itself cut short.
THEOREM EndsTerminalAlways == Spec => []EndsTerminal
<1>1. IInv => EndsTerminal
  <2> SUFFICES ASSUME IInv, NEW o \in Ops, up, mem[o] # Absent, o \notin excused,
                      \A c \in Calls : Op(c) = o => call[c].step \in {"done", "locking"}
               PROVE  mem[o].phase \in Terminal
    BY DEF EndsTerminal
  <2>1. \A c \in Calls : Busy(c) => Op(c) # o
    BY DEF Busy, Working, Active
  <2> QED
    BY <2>1 DEF IInv, OpInv
<1> QED
  BY <1>1, InitIInv, NextIInv, PTL DEF Spec

\* A call changes only its own record.
LEMMA OwnCall ==
    ASSUME IInv, NEW d \in Calls, Works(d) \/ Cancel(d) \/ (\E o \in Ops : Submit(d, o)),
           NEW c \in Calls \ {d}
    PROVE  call'[c] = call[c]
<1> USE DEF Goto, Put, End, Raise, CleanUp
<1>1. call \in [Calls -> CallRecord]
  BY DEF IInv, Types
<1>2. CASE (\E o \in Ops : Submit(d, o)) \/ Cancel(d) \/ Locked(d) \/ Admitted(d)
  BY <1>1, <1>2 DEF Submit, Cancel, Locked, Admitted
<1>3. CASE SaveReaches(d) \/ SaveRaises(d) \/ SaveReturns(d)
  BY <1>1, <1>3 DEF SaveReaches, SaveRaises, SaveReturns
<1>4. CASE Prepare(d) \/ PrepareRaises(d) \/ Begin(d) \/ Power(d) \/ PowerRaises(d)
  BY <1>1, <1>4 DEF Prepare, PrepareRaises, Begin, Power, PowerRaises
<1>5. CASE Attempt(d) \/ Upload(d) \/ Select(d) \/ SequenceBreaks(d)
  BY <1>1, <1>5 DEF Attempt, Upload, Select, SequenceBreaks
<1>6. CASE Apply(d) \/ ApplyRaises(d) \/ Written(d) \/ Again(d) \/ AgainRaises(d)
  BY <1>1, <1>6 DEF Apply, ApplyRaises, Written, Again, AgainRaises
<1>7. CASE Observe(d) \/ ObserveRaises(d)
  BY <1>1, <1>7 DEF Observe, ObserveRaises
<1>8. CASE NoRestore(d) \/ RestoreRefused(d) \/ RestoreWrites(d) \/ RestoreRaises(d)
  BY <1>1, <1>8 DEF NoRestore, RestoreRefused, RestoreWrites, RestoreRaises, Settle,
                    Appeared
<1>9. CASE ReadBack(d) \/ TurnOff(d) \/ TurnOffRaises(d) \/ ReadOff(d)
  BY <1>1, <1>9 DEF ReadBack, TurnOff, TurnOffRaises, ReadOff, Settle, Appeared
<1> QED
  BY <1>2, <1>3, <1>4, <1>5, <1>6, <1>7, <1>8, <1>9 DEF Works

\* Only a call that works comes to have tried a write.
LEMMA WorksBeforeWrites ==
    ASSUME IInv, [Next]_vars, NEW c \in Calls, ~call[c].touched, call'[c].touched
    PROVE  Busy(c)
<1> SUFFICES ASSUME ~Busy(c) PROVE FALSE
  OBVIOUS
<1>1. call[c] \in CallRecord /\ call \in [Calls -> CallRecord]
  BY DEF IInv, Types
<1>2. CASE \E o \in Ops : Submit(c, o)
  BY <1>1, <1>2 DEF Submit, CallRecord
<1>0. ASSUME NEW result, End(c, result) PROVE FALSE
  <2>1. call'[c] = Ended(call[c], result)
    BY <1>1, <1>0 DEF End
  <2> QED
    BY <2>1 DEF Ended, Idle
<1>3. CASE Locked(c)
  BY <1>1, <1>3, <1>0 DEF Locked, Goto, CallRecord
<1>4. CASE Cancel(c)
  <2>1. call[c].step = "locking"
    BY <1>4 DEF Cancel, Awaiting, Busy, Working, Active
  <2> QED
    BY <1>4, <1>0, <2>1 DEF Cancel
<1>5. CASE Works(c) /\ ~Locked(c)
  BY <1>5 DEF Works, At, Busy, Working, Active, Admitted, SaveReaches, SaveRaises,
     SaveReturns, Prepare, PrepareRaises, Begin, Power, PowerRaises, Attempt, Upload,
     Select, SequenceBreaks, Apply, ApplyRaises, Written, Observe, ObserveRaises,
     Again, AgainRaises, NoRestore, RestoreRefused, RestoreWrites, RestoreRaises,
     Restoring, ReadBack, TurnOff, TurnOffRaises, ReadOff
<1>6. CASE \E d \in Calls \ {c} : Works(d) \/ Cancel(d) \/ (\E o \in Ops : Submit(d, o))
  BY <1>6, OwnCall
<1>7. CASE DelayedSave \/ Restart \/ UNCHANGED vars
  BY <1>7 DEF DelayedSave, Restart, vars
<1>8. CASE Crash
  BY <1>1, <1>8 DEF Crash, Ended, Idle, CallRecord
<1> QED
  BY <1>2, <1>3, <1>4, <1>5, <1>6, <1>7, <1>8 DEF Next

\* An operation that was confirmed is not written again: a retry with its id is
\* given the answer (_async_apply_serialised).
THEOREM ConfirmedOnceAlways == Spec => ConfirmedOnce
<1>1. IInv /\ [Next]_vars =>
        [\A c \in Calls : ~call[c].touched /\ call'[c].touched
                          => Op(c) \notin answered]_vars
  BY WorksBeforeWrites, BusyFacts
<1> QED
  BY <1>1, InitIInv, NextIInv, PTL DEF Spec, ConfirmedOnce
=============================================================================

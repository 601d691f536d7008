---------------------- MODULE DreamviewClaimsProofs -------------------------
(***************************************************************************)
(* For any number of centres and members, of services, failures, restarts  *)
(* and changes by hand.  Three invariants, each resting on the ones before *)
(* it:                                                                     *)
(*   IInv  claims are saved before they are in force, what is off is off   *)
(*         on disk as well, and nobody who is off is owed an enabling, by  *)
(*         a claim or by a release that is still to come to it;            *)
(*   GInv  who may be in a group is held by its centre, and no connection  *)
(*         of its coordinator, or one that a service has found to stay up, *)
(*         is up; what a service in progress remembers is still so;        *)
(*   OInv  what DreamView has disabled is recorded as owed until it is     *)
(*         enabled and that is saved.                                      *)
(* From them: an entry that its user had disabled stays disabled until its *)
(* user enables it, no group is uploaded over a connection that is seen,   *)
(* no member of a group is free to be taken, and what DreamView owes a     *)
(* member is on record; the exceptions are those of the properties.        *)
(***************************************************************************)
EXTENDS DreamviewClaims, TLAPS

-----------------------------------------------------------------------------
(* Who is off.                                                             *)

Entry == {"on", "reenabled", "off", "late", "taken", "unrecorded", "gone"}

ClaimRecord == [centre : Centres \cup {None}, ours : BOOLEAN, releasing : BOOLEAN]

\* The claims of some members.
SomeClaims == UNION {[S -> ClaimRecord] : S \in SUBSET Members}

\* A release and the claims it found.
JobTypes(j) ==
    /\ j \in [by : {"op", "guard", "removal", "recovery"}, centre : Centres,
              step : {"restore", "forget"},
              claims : SomeClaims,
              todo : SUBSET Members, restored : SUBSET Members]
    /\ j.todo \subseteq DOMAIN j.claims

Types ==
    /\ entry \in [Members -> Entry]
    /\ stored \in [entry : [Members -> Entry], centres : SUBSET Centres]
    /\ centres \subseteq Centres
    /\ claims \in [Members -> ClaimRecord]
    /\ \A j \in jobs : JobTypes(j)

\* A claim in memory is on disk.
ClaimsAreSaved == storedClaims = claims

\* What is off is off on disk, and nothing else is.
OffIsSaved == \A e \in Members : stored.entry[e] = "off" <=> entry[e] = "off"

\* Nobody who is off is to be enabled.
OwedIsNotOff == \A e \in Members : ToBeEnabled(e) => entry[e] # "off"

IInv ==
    /\ Types
    /\ ClaimsAreSaved
    /\ OffIsSaved
    /\ OwedIsNotOff

\* Changes by hand and restarts are counted.
Counted == user \in Nat /\ crashes \in Nat

\* Nothing is claimed at first.
LEMMA InitIInv == Init => IInv
BY DEF Init, IInv, Types, ClaimsAreSaved, OffIsSaved, OwedIsNotOff, ToBeEnabled,
       NoClaim, ClaimRecord, Entry, None

\* Releasing members marks their claims and owes them what the claims did.
LEMMA ReleaseKeeps ==
    ASSUME IInv, NEW by \in {"op", "guard", "removal", "recovery"},
           NEW c \in Centres, NEW only,
           Release(by, c, only), UNCHANGED <<entry, stored>>, centres' \subseteq Centres
    PROVE  IInv'
<1> USE DEF IInv
<1> DEFINE released == only \cap Owned(c)
           found == [e \in released |-> Marked(e)]
           job == [by |-> by, centre |-> c, step |-> "restore", claims |-> found,
                   todo |-> released, restored |-> {}]
<1>1. released \subseteq Members
  BY DEF Owned
<1>2. \A e \in Members : Marked(e) \in ClaimRecord /\ Marked(e).ours = claims[e].ours
  BY DEF Types, Marked, ClaimRecord
<1>3. CASE released = {}
  BY <1>3 DEF Release, Types, ClaimsAreSaved, OffIsSaved, OwedIsNotOff,
              ToBeEnabled, journal
<1>4. CASE released # {}
  <2>1. /\ claims' = [e \in Members |-> IF e \in released THEN Marked(e) ELSE claims[e]]
        /\ storedClaims' = claims' /\ jobs' = jobs \cup {job}
    BY <1>4 DEF Release, SaveClaims
  <2>2. JobTypes(job)
    <3>1. found \in [released -> ClaimRecord] /\ DOMAIN found = released
      BY <1>1, <1>2
    <3>2. found \in SomeClaims
      BY <1>1, <3>1 DEF SomeClaims
    <3> HIDE DEF found, released
    <3> QED
      BY <1>1, <3>1, <3>2 DEF JobTypes
  <2>3. Types'
    BY <1>2, <2>1, <2>2 DEF Types, JobTypes
  <2>4. \A e \in Members : claims'[e].ours = claims[e].ours
    BY <1>2, <2>1
  <2>5. \A e \in released : job.claims[e].ours = claims[e].ours
    BY <1>1, <1>2
  <2>6. OwedIsNotOff'
    BY <1>1, <2>1, <2>4, <2>5 DEF OwedIsNotOff, ToBeEnabled
  <2> QED
    BY <2>1, <2>3, <2>6 DEF ClaimsAreSaved, OffIsSaved
<1> QED
  BY <1>3, <1>4

\* Whatever leaves entries, claims and releases alone keeps the invariant.
LEMMA QuietKeeps ==
    ASSUME IInv, UNCHANGED <<entry, claims, storedClaims>>, jobs' \subseteq jobs,
           stored' = stored \/ stored' = Native, centres' \subseteq Centres
    PROVE  IInv'
<1> USE DEF IInv
<1>1. Native \in [entry : [Members -> Entry], centres : SUBSET Centres]
      /\ Native.entry = entry
  BY DEF Native, Staying, Types
<1>2. Types'
  BY <1>1 DEF Types
<1>3. OffIsSaved'
  BY <1>1 DEF OffIsSaved
<1>4. OwedIsNotOff'
  BY DEF OwedIsNotOff, ToBeEnabled
<1> QED
  BY <1>2, <1>3, <1>4 DEF ClaimsAreSaved

\* A release enables nobody who is off, and owes less with every member.
LEMMA RestoreKeeps ==
    ASSUME IInv, NEW j \in jobs, NEW e \in j.todo, Restore(j, e)
    PROVE  /\ IInv'
           /\ \A m \in Members : entry[m] = "off" => entry'[m] = "off"
<1> USE DEF IInv
<1>1. JobTypes(j) /\ e \in Members
  BY DEF Types, JobTypes
<1>2. Restores(j, e) => entry[e] # "off"
  BY <1>1 DEF Restores, IsOff, OwedIsNotOff, ToBeEnabled
<1>3. \/ entry' = entry
      \/ entry[e] # "off" /\ entry' = [entry EXCEPT ![e] = "on"]
  BY <1>2 DEF Restore, Types
<1>4. /\ entry' \in [Members -> Entry]
      /\ \A m \in Members : entry'[m] = "off" <=> entry[m] = "off"
  BY <1>1, <1>3 DEF Types, Entry
<1> PICK new : /\ JobTypes(new) /\ jobs' = (jobs \ {j}) \cup {new}
               /\ new.claims = j.claims /\ new.todo \subseteq j.todo
  <2> DEFINE some(r) == [j EXCEPT !.todo = @ \ {e}, !.restored = r]
  <2>1. PICK r \in SUBSET Members : jobs' = (jobs \ {j}) \cup {some(r)}
    BY <1>1 DEF Restore, Proceeds, JobTypes
  <2>2. JobTypes(some(r)) /\ some(r).claims = j.claims /\ some(r).todo \subseteq j.todo
    BY <1>1 DEF JobTypes
  <2> QED
    BY <2>1, <2>2
<1>5. Types'
  BY <1>4 DEF Restore, journal, Types
<1>6. OwedIsNotOff'
  BY <1>4 DEF Restore, journal, OwedIsNotOff, ToBeEnabled
<1> QED
  BY <1>4, <1>5, <1>6 DEF Restore, journal, ClaimsAreSaved, OffIsSaved

\* Saving the entries says of who is off what memory says.
LEMMA PersistKeeps ==
    ASSUME IInv, NEW j \in jobs, Persist(j)
    PROVE  IInv'
<1> USE DEF IInv
<1>1. JobTypes([j EXCEPT !.step = "forget"])
  BY DEF Types, JobTypes
<1>2. stored' = stored \/ stored' = Native
  BY DEF Persist, Flushed
<1>3. Native \in [entry : [Members -> Entry], centres : SUBSET Centres]
      /\ Native.entry = entry
  BY DEF Native, Staying, Types
<1>4. Types'
  BY <1>1, <1>2, <1>3 DEF Persist, Proceeds, Types, journal
<1>5. OffIsSaved'
  BY <1>2, <1>3 DEF Persist, OffIsSaved
<1>6. [j EXCEPT !.step = "forget"].claims = j.claims
      /\ [j EXCEPT !.step = "forget"].todo = j.todo
  BY DEF Types, JobTypes
<1>7. OwedIsNotOff'
  BY <1>6 DEF Persist, Proceeds, journal, OwedIsNotOff, ToBeEnabled
<1> QED
  BY <1>4, <1>5, <1>7 DEF Persist, journal, ClaimsAreSaved

\* Claims that go owe nothing.
LEMMA ForgetKeeps ==
    ASSUME IInv, NEW j \in jobs, Forget(j)
    PROVE  IInv'
<1> USE DEF IInv
<1>1. /\ claims' \in [Members -> ClaimRecord] /\ storedClaims' = claims'
      /\ \A e \in Members : claims'[e] = claims[e] \/ ~claims'[e].ours
  BY DEF Forget, SaveClaims, Types, NoClaim, ClaimRecord
<1>2. Types'
  BY <1>1 DEF Forget, Types, entries
<1>3. OwedIsNotOff'
  BY <1>1 DEF Forget, entries, OwedIsNotOff, ToBeEnabled
<1> QED
  BY <1>1, <1>2, <1>3 DEF Forget, entries, ClaimsAreSaved, OffIsSaved

\* What is claimed for an enabled entry owes an enabling to nobody who is off.
LEMMA ClaimKeeps ==
    ASSUME IInv, UNCHANGED <<entry, centres, stored, jobs>>,
           claims' \in [Members -> ClaimRecord], storedClaims' = claims',
           \A e \in Members : claims'[e].ours => claims[e].ours \/ Enabled(e)
    PROVE  IInv'
<1> USE DEF IInv
<1>1. OwedIsNotOff'
  BY DEF OwedIsNotOff, ToBeEnabled, Enabled
<1> QED
  BY <1>1 DEF Types, ClaimsAreSaved, OffIsSaved

\* A member that is disabled for a centre was on.
LEMMA DisableKeeps ==
    ASSUME IInv, NEW e \in Members, entry' = Disabled(e),
           UNCHANGED <<centres, stored, claims, storedClaims, jobs>>
    PROVE  /\ IInv'
           /\ \A m \in Members : entry[m] = "off" => entry'[m] = "off"
<1> USE DEF IInv
<1>1. /\ entry' \in [Members -> Entry]
      /\ \A m \in Members : entry'[m] = "off" <=> entry[m] = "off"
  BY DEF Disabled, Enabled, Types, Entry
<1>2. OwedIsNotOff'
  BY <1>1 DEF OwedIsNotOff, ToBeEnabled
<1> QED
  BY <1>1, <1>2 DEF Types, ClaimsAreSaved, OffIsSaved

\* What is done by hand is saved, and nobody who is owed an enabling is told
\* from one who was off before.
LEMMA ToggleKeeps ==
    ASSUME IInv, NEW e \in Members, UserToggles(e)
    PROVE  IInv'
<1> USE DEF IInv
<1>1. /\ entry' \in [Members -> Entry]
      /\ \A m \in Members : entry'[m] = "off" =>
            (m # e /\ entry[m] = "off") \/ (m = e /\ ~ToBeEnabled(e))
  BY DEF UserToggles, Types, Entry
<1>2. /\ stored' \in [entry : [Members -> Entry], centres : SUBSET Centres]
      /\ stored'.entry = entry'
  BY <1>1 DEF UserToggles, Native, Staying, Types
<1>3. Types' /\ OffIsSaved' /\ ClaimsAreSaved'
  BY <1>1, <1>2 DEF UserToggles, journal, Types, OffIsSaved, ClaimsAreSaved
<1>4. OwedIsNotOff'
  BY <1>1 DEF UserToggles, journal, OwedIsNotOff, ToBeEnabled
<1> QED
  BY <1>3, <1>4

\* An entry that is removed takes its claim with it.
LEMMA RemoveKeeps ==
    ASSUME IInv, NEW e \in Members, RemoveMember(e)
    PROVE  IInv'
<1> USE DEF IInv
<1>1. /\ entry' \in [Members -> Entry]
      /\ \A m \in Members : entry'[m] = "off" => entry[m] = "off"
  BY DEF RemoveMember, Types, Entry
<1>2. /\ stored' \in [entry : [Members -> Entry], centres : SUBSET Centres]
      /\ stored'.entry = entry'
  BY <1>1 DEF RemoveMember, Native, Staying, Types
<1>3. /\ claims' \in [Members -> ClaimRecord] /\ storedClaims' = claims'
      /\ \A m \in Members : claims'[m].ours => claims[m].ours
  BY DEF RemoveMember, SaveClaims, Types, NoClaim, ClaimRecord
<1>4. Types' /\ OffIsSaved' /\ ClaimsAreSaved'
  BY <1>1, <1>2, <1>3 DEF RemoveMember, Types, OffIsSaved, ClaimsAreSaved
<1>5. OwedIsNotOff'
  BY <1>1, <1>3 DEF RemoveMember, OwedIsNotOff, ToBeEnabled
<1> QED
  BY <1>4, <1>5

\* A restart reads back who is off, and claims that owe them nothing.
LEMMA RestartKeeps ==
    ASSUME IInv, Restart
    PROVE  IInv'
<1> USE DEF IInv
<1>1. OwedIsNotOff'
  BY DEF Restart, ClaimsAreSaved, OffIsSaved, OwedIsNotOff, ToBeEnabled
<1> QED
  BY <1>1 DEF Restart, Types, ClaimsAreSaved, OffIsSaved

\* Off stays off, but for the user and for what a restart reads back.
OffStaysOff ==
    \A e \in Members : entry[e] = "off" => entry'[e] \notin {"on", "reenabled"}

\* A service on a centre turns nobody on who is off.
LEMMA ServicesKeep ==
    ASSUME IInv, Services
    PROVE  IInv' /\ OffStaysOff
<1> USE DEF entries, journal, devices, bounds
<1> PICK c \in Centres :
        \/ \E members \in SUBSET Members : Replace(c, members)
        \/ Delete(c)
        \/ \E e \in Members : HandOver(c, e) \/ HandOverRaises(c, e)
        \/ Upload(c) \/ UploadRaises(c) \/ GiveBack(c) \/ GiveBackRaises(c)
        \/ RemoveCentre(c) \/ CleanUp(c) \/ Leave(c) \/ Recover(c)
  BY DEF Services
<1>1. ASSUME UNCHANGED <<entry, claims, storedClaims, jobs>>,
             stored' = stored \/ stored' = Native, centres' \subseteq centres
      PROVE  IInv' /\ OffStaysOff
  BY <1>1, QuietKeeps DEF IInv, Types, OffStaysOff
<1>2. CASE \/ Delete(c) \/ GiveBackRaises(c)
           \/ \E e \in Members : HandOverRaises(c, e)
  BY <1>1, <1>2 DEF Delete, GiveBackRaises, HandOverRaises
<1>3. CASE Upload(c) \/ UploadRaises(c) \/ Leave(c)
  BY <1>1, <1>3 DEF Upload, UploadRaises, Leave
<1>4. ASSUME NEW members \in SUBSET Members, Replace(c, members)
      PROVE  IInv' /\ OffStaysOff
  <2>1. /\ claims' \in [Members -> ClaimRecord] /\ storedClaims' = claims'
        /\ \A e \in Members : claims'[e].ours => claims[e].ours \/ Enabled(e)
    BY <1>4 DEF Replace, SaveClaims, IInv, Types, ClaimRecord, Enabled
  <2>2. IInv'
    BY <1>4, <2>1, ClaimKeeps DEF Replace
  <2> QED
    BY <1>4, <2>2 DEF Replace, OffStaysOff
<1>5. ASSUME NEW e \in Members, HandOver(c, e)
      PROVE  IInv' /\ OffStaysOff
  BY <1>5, DisableKeeps DEF HandOver, OffStaysOff
<1>6. CASE GiveBack(c)
  BY <1>6, ReleaseKeeps DEF GiveBack, IInv, Types, OffStaysOff
<1>7. CASE RemoveCentre(c)
  <2>1. Native \in [entry : [Members -> Entry], centres : SUBSET Centres]
        /\ Native.entry = entry
    BY DEF Native, Staying, IInv, Types
  <2>2. /\ stored' \in [entry : [Members -> Entry], centres : SUBSET Centres]
        /\ stored'.entry = entry
    BY <1>7, <2>1 DEF RemoveCentre
  <2>3. IInv'
    BY <1>7, <2>2 DEF RemoveCentre, IInv, Types, ClaimsAreSaved, OffIsSaved,
                      OwedIsNotOff, ToBeEnabled
  <2> QED
    BY <1>7, <2>3 DEF RemoveCentre, OffStaysOff
<1>8. CASE CleanUp(c)
  <2>1. CASE Release("removal", c, Members)
    BY <1>8, <2>1, ReleaseKeeps DEF CleanUp, IInv, Types, OffStaysOff
  <2>2. CASE UNCHANGED <<claims, storedClaims, jobs>>
    BY <1>1, <1>8, <2>2 DEF CleanUp
  <2> QED
    BY <1>8, <2>1, <2>2 DEF CleanUp
<1>9. CASE Recover(c)
  BY <1>9, ReleaseKeeps DEF Recover, IInv, Types, OffStaysOff
<1> QED
  BY <1>2, <1>3, <1>4, <1>5, <1>6, <1>7, <1>8, <1>9

\* An entry turns on by itself for its user only.
LEMMA EntriesKeep ==
    ASSUME IInv, Counted, Entries
    PROVE  IInv' /\ (OffStaysOff \/ user' # user)
<1> USE DEF entries, journal, devices, bounds
<1> PICK e \in Members :
        \/ SetUp(e) \/ Guard(e) \/ GuardReleases(e) \/ DisableClaimed(e)
        \/ Link(e) \/ Unlink(e) \/ UserToggles(e) \/ RemoveMember(e)
  BY DEF Entries
<1>1. CASE SetUp(e) \/ Link(e) \/ Unlink(e)
  BY <1>1, QuietKeeps DEF SetUp, Link, Unlink, IInv, Types, OffStaysOff
<1>2. CASE Guard(e)
  <2>1. /\ claims' \in [Members -> ClaimRecord] /\ storedClaims' = claims'
        /\ \A m \in Members : claims'[m].ours => claims[m].ours \/ Enabled(m)
    BY <1>2 DEF Guard, SaveClaims, IInv, Types, ClaimRecord
  <2>2. IInv'
    BY <1>2, <2>1, ClaimKeeps DEF Guard
  <2> QED
    BY <1>2, <2>2 DEF Guard, OffStaysOff
<1>3. CASE GuardReleases(e)
  <2>1. claims[e].centre \in Centres
    BY <1>3 DEF GuardReleases, Claimed, IInv, Types, ClaimRecord
  <2>2. IInv'
    BY <1>3, <2>1, ReleaseKeeps DEF GuardReleases, IInv, Types
  <2> QED
    BY <1>3, <2>2 DEF GuardReleases, OffStaysOff
<1>4. CASE DisableClaimed(e)
  <2>1. CASE entry' = Disabled(e)
    BY <1>4, <2>1, DisableKeeps DEF DisableClaimed, OffStaysOff
  <2>2. CASE entry' = entry
    BY <1>4, <2>2, QuietKeeps DEF DisableClaimed, IInv, Types, OffStaysOff
  <2> QED
    BY <1>4, <2>1, <2>2 DEF DisableClaimed
<1>5. CASE UserToggles(e)
  <2> SUFFICES user' # user
    BY <1>5, ToggleKeeps
  <2> QED
    BY <1>5 DEF UserToggles, ByHand, Counted
<1>6. CASE RemoveMember(e)
  <2>1. OffStaysOff
    BY <1>6 DEF RemoveMember, OffStaysOff, IInv, Types
  <2> QED
    BY <1>6, <2>1, RemoveKeeps
<1> QED
  BY <1>1, <1>2, <1>3, <1>4, <1>5, <1>6

\* What is done by hand is counted, and so are restarts.
LEMMA CountedKeeps ==
    ASSUME Counted, [Next]_vars
    PROVE  Counted'
<1> USE DEF Counted, bounds, ByHand
<1>1. CASE Services
  <2> PICK c \in Centres :
          \/ \E members \in SUBSET Members : Replace(c, members)
          \/ Delete(c)
          \/ \E e \in Members : HandOver(c, e) \/ HandOverRaises(c, e)
          \/ Upload(c) \/ UploadRaises(c) \/ GiveBack(c) \/ GiveBackRaises(c)
          \/ RemoveCentre(c) \/ CleanUp(c) \/ Leave(c) \/ Recover(c)
    BY <1>1 DEF Services
  <2>1. CASE (\E members \in SUBSET Members : Replace(c, members)) \/ Delete(c)
    BY <2>1 DEF Replace, Delete
  <2>2. CASE \E e \in Members : HandOver(c, e) \/ HandOverRaises(c, e)
    BY <2>2 DEF HandOver, HandOverRaises
  <2>3. CASE Upload(c) \/ UploadRaises(c) \/ GiveBack(c) \/ GiveBackRaises(c)
    BY <2>3 DEF Upload, UploadRaises, GiveBack, GiveBackRaises
  <2>4. CASE RemoveCentre(c) \/ CleanUp(c) \/ Leave(c) \/ Recover(c)
    BY <2>4 DEF RemoveCentre, CleanUp, Leave, Recover
  <2> QED
    BY <2>1, <2>2, <2>3, <2>4
<1>2. CASE Releases
  BY <1>2 DEF Releases, Restore, Persist, Forget, ReleaseRaises
<1>3. CASE Entries
  BY <1>3 DEF Entries, SetUp, Guard, GuardReleases, DisableClaimed, Link, Unlink,
              UserToggles, RemoveMember
<1>4. CASE SaveEntries \/ Restart \/ UNCHANGED vars
  BY <1>4 DEF SaveEntries, Restart, vars
<1> QED
  BY <1>1, <1>2, <1>3, <1>4 DEF Next

\* Every step keeps IInv, and turns on who is off for the reasons named only.
LEMMA Step ==
    ASSUME IInv, Counted, [Next]_vars
    PROVE  IInv' /\ (OffStaysOff \/ user' # user \/ crashes' # crashes)
<1>1. CASE Services
  BY <1>1, ServicesKeep
<1>2. CASE Releases
  <2> PICK j \in jobs :
          \/ \E e \in j.todo : Restore(j, e)
          \/ Persist(j) \/ Forget(j) \/ ReleaseRaises(j)
    BY <1>2 DEF Releases
  <2>1. ASSUME NEW e \in j.todo, Restore(j, e)
        PROVE  IInv' /\ OffStaysOff
    BY <2>1, RestoreKeeps DEF OffStaysOff
  <2>2. CASE Persist(j)
    BY <2>2, PersistKeeps DEF Persist, OffStaysOff
  <2>3. CASE Forget(j)
    BY <2>3, ForgetKeeps DEF Forget, entries, OffStaysOff
  <2>4. CASE ReleaseRaises(j)
    BY <2>4, QuietKeeps DEF ReleaseRaises, entries, journal, IInv, Types, OffStaysOff
  <2> QED
    BY <2>1, <2>2, <2>3, <2>4
<1>3. CASE Entries
  BY <1>3, EntriesKeep
<1>4. CASE SaveEntries
  BY <1>4, QuietKeeps DEF SaveEntries, journal, IInv, Types, OffStaysOff
<1>5. CASE Restart
  BY <1>5, RestartKeeps DEF Restart, Counted
<1>6. CASE UNCHANGED vars
  BY <1>6, QuietKeeps DEF vars, entries, journal, IInv, Types, OffStaysOff
<1> QED
  BY <1>1, <1>2, <1>3, <1>4, <1>5, <1>6 DEF Next

-----------------------------------------------------------------------------
(* Groups.  Who is in the group of a centre is claimed by it, because a    *)
(* claim comes before the group and goes after it.  While a service is in  *)
(* progress that rests on what the service remembers: whom it has handed   *)
(* over, and whom its centre had before.                                   *)

Steps == {"idle", "handover", "upload", "rollback", "release",
          "cleanup", "leaving"}

Links == {"none", "held", "stray", "refused"}

\* The connection is of the coordinator that is set up, or was found to stay up
\* by the last service that took the member over.
Seen(e) == links[e] \in {"held", "refused"}

\* c claims e, and is not about to give it back.
Holds(c, e) == claims[e].centre = c /\ ~claims[e].releasing

GroupTypes ==
    /\ op \in [Centres -> [step : Steps, kind : {None, "replace", "delete"},
                           members : SUBSET Members, prior : SUBSET Members,
                           todo : SUBSET Members]]
    /\ group \in [Centres -> SUBSET Members]
    /\ loaded \subseteq Members /\ links \in [Members -> Links]
    /\ recovery \subseteq Centres

\* A service in progress, what it is about, and whom it has handed over.
ServiceInv(c) ==
    /\ op[c].step # "idle" => c \in centres
    /\ op[c].step = "upload" => op[c].kind = "delete" /\ op[c].members = {}
    /\ op[c].step = "handover" => op[c].kind = "replace"
    /\ op[c].step = "release" =>
          /\ group[c] = op[c].members
          /\ op[c].kind # "replace" => op[c].members = {}
    /\ op[c].step = "handover" =>
          /\ op[c].todo \subseteq op[c].members
          /\ \A e \in op[c].members :
                 /\ Exists(e) => Holds(c, e)
                 /\ e \notin op[c].todo => ~Seen(e)

\* Who is in the group of a centre that stays is held, and not connected to.
GroupInv(c) ==
    /\ c \in Staying =>
          \A e \in group[c] : (Exists(e) => Holds(c, e)) /\ ~Seen(e)
    /\ op[c].step \in {"handover", "rollback"} =>
          \A e \in group[c] : Exists(e) => e \in op[c].prior

\* The native store knows which centres stay and which entries are gone.
StayingIsSaved == stored.centres = Staying

GoneIsSaved == \A e \in Members : stored.entry[e] = "gone" <=> entry[e] = "gone"

LoadedExists == \A e \in loaded : Exists(e)

JobReleases(j) == \A e \in DOMAIN j.claims : j.claims[e].releasing

GInv ==
    /\ GroupTypes
    /\ \A c \in Centres : ServiceInv(c) /\ GroupInv(c)
    /\ StayingIsSaved /\ GoneIsSaved /\ LoadedExists
    /\ \A j \in jobs : JobReleases(j)

\* There are no groups and no services at first.
LEMMA InitGInv == Init => GInv
<1> SUFFICES ASSUME Init PROVE GInv
  OBVIOUS
<1>1. GroupTypes
  BY DEF Init, GroupTypes, Idle, Steps, Links
<1>2. \A c \in Centres : ServiceInv(c) /\ GroupInv(c)
  BY DEF Init, Idle, ServiceInv, GroupInv
<1>3. StayingIsSaved
  BY DEF Init, Idle, StayingIsSaved, Staying
<1> QED
  BY <1>1, <1>2, <1>3 DEF Init, GInv, GoneIsSaved, LoadedExists, JobReleases

\* A step that leaves a centre's service, group and claims alone.
LEMMA CentreStays ==
    ASSUME GInv, NEW c \in Centres, op'[c] = op[c], group'[c] = group[c],
           c \in centres' <=> c \in centres,
           \A e \in Members : Exists(e)' => Exists(e),
           \A e \in Members : (c \in centres /\ Exists(e)' /\ Holds(c, e))
                              => Holds(c, e)',
           \A e \in Members : (Seen(e)' /\ ~Seen(e)) => (Exists(e) /\ ~InForce(e))
    PROVE  ServiceInv(c)' /\ GroupInv(c)'
<1>1. op[c].members \subseteq Members /\ group[c] \subseteq Members
  BY DEF GInv, GroupTypes
<1>2. \A e \in Members : c \in centres /\ Holds(c, e) => InForce(e)
  <2> SUFFICES ASSUME NEW e \in Members, c \in centres, Holds(c, e), ~InForce(e)
               PROVE  FALSE
    OBVIOUS
  <2>1. c = None
    BY DEF Holds, InForce, Claimed
  <2> QED
    BY <2>1, NoneAssumption
<1>3. ServiceInv(c)'
  BY <1>1, <1>2 DEF GInv, ServiceInv
<1>4. GroupInv(c)'
  BY <1>1, <1>2 DEF GInv, GroupInv, Staying
<1> QED
  BY <1>3, <1>4

\* A step that leaves all services and groups alone.
LEMMA CentresStay ==
    ASSUME GInv, GroupTypes', UNCHANGED <<op, group, centres>>,
           StayingIsSaved', GoneIsSaved', LoadedExists',
           \A j \in jobs' : JobReleases(j),
           \A e \in Members : Exists(e)' => Exists(e),
           \A c \in Centres, e \in Members :
               (c \in centres /\ Exists(e)' /\ Holds(c, e)) => Holds(c, e)',
           \A e \in Members : (Seen(e)' /\ ~Seen(e)) => (Exists(e) /\ ~InForce(e))
    PROVE  GInv'
<1>1. \A c \in Centres : ServiceInv(c)' /\ GroupInv(c)'
  BY CentreStays
<1> QED
  BY <1>1 DEF GInv, JobReleases

\* A step of the service on one centre that no other centre notices.
LEMMA ServiceSteps ==
    ASSUME GInv, GroupTypes', centres \subseteq Centres, NEW c \in Centres,
           \A d \in Centres : d # c => op'[d] = op[d] /\ group'[d] = group[d],
           UNCHANGED <<centres, stored>>,
           op[c].step \notin {"cleanup", "leaving"},
           op'[c].step \notin {"cleanup", "leaving"},
           GoneIsSaved', LoadedExists',
           \A j \in jobs' : JobReleases(j),
           \A e \in Members : Exists(e)' => Exists(e),
           \A d \in Centres, e \in Members :
               (d # c /\ d \in centres /\ Exists(e)' /\ Holds(d, e)) => Holds(d, e)',
           \A e \in Members : Seen(e)' => Seen(e),
           ServiceInv(c)', GroupInv(c)'
    PROVE  GInv'
<1>1. \A d \in Centres : ServiceInv(d)' /\ GroupInv(d)'
  <2> SUFFICES ASSUME NEW d \in Centres, d # c
               PROVE  ServiceInv(d)' /\ GroupInv(d)'
    OBVIOUS
  <2> QED
    BY CentreStays
<1>2. StayingIsSaved'
  <2>1. \A d \in Centres : op'[d].step \in {"cleanup", "leaving"}
                           <=> op[d].step \in {"cleanup", "leaving"}
    OBVIOUS
  <2> QED
    BY <2>1 DEF GInv, StayingIsSaved, Staying
<1> QED
  BY <1>1, <1>2 DEF GInv, JobReleases

\* The claims that a release marks are those of one centre.
LEMMA ReleaseMarks ==
    ASSUME IInv, NEW by, NEW c \in Centres, NEW only, Release(by, c, only)
    PROVE  /\ claims' \in [Members -> ClaimRecord]
           /\ \A e \in Members : /\ claims'[e].centre = claims[e].centre
                                 /\ claims'[e].ours = claims[e].ours
                                 /\ claims'[e] # claims[e] =>
                                       e \in only /\ claims[e].centre = c
           /\ (\A j \in jobs : JobReleases(j)) => \A j \in jobs' : JobReleases(j)
<1>1. \A e \in Members : /\ Marked(e) \in ClaimRecord
                         /\ Marked(e).centre = claims[e].centre
                         /\ Marked(e).ours = claims[e].ours
                         /\ Marked(e).releasing
  BY DEF IInv, Types, ClaimRecord, Marked
<1>2. CASE only \cap Owned(c) = {}
  BY <1>2 DEF Release, journal, IInv, Types
<1>3. CASE only \cap Owned(c) # {}
  <2>1. claims' = [e \in Members |->
                      IF e \in only \cap Owned(c) THEN Marked(e) ELSE claims[e]]
    BY <1>3 DEF Release, SaveClaims
  <2>2. ASSUME NEW j \in jobs', j \notin jobs PROVE JobReleases(j)
    <3>1. j.claims = [e \in only \cap Owned(c) |-> Marked(e)]
      BY <1>3, <2>2 DEF Release
    <3> QED
      BY <1>1, <3>1 DEF JobReleases, Owned
  <2> QED
    BY <1>1, <2>1, <2>2 DEF IInv, Types, Owned
<1> QED
  BY <1>2, <1>3

\* A service that has reached no group and no claim yet.
LEMMA DeleteGroups ==
    ASSUME IInv, GInv, NEW c \in Centres, Delete(c)
    PROVE  GInv'
<1> DEFINE new == [Idle EXCEPT !.step = "upload", !.kind = "delete"]
<1>1. new \in [step : Steps, kind : {None, "replace", "delete"},
               members : SUBSET Members, prior : SUBSET Members,
               todo : SUBSET Members]
      /\ new.step = "upload" /\ new.kind = "delete" /\ new.members = {}
  BY DEF Idle, Steps
<1>2. /\ c \in centres /\ op[c].step = "idle"
      /\ op' = [op EXCEPT ![c] = new]
      /\ UNCHANGED <<entry, centres, stored, claims, storedClaims, loaded, links,
                     group, jobs, recovery>>
  BY DEF Delete, Begin, Busy, entries, journal, devices
<1> HIDE DEF new
<1>3. GroupTypes' /\ op'[c] = new
  BY <1>1, <1>2 DEF GInv, GroupTypes
<1>4. ServiceInv(c)' /\ GroupInv(c)'
  BY <1>1, <1>2, <1>3
     DEF GInv, ServiceInv, GroupInv, Staying, Exists, Holds, Seen
<1> QED
  BY <1>1, <1>2, <1>3, <1>4, ServiceSteps
     DEF GInv, GroupTypes, GoneIsSaved, LoadedExists, Exists, Holds, Seen, IInv,
         Types, JobReleases

\* A service ends, or goes on to give back what it claimed.
LEMMA EndGroups ==
    ASSUME IInv, GInv, NEW c \in Centres, NEW step \in {"idle", "rollback"},
           op[c].step \notin {"idle", "cleanup", "leaving"},
           step = "rollback" => op[c].step = "handover",
           op' = [op EXCEPT ![c] = Idle] \/ op' = [op EXCEPT ![c].step = step],
           op'[c].step = step,
           UNCHANGED <<entry, centres, stored, loaded, links, jobs, recovery,
                       claims, group>>
    PROVE  GInv'
<1>1. op'[c].prior = op[c].prior \/ step = "idle"
  BY DEF GInv, GroupTypes, Idle, Steps
<1>2. GroupTypes'
  BY DEF GInv, GroupTypes, Idle, Steps
<1>3. c \in centres
  BY DEF GInv, ServiceInv
<1>4. ServiceInv(c)'
  BY <1>3 DEF ServiceInv
<1>5. GroupInv(c)'
  BY <1>1, <1>3 DEF GInv, GroupInv, Staying, Exists, Holds, Seen
<1> QED
  BY <1>2, <1>4, <1>5, ServiceSteps
     DEF GInv, GroupTypes, GoneIsSaved, LoadedExists, Exists, Holds, IInv, Types,
         JobReleases, Seen

\* A claim takes no member from another centre, and all of its members are
\* held from then on.
LEMMA ReplaceGroups ==
    ASSUME IInv, GInv, NEW c \in Centres, NEW members \in SUBSET Members,
           Replace(c, members)
    PROVE  GInv'
<1>1. /\ op[c].step = "idle" /\ c \in centres /\ ~Refused(c, members)
      /\ \A e \in members : Exists(e)
      /\ UNCHANGED <<entry, centres, stored, loaded, links, group, jobs, recovery>>
  BY DEF Replace, Begin, Busy, entries, devices
<1>2. /\ Owned(c) \subseteq Members
      /\ \A e \in Members : Holds(c, e) => e \in Owned(c)
  BY DEF Owned, Holds
<1>3. /\ GroupTypes'
      /\ op'[c].step = "handover" /\ op'[c].prior = Owned(c)
      /\ op'[c].members = members /\ op'[c].todo = members
      /\ op'[c].kind = "replace"
      /\ \A d \in Centres : d # c => op'[d] = op[d]
  <2> DEFINE new == [step |-> "handover", kind |-> "replace", members |-> members,
                     prior |-> Owned(c), todo |-> members]
  <2>1. /\ new \in [step : Steps, kind : {None, "replace", "delete"},
                    members : SUBSET Members, prior : SUBSET Members,
                    todo : SUBSET Members]
        /\ new.step = "handover" /\ new.prior = Owned(c) /\ new.kind = "replace"
        /\ new.members = members /\ new.todo = members
    BY <1>2 DEF Steps
  <2>2. op' = [op EXCEPT ![c] = new]
    BY DEF Replace
  <2> HIDE DEF new
  <2> QED
    BY <1>1, <2>1, <2>2 DEF GInv, GroupTypes
<1>4. \A e \in Members :
          \/ claims'[e] = claims[e] /\ (e \in members => claims[e].centre = c)
          \/ e \in members /\ claims'[e].centre = c /\ claims'[e].releasing = FALSE
  <2> SUFFICES ASSUME NEW e \in Members,
                      \/ claims'[e] # claims[e]
                      \/ (e \in members /\ claims[e].centre # c)
               PROVE  e \in members /\ claims'[e].centre = c
                      /\ claims'[e].releasing = FALSE
    OBVIOUS
  <2>1. PICK b : claims'[e] = IF e \in members /\ Unclaimed(c, e)
                              THEN [centre |-> c, ours |-> b, releasing |-> FALSE]
                              ELSE claims[e]
    BY DEF Replace, SaveClaims
  <2>2. e \in members /\ Unclaimed(c, e)
    BY <2>1 DEF Unclaimed
  <2> QED
    BY <2>1, <2>2
<1>5. \A e \in members : Holds(c, e)'
  BY <1>1, <1>4 DEF Holds, Refused
<1>6. \A d \in Centres, e \in Members :
          (d # c /\ d \in centres /\ Holds(d, e)) => Holds(d, e)'
  BY <1>1, <1>4 DEF Holds, Refused
<1>7. \A e \in Members : Holds(c, e) => Holds(c, e)'
  BY <1>4 DEF Holds
<1>8. ServiceInv(c)'
  BY <1>1, <1>3, <1>5 DEF ServiceInv
<1>9. c \in Staying
  BY <1>1 DEF Staying
<1>10. GroupInv(c)'
  BY <1>1, <1>2, <1>3, <1>7, <1>9 DEF GInv, GroupTypes, GroupInv, Staying, Exists, Seen
<1> QED
  BY <1>1, <1>3, <1>6, <1>8, <1>10, ServiceSteps
     DEF GInv, GroupTypes, GoneIsSaved, LoadedExists, Exists, Seen, IInv, Types,
         JobReleases

\* A member is disabled where it was on.
LEMMA DisabledGroups ==
    ASSUME IInv, NEW e \in Members
    PROVE  /\ Disabled(e) \in [Members -> Entry]
           /\ \A m \in Members : Disabled(e)[m] = "gone" <=> entry[m] = "gone"
BY DEF Disabled, Enabled, IInv, Types, Entry

\* No connection of who has been handed over is seen, or the service goes no
\* further.
LEMMA HandOverGroups ==
    ASSUME IInv, GInv, NEW c \in Centres, NEW e \in Members, HandOver(c, e)
    PROVE  GInv'
<1>1. /\ op[c].step = "handover" /\ e \in op[c].todo
      /\ entry' = Disabled(e) /\ loaded' = loaded \ {e}
      /\ UNCHANGED <<centres, stored, claims, storedClaims, group, jobs, recovery>>
  BY DEF HandOver, journal
<1>2. \A m \in Members : Exists(m)' <=> Exists(m)
  BY <1>1, DisabledGroups DEF Exists
<1>3. PICK step \in {"handover", "rollback"}, link \in Links :
          /\ op' = [op EXCEPT ![c].todo = @ \ {e}, ![c].step = step]
          /\ links' = [links EXCEPT ![e] = link]
          /\ step = "handover" => link \notin {"held", "refused"}
          /\ step = "rollback" => Held(e)
  <2>1. CASE /\ links' = [links EXCEPT ![e] = IF @ \in {"held", "none"} THEN "none"
                                             ELSE "stray"]
             /\ op' = [op EXCEPT ![c].todo = @ \ {e}]
    <3>1. op' = [op EXCEPT ![c].todo = @ \ {e}, ![c].step = "handover"]
      BY <1>1, <2>1 DEF GInv, GroupTypes
    <3>2. \/ links' = [links EXCEPT ![e] = "none"]
          \/ links' = [links EXCEPT ![e] = "stray"]
      BY <2>1
    <3> QED
      BY <3>1, <3>2 DEF Links
  <2>2. CASE /\ Held(e) /\ links' = [links EXCEPT ![e] = "refused"]
             /\ op' = [op EXCEPT ![c].todo = @ \ {e}, ![c].step = LinkKept(c)]
    BY <2>2 DEF LinkKept, Links
  <2> QED
    BY <2>1, <2>2 DEF HandOver
<1>4. /\ GroupTypes'
      /\ op'[c].step = step /\ op'[c].todo = op[c].todo \ {e}
      /\ op'[c].members = op[c].members /\ op'[c].prior = op[c].prior
      /\ op'[c].kind = op[c].kind
      /\ \A d \in Centres : d # c => op'[d] = op[d]
  BY ZenonT(60), <1>1, <1>3 DEF GInv, GroupTypes, Steps
<1>5. c \in centres
  BY <1>1 DEF GInv, ServiceInv
<1>6. /\ \A m \in Members : Seen(m)' => Seen(m)
      /\ step = "handover" => ~Seen(e)'
  BY <1>3 DEF Seen, Held, GInv, GroupTypes
<1>7. ServiceInv(c)'
  BY <1>1, <1>2, <1>3, <1>4, <1>5, <1>6 DEF GInv, GroupTypes, ServiceInv, Holds
<1>8. GroupInv(c)'
  BY <1>1, <1>2, <1>4, <1>6 DEF GInv, GroupTypes, GroupInv, Staying, Holds
<1>9. GoneIsSaved' /\ LoadedExists'
  BY <1>1, <1>2 DEF GInv, GroupTypes, GoneIsSaved, LoadedExists, Exists
<1> QED
  BY <1>1, <1>2, <1>3, <1>4, <1>6, <1>7, <1>8, <1>9, ServiceSteps
     DEF GInv, IInv, Types, JobReleases, Holds

\* What a group is uploaded with is held and not connected to, whether the
\* upload is known to have come about or not.
LEMMA UploadGroups ==
    ASSUME IInv, GInv, NEW c \in Centres, NEW step \in {"release", "idle"}, Ready(c),
           group' = [group EXCEPT ![c] = op[c].members],
           op' = [op EXCEPT ![c].step = step] \/ op' = [op EXCEPT ![c] = Idle],
           op'[c].step = step, step = "release" => op' = [op EXCEPT ![c].step = step],
           UNCHANGED <<entry, centres, stored, loaded, links, jobs, recovery, claims>>
    PROVE  GInv'
<1>1. GroupTypes'
  BY DEF GInv, GroupTypes, Idle, Steps
<1>2. /\ op[c].members \subseteq Members /\ c \in centres
      /\ group'[c] = op[c].members
      /\ op[c].step \in {"handover", "upload"}
      /\ op[c].step = "upload" => op[c].members = {}
      /\ op[c].step = "handover" => op[c].kind = "replace"
      /\ step = "release" => op'[c].members = op[c].members /\ op'[c].kind = op[c].kind
      /\ \A e \in Members : (e \in op[c].members /\ Exists(e))
                            => Holds(c, e)
      /\ \A e \in op[c].members : ~Seen(e)
  BY DEF Ready, GInv, GroupTypes, ServiceInv
<1>3. ServiceInv(c)'
  BY <1>2 DEF ServiceInv
<1>4. GroupInv(c)'
  BY <1>2 DEF GroupInv, Exists, Holds, Seen
<1> QED
  BY <1>1, <1>2, <1>3, <1>4, ServiceSteps
     DEF GInv, GroupTypes, GoneIsSaved, LoadedExists, Exists, Holds, IInv, Types,
         JobReleases, Seen

\* Who is given back is not in the group, or not any more.
LEMMA GiveBackGroups ==
    ASSUME IInv, GInv, NEW c \in Centres, GiveBack(c)
    PROVE  GInv'
<1>1. /\ op[c].step \in {"rollback", "release"} /\ c \in centres
      /\ Release("op", c, Leaving(c)) /\ op' = [op EXCEPT ![c] = Idle]
      /\ UNCHANGED <<entry, centres, stored, loaded, links, group, recovery>>
  BY DEF GiveBack, Ends, entries, devices, GInv, ServiceInv
<1>2. \A e \in group[c] : Exists(e) => e \notin Leaving(c)
  BY <1>1 DEF GInv, ServiceInv, GroupInv, Leaving
<1>3. \A e \in Members : /\ claims'[e].centre = claims[e].centre
                         /\ claims'[e] # claims[e] =>
                               e \in Leaving(c) /\ claims[e].centre = c
  BY <1>1, ReleaseMarks
<1>4. \A d \in Centres, e \in Members : d # c /\ Holds(d, e) => Holds(d, e)'
  BY <1>3 DEF Holds
<1>5. \A e \in group[c] : Exists(e) /\ Holds(c, e) => Holds(c, e)'
  BY <1>2, <1>3 DEF Holds, GInv, GroupTypes
<1>6. GroupTypes' /\ op'[c] = Idle
  BY <1>1 DEF GInv, GroupTypes, Idle, Steps
<1>7. ServiceInv(c)' /\ GroupInv(c)'
  BY <1>1, <1>5, <1>6 DEF GInv, ServiceInv, GroupInv, Staying, Idle, Exists, Seen
<1>8. \A j \in jobs' : JobReleases(j)
  BY <1>1, ReleaseMarks DEF GInv
<1> QED
  BY <1>1, <1>4, <1>6, <1>7, <1>8, ServiceSteps
     DEF GInv, GroupTypes, GoneIsSaved, LoadedExists, Exists, Idle, IInv, Types, Seen

\* A centre that is removed does not stay: what is saved from then on is
\* without it, and its service is over when it has left.
LEMMA RemovalGroups ==
    ASSUME IInv, GInv, NEW c \in Centres, RemoveCentre(c) \/ CleanUp(c) \/ Leave(c)
    PROVE  GInv'
<1>1. /\ UNCHANGED <<entry, loaded, links, group, recovery>>
      /\ centres' = centres \/ (op'[c] = Idle /\ centres' = centres \ {c})
      /\ stored'.entry = stored.entry \/ stored'.entry = entry
      /\ \A d \in Centres : d # c => op'[d] = op[d]
      /\ GroupTypes'
  <2>1. CASE RemoveCentre(c)
    <3>1. op' = [op EXCEPT ![c].step = "cleanup"]
          /\ UNCHANGED <<entry, centres, loaded, links, group, recovery>>
          /\ stored'.entry = entry
      BY <2>1 DEF RemoveCentre, Native, devices
    <3>2. GroupTypes'
      BY <3>1 DEF GInv, GroupTypes, Steps
    <3>3. \A d \in Centres : d # c => op'[d] = op[d]
      BY <3>1 DEF GInv, GroupTypes
    <3> QED
      BY <3>1, <3>2, <3>3
  <2>2. CASE CleanUp(c)
    <3>1. PICK step \in Steps :
             op' = [op EXCEPT ![c].step = step]
             /\ UNCHANGED <<entry, centres, stored, loaded, links, group, recovery>>
      BY <2>2 DEF CleanUp, Steps, entries, devices
    <3>2. GroupTypes'
      BY <3>1 DEF GInv, GroupTypes
    <3>3. \A d \in Centres : d # c => op'[d] = op[d]
      BY <3>1 DEF GInv, GroupTypes
    <3> QED
      BY <2>2, <3>1, <3>2, <3>3 DEF entries
  <2>3. CASE Leave(c)
    <3>1. op' = [op EXCEPT ![c] = Idle] /\ centres' = centres \ {c}
          /\ UNCHANGED <<entry, stored, loaded, links, group, recovery>>
      BY <2>3 DEF Leave, Ends, devices
    <3> QED
      BY <3>1 DEF GInv, GroupTypes, Steps, Idle
  <2> QED
    BY <2>1, <2>2, <2>3
<1>2. /\ c \in centres /\ stored'.centres = stored.centres \ {c}
      /\ \/ op'[c].step \in {"cleanup", "leaving"} /\ centres' = centres
         \/ op'[c] = Idle /\ centres' = centres \ {c}
  <2>1. CASE RemoveCentre(c)
    BY <2>1 DEF RemoveCentre, Native, GInv, GroupTypes, StayingIsSaved
  <2>2. CASE CleanUp(c)
    BY <2>2 DEF CleanUp, GInv, GroupTypes, ServiceInv, StayingIsSaved, Staying, entries
  <2>3. CASE Leave(c)
    BY <2>3 DEF Leave, Ends, GInv, GroupTypes, ServiceInv, StayingIsSaved, Staying
  <2> QED
    BY <2>1, <2>2, <2>3
<1>3. /\ \A d \in Centres, e \in Members : d # c /\ Holds(d, e) => Holds(d, e)'
      /\ \A j \in jobs' : JobReleases(j)
  <2>1. CASE Release("removal", c, Members)
    BY <2>1, ReleaseMarks DEF Holds, GInv
  <2>2. CASE UNCHANGED <<claims, jobs>>
    BY <2>2 DEF Holds, GInv
  <2> QED
    BY <2>1, <2>2 DEF RemoveCentre, CleanUp, Leave, journal
<1>4. StayingIsSaved'
  BY <1>1, <1>2 DEF GInv, StayingIsSaved, Staying, Idle, IInv, Types
<1>5. GoneIsSaved' /\ LoadedExists'
  BY <1>1 DEF GInv, GoneIsSaved, LoadedExists, Exists
<1>6. c \notin Staying'
  BY <1>2 DEF Staying
<1>7. ServiceInv(c)' /\ GroupInv(c)'
  BY <1>2, <1>6 DEF Idle, ServiceInv, GroupInv
<1>8. \A d \in Centres : ServiceInv(d)' /\ GroupInv(d)'
  <2> SUFFICES ASSUME NEW d \in Centres, d # c
               PROVE  ServiceInv(d)' /\ GroupInv(d)'
    BY <1>7
  <2> QED
    BY <1>1, <1>3, CentreStays DEF Exists, Seen
<1> QED
  BY <1>1, <1>3, <1>4, <1>5, <1>8 DEF GInv, JobReleases

\* A restart forgets services and connections, not groups and claims.
LEMMA RestartGroups ==
    ASSUME IInv, GInv, Restart
    PROVE  GInv'
<1>1. /\ op' = [c \in Centres |-> Idle] /\ entry' = stored.entry /\ jobs' = {}
      /\ claims' = claims /\ group' = group /\ stored' = stored
      /\ centres' = stored.centres /\ loaded' = {}
      /\ links' = [e \in Members |-> "none"]
  BY DEF Restart, IInv, ClaimsAreSaved
<1>2. GroupTypes'
  BY <1>1 DEF Restart, GInv, GroupTypes, Idle, Steps, Links
<1>3. \A e \in Members : Exists(e)' <=> Exists(e)
  BY <1>1 DEF GInv, GoneIsSaved, Exists
<1>4. Staying' = Staying /\ StayingIsSaved'
  BY <1>1 DEF GInv, StayingIsSaved, Staying, Idle, IInv, Types
<1>5. \A c \in Centres : ServiceInv(c)' /\ GroupInv(c)'
  BY <1>1, <1>3, <1>4 DEF GInv, GroupTypes, ServiceInv, GroupInv, Idle, Holds, Seen
<1> QED
  BY <1>1, <1>2, <1>3, <1>4, <1>5 DEF GInv, GoneIsSaved, LoadedExists

\* Claims that go on as they are but for those a release marks, of a centre
\* that does not hold them.
LEMMA MarksGroups ==
    ASSUME IInv, GInv, NEW by, NEW c \in Centres, NEW only, Release(by, c, only),
           \A e \in Members : e \in only /\ claims[e].centre = c
                              => c \notin centres \/ claims[e].releasing,
           UNCHANGED <<entry, centres, stored, loaded, links, group, op>>,
           recovery' \subseteq recovery
    PROVE  GInv'
<1>1. \A d \in Centres, e \in Members : (d \in centres /\ Holds(d, e)) => Holds(d, e)'
  BY ZenonT(60), ReleaseMarks DEF Holds
<1>2. \A j \in jobs' : JobReleases(j)
  BY ReleaseMarks DEF GInv
<1> QED
  BY <1>1, <1>2, CentresStay
     DEF GInv, GroupTypes, StayingIsSaved, Staying, GoneIsSaved, LoadedExists, Exists, Seen

\* Entries, claims and releases change under services and groups that do not.
LEMMA QuietGroups ==
    ASSUME IInv, GInv, UNCHANGED <<op, group, centres>>,
           recovery' \subseteq recovery, loaded' \subseteq Members,
           links' \in [Members -> Links],
           \/ stored' = stored /\ (\A e \in Members : Exists(e)' <=> Exists(e))
           \/ stored'.centres = Staying /\ stored'.entry = entry',
           \A e \in Members : Exists(e)' => Exists(e),
           \A e \in loaded' : Exists(e)',
           \A c \in Centres, e \in Members :
               (c \in centres /\ Exists(e)' /\ Holds(c, e)) => Holds(c, e)',
           \A e \in Members : (Seen(e)' /\ ~Seen(e)) => (Exists(e) /\ ~InForce(e)),
           \A j \in jobs' : j \in jobs \/ \E i \in jobs : j.claims = i.claims
    PROVE  GInv'
<1>1. GroupTypes'
  BY DEF GInv, GroupTypes
<1>2. StayingIsSaved'
  BY DEF GInv, StayingIsSaved, Staying
<1>3. GoneIsSaved'
  BY DEF GInv, GoneIsSaved, Exists
<1>4. LoadedExists'
  BY DEF LoadedExists
<1>5. \A j \in jobs' : JobReleases(j)
  BY DEF GInv, JobReleases
<1> QED
  BY <1>1, <1>2, <1>3, <1>4, <1>5, CentresStay

\* Every step of a service keeps who is in a group held.
LEMMA ServicesGroups ==
    ASSUME IInv, GInv, Services
    PROVE  GInv'
<1> USE DEF entries, journal, devices
<1> PICK c \in Centres :
        \/ \E members \in SUBSET Members : Replace(c, members)
        \/ Delete(c)
        \/ \E e \in Members : HandOver(c, e) \/ HandOverRaises(c, e)
        \/ Upload(c) \/ UploadRaises(c) \/ GiveBack(c) \/ GiveBackRaises(c)
        \/ RemoveCentre(c) \/ CleanUp(c) \/ Leave(c) \/ Recover(c)
  BY DEF Services
<1>1. ASSUME NEW members \in SUBSET Members, Replace(c, members) PROVE GInv'
  BY <1>1, ReplaceGroups
<1>2. CASE Delete(c)
  BY <1>2, DeleteGroups
<1>3. \A step : op' = [op EXCEPT ![c].step = step] => op'[c].step = step
  BY DEF GInv, GroupTypes
<1>4. op' = [op EXCEPT ![c] = Idle] => op'[c].step = "idle"
  BY DEF GInv, GroupTypes, Idle
<1>5. CASE GiveBackRaises(c)
  BY <1>4, <1>5, EndGroups DEF GiveBackRaises, Ends
<1>6. ASSUME NEW e \in Members, HandOverRaises(c, e) PROVE GInv'
  BY <1>3, <1>6, EndGroups DEF HandOverRaises
<1>7. ASSUME NEW e \in Members, HandOver(c, e) PROVE GInv'
  BY <1>7, HandOverGroups
<1>8. CASE Upload(c)
  <2>1. op'[c].step = "release"
    BY <1>3, <1>8 DEF Upload
  <2> QED
    BY <1>8, <2>1, UploadGroups DEF Upload
<1>9. CASE UploadRaises(c)
  <2>1. op[c].step \in {"handover", "upload"}
        /\ (op[c].kind = "replace" => op[c].step = "handover")
    BY <1>9 DEF UploadRaises, Ready, GInv, ServiceInv
  <2>2. UNCHANGED <<entry, centres, stored, loaded, links, jobs, recovery, claims>>
    BY <1>9 DEF UploadRaises
  <2>3. CASE op' = [op EXCEPT ![c] = Idle] /\ UNCHANGED group
    BY <1>4, <2>1, <2>2, <2>3, EndGroups
  <2>4. CASE /\ op' = [op EXCEPT ![c] = Idle]
             /\ group' = [group EXCEPT ![c] = op[c].members]
    BY <1>4, <1>9, <2>2, <2>4, UploadGroups DEF UploadRaises
  <2>5. CASE /\ op[c].kind = "replace" /\ UNCHANGED group
             /\ op' = [op EXCEPT ![c].step = "rollback"]
    BY <1>3, <2>1, <2>2, <2>5, EndGroups
  <2> QED
    BY <1>9, <2>3, <2>4, <2>5 DEF UploadRaises, AttemptedStands
<1>10. CASE GiveBack(c)
  BY <1>10, GiveBackGroups
<1>11. CASE RemoveCentre(c) \/ CleanUp(c) \/ Leave(c)
  BY <1>11, RemovalGroups
<1>12. CASE Recover(c)
  <2>1. \A e \in Members :
            e \in {m \in Owned(c) : c \notin centres \/ claims[m].releasing}
            => c \notin centres \/ claims[e].releasing
    OBVIOUS
  <2> QED
    BY <1>12, <2>1, MarksGroups DEF Recover
<1> QED
  BY <1>1, <1>2, <1>5, <1>6, <1>7, <1>8, <1>9, <1>10, <1>11, <1>12

\* So does every step of a release: it forgets marked claims only.
LEMMA ReleasesGroups ==
    ASSUME IInv, GInv, Releases
    PROVE  GInv'
<1> USE DEF entries, journal, devices
<1> PICK j \in jobs :
        \/ \E e \in j.todo : Restore(j, e)
        \/ Persist(j) \/ Forget(j) \/ ReleaseRaises(j)
  BY DEF Releases
<1>1. loaded \subseteq Members /\ links \in [Members -> Links]
      /\ (\A e \in loaded : Exists(e))
  BY DEF GInv, GroupTypes, LoadedExists
<1>2. ASSUME NEW e \in j.todo, Restore(j, e) PROVE GInv'
  <2>1. e \in Members
    BY DEF IInv, Types, JobTypes
  <2>2. \A m \in Members : Exists(m)' <=> Exists(m)
    BY <1>2, <2>1 DEF Restore, Restores, IsOff, Exists, IInv, Types
  <2>3. \A i \in jobs' : i \in jobs \/ i.claims = j.claims
    BY <1>2 DEF Restore, Proceeds, IInv, Types, JobTypes
  <2> QED
    BY <1>1, <1>2, <2>2, <2>3, QuietGroups DEF Restore, Holds, Seen
<1>3. CASE Persist(j)
  <2>1. \A i \in jobs' : i \in jobs \/ i.claims = j.claims
    BY <1>3 DEF Persist, Proceeds, IInv, Types, JobTypes
  <2>2. stored' = stored \/ (stored'.centres = Staying /\ stored'.entry = entry)
    BY <1>3 DEF Persist, Flushed, Native
  <2> QED
    BY <1>1, <1>3, <2>1, <2>2, QuietGroups DEF Persist, Holds, Exists, Seen
<1>4. CASE Forget(j)
  <2>1. \A e \in Members : claims'[e] = claims[e] \/ claims[e].releasing
    BY <1>4 DEF Forget, SaveClaims, GInv, JobReleases
  <2> QED
    BY <1>1, <1>4, <2>1, QuietGroups DEF Forget, Holds, Exists, Seen
<1>5. CASE ReleaseRaises(j)
  BY <1>1, <1>5, QuietGroups DEF ReleaseRaises, Holds, Exists, Seen
<1> QED
  BY <1>2, <1>3, <1>4, <1>5

\* So does what happens to an entry: one in a group is not set up.
LEMMA EntriesGroups ==
    ASSUME IInv, GInv, Entries
    PROVE  GInv'
<1> USE DEF entries, journal, devices
<1> PICK e \in Members :
        \/ SetUp(e) \/ Guard(e) \/ GuardReleases(e) \/ DisableClaimed(e)
        \/ Link(e) \/ Unlink(e) \/ UserToggles(e) \/ RemoveMember(e)
  BY DEF Entries
<1>1. loaded \subseteq Members /\ links \in [Members -> Links]
      /\ (\A m \in loaded : Exists(m))
  BY DEF GInv, GroupTypes, LoadedExists
<1> DEFINE Lets == /\ loaded' = loaded \ {e} /\ links' \in [Members -> Links]
                   /\ \A m \in Members : Seen(m)' => Seen(m)
<1>10. Unloads(e) => Lets
  <2> SUFFICES ASSUME Unloads(e) PROVE Lets
    OBVIOUS
  <2>1. PICK link \in Links : links' = [links EXCEPT ![e] = link]
                              /\ (link \in {"held", "refused"} => link = links[e])
    <3>1. \/ links' = [links EXCEPT ![e] = IF @ = "held" THEN "none" ELSE @]
          \/ links' = [links EXCEPT ![e] = "stray"]
      BY DEF Unloads
    <3>2. \/ links' = [links EXCEPT ![e] = "none"]
          \/ links' = [links EXCEPT ![e] = links[e]]
          \/ links' = [links EXCEPT ![e] = "stray"]
      BY <3>1
    <3> QED
      BY <1>1, <3>2 DEF Links
  <2> QED
    BY <1>1, <2>1 DEF Unloads, Seen
<1>2. CASE SetUp(e)
  BY <1>1, <1>2, QuietGroups DEF SetUp, Enabled, Holds, Exists, Seen
<1>8. CASE Link(e)
  <2>1. links' \in [Members -> Links]
        /\ \A m \in Members : (Seen(m)' /\ ~Seen(m)) => Exists(m) /\ ~InForce(m)
    BY <1>1, <1>8 DEF Link, Links, Seen
  <2> QED
    BY <1>1, <1>8, <2>1, QuietGroups DEF Link, Holds, Exists
<1>9. CASE Unlink(e)
  <2>1. links' \in [Members -> Links] /\ \A m \in Members : Seen(m)' => Seen(m)
    BY <1>1, <1>9 DEF Unlink, Links, Seen
  <2> QED
    BY <1>1, <1>9, <2>1, QuietGroups DEF Unlink, Holds, Exists
<1>3. CASE Guard(e)
  <2>1. \A m \in Members : /\ claims'[m].centre = claims[m].centre
                           /\ claims'[m].releasing = claims[m].releasing
    BY <1>3 DEF Guard, SaveClaims, IInv, Types, ClaimRecord
  <2> QED
    BY <1>1, <1>3, <2>1, QuietGroups DEF Guard, Holds, Exists, Seen
<1>4. CASE GuardReleases(e)
  <2>1. claims[e].centre \in Centres
    BY <1>4 DEF GuardReleases, Claimed, IInv, Types, ClaimRecord
  <2> QED
    BY <1>4, <2>1, MarksGroups DEF GuardReleases
<1>5. CASE DisableClaimed(e)
  <2>1. \A m \in Members : Exists(m)' <=> Exists(m)
    BY <1>5, DisabledGroups DEF DisableClaimed, Exists
  <2>2. Lets \/ UNCHANGED <<loaded, links>>
    BY <1>10, <1>5 DEF DisableClaimed
  <2>3. /\ loaded' \subseteq loaded /\ links' \in [Members -> Links]
        /\ \A m \in Members : Seen(m)' => Seen(m)
    BY <1>1, <2>2 DEF Seen
  <2> HIDE DEF Lets
  <2> QED
    BY <1>1, <1>5, <2>1, <2>3, QuietGroups DEF DisableClaimed, Holds
<1>6. CASE UserToggles(e)
  <2>1. \A m \in Members : Exists(m)' <=> Exists(m)
    BY <1>6 DEF UserToggles, IsOff, Exists, IInv, Types
  <2>2. stored'.centres = Staying /\ stored'.entry = entry'
    BY <1>6 DEF UserToggles, Native
  <2> QED
    BY <1>1, <1>10, <1>6, <2>1, <2>2, QuietGroups DEF UserToggles, Holds
<1>7. CASE RemoveMember(e)
  <2>1. \A m \in Members : Exists(m)' <=> Exists(m) /\ m # e
    BY <1>7 DEF RemoveMember, Exists, IInv, Types
  <2>2. stored'.centres = Staying /\ stored'.entry = entry'
    BY <1>7 DEF RemoveMember, Native
  <2>3. \A m \in Members : m # e => claims'[m] = claims[m]
    BY <1>7 DEF RemoveMember, SaveClaims, IInv, Types
  <2> QED
    BY <1>1, <1>10, <1>7, <2>1, <2>2, <2>3, QuietGroups DEF RemoveMember, Holds
<1> QED
  BY <1>2, <1>3, <1>4, <1>5, <1>6, <1>7, <1>8, <1>9

\* Every step keeps GInv.
LEMMA StepGInv == IInv /\ GInv /\ [Next]_vars => GInv'
<1> SUFFICES ASSUME IInv, GInv, [Next]_vars PROVE GInv'
  OBVIOUS
<1>1. loaded \subseteq Members /\ links \in [Members -> Links]
      /\ (\A m \in loaded : Exists(m))
  BY DEF GInv, GroupTypes, LoadedExists
<1>2. CASE SaveEntries
  <2>1. stored'.centres = Staying /\ stored'.entry = entry
    BY <1>2 DEF SaveEntries, Native
  <2> QED
    BY <1>1, <1>2, <2>1, QuietGroups DEF SaveEntries, journal, devices, Holds, Exists, Seen
<1>3. CASE UNCHANGED vars
  BY <1>1, <1>3, QuietGroups DEF vars, entries, journal, devices, Holds, Exists, Seen
<1> QED
  BY <1>2, <1>3, ServicesGroups, ReleasesGroups, EntriesGroups, RestartGroups DEF Next

-----------------------------------------------------------------------------
(* What is owed.  A claim that goes takes with it the record that its      *)
(* member is to be enabled, so the release that forgets it must have       *)
(* enabled the member and have had that saved.  A member that is settled   *)
(* is claimed as the releases under way have found it, or not any more.    *)

Settled(j) == {e \in Members : e \in DOMAIN j.claims /\ e \notin unsettled}

JobOwes(j) ==
    \A e \in Settled(j) :
        /\ claims[e] = NoClaim \/ claims[e] = j.claims[e]
        /\ e \notin j.todo =>
              /\ entry[e] # "taken"
              /\ j.claims[e].ours => e \in j.restored \/ ~Exists(e)
        /\ j.step = "forget" => e \notin j.todo /\ stored.entry[e] # "taken"

\* Nobody's claim owes nothing.
NobodysClaim == \A e \in Members : claims[e].centre = None => claims[e] = NoClaim

\* What is done by hand is on disk, but for a member disabled since.
HandIsSaved ==
    \A e \in Members :
        /\ entry[e] \in {"late", "reenabled"} => stored.entry[e] = entry[e]
        /\ entry[e] = "unrecorded" => stored.entry[e] \in {"reenabled", "unrecorded"}

\* A claimed member that is on, here or on disk, without its user's having
\* enabled it while it was claimed, was on when it was claimed.
OnIsOwed ==
    \A e \in Members \ unsettled :
        InForce(e) => claims[e].ours \/ (entry[e] # "on" /\ stored.entry[e] # "on")

OInv ==
    /\ NobodysClaim
    /\ OwedIsRecorded
    /\ HandIsSaved /\ OnIsOwed
    /\ \A j \in jobs : JobOwes(j)

\* Entries, their store and releases under claims that stay.
LEMMA QuietOwed ==
    ASSUME IInv, OInv, UNCHANGED <<claims, storedClaims, unsettled>>, jobs' \subseteq jobs,
           \A e \in Members : entry'[e] = "taken" => entry[e] = "taken",
           \A e \in Members : entry'[e] = "on" => entry[e] = "on" \/ ~InForce(e),
           \A e \in Members : Exists(e)' => Exists(e),
           (entry' = entry /\ stored' = stored) \/ stored'.entry = entry',
           centres' \subseteq centres
    PROVE  OInv'
<1>1. OwedIsRecorded'
  BY DEF OInv, OwedIsRecorded, IInv, ClaimsAreSaved
<1>2. ASSUME NEW j \in jobs' PROVE JobOwes(j)'
  BY <1>2 DEF OInv, JobOwes, Settled
<1>3. HandIsSaved'
  BY DEF OInv, HandIsSaved
<1>4. \A e \in Members : InForce(e)' => InForce(e)
  BY DEF InForce, Claimed
<1>5. OnIsOwed'
  BY <1>4 DEF OInv, OnIsOwed
<1> QED
  BY <1>1, <1>2, <1>3, <1>5 DEF OInv, NobodysClaim

\* Only who is claimed in force is disabled, so nobody whom a release is about
\* to forget.
LEMMA DisabledOwed ==
    ASSUME IInv, GInv, OInv, NEW m \in Members,
           Exists(m) => InForce(m), entry' = Disabled(m),
           UNCHANGED <<centres, stored, claims, storedClaims, jobs, unsettled>>
    PROVE  OInv'
<1>1. \A e \in Members : entry'[e] = "taken" =>
          \/ entry[e] = "taken"
          \/ e = m /\ Exists(m) /\ (claims[m].ours \/ m \in unsettled)
  BY DEF Disabled, Enabled, Exists, IInv, Types, OInv, OnIsOwed
<1>2. \A e \in Members : Exists(e)' <=> Exists(e)
  BY DisabledGroups DEF Exists
<1>3. OwedIsRecorded'
  BY <1>1 DEF OInv, OwedIsRecorded
<1>4. ASSUME NEW j \in jobs, Exists(m) PROVE m \notin Settled(j)
  <2>1. CASE claims[m] = NoClaim
    BY <1>4, <2>1 DEF InForce, Claimed, NoClaim
  <2>2. CASE m \in DOMAIN j.claims /\ claims[m] = j.claims[m]
    BY <1>4, <2>2 DEF InForce, GInv, JobReleases
  <2> QED
    BY <2>1, <2>2 DEF OInv, JobOwes, Settled
<1>5. ASSUME NEW j \in jobs PROVE JobOwes(j)'
  BY <1>1, <1>2, <1>4, <1>5 DEF OInv, JobOwes, Settled
<1>6. \A e \in Members :
          \/ entry'[e] = entry[e]
          \/ e = m /\ entry'[m] = "taken"
          \/ e = m /\ entry'[m] = "unrecorded" /\ entry[m] = "reenabled"
  BY DEF Disabled, Enabled, IInv, Types
<1>7. HandIsSaved'
  BY <1>6 DEF OInv, HandIsSaved
<1>8. OnIsOwed'
  BY <1>6 DEF OInv, OnIsOwed, InForce, Claimed
<1> QED
  BY <1>3, <1>5, <1>7, <1>8 DEF OInv, NobodysClaim

\* A release marks claims and has enabled nobody yet.
LEMMA ReleaseOwes ==
    ASSUME IInv, GInv, OInv, NEW by, NEW c \in Centres, NEW only,
           Release(by, c, only), UNCHANGED <<entry, centres, stored, unsettled>>
    PROVE  OInv'
<1>1. CASE only \cap Owned(c) = {}
  BY <1>1, QuietOwed DEF Release, journal, Exists
<1>2. CASE only \cap Owned(c) # {}
  <2> DEFINE released == only \cap Owned(c)
             found == [e \in released |-> Marked(e)]
             job == [by |-> by, centre |-> c, step |-> "restore", claims |-> found,
                     todo |-> released, restored |-> {}]
  <2>1. \A e \in Members : /\ Marked(e).centre = claims[e].centre
                           /\ Marked(e).ours = claims[e].ours
                           /\ Marked(e).releasing
                           /\ claims[e].releasing => Marked(e) = claims[e]
    BY DEF IInv, Types, ClaimRecord, Marked
  <2>2. /\ claims' = [e \in Members |-> IF e \in released THEN Marked(e) ELSE claims[e]]
        /\ storedClaims' = claims' /\ jobs' = jobs \cup {job}
    BY <1>2 DEF Release, SaveClaims
  <2>3. \A e \in released : e \in Members /\ claims[e].centre = c
    BY DEF Owned
  <2>4. NobodysClaim' /\ OwedIsRecorded' /\ HandIsSaved' /\ OnIsOwed'
    <3>1. \A e \in Members : /\ claims'[e].ours = claims[e].ours
                             /\ claims'[e].centre = claims[e].centre
                             /\ claims'[e] # claims[e] => claims[e].centre = c
      BY <2>1, <2>2, <2>3
    <3>2. c # None
      BY NoneAssumption
    <3>3. NobodysClaim' /\ OwedIsRecorded'
      BY <2>2, <3>1, <3>2 DEF OInv, NobodysClaim, OwedIsRecorded, IInv, ClaimsAreSaved
    <3>4. \A e \in Members : InForce(e)' => InForce(e)
      BY <2>1, <2>2, <3>1 DEF InForce, Claimed
    <3>5. HandIsSaved' /\ OnIsOwed'
      BY <3>1, <3>4 DEF OInv, HandIsSaved, OnIsOwed
    <3> QED
      BY <3>3, <3>5
  <2>5. ASSUME NEW j \in jobs PROVE JobOwes(j)'
    <3>1. ASSUME NEW e \in Settled(j), e \in released PROVE claims'[e] = claims[e]
      <4>1. e \in Members /\ claims[e].centre = c /\ c # None
        BY <2>3, <3>1, NoneAssumption
      <4>2. claims[e] = j.claims[e] /\ e \in DOMAIN j.claims
        BY <3>1, <4>1 DEF OInv, JobOwes, Settled, NoClaim
      <4>3. claims[e].releasing
        BY <4>2 DEF GInv, JobReleases
      <4> QED
        BY <2>1, <2>2, <4>1, <4>3
    <3>2. \A e \in Settled(j) : claims'[e] = claims[e]
      BY <2>2, <3>1 DEF Settled
    <3> QED
      BY <3>2 DEF OInv, JobOwes, Settled, Exists
  <2>6. PICK new : /\ jobs' = jobs \cup {new} /\ new.step = "restore"
                   /\ new.todo = DOMAIN new.claims
                   /\ \A e \in DOMAIN new.claims : claims'[e] = new.claims[e]
    <3>1. job.claims = found /\ job.todo = released /\ job.step = "restore"
          /\ DOMAIN found = released
      OBVIOUS
    <3>2. \A e \in released : claims'[e] = found[e]
      BY <2>2, <2>3
    <3> HIDE DEF job, found
    <3> QED
      BY <2>2, <3>1, <3>2
  <2>7. JobOwes(new)'
    BY <2>6 DEF JobOwes, Settled
  <2> QED
    BY <2>4, <2>5, <2>6, <2>7 DEF OInv
<1> QED
  BY <1>1, <1>2

\* Who has been seen to is enabled, and noted as such, or gone.
LEMMA RestoreOwes ==
    ASSUME IInv, GInv, OInv, NEW j \in jobs, NEW e \in j.todo, Restore(j, e)
    PROVE  OInv'
<1>1. /\ JobTypes(j) /\ e \in Members /\ e \in DOMAIN j.claims
      /\ UNCHANGED <<centres, stored, claims, storedClaims, unsettled>>
      /\ j.step = "restore"
  BY DEF IInv, Types, JobTypes, Restore, journal
<1>2. /\ \A m \in Members : m # e => entry'[m] = entry[m]
      /\ entry'[e] = IF Restores(j, e) THEN "on" ELSE entry[e]
  BY <1>1 DEF Restore, IInv, Types
<1>3. \A m \in Members : /\ entry'[m] = "taken" => entry[m] = "taken"
                         /\ Exists(m)' <=> Exists(m)
  BY <1>2 DEF Restores, IsOff, Exists
<1>4. OwedIsRecorded'
  BY <1>1, <1>3 DEF OInv, OwedIsRecorded
<1>5. ASSUME NEW i \in jobs PROVE JobOwes(i)'
  BY <1>1, <1>3, <1>5 DEF OInv, JobOwes, Settled
<1>6. PICK new : /\ jobs' = (jobs \ {j}) \cup {new}
                 /\ new.claims = j.claims /\ new.todo = j.todo \ {e}
                 /\ new.step = j.step /\ j.restored \subseteq new.restored
                 /\ j.claims[e].ours /\ Exists(e) => e \in new.restored
  <2> DEFINE some(r) == [j EXCEPT !.todo = @ \ {e}, !.restored = r]
             r0 == IF j.claims[e].ours /\ Exists(e)
                   THEN j.restored \cup {e} ELSE j.restored
  <2>1. jobs' = (jobs \ {j}) \cup {some(r0)}
    BY <1>1 DEF Restore, Proceeds, JobTypes
  <2>2. \A r : /\ some(r).claims = j.claims /\ some(r).todo = j.todo \ {e}
               /\ some(r).step = j.step /\ some(r).restored = r
    BY <1>1 DEF JobTypes
  <2>3. j.restored \subseteq r0
        /\ (j.claims[e].ours /\ Exists(e) => e \in r0)
    OBVIOUS
  <2> HIDE DEF some, r0
  <2> QED
    BY <2>1, <2>2, <2>3
<1>7. ASSUME e \in Settled(j)
      PROVE  /\ entry'[e] # "taken"
             /\ j.claims[e].ours => e \in new.restored \/ ~Exists(e)
  <2>1. CASE j.claims[e].ours
    BY <1>1, <1>2, <1>6, <2>1 DEF Restores, IsOff, Exists, IInv, Types, Entry
  <2>2. CASE ~j.claims[e].ours
    <3>1. ~claims[e].ours
      BY <1>7, <2>2 DEF OInv, JobOwes, NoClaim
    <3> QED
      BY <1>3, <1>7, <2>2, <3>1 DEF OInv, OwedIsRecorded, Settled
  <2> QED
    BY <2>1, <2>2
<1>8. JobOwes(new)'
  <2>1. \A m \in Settled(new)' : m \in Settled(j)
    BY <1>1, <1>6 DEF Settled
  <2> QED
    BY <1>1, <1>3, <1>6, <1>7, <2>1 DEF OInv, JobOwes, Settled
<1>9. HandIsSaved'
  BY <1>1, <1>2 DEF OInv, HandIsSaved
<1>10. ASSUME Restores(j, e), e \notin unsettled PROVE ~InForce(e)
  <2>1. claims[e] = NoClaim \/ claims[e] = j.claims[e]
    BY <1>1, <1>10 DEF OInv, JobOwes, Settled
  <2> QED
    BY <1>1, <2>1 DEF InForce, Claimed, NoClaim, GInv, JobReleases
<1>11. OnIsOwed'
  BY <1>1, <1>2, <1>10 DEF OInv, OnIsOwed, InForce, Claimed
<1> QED
  BY <1>1, <1>4, <1>5, <1>6, <1>8, <1>9, <1>11 DEF OInv, NobodysClaim

\* What was enabled is saved before its claim is forgotten.
LEMMA PersistOwes ==
    ASSUME IInv, GInv, OInv, NEW j \in jobs, Persist(j)
    PROVE  OInv'
<1>1. /\ JobTypes(j) /\ j.todo = {}
      /\ UNCHANGED <<entry, centres, claims, storedClaims, unsettled>>
      /\ stored' = Flushed(j)
  BY DEF IInv, Types, Persist, journal
<1>2. stored' = stored \/ stored'.entry = entry
  BY <1>1 DEF Flushed, Native
<1>3. OwedIsRecorded'
  BY <1>1, <1>2 DEF OInv, OwedIsRecorded, IInv, ClaimsAreSaved
<1>4. ASSUME NEW i \in jobs PROVE JobOwes(i)'
  BY <1>1, <1>2, <1>4 DEF OInv, JobOwes, Settled, Exists
<1>5. ASSUME NEW e \in Settled(j) PROVE stored'.entry[e] # "taken"
  <2>1. e \in Members /\ entry[e] # "taken"
        /\ (j.claims[e].ours => e \in j.restored \/ entry[e] = "gone")
    BY <1>1 DEF OInv, JobOwes, Settled, Exists
  <2>2. CASE j.restored # {}
    BY <1>1, <2>1, <2>2 DEF Flushed, Native
  <2>3. CASE j.restored = {} /\ j.claims[e].ours
    BY <1>1, <2>1, <2>3 DEF Flushed, GInv, GoneIsSaved
  <2>4. CASE j.restored = {} /\ ~j.claims[e].ours
    <3>1. ~claims[e].ours /\ stored' = stored
      BY <1>1, <2>4 DEF OInv, JobOwes, NoClaim, Flushed
    <3> QED
      BY <3>1 DEF OInv, OwedIsRecorded, IInv, ClaimsAreSaved, Settled
  <2> QED
    BY <2>2, <2>3, <2>4
<1>6. PICK new : /\ jobs' = (jobs \ {j}) \cup {new}
                 /\ new.claims = j.claims /\ new.todo = {} /\ new.restored = j.restored
  <2>1. [j EXCEPT !.step = "forget"].claims = j.claims
        /\ [j EXCEPT !.step = "forget"].todo = j.todo
        /\ [j EXCEPT !.step = "forget"].restored = j.restored
    BY <1>1 DEF JobTypes
  <2> QED
    BY <1>1, <2>1 DEF Persist, Proceeds
<1>7. JobOwes(new)'
  <2>1. \A e \in Settled(new)' : e \in Settled(j)
    BY <1>1, <1>6 DEF Settled
  <2> QED
    BY <1>1, <1>5, <1>6, <2>1 DEF OInv, JobOwes, Settled, Exists
<1>8. HandIsSaved' /\ OnIsOwed'
  BY <1>1, <1>2 DEF OInv, HandIsSaved, OnIsOwed, InForce, Claimed
<1> QED
  BY <1>1, <1>3, <1>4, <1>6, <1>7, <1>8 DEF OInv, NobodysClaim

\* Who is forgotten is owed nothing, here or in what a restart would read.
LEMMA ForgetOwes ==
    ASSUME IInv, GInv, OInv, NEW j \in jobs, Forget(j)
    PROVE  OInv'
<1>1. /\ JobTypes(j) /\ j.step = "forget" /\ storedClaims' = claims'
      /\ UNCHANGED <<entry, centres, stored, unsettled>> /\ jobs' = jobs \ {j}
      /\ \A e \in Members :
            \/ claims'[e] = claims[e]
            \/ claims'[e] = NoClaim /\ e \in DOMAIN j.claims
  BY DEF IInv, Types, Forget, SaveClaims, entries
<1>2. OwedIsRecorded'
  <2> SUFFICES ASSUME NEW e \in Members, e \notin unsettled, claims'[e] # claims[e]
               PROVE  entry[e] # "taken" /\ stored.entry[e] # "taken"
    BY <1>1 DEF OInv, OwedIsRecorded, IInv, ClaimsAreSaved
  <2>1. e \in Settled(j)
    BY <1>1 DEF Settled
  <2> QED
    BY <1>1, <2>1 DEF OInv, JobOwes
<1>3. NobodysClaim'
  BY <1>1 DEF OInv, NobodysClaim, NoClaim
<1>4. ASSUME NEW i \in jobs' PROVE JobOwes(i)'
  BY <1>1, <1>4 DEF OInv, JobOwes, Settled, Exists
<1>5. \A e \in Members : InForce(e)' => InForce(e) /\ claims'[e] = claims[e]
  BY <1>1 DEF InForce, Claimed, NoClaim
<1>6. HandIsSaved' /\ OnIsOwed'
  BY <1>1, <1>5 DEF OInv, HandIsSaved, OnIsOwed
<1> QED
  BY <1>2, <1>3, <1>4, <1>6 DEF OInv

\* A settled member that is claimed anew is owed nothing yet, by a claim or by
\* a release.
LEMMA ReplaceOwes ==
    ASSUME IInv, GInv, OInv, NEW c \in Centres, NEW members \in SUBSET Members,
           Replace(c, members)
    PROVE  OInv'
<1>1. /\ storedClaims' = claims' /\ UNCHANGED <<entry, centres, stored, jobs>>
      /\ unsettled' = unsettled \cup {e \in members : StillOwed(c, e)}
      /\ \A e \in members : Exists(e)
  BY DEF Replace, SaveClaims, entries
<1>2. ASSUME NEW e \in Members
      PROVE  \/ claims'[e] = claims[e]
             \/ /\ e \in members /\ Unclaimed(c, e)
                /\ claims'[e].centre = c /\ claims'[e].ours = Enabled(e)
  <2>1. PICK b : /\ b = Enabled(e)
                 /\ claims'[e] = IF e \in members /\ Unclaimed(c, e)
                                 THEN [centre |-> c, ours |-> b, releasing |-> FALSE]
                                 ELSE claims[e]
    BY DEF Replace, SaveClaims
  <2> QED
    BY <2>1
<1>3. ASSUME NEW e \in Members, e \notin unsettled', claims'[e] # claims[e]
      PROVE  /\ \A j \in jobs : e \notin Settled(j)
             /\ entry[e] = "taken" \/ stored.entry[e] = "taken"
                => Enabled(e) /\ claims'[e].ours
  <2>1. /\ e \in members /\ Unclaimed(c, e) /\ ~StillOwed(c, e)
        /\ claims'[e].ours = Enabled(e) /\ e \notin unsettled
    BY <1>1, <1>2, <1>3
  <2>2. \A j \in jobs : e \notin Settled(j)
    BY <2>1 DEF StillOwed, Settled
  <2>3. ASSUME entry[e] = "taken" \/ stored.entry[e] = "taken" PROVE Enabled(e)
    <3>1. claims[e].ours
      BY <2>1, <2>3 DEF OInv, OwedIsRecorded, IInv, ClaimsAreSaved
    <3>2. claims[e].centre # None
      BY <3>1 DEF OInv, NobodysClaim, NoClaim
    <3>3. claims[e].centre = c
      BY <2>1, <3>1, <3>2 DEF StillOwed
    <3> QED
      BY <2>1, <3>3 DEF Unclaimed
  <2> QED
    BY <2>1, <2>2, <2>3
<1>4. OwedIsRecorded'
  <2> SUFFICES ASSUME NEW e \in Members, e \notin unsettled'
               PROVE  /\ entry[e] = "taken" => claims'[e].ours
                      /\ stored.entry[e] = "taken" => claims'[e].ours
    BY <1>1 DEF OwedIsRecorded
  <2> QED
    BY <1>1, <1>3 DEF OInv, OwedIsRecorded, IInv, ClaimsAreSaved
<1>5. NobodysClaim'
  BY <1>2, NoneAssumption DEF OInv, NobodysClaim
<1>6. ASSUME NEW j \in jobs PROVE JobOwes(j)'
  <2>1. \A e \in Settled(j)' : e \in Settled(j) /\ claims'[e] = claims[e]
    BY <1>1, <1>3 DEF Settled
  <2> QED
    BY <1>1, <2>1 DEF OInv, JobOwes, Exists
<1>7. HandIsSaved'
  BY <1>1 DEF OInv, HandIsSaved
<1>8. OnIsOwed'
  <2> SUFFICES ASSUME NEW e \in Members, e \notin unsettled', InForce(e)'
               PROVE  claims'[e].ours \/ (entry[e] # "on" /\ stored.entry[e] # "on")
    BY <1>1 DEF OnIsOwed
  <2>1. CASE claims'[e] = claims[e]
    BY <1>1, <2>1 DEF OInv, OnIsOwed, InForce, Claimed
  <2>2. CASE claims'[e] # claims[e] /\ ~claims'[e].ours
    <3>1. /\ ~Enabled(e) /\ Exists(e) /\ entry[e] # "taken"
      BY <1>1, <1>2, <1>3, <2>2
    <3>2. entry[e] \in {"off", "late", "unrecorded"}
      BY <3>1 DEF Enabled, Exists, IInv, Types, Entry
    <3> QED
      BY <3>2 DEF IInv, OffIsSaved, OInv, HandIsSaved
  <2> QED
    BY <2>1, <2>2
<1> QED
  BY <1>1, <1>4, <1>5, <1>6, <1>7, <1>8 DEF OInv

\* Every step of a service keeps what is owed recorded.
LEMMA ServicesOwe ==
    ASSUME IInv, GInv, OInv, Services
    PROVE  OInv'
<1> USE DEF entries, journal, devices
<1> PICK c \in Centres :
        \/ \E members \in SUBSET Members : Replace(c, members)
        \/ Delete(c)
        \/ \E e \in Members : HandOver(c, e) \/ HandOverRaises(c, e)
        \/ Upload(c) \/ UploadRaises(c) \/ GiveBack(c) \/ GiveBackRaises(c)
        \/ RemoveCentre(c) \/ CleanUp(c) \/ Leave(c) \/ Recover(c)
  BY DEF Services
<1>1. ASSUME UNCHANGED <<entry, stored, claims, storedClaims, jobs, unsettled>>,
             centres' \subseteq centres
      PROVE  OInv'
  BY <1>1, QuietOwed DEF Exists
<1>2. CASE \/ Delete(c) \/ GiveBackRaises(c)
           \/ \E e \in Members : HandOverRaises(c, e)
  BY <1>1, <1>2 DEF Delete, GiveBackRaises, HandOverRaises
<1>3. CASE Upload(c) \/ UploadRaises(c) \/ Leave(c)
  BY <1>1, <1>3 DEF Upload, UploadRaises, Leave
<1>4. ASSUME NEW members \in SUBSET Members, Replace(c, members) PROVE OInv'
  BY <1>4, ReplaceOwes
<1>5. ASSUME NEW e \in Members, HandOver(c, e) PROVE OInv'
  <2>1. Exists(e) => InForce(e)
    BY <1>5, NoneAssumption
       DEF HandOver, GInv, GroupTypes, ServiceInv, Holds, InForce, Claimed
  <2> QED
    BY <1>5, <2>1, DisabledOwed DEF HandOver
<1>6. CASE GiveBack(c)
  BY <1>6, ReleaseOwes DEF GiveBack
<1>7. CASE RemoveCentre(c)
  <2>1. stored'.entry = entry
    BY <1>7 DEF RemoveCentre, Native
  <2> QED
    BY <1>7, <2>1, QuietOwed DEF RemoveCentre, Exists
<1>8. CASE CleanUp(c)
  BY <1>1, <1>8, ReleaseOwes DEF CleanUp
<1>9. CASE Recover(c)
  BY <1>9, ReleaseOwes DEF Recover
<1> QED
  BY <1>2, <1>3, <1>4, <1>5, <1>6, <1>7, <1>8, <1>9

\* So does what happens to an entry.
LEMMA EntriesOwe ==
    ASSUME IInv, GInv, OInv, Entries
    PROVE  OInv'
<1> USE DEF entries, journal, devices
<1> PICK e \in Members :
        \/ SetUp(e) \/ Guard(e) \/ GuardReleases(e) \/ DisableClaimed(e)
        \/ Link(e) \/ Unlink(e) \/ UserToggles(e) \/ RemoveMember(e)
  BY DEF Entries
<1>1. CASE SetUp(e) \/ Link(e) \/ Unlink(e)
  BY <1>1, QuietOwed DEF SetUp, Link, Unlink, Exists
<1>2. CASE Guard(e)
  <2>1. /\ claims[e].centre # None /\ ~claims[e].releasing
        /\ UNCHANGED <<entry, centres, stored, jobs, unsettled>>
        /\ storedClaims' = claims'
    BY <1>2 DEF Guard, InForce, Claimed, SaveClaims
  <2>2. /\ claims'[e].ours /\ claims'[e].centre = claims[e].centre
        /\ \A m \in Members : m # e => claims'[m] = claims[m]
    BY <1>2 DEF Guard, SaveClaims, IInv, Types, ClaimRecord
  <2>3. \A j \in jobs : e \notin Settled(j)
    BY <2>1 DEF OInv, JobOwes, NoClaim, Settled, GInv, JobReleases
  <2>4. OwedIsRecorded'
    BY <2>1, <2>2 DEF OInv, OwedIsRecorded, IInv, ClaimsAreSaved
  <2>5. ASSUME NEW j \in jobs PROVE JobOwes(j)'
    BY <2>1, <2>2, <2>3 DEF OInv, JobOwes, Settled, Exists
  <2>6. HandIsSaved' /\ OnIsOwed'
    BY <2>1, <2>2 DEF OInv, HandIsSaved, OnIsOwed, InForce, Claimed
  <2> QED
    BY <2>1, <2>2, <2>4, <2>5, <2>6 DEF OInv, NobodysClaim
<1>3. CASE GuardReleases(e)
  <2>1. claims[e].centre \in Centres
    BY <1>3 DEF GuardReleases, Claimed, IInv, Types, ClaimRecord
  <2> QED
    BY <1>3, <2>1, ReleaseOwes DEF GuardReleases
<1>4. CASE DisableClaimed(e)
  <2>1. CASE InForce(e) /\ entry' = Disabled(e)
    BY <1>4, <2>1, DisabledOwed DEF DisableClaimed
  <2>2. CASE entry' = entry
    BY <1>4, <2>2, QuietOwed DEF DisableClaimed, Exists
  <2> QED
    BY <1>4, <2>1, <2>2 DEF DisableClaimed
<1>5. CASE UserToggles(e)
  <2>1. \A m \in Members : /\ entry'[m] = "taken" => entry[m] = "taken"
                           /\ entry'[m] = "on" => entry[m] = "on" \/ ~InForce(m)
                           /\ Exists(m)' => Exists(m)
    BY <1>5 DEF UserToggles, IsOff, Exists, IInv, Types
  <2>2. stored'.entry = entry'
    BY <1>5 DEF UserToggles, Native
  <2> QED
    BY <1>5, <2>1, <2>2, QuietOwed DEF UserToggles
<1>6. CASE RemoveMember(e)
  <2>1. /\ entry'[e] = "gone" /\ (\A m \in Members : m # e => entry'[m] = entry[m])
        /\ stored'.entry = entry' /\ UNCHANGED <<centres, jobs, unsettled>>
    BY <1>6 DEF RemoveMember, Native, IInv, Types
  <2>2. /\ claims'[e] = NoClaim /\ (\A m \in Members : m # e => claims'[m] = claims[m])
        /\ storedClaims' = claims'
    BY <1>6 DEF RemoveMember, SaveClaims, IInv, Types
  <2>3. OwedIsRecorded'
    BY <2>1, <2>2 DEF OInv, OwedIsRecorded
  <2>4. ASSUME NEW j \in jobs PROVE JobOwes(j)'
    BY <2>1, <2>2 DEF OInv, JobOwes, Settled, Exists
  <2>5. HandIsSaved'
    BY <2>1 DEF HandIsSaved
  <2>6. OnIsOwed'
    BY <2>1, <2>2 DEF OInv, OnIsOwed, InForce, Claimed, NoClaim
  <2> QED
    BY <2>1, <2>2, <2>3, <2>4, <2>5, <2>6 DEF OInv, NobodysClaim
<1> QED
  BY <1>1, <1>2, <1>3, <1>4, <1>5, <1>6

\* Every step keeps OInv.
LEMMA StepOInv == IInv /\ GInv /\ OInv /\ [Next]_vars => OInv'
<1> SUFFICES ASSUME IInv, GInv, OInv, [Next]_vars PROVE OInv'
  OBVIOUS
<1>1. CASE Releases
  <2> PICK j \in jobs :
          \/ \E e \in j.todo : Restore(j, e)
          \/ Persist(j) \/ Forget(j) \/ ReleaseRaises(j)
    BY <1>1 DEF Releases
  <2>1. CASE ReleaseRaises(j)
    BY <2>1, QuietOwed DEF ReleaseRaises, entries, journal, Exists
  <2> QED
    BY <2>1, RestoreOwes, PersistOwes, ForgetOwes
<1>2. CASE SaveEntries
  <2>1. stored'.entry = entry
    BY <1>2 DEF SaveEntries, Native
  <2> QED
    BY <1>2, <2>1, QuietOwed DEF SaveEntries, journal, Exists
<1>3. CASE Restart
  <2>1. /\ claims' = claims /\ storedClaims' = claims' /\ jobs' = {}
        /\ entry' = stored.entry /\ UNCHANGED <<stored, unsettled>>
        /\ centres' \subseteq centres
    BY <1>3 DEF Restart, IInv, ClaimsAreSaved, GInv, StayingIsSaved, Staying
  <2>2. NobodysClaim' /\ OwedIsRecorded' /\ HandIsSaved'
    BY <2>1 DEF OInv, NobodysClaim, OwedIsRecorded, IInv, ClaimsAreSaved, HandIsSaved
  <2>3. OnIsOwed'
    BY <2>1 DEF OInv, OnIsOwed, InForce, Claimed
  <2> QED
    BY <2>1, <2>2, <2>3 DEF OInv
<1>4. CASE UNCHANGED vars
  BY <1>4, QuietOwed DEF vars, entries, journal, Exists
<1> QED
  BY <1>1, <1>2, <1>3, <1>4, ServicesOwe, EntriesOwe DEF Next

\* Nobody is owed anything at first.
LEMMA InitOInv == Init => OInv
BY DEF Init, OInv, NobodysClaim, OwedIsRecorded, HandIsSaved, OnIsOwed, InForce,
       Claimed, NoClaim

-----------------------------------------------------------------------------

\* Claims, groups and what is owed, in every reachable state.
THEOREM Invariant == Spec => [](IInv /\ GInv /\ OInv)
<1>1. Init => IInv /\ GInv /\ OInv /\ Counted
  BY InitIInv, InitGInv, InitOInv DEF Init, Counted
<1>2. IInv /\ GInv /\ OInv /\ Counted /\ [Next]_vars
      => (IInv /\ GInv /\ OInv /\ Counted)'
  BY Step, StepGInv, StepOInv, CountedKeeps
<1> QED
  BY <1>1, <1>2, PTL DEF Spec

\* The state is of its type, with any number of centres and members.
THEOREM DreamviewTypes == Spec => []TypeOK
<1>1. IInv /\ GInv => TypeOK
  BY DEF IInv, Types, GInv, GroupTypes, TypeOK, Entry, ClaimRecord, Links
<1> QED
  BY <1>1, Invariant, PTL

\* async_replace_dreamview_group and its rollback: whatever failed or was
\* interrupted, whoever may be in the group of a centre that stays is claimed by
\* that centre, and claimed so on disk.
THEOREM GroupedStaysClaimed == Spec => []GroupedIsClaimed
<1>1. IInv /\ GInv => GroupedIsClaimed
  BY DEF IInv, Types, ClaimsAreSaved, GInv, GroupTypes, GroupInv, StayingIsSaved, Kept,
         Holds, GroupedIsClaimed
<1> QED
  BY <1>1, Invariant, PTL

\* The hand-over before the upload: no coordinator that is set up is connected to
\* a device in the group of a centre that stays, and no service has uploaded a
\* group over a connection that it found to stay up.  A connection that no
\* coordinator knows of any more ("stray") is not spoken of: the code does not
\* see it.
THEOREM NoContentionAlways == Spec => []NoContention
<1>1. IInv /\ GInv => NoContention
  BY DEF IInv, Types, GInv, GroupTypes, GroupInv, StayingIsSaved, Seen, Kept,
         NoContention
<1> QED
  BY <1>1, Invariant, PTL

\* async_release_dreamview_claims_for_centre: an entry that DreamView has
\* disabled is recorded as to be enabled again, in memory and in what a restart
\* would read, until it is enabled and that is saved.  Not one that was off when
\* it was claimed, was enabled by its user since and is disabled before the guard
\* has recorded that ("unrecorded"), nor one claimed anew while it was owed.
THEOREM OwedStaysRecorded == Spec => []OwedIsRecorded
<1>1. OInv => OwedIsRecorded
  BY DEF OInv
<1> QED
  BY <1>1, Invariant, PTL

\* disabled_by_dreamview: an entry that the user had disabled before it was
\* claimed is enabled by the user only, whatever centres claim, release, fail or
\* recover, and wherever Home Assistant stops, for any number of all of them.
THEOREM DeliberateStaysOff == Spec => OffIsKept
<1>1. Init => IInv /\ Counted
  BY InitIInv DEF Init, Counted
<1>2. IInv /\ Counted /\ [Next]_vars => (IInv /\ Counted)'
  BY Step, CountedKeeps
<1>3. IInv /\ Counted /\ [Next]_vars =>
         [\A e \in Members : entry[e] = "off" /\ entry'[e] \in {"on", "reenabled"} =>
              user' # user \/ crashes' # crashes]_vars
  BY Step DEF OffStaysOff
<1> QED
  BY <1>1, <1>2, <1>3, PTL DEF Spec, OffIsKept
=============================================================================

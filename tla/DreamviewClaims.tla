---------------------------- MODULE DreamviewClaims ----------------------------
(***************************************************************************)
(* The claims of DreamView groups (coordinator_dreamview): a sync centre   *)
(* takes its members over from Home Assistant before their group is        *)
(* uploaded to it, and gives them back when they leave it, through a       *)
(* journal that survives a stop of Home Assistant at any point.            *)
(*                                                                         *)
(* Claims are saved before they are in force.  The native store of config  *)
(* entries is saved later, whenever Home Assistant gets to it.  A save and *)
(* what is done under the lock of the claims is one step; a device holds   *)
(* one group and one member serves one client.  What the user does to an   *)
(* entry by hand is saved with it; a restart that undid it would be the    *)
(* user's to repeat.  What was authored for a centre, and the wire of the  *)
(* upload (Deployments, Readback), are left out.                           *)
(***************************************************************************)
EXTENDS Naturals, FiniteSets

CONSTANTS
    Centres, Members,   \* config entries of sync centres and of other devices
    MaxOps,             \* bound: services called on centres
    MaxFaults,          \* bound: saves, disconnects and uploads that fail
    MaxCrashes,         \* bound: restarts
    MaxUser             \* bound: entries enabled, disabled or removed by hand

ASSUME DreamviewAssumption ==
    MaxOps \in Nat /\ MaxFaults \in Nat /\ MaxCrashes \in Nat /\ MaxUser \in Nat

VARIABLES
    entry,         \* disabled_by of a member, and who did it
    centres,       \* the centres that have a config entry
    stored,        \* both of these in the native store
    claims,        \* DREAMVIEW_CLAIMS_DATA_KEY
    storedClaims,  \* the claims store
    loaded,        \* members that are set up
    links,         \* the connection to a member, and who knows of it
    disabling,     \* disable_claimed_entry tasks
    group,         \* what each centre's device has as its group
    op,            \* the service in progress on each centre
    jobs,          \* async_release_dreamview_claims_for_centre in progress
    recovery,      \* centres async_recover_dreamview_claims has still to see
    unsettled,     \* members claimed anew while they were owed to be enabled
    ops, faults, crashes, user     \* counted against the bounds

entries == <<entry, centres, stored>>
journal == <<claims, storedClaims>>
devices == <<loaded, links, group>>
bounds == <<ops, faults, crashes, user>>
vars == <<entries, journal, devices, disabling, op, jobs, recovery, unsettled,
          bounds>>

\* No centre is called that.
None == "none"

ASSUME NoneAssumption == None \notin Centres

NoClaim == [centre |-> None, ours |-> FALSE, releasing |-> FALSE]
Idle == [step |-> "idle", kind |-> None, members |-> {}, prior |-> {}, todo |-> {}]

Init ==
    /\ entry \in [Members -> {"on", "off"}]
    /\ centres = Centres
    /\ stored = [entry |-> entry, centres |-> centres]
    /\ claims = [e \in Members |-> NoClaim] /\ storedClaims = claims
    /\ loaded = {} /\ disabling = {}
    /\ links = [e \in Members |-> "none"]
    /\ group = [c \in Centres |-> {}]
    /\ op = [c \in Centres |-> Idle]
    /\ jobs = {} /\ recovery = {} /\ unsettled = {}
    /\ ops = 0 /\ faults = 0 /\ crashes = 0 /\ user = 0

Fault == faults < MaxFaults /\ faults' = faults + 1

Exists(e) == entry[e] # "gone"

\* "reenabled": by its user while claimed.
Enabled(e) == entry[e] \in {"on", "reenabled"}

\* Off by its user, "late" by its user with a claim that says it is to be on,
\* "taken" by a centre, "unrecorded" by one before its claim said so.
IsOff(e) == entry[e] \in {"off", "late", "taken", "unrecorded"}

\* The connection to the device of a member is of the coordinator that is set
\* up ("held"), or is still up though no coordinator knows of it any more: it
\* was given up and did not go down ("stray"), or the last service that took
\* the member over found that it would not go down ("refused").
Held(e) == links[e] = "held"

\* Claimed by anyone, in force or being released.
Claimed(e) == claims[e].centre # None

\* is_dreamview_claimed: neither one being released nor a removed centre's.
InForce(e) == Claimed(e) /\ ~claims[e].releasing /\ claims[e].centre \in centres

Owned(c) == {e \in Members : claims[e].centre = c}

\* _async_save_dreamview_claims: on disk first, then in memory.
SaveClaims(new) == claims' = new /\ storedClaims' = new

\* The native store as it would be saved now.
Staying == {c \in centres : op[c].step \notin {"cleanup", "leaving"}}
Native == [entry |-> entry, centres |-> Staying]

-----------------------------------------------------------------------------
(* Giving members back.                                                    *)

Marked(e) == [claims[e] EXCEPT !.releasing = TRUE]

\* async_release_dreamview_claims_for_centre begins: its claims are marked.
Release(by, c, only) ==
    LET released == only \cap Owned(c)
    IN  IF released = {} THEN UNCHANGED <<journal, jobs>>
        ELSE /\ SaveClaims([e \in Members |->
                              IF e \in released THEN Marked(e) ELSE claims[e]])
             /\ jobs' = jobs \cup
                   {[by |-> by, centre |-> c, step |-> "restore",
                     claims |-> [e \in released |-> Marked(e)],
                     todo |-> released, restored |-> {}]}

Proceeds(j, new) == jobs' = (jobs \ {j}) \cup {new}

\* Fault: whoever was released is enabled.
RestoresAll(j, e) == e \in j.todo /\ IsOff(e)

\* Who DreamView disabled is enabled, unless that has happened already.
Restores(j, e) ==
    j.claims[e].ours /\ IsOff(e)

Restore(j, e) ==
    /\ j.step = "restore" /\ e \in j.todo
    /\ entry' = [entry EXCEPT ![e] = IF Restores(j, e) THEN "on" ELSE @]
    /\ Proceeds(j, [j EXCEPT !.todo = @ \ {e},
                             !.restored = IF j.claims[e].ours /\ Exists(e)
                                          THEN @ \cup {e} ELSE @])
    /\ UNCHANGED <<centres, stored, journal, devices, disabling, op, recovery,
                   unsettled, bounds>>

\* Fault: Home Assistant is left to save the entries it has enabled.
Unflushed(j) == stored

\* _async_persist_dreamview_restoration saves all entries at once.
Flushed(j) == IF j.restored = {} THEN stored ELSE Native

Persist(j) ==
    /\ j.step = "restore" /\ j.todo = {}
    /\ stored' = Flushed(j)
    /\ Proceeds(j, [j EXCEPT !.step = "forget"])
    /\ UNCHANGED <<entry, centres, journal, devices, disabling, op, recovery,
                   unsettled, bounds>>

\* The claims go, except any that is no longer what was released.
Forget(j) ==
    /\ j.step = "forget"
    /\ SaveClaims([e \in Members |->
          IF e \in DOMAIN j.claims /\ claims[e] = j.claims[e] THEN NoClaim
          ELSE claims[e]])
    /\ jobs' = jobs \ {j}
    /\ UNCHANGED <<entries, devices, disabling, op, recovery, unsettled, bounds>>

\* A step of it raises: the claims stay marked, and a recovery goes no further.
ReleaseRaises(j) ==
    /\ Fault
    /\ jobs' = jobs \ {j}
    /\ recovery' = IF j.by = "recovery" THEN {} ELSE recovery
    /\ UNCHANGED <<entries, journal, devices, disabling, op, unsettled, ops,
                   crashes, user>>

-----------------------------------------------------------------------------
(* Services on a centre, one at a time (its control arbiter).              *)

Busy(c) == op[c].step # "idle" \/ \E j \in jobs : j.by = "op" /\ j.centre = c

Begin(c) == c \in centres /\ ~Busy(c) /\ ops < MaxOps /\ ops' = ops + 1

Ends(c) == op' = [op EXCEPT ![c] = Idle]

\* Another centre has one of them, or one is still being given back.
Refused(c, members) ==
    \E e \in members :
        \/ claims[e].releasing
        \/ claims[e].centre \in centres \ {c}

\* A claim that stands, of an entry that is off, keeps who disabled it.
Unclaimed(c, e) == claims[e].centre # c \/ Enabled(e)

\* A removed centre's claim stands, or an earlier release of it has not ended.
StillOwed(c, e) ==
    \/ claims[e].centre \notin {None, c} /\ claims[e].ours
    \/ \E j \in jobs : e \in DOMAIN j.claims

\* async_replace_dreamview_group claims those of its members that Home Assistant
\* has entries of.  A service whose claims are refused, or cannot be saved, has
\* done nothing that anybody else could see.
Replace(c, members) ==
    /\ Begin(c)
    /\ \A e \in members : Exists(e)
    /\ ~Refused(c, members)
    /\ SaveClaims([e \in Members |->
          IF e \in members /\ Unclaimed(c, e)
          THEN [centre |-> c, ours |-> Enabled(e), releasing |-> FALSE]
          ELSE claims[e]])
    /\ unsettled' = unsettled \cup {e \in members : StillOwed(c, e)}
    /\ op' = [op EXCEPT ![c] = [step |-> "handover", kind |-> "replace",
                                members |-> members, prior |-> Owned(c),
                                todo |-> members]]
    /\ UNCHANGED <<entries, devices, disabling, jobs, recovery, faults, crashes,
                   user>>

\* async_delete_dreamview_group, whose group has no members.
Delete(c) ==
    /\ Begin(c)
    /\ op' = [op EXCEPT ![c] = [Idle EXCEPT !.step = "upload", !.kind = "delete"]]
    /\ UNCHANGED <<entries, journal, devices, disabling, jobs, recovery,
                   unsettled, faults, crashes, user>>

\* A member is disabled; one that its user has enabled while it was claimed may
\* be so before the claim says that it is to be enabled again.
Disabled(e) ==
    [entry EXCEPT ![e] = IF ~Enabled(e) THEN @
                         ELSE IF @ = "reenabled" /\ ~claims[e].ours
                         THEN "unrecorded" ELSE "taken"]

\* An entry is unloaded and its connection with it, if that goes down.
Unloads(e) ==
    /\ loaded' = loaded \ {e}
    /\ \/ links' = [links EXCEPT ![e] = IF @ = "held" THEN "none" ELSE @]
          /\ UNCHANGED faults
       \/ Held(e) /\ Fault /\ links' = [links EXCEPT ![e] = "stray"]

\* Fault: a member that keeps its connection is handed over all the same.
LinkKeptOn(c) == "handover"

\* What a connection that could not be released makes of the service.
LinkKept(c) == "rollback"

\* A member is disabled and with it unloaded, unless it was disabled before,
\* and the connection of its coordinator is released.  What was connected under
\* an earlier coordinator, or was given up before, is not looked at.
HandOver(c, e) ==
    /\ op[c].step = "handover" /\ e \in op[c].todo
    /\ entry' = Disabled(e)
    /\ loaded' = loaded \ {e}
    /\ \/ /\ links' = [links EXCEPT ![e] = IF @ \in {"held", "none"} THEN "none"
                                          ELSE "stray"]
          /\ op' = [op EXCEPT ![c].todo = @ \ {e}]
          /\ UNCHANGED faults
       \/ /\ Held(e) /\ Fault
          /\ links' = [links EXCEPT ![e] = "refused"]
          /\ op' = [op EXCEPT ![c].todo = @ \ {e}, ![c].step = LinkKept(c)]
    /\ UNCHANGED <<centres, stored, journal, group, disabling, jobs, recovery,
                   unsettled, ops, crashes, user>>

\* A member that cannot be disabled.
HandOverRaises(c, e) ==
    /\ op[c].step = "handover" /\ e \in op[c].todo /\ Enabled(e)
    /\ Fault
    /\ op' = [op EXCEPT ![c].step = "rollback"]
    /\ UNCHANGED <<entries, journal, devices, disabling, jobs, recovery,
                   unsettled, ops, crashes, user>>

Ready(c) ==
    \/ op[c].step = "handover" /\ op[c].todo = {}
    \/ op[c].step = "upload"

\* The upload was accepted, or sent where nothing is acknowledged.
Upload(c) ==
    /\ Ready(c)
    /\ group' = [group EXCEPT ![c] = op[c].members]
    /\ op' = [op EXCEPT ![c].step = "release"]
    /\ UNCHANGED <<entries, journal, loaded, links, disabling, jobs, recovery,
                   unsettled, bounds>>

\* Fault: what failed to be uploaded is given back, attempted or not.
AttemptedRollsBack(c) == [op EXCEPT ![c].step = "rollback"]

\* After an attempt nobody knows what the device has: all claims stand.
AttemptedStands(c) == [op EXCEPT ![c] = Idle]

UploadRaises(c) ==
    /\ Ready(c) /\ Fault
    /\ \/ /\ group' \in {group, [group EXCEPT ![c] = op[c].members]}
          /\ op' = AttemptedStands(c)
       \/ /\ op' = IF op[c].kind = "replace" THEN [op EXCEPT ![c].step = "rollback"]
                   ELSE [op EXCEPT ![c] = Idle]
          /\ UNCHANGED group
    /\ UNCHANGED <<entries, journal, loaded, links, disabling, jobs, recovery,
                   unsettled, ops, crashes, user>>

\* Who leaves the group, or was claimed for one that was not uploaded.
Leaving(c) ==
    IF op[c].step = "rollback" THEN op[c].members \ op[c].prior
    ELSE IF op[c].kind = "replace" THEN op[c].prior \ op[c].members
    ELSE Members

GiveBack(c) ==
    /\ op[c].step \in {"rollback", "release"}
    /\ Release("op", c, Leaving(c))
    /\ Ends(c)
    /\ UNCHANGED <<entries, devices, disabling, recovery, unsettled, bounds>>

GiveBackRaises(c) ==
    /\ op[c].step \in {"rollback", "release"} /\ Leaving(c) \cap Owned(c) # {}
    /\ Fault
    /\ Ends(c)
    /\ UNCHANGED <<entries, journal, devices, disabling, jobs, recovery,
                   unsettled, ops, crashes, user>>

-----------------------------------------------------------------------------
(* Config entries of members.                                              *)

\* async_setup_entry of a member that nobody holds.
SetUp(e) ==
    /\ Enabled(e) /\ e \notin loaded
    /\ ~Claimed(e) \/ claims[e].releasing
    /\ loaded' = loaded \cup {e}
    /\ UNCHANGED <<entries, journal, links, group, disabling, op, jobs,
                   recovery, unsettled, bounds>>

\* async_guard_dreamview_entry: a claimed entry that is enabled by hand is
\* disabled again, and is to be enabled when its centre gives it back.
Guard(e) ==
    /\ Enabled(e) /\ e \notin loaded /\ InForce(e)
    /\ SaveClaims([claims EXCEPT ![e].ours = TRUE])
    /\ disabling' = disabling \cup {e}
    /\ UNCHANGED <<entries, devices, op, jobs, recovery, unsettled, bounds>>

\* The centre of its claim is gone: it gives itself back.
GuardReleases(e) ==
    /\ Enabled(e) /\ e \notin loaded
    /\ Claimed(e) /\ ~claims[e].releasing /\ claims[e].centre \notin centres
    /\ Release("guard", claims[e].centre, {e})
    /\ UNCHANGED <<entries, devices, disabling, op, recovery, unsettled, bounds>>

\* disable_claimed_entry, a task of its own.
DisableClaimed(e) ==
    /\ e \in disabling
    /\ disabling' = disabling \ {e}
    /\ \/ InForce(e) /\ Enabled(e) /\ entry' = Disabled(e) /\ Unloads(e)
       \/ ~(InForce(e) /\ Enabled(e)) /\ UNCHANGED <<entry, loaded, links, faults>>
    /\ UNCHANGED <<centres, stored, journal, group, op, jobs, recovery,
                   unsettled, ops, crashes, user>>

\* A member's coordinator connects.
Link(e) ==
    /\ e \in loaded /\ ~Held(e) /\ ~InForce(e)
    /\ links' = [links EXCEPT ![e] = "held"]
    /\ UNCHANGED <<entries, journal, loaded, group, disabling, op, jobs,
                   recovery, unsettled, bounds>>

\* Its connection ends, or is given up without going down; a claimed member's
\* coordinator keeps the latter (_disconnect_locked).
Unlink(e) ==
    /\ \/ /\ links[e] # "none" /\ links' = [links EXCEPT ![e] = "none"]
          /\ UNCHANGED faults
       \/ /\ Held(e) /\ ~InForce(e) /\ Fault
          /\ links' = [links EXCEPT ![e] = "stray"]
    /\ UNCHANGED <<entries, journal, loaded, group, disabling, op, jobs,
                   recovery, unsettled, ops, crashes, user>>

\* By its claim, or by a release that has not come to it yet.
ToBeEnabled(e) ==
    claims[e].ours \/ \E j \in jobs : e \in j.todo /\ j.claims[e].ours

ByHand == user < MaxUser /\ user' = user + 1

\* An entry is enabled or disabled by hand.
UserToggles(e) ==
    /\ Exists(e) /\ ByHand
    /\ entry' = [entry EXCEPT ![e] =
                    IF IsOff(e) THEN (IF InForce(e) THEN "reenabled" ELSE "on")
                    ELSE IF ToBeEnabled(e) THEN "late" ELSE "off"]
    /\ stored' = [Native EXCEPT !.entry = entry']
    /\ Unloads(e)
    /\ UNCHANGED <<centres, journal, group, disabling, op, jobs,
                   recovery, unsettled, ops, crashes>>

\* async_cleanup_dreamview_claims_on_entry_removed, of a member.
RemoveMember(e) ==
    /\ Exists(e) /\ ByHand
    /\ entry' = [entry EXCEPT ![e] = "gone"]
    /\ Unloads(e)
    /\ stored' = [Native EXCEPT !.entry = entry']
    /\ SaveClaims([claims EXCEPT ![e] = NoClaim])
    /\ UNCHANGED <<centres, group, disabling, op, jobs, recovery,
                   unsettled, ops, crashes>>

\* A centre is removed: unloading it has waited for its control.
RemoveCentre(c) ==
    /\ c \in centres /\ ~Busy(c) /\ ByHand
    /\ stored' = [Native EXCEPT !.centres = @ \ {c}]
    /\ op' = [op EXCEPT ![c].step = "cleanup"]
    /\ UNCHANGED <<entry, centres, journal, devices, disabling, jobs, recovery,
                   unsettled, ops, faults, crashes>>

\* It gives its members back, or fails to.
CleanUp(c) ==
    /\ op[c].step = "cleanup"
    /\ op' = [op EXCEPT ![c].step = "leaving"]
    /\ \/ Release("removal", c, Members) /\ UNCHANGED faults
       \/ Owned(c) # {} /\ Fault /\ UNCHANGED <<journal, jobs>>
    /\ UNCHANGED <<entries, devices, disabling, recovery, unsettled, ops,
                   crashes, user>>

\* However that went, Home Assistant drops its entry then.
Leave(c) ==
    /\ op[c].step = "leaving" /\ ~\E j \in jobs : j.by = "removal" /\ j.centre = c
    /\ centres' = centres \ {c}
    /\ Ends(c)
    /\ UNCHANGED <<entry, stored, journal, devices, disabling, jobs, recovery,
                   unsettled, bounds>>

-----------------------------------------------------------------------------
(* Home Assistant.                                                         *)

\* The delayed save of the native store.
SaveEntries ==
    /\ stored # Native
    /\ stored' = Native
    /\ UNCHANGED <<entry, centres, journal, devices, disabling, op, jobs,
                   recovery, unsettled, bounds>>

\* It stops and starts: what is saved is what there is.
Restart ==
    /\ crashes < MaxCrashes /\ crashes' = crashes + 1
    /\ entry' = stored.entry /\ centres' = stored.centres
    /\ claims' = storedClaims
    /\ loaded' = {} /\ disabling' = {} /\ jobs' = {}
    /\ links' = [e \in Members |-> "none"]
    /\ op' = [c \in Centres |-> Idle]
    /\ recovery' = {c \in Centres : \E e \in Members :
                      /\ storedClaims[e].centre = c
                      /\ storedClaims[e].releasing \/ c \notin stored.centres}
    /\ UNCHANGED <<stored, storedClaims, group, unsettled, ops, faults, user>>

\* async_recover_dreamview_claims, a centre after the other.
Recover(c) ==
    /\ c \in recovery /\ ~\E j \in jobs : j.by = "recovery"
    /\ recovery' = recovery \ {c}
    /\ Release("recovery", c,
               {e \in Owned(c) : c \notin centres \/ claims[e].releasing})
    /\ UNCHANGED <<entries, devices, disabling, op, unsettled, bounds>>

Services ==
    \E c \in Centres :
        \/ \E members \in SUBSET Members : Replace(c, members)
        \/ Delete(c)
        \/ \E e \in Members : HandOver(c, e) \/ HandOverRaises(c, e)
        \/ Upload(c) \/ UploadRaises(c) \/ GiveBack(c) \/ GiveBackRaises(c)
        \/ RemoveCentre(c) \/ CleanUp(c) \/ Leave(c) \/ Recover(c)

Releases ==
    \E j \in jobs :
        \/ \E e \in j.todo : Restore(j, e)
        \/ Persist(j) \/ Forget(j) \/ ReleaseRaises(j)

Entries ==
    \E e \in Members :
        \/ SetUp(e) \/ Guard(e) \/ GuardReleases(e) \/ DisableClaimed(e)
        \/ Link(e) \/ Unlink(e) \/ UserToggles(e) \/ RemoveMember(e)

Next == Services \/ Releases \/ Entries \/ SaveEntries \/ Restart

Spec == Init /\ [][Next]_vars

-----------------------------------------------------------------------------
(* Properties.                                                             *)

\* The state is of its type.
TypeOK ==
    /\ entry \in [Members -> {"on", "reenabled", "off", "late", "taken",
                             "unrecorded", "gone"}]
    /\ centres \subseteq Centres /\ recovery \subseteq Centres
    /\ claims \in [Members -> [centre : Centres \cup {None},
                               ours : BOOLEAN, releasing : BOOLEAN]]
    /\ loaded \subseteq Members
    /\ links \in [Members -> {"none", "held", "stray", "refused"}]
    /\ group \in [Centres -> SUBSET Members]

\* The centres that have not been removed, in memory or on disk.
Kept == centres \cap stored.centres

\* A group is not uploaded to its centre, which then connects to the members,
\* while the coordinator of a member is connected to it, nor after the service
\* has found that a connection would not go down; nor does a member connect that
\* is in a group: async_replace_dreamview_group.  It is not said that no
\* connection is up: the hand-over asks the coordinator of the moment, and does
\* not see one that another coordinator left up when it was unloaded, or that
\* this one gave up with a disconnect that failed ("stray").
NoContention ==
    \A c \in Kept : \A e \in group[c] : links[e] \notin {"held", "refused"}

\* Whatever failed or was interrupted, a device that may be in a centre's group
\* is claimed by that centre, also after a restart, so that no other centre and
\* no set-up takes it: the rollback of async_replace_dreamview_group.
GroupedIsClaimed ==
    \A c \in Kept : \A e \in group[c] :
        Exists(e) => storedClaims[e].centre = c /\ ~storedClaims[e].releasing

\* An entry that DreamView has disabled, here or in what a restart would read,
\* is recorded as to be enabled again until it is, and until that is saved.  Two
\* exceptions are in the code.  A member that was off when it was claimed, and
\* that its user enables while it is, may be disabled by the hand-over before
\* async_guard_dreamview_entry has recorded that: it stays off ("unrecorded"),
\* though it was explicitly enabled.  And a member claimed anew before an
\* earlier claim of it was settled is not spoken of ("unsettled").
OwedIsRecorded ==
    \A e \in Members \ unsettled :
        /\ entry[e] = "taken" => claims[e].ours
        /\ stored.entry[e] = "taken" => storedClaims[e].ours

\* An entry that the user had disabled before it was claimed is enabled by the
\* user only: disabled_by_dreamview.
OffIsKept ==
    [][\A e \in Members : entry[e] = "off" /\ entry'[e] \in {"on", "reenabled"} =>
           user' # user \/ crashes' # crashes]_vars
=============================================================================

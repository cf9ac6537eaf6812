--------------------------- MODULE ServiceBinding ---------------------------
(***************************************************************************)
(* One ServiceBinding resource and the bindings (keys) it makes in BTP:    *)
(* creation under a name committed beforehand, adoption of what a lost     *)
(* attempt made, rotation, retirement and deletion of retired keys         *)
(* (controller/account/servicebinding, clients/account/servicebinding,     *)
(* recovery).                                                              *)
(*                                                                         *)
(* A reconcile works on its own copy of the resource (mem) and every write *)
(* but a patch is refused when the resource changed since the copy was     *)
(* made; a status write fetches again and retries.  Time is two facts: a   *)
(* binding is due (older than rotation.frequency), a retired one expired   *)
(* (past its deletion date).                                               *)
(***************************************************************************)
EXTENDS Integers, FiniteSets, FiniteSetsExt

CONSTANTS
    MaxBindings,   \* bound: bindings made in BTP
    Allowed,       \* the events that may happen
    MaxEvents      \* bound: events of all kinds together

\* What may come in between: a user forces a rotation, or switches rotation on
\* or off; a call fails, its answer is lost or the process dies; somebody else
\* deletes a binding in BTP; a reconcile begins with an outdated cached copy.
Events == {"force", "edit", "fault", "loss", "stale"}

ASSUME ConstantsAssumption ==
    /\ MaxBindings \in Nat \ {0}
    /\ Allowed \subseteq Events /\ MaxEvents \in Nat

NoId == 0
Ids == 1 .. MaxBindings
Base == 0          \* spec.forProvider.name; a generated name is a number > 0
NoName == 0        \* no pending-binding-name annotation

VARIABLES
    btp, last, names,   \* BTP's bindings, ids and generated names used so far
    due, expired,       \* bindings past the frequency, retired ones past the deletion date
    cr, cache,          \* the resource at the API server and in the cache
    mem, pc,            \* the reconcile in flight: its copy, its step
    drift,              \*   observation: exists but not up to date
    target, made,       \*   Create: the binding's name, the id it got or adopted
    keep,               \*   Update: newRetiredKeys
    events              \* history: how often each event happened

world  == <<btp, last, names>>
times  == <<due, expired>>
locals == <<drift, target, made, keep>>
vars == <<world, times, cr, cache, mem, pc, locals, events>>

-----------------------------------------------------------------------------
Bindings == [id : Ids, name : Nat]
Resources ==
    [phase : {"live", "deleting", "gone"}, rot : BOOLEAN, force : BOOLEAN,
     ext : Ids \cup {NoId}, pending : Nat,             \* external-name, pending-binding-name
     attempted : BOOLEAN, incomplete : BOOLEAN,        \* external-create-pending: set, unanswered
     sname : Nat, sid : Ids \cup {NoId},               \* status.atProvider
     retired : SUBSET (Ids \cup {NoId})]               \* status.retiredKeys, also of no id

IdsOf(S) == {b.id : b \in S}
Without(S, ids) == {b \in S : b.id \notin ids}

\* Mistakes this code could make, for the mutation runs: keys overwritten,
\* expired only all together, a lookup by prefix, a name not committed, a deletion that retirement ends too early or for ever.
BugRetireOverwrites(c) == [c EXCEPT !.retired = {c.sid}]
BugAllKeysExpired(c) == c.retired # {} /\ c.retired \subseteq expired
BugLookupByPrefix(n) ==
    LET exact == {b \in btp : b.name = n} IN IF exact = {} THEN btp ELSE exact
BugNeverCommitted(c) == FALSE
BugReplacedMeansGone(c) == IF c.phase = "deleting" THEN "finalize" ELSE "create"
BugRetiresFirst(c) == IF c.phase = "deleting" THEN "idle" ELSE "create"

NeedRetirement(c) == c.rot /\ (c.force \/ c.sid \in due)
RetireBinding(c) == IF NeedRetirement(c) THEN [c EXCEPT !.retired = @ \cup {c.sid}] ELSE c
HasExpiredKeys(c) == c.retired \cap expired # {}
IsRotationEnabled(c) == c.force \/ c.rot

\* LookupServiceBinding: by exact name, else the only binding whose name is
\* the given one with a suffix.
LookupServiceBinding(n) ==
    LET exact == {b \in btp : b.name = n}
        suffixed == {b \in btp : n = Base /\ b.name # Base}
    IN IF exact # {} THEN exact
       ELSE IF Cardinality(suffixed) = 1 THEN suffixed ELSE {}

\* The result of a create is recorded: external-name set, the markers that
\* the reconcile's copy has are removed.
Recorded(c, id) == [c EXCEPT !.ext = id, !.pending = NoName, !.force = @ /\ ~mem.force]

\* The pending-binding-name annotation of an earlier, unfinished create.
Committed(c) == c.pending # NoName

WithName(c) == [c EXCEPT !.sname = target]
AfterRetirement(c) == IF c.phase = "deleting" THEN "delete" ELSE "create"

Goto(step) == pc' = step
Wrote(c) == cr' = c /\ mem' = c
Refused == mem # cr                     \* conflict
MayHappen(e) == e \in Allowed /\ MapThenSumSet(LAMBDA k : events[k], Events) < MaxEvents
Happens(e) == MayHappen(e) /\ events' = [events EXCEPT ![e] = @ + 1]
FaultHappens == Happens("fault")

Init ==
    /\ btp = {} /\ last = 0 /\ names = 0
    /\ due = {} /\ expired = {}
    /\ \E rot \in BOOLEAN :
          cr = [phase |-> "live", rot |-> rot, force |-> FALSE, ext |-> NoId,
                pending |-> NoName, attempted |-> FALSE, incomplete |-> FALSE,
                sname |-> Base, sid |-> NoId, retired |-> {}]
    /\ cache = cr /\ mem = cr /\ pc = "idle"
    /\ drift = FALSE /\ target = Base /\ made = NoId /\ keep = {}
    /\ events = [e \in Events |-> 0]

-----------------------------------------------------------------------------
(* Time, users, somebody else in BTP.                                      *)

\* The bound on bindings is no limit of BTP's: leave room for what is due
\* and for what is forced.
RoomToRotate == last + 1 < MaxBindings

BecomeDue(i) ==
    /\ i \in IdsOf(btp) \ due /\ RoomToRotate
    /\ due' = due \cup {i}
    /\ UNCHANGED <<world, expired, cr, cache, mem, pc, locals, events>>

Expire(i) ==
    /\ i \in cr.retired \ expired
    /\ expired' = expired \cup {i}
    /\ UNCHANGED <<world, due, cr, cache, mem, pc, locals, events>>

UserForcesRotation ==
    /\ cr.phase = "live" /\ ~cr.force /\ RoomToRotate
    /\ Happens("force")
    /\ cr' = [cr EXCEPT !.force = TRUE]
    /\ UNCHANGED <<world, times, cache, mem, pc, locals>>

UserSwitchesRotation ==
    /\ cr.phase = "live" /\ Happens("edit")
    /\ cr' = [cr EXCEPT !.rot = ~@]
    /\ UNCHANGED <<world, times, cache, mem, pc, locals>>

UserDeletes ==
    /\ cr.phase = "live"
    /\ cr' = [cr EXCEPT !.phase = "deleting"]
    /\ UNCHANGED <<world, times, cache, mem, pc, locals, events>>

\* "cannot determine creation result": the user removes external-create-pending.
UserClearsIncomplete ==
    /\ cr.incomplete /\ pc = "idle"
    /\ cr' = [cr EXCEPT !.incomplete = FALSE, !.attempted = FALSE]
    /\ UNCHANGED <<world, times, cache, mem, pc, locals, events>>

BindingLost(b) ==
    /\ b \in btp /\ Happens("loss")
    /\ btp' = btp \ {b}
    /\ UNCHANGED <<last, names, times, cr, cache, mem, pc, locals>>

\* The cache follows while it matters.
SyncCache ==
    /\ MayHappen("stale") /\ cache # cr
    /\ cache' = cr
    /\ UNCHANGED <<world, times, cr, mem, pc, locals, events>>

-----------------------------------------------------------------------------
(* Observe.                                                                *)

\* The managed reconciler reads the resource from the cache and stops at an
\* unanswered create.
Start ==
    /\ pc = "idle" /\ cr.phase # "gone"
    /\ \/ mem' = cr /\ UNCHANGED events
       \/ cache # cr /\ Happens("stale") /\ mem' = cache
    /\ ~mem'.incomplete
    /\ Goto("observe")
    /\ UNCHANGED <<world, times, cr, cache, locals>>

Missing == mem.ext \notin IdsOf(btp)

\* healExternalName: a create was attempted, the name is still the fallback,
\* and the binding found by name was born within the attempt's window.
HealExternalName ==
    /\ pc = "observe" /\ Missing
    /\ mem.ext = NoId /\ mem.attempted
    /\ \E b \in LookupServiceBinding(mem.sname) :
          cr' = IF Refused THEN cr ELSE [cr EXCEPT !.ext = b.id]
    /\ Goto("idle")
    /\ UNCHANGED <<world, times, cache, mem, locals, events>>

\* Nothing to heal, not in the window, or the lookup failed (best effort).
ObserveMissing ==
    /\ pc = "observe" /\ Missing
    /\ Goto(IF mem.phase = "deleting" THEN "finalize" ELSE "create")
    /\ UNCHANGED <<world, times, cr, cache, mem, locals, events>>

\* Up to date: the observed binding goes to the status of the NEWEST resource.
\* The name Connect took from the status decides whether it is up to date.
ObserveExisting ==
    /\ pc = "observe"
    /\ \E b \in btp :
          /\ b.id = mem.ext
          /\ drift' = (b.name # mem.sname)
          /\ \/ /\ drift' /\ UNCHANGED <<cr, mem>> /\ Goto("rotate")
             \/ /\ ~drift' /\ Wrote([cr EXCEPT !.sid = b.id, !.sname = b.name])
                /\ Goto("rotate")
             \/ /\ ~drift' /\ Refused      \* every retry met an outdated copy
                /\ UNCHANGED <<cr, mem>> /\ Goto("idle")
    /\ UNCHANGED <<world, times, cache, target, made, keep, events>>

RotateNot ==
    /\ pc = "rotate" /\ ~NeedRetirement(mem)
    /\ Goto(CASE mem.phase = "deleting"            -> "delete"
              [] mem.phase = "live" /\ (drift \/ HasExpiredKeys(mem)) -> "update"
              [] OTHER                             -> "idle")
    /\ UNCHANGED <<world, times, cr, cache, mem, locals, events>>

Rotate ==
    /\ pc = "rotate" /\ NeedRetirement(mem)
    /\ \/ /\ Wrote(RetireBinding(cr))
          /\ Goto(AfterRetirement(cr))
       \/ /\ Refused
          /\ UNCHANGED <<cr, mem>> /\ Goto("idle")
    /\ UNCHANGED <<world, times, cache, locals, events>>

-----------------------------------------------------------------------------
(* Create.                                                                 *)

\* The managed reconciler records that a create is about to happen.
CreateStart ==
    /\ pc = "create"
    /\ IF Refused THEN UNCHANGED <<cr, mem>> /\ Goto("idle")
       ELSE Wrote([cr EXCEPT !.attempted = TRUE, !.incomplete = TRUE]) /\ Goto("commit")
    /\ made' = NoId
    /\ UNCHANGED <<world, times, cache, drift, target, keep, events>>

\* commitCreateName, up to the annotation.
CommitName ==
    /\ pc = "commit"
    /\ \/ /\ ~IsRotationEnabled(mem)
          /\ target' = Base /\ Goto("sm")
          /\ UNCHANGED <<cr, mem, names>>
       \/ /\ IsRotationEnabled(mem) /\ Committed(mem)
          /\ target' = mem.pending /\ Goto("persist")
          /\ UNCHANGED <<cr, mem, names>>
       \/ /\ IsRotationEnabled(mem) /\ ~Committed(mem)
          /\ names' = names + 1 /\ target' = names + 1
          /\ IF Refused THEN UNCHANGED <<cr, mem>> /\ Goto("failed")
             ELSE Wrote([cr EXCEPT !.pending = names + 1]) /\ Goto("persist")
    /\ UNCHANGED <<btp, last, times, cache, drift, made, keep, events>>

\* The name goes to the status.
PersistName ==
    /\ pc = "persist"
    /\ \/ Wrote(WithName(cr)) /\ Goto("lookup")
       \/ Refused /\ UNCHANGED <<cr, mem>> /\ Goto("failed")
    /\ UNCHANGED <<world, times, cache, locals, events>>

\* lookupOwnedBinding with the name as the proof of ownership.
AdoptOwnBinding ==
    /\ pc = "lookup"
    /\ \E b \in LookupServiceBinding(target) :
          /\ made' = b.id
          /\ IF Refused THEN UNCHANGED <<cr, mem>> /\ Goto("failed")
             ELSE Wrote(Recorded(cr, b.id)) /\ Goto("created")
    /\ UNCHANGED <<world, times, cache, drift, target, keep, events>>

NothingToAdopt ==
    /\ pc = "lookup" /\ LookupServiceBinding(target) = {}
    /\ Goto("sm")
    /\ UNCHANGED <<world, times, cr, cache, mem, locals, events>>

\* BTP makes the binding; names are unique.  The answer may be lost.
Fits == last < MaxBindings /\ \A b \in btp : b.name # target
CreateBinding ==
    /\ pc = "sm" /\ Fits
    /\ last' = last + 1
    /\ btp' = btp \cup {[id |-> last + 1, name |-> target]}
    /\ \/ made' = last + 1 /\ Goto("patch") /\ UNCHANGED events
       \/ FaultHappens /\ Goto("failed") /\ UNCHANGED made
    /\ UNCHANGED <<names, times, cr, cache, mem, drift, target, keep>>

CreateRefused ==
    /\ pc = "sm" /\ ~Fits
    /\ Goto("failed")
    /\ UNCHANGED <<world, times, cr, cache, mem, locals, events>>

\* A merge patch: it cannot conflict.
PatchExternalName ==
    /\ pc = "patch"
    /\ Wrote(Recorded(cr, made)) /\ Goto("created")
    /\ UNCHANGED <<world, times, cache, locals, events>>

\* Any call of Create that may fail.
CreateFails ==
    /\ pc \in {"commit", "persist", "lookup", "sm", "patch"} /\ FaultHappens
    /\ Goto("failed")
    /\ UNCHANGED <<world, times, cr, cache, mem, locals>>

\* The managed reconciler records success ...
CreateSucceeded ==
    /\ pc = "created"
    /\ cr' = [cr EXCEPT !.incomplete = FALSE]
    /\ Goto("idle")
    /\ UNCHANGED <<world, times, cache, mem, locals, events>>

\* ... or failure, and either way the annotations of its copy: over the
\* whole resource, or added to it after a conflict.
CreateFailed ==
    LET named == IF made = NoId THEN cr
                 ELSE IF Refused THEN [cr EXCEPT !.ext = made] ELSE Recorded(cr, made)
    IN /\ pc = "failed"
       /\ cr' = [named EXCEPT !.incomplete = FALSE]
       /\ Goto("idle")
       /\ UNCHANGED <<world, times, cache, mem, locals, events>>

-----------------------------------------------------------------------------
(* Update and Delete.  DeleteBinding deletes by id and verifies: a failure *)
(* leaves the binding, or only the answer to whether it is gone.           *)

DeleteExpiredKeys ==
    LET keys == mem.retired \cap expired
    IN /\ pc = "update"
       /\ \/ btp' = Without(btp, keys) /\ keep' = mem.retired \ keys /\ UNCHANGED events
          \/ /\ FaultHappens
             /\ \E deleted \in SUBSET keys : \E verified \in SUBSET deleted :
                   btp' = Without(btp, deleted) /\ keep' = mem.retired \ verified
       /\ Goto("updatestatus")
       /\ UNCHANGED <<last, names, times, cr, cache, mem, drift, target, made>>

UpdateRetiredKeys ==
    /\ pc = "updatestatus"
    /\ \/ Wrote([cr EXCEPT !.retired = keep])
       \/ Refused /\ UNCHANGED <<cr, mem>>
    /\ Goto("idle")
    /\ UNCHANGED <<world, times, cache, locals, events>>

DeleteRetiredKeys ==
    /\ pc = "delete"
    /\ \/ btp' = Without(btp, mem.retired) /\ Goto("deletecurrent") /\ UNCHANGED events
       \/ /\ FaultHappens /\ Goto("idle")
          /\ \E deleted \in SUBSET mem.retired : btp' = Without(btp, deleted)
    /\ UNCHANGED <<last, names, times, cr, cache, mem, locals>>

DeleteCurrent ==
    /\ pc = "deletecurrent"
    /\ btp' = Without(btp, {mem.ext})
    /\ Goto("idle")
    /\ UNCHANGED <<last, names, times, cr, cache, mem, locals, events>>

\* The managed reconciler releases the finalizer.
Finalize ==
    /\ pc = "finalize"
    /\ cr' = IF Refused THEN cr ELSE [cr EXCEPT !.phase = "gone"]
    /\ Goto("idle")
    /\ UNCHANGED <<world, times, cache, mem, locals, events>>

\* A call outside Create fails, or the process dies.
Abort ==
    /\ pc # "idle" /\ FaultHappens
    /\ Goto("idle")
    /\ UNCHANGED <<world, times, cr, cache, mem, locals>>

-----------------------------------------------------------------------------
Reconcile ==
    \/ Start
    \/ HealExternalName \/ ObserveMissing \/ ObserveExisting \/ RotateNot \/ Rotate
    \/ CreateStart \/ CommitName \/ PersistName \/ AdoptOwnBinding \/ NothingToAdopt
    \/ CreateBinding \/ CreateRefused \/ PatchExternalName
    \/ CreateSucceeded \/ CreateFailed
    \/ DeleteExpiredKeys \/ UpdateRetiredKeys
    \/ DeleteRetiredKeys \/ DeleteCurrent \/ Finalize

Next ==
    \/ Reconcile \/ CreateFails \/ Abort \/ SyncCache
    \/ \E i \in Ids : BecomeDue(i) \/ Expire(i)
    \/ UserForcesRotation \/ UserSwitchesRotation \/ UserDeletes \/ UserClearsIncomplete
    \/ \E b \in btp : BindingLost(b)

Spec == Init /\ [][Next]_vars

\* The resource is polled and retried and the cache catches up at last.
FairSpec == Spec /\ WF_vars(Reconcile)

-----------------------------------------------------------------------------
Steps == {"idle", "observe", "rotate", "create", "commit", "persist", "lookup", "sm", "patch",
          "created", "failed", "update", "updatestatus", "delete", "deletecurrent", "finalize"}

TypeOK ==
    /\ btp \subseteq Bindings /\ last \in 0 .. MaxBindings /\ names \in Nat
    /\ due \subseteq Ids /\ expired \subseteq Ids
    /\ {cr, cache, mem} \subseteq Resources
    /\ pc \in Steps
    /\ drift \in BOOLEAN /\ target \in Nat /\ made \in Ids \cup {NoId}
    /\ keep \subseteq Ids \cup {NoId}
    /\ events \in [Events -> Nat]

Never(E) == \A e \in E : events[e] = 0

\* Every binding made is the current one, a retired one, or one that the next
\* create will find by its name (commitCreateName: "find and adopt the binding
\* it already made rather than leaking it and creating another"), as long as
\* nobody else deletes bindings, no reconcile begins with an outdated copy and
\* the sort of name, the spec's or a generated one, does not change.
EveryBindingIsTracked ==
    Never({"loss", "stale", "edit"}) /\ (cr.rot \/ Never({"force"})) /\ cr.phase # "gone" =>
        \A b \in btp :
            \/ b.id = cr.ext \/ b.id \in cr.retired
            \/ b.name = cr.pending /\ cr.pending # NoName
            \/ cr.ext = NoId /\ b.name = cr.sname
            \/ pc \in {"patch", "failed"} /\ b.id = made

\* When the resource is gone, so are its bindings, retired and current (Delete,
\* and Observe's verdict that lets the finalizer go), rotation forced or not,
\* with four exceptions, each of which leaves a binding behind: a create whose
\* result a fault kept from being recorded is not looked up any more once the
\* resource is deleted, nor are keys deleted in part tried again when the current
\* binding was one of them; rotation switched off before the retirement is written
\* replaces the current binding without retiring it; a current binding lost in BTP
\* lets the finalizer go with the retired ones there; and an outdated copy
\* retires the wrong binding.
DeleteLeavesNothing ==
    cr.phase = "gone" /\ Never({"fault", "edit", "loss", "stale"}) => btp = {}

\* A forced rotation ends with a binding that was not the current one before
\* (Create drops the annotation once the result is recorded), unless a create
\* before it was disturbed.
ForceMeansNewBinding ==
    [][cr.force /\ ~cr'.force /\ Never({"fault"}) => cr'.ext # cr.ext]_vars

\* A key is forgotten only once its binding is gone, whatever fails, is edited
\* or conflicts, as long as no reconcile begins with an outdated copy: Update
\* replaces the whole list of retiredKeys by what it made of that copy's.
RetiredKeysAreKept ==
    [][Never({"stale"}) => \A i \in cr.retired \ cr'.retired : i \notin IdsOf(btp)]_vars

\* The bindings of expired keys are all deleted at last, unless the resource is
\* gone or the runtime waits for the user to say what became of a create.
ExpiredKeysGo ==
    LET overdue == cr.retired \cap expired \cap IdsOf(btp)
    IN overdue # {} ~> overdue = {} \/ cr.phase = "gone" \/ cr.incomplete

\* A deleted resource goes away, with the same exception.
DeletionCompletes == cr.phase = "deleting" ~> cr.phase = "gone" \/ cr.incomplete
=============================================================================

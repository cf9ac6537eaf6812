--------------------------- MODULE TwoPhaseCreate ---------------------------
(***************************************************************************)
(* A ServiceManager or CloudManagement resource: a service instance and a  *)
(* binding of it, created one after the other by two Create calls and      *)
(* recorded in one external-name "<instance>/<binding>"                    *)
(* (controller/account/servicemanager, controller/account/cloudmanagement, *)
(* clients/servicemanager, clients/cis, recovery).                         *)
(*                                                                         *)
(* Nothing but that name survives the process, so a half whose creation    *)
(* was not recorded has to be found again: by the in-memory Terraform      *)
(* state, or by the lookup that heals a fallback or truncated name.        *)
(***************************************************************************)
EXTENDS Integers, FiniteSetsExt

CONSTANTS
    Kinds,      \* the kinds of resource, see AllKinds
    Worlds,     \* what BTP and the name may hold at first, see AllWorlds
    Allowed,    \* the events that may happen
    MaxEvents   \* bound: events of all kinds together

AllKinds == {"ServiceManager", "CloudManagement"}

\* Nothing; an instance and a binding of the same names, of somebody else's
\* ("foreign"), imported by the user, or imported by the instance alone.
AllWorlds == {"empty", "foreign", "imported", "half"}

\* What may come in between: a call to BTP fails, done or not; a write of the
\* resource fails; a lookup fails; the process restarts; a create comes so late
\* that what exists is outside its window; somebody deletes in BTP; the user
\* answers an unanswered create.
Events == {"lost", "drop", "blind", "restart", "late", "loss", "clear"}

ASSUME ConstantsAssumption ==
    /\ Kinds \subseteq AllKinds /\ Worlds \subseteq AllWorlds
    /\ Allowed \subseteq Events /\ MaxEvents \in Nat

None == 0          \* no id: a fallback name, a missing half

VARIABLES
    kind, foreign,  \* fixed at the start: the kind, the ids of somebody else's halves
    btp, last,      \* the instance and the binding of our names in BTP; ids used
    cr,             \* the resource
    tf,             \* the Terraform states of this process
    pc, del, made,  \* the reconcile in flight: its step, is it a deletion, what it created
    events          \* history: how often each event happened

vars == <<kind, foreign, btp, last, cr, tf, pc, del, made, events>>
fixed == <<kind, foreign>>

-----------------------------------------------------------------------------
Pair(i, b) == [inst |-> i, bind |-> b]
Nothing == Pair(None, None)

\* inWindow: the instance was born within the window of the last create attempt.
World(i, b) == [inst |-> i, bind |-> b, inWindow |-> FALSE]
Resource(i, b) ==
    [phase |-> "live", inst |-> i, bind |-> b,       \* external-name
     attempted |-> FALSE, incomplete |-> FALSE,      \* external-create-pending: set, unanswered
     sInst |-> None, sBind |-> None]                 \* status: the ids observed

Goto(step) == pc' = step
Current == del = (cr.phase = "deleting")      \* else a write conflicts
MayHappen(e) == e \in Allowed /\ MapThenSumSet(LAMBDA k : events[k], Events) < MaxEvents
Happens(e) == MayHappen(e) /\ events' = [events EXCEPT ![e] = @ + 1]

\* Mistakes this code could make, for the mutation runs: any instance of the
\* right name is adopted, a healthy first half is healed over and over, a
\* deletion is judged like a create, a migration overwrites a complete name,
\* the binding is deleted by the wrong id.
BugAnyIsOwned(c) ==
    IF c.inst # None /\ c.bind = None THEN btp.bind # None /\ btp.inst = c.inst ELSE TRUE
BugHealsPhaseOne(c) == IF c.inst # None /\ c.bind = None THEN btp.inst = c.inst ELSE btp.inWindow
BugTwoPhaseGating(obs) == obs.inst # None /\ obs.bind # None
BugMigratesAlways(c) == kind = "CloudManagement" /\ c.sInst # None /\ c.sBind # None
BugBindingByInstance == IF tf.inst = btp.bind THEN [btp EXCEPT !.bind = None] ELSE btp

Init ==
    /\ kind \in Kinds
    /\ \E w \in Worlds :
          /\ btp = IF w = "empty" THEN World(None, None) ELSE World(1, 2)
          /\ cr = CASE w = "imported" -> Resource(1, 2)
                    [] w = "half"     -> Resource(1, None)
                    [] OTHER          -> Resource(None, None)
          /\ foreign = IF w = "foreign" THEN {1, 2} ELSE {}
    /\ last = 2
    /\ tf = Nothing
    /\ pc = "idle" /\ del = FALSE /\ made = Nothing
    /\ events = [e \in Events |-> 0]

-----------------------------------------------------------------------------
(* Connect and Observe.                                                    *)

\* ensureCompatibility of CloudManagement: both ids in the status but a name
\* without a second half.
MigrationNeeded(c) ==
    kind = "CloudManagement" /\ c.bind = None /\ c.sInst # None /\ c.sBind # None
Migrated(c) == IF MigrationNeeded(c) THEN [c EXCEPT !.inst = c.sInst, !.bind = c.sBind] ELSE c

\* A Terraform state this process does not have is made from the name.
Connected(c) == Pair(IF tf.inst # None THEN tf.inst ELSE c.inst,
                     IF tf.bind # None THEN tf.bind ELSE c.bind)

\* The managed reconciler stops at an unanswered create.
Connect ==
    /\ pc = "idle" /\ cr.phase # "gone" /\ ~cr.incomplete
    /\ del' = (cr.phase = "deleting")
    /\ cr' = Migrated(cr) /\ tf' = Connected(cr')
    /\ Goto("observe")
    /\ UNCHANGED <<fixed, btp, last, made, events>>

SeesInstance == tf.inst # None /\ tf.inst = btp.inst
SeesBinding  == tf.bind # None /\ tf.bind = btp.bind

\* ObserveResources: a deletion looks at the instance alone.
Observed ==
    Pair(IF SeesInstance THEN tf.inst ELSE None,
         IF SeesInstance /\ SeesBinding /\ ~del THEN tf.bind ELSE None)
ResourceExists(obs) == obs.inst # None /\ (del \/ obs.bind # None)
Refreshed ==
    Pair(Observed.inst, IF del \/ ~SeesInstance THEN tf.bind ELSE Observed.bind)

\* setStatus: CloudManagement keeps ids it no longer sees.
WithStatus(c, obs) ==
    LET Kept(old, new) == IF kind = "CloudManagement" /\ new = None THEN old ELSE new
    IN [c EXCEPT !.sInst = Kept(@, obs.inst), !.sBind = Kept(@, obs.bind)]

\* A missing resource is created, or let go if it is being deleted.
Missing == IF del THEN "finalize" ELSE "pending"

Verdict(obs) ==
    CASE ResourceExists(obs) -> IF del THEN "delete" ELSE "idle"
      [] ~ResourceExists(obs) /\ cr.bind = None -> "heal"   \* a fallback or truncated name
      [] OTHER -> Missing

Observe ==
    /\ pc = "observe"
    /\ tf' = Refreshed
    /\ IF Current THEN cr' = WithStatus(cr, Observed) /\ Goto(Verdict(Observed))
       ELSE UNCHANGED cr /\ Goto("idle")
    /\ UNCHANGED <<fixed, btp, last, del, made, events>>

ObserveFails ==
    /\ pc = "observe" /\ Happens("lost")
    /\ cr' = IF Current THEN WithStatus(cr, Nothing) ELSE cr
    /\ Goto("idle")
    /\ UNCHANGED <<fixed, btp, last, tf, del, made>>

-----------------------------------------------------------------------------
(* healExternalName.                                                       *)

Truncated(c) == c.inst # None /\ c.bind = None

\* A truncated name proves ownership by the instance it holds, and needs no
\* healing while there is no binding; a fallback proves it by the window.
Owned(c) ==
    IF Truncated(c) THEN btp.bind # None /\ btp.inst = c.inst ELSE btp.inWindow
CanHeal == cr.attempted /\ btp.inst # None /\ Owned(cr)

HealExternalName ==
    /\ pc = "heal" /\ CanHeal
    /\ cr' = IF Current THEN [cr EXCEPT !.inst = btp.inst, !.bind = btp.bind] ELSE cr
    /\ Goto("idle")                         \* ErrRequeueAfterRecovery
    /\ UNCHANGED <<fixed, btp, last, tf, del, made, events>>

NothingToHeal ==
    /\ pc = "heal" /\ ~CanHeal
    /\ Goto(Missing)
    /\ UNCHANGED <<fixed, btp, last, cr, tf, del, made, events>>

\* Best effort: goes on as if there were nothing to heal.
LookupFails ==
    /\ pc = "heal" /\ Happens("blind")
    /\ Goto(Missing)
    /\ UNCHANGED <<fixed, btp, last, cr, tf, del, made>>

-----------------------------------------------------------------------------
(* Create, within the managed reconciler's protocol.                       *)

RecordPending ==
    /\ pc = "pending"
    /\ \/ ~Current /\ UNCHANGED <<btp, cr, events>> /\ Goto("idle")
       \/ /\ Current
          /\ cr' = [cr EXCEPT !.attempted = TRUE, !.incomplete = TRUE]
          /\ \/ UNCHANGED <<btp, events>>
             \/ Happens("late") /\ btp' = [btp EXCEPT !.inWindow = FALSE]
          /\ Goto("create")
    /\ UNCHANGED <<fixed, last, tf, del, made>>

\* CreateResources: the status says which half is next.  BTP refuses a second
\* object of the same name and a binding of an instance it does not have, and
\* the instance a binding is for comes from the name.
NeedsInstance(c) == c.sInst = None
InstanceFits == NeedsInstance(cr) /\ btp.inst = None
BindingFits  == ~NeedsInstance(cr) /\ btp.inst # None /\ cr.inst = btp.inst /\ btp.bind = None

CreateInstance ==
    /\ pc = "create" /\ InstanceFits
    /\ last' = last + 1
    /\ btp' = [inst |-> last + 1, bind |-> None, inWindow |-> TRUE]
    /\ \/ /\ tf' = [tf EXCEPT !.inst = last + 1]
          /\ made' = Pair(last + 1, None)
          /\ Goto("record") /\ UNCHANGED events
       \/ Happens("lost") /\ UNCHANGED <<tf, made>> /\ Goto("failed")
    /\ UNCHANGED <<fixed, cr, del>>

CreateBinding ==
    /\ pc = "create" /\ BindingFits
    /\ last' = last + 1
    /\ btp' = [btp EXCEPT !.bind = last + 1]
    /\ \/ /\ tf' = [tf EXCEPT !.bind = last + 1]
          /\ made' = Pair(tf.inst, last + 1)
          /\ Goto("record") /\ UNCHANGED events
       \/ Happens("lost") /\ UNCHANGED <<tf, made>> /\ Goto("failed")
    /\ UNCHANGED <<fixed, cr, del>>

CreateRefused ==
    /\ pc = "create"
    /\ \/ ~InstanceFits /\ ~BindingFits /\ UNCHANGED events
       \/ Happens("lost")                   \* not even tried
    /\ Goto("failed")
    /\ UNCHANGED <<fixed, btp, last, cr, tf, del, made>>

\* The name that Create leaves: CloudManagement keeps a half it has no new id for.
Recorded(c) ==
    [c EXCEPT !.inst = made.inst,
              !.bind = IF kind = "CloudManagement" /\ made.bind = None THEN @ ELSE made.bind]
Failed(c) == c

\* The managed reconciler writes the annotations, on the newest resource.
RecordResult ==
    /\ pc \in {"record", "failed"}
    /\ cr' = [(IF pc = "record" THEN Recorded(cr) ELSE Failed(cr)) EXCEPT !.incomplete = FALSE]
    /\ made' = Nothing /\ Goto("idle")
    /\ UNCHANGED <<fixed, btp, last, tf, del, events>>

-----------------------------------------------------------------------------
(* Delete: the binding, then the instance.  What is gone, or not known, is *)
(* nothing to delete; BTP keeps an instance that has a binding.            *)

WithoutBinding == IF SeesBinding THEN [btp EXCEPT !.bind = None] ELSE btp
WithoutInstance == IF SeesInstance THEN World(None, None) ELSE btp

DeleteBinding ==
    /\ pc = "delete"
    /\ \/ /\ btp' = WithoutBinding /\ tf' = [tf EXCEPT !.bind = None]
          /\ Goto("deleteinstance") /\ UNCHANGED events
       \/ /\ Happens("lost") /\ btp' \in {btp, WithoutBinding}
          /\ UNCHANGED tf /\ Goto("idle")
    /\ UNCHANGED <<fixed, last, cr, del, made>>

DeleteInstance ==
    /\ pc = "deleteinstance"
    /\ \/ btp.bind # None /\ UNCHANGED <<btp, tf, events>>
       \/ /\ btp.bind = None /\ btp' = WithoutInstance
          /\ tf' = [tf EXCEPT !.inst = None] /\ UNCHANGED events
       \/ /\ btp.bind = None /\ Happens("lost")
          /\ btp' \in {btp, WithoutInstance} /\ UNCHANGED tf
    /\ Goto("idle")
    /\ UNCHANGED <<fixed, last, cr, del, made>>

\* The managed reconciler releases the finalizer.
Finalize ==
    /\ pc = "finalize"
    /\ cr' = [cr EXCEPT !.phase = "gone"]
    /\ Goto("idle")
    /\ UNCHANGED <<fixed, btp, last, tf, del, made, events>>

-----------------------------------------------------------------------------
(* Users, somebody else in BTP, failures.                                  *)

UserDeletes ==
    /\ cr.phase = "live"
    /\ cr' = [cr EXCEPT !.phase = "deleting"]
    /\ UNCHANGED <<fixed, btp, last, tf, pc, del, made, events>>

\* "cannot determine creation result": the user removes external-create-pending.
UserClearsIncomplete ==
    /\ cr.incomplete /\ pc = "idle" /\ Happens("clear")
    /\ cr' = [cr EXCEPT !.incomplete = FALSE, !.attempted = FALSE]
    /\ UNCHANGED <<fixed, btp, last, tf, pc, del, made>>

LostInBTP ==
    /\ btp.inst # None /\ Happens("loss")
    /\ \/ btp.bind # None /\ btp' = [btp EXCEPT !.bind = None]
       \/ btp' = World(None, None)
    /\ UNCHANGED <<fixed, last, cr, tf, pc, del, made>>

\* A write of the resource fails for good.
WriteFails ==
    /\ pc \in {"heal", "pending", "record", "failed"} /\ Happens("drop")
    /\ made' = Nothing /\ Goto("idle")
    /\ UNCHANGED <<fixed, btp, last, cr, tf, del>>

Restart ==
    /\ Happens("restart")
    /\ tf' = Nothing /\ made' = Nothing /\ Goto("idle")
    /\ UNCHANGED <<fixed, btp, last, cr, del>>

-----------------------------------------------------------------------------
Reconcile ==
    \/ Connect \/ Observe \/ HealExternalName \/ NothingToHeal
    \/ RecordPending \/ CreateInstance \/ CreateBinding \/ CreateRefused \/ RecordResult
    \/ DeleteBinding \/ DeleteInstance \/ Finalize

Next ==
    \/ Reconcile \/ ObserveFails \/ LookupFails \/ WriteFails \/ Restart
    \/ UserDeletes \/ UserClearsIncomplete \/ LostInBTP

Spec == Init /\ [][Next]_vars

\* The resource is polled and retried.
FairSpec == Spec /\ WF_vars(Reconcile)

-----------------------------------------------------------------------------
Steps == {"idle", "observe", "heal", "pending", "create", "record", "failed",
          "delete", "deleteinstance", "finalize"}
Ids == 0 .. last

TypeOK ==
    /\ kind \in AllKinds /\ foreign \subseteq {1, 2}
    /\ last \in Nat
    /\ btp \in [inst : Ids, bind : Ids, inWindow : BOOLEAN]
    /\ cr \in [phase : {"live", "deleting", "gone"}, inst : Ids, bind : Ids,
               attempted : BOOLEAN, incomplete : BOOLEAN, sInst : Ids, sBind : Ids]
    /\ tf \in [inst : Ids, bind : Ids] /\ made \in [inst : Ids, bind : Ids]
    /\ pc \in Steps /\ del \in BOOLEAN
    /\ events \in [Events -> Nat]

Never(E) == \A e \in E : events[e] = 0

\* Somebody else's instance and binding of the same names are never recorded,
\* so never deleted (IsOwnedByCR in healExternalName; the import by name is the
\* user's), whatever fails and however often a refused create is retried.
ForeignIsSpared == {cr.inst, cr.bind} \cap foreign = {}

\* When the resource is gone, so are its instance and its binding
\* (ObserveResources: "keeps Delete() firing until the instance is actually
\* gone"), unless a create's answer was lost and then the lookup failed or
\* somebody had deleted the recorded halves, or the user answered a create.
DeleteLeavesNothing ==
    /\ cr.phase = "gone" /\ Never({"clear"})
    /\ Never({"lost"}) \/ Never({"blind", "loss"})
    => {btp.inst, btp.bind} \subseteq foreign \cup {None}

\* A recorded half is forgotten or replaced only when BTP does not have it any
\* more (Create's new name, healing and migration all write the name).
RecordedIsKept ==
    [][/\ cr.inst # cr'.inst => cr.inst = None \/ cr.inst # btp.inst
       /\ cr.bind # cr'.bind => cr.bind = None \/ cr.bind # btp.bind]_vars

\* The runtime waits for the user to say what became of a create.
Waiting == cr.incomplete /\ pc = "idle"
Complete == None \notin {cr.inst, cr.bind} /\ cr.inst = btp.inst /\ cr.bind = btp.bind

\* What the provider does not resolve: an instance that the window does not
\* prove its own, a name beside halves it does not have, a status with an
\* instance that is gone.  A name is not mended while the process knows better.
Unowned == cr.inst = None /\ btp.inst # None /\ ~btp.inWindow
Replaced == \/ cr.inst # None /\ btp.inst \notin {None, cr.inst}
            \/ cr.bind # None /\ btp.bind \notin {None, cr.bind}
Outdated == kind = "CloudManagement" /\ cr.sInst \notin {None, btp.inst}
Masked == SeesInstance /\ SeesBinding

\* A resource that is not deleted has both halves and has recorded them, at
\* last and again after every loss (CreateResources: "do either one of them
\* here"), but for what is listed above.
BothAreRecorded ==
    []<>(Complete \/ cr.phase # "live" \/ Waiting \/ Unowned \/ Replaced \/ Outdated \/ Masked)

\* A binding that the name does not have keeps the instance in BTP.
Stranded == cr.inst = btp.inst /\ btp.bind \notin {None, cr.bind}

\* A deleted resource goes away, however its two deletions fail in between,
\* unless a binding is stranded.
DeletionCompletes == cr.phase = "deleting" ~> cr.phase = "gone" \/ Waiting \/ Stranded
=============================================================================

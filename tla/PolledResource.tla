---------------------------- MODULE PolledResource ----------------------------
(***************************************************************************)
(* One resource that BTP processes by itself and the controller polls: a   *)
(* Kyma or Cloud Foundry environment, a subscription, a subaccount or a    *)
(* directory (their controllers, clients/subscription, clients/directory). *)
(*                                                                         *)
(* A create, an update and a delete only start something that may fail;    *)
(* every reconcile asks BTP once and decides on that answer alone.  Two    *)
(* kinds delete and create again what failed, one stops updating in vain,  *)
(* one finds an object whose id was lost.                                  *)
(***************************************************************************)
EXTENDS Integers, FiniteSetsExt

CONSTANTS
    Kinds,         \* the kinds of resource
    Allowed,       \* the events that may happen
    MaxObjects,    \* bound: BTP makes no more
    MaxEvents      \* bound: events of all kinds together

AllKinds == {"kyma", "cloudfoundry", "subscription", "subaccount", "directory"}

\* The user edits the spec; BTP's processing fails; a call to BTP fails, done or
\* not; the lookup of a lost id fails; a write fails; the process restarts;
\* somebody deletes in BTP; the user answers an unanswered create.
Events == {"edit", "fail", "lost", "blind", "drop", "restart", "loss", "clear"}

ASSUME ConstantsAssumption ==
    /\ Kinds \subseteq AllKinds /\ Allowed \subseteq Events
    /\ MaxObjects \in Nat \ {0} /\ MaxEvents \in Nat

None == 0
maxRetriesDefault == 3

VARIABLES
    btp, last,    \* the object of this name in BTP, if any; the newest id
    cr,           \* the resource
    base, mine,   \* the reconcile's copy: as it was read or written last, and now
    seen,         \* BTP's answer to this reconcile
    pc,
    events        \* history: how often each event happened

vars == <<btp, last, cr, base, mine, seen, pc, events>>
service == <<btp, last>>
copies == <<base, mine, seen>>

-----------------------------------------------------------------------------
\* What the spec configures has two halves where two calls apply it (a subaccount's
\* data and its parent, a directory's data and its features); "wanted" is what
\* an update under way will set.
Object(id, state, gen) == [id |-> id, state |-> state, first |-> gen, second |-> gen,
                           wanted |-> gen, inWindow |-> TRUE]
Nothing == [Object(None, "none", 0) EXCEPT !.inWindow = FALSE]
Foreign == [Object(1, "ok", 0) EXCEPT !.inWindow = FALSE, !.first = -1]
Owned(o) == o.id # None /\ o.first # -1

NewResource(kind, recreate) ==
    [kind |-> kind, recreate |-> recreate, phase |-> "live", gen |-> 0, name |-> None,
     attempted |-> FALSE, incomplete |-> FALSE, deleting |-> FALSE,
     retry |-> [count |-> 0, desired |-> 0, current |-> 0]]

Happens(e) ==
    /\ e \in Allowed /\ MapThenSumSet(LAMBDA k : events[k], Events) < MaxEvents
    /\ events' = [events EXCEPT ![e] = @ + 1]

Quiet == UNCHANGED events
Idle == pc' = "idle" /\ base' = cr' /\ mine' = cr' /\ seen' = Nothing
Goto(step) == pc' = step /\ UNCHANGED copies

\* A subscription is named by its application and plan, the others by an id.
Named(c, o) == c.name # None /\ o.id # None /\ (c.kind = "subscription" \/ c.name = o.id)

\* Mistakes this code could make, for the mutation runs: any object of the name is
\* the resource's own, the lost id is looked up for a live resource only, the
\* answer of the poll is not heeded, one half of the spec is not compared, a
\* failed deletion is taken for a running one.
BugAnyWindow(c) == btp.id # None
BugHealsLiveOnly(c) == btp.id # None /\ btp.inWindow /\ c.phase = "live"
BugDeletesAgain(c, o) == FALSE
BugComparesFirst(c, o) == c.kind \in {"kyma", "subaccount", "directory"} /\ o.first # c.gen
BugFailedIsRunning(c, o) ==
    IF c.kind = "subscription" THEN o.state \notin {"ok", "failed"} ELSE o.state \in {"deleting", "undeleted"}

-----------------------------------------------------------------------------
\* The API server: a write of an outdated copy is a conflict.
Current == base = cr

Init ==
    /\ btp \in {Nothing, Foreign} /\ last = btp.id
    /\ \E kind \in Kinds, recreate \in BOOLEAN :
          /\ recreate => kind \in {"kyma", "subscription"}
          /\ cr = NewResource(kind, recreate)
    /\ base = cr /\ mine = cr /\ seen = Nothing /\ pc = "idle"
    /\ events = [e \in Events |-> 0]

-----------------------------------------------------------------------------
(* Observe.                                                                *)

\* The managed reconciler stops at a create without an answer.
Begins == pc = "idle" /\ cr.phase # "gone" /\ ~cr.incomplete
Reads(c, step) == base' = cr /\ mine' = c /\ pc' = step

\* Nothing exists: a resource that is deleted is done, another one is created.
Missing(c) == IF c.phase = "deleting" THEN "finalize" ELSE "pending"

\* An object without a recorded id: a subaccount is looked up by its subdomain,
\* if a create was attempted and made it then.
CanHeal(c) == btp.id # None /\ btp.inWindow
LooksUp(c) == c.kind = "subaccount" /\ c.attempted

ObserveUnnamed ==
    /\ Begins /\ cr.name = None
    /\ IF LooksUp(cr) /\ CanHeal(cr)
       THEN \/ Reads([cr EXCEPT !.name = btp.id], "heal") /\ Quiet
            \/ Reads(cr, Missing(cr)) /\ Happens("blind")
       ELSE Reads(cr, Missing(cr)) /\ Quiet
    /\ UNCHANGED <<service, cr, seen>>

\* healExternalName's update; the error after it ends the reconcile.
Heal ==
    /\ pc = "heal"
    /\ IF Current THEN cr' = mine ELSE UNCHANGED cr
    /\ Idle /\ Quiet /\ UNCHANGED service

ObserveMissing ==
    /\ Begins /\ cr.name # None /\ ~Named(cr, btp)
    /\ Reads(cr, Missing(cr))
    /\ Quiet /\ UNCHANGED <<service, cr, seen>>

ShouldRecreate(c, o) ==
    c.recreate /\ o.state \in (IF c.kind = "kyma" THEN {"failed"} ELSE {"failed", "undeleted"})

\* Kyma's parameters, a subaccount's data or parent, and a directory that is
\* available; subscriptions and Cloud Foundry are never updated.
NeedsUpdate(c, o) ==
    \/ c.kind = "kyma" /\ o.first # c.gen
    \/ c.kind = "subaccount" /\ (o.first # c.gen \/ o.second # c.gen)
    \/ c.kind = "directory" /\ o.state = "ok" /\ (o.first # c.gen \/ o.second # c.gen)

\* updateCircuitBreakerStatus counts the polls that saw the same difference.
Broken(c) == c.retry.count >= maxRetriesDefault
Counted(c, o) ==
    LET r == c.retry
        again == o.first # c.gen /\ r.desired = c.gen /\ r.current = o.first
    IN  [c EXCEPT !.retry =
            [count |-> IF ~again THEN 1 ELSE IF Broken(c) THEN r.count ELSE r.count + 1,
             desired |-> c.gen, current |-> o.first]]

\* The ready condition: only recreation reads whether it says "deleting".
Judged(c, o) ==
    LET d == [c EXCEPT !.deleting = c.kind = "kyma" /\ o.state = "deleting"]
    IN  IF c.kind = "kyma" THEN Counted(d, o) ELSE d

Verdict(c, o) ==
    CASE c.phase = "deleting" -> "delete"
      [] c.phase = "live" /\ NeedsUpdate(c, o) -> "update"
      [] OTHER -> "settle"

ObserveFound ==
    /\ Begins /\ Named(cr, btp)
    /\ seen' = btp
    /\ IF ShouldRecreate(cr, btp)
       THEN Reads(cr, IF ~cr.deleting THEN "recreate" ELSE IF cr.phase = "deleting" THEN "delete" ELSE "settle")
       ELSE Reads(Judged(cr, btp), Verdict(cr, btp))
    /\ Quiet /\ UNCHANGED <<service, cr>>

ObserveFails ==
    /\ Begins /\ cr.name # None /\ Happens("lost")
    /\ UNCHANGED <<service, cr, base, mine, seen, pc>>

\* The status, with the condition, is written at the end of every reconcile.
Settle ==
    /\ pc = "settle"
    /\ IF Current THEN cr' = mine ELSE UNCHANGED cr
    /\ Idle /\ Quiet /\ UNCHANGED service

-----------------------------------------------------------------------------
(* Create, inside the managed reconciler's protocol.                       *)

\* A later attempt moves the window in which an object is the resource's own.
RecordPending ==
    /\ pc = "pending"
    /\ IF Current
       THEN /\ cr' = [base EXCEPT !.attempted = TRUE, !.incomplete = TRUE]
            /\ base' = cr' /\ mine' = cr' /\ pc' = "create" /\ UNCHANGED seen
            /\ btp' \in {btp, [btp EXCEPT !.inWindow = FALSE]}
       ELSE UNCHANGED <<cr, btp>> /\ Idle
    /\ Quiet /\ UNCHANGED last

\* An object of the name is a conflict, whoever made it.
Create ==
    /\ pc = "create"
    /\ IF btp.id # None \/ last = MaxObjects
       THEN Goto("failed") /\ Quiet /\ UNCHANGED service
       ELSE \/ /\ btp' = Object(last + 1, "creating", mine.gen) /\ last' = last + 1
               /\ mine' = [mine EXCEPT !.name = last + 1] /\ pc' = "created"
               /\ Quiet /\ UNCHANGED <<base, seen>>
            \/ /\ Happens("lost") /\ Goto("failed")
               /\ \/ UNCHANGED service
                  \/ btp' = Object(last + 1, "creating", mine.gen) /\ last' = last + 1
    /\ UNCHANGED cr

\* UpdateCriticalAnnotations, on the newest resource; whether the condition that
\* Create set outlives this write is the runtime's matter.
RecordResult ==
    /\ pc \in {"created", "failed"}
    /\ \E d \in {cr.deleting, FALSE} :
          /\ cr' = [cr EXCEPT !.incomplete = FALSE, !.name = IF pc = "created" THEN mine.name ELSE @]
          /\ base' = cr' /\ mine' = [cr' EXCEPT !.deleting = d]
          /\ pc' = "settle"
    /\ Quiet /\ UNCHANGED <<service, seen>>

-----------------------------------------------------------------------------
(* Update.                                                                 *)

\* A call that starts or makes a change, refused while BTP processes the object.
Call(states, o, step) ==
    LET taken == Named(mine, btp) /\ btp.state \in states
    IN  \/ taken /\ btp' = o /\ Goto(step) /\ Quiet
        \/ ~taken /\ UNCHANGED btp /\ Goto("settle") /\ Quiet
        \/ Happens("lost") /\ Goto("settle") /\ btp' \in {btp} \cup (IF taken THEN {o} ELSE {})

Starts == [btp EXCEPT !.state = "updating", !.wanted = mine.gen]

UpdateKyma ==
    /\ pc = "update" /\ mine.kind = "kyma"
    /\ IF Broken(mine) THEN Goto("settle") /\ Quiet /\ UNCHANGED btp
       ELSE Call({"ok", "broken"}, Starts, "settle")
    /\ UNCHANGED <<last, cr>>

\* A subaccount in another directory is moved, and only then updated.
UpdateSubaccount ==
    /\ pc = "update" /\ mine.kind = "subaccount"
    /\ IF seen.state = "creating" THEN Goto("settle") /\ Quiet /\ UNCHANGED btp
       ELSE IF seen.second # mine.gen THEN Call({"ok"}, [btp EXCEPT !.second = mine.gen], "settle")
       ELSE Call({"ok"}, [btp EXCEPT !.first = mine.gen], "settle")
    /\ UNCHANGED <<last, cr>>

UpdateDirectory ==
    /\ pc = "update" /\ mine.kind = "directory"
    /\ Call({"ok"}, [btp EXCEPT !.first = mine.gen], "features")
    /\ UNCHANGED <<last, cr>>

UpdateDirectoryFeatures ==
    /\ pc = "features"
    /\ Call({"ok"}, Starts, "settle")
    /\ UNCHANGED <<last, cr>>

-----------------------------------------------------------------------------
(* Delete, by the managed reconciler or by an observation that recreates.  *)

\* No call for what is being deleted; a subscription's is made in two states only.
IsDeleting(c, o) ==
    IF c.kind = "subscription" THEN o.state \notin {"ok", "failed"} ELSE o.state = "deleting"

\* BTP refuses to delete what it is creating, updating or deleting.
DeleteStates == {"ok", "failed", "broken", "undeleted"}
AfterDelete == IF pc = "recreate" /\ mine.phase = "deleting" THEN "delete" ELSE "settle"

Delete ==
    /\ pc \in {"recreate", "delete"}
    /\ mine' = [mine EXCEPT !.deleting = mine.kind \in {"kyma", "subscription"}]
    /\ UNCHANGED <<last, cr, base, seen>>
    /\ LET found == Named(mine, btp) /\ btp.state \in DeleteStates
           started == [btp EXCEPT !.state = "deleting"]
       IN  IF IsDeleting(mine, seen) THEN pc' = AfterDelete /\ Quiet /\ UNCHANGED btp
           ELSE \/ found /\ btp' = started /\ pc' = AfterDelete /\ Quiet
                \/ ~found /\ UNCHANGED btp /\ pc' = "settle" /\ Quiet
                \/ Happens("lost") /\ pc' = "settle" /\ btp' \in {btp} \cup (IF found THEN {started} ELSE {})

Finalize ==
    /\ pc = "finalize"
    /\ IF Current THEN cr' = [cr EXCEPT !.phase = "gone"] ELSE UNCHANGED cr
    /\ Idle /\ Quiet /\ UNCHANGED service

-----------------------------------------------------------------------------
(* BTP, users, failures.                                                   *)

Ends(o) ==
    \/ btp' = o /\ Quiet
    \/ btp' = [btp EXCEPT !.state = CASE @ = "creating" -> "failed" [] @ = "updating" -> "broken" [] OTHER -> "undeleted"]
       /\ Happens("fail")

CreationEnds == btp.state = "creating" /\ Ends([btp EXCEPT !.state = "ok"])
UpdateEnds ==
    /\ btp.state = "updating"
    /\ Ends([btp EXCEPT !.state = "ok", !.second = btp.wanted,
                        !.first = IF cr.kind = "kyma" THEN btp.wanted ELSE @])
DeletionEnds == btp.state = "deleting" /\ Ends(Nothing)

Processing == (CreationEnds \/ UpdateEnds \/ DeletionEnds) /\ UNCHANGED <<last, cr, copies, pc>>

UserEdits ==
    /\ cr.phase = "live" /\ Happens("edit")
    /\ cr' = [cr EXCEPT !.gen = @ + 1]
    /\ UNCHANGED <<service, copies, pc>>

UserDeletes ==
    /\ cr.phase = "live"
    /\ cr' = [cr EXCEPT !.phase = "deleting"]
    /\ Quiet /\ UNCHANGED <<service, copies, pc>>

\* The user removes external-create-pending, the record of the attempt too.
UserClearsIncomplete ==
    /\ cr.incomplete /\ pc = "idle" /\ Happens("clear")
    /\ cr' = [cr EXCEPT !.incomplete = FALSE, !.attempted = FALSE]
    /\ UNCHANGED <<service, copies, pc>>

LostInBTP ==
    /\ Owned(btp) /\ Happens("loss")
    /\ btp' = Nothing
    /\ UNCHANGED <<last, cr, copies, pc>>

WriteFails ==
    /\ pc \in {"heal", "settle", "pending", "created", "failed", "finalize"} /\ Happens("drop")
    /\ UNCHANGED <<service, cr>> /\ Idle

Restart ==
    /\ pc # "idle" /\ Happens("restart")
    /\ UNCHANGED <<service, cr>> /\ Idle

-----------------------------------------------------------------------------
Reconcile ==
    \/ ObserveUnnamed \/ Heal \/ ObserveMissing \/ ObserveFound \/ Settle
    \/ RecordPending \/ Create \/ RecordResult
    \/ UpdateKyma \/ UpdateSubaccount \/ UpdateDirectory \/ UpdateDirectoryFeatures
    \/ Delete \/ Finalize

Next ==
    \/ Reconcile \/ ObserveFails \/ WriteFails \/ Restart
    \/ Processing
    \/ UserEdits \/ UserDeletes \/ UserClearsIncomplete \/ LostInBTP

Spec == Init /\ [][Next]_vars

\* The resource is polled and retried, and BTP finishes what it began.
FairSpec == Spec /\ WF_vars(Reconcile) /\ WF_vars(Processing)

-----------------------------------------------------------------------------
Ids == 0 .. MaxObjects
States == {"none", "creating", "ok", "failed", "updating", "broken", "deleting", "undeleted"}
Objects == [id : Ids, state : States, first : Nat \cup {-1}, second : Nat, wanted : Nat, inWindow : BOOLEAN]
Resources == [kind : Kinds, recreate : BOOLEAN, phase : {"live", "deleting", "gone"}, gen : Nat, name : Ids,
              attempted : BOOLEAN, incomplete : BOOLEAN, deleting : BOOLEAN,
              retry : [count : 0 .. maxRetriesDefault, desired : Nat, current : Nat]]
Steps == {"idle", "heal", "settle", "pending", "create", "created", "failed", "update",
          "features", "recreate", "delete", "finalize"}

TypeOK ==
    /\ btp \in Objects /\ seen \in Objects /\ last \in Ids
    /\ {cr, base, mine} \subseteq Resources
    /\ pc \in Steps
    /\ events \in [Events -> Nat]

Never(E) == \A e \in E : events[e] = 0

\* An object of the same name that somebody else made is never changed: no retry,
\* however its window moves, takes it for the resource's own.
ForeignIsSpared == [][btp = Foreign => UNCHANGED btp]_vars

\* A deleted resource leaves nothing of its own in BTP.  Only the subaccount finds
\* an object whose id was not recorded, unless the lookup fails, the resource still
\* has the id of an object that was lost, or the user answered an unanswered create
\* and took the record of the attempt away.
DeleteLeavesNothing ==
    /\ cr.phase = "gone"
    /\ Never(IF cr.kind = "subaccount" THEN {"blind", "loss", "clear"} ELSE {"lost", "drop", "restart"})
    => ~Owned(btp)

\* BTP is not asked again to delete what it is deleting, except by the reconcile of
\* a deleted resource whose observation has just asked, to recreate it.
DeletedOnce ==
    /\ pc \in {"recreate", "delete"} /\ ~IsDeleting(mine, seen)
    /\ Named(mine, btp) /\ btp.state = "deleting"
    => pc = "delete" /\ ShouldRecreate(mine, seen)

Waiting == cr.incomplete /\ pc = "idle"
Exhausted == last = MaxObjects /\ btp.id = None

\* Somebody else has the name, or an id was lost that nothing looks up: the
\* subaccount, while it has an id, or once the window of its newest attempt has
\* moved on, after a failed lookup or the user's answer to an unanswered create.
Unrecovered ==
    /\ btp.id # None /\ ~Named(cr, btp)
    /\ cr.kind = "subaccount" => ~Owned(btp) \/ cr.name # None \/ ~btp.inWindow

\* What the controller leaves as it is: a failure without recreation, or whose
\* deletion was lost, or that repeated at once; a deletion that failed; the
\* difference that broke the circuit, whose polls are counted while BTP is still
\* creating, without any update having failed; a failed update that changed nothing; a
\* directory's failed update.
Abandoned ==
    \/ btp.state = "failed" /\ (cr.recreate => cr.deleting /\ (~Never({"lost"}) \/ events["fail"] > 1))
    \/ btp.state = "undeleted"
    \/ /\ cr.kind = "kyma" /\ btp.state \in {"ok", "broken"}
       /\ btp.first = cr.gen \/ (Broken(cr) /\ cr.retry.desired = cr.gen /\ cr.retry.current = btp.first)
    \/ cr.kind = "directory" /\ btp.state = "broken"

Applied ==
    /\ Named(cr, btp) /\ btp.state = "ok"
    /\ cr.kind \in {"kyma", "subaccount", "directory"} => btp.first = cr.gen
    /\ cr.kind \in {"subaccount", "directory"} => btp.second = cr.gen

\* A resource that is not deleted has its object, configured as the spec says,
\* again and again.
SpecIsApplied ==
    []<>(Applied \/ cr.phase # "live" \/ Waiting \/ Exhausted \/ Unrecovered \/ Abandoned)

\* A deleted resource goes away, except a subscription that BTP failed to delete.
DeletionCompletes ==
    cr.phase = "deleting" ~>
        cr.phase = "gone" \/ Waiting \/ (cr.kind = "subscription" /\ btp.state = "undeleted")
=============================================================================

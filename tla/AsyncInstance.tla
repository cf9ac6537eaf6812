---------------------------- MODULE AsyncInstance ----------------------------
(***************************************************************************)
(* A ServiceInstance: created, updated and deleted by Terraform operations *)
(* that run beside the reconciles and report through a callback            *)
(* (controller/account/serviceinstance, clients/tfclient, recovery).       *)
(*                                                                         *)
(* An operation ends before its callback has saved the result, so the next *)
(* reconcile may observe, and start, the next operation in between; the    *)
(* callback may fail; and the process may die with the operation, the      *)
(* Terraform state and the callbacks, all of which live in memory.  What   *)
(* stays is the resource: its external-name, the condition with the last   *)
(* result, and the generation marker of the last launch.                   *)
(***************************************************************************)
EXTENDS Integers, FiniteSetsExt

CONSTANTS
    Worlds,     \* what BTP and the name may hold at first, see AllWorlds
    Allowed,    \* the events that may happen
    MaxEvents   \* bound: events of all kinds together

\* Nothing; an instance of our name that is somebody else's, or imported.
AllWorlds == {"empty", "foreign", "imported"}

\* A spec edit; an operation fails; an answer of BTP is lost; a write of the
\* resource fails, a callback's too; a lookup fails; the process restarts; a
\* create comes so late that what exists is outside its window; somebody
\* deletes in BTP; the user answers an unanswered create.
Events == {"edit", "reject", "lost", "drop", "blind", "restart", "late", "loss", "clear"}

ASSUME ConstantsAssumption ==
    Worlds \subseteq AllWorlds /\ Allowed \subseteq Events /\ MaxEvents \in Nat

None == 0          \* no id: a fallback name, no Terraform state, no instance

VARIABLES
    foreign,    \* fixed at the start: the ids of somebody else's instance
    btp, last,  \* the instance of our name in BTP; ids used
    cr,         \* the resource
    tf, op,     \* this process: the Terraform state, the operation that runs
    ended,      \* this process: the callbacks of ended operations, still to run
    my, pc,     \* the reconcile in flight: its copy of the resource, its step
    events      \* history: how often each event happened

vars == <<foreign, btp, last, cr, tf, op, ended, my, pc, events>>
process == <<tf, op, ended>>
world == <<foreign, btp, last>>

-----------------------------------------------------------------------------
\* config: the generation of the spec it was configured with.
Instance(i, g) == [id |-> i, config |-> g, inWindow |-> FALSE]

\* LastAsyncOperation: no failure, or which one, and the generation it is for.
NoFailure == [of |-> "none", gen |-> 0]
Failure(what, g) == [of |-> what, gen |-> g]

\* An operation that ended keeps its kind until the next Observe.
Idle == [kind |-> "none", gen |-> 0, runs |-> FALSE]
Operation(kind, g) == [kind |-> kind, gen |-> g, runs |-> TRUE]

Resource(name) ==
    [phase |-> "live", gen |-> 1, name |-> name, marker |-> 0, cond |-> NoFailure,
     attempted |-> FALSE, incomplete |-> FALSE,  \* external-create-pending: set, unanswered
     guid |-> None]                              \* of a copy: what a lookup found

\* A reconcile that ends forgets its copy.
NoCopy == Resource(None)
Step(step, copy) == pc' = step /\ my' = IF step = "idle" THEN NoCopy ELSE copy
Goto(step) == Step(step, my)
MayHappen(e) == e \in Allowed /\ MapThenSumSet(LAMBDA k : events[k], Events) < MaxEvents
Happens(e) == MayHappen(e) /\ events' = [events EXCEPT ![e] = @ + 1]
Deleting == my.phase = "deleting"

\* Mistakes this code could make, for the mutation runs: recovery without the
\* window, no recovery while deleting, the generation of now, an update
\* that is not noticed, a conflict that holds a deletion.
BugAnyWindow == my.attempted /\ btp.id # None
BugHealsLiveOnly == IF my.name = None /\ ~Deleting THEN "heal" ELSE IF Deleting THEN "finalize" ELSE "pending"
BugLabelNow == cr.gen
BugFoundIsFine == IF Deleting THEN "delete" ELSE "idle"
BugHoldsDeletion == my.cond = Failure("conflict", my.gen) /\ my.name = None

\* The API server refuses a write of an outdated copy.
Current == [my EXCEPT !.guid = None] = cr
Write(new, step) ==
    IF Current
    THEN cr' = [new EXCEPT !.guid = None] /\ Step(step, new)
    ELSE UNCHANGED cr /\ Goto("idle")

Init ==
    /\ \E w \in Worlds :
          /\ btp = IF w = "empty" THEN Instance(None, 0) ELSE Instance(1, 0)
          /\ cr = Resource(IF w = "imported" THEN 1 ELSE None)
          /\ foreign = IF w = "foreign" THEN {1} ELSE {}
    /\ last = 1
    /\ tf = None /\ op = Idle /\ ended = {}
    /\ my = NoCopy /\ pc = "idle"
    /\ events = [e \in Events |-> 0]

-----------------------------------------------------------------------------
(* Connect: the mapped Terraform resource gets the name; a process without *)
(* a state of it imports what the name says.  The managed reconciler stops *)
(* at an unanswered create.                                                *)

Imported == IF tf = None THEN cr.name ELSE tf

Connect ==
    /\ pc = "idle" /\ cr.phase # "gone" /\ ~cr.incomplete
    /\ Step("observe", cr)
    /\ tf' = Imported
    /\ UNCHANGED <<world, cr, op, ended, events>>

-----------------------------------------------------------------------------
(* Observe.                                                                *)

Running == op.runs

\* A create that BTP refused, at this generation, of a resource without a name.
ConflictHolds ==
    /\ my.cond = Failure("conflict", my.gen)
    /\ ~Deleting /\ my.name = None

\* The Terraform client reports existence while an operation runs.
Exists == Running \/ (tf # None /\ btp.id = tf)
Drift == ~Running /\ btp.config # my.gen

\* QueryAsyncData: the identity comes with the status only when all is settled.
Settled == ~Running /\ Exists /\ ~Drift /\ ~Deleting

\* recoverExternalNameFromTfState: the state knows the id of an unnamed instance.
LearnsName == ~Running /\ Exists /\ ~Settled /\ my.name = None

UpdateFailed == my.cond = Failure("update", my.gen)

\* What is missing is created again, or let go if it is being deleted.
Missing == IF Deleting THEN "finalize" ELSE "pending"

\* Observe heals an unnamed resource, also one that is being deleted.
NotExisting == IF my.name = None THEN "heal" ELSE Missing

Found ==
    CASE Deleting -> "delete"
      [] ~Deleting /\ (UpdateFailed \/ Drift) -> "update"
      [] OTHER -> "idle"

ObserveConflict ==
    /\ pc = "observe" /\ ConflictHolds
    /\ Goto("heal")
    /\ UNCHANGED <<world, cr, process, events>>

Observe ==
    /\ pc = "observe" /\ ~ConflictHolds
    /\ tf' = IF Exists THEN tf ELSE None
    /\ op' = IF Running THEN op ELSE Idle
    /\ IF LearnsName \/ (Settled /\ ~UpdateFailed /\ my.name # tf)
       THEN Write([my EXCEPT !.name = tf], "idle")     \* requeue, or saveInstanceData
       ELSE Goto(IF Exists THEN Found ELSE NotExisting) /\ UNCHANGED cr
    /\ UNCHANGED <<world, ended, events>>

ObserveFails ==
    /\ pc = "observe" /\ Happens("lost")
    /\ Goto("idle")
    /\ UNCHANGED <<world, cr, process>>

-----------------------------------------------------------------------------
(* healExternalName: the failure is cleared first, then the name is set.   *)

CanHeal == my.attempted /\ btp.id # None /\ btp.inWindow

\* A conflict that cannot be healed is an error of every reconcile.
Unhealed == IF ConflictHolds THEN "idle" ELSE Missing

HealClears ==
    /\ pc = "heal" /\ CanHeal
    /\ Write([my EXCEPT !.cond = NoFailure, !.guid = btp.id], "name")
    /\ UNCHANGED <<world, process, events>>

HealNames ==
    /\ pc = "name"
    /\ Write([my EXCEPT !.name = my.guid], "idle")      \* ErrRequeueAfterRecovery
    /\ UNCHANGED <<world, process, events>>

NothingToHeal ==
    /\ pc = "heal"
    /\ \/ ~CanHeal /\ UNCHANGED events
       \/ CanHeal /\ Happens("blind")       \* best effort: as if nothing was found
    /\ Goto(Unhealed)
    /\ UNCHANGED <<world, cr, process>>

-----------------------------------------------------------------------------
(* Create, Update and Delete: the launch of an operation.                  *)

\* The managed reconciler announces a create before it calls it.
RecordPending ==
    /\ pc = "pending"
    /\ Write([my EXCEPT !.attempted = TRUE, !.incomplete = TRUE], "mark")
    /\ \/ UNCHANGED <<btp, events>>
       \/ my = cr /\ Happens("late") /\ btp' = [btp EXCEPT !.inWindow = FALSE]
    /\ UNCHANGED <<foreign, last, process>>

\* startAsyncOperation writes the generation before the launch.
Mark ==
    /\ pc \in {"mark", "update"}
    /\ LET launch == IF pc = "mark" THEN "create" ELSE "launch"
       IN IF my.marker = my.gen THEN Goto(launch) /\ UNCHANGED cr
          ELSE /\ pc = "mark" => Current
               /\ Write([my EXCEPT !.marker = my.gen], launch)
    /\ UNCHANGED <<world, process, events>>

\* Its error is Create's: an answer, which the managed reconciler records.
MarkFails ==
    /\ pc = "mark"
    /\ \/ my.marker # my.gen /\ ~Current /\ UNCHANGED events
       \/ Happens("drop")
    /\ Goto("record")
    /\ UNCHANGED <<world, cr, process>>

LaunchCreate ==
    /\ pc = "create"
    /\ op' = IF Running THEN op ELSE Operation("create", my.gen)
    /\ Goto("record")
    /\ UNCHANGED <<world, cr, tf, ended, events>>

\* The managed reconciler's annotations say that the Create call is answered,
\* with success or with an error.
RecordResult ==
    /\ pc = "record"
    /\ cr' = [cr EXCEPT !.incomplete = FALSE]
    /\ Goto("idle")
    /\ UNCHANGED <<world, process, events>>

\* A second operation beside a running one is an error of the reconcile.
LaunchUpdate ==
    /\ pc = "launch"
    /\ op' = IF Running THEN op ELSE Operation("update", my.gen)
    /\ Goto("idle")
    /\ UNCHANGED <<world, cr, tf, ended, events>>

\* A deletion that has not been observed yet is not started again.
Delete ==
    /\ pc = "delete"
    /\ op' = IF Running \/ op.kind = "delete" THEN op ELSE Operation("delete", my.gen)
    /\ Goto("idle")
    /\ UNCHANGED <<world, cr, tf, ended, events>>

\* The managed reconciler releases the finalizer.
Finalize ==
    /\ pc = "finalize"
    /\ Write([my EXCEPT !.phase = "gone"], "idle")
    /\ UNCHANGED <<world, process, events>>

-----------------------------------------------------------------------------
(* The operation ends: what BTP did, what the Terraform state has of it,   *)
(* and the callback to come.  BTP refuses a second instance of a name.     *)

Ended(what) ==
    /\ op' = [op EXCEPT !.runs = FALSE]
    /\ ended' = ended \cup {Failure(what, op.gen)}
    /\ UNCHANGED <<foreign, cr, my, pc>>

Created == [id |-> last + 1, config |-> op.gen, inWindow |-> TRUE]

CreateEnds ==
    /\ Running /\ op.kind = "create"
    /\ IF btp.id # None
       THEN UNCHANGED <<btp, last, tf, events>> /\ Ended("conflict")
       ELSE \/ /\ btp' = Created /\ last' = last + 1 /\ tf' = last + 1
               /\ UNCHANGED events /\ Ended("none")
            \/ /\ Happens("lost")           \* with its id in the state, or not
               /\ btp' = Created /\ last' = last + 1 /\ tf' \in {last + 1, tf}
               /\ Ended("create")
            \/ Happens("reject") /\ UNCHANGED <<btp, last, tf>> /\ Ended("create")

Updated == IF btp.id = tf /\ tf # None THEN [btp EXCEPT !.config = op.gen] ELSE btp

UpdateEnds ==
    /\ Running /\ op.kind = "update"
    /\ \/ btp' = Updated /\ UNCHANGED events /\ Ended(IF btp.id = tf THEN "none" ELSE "update")
       \/ Happens("lost") /\ btp' = Updated /\ Ended("update")
       \/ Happens("reject") /\ UNCHANGED btp /\ Ended("update")
    /\ UNCHANGED <<last, tf>>

Removed == IF btp.id = tf THEN Instance(None, 0) ELSE btp

DeleteEnds ==
    /\ Running /\ op.kind = "delete"
    /\ \/ btp' = Removed /\ tf' = None /\ UNCHANGED events /\ Ended("none")
       \/ Happens("lost") /\ btp' = Removed /\ UNCHANGED tf /\ Ended("delete")
       \/ Happens("reject") /\ UNCHANGED <<btp, tf>> /\ Ended("delete")
    /\ UNCHANGED last

OperationEnds == CreateEnds \/ UpdateEnds \/ DeleteEnds

\* saveCallback: the result gets the generation of the marker.
LabelFor == IF cr.marker # 0 THEN cr.marker ELSE cr.gen

Callback(c) ==
    /\ c \in ended
    /\ ended' = ended \ {c}
    /\ cr' = IF cr.phase = "gone" THEN cr
             ELSE [cr EXCEPT !.cond = IF c.of = "none" THEN NoFailure
                                      ELSE Failure(c.of, LabelFor)]
    /\ UNCHANGED <<world, tf, op, my, pc, events>>

\* Its write fails and is only logged.
CallbackFails(c) ==
    /\ c \in ended /\ Happens("drop")
    /\ ended' = ended \ {c}
    /\ UNCHANGED <<world, cr, tf, op, my, pc>>

-----------------------------------------------------------------------------
(* Users, somebody else in BTP, failures.                                  *)

UserEdits ==
    /\ cr.phase = "live" /\ Happens("edit")
    /\ cr' = [cr EXCEPT !.gen = @ + 1]
    /\ UNCHANGED <<world, process, my, pc>>

UserDeletes ==
    /\ cr.phase = "live"
    /\ cr' = [cr EXCEPT !.phase = "deleting"]
    /\ UNCHANGED <<world, process, my, pc, events>>

\* "cannot determine creation result": the user removes external-create-pending.
UserClearsIncomplete ==
    /\ cr.incomplete /\ pc = "idle" /\ Happens("clear")
    /\ cr' = [cr EXCEPT !.incomplete = FALSE, !.attempted = FALSE]
    /\ UNCHANGED <<world, process, my, pc>>

LostInBTP ==
    /\ btp.id # None /\ Happens("loss")
    /\ btp' = Instance(None, 0)
    /\ UNCHANGED <<foreign, last, cr, process, my, pc>>

WriteFails ==
    /\ pc \in {"name", "heal", "pending", "update", "record"} /\ Happens("drop")
    /\ Goto("idle")
    /\ UNCHANGED <<world, cr, process>>

\* The operation that ran has reached BTP, or not.
Restart ==
    /\ Happens("restart")
    /\ \/ UNCHANGED <<btp, last>>
       \/ Running /\ op.kind = "create" /\ btp.id = None /\ btp' = Created /\ last' = last + 1
       \/ Running /\ op.kind = "update" /\ btp' = Updated /\ UNCHANGED last
       \/ Running /\ op.kind = "delete" /\ btp' = Removed /\ UNCHANGED last
    /\ tf' = None /\ op' = Idle /\ ended' = {}
    /\ Goto("idle")
    /\ UNCHANGED <<foreign, cr>>

-----------------------------------------------------------------------------
Reconcile ==
    \/ Connect \/ ObserveConflict \/ Observe
    \/ HealClears \/ HealNames \/ (NothingToHeal /\ UNCHANGED events)
    \/ RecordPending \/ Mark \/ (MarkFails /\ UNCHANGED events) \/ LaunchCreate \/ RecordResult
    \/ LaunchUpdate \/ Delete \/ Finalize

Next ==
    \/ Reconcile \/ NothingToHeal \/ MarkFails \/ OperationEnds
    \/ \E c \in ended : Callback(c) \/ CallbackFails(c)
    \/ ObserveFails \/ WriteFails \/ Restart
    \/ UserEdits \/ UserDeletes \/ UserClearsIncomplete \/ LostInBTP

Spec == Init /\ [][Next]_vars

\* The resource is polled and retried; an operation ends by its deadline and
\* its callback runs, and not forever within the moments of a reconcile rather
\* than in the minutes between two.
Between(A) == pc = "idle" /\ A
FairSpec ==
    /\ Spec
    /\ WF_vars(Reconcile)
    /\ SF_vars(Between(OperationEnds))
    /\ SF_vars(Between(\E c \in ended : Callback(c)))

-----------------------------------------------------------------------------
Steps == {"idle", "observe", "heal", "name", "pending", "mark", "create", "record",
          "update", "launch", "delete", "finalize"}
Ids == 0 .. last
Results == [of : {"none", "conflict", "create", "update", "delete"}, gen : Nat]
Resources == [phase : {"live", "deleting", "gone"}, gen : Nat, name : Ids, marker : Nat,
              cond : Results, attempted : BOOLEAN, incomplete : BOOLEAN, guid : Ids]

TypeOK ==
    /\ foreign \subseteq {1} /\ last \in Nat
    /\ btp \in [id : Ids, config : Nat, inWindow : BOOLEAN]
    /\ cr \in Resources /\ my \in Resources
    /\ tf \in Ids
    /\ op \in [kind : {"none", "create", "update", "delete"}, gen : Nat, runs : BOOLEAN]
    /\ ended \subseteq Results
    /\ pc \in Steps
    /\ events \in [Events -> Nat]

Never(E) == \A e \in E : events[e] = 0

\* Somebody else's instance of the same name is never recorded nor worked on,
\* however often a refused create is retried (IsOwnedByCR in healExternalName).
ForeignIsSpared == {cr.name, tf} \cap foreign = {}

\* When the resource is gone, so is its instance, also one whose create was
\* still running or had failed when the deletion was asked (Observe heals on
\* the delete leg too).  Three exceptions: the user answers an unanswered create,
\* which takes the proof of the attempt away; a create whose answer was lost,
\* or that a restart cut, meets a failed lookup, which counts as nothing found;
\* or it meets a loss in BTP, as a name that is recorded is not healed.
DeleteLeavesNothing ==
    /\ cr.phase = "gone" /\ Never({"clear"})
    /\ Never({"lost", "restart"}) \/ Never({"blind", "loss"})
    => btp.id \in foreign \cup {None}

\* A failure is recorded for the generation it was launched for: "a spec edit
\* alone does not relabel an earlier operation's result".  Only the launch of a
\* later operation, before the callback of the earlier one runs, does.
EditsDoNotRelabel ==
    [][\A c \in ended :
          Callback(c) /\ c.of \in {"conflict", "create", "update"} /\ cr.phase # "gone" =>
              cr'.cond.gen = c.gen \/ cr.marker > c.gen]_vars

Complete == cr.name # None /\ cr.name = btp.id /\ btp.config = cr.gen
Waiting == cr.incomplete /\ pc = "idle"

\* What the provider leaves to the user: a create that BTP refused, and whose
\* instance the window does not prove its own, or no attempt is on record any
\* more; a name beside another instance.
Refused ==
    /\ cr.cond = Failure("conflict", cr.gen) /\ cr.name = None
    /\ btp.id = None \/ ~btp.inWindow \/ ~cr.attempted
Replaced == cr.name # None /\ btp.id \notin {None, cr.name}

\* A resource that is not deleted ends up with an instance that it has recorded
\* and that is configured as the newest spec says, whatever operations fail and
\* whichever results are lost or late.
SpecIsApplied == []<>(Complete \/ cr.phase # "live" \/ Waiting \/ Refused \/ Replaced)

\* A deleted resource goes away, however its operations overlap the deletion.
DeletionCompletes == cr.phase = "deleting" ~> cr.phase = "gone" \/ Waiting
=============================================================================

----------------------------- MODULE KymaBinding -----------------------------
(***************************************************************************)
(* A KymaEnvironmentBinding: bindings that expire, of which the newest is  *)
(* in the connection secret, and that are rotated before they do           *)
(* (controller/kymaenvironmentbinding, clients/kymaenvironmentbinding,     *)
(* reconcilerutil).                                                        *)
(*                                                                         *)
(* The status is the only record of the bindings.  It is judged and        *)
(* written on a copy out of the informer cache, and a write that conflicts *)
(* is judged again on a newer copy, or given up while the reconcile goes   *)
(* on.  BTP's calls and the status are not written together.               *)
(***************************************************************************)
EXTENDS Integers, FiniteSetsExt

CONSTANTS
    Allowed,       \* the events that may happen
    MaxBindings,   \* bound: BTP makes no more
    MaxEvents      \* bound: events of all kinds together

\* The user edits the spec; a write fails, done or not; a call to BTP fails, done
\* or not; BTP refuses a deletion; the connection of a deletion breaks, done or
\* not; somebody deletes in BTP; the process restarts; the user answers an
\* unanswered create; a reconcile begins with a copy as old as the previous one's.
Events == {"stale", "edit", "drop", "lost", "refuse", "cut", "loss", "restart", "clear"}

ASSUME ConstantsAssumption ==
    Allowed \subseteq Events /\ MaxBindings \in Nat /\ MaxEvents \in Nat

None == 0

VARIABLES
    btp, last,      \* the bindings at the service; the number of the newest one
    due, expired,   \* those past the rotation interval or expired, and the expired ones
    secret,         \* the binding in the connection secret
    cr, cache,      \* the resource, and as the reconcile before had it
    base, mine,     \* the reconcile's copy: as it was read or written last, and now
    new, doomed,    \* what this reconcile created; what it will delete
    pc,
    events          \* history: how often each event happened

vars == <<btp, last, due, expired, secret, cr, cache, base, mine, new, doomed, pc, events>>
service == <<btp, last>>
clocks == <<due, expired>>
copies == <<base, mine>>

-----------------------------------------------------------------------------
NewResource == [phase |-> "live", edits |-> 0, binds |-> {}, active |-> {}, incomplete |-> FALSE]

Happens(e) ==
    /\ e \in Allowed /\ MapThenSumSet(LAMBDA k : events[k], Events) < MaxEvents
    /\ events' = [events EXCEPT ![e] = @ + 1]

Usable(b) == b \notin due \cup expired
Goto(step) == pc' = step /\ UNCHANGED <<base, mine, new, doomed>>
Copy(c) == base' = c /\ mine' = c
Idle == pc' = "idle" /\ Copy(NewResource) /\ new' = None /\ doomed' = {}

\* Mistakes this code could make, for the mutation runs: a due binding stays
\* active, due ones are deleted with the expired, the new binding replaces the
\* list, a due binding hides an active one, nothing exists once the resource is
\* deleted.
BugNeverDue(c) == [c EXCEPT !.binds = @ \ expired, !.active = @ \ expired]
BugDeletesDue(c) == c.binds \cap due
BugReplacesList == [mine EXCEPT !.binds = {new}, !.active = {new}]
BugAllMustBeActive ==
    IF mine.phase = "deleting" THEN "delete"
    ELSE IF mine.active # mine.binds \/ mine.active = {} THEN "pending" ELSE "settle"
BugDeletedIsGone == IF mine.phase = "deleting" THEN "finalize" ELSE IF mine.active = {} THEN "pending" ELSE "settle"

-----------------------------------------------------------------------------
\* The API server: a write of an outdated copy is a conflict.
Current == base = cr /\ cr.phase # "gone"

Init ==
    /\ btp = {} /\ last = 0 /\ due = {} /\ expired = {} /\ secret = None
    /\ cr = NewResource /\ cache = NewResource
    /\ base = NewResource /\ mine = NewResource
    /\ new = None /\ doomed = {} /\ pc = "idle"
    /\ events = [e \in Events |-> 0]

\* An update by the managed reconciler: a conflict ends the reconcile, and the
\* copy is the API server's answer.
Update(c, step) ==
    IF Current THEN cr' = c /\ pc' = step /\ Copy(c) /\ UNCHANGED <<new, doomed>>
    ELSE Idle /\ UNCHANGED cr

\* UpdateStatusWithRetry: a conflict fetches and judges again, until the retries
\* end (the informer is late); another failure, done or not, ends them at once.
StatusWritten(c, step) ==
    /\ Current
    /\ cr' = c /\ Copy(c) /\ pc' = step

StatusRetried ==
    /\ ~Current /\ cr.phase # "gone"
    /\ Copy(cr)
    /\ UNCHANGED <<cr, pc>>

StatusGivenUp(c, step) ==
    /\ \/ ~Current /\ UNCHANGED <<cr, events>>
       \/ Current /\ Happens("drop") /\ cr' \in {cr, c}
    /\ mine' = c /\ pc' = step /\ UNCHANGED base

UpdateStatusWithRetry(c, done, failed) ==
    \/ StatusWritten(c, done) /\ UNCHANGED events
    \/ StatusRetried /\ UNCHANGED events
    \/ StatusGivenUp(c, failed)

\* DeleteInstances: one after the other, the oldest first, until BTP refuses
\* one; a broken connection counts as done.
DeleteInstances(ids, done, failed) ==
    \/ btp' = btp \ ids /\ Goto(done) /\ UNCHANGED events
    \/ \E b \in ids :
          \/ btp' = btp \ {a \in ids : a < b} /\ Goto(failed) /\ Happens("refuse")
          \/ btp' = btp \ (ids \ {b}) /\ Goto(done) /\ Happens("cut")

-----------------------------------------------------------------------------
(* Observe.                                                                *)

\* The managed reconciler stops at a create without an answer.
Connect ==
    /\ pc = "idle"
    /\ \/ Copy(cr) /\ UNCHANGED events
       \/ Copy(cache) /\ Happens("stale")
    /\ base'.phase # "gone" /\ ~base'.incomplete
    /\ pc' = "describe" /\ cache' = cr
    /\ UNCHANGED <<service, clocks, secret, cr, new, doomed>>

\* updateBindingsFromService.
Listed(c) == [c EXCEPT !.binds = @ \cap btp, !.active = @ \cap btp]

Describe ==
    /\ pc = "describe"
    /\ mine' = Listed(mine)
    /\ pc' = "validate"
    /\ UNCHANGED <<service, clocks, secret, cr, cache, base, new, doomed, events>>

DescribeFails ==
    /\ pc = "describe" /\ Happens("lost")
    /\ Idle
    /\ UNCHANGED <<service, clocks, secret, cr, cache>>

\* validateBindings: what is due or expired is not active, what is expired goes.
Valid(c) == [c EXCEPT !.binds = @ \ expired, !.active = {b \in @ : Usable(b)}]
Expired(c) == c.binds \cap expired

Validate ==
    /\ pc = "validate"
    /\ UpdateStatusWithRetry(Valid(mine), "purge", "purge")
    /\ doomed' = Expired(mine)
    /\ UNCHANGED <<service, clocks, secret, cache, new>>

\* A deletion that fails is an event, no error.
Verdict ==
    CASE mine.phase = "deleting" /\ mine.active = {} -> "finalize"
      [] mine.phase = "deleting" /\ mine.active # {} -> "delete"
      [] mine.phase # "deleting" /\ mine.active = {} -> "pending"
      [] OTHER -> "settle"

Purge ==
    /\ pc = "purge"
    /\ DeleteInstances(doomed, Verdict, Verdict)
    /\ UNCHANGED <<last, clocks, secret, cr, cache>>

\* The managed reconciler writes the status of an observation.
Settle ==
    /\ pc = "settle"
    /\ cr' = IF Current THEN mine ELSE cr
    /\ Idle
    /\ UNCHANGED <<service, clocks, secret, cache, events>>

-----------------------------------------------------------------------------
(* Create, inside the managed reconciler's protocol.                       *)

RecordPending ==
    /\ pc = "pending"
    /\ Update([base EXCEPT !.incomplete = TRUE], "create")
    /\ UNCHANGED <<service, clocks, secret, cache, events>>

CreateInstance ==
    /\ pc = "create"
    /\ IF last = MaxBindings THEN Goto("failed") /\ UNCHANGED <<service, events>>
       ELSE \/ btp' = btp \cup {last + 1} /\ last' = last + 1 /\ new' = last + 1
               /\ pc' = "append" /\ UNCHANGED <<copies, doomed, events>>
            \/ Happens("lost") /\ Goto("failed")
               /\ \/ UNCHANGED service
                  \/ btp' = btp \cup {last + 1} /\ last' = last + 1
    /\ UNCHANGED <<clocks, secret, cr, cache>>

WithNew == [mine EXCEPT !.binds = @ \cup {new}, !.active = @ \cup {new}]

AppendNew ==
    /\ pc = "append"
    /\ UpdateStatusWithRetry(WithNew, "created", "rollback")
    /\ UNCHANGED <<service, clocks, secret, cache, new, doomed>>

Rollback ==
    /\ pc = "rollback"
    /\ DeleteInstances({new}, "failed", "failed")
    /\ UNCHANGED <<last, clocks, secret, cr, cache>>

\* UpdateCriticalAnnotations, on the newest resource.
RecordResult ==
    /\ pc \in {"created", "failed"}
    /\ cr' = [cr EXCEPT !.incomplete = FALSE]
    /\ IF pc = "created" THEN Goto("publish") ELSE Idle
    /\ UNCHANGED <<service, clocks, secret, cache, events>>

PublishConnection ==
    /\ pc = "publish"
    /\ \/ secret' = new /\ UNCHANGED events
       \/ Happens("drop") /\ UNCHANGED secret
    /\ Idle
    /\ UNCHANGED <<service, clocks, cr, cache>>

-----------------------------------------------------------------------------
(* Delete.                                                                 *)

Delete ==
    /\ pc = "delete"
    /\ DeleteInstances(mine.binds, "settle", "settle")
    /\ UNCHANGED <<last, clocks, secret, cr, cache>>

Finalize ==
    /\ pc = "finalize"
    /\ IF Current THEN cr' = [mine EXCEPT !.phase = "gone"] ELSE UNCHANGED cr
    /\ Idle
    /\ UNCHANGED <<service, clocks, secret, cache, events>>

-----------------------------------------------------------------------------
(* Time, users, somebody else in BTP, failures.              *)

\* Older bindings are due, and expire, before newer ones.
Oldest(ids) == {b \in ids : \A a \in ids : b <= a}

TimePasses ==
    /\ \/ \E b \in Oldest(btp \ due) : due' = due \cup {b} /\ UNCHANGED expired
       \/ \E b \in Oldest(btp \ expired) : expired' = expired \cup {b} /\ due' = due \cup {b}
    /\ UNCHANGED <<service, secret, cr, cache, copies, new, doomed, pc, events>>

UserEdits ==
    /\ cr.phase = "live" /\ Happens("edit")
    /\ cr' = [cr EXCEPT !.edits = @ + 1]
    /\ UNCHANGED <<service, clocks, secret, cache, copies, new, doomed, pc>>

UserDeletes ==
    /\ cr.phase = "live"
    /\ cr' = [cr EXCEPT !.phase = "deleting"]
    /\ UNCHANGED <<service, clocks, secret, cache, copies, new, doomed, pc, events>>

UserClearsIncomplete ==
    /\ cr.incomplete /\ pc = "idle" /\ Happens("clear")
    /\ cr' = [cr EXCEPT !.incomplete = FALSE]
    /\ UNCHANGED <<service, clocks, secret, cache, copies, new, doomed, pc>>

LostInBTP ==
    /\ Happens("loss")
    /\ \E b \in btp : btp' = btp \ {b}
    /\ UNCHANGED <<last, clocks, secret, cr, cache, copies, new, doomed, pc>>

WriteFails ==
    /\ pc \in {"settle", "pending", "created", "failed", "finalize"} /\ Happens("drop")
    /\ Idle
    /\ UNCHANGED <<service, clocks, secret, cr, cache>>

Restart ==
    /\ pc # "idle" /\ Happens("restart")
    /\ Idle
    /\ UNCHANGED <<service, clocks, secret, cr, cache>>

-----------------------------------------------------------------------------
Reconcile ==
    \/ Connect \/ Describe \/ Validate \/ Purge \/ Settle
    \/ RecordPending \/ CreateInstance \/ AppendNew \/ Rollback \/ RecordResult
    \/ PublishConnection \/ Delete \/ Finalize

Next ==
    \/ Reconcile \/ DescribeFails \/ WriteFails \/ Restart
    \/ TimePasses
    \/ UserEdits \/ UserDeletes \/ UserClearsIncomplete \/ LostInBTP

Spec == Init /\ [][Next]_vars

\* The resource is polled and retried, and what disturbs it is bounded.
FairSpec == Spec /\ WF_vars(Reconcile)

-----------------------------------------------------------------------------
Ids == 1 .. last
Resources == [phase : {"live", "deleting", "gone"}, edits : Nat,
              binds : SUBSET Ids, active : SUBSET Ids, incomplete : BOOLEAN]
Steps == {"idle", "describe", "validate", "purge", "settle", "pending", "create", "append",
          "rollback", "created", "failed", "publish", "delete", "finalize"}

TypeOK ==
    /\ last \in 0 .. MaxBindings
    /\ btp \subseteq Ids /\ due \subseteq Ids /\ expired \subseteq Ids /\ doomed \subseteq Ids
    /\ secret \in Ids \cup {None} /\ new \in Ids \cup {None}
    /\ {cr, cache, base, mine} \subseteq Resources
    /\ pc \in Steps
    /\ events \in [Events -> Nat]

Never(E) == \A e \in E : events[e] = 0

\* Every binding at the service is in the status, or in the hands of a reconcile
\* that will write or delete it.  Not after a call or a process that died before
\* its answer was written, nor after a deletion that failed: there is no second
\* attempt at an expired binding or at a rollback.
EveryBindingIsTracked ==
    /\ cr.phase # "gone"
    /\ Never({"lost", "restart", "refuse", "cut"})
    => btp \subseteq cr.binds \cup doomed \cup {new}

\* What is left when the resource is gone is past its rotation: Observe says that
\* nothing exists when no binding is active, and nobody calls Delete.
DeleteLeavesRotated ==
    /\ cr.phase = "gone"
    /\ Never({"lost", "restart", "refuse", "cut"})
    => btp \subseteq due

\* The connection secret holds a binding that BTP has, unless that expired, was
\* deleted by somebody or with the resource: neither the purge, nor a rollback
\* after a failed status write, nor a status judged on an outdated copy takes it.
SecretWorks ==
    \/ secret \in btp \cup expired \cup {None}
    \/ cr.phase # "live" \/ ~Never({"loss"})

\* A binding is made only when the resource has recorded none that is usable, on
\* whichever copy Observe judged (BTP limits the bindings of an environment).
MadeWhenNeeded ==
    [][btp' \ btp # {} => \A b \in cr.active \cap btp : b \in due \cup expired]_vars

Waiting == cr.incomplete /\ pc = "idle"
Exhausted == last = MaxBindings

\* A resource that is not deleted has a recorded usable binding again and again,
\* whenever the last one became due, expired or was deleted.
RotationCompletes ==
    []<>(\/ \E b \in cr.active \cap btp : Usable(b)
         \/ cr.phase # "live" \/ Waiting \/ Exhausted)
=============================================================================

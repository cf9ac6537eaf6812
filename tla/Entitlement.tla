---------------------------- MODULE Entitlement ----------------------------
(***************************************************************************)
(* Entitlement resources that share one BTP assignment: all have the same  *)
(* (subaccount, service, plan, qualifier), each writes the AGGREGATE of    *)
(* all of them, and a deleted one takes its share out or leaves it to its  *)
(* siblings (controller/account/entitlement, clients/entitlement).         *)
(*                                                                         *)
(* A reconcile reads the assignment (through a describe cache shared by    *)
(* all of them), lists the siblings, decides, and writes: four moments     *)
(* between which other reconciles, BTP and users act.  An assignment is    *)
(* either numeric (Amount) or a switch (Enable); a request is a number,    *)
(* where enable is 1 and disable is 0.                                     *)
(***************************************************************************)
EXTENDS Integers, FiniteSets, FiniteSetsExt

CONSTANTS
    CRs,            \* the Entitlement resources of one key
    Amount,         \* Amount[c]: spec.forProvider.amount of c
    Kinds,          \* of plan: TRUE is numeric quota, FALSE is enable-based
    NamesAtCreate,  \* external-name annotations a user creates a CR with
    MaxConcurrent,  \* MaxConcurrentReconciles
    MaxAborts,      \* bound: reconciles that fail or crash midway, or lose an answer
    MaxFailures,    \* bound: BTP operations that end PROCESSING_FAILED
    MaxOthers       \* bound: assignments made by somebody else

ASSUME ConstantsAssumption ==
    /\ IsFiniteSet(CRs) /\ CRs # {}      \* an assignment is keyed by what its CRs say
    /\ Amount \in [CRs -> Nat \ {0}]
    /\ Kinds \subseteq BOOLEAN
    /\ NamesAtCreate \subseteq {"empty", "legacy", "current"}
    /\ MaxConcurrent \in Nat \ {0}
    /\ {MaxAborts, MaxFailures, MaxOthers} \subseteq Nat

VARIABLES
    numeric,               \* BTP: the kind of plan, which never changes
    btp, pending, owner,   \* BTP: the assignment, the request under way, who made it
    cr, name, delCond,     \* Kubernetes: lifecycle, external-name, Ready reason Deleting
    cache, flight,         \* describe cache, read in flight
    hit, superseded,       \* it loaded the cached answer; the cached one is newer
    behind, misled,        \* history: which of the two is, and whose last answer was,
                           \* older than a write whose own answer was lost
    pc, wdel, inst, req,   \* reconcile in flight: step, deleting copy, read, request
    aborts, failures, others

btpVars  == <<numeric, btp, pending, owner>>
kubeVars == <<cr, name, delCond>>
readVars == <<cache, flight, hit, superseded, behind, misled>>
workVars == <<pc, wdel, inst, req>>
vars == <<btpVars, kubeVars, readVars, workVars, aborts, failures, others>>

-----------------------------------------------------------------------------
(* Assignments as BTP reports them.  NoAmount is an unset Amount: the      *)
(* switch has none, and a first numeric assignment has none until granted. *)

NoAmount == -1
Total(S) == MapThenSumSet(LAMBDA c : Amount[c], S)
Assignments == [state : {"NONE", "OK", "PROCESSING", "FAILED"},
                amount : NoAmount .. Total(CRs), on : BOOLEAN, auto : BOOLEAN]
NoAssignment == [state |-> "NONE", amount |-> NoAmount, on |-> FALSE, auto |-> FALSE]
Granted(r) == IF numeric THEN [NoAssignment EXCEPT !.state = "OK", !.amount = r]
                         ELSE [NoAssignment EXCEPT !.state = "OK", !.on = TRUE]

Absent(a) == a.state = "NONE"
InProgress(a) == a.state = "PROCESSING"
AssignFailedNoQuota(a) == a.state = "FAILED" /\ a.amount <= 0
DeletingWithReservedQuota(del, a) == del /\ a.on
BugUnsetIsZero(a) == a.on \/ a.amount > 0
AssignmentStillReserved(a) == a.on \/ a.amount = NoAmount \/ a.amount > 0
NeedsCreate(a) == Absent(a) \/ (~a.auto /\ AssignFailedNoQuota(a))

-----------------------------------------------------------------------------
(* Siblings and what they need together.                                   *)

Exists(c) == cr[c] \in {"live", "deleting"}
\* findRelatedEntitlements: the Deleting condition excludes, a mere deletion
\* timestamp does not.
Related == {c \in CRs : Exists(c) /\ ~delCond[c]}
Siblings(c) == Related \ {c}
BugCountsTwice(S) == IF numeric THEN Total(S) + Total(S) ELSE IF S = {} THEN 0 ELSE 1
Required(S) == IF numeric THEN Total(S) ELSE IF S = {} THEN 0 ELSE 1

BugAnySiblingProves(c) == Siblings(c) # {}
MayAdopt(c) == \E s \in Siblings(c) : name[s] \in {"current", "legacy"}
AdoptionGuardApplies(c, del, a) ==
    /\ name[c] = "empty" /\ ~Absent(a) /\ ~a.auto
    /\ ~AssignFailedNoQuota(a) \/ DeletingWithReservedQuota(del, a)

BugStrictlyLess(c, a) ==
    Siblings(c) # {} /\ a.amount # NoAmount /\ a.amount < Required(Siblings(c))
DeletionComplete(c, a) ==
    /\ Siblings(c) # {}
    /\ numeric => a.amount # NoAmount /\ a.amount <= Required(Siblings(c))
NeedsUpdate(a) == numeric /\ ~a.auto /\ ~a.on /\ a.amount # Required(Related)

-----------------------------------------------------------------------------
Init ==
    /\ btp = NoAssignment /\ pending = {} /\ owner = "nobody"
    /\ cr = [c \in CRs |-> "none"]
    /\ name = [c \in CRs |-> "empty"]
    /\ delCond = [c \in CRs |-> FALSE]
    /\ cache = {} /\ flight = {} /\ hit = FALSE /\ superseded = FALSE
    /\ behind = {} /\ misled = {}
    /\ pc = [c \in CRs |-> "idle"]
    /\ wdel = [c \in CRs |-> FALSE]
    /\ inst = [c \in CRs |-> NoAssignment]
    /\ req = [c \in CRs |-> 0]
    /\ numeric \in Kinds
    /\ aborts = 0 /\ failures = 0 /\ others = 0

UserCreate(c) ==
    /\ cr[c] = "none"
    /\ cr' = [cr EXCEPT ![c] = "live"]
    /\ \E n \in NamesAtCreate : name' = [name EXCEPT ![c] = n]
    /\ UNCHANGED <<btpVars, delCond, readVars, workVars, aborts, failures, others>>

UserDelete(c) ==
    /\ cr[c] = "live"
    /\ cr' = [cr EXCEPT ![c] = "deleting"]
    /\ UNCHANGED <<btpVars, name, delCond, readVars, workVars, aborts, failures, others>>

\* BTP finishes, or fails, the request it is processing.
BTPFinish ==
    /\ \E r \in pending :
          /\ btp' = IF r = 0 THEN NoAssignment ELSE Granted(r)
          /\ owner' = IF r = 0 THEN "nobody" ELSE owner
    /\ pending' = {}
    /\ UNCHANGED <<numeric, kubeVars, readVars, workVars, aborts, failures, others>>

BTPFail ==
    /\ pending # {} /\ failures < MaxFailures
    /\ btp' = [btp EXCEPT !.state = "FAILED"]
    /\ pending' = {}
    /\ failures' = failures + 1
    /\ UNCHANGED <<numeric, owner, kubeVars, readVars, workVars, aborts, others>>

\* An administrator, or BTP itself (auto), makes an assignment of the plan.
OtherAssigns ==
    /\ Absent(btp) /\ pending = {} /\ others < MaxOthers
    /\ \E auto \in BOOLEAN : btp' = [Granted(1) EXCEPT !.auto = auto]
    /\ owner' = "other"
    /\ others' = others + 1
    /\ UNCHANGED <<numeric, pending, kubeVars, readVars, workVars, aborts, failures>>

-----------------------------------------------------------------------------
(* The describe cache.  One ordinary read is in flight at a time and is    *)
(* shared by everyone who asks meanwhile, whether it went to BTP or loaded *)
(* the cached answer (singleflight around describeCacheGet).               *)

Await(c, step) ==      \* DescribeInstance on behalf of c
    /\ pc' = [pc EXCEPT ![c] = step]
    /\ IF flight # {} THEN UNCHANGED <<flight, hit, superseded, behind>>
       ELSE /\ flight' = IF cache # {} THEN cache ELSE {btp}
            /\ hit' = (cache # {})
            /\ superseded' = FALSE
            /\ behind' = IF "cache" \in behind THEN {"cache", "flight"} ELSE {}
    /\ UNCHANGED <<cache, misled>>

Waiting == {c \in CRs : pc[c] \in {"observing", "deleting"}}
Arrived(step) == CASE step = "observing" -> "observe" [] step = "deleting" -> "delete"

\* describeCacheStore: what BTP answered is stored unless the cached answer was
\* issued later.
FlightReturns ==
    /\ \E v \in flight :
          /\ cache' = IF hit \/ superseded THEN cache ELSE {v}
          /\ inst' = [c \in CRs |-> IF c \in Waiting THEN v ELSE inst[c]]
    /\ behind' = IF hit \/ superseded THEN behind \ {"flight"}
                 ELSE {"cache" : b \in behind \ {"cache"}}
    /\ misled' = IF "flight" \in behind THEN misled \cup Waiting ELSE misled \ Waiting
    /\ pc' = [c \in CRs |-> IF c \in Waiting THEN Arrived(pc[c]) ELSE pc[c]]
    /\ flight' = {} /\ hit' = FALSE /\ superseded' = FALSE
    /\ UNCHANGED <<btpVars, kubeVars, wdel, req, aborts, failures, others>>

CacheExpires ==
    /\ cache # {}
    /\ cache' = {} /\ superseded' = FALSE /\ behind' = behind \ {"cache"}
    /\ UNCHANGED <<btpVars, kubeVars, flight, hit, misled, workVars, aborts, failures, others>>

\* UpdateInstance: the call reaches BTP, and when it has returned without an
\* error the cached answer is dropped.
SetServicePlans(r) ==
    /\ btp' = [btp EXCEPT !.state = "PROCESSING"]
    /\ pending' = {r}
    /\ owner' = IF btp.auto THEN owner ELSE "provider"
    /\ UNCHANGED numeric

Invalidate ==
    /\ cache' = {} /\ superseded' = FALSE /\ behind' = behind \ {"cache"}
    /\ UNCHANGED <<flight, hit, misled>>

UpdateInstance(r) == SetServicePlans(r) /\ Invalidate

-----------------------------------------------------------------------------
(* Observe.                                                                *)

ObserveStart(c) ==
    /\ pc[c] = "idle" /\ Exists(c)
    /\ Cardinality({d \in CRs : pc[d] # "idle"}) < MaxConcurrent
    /\ wdel' = [wdel EXCEPT ![c] = cr[c] = "deleting"]
    /\ Await(c, "observing")
    /\ inst' = [inst EXCEPT ![c] = NoAssignment] /\ req' = [req EXCEPT ![c] = 0]
    /\ UNCHANGED <<btpVars, kubeVars, aborts, failures, others>>

NotExisting(c) == IF wdel[c] THEN "finalize" ELSE "create"

\* observeExternalName's verdict: "exists" for its nil result, "idle" for its
\* error, otherwise the step a ResourceExists: false leads to.
ExternalNameVerdict(c) ==
    LET a == inst[c]
        failedUnreserved == AssignFailedNoQuota(a) /\ ~DeletingWithReservedQuota(wdel[c], a)
                            /\ ~(wdel[c] /\ a.auto)
        missing == Absent(a) \/ failedUnreserved
        unproven == AdoptionGuardApplies(c, wdel[c], a) /\ ~MayAdopt(c)
        unjoined == IF Siblings(c) = {} THEN ~AssignmentStillReserved(a)
                                        ELSE DeletionComplete(c, a)
    IN IF name[c] = "current" \/ ~(missing \/ unproven) THEN "exists"
       ELSE IF missing THEN NotExisting(c)
       ELSE IF wdel[c] /\ unjoined THEN "finalize" ELSE "idle"

\* Observe's own verdict once observeExternalName found the assignment.
ExistingVerdict(c) ==
    LET a == inst[c]
        ongoing == IF InProgress(a) THEN "idle" ELSE "describe"  \* Delete: updateInProgress
    IN IF NeedsCreate(a) /\ ~DeletingWithReservedQuota(wdel[c], a) THEN NotExisting(c)
       ELSE IF wdel[c]
       THEN IF a.auto \/ DeletionComplete(c, a) THEN "finalize" ELSE ongoing
       ELSE IF NeedsUpdate(a) /\ ~InProgress(a) THEN "update" ELSE "idle"

Observe(c) ==
    LET verdict == ExternalNameVerdict(c)
        next == IF verdict = "exists" THEN ExistingVerdict(c) ELSE verdict
    IN /\ pc[c] = "observe"
       /\ pc' = [pc EXCEPT ![c] = next]
       /\ name' = IF verdict = "exists" /\ ~wdel[c]      \* persistExternalName
                  THEN [name EXCEPT ![c] = "current"] ELSE name
       /\ req' = [req EXCEPT ![c] = Required(Related)]
       /\ UNCHANGED <<btpVars, cr, delCond, readVars, wdel, inst, aborts, failures, others>>

\* The finalizer goes and with it the resource.
Finalize(c) ==
    /\ pc[c] = "finalize"
    /\ cr' = [cr EXCEPT ![c] = "gone"]
    /\ pc' = [pc EXCEPT ![c] = "idle"]
    /\ misled' = {d \in misled : Exists(d)}       \* the last one to go counts
    /\ UNCHANGED <<btpVars, name, delCond, cache, flight, hit, superseded, behind,
                   wdel, inst, req, aborts, failures, others>>

-----------------------------------------------------------------------------
(* Create: a fresh read, the guard once more, the write, and last of all   *)
(* the external name, persisted by the managed reconciler.                 *)

CreateRead(c) ==
    /\ pc[c] = "create"
    /\ inst' = [inst EXCEPT ![c] = btp]
    /\ cache' = {btp} /\ superseded' = (flight # {})
    /\ behind' = behind \ {"cache"} /\ misled' = misled \ {c}
    /\ req' = [req EXCEPT ![c] = Required(Related)]
    /\ pc' = [pc EXCEPT ![c] =
                IF AdoptionGuardApplies(c, wdel[c], btp) /\ ~MayAdopt(c) THEN "idle"
                ELSE IF btp.auto THEN "stamp" ELSE "createwrite"]
    /\ UNCHANGED <<btpVars, kubeVars, flight, hit, wdel, aborts, failures, others>>

CreateWrite(c) ==
    /\ pc[c] = "createwrite"
    /\ UpdateInstance(req[c])
    /\ pc' = [pc EXCEPT ![c] = "stamp"]
    /\ UNCHANGED <<kubeVars, wdel, inst, req, aborts, failures, others>>

StampExternalName(c) ==
    /\ pc[c] = "stamp"
    /\ name' = [name EXCEPT ![c] = "current"]
    /\ pc' = [pc EXCEPT ![c] = "idle"]
    /\ UNCHANGED <<btpVars, cr, delCond, readVars, wdel, inst, req, aborts, failures, others>>

UpdateWrite(c) ==
    /\ pc[c] = "update"
    /\ UpdateInstance(req[c])
    /\ pc' = [pc EXCEPT ![c] = "idle"]
    /\ UNCHANGED <<kubeVars, wdel, inst, req, aborts, failures, others>>

-----------------------------------------------------------------------------
(* Delete: its own read, its own list without itself, then the write; the  *)
(* Deleting condition reaches the API server with the status update.       *)

DeleteStart(c) ==
    /\ pc[c] = "describe"
    /\ Await(c, "deleting")
    /\ UNCHANGED <<btpVars, kubeVars, wdel, inst, req, aborts, failures, others>>

DeleteInstanceSkips(c) ==
    \/ Absent(inst[c]) \/ inst[c].auto
    \/ ~numeric /\ Cardinality(Siblings(c)) > 1

Delete(c) ==
    /\ pc[c] = "delete"
    /\ req' = [req EXCEPT ![c] = IF numeric THEN Required(Siblings(c)) ELSE 0]
    /\ pc' = [pc EXCEPT ![c] = IF DeleteInstanceSkips(c) THEN "mark" ELSE "deletewrite"]
    /\ UNCHANGED <<btpVars, kubeVars, readVars, wdel, inst, aborts, failures, others>>

DeleteWrite(c) ==
    /\ pc[c] = "deletewrite"
    /\ UpdateInstance(req[c])
    /\ pc' = [pc EXCEPT ![c] = "mark"]
    /\ UNCHANGED <<kubeVars, wdel, inst, req, aborts, failures, others>>

MarkDeleting(c) ==
    /\ pc[c] = "mark"
    /\ delCond' = [delCond EXCEPT ![c] = TRUE]
    /\ pc' = [pc EXCEPT ![c] = "idle"]
    /\ UNCHANGED <<btpVars, cr, name, readVars, wdel, inst, req, aborts, failures, others>>

\* A call fails, times out or the process dies: the reconcile ends where it
\* is; a read that fails, fails for everyone who shares it.
Abort(c) ==
    /\ pc[c] # "idle" /\ aborts < MaxAborts
    /\ aborts' = aborts + 1
    /\ pc' = [d \in CRs |-> IF d = c \/ (c \in Waiting /\ d \in Waiting) THEN "idle" ELSE pc[d]]
    /\ flight' = IF c \in Waiting THEN {} ELSE flight
    /\ hit' = (hit /\ c \notin Waiting)
    /\ superseded' = (superseded /\ c \notin Waiting)
    /\ behind' = IF c \in Waiting THEN behind \ {"flight"} ELSE behind
    /\ UNCHANGED <<btpVars, kubeVars, cache, misled, wdel, inst, req, failures, others>>

\* UpdateInstance returns an error for a write that BTP has done: nothing is
\* dropped from the cache, and the reconcile ends there.
WriteUnanswered(c) ==
    /\ pc[c] \in {"createwrite", "update", "deletewrite"} /\ aborts < MaxAborts
    /\ SetServicePlans(req[c])
    /\ behind' = {"cache" : a \in cache} \cup {"flight" : a \in flight}
    /\ pc' = [pc EXCEPT ![c] = "idle"]
    /\ aborts' = aborts + 1
    /\ UNCHANGED <<kubeVars, cache, flight, hit, superseded, misled, wdel, inst, req, failures, others>>

-----------------------------------------------------------------------------
Reconcile(c) ==
    \/ ObserveStart(c) \/ Observe(c) \/ Finalize(c)
    \/ CreateRead(c) \/ CreateWrite(c) \/ StampExternalName(c)
    \/ UpdateWrite(c)
    \/ DeleteStart(c) \/ Delete(c) \/ DeleteWrite(c) \/ MarkDeleting(c)

Next ==
    \/ \E c \in CRs : UserCreate(c) \/ UserDelete(c) \/ Reconcile(c) \/ Abort(c) \/ WriteUnanswered(c)
    \/ BTPFinish \/ BTPFail \/ OtherAssigns
    \/ FlightReturns \/ CacheExpires

Spec == Init /\ [][Next]_vars

\* Every CR is polled and every reconcile goes on; BTP answers and finishes;
\* a cached answer expires after describeCacheT.
Fairness ==
    /\ \A c \in CRs : WF_vars(Reconcile(c))
    /\ WF_vars(BTPFinish) /\ WF_vars(FlightReturns) /\ WF_vars(CacheExpires)

FairSpec == Spec /\ Fairness

-----------------------------------------------------------------------------
TypeOK ==
    /\ numeric \in BOOLEAN /\ btp \in Assignments
    /\ pending \in SUBSET (0 .. Total(CRs))
    /\ owner \in {"nobody", "provider", "other"}
    /\ cr \in [CRs -> {"none", "live", "deleting", "gone"}]
    /\ name \in [CRs -> {"empty", "legacy", "current"}]
    /\ delCond \in [CRs -> BOOLEAN]
    /\ cache \in SUBSET Assignments /\ flight \in SUBSET Assignments
    /\ hit \in BOOLEAN /\ superseded \in BOOLEAN
    /\ behind \in SUBSET {"cache", "flight"} /\ misled \in SUBSET CRs
    /\ pc \in [CRs -> {"idle", "observing", "observe", "finalize", "create", "createwrite",
                       "stamp", "update", "describe", "deleting", "delete", "deletewrite", "mark"}]
    /\ wdel \in [CRs -> BOOLEAN]
    /\ inst \in [CRs -> Assignments]
    /\ req \in [CRs -> 0 .. Total(CRs)]
    /\ aborts \in Nat /\ failures \in Nat /\ others \in Nat

Reserved == btp.on \/ btp.amount > 0 \/ \E r \in pending : r > 0

\* Quota the provider assigned never outlives the last resource that stands
\* for it ("When deleting, sibling CRs continue managing any remaining
\* amount": Observe, resolveUnjoinedDeletion, deletionCompleteForSiblings),
\* except where that resource went on an answer older than a write whose own
\* answer was lost: UpdateInstance then leaves the older answer in the cache.
NoOrphanedQuota ==
    owner = "provider" /\ Reserved =>
        \E c \in CRs : Exists(c) \/ (cr[c] = "gone" /\ c \in misled)

Writer(c) == pc[c] \in {"createwrite", "update", "deletewrite"} /\ pc'[c] # pc[c]

\* An assignment somebody else made is written only for a resource whose name
\* claims it, or for one that some sibling's name vouched for, or in a Create
\* that read "no assignment" first (adoptionGuardApplies, mayAdopt).
ForeignAssignmentUntouched ==
    [][owner = "other" /\ owner' = "provider" =>
          \A c \in CRs : Writer(c) =>
              \/ NeedsCreate(inst[c])
              \/ \E s \in CRs : name[s] # "empty"]_vars

Live == {c \in CRs : cr[c] = "live"}
Settled ==
    /\ \A c \in CRs : cr[c] # "deleting"
    /\ pending = {}
    /\ [btp EXCEPT !.state = "OK"] = Granted(Required(Live))   \* the last operation may have failed

\* An unnamed resource facing an assignment nobody vouches for: Observe
\* refuses it until a user sets the annotation.
RequiresAdoption(c) == AdoptionGuardApplies(c, FALSE, btp) /\ ~MayAdopt(c)

\* Once users stop, BTP holds exactly what the remaining resources ask for
\* together and no deletion is left hanging, unless no live resource remains
\* (NoOrphanedQuota is about the last deletion), a resource waits for a user
\* to adopt the assignment, or BTP assigned the plan by itself (Observe's drift
\* and deletion paths, Update).
AggregateConverges ==
    <>[](Live = {} \/ Settled \/ btp.auto \/ \E c \in Live : RequiresAdoption(c))
=============================================================================

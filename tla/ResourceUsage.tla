--------------------------- MODULE ResourceUsage ---------------------------
(***************************************************************************)
(* Delete ordering by usage records.  A managed resource ("target") that   *)
(* references another one (its "source") makes the provider write a        *)
(* ResourceUsage record owned by the target (tracking/resourcetracker.go); *)
(* a source refuses to delete its external resource while it lists such    *)
(* records; a reconciler of its own (controller/account/resourceusage)     *)
(* holds a finalizer on every record until the target is gone.             *)
(*                                                                         *)
(* Three informer caches lie between the API server and the code: the      *)
(* records (rucache), the targets' metadata (seen) and the work queue fed  *)
(* by the records' watch.  Every cache may lag, and every handler is split *)
(* where it calls the API server.                                          *)
(*                                                                         *)
(* A target NAME may be reused: the instances under name n have the UIDs   *)
(* 1, 2, ...; life[n] = 2u-1 while instance u exists, 2u once it is gone,  *)
(* 0 before the first.  A cached life is simply an older one.              *)
(***************************************************************************)
EXTENDS Integers, FiniteSets

CONSTANTS
    Sources,      \* referenced managed resources (never recreated here)
    Targets,      \* names of referencing managed resources
    SourceRef,    \* the source each target's spec references
    Ignore,       \* sources and targets with the ignore-references annotation
    MaxUID,       \* bound: instances under one target name
    MaxRestarts   \* bound: restarts of the provider

ASSUME ConstantsAssumption ==
    /\ SourceRef \in [Targets -> Sources]
    /\ MaxUID \in Nat \ {0}
    /\ MaxRestarts \in Nat

UIDs == 1 .. MaxUID
Keys == Targets \X UIDs            \* a record is named <source UID>.<target UID>
SourceOf(k) == SourceRef[k[1]]

VARIABLES
    life, tdel, tfin,     \* API server: the targets (deletionTimestamp, finalizer)
    rus,                  \* API server: the records
    cacheNewest, heldNewest,  \* is the cached, the held record the newest version?
    src,                  \* the sources and their delete handlers
    seen, rucache,        \* informer caches: target metadata, records
    queue,                \* work queue of the record reconciler
    rpc, held, tgt,       \* Reconcile in flight: step, record read, target read
    wpc, wuid, wdel,      \* target reconcile in flight: step, instance, deleting
    restarts,
    guarded               \* history: what protected a source when its deletion was asked

targetVars == <<life, tdel, tfin>>
usageVars  == <<rus, cacheNewest, heldNewest>>
cacheVars  == <<seen, rucache>>
recVars    == <<rpc, held, tgt>>
workVars   == <<wpc, wuid, wdel>>
vars == <<targetVars, usageVars, src, cacheVars, queue, recVars, workVars, restarts, guarded>>

-----------------------------------------------------------------------------
Instance(l, u) == l = 2 * u - 1
Live(n) == \E u \in UIDs : Instance(life[n], u)
Exists(k) == Instance(life[k[1]], k[2])
Gone(k) == life[k[1]] >= 2 * k[2]

Records == [st : {"absent", "live", "deleting"}, fin : BOOLEAN]
Absent == [st |-> "absent", fin |-> FALSE]
Present(r) == r.st # "absent"

\* API-server semantics of a record's writes: a delete waits for the
\* finalizer, and releasing the finalizer of a deleting record removes it.
APIDelete(r) == IF r.fin THEN [r EXCEPT !.st = "deleting"] ELSE Absent
WithFinalizer(r) == [r EXCEPT !.fin = TRUE]
WithoutFinalizer(r) == IF r.st = "deleting" THEN Absent ELSE [r EXCEPT !.fin = FALSE]

\* A write that changes the record gives it a new resourceVersion: no copy of
\* it is the newest any more.
Write(k, r) ==
    /\ rus' = [rus EXCEPT ![k] = r]
    /\ cacheNewest' = [cacheNewest EXCEPT ![k] = @ /\ r = rus[k]]
    /\ heldNewest' = [heldNewest EXCEPT ![k] = @ /\ r = rus[k]]

\* The record is in force: finalizer on, known to the source's lister, its
\* target known to the reconciler's lister, and no reconcile under way that
\* read the targets before this one was known.
Established(k) ==
    /\ Exists(k)
    /\ Present(rus[k]) /\ rus[k].fin
    /\ Present(rucache[k])
    /\ seen[k[1]] = life[k[1]]
    /\ rpc[k] \in {"unfinalize", "delete"} => tgt[k] >= seen[k[1]]

Init ==
    /\ life = [n \in Targets |-> 0]
    /\ tdel = [n \in Targets |-> FALSE]
    /\ tfin = [n \in Targets |-> FALSE]
    /\ rus = [k \in Keys |-> Absent]
    /\ cacheNewest = [k \in Keys |-> TRUE]
    /\ heldNewest = [k \in Keys |-> TRUE]
    /\ src = [s \in Sources |-> "live"]
    /\ seen = life
    /\ rucache = rus
    /\ queue = {}
    /\ rpc = [k \in Keys |-> "idle"]
    /\ held = rus
    /\ tgt = [k \in Keys |-> 0]
    /\ wpc = [n \in Targets |-> "idle"]
    /\ wuid = [n \in Targets |-> 1]
    /\ wdel = [n \in Targets |-> FALSE]
    /\ restarts = 0
    /\ guarded = [s \in Sources |-> {}]

-----------------------------------------------------------------------------
(* Users and the cluster.                                                  *)

UserCreateTarget(n) ==
    /\ ~Live(n) /\ life[n] < 2 * MaxUID
    /\ life' = [life EXCEPT ![n] = @ + 1]
    /\ tdel' = [tdel EXCEPT ![n] = FALSE]
    /\ tfin' = [tfin EXCEPT ![n] = FALSE]
    /\ UNCHANGED <<usageVars, src, cacheVars, queue, recVars, workVars, restarts, guarded>>

UserDeleteTarget(n) ==
    /\ Live(n) /\ ~tdel[n]
    /\ IF tfin[n]
       THEN tdel' = [tdel EXCEPT ![n] = TRUE] /\ UNCHANGED life
       ELSE life' = [life EXCEPT ![n] = @ + 1] /\ UNCHANGED tdel
    /\ UNCHANGED <<tfin, usageVars, src, cacheVars, queue, recVars, workVars, restarts, guarded>>

UserDeleteSource(s) ==
    /\ src[s] = "live"
    /\ src' = [src EXCEPT ![s] = "deleting"]
    /\ guarded' = [guarded EXCEPT ![s] = {k \in Keys : SourceOf(k) = s /\ Established(k)}]
    /\ UNCHANGED <<targetVars, usageVars, cacheVars, queue, recVars, workVars, restarts>>

UserDeleteUsage(k) ==
    /\ rus[k].st = "live"
    /\ Write(k, APIDelete(rus[k]))
    /\ UNCHANGED <<targetVars, src, cacheVars, queue, recVars, workVars, restarts, guarded>>

\* The garbage collector deletes a record whose owner, the target, is gone.
GarbageCollect(k) ==
    /\ rus[k].st = "live" /\ Gone(k)
    /\ Write(k, APIDelete(rus[k]))
    /\ UNCHANGED <<targetVars, src, cacheVars, queue, recVars, workVars, restarts, guarded>>

-----------------------------------------------------------------------------
(* Informers.  DesiredStateChanged passes creations, deletions and changes *)
(* of the generation (the deletion timestamp), not a finalizer's.          *)

DesiredStateChanged(old, new) == old.st # new.st

SyncUsage(k) ==
    /\ ~cacheNewest[k]
    /\ rucache' = [rucache EXCEPT ![k] = rus[k]]
    /\ cacheNewest' = [cacheNewest EXCEPT ![k] = TRUE]
    /\ queue' = IF DesiredStateChanged(rucache[k], rus[k]) THEN queue \cup {k} ELSE queue
    /\ UNCHANGED <<targetVars, rus, heldNewest, src, seen, recVars, workVars, restarts, guarded>>

\* No watch of the targets feeds the queue: their cache only advances.
SyncTarget(n) ==
    /\ seen[n] < life[n]
    /\ seen' = [seen EXCEPT ![n] = @ + 1]
    /\ UNCHANGED <<targetVars, usageVars, src, rucache, queue, recVars, workVars, restarts, guarded>>

-----------------------------------------------------------------------------
(* The target's controller: Connect calls Track, then the managed          *)
(* reconciler goes on to AddFinalizer and Create, or to Delete.            *)

\* createTracking resolves the reference, unless there is nothing to track.
BugSourceMustLive(n) == n \in Ignore \/ src[SourceRef[n]] = "live"
SourceResolves(n) == n \in Ignore \/ src[SourceRef[n]] # "gone"

TargetConnect(n) ==
    /\ wpc[n] = "idle"
    /\ \E u \in UIDs : Instance(life[n], u) /\ wuid' = [wuid EXCEPT ![n] = u]
    /\ SourceResolves(n)
    /\ wdel' = [wdel EXCEPT ![n] = tdel[n]]
    /\ wpc' = [wpc EXCEPT ![n] = IF n \in Ignore THEN "act" ELSE "apply"]
    /\ UNCHANGED <<targetVars, usageVars, src, cacheVars, queue, recVars, restarts, guarded>>

\* Apply: a cached Get, then Create only if that finds nothing; a record that
\* is there differs in nothing, so AllowUpdateIf refuses and the refusal is
\* ignored.  A Create that meets an unseen record fails and the reconcile ends.
TargetApply(n) ==
    LET k == <<n, wuid[n]>>
        create == ~Present(rucache[k]) /\ ~Present(rus[k])
        fails == ~Present(rucache[k]) /\ Present(rus[k])
    IN /\ wpc[n] = "apply"
       /\ Write(k, IF create THEN [st |-> "live", fin |-> FALSE] ELSE rus[k])
       /\ wpc' = [wpc EXCEPT ![n] = IF fails THEN "idle" ELSE "act"]
       /\ UNCHANGED <<targetVars, src, cacheVars, queue, recVars, wuid, wdel, restarts, guarded>>

\* Not deleting: AddFinalizer (a conflict if the target changed since it was
\* read) and Create.  Deleting: Delete and the finalizer's release.
TargetAct(n) ==
    LET same == Instance(life[n], wuid[n]) /\ tdel[n] = wdel[n]
    IN /\ wpc[n] = "act"
       /\ wpc' = [wpc EXCEPT ![n] = "idle"]
       /\ life' = IF same /\ wdel[n] THEN [life EXCEPT ![n] = @ + 1] ELSE life
       /\ tfin' = IF same /\ ~wdel[n] THEN [tfin EXCEPT ![n] = TRUE] ELSE tfin
       /\ UNCHANGED <<tdel, usageVars, src, cacheVars, queue, recVars, wuid, wdel, restarts, guarded>>

-----------------------------------------------------------------------------
(* The source's controller: SetConditions lists the cached records by      *)
(* source UID, DeleteShouldBeBlocked reads the condition, and only then is *)
(* the external resource deleted.                                          *)

BugLiveUsagesOnly(s) ==
    s \notin Ignore /\ \E k \in Keys : SourceOf(k) = s /\ rucache[k].st = "live"

HasUsages(s) == \E k \in Keys : SourceOf(k) = s /\ Present(rucache[k])
DeleteShouldBeBlocked(s) == s \notin Ignore /\ HasUsages(s)

SourceCheck(s) ==
    /\ src[s] = "deleting"
    /\ ~DeleteShouldBeBlocked(s)
    /\ src' = [src EXCEPT ![s] = "extdelete"]
    /\ UNCHANGED <<targetVars, usageVars, cacheVars, queue, recVars, workVars, restarts, guarded>>

SourceExternalDelete(s) ==
    /\ src[s] = "extdelete"
    /\ src' = [src EXCEPT ![s] = "gone"]
    /\ UNCHANGED <<targetVars, usageVars, cacheVars, queue, recVars, workVars, restarts, guarded>>

-----------------------------------------------------------------------------
(* Reconcile of a record.                                                  *)

\* Get from the cache; a record that is not there ends the reconcile.
RUGet(k) ==
    /\ k \in queue /\ rpc[k] = "idle"
    /\ queue' = queue \ {k}
    /\ held' = [held EXCEPT ![k] = rucache[k]]
    /\ heldNewest' = [heldNewest EXCEPT ![k] = cacheNewest[k]]
    /\ rpc' = [rpc EXCEPT ![k] = IF Present(rucache[k]) THEN "resolve" ELSE "idle"]
    /\ UNCHANGED <<targetVars, rus, cacheNewest, src, cacheVars, tgt, workVars, restarts, guarded>>

\* ResolveTarget looks the target up by NAME in the cache.
TargetFound(k) == \E u \in UIDs : Instance(seen[k[1]], u)
BugReplacedByName(k) == held[k].st = "deleting" /\ TargetFound(k)
TargetReplaced(k) == held[k].st = "deleting" /\ TargetFound(k) /\ ~Instance(seen[k[1]], k[2])

BugNeverReleases(k) == IF TargetFound(k) /\ ~held[k].fin THEN "addfinalizer" ELSE "idle"
BugReleasesDeleting(k) ==
    IF ~TargetFound(k) \/ held[k].st = "deleting" THEN "unfinalize" ELSE "addfinalizer"
BugNoSuchStep(k) == IF TargetFound(k) /\ held[k].fin THEN "inuse" ELSE "addfinalizer"
NextStep(k) ==
    CASE ~TargetFound(k) \/ TargetReplaced(k)         -> "unfinalize"
      [] TargetFound(k) /\ held[k].st = "live" /\ ~held[k].fin -> "addfinalizer"
      [] OTHER                                        -> "idle"   \* in use, or nothing to do

RUResolve(k) ==
    /\ rpc[k] = "resolve"
    /\ tgt' = [tgt EXCEPT ![k] = seen[k[1]]]
    /\ rpc' = [rpc EXCEPT ![k] = NextStep(k)]
    /\ UNCHANGED <<targetVars, usageVars, src, cacheVars, queue, held, workVars, restarts, guarded>>

\* Update of the record that was read: gone is terminal, a conflict requeues.
Conflict(k) == Present(rus[k]) /\ ~heldNewest[k]
Requeued(k) == IF Conflict(k) THEN queue \cup {k} ELSE queue
Updates(k) == Present(rus[k]) /\ ~Conflict(k)

RUUnfinalize(k) ==
    /\ rpc[k] = "unfinalize"
    /\ Write(k, IF Updates(k) THEN WithoutFinalizer(rus[k]) ELSE rus[k])
    /\ queue' = Requeued(k)
    /\ rpc' = [rpc EXCEPT ![k] = IF Updates(k) THEN "delete" ELSE "idle"]
    /\ UNCHANGED <<targetVars, src, cacheVars, held, tgt, workVars, restarts, guarded>>

\* Delete goes by name, with no precondition on what was read.
RUDelete(k) ==
    /\ rpc[k] = "delete"
    /\ Write(k, APIDelete(rus[k]))
    /\ rpc' = [rpc EXCEPT ![k] = "idle"]
    /\ UNCHANGED <<targetVars, src, cacheVars, queue, held, tgt, workVars, restarts, guarded>>

RUAddFinalizer(k) ==
    /\ rpc[k] = "addfinalizer"
    /\ Write(k, IF Updates(k) THEN WithFinalizer(rus[k]) ELSE rus[k])
    /\ queue' = Requeued(k)
    /\ rpc' = [rpc EXCEPT ![k] = "idle"]
    /\ UNCHANGED <<targetVars, src, cacheVars, held, tgt, workVars, restarts, guarded>>

\* A restart drops what is in flight, refills the caches and lists every record.
Restart ==
    /\ restarts < MaxRestarts
    /\ restarts' = restarts + 1
    /\ seen' = life
    /\ rucache' = rus
    /\ cacheNewest' = [k \in Keys |-> TRUE]
    /\ queue' = {k \in Keys : Present(rus[k])}
    /\ rpc' = [k \in Keys |-> "idle"]
    /\ wpc' = [n \in Targets |-> "idle"]
    /\ src' = [s \in Sources |-> IF src[s] = "extdelete" THEN "deleting" ELSE src[s]]
    /\ UNCHANGED <<targetVars, rus, heldNewest, held, tgt, wuid, wdel, guarded>>

-----------------------------------------------------------------------------
\* A controller's steps follow one another within a reconcile.
TargetReconcile(n) == TargetConnect(n) \/ TargetApply(n) \/ TargetAct(n)
SourceReconcile(s) == SourceCheck(s) \/ SourceExternalDelete(s)
RUReconcile(k) ==
    RUGet(k) \/ RUResolve(k) \/ RUUnfinalize(k) \/ RUDelete(k) \/ RUAddFinalizer(k)

Next ==
    \/ \E n \in Targets :
          \/ UserCreateTarget(n) \/ UserDeleteTarget(n)
          \/ SyncTarget(n)
          \/ TargetReconcile(n)
    \/ \E s \in Sources : UserDeleteSource(s) \/ SourceReconcile(s)
    \/ \E k \in Keys :
          \/ UserDeleteUsage(k) \/ GarbageCollect(k) \/ SyncUsage(k)
          \/ RUReconcile(k)
    \/ Restart

Spec == Init /\ [][Next]_vars

\* Watches deliver, the work queue and the retries of every controller run,
\* the garbage collector runs.  Users and restarts owe nothing.
Fairness ==
    /\ \A n \in Targets : WF_vars(SyncTarget(n)) /\ WF_vars(TargetReconcile(n))
    /\ \A s \in Sources : WF_vars(SourceReconcile(s))
    /\ \A k \in Keys :
          WF_vars(GarbageCollect(k)) /\ WF_vars(SyncUsage(k)) /\ WF_vars(RUReconcile(k))

FairSpec == Spec /\ Fairness

-----------------------------------------------------------------------------
\* Every variable keeps its shape through every reconcile, sync and restart.
TypeOK ==
    /\ life \in [Targets -> Nat]
    /\ tdel \in [Targets -> BOOLEAN]
    /\ tfin \in [Targets -> BOOLEAN]
    /\ rus \in [Keys -> Records]
    /\ cacheNewest \in [Keys -> BOOLEAN]
    /\ heldNewest \in [Keys -> BOOLEAN]
    /\ src \in [Sources -> {"live", "deleting", "extdelete", "gone"}]
    /\ seen \in [Targets -> Nat]
    /\ rucache \in [Keys -> Records]
    /\ queue \subseteq Keys
    /\ rpc \in [Keys -> {"idle", "resolve", "unfinalize", "delete", "addfinalizer"}]
    /\ held \in [Keys -> Records]
    /\ tgt \in [Keys -> Nat]
    /\ wpc \in [Targets -> {"idle", "apply", "act"}]
    /\ wuid \in [Targets -> UIDs]
    /\ wdel \in [Targets -> BOOLEAN]
    /\ restarts \in Nat
    /\ guarded \in [Sources -> SUBSET Keys]

\* A finalizer on a record is only ever released for a target that is gone,
\* unless the reconcile that releases it read the targets before this one had
\* reached the cache (Reconcile's NotFound and targetReplaced branches).
FinalizerOutlivesTarget ==
    [][\A k \in Keys :
          (Present(rus[k]) /\ rus[k].fin /\ ~(Present(rus'[k]) /\ rus'[k].fin))
             => Gone(k) \/ tgt[k] < 2 * k[2] - 1]_vars

\* A record in force stays in force until its target is gone, whatever users,
\* the garbage collector, restarts and reconciles in flight do to it
\* (DeleteShouldBeBlocked relies on it from one reconcile to the next).
ProtectionIsStable ==
    [][\A k \in Keys : Established(k) => Established(k)' \/ Gone(k)']_vars

\* A source never passes its delete check while a target lives whose record
\* was in force when the source's deletion was asked for
\* (SetConditions and DeleteShouldBeBlocked in the source's Delete).
EstablishedUsageProtects ==
    \A s \in Sources \ Ignore :
        src[s] \in {"extdelete", "gone"} => \A k \in guarded[s] : Gone(k)

\* A deleting record that no event, requeue or reconcile will touch again: the
\* last reconcile of it still saw the target.
Stalled(k) ==
    /\ rus[k].st = "deleting" /\ cacheNewest[k]
    /\ k \notin queue /\ rpc[k] = "idle"
    /\ Instance(tgt[k], k[2])

\* The record of a target that is gone is removed, or left to stall by a
\* reconcile that saw it deleting while the target was still in the cache, which
\* the code takes to be impossible: "We're watching our usages, so we'll be
\* requeued when they go".
UsageReleasedOrStalled ==
    \A k \in Keys : Gone(k) ~> (~Present(rus[k]) \/ Stalled(k))

\* A target that is deleted goes away, unless its source went first (Track
\* then fails in Connect for want of the source).
TargetDeletionCompletes ==
    \A n \in Targets :
        tdel[n] /\ Live(n) ~> (~Live(n) \/ src[SourceRef[n]] = "gone")
=============================================================================

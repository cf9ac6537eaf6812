------------------------ MODULE ResourceUsage_proofs ------------------------
(***************************************************************************)
(* What ResourceUsage checks on small instances, proved for every set of   *)
(* sources, targets and reuses of a name, any number of restarts and any   *)
(* lag of the caches.                                                      *)
(***************************************************************************)
EXTENDS ResourceUsage, TLAPS

\* A cached target is never newer than the real one, a target that was read
\* never newer than the cached one, and a reconcile about to release a
\* finalizer did not read the instance the record belongs to.
ReadsLag ==
    /\ \A n \in Targets : seen[n] <= life[n]
    /\ \A k \in Keys : tgt[k] <= seen[k[1]]
    /\ \A k \in Keys : rpc[k] \in {"unfinalize", "delete"} => tgt[k] # 2 * k[2] - 1

\* What guarded a source is its own records, each in force until its target
\* is gone.
GuardsHold ==
    \A s \in Sources : \A k \in guarded[s] :
        SourceOf(k) = s /\ (Established(k) \/ Gone(k))

IInv == TypeOK /\ ReadsLag /\ GuardsHold /\ EstablishedUsageProtects

\* The parts of a key.
LEMMA KeyParts == \A k \in Keys : k[1] \in Targets /\ k[2] \in UIDs /\ k[2] \in Nat /\ k[2] > 0
  BY ConstantsAssumption DEF Keys, UIDs

\* Every write of a record leaves a record.
LEMMA WritesKeepType ==
    \A r \in Records : /\ APIDelete(r) \in Records
                       /\ WithFinalizer(r) \in Records
                       /\ WithoutFinalizer(r) \in Records
  BY DEF Records, APIDelete, WithFinalizer, WithoutFinalizer, Absent

\* The initial state satisfies the inductive invariant.
LEMMA InitIInv == Init => IInv
<1> SUFFICES ASSUME Init PROVE IInv
  OBVIOUS
<1> USE ConstantsAssumption DEF Init
<1>1. TypeOK
  BY DEF TypeOK, Records, Absent, UIDs
<1>2. ReadsLag
  BY KeyParts DEF ReadsLag
<1>3. GuardsHold /\ EstablishedUsageProtects
  BY DEF GuardsHold, EstablishedUsageProtects
<1> QED
  BY <1>1, <1>2, <1>3 DEF IInv

\* The types are preserved by every step.
LEMMA NextType == TypeOK /\ [Next]_vars => TypeOK'
<1> SUFFICES ASSUME TypeOK, [Next]_vars PROVE TypeOK'
  OBVIOUS
<1> USE ConstantsAssumption, WritesKeepType DEF TypeOK
<1>1. ASSUME NEW n \in Targets, UserCreateTarget(n) PROVE TypeOK'
  BY <1>1 DEF UserCreateTarget, usageVars, cacheVars, recVars, workVars
<1>2. ASSUME NEW n \in Targets, UserDeleteTarget(n) PROVE TypeOK'
  <2>1. life' \in [Targets -> Nat] /\ tdel' \in [Targets -> BOOLEAN]
    <3>1. CASE tfin[n]
      BY <1>2, <3>1 DEF UserDeleteTarget
    <3>2. CASE ~tfin[n]
      BY <1>2, <3>2 DEF UserDeleteTarget
    <3> QED
      BY <3>1, <3>2
  <2> QED
    BY <1>2, <2>1 DEF UserDeleteTarget, usageVars, cacheVars, recVars, workVars
<1>3. ASSUME NEW n \in Targets, SyncTarget(n) PROVE TypeOK'
  BY <1>3 DEF SyncTarget, usageVars, targetVars, recVars, workVars
<1>4. ASSUME NEW n \in Targets, TargetConnect(n) PROVE TypeOK'
  BY <1>4 DEF TargetConnect, usageVars, targetVars, recVars, cacheVars
<1>5. ASSUME NEW n \in Targets, TargetApply(n) PROVE TypeOK'
  <2>1. <<n, wuid[n]>> \in Keys
    BY DEF Keys
  <2> QED
    BY <1>5, <2>1 DEF TargetApply, Write, Records, targetVars, recVars, cacheVars
<1>6. ASSUME NEW n \in Targets, TargetAct(n) PROVE TypeOK'
  BY <1>6 DEF TargetAct, usageVars, targetVars, recVars, cacheVars
<1>7. ASSUME NEW s \in Sources, UserDeleteSource(s) PROVE TypeOK'
  BY <1>7 DEF UserDeleteSource, usageVars, targetVars, recVars, cacheVars, workVars
<1>8. ASSUME NEW s \in Sources, SourceCheck(s) PROVE TypeOK'
  BY <1>8 DEF SourceCheck, usageVars, targetVars, recVars, cacheVars, workVars
<1>9. ASSUME NEW s \in Sources, SourceExternalDelete(s) PROVE TypeOK'
  BY <1>9 DEF SourceExternalDelete, usageVars, targetVars, recVars, cacheVars, workVars
<1>10. ASSUME NEW k \in Keys, UserDeleteUsage(k) PROVE TypeOK'
  BY <1>10 DEF UserDeleteUsage, Write, targetVars, recVars, cacheVars, workVars
<1>11. ASSUME NEW k \in Keys, GarbageCollect(k) PROVE TypeOK'
  BY <1>11 DEF GarbageCollect, Write, targetVars, recVars, cacheVars, workVars
<1>12. ASSUME NEW k \in Keys, SyncUsage(k) PROVE TypeOK'
  BY <1>12 DEF SyncUsage, targetVars, recVars, workVars
<1>13. ASSUME NEW k \in Keys, RUGet(k) PROVE TypeOK'
  BY <1>13 DEF RUGet, targetVars, cacheVars, workVars
<1>14. ASSUME NEW k \in Keys, RUResolve(k) PROVE TypeOK'
  <2>1. NextStep(k) \in {"idle", "unfinalize", "addfinalizer"}
    BY DEF NextStep
  <2>2. tgt' \in [Keys -> Nat] /\ rpc' \in [Keys -> {"idle", "resolve", "unfinalize", "delete", "addfinalizer"}]
    BY <1>14, <2>1, KeyParts DEF RUResolve
  <2> QED
    BY <1>14, <2>2 DEF RUResolve, targetVars, usageVars, cacheVars, workVars
<1>15. ASSUME NEW k \in Keys, RUUnfinalize(k) PROVE TypeOK'
  BY <1>15 DEF RUUnfinalize, Requeued, Write, targetVars, cacheVars, workVars
<1>16. ASSUME NEW k \in Keys, RUDelete(k) PROVE TypeOK'
  BY <1>16 DEF RUDelete, Write, targetVars, cacheVars, workVars
<1>17. ASSUME NEW k \in Keys, RUAddFinalizer(k) PROVE TypeOK'
  BY <1>17 DEF RUAddFinalizer, Requeued, Write, targetVars, cacheVars, workVars
<1>18. CASE Restart
  BY <1>18 DEF Restart, targetVars
<1>19. CASE UNCHANGED vars
  BY <1>19 DEF vars, targetVars, usageVars, cacheVars, recVars, workVars
<1> QED
  BY <1>1, <1>2, <1>3, <1>4, <1>5, <1>6, <1>7, <1>8, <1>9, <1>10, <1>11, <1>12,
     <1>13, <1>14, <1>15, <1>16, <1>17, <1>18, <1>19 DEF Next, TargetReconcile, SourceReconcile, RUReconcile

\* The lag facts are preserved: the caches only move forward, and a reconcile
\* turns to release a finalizer only on a read that was not its own target.
LEMMA NextReadsLag == TypeOK /\ ReadsLag /\ [Next]_vars => ReadsLag'
<1> SUFFICES ASSUME TypeOK, ReadsLag, [Next]_vars PROVE ReadsLag'
  OBVIOUS
<1> USE ConstantsAssumption, KeyParts DEF ReadsLag
<1>1. CASE \E n \in Targets : UserCreateTarget(n) \/ UserDeleteTarget(n) \/ TargetAct(n)
  <2>1. \A n \in Targets : life'[n] >= life[n] /\ life'[n] \in Nat
    BY <1>1 DEF TypeOK, UserCreateTarget, UserDeleteTarget, TargetAct
  <2>2. UNCHANGED <<seen, tgt, rpc>>
    BY <1>1 DEF UserCreateTarget, UserDeleteTarget, TargetAct, cacheVars, recVars
  <2> QED
    BY <2>1, <2>2 DEF TypeOK
<1>2. ASSUME NEW n \in Targets, SyncTarget(n) PROVE ReadsLag'
  BY <1>2 DEF SyncTarget, TypeOK, targetVars, recVars
<1>3. ASSUME NEW k \in Keys, RUGet(k) PROVE ReadsLag'
  BY <1>3 DEF RUGet, TypeOK, targetVars, cacheVars
<1>4. ASSUME NEW k \in Keys, RUResolve(k) PROVE ReadsLag'
  <2>1. NextStep(k) = "unfinalize" => seen[k[1]] # 2 * k[2] - 1
    <3> SUFFICES ASSUME seen[k[1]] = 2 * k[2] - 1 PROVE NextStep(k) # "unfinalize"
      OBVIOUS
    <3>1. TargetFound(k) /\ ~TargetReplaced(k)
      BY DEF TargetFound, TargetReplaced, Instance, Keys
    <3> QED
      BY <3>1 DEF NextStep
  <2>2. NextStep(k) # "delete"
    BY DEF NextStep
  <2>3. /\ life' = life /\ seen' = seen
        /\ tgt' = [tgt EXCEPT ![k] = seen[k[1]]]
        /\ rpc' = [rpc EXCEPT ![k] = NextStep(k)]
    BY <1>4 DEF RUResolve, targetVars, cacheVars
  <2> QED
    BY <2>1, <2>2, <2>3 DEF TypeOK
<1>5. ASSUME NEW k \in Keys, RUUnfinalize(k) \/ RUDelete(k) \/ RUAddFinalizer(k) PROVE ReadsLag'
  BY <1>5 DEF RUUnfinalize, RUDelete, RUAddFinalizer, TypeOK, targetVars, cacheVars
<1>6. CASE Restart
  BY <1>6 DEF Restart, TypeOK, targetVars
<1>7. ASSUME UNCHANGED <<life, seen, tgt, rpc>> PROVE ReadsLag'
  BY <1>7
<1> QED
  BY <1>1, <1>2, <1>3, <1>4, <1>5, <1>6, <1>7
     DEF Next, TargetReconcile, SourceReconcile, RUReconcile, TargetConnect, TargetApply, UserDeleteSource, SourceCheck, SourceExternalDelete,
         UserDeleteUsage, GarbageCollect, SyncUsage, vars, targetVars, cacheVars, recVars

\* Of all steps only the release of the finalizer takes one off a record, and
\* it does so for its own record.
LEMMA OnlyUnfinalizeReleases ==
    ASSUME TypeOK, [Next]_vars, NEW k \in Keys,
           Present(rus[k]), rus[k].fin, ~(Present(rus'[k]) /\ rus'[k].fin)
    PROVE  RUUnfinalize(k)
<1> USE ConstantsAssumption DEF TypeOK, Records
<1>1. ASSUME NEW j \in Keys, UserDeleteUsage(j) \/ GarbageCollect(j) \/ RUDelete(j) PROVE FALSE
  <2>1. rus' = [rus EXCEPT ![j] = APIDelete(rus[j])]
    BY <1>1 DEF UserDeleteUsage, GarbageCollect, RUDelete, Write
  <2>2. rus[k].fin => APIDelete(rus[k]).fin /\ Present(APIDelete(rus[k]))
    BY DEF APIDelete, Present
  <2> QED
    BY <2>1, <2>2
<1>2. ASSUME NEW j \in Keys, RUAddFinalizer(j) PROVE FALSE
  BY <1>2 DEF RUAddFinalizer, Write, WithFinalizer, Present
<1>3. ASSUME NEW j \in Keys, RUUnfinalize(j), j # k PROVE FALSE
  <2>1. rus' = [rus EXCEPT ![j] = rus'[j]]
    BY <1>3 DEF RUUnfinalize, Write
  <2> QED
    BY <1>3, <2>1
<1>4. ASSUME NEW n \in Targets, TargetApply(n) PROVE FALSE
  <2>1. <<n, wuid[n]>> \in Keys
    BY DEF Keys
  <2> QED
    BY <1>4, <2>1 DEF TargetApply, Write, Present
<1>5. CASE UNCHANGED rus
  BY <1>5
<1> QED
  BY <1>1, <1>2, <1>3, <1>4, <1>5
     DEF Next, TargetReconcile, SourceReconcile, RUReconcile, UserCreateTarget, UserDeleteTarget, SyncTarget, TargetConnect, TargetAct,
         UserDeleteSource, SourceCheck, SourceExternalDelete, SyncUsage, RUGet, RUResolve,
         Restart, vars, targetVars, usageVars

\* A step of the record's life under its finalizer: the finalizer goes only
\* for a target that is gone or that the reconcile could not yet see.
LEMMA StepKeepsFinalizer ==
    ASSUME TypeOK, ReadsLag, [Next]_vars, NEW k \in Keys,
           Present(rus[k]), rus[k].fin, ~(Present(rus'[k]) /\ rus'[k].fin)
    PROVE  rpc[k] = "unfinalize" /\ (Gone(k) \/ tgt[k] < 2 * k[2] - 1)
<1>1. rpc[k] = "unfinalize"
  BY OnlyUnfinalizeReleases DEF RUUnfinalize
<1>2. tgt[k] # 2 * k[2] - 1 /\ tgt[k] <= life[k[1]]
  BY <1>1, KeyParts DEF ReadsLag, TypeOK
<1>3. tgt[k] \in Nat /\ life[k[1]] \in Nat /\ k[2] \in Nat
  BY KeyParts DEF TypeOK
<1> QED
  BY <1>1, <1>2, <1>3 DEF Gone

\* No reconcile in flight can release a record in force.
LEMMA EstablishedIsSafe ==
    ASSUME TypeOK, ReadsLag, NEW k \in Keys, Established(k)
    PROVE  rpc[k] \notin {"unfinalize", "delete"}
<1>1. life[k[1]] = 2 * k[2] - 1 /\ seen[k[1]] = life[k[1]]
  BY DEF Established, Exists, Instance
<1>2. tgt[k] <= seen[k[1]] /\ (rpc[k] \in {"unfinalize", "delete"} => tgt[k] # 2 * k[2] - 1)
  BY DEF ReadsLag
<1>3. rpc[k] \in {"unfinalize", "delete"} => tgt[k] >= seen[k[1]]
  BY DEF Established
<1>4. tgt[k] \in Nat /\ seen[k[1]] \in Nat /\ k[2] \in Nat
  BY KeyParts DEF TypeOK
<1> QED
  BY <1>1, <1>2, <1>3, <1>4

\* A target's life never goes back.
LEMMA LifeGrows ==
    ASSUME TypeOK, [Next]_vars, NEW n \in Targets
    PROVE  life'[n] \in Nat /\ (life'[n] = life[n] \/ life'[n] = life[n] + 1)
<1> USE DEF TypeOK
<1>1. ASSUME NEW m \in Targets, UserCreateTarget(m) \/ UserDeleteTarget(m) \/ TargetAct(m)
      PROVE  life' = life \/ life' = [life EXCEPT ![m] = @ + 1]
  <2>1. CASE UserCreateTarget(m)
    BY <2>1 DEF UserCreateTarget
  <2>2. CASE UserDeleteTarget(m)
    <3>1. CASE tfin[m]
      BY <2>2, <3>1 DEF UserDeleteTarget
    <3>2. CASE ~tfin[m]
      BY <2>2, <3>2 DEF UserDeleteTarget
    <3> QED
      BY <3>1, <3>2
  <2>3. CASE TargetAct(m)
    BY <2>3 DEF TargetAct
  <2> QED
    BY <1>1, <2>1, <2>2, <2>3
<1>2. CASE \E m \in Targets : UserCreateTarget(m) \/ UserDeleteTarget(m) \/ TargetAct(m)
  <2>1. PICK m \in Targets : life' = life \/ life' = [life EXCEPT ![m] = @ + 1]
    BY <1>1, <1>2
  <2> QED
    BY <2>1
<1>3. CASE ~\E m \in Targets : UserCreateTarget(m) \/ UserDeleteTarget(m) \/ TargetAct(m)
  <2>1. UNCHANGED life
    BY <1>3
     DEF Next, TargetReconcile, SourceReconcile, RUReconcile, SyncTarget, TargetConnect, TargetApply, UserDeleteSource, SourceCheck,
         SourceExternalDelete, UserDeleteUsage, GarbageCollect, SyncUsage, RUGet, RUResolve,
         RUUnfinalize, RUDelete, RUAddFinalizer, Restart, vars, targetVars
  <2> QED
    BY <2>1
<1> QED
  BY <1>2, <1>3

\* A target that is gone stays gone.
LEMMA GoneStays ==
    ASSUME TypeOK, [Next]_vars, NEW k \in Keys, Gone(k)
    PROVE  Gone(k)'
<1>1. k[1] \in Targets /\ k[2] \in Nat /\ life[k[1]] \in Nat
  BY KeyParts DEF TypeOK
<1>2. life'[k[1]] \in Nat /\ (life'[k[1]] = life[k[1]] \/ life'[k[1]] = life[k[1]] + 1)
  BY <1>1, LifeGrows
<1> QED
  BY <1>1, <1>2 DEF Gone

\* The source's cache keeps showing a record that is there and stays there.
LEMMA CacheKeeps ==
    ASSUME TypeOK, [Next]_vars, NEW k \in Keys, Present(rus[k]), Present(rucache[k])
    PROVE  Present(rucache'[k])
<1> USE DEF TypeOK
<1>1. ASSUME NEW j \in Keys, SyncUsage(j) PROVE Present(rucache'[k])
  BY <1>1 DEF SyncUsage
<1>2. CASE Restart
  BY <1>2 DEF Restart
<1>3. CASE UNCHANGED rucache
  BY <1>3
<1> QED
  BY <1>1, <1>2, <1>3
     DEF Next, TargetReconcile, SourceReconcile, RUReconcile, UserCreateTarget, UserDeleteTarget, SyncTarget, TargetConnect, TargetApply,
         TargetAct, UserDeleteSource, SourceCheck, SourceExternalDelete, UserDeleteUsage,
         GarbageCollect, RUGet, RUResolve, RUUnfinalize, RUDelete, RUAddFinalizer, vars, cacheVars

\* The target's cache entry cannot move past a target that exists.
LEMMA SeenKeeps ==
    ASSUME TypeOK, [Next]_vars, NEW n \in Targets, seen[n] = life[n], life'[n] = life[n]
    PROVE  seen'[n] = life'[n]
<1> USE DEF TypeOK
<1>1. ASSUME NEW m \in Targets, SyncTarget(m) PROVE seen'[n] = life'[n]
  BY <1>1 DEF SyncTarget, targetVars
<1>2. CASE Restart
  BY <1>2 DEF Restart, targetVars
<1>3. CASE UNCHANGED seen
  BY <1>3
<1> QED
  BY <1>1, <1>2, <1>3
     DEF Next, TargetReconcile, SourceReconcile, RUReconcile, UserCreateTarget, UserDeleteTarget, TargetConnect, TargetApply,
         TargetAct, UserDeleteSource, SourceCheck, SourceExternalDelete, UserDeleteUsage,
         GarbageCollect, SyncUsage, RUGet, RUResolve, RUUnfinalize, RUDelete, RUAddFinalizer,
         vars, cacheVars

\* While the target read is current and the record is in force, no reconcile
\* turns to release it.
LEMMA RpcKeeps ==
    ASSUME TypeOK, ReadsLag, [Next]_vars, NEW k \in Keys, Established(k)
    PROVE  rpc'[k] \notin {"unfinalize", "delete"}
<1> USE DEF TypeOK
<1>1. rpc[k] \notin {"unfinalize", "delete"}
  BY EstablishedIsSafe
<1>2. ASSUME NEW j \in Keys, RUGet(j) PROVE rpc'[k] \notin {"unfinalize", "delete"}
  BY <1>1, <1>2 DEF RUGet
<1>3. ASSUME NEW j \in Keys, RUResolve(j) PROVE rpc'[k] \notin {"unfinalize", "delete"}
  <2>1. rpc' = [rpc EXCEPT ![j] = NextStep(j)]
    BY <1>3 DEF RUResolve
  <2>2. CASE j = k
    <3>1. Instance(seen[k[1]], k[2])
      BY DEF Established, Exists
    <3>2. TargetFound(k) /\ ~TargetReplaced(k)
      BY <3>1, KeyParts DEF TargetFound, TargetReplaced
    <3>3. NextStep(k) \notin {"unfinalize", "delete"}
      BY <3>2 DEF NextStep
    <3> QED
      BY <2>1, <2>2, <3>3
  <2>3. CASE j # k
    BY <1>1, <2>1, <2>3
  <2> QED
    BY <2>2, <2>3
<1>4. ASSUME NEW j \in Keys, RUUnfinalize(j) PROVE rpc'[k] \notin {"unfinalize", "delete"}
  <2>1. j # k
    BY <1>1, <1>4 DEF RUUnfinalize
  <2> QED
    BY <1>1, <1>4, <2>1 DEF RUUnfinalize
<1>5. ASSUME NEW j \in Keys, RUDelete(j) \/ RUAddFinalizer(j) PROVE rpc'[k] \notin {"unfinalize", "delete"}
  BY <1>1, <1>5 DEF RUDelete, RUAddFinalizer
<1>6. CASE Restart
  BY <1>6 DEF Restart
<1>7. CASE UNCHANGED rpc
  BY <1>1, <1>7
<1> QED
  BY <1>2, <1>3, <1>4, <1>5, <1>6, <1>7
     DEF Next, TargetReconcile, SourceReconcile, RUReconcile, UserCreateTarget, UserDeleteTarget, SyncTarget, TargetConnect, TargetApply,
         TargetAct, UserDeleteSource, SourceCheck, SourceExternalDelete, UserDeleteUsage,
         GarbageCollect, SyncUsage, vars, recVars

\* The step of ProtectionIsStable.
LEMMA EstablishedStays ==
    ASSUME TypeOK, ReadsLag, [Next]_vars, NEW k \in Keys, Established(k)
    PROVE  Established(k)' \/ Gone(k)'
<1>1. life[k[1]] = 2 * k[2] - 1 /\ seen[k[1]] = life[k[1]]
      /\ Present(rus[k]) /\ rus[k].fin /\ Present(rucache[k])
  BY DEF Established, Exists, Instance
<1>2. k[1] \in Targets /\ k[2] \in Nat /\ life[k[1]] \in Nat
  BY KeyParts DEF TypeOK
<1>3. CASE life'[k[1]] = life[k[1]] + 1
  BY <1>1, <1>2, <1>3 DEF Gone
<1>4. CASE life'[k[1]] = life[k[1]]
  <2>1. Exists(k)'
    BY <1>1, <1>4 DEF Exists, Instance
  <2>2. seen'[k[1]] = life'[k[1]]
    BY <1>1, <1>2, <1>4, SeenKeeps
  <2>3. Present(rus'[k]) /\ rus'[k].fin
    <3>1. rpc[k] # "unfinalize"
      BY EstablishedIsSafe
    <3> QED
      BY <1>1, <3>1, StepKeepsFinalizer
  <2>4. Present(rucache'[k])
    BY <1>1, CacheKeeps
  <2>5. rpc'[k] \notin {"unfinalize", "delete"}
    BY RpcKeeps
  <2> QED
    BY <2>1, <2>2, <2>3, <2>4, <2>5 DEF Established
<1> QED
  BY <1>2, <1>3, <1>4, LifeGrows

\* What guards a source goes on guarding it, or its target is gone.
LEMMA NextGuards == TypeOK /\ ReadsLag /\ GuardsHold /\ [Next]_vars => GuardsHold'
<1> SUFFICES ASSUME TypeOK, ReadsLag, GuardsHold, [Next]_vars,
                    NEW s \in Sources, NEW k \in guarded'[s]
             PROVE  SourceOf(k) = s /\ (Established(k)' \/ Gone(k)')
  BY DEF GuardsHold
<1>1. CASE k \in guarded[s]
  <2>1. k \in Keys /\ SourceOf(k) = s /\ (Established(k) \/ Gone(k))
    BY <1>1 DEF GuardsHold, TypeOK
  <2> QED
    BY <2>1, EstablishedStays, GoneStays
<1>2. CASE k \notin guarded[s]
  <2>1. guarded' # guarded
    BY <1>2
  <2>2. PICK r \in Sources : UserDeleteSource(r)
    BY <2>1 DEF Next, TargetReconcile, SourceReconcile, RUReconcile, UserCreateTarget, UserDeleteTarget, SyncTarget, TargetConnect, TargetApply,
         TargetAct, SourceCheck, SourceExternalDelete, UserDeleteUsage, GarbageCollect, SyncUsage,
         RUGet, RUResolve, RUUnfinalize, RUDelete, RUAddFinalizer, Restart, vars
  <2>3. k \in Keys /\ SourceOf(k) = s /\ Established(k)
    BY <1>2, <2>2 DEF UserDeleteSource, TypeOK
  <2> QED
    BY <2>3, EstablishedStays
<1> QED
  BY <1>1, <1>2

\* The inductive step of EstablishedUsageProtects.
LEMMA NextProtects ==
    TypeOK /\ GuardsHold /\ EstablishedUsageProtects /\ [Next]_vars => EstablishedUsageProtects'
<1> SUFFICES ASSUME TypeOK, GuardsHold, EstablishedUsageProtects, [Next]_vars,
                    NEW s \in Sources \ Ignore, src'[s] \in {"extdelete", "gone"},
                    NEW k \in guarded'[s]
             PROVE  Gone(k)'
  BY DEF EstablishedUsageProtects
<1> USE DEF TypeOK
<1>1. CASE \E r \in Sources : UserDeleteSource(r)
  <2>1. PICK r \in Sources : UserDeleteSource(r)
    BY <1>1
  <2>2. r # s /\ src'[s] = src[s] /\ guarded'[s] = guarded[s]
    BY <2>1 DEF UserDeleteSource
  <2>3. Gone(k) /\ k \in Keys
    BY <2>2 DEF EstablishedUsageProtects
  <2> QED
    BY <2>3, GoneStays
<1>2. CASE ~\E r \in Sources : UserDeleteSource(r)
  <2>1. guarded' = guarded /\ k \in Keys
    BY <1>2 DEF Next, TargetReconcile, SourceReconcile, RUReconcile, UserCreateTarget, UserDeleteTarget, SyncTarget, TargetConnect, TargetApply,
         TargetAct, SourceCheck, SourceExternalDelete, UserDeleteUsage, GarbageCollect, SyncUsage,
         RUGet, RUResolve, RUUnfinalize, RUDelete, RUAddFinalizer, Restart, vars
  <2>2. CASE src[s] \in {"extdelete", "gone"}
    BY <2>1, <2>2, GoneStays DEF EstablishedUsageProtects
  <2>3. CASE src[s] \notin {"extdelete", "gone"}
    <3>1. SourceCheck(s)
      BY <1>2, <2>3 DEF Next, TargetReconcile, SourceReconcile, RUReconcile, UserCreateTarget, UserDeleteTarget, SyncTarget, TargetConnect,
           TargetApply, TargetAct, SourceCheck, SourceExternalDelete, UserDeleteUsage,
           GarbageCollect, SyncUsage, RUGet, RUResolve, RUUnfinalize, RUDelete, RUAddFinalizer,
           Restart, vars
    <3>2. ~Present(rucache[k])
      BY <2>1, <3>1 DEF SourceCheck, DeleteShouldBeBlocked, HasUsages, GuardsHold
    <3>3. Gone(k)
      BY <2>1, <3>2 DEF GuardsHold, Established
    <3> QED
      BY <2>1, <3>3, GoneStays
  <2> QED
    BY <2>2, <2>3
<1> QED
  BY <1>1, <1>2

\* The invariant is inductive.
LEMMA NextIInv == IInv /\ [Next]_vars => IInv'
  BY NextType, NextReadsLag, NextGuards, NextProtects DEF IInv

\* The inductive invariant holds in every reachable state.
THEOREM Invariance == Spec => []IInv
  BY InitIInv, NextIInv, PTL DEF Spec

\* Every variable keeps its type (TypeOK).
THEOREM TypeCorrect == Spec => []TypeOK
<1>1. IInv => TypeOK
  BY DEF IInv
<1> QED
  BY <1>1, Invariance, PTL

\* A source never passes its delete check while a target lives whose record
\* was in force when the deletion was asked for.
THEOREM SourcesAreProtected == Spec => []EstablishedUsageProtects
<1>1. IInv => EstablishedUsageProtects
  BY DEF IInv
<1> QED
  BY <1>1, Invariance, PTL

\* A record in force stays in force until its target is gone.
THEOREM ProtectionStays == Spec => ProtectionIsStable
<1>1. IInv /\ [Next]_vars
        => [\A k \in Keys : Established(k) => Established(k)' \/ Gone(k)']_vars
  BY EstablishedStays DEF IInv
<1> QED
  BY <1>1, Invariance, PTL DEF Spec, ProtectionIsStable

\* A finalizer is released only for a target that is gone or was not yet in
\* the cache of the reconcile that releases it.
THEOREM FinalizersHold == Spec => FinalizerOutlivesTarget
<1>1. IInv /\ [Next]_vars
        => [\A k \in Keys :
               (Present(rus[k]) /\ rus[k].fin /\ ~(Present(rus'[k]) /\ rus'[k].fin))
                  => Gone(k) \/ tgt[k] < 2 * k[2] - 1]_vars
  BY StepKeepsFinalizer DEF IInv
<1> QED
  BY <1>1, Invariance, PTL DEF Spec, FinalizerOutlivesTarget
=============================================================================

------------------------- MODULE Entitlement_proofs -------------------------
(***************************************************************************)
(* Entitlement resources of one key, proved for any finite set of them,    *)
(* any amounts, either kind of plan and any number of crashes, failed      *)
(* requests and foreign assignments.                                       *)
(*                                                                         *)
(* First what the sum of amounts is: Total is a fold over a set, and what  *)
(* it yields is shown by taking a smallest set that would be a             *)
(* counterexample.  Then the types, which need the sum of some resources   *)
(* to be at most that of all; then that somebody else's assignment is not  *)
(* taken over; then, with one reconcile at a time, that no quota is left   *)
(* without a resource.                                                     *)
(***************************************************************************)
EXTENDS Entitlement, FiniteSetTheorems, WellFoundedInduction, TLAPS

-----------------------------------------------------------------------------
(* The sum of the amounts of a set of resources.                           *)

\* The element that the fold takes out of s.
First(s) == CHOOSE x \in s : TRUE

\* g adds up the amounts of every subset of S.
Sums(S, g) == g = [s \in SUBSET S |->
                      IF s = {} THEN 0 ELSE Amount[First(s)] + g[s \ {First(s)}]]

\* Total is the fold's function, applied to the whole set.
LEMMA TotalIs == \A S : Total(S) = (CHOOSE g : Sums(S, g))[S]
BY DEF Total, MapThenSumSet, MapThenFoldSet, Sums, First

\* Among subsets of a finite set one contains no other: what replaces induction
\* over sets, as the set of counterexamples has a smallest member.
LEMMA Smallest ==
    ASSUME NEW S, IsFiniteSet(S), NEW T, T \subseteq SUBSET S, T # {}
    PROVE  \E s \in T : \A t \in T : t \subseteq s => t = s
<1>1. FiniteSubsetsOf(S) = SUBSET S
  BY FS_FiniteSubsetsOfFinite
<1>2. IsWellFoundedOn(StrictSubsetOrdering(S), SUBSET S)
  BY <1>1, FS_StrictSubsetOrderingWellFounded
<1>3. \E s \in T : \A t \in T : ~(<<t, s>> \in StrictSubsetOrdering(S))
  BY <1>2, WFMin
<1> QED BY <1>3 DEF StrictSubsetOrdering

\* The fold takes out an element that is there.
LEMMA FirstIsIn == \A s : s # {} => First(s) \in s
BY DEF First

\* Functions that add up the same amounts agree where both are defined.
LEMMA SumsAgree ==
    ASSUME NEW S, IsFiniteSet(S), NEW T \in SUBSET S, NEW g, NEW h, Sums(S, g), Sums(T, h)
    PROVE  \A s \in SUBSET T : g[s] = h[s]
<1> DEFINE D == {s \in SUBSET T : g[s] # h[s]}
<1> SUFFICES ASSUME D # {} PROVE FALSE
  OBVIOUS
<1>0. D \subseteq SUBSET S
  OBVIOUS
<1>1. PICK s \in D : \A t \in D : t \subseteq s => t = s
  <2> HIDE DEF D
  <2> QED BY <1>0, Smallest
<1>2. s \in SUBSET T /\ s \in SUBSET S /\ g[s] # h[s]
  OBVIOUS
<1>3. CASE s = {}
  BY <1>2, <1>3 DEF Sums
<1>4. CASE s # {}
  <2>1. First(s) \in s
    BY <1>4, FirstIsIn
  <2>2. s \ {First(s)} \in SUBSET T /\ s \ {First(s)} # s
    BY <2>1, <1>2
  <2>3. g[s \ {First(s)}] = h[s \ {First(s)}]
    BY <2>2, <1>1
  <2>4. g[s] = Amount[First(s)] + g[s \ {First(s)}]
    BY <1>2, <1>4 DEF Sums
  <2>5. h[s] = Amount[First(s)] + h[s \ {First(s)}]
    BY <1>2, <1>4 DEF Sums
  <2> QED BY <2>3, <2>4, <2>5, <1>2
<1> QED BY <1>3, <1>4

\* There is a function that adds up the amounts: the fold is well defined.
LEMMA SumsExist ==
    ASSUME NEW S, IsFiniteSet(S) PROVE \E g : Sums(S, g)
<1> DEFINE D == {s \in SUBSET S : ~ \E g : Sums(s, g)}
<1> SUFFICES ASSUME D # {} PROVE FALSE
  OBVIOUS
<1>1. PICK s \in D : \A t \in D : t \subseteq s => t = s
  <2>1. D \subseteq SUBSET S
    OBVIOUS
  <2> HIDE DEF D
  <2> QED BY <2>1, Smallest
<1>2. ASSUME NEW t \in SUBSET s, t # s PROVE Sums(t, CHOOSE g : Sums(t, g))
  <2>1. \E g : Sums(t, g)
    BY <1>1, <1>2
  <2> QED BY <2>1
<1> DEFINE of(t) == (CHOOSE g : Sums(t, g))[t]
           g == [t \in SUBSET s |-> IF t = {} THEN 0 ELSE Amount[First(t)] + of(t \ {First(t)})]
<1>3. ASSUME NEW t \in SUBSET s, t # {} PROVE g[t \ {First(t)}] = of(t \ {First(t)})
  <2> DEFINE u == t \ {First(t)}
  <2>1. u \in SUBSET s /\ u # s
    BY <1>3, FirstIsIn
  <2>2. Sums(u, CHOOSE h : Sums(u, h))
    BY <2>1, <1>2
  <2>3. CASE u = {}
    <3>1. g[u] = 0
      BY <2>1, <2>3
    <3>2. of(u) = 0
      BY <2>2, <2>3 DEF Sums
    <3> QED BY <3>1, <3>2
  <2>4. CASE u # {}
    <3> DEFINE v == u \ {First(u)}
    <3>1. v \in SUBSET u /\ v \in SUBSET s /\ v # s
      BY <2>1, <2>4, FirstIsIn
    <3>2. Sums(v, CHOOSE h : Sums(v, h))
      BY <3>1, <1>2
    <3>3. IsFiniteSet(u)
      BY <2>1, FS_Subset
    <3>4. \A w \in SUBSET v : (CHOOSE h : Sums(u, h))[w] = (CHOOSE h : Sums(v, h))[w]
      <4> HIDE DEF u, v
      <4> QED BY <3>1, <3>2, <3>3, <2>2, SumsAgree
    <3>5. (CHOOSE h : Sums(u, h))[v] = of(v)
      BY <3>4
    <3>6. of(u) = Amount[First(u)] + (CHOOSE h : Sums(u, h))[v]
      <4> DEFINE h == CHOOSE h : Sums(u, h)
      <4>1. Sums(u, h)
        BY <2>2
      <4> HIDE DEF h
      <4>2. h[u] = Amount[First(u)] + h[v]
        BY <4>1, <2>4 DEF Sums
      <4> QED BY <4>2 DEF h
    <3>7. g[u] = Amount[First(u)] + of(v)
      BY <2>1, <2>4
    <3> QED BY <3>5, <3>6, <3>7
  <2> QED BY <2>3, <2>4
<1>4. Sums(s, g)
  <2>1. \A t \in SUBSET s : t # {} => of(t \ {First(t)}) = g[t \ {First(t)}]
    BY <1>3
  <2> HIDE DEF of
  <2>2. g = [t \in SUBSET s |-> IF t = {} THEN 0 ELSE Amount[First(t)] + g[t \ {First(t)}]]
    BY <2>1
  <2> QED BY <2>2 DEF Sums
<1> QED BY <1>1, <1>4

\* Total is nothing for no resource, and grows by one amount with each.
LEMMA TotalUnfolds ==
    /\ Total({}) = 0
    /\ \A S \in SUBSET CRs : S # {} => Total(S) = Amount[First(S)] + Total(S \ {First(S)})
<1>1. ASSUME NEW S \in SUBSET CRs PROVE IsFiniteSet(S) /\ Sums(S, CHOOSE g : Sums(S, g))
  <2>1. IsFiniteSet(S)
    BY ConstantsAssumption, FS_Subset DEF ConstantsAssumption
  <2> QED BY <2>1, SumsExist
<1>2. Total({}) = 0
  <2>1. Sums({}, CHOOSE g : Sums({}, g))
    BY <1>1
  <2> QED BY <2>1, TotalIs DEF Sums
<1>3. ASSUME NEW S \in SUBSET CRs, S # {}
      PROVE Total(S) = Amount[First(S)] + Total(S \ {First(S)})
  <2> DEFINE T == S \ {First(S)}
             g == CHOOSE g : Sums(S, g)
             h == CHOOSE h : Sums(T, h)
  <2>1. Sums(S, g) /\ Sums(T, h) /\ T \in SUBSET S /\ IsFiniteSet(S)
    BY <1>1
  <2>2. Total(S) = g[S] /\ Total(T) = h[T]
    BY TotalIs
  <2> HIDE DEF T, g, h
  <2>3. g[T] = h[T]
    BY <2>1, SumsAgree
  <2>4. g[S] = Amount[First(S)] + g[T]
    BY <2>1, <1>3 DEF Sums, T
  <2> QED BY <2>2, <2>3, <2>4 DEF T
<1> QED BY <1>2, <1>3

\* The sum of amounts is a natural number.
LEMMA TotalIsNat == \A S \in SUBSET CRs : Total(S) \in Nat
<1> DEFINE D == {S \in SUBSET CRs : Total(S) \notin Nat}
<1> SUFFICES ASSUME D # {} PROVE FALSE
  OBVIOUS
<1>1. PICK S \in D : \A T \in D : T \subseteq S => T = S
  <2>1. D \subseteq SUBSET CRs
    OBVIOUS
  <2> HIDE DEF D
  <2> QED BY <2>1, ConstantsAssumption, Smallest DEF ConstantsAssumption
<1>2. CASE S = {}
  BY <1>1, <1>2, TotalUnfolds
<1>3. CASE S # {}
  <2>1. First(S) \in S /\ First(S) \in CRs
    BY <1>3, FirstIsIn
  <2>2. Total(S \ {First(S)}) \in Nat
    BY <1>1, <2>1
  <2>3. Total(S) = Amount[First(S)] + Total(S \ {First(S)})
    BY <1>3, TotalUnfolds
  <2>4. Amount[First(S)] \in Nat
    BY <2>1, ConstantsAssumption DEF ConstantsAssumption
  <2> QED BY <2>2, <2>3, <2>4, <1>1
<1> QED BY <1>2, <1>3

\* Any resource of the set may be the one that is taken out.
LEMMA TotalTakesOut ==
    \A S \in SUBSET CRs : \A c \in S : Total(S) = Amount[c] + Total(S \ {c})
<1> DEFINE D == {S \in SUBSET CRs : \E c \in S : Total(S) # Amount[c] + Total(S \ {c})}
<1> SUFFICES ASSUME D # {} PROVE FALSE
  OBVIOUS
<1>1. PICK S \in D : \A T \in D : T \subseteq S => T = S
  <2>1. D \subseteq SUBSET CRs
    OBVIOUS
  <2> HIDE DEF D
  <2> QED BY <2>1, ConstantsAssumption, Smallest DEF ConstantsAssumption
<1>2. PICK c \in S : Total(S) # Amount[c] + Total(S \ {c})
  OBVIOUS
<1> DEFINE f == First(S)
<1>3. f \in S /\ S \in SUBSET CRs
  BY <1>2, FirstIsIn
<1>4. Total(S) = Amount[f] + Total(S \ {f})
  BY <1>3, TotalUnfolds
<1>5. c # f
  BY <1>2, <1>4
<1> HIDE DEF f
<1>6. \A U \in SUBSET S : U # S => \A d \in U : Total(U) = Amount[d] + Total(U \ {d})
  BY <1>1
<1>7. /\ Total(S \ {f}) = Amount[c] + Total((S \ {f}) \ {c})
      /\ Total(S \ {c}) = Amount[f] + Total((S \ {c}) \ {f})
  <2> HIDE DEF D
  <2>1. /\ S \ {f} \in SUBSET S /\ S \ {f} # S /\ c \in S \ {f}
        /\ S \ {c} \in SUBSET S /\ S \ {c} # S /\ f \in S \ {c}
    BY <1>3, <1>5
  <2> QED BY <1>6, <2>1
<1>8. Total((S \ {f}) \ {c}) = Total((S \ {c}) \ {f})
  <2>1. (S \ {f}) \ {c} = (S \ {c}) \ {f}
    OBVIOUS
  <2> QED BY <2>1
<1>9. Amount[c] \in Nat /\ Amount[f] \in Nat
  BY <1>3, ConstantsAssumption DEF ConstantsAssumption
<1>10. Total((S \ {c}) \ {f}) \in Nat
  <2>1. (S \ {c}) \ {f} \in SUBSET CRs
    BY <1>3
  <2> QED BY <2>1, TotalIsNat
<1> HIDE DEF D
<1> QED BY <1>2, <1>4, <1>7, <1>8, <1>9, <1>10

\* A smaller set of resources never asks for more.
LEMMA TotalGrows == \A S, T \in SUBSET CRs : T \subseteq S => Total(T) <= Total(S)
<1> SUFFICES ASSUME NEW T \in SUBSET CRs
             PROVE  \A S \in SUBSET CRs : T \subseteq S => Total(T) <= Total(S)
  OBVIOUS
<1> DEFINE D == {S \in SUBSET CRs : T \subseteq S /\ ~(Total(T) <= Total(S))}
<1> SUFFICES ASSUME D # {} PROVE FALSE
  OBVIOUS
<1>1. PICK S \in D : \A U \in D : U \subseteq S => U = S
  <2>1. D \subseteq SUBSET CRs
    OBVIOUS
  <2> HIDE DEF D
  <2> QED BY <2>1, ConstantsAssumption, Smallest DEF ConstantsAssumption
<1>2. S # T
  BY TotalIsNat
<1>3. PICK c \in S : c \notin T
  BY <1>2
<1>4. Total(T) <= Total(S \ {c})
  BY <1>1, <1>3
<1>5. Total(S) = Amount[c] + Total(S \ {c})
  BY <1>3, TotalTakesOut
<1>6. Amount[c] \in Nat /\ Total(T) \in Nat /\ Total(S \ {c}) \in Nat
  <2>1. S \ {c} \in SUBSET CRs /\ c \in CRs
    OBVIOUS
  <2> QED BY <2>1, TotalIsNat, ConstantsAssumption DEF ConstantsAssumption
<1>7. ~(Total(T) <= Total(S))
  OBVIOUS
<1> HIDE DEF D
<1> QED BY <1>4, <1>5, <1>6, <1>7

\* What a set of resources requires is a number, at least 1 unless it is
\* empty, and at most what all of them ask for together.
LEMMA RequiredFits ==
    \A S \in SUBSET CRs : /\ Required(S) \in 0 .. Total(CRs)
                          /\ S # {} => Required(S) > 0
<1> SUFFICES ASSUME NEW S \in SUBSET CRs
             PROVE  Required(S) \in 0 .. Total(CRs) /\ (S # {} => Required(S) > 0)
  OBVIOUS
<1>1. Total(S) \in Nat /\ Total(CRs) \in Nat /\ Total(S) <= Total(CRs)
  BY TotalIsNat, TotalGrows
<1>2. CASE S = {}
  BY <1>1, <1>2, TotalUnfolds DEF Required
<1>3. CASE S # {}
  <2>1. PICK c \in S : TRUE
    BY <1>3
  <2>2. Total(S) = Amount[c] + Total(S \ {c})
    BY TotalTakesOut
  <2>3. Amount[c] \in Nat \ {0} /\ Total(S \ {c}) \in Nat
    <3>1. S \ {c} \in SUBSET CRs /\ c \in CRs
      OBVIOUS
    <3> QED BY <3>1, TotalIsNat, ConstantsAssumption DEF ConstantsAssumption
  <2>4. Total(S) >= 1
    BY <2>2, <2>3
  <2> QED BY <1>1, <1>3, <2>4 DEF Required
<1> QED BY <1>2, <1>3

-----------------------------------------------------------------------------
(* Types.                                                                  *)

\* What BTP can report.
LEMMA AssignmentsFit ==
    /\ NoAssignment \in Assignments
    /\ \A r \in 0 .. Total(CRs) : numeric \in BOOLEAN => Granted(r) \in Assignments
    /\ \A a \in Assignments :
          /\ \A s \in {"NONE", "OK", "PROCESSING", "FAILED"} : [a EXCEPT !.state = s] \in Assignments
          /\ \A auto \in BOOLEAN : [a EXCEPT !.auto = auto] \in Assignments
<1>1. Total(CRs) \in Nat /\ NoAmount \in NoAmount .. Total(CRs)
  BY TotalIsNat DEF NoAmount
<1>2. NoAssignment \in Assignments
  BY <1>1 DEF NoAssignment, Assignments
<1>3. ASSUME NEW r \in 0 .. Total(CRs), numeric \in BOOLEAN PROVE Granted(r) \in Assignments
  <2>1. r \in NoAmount .. Total(CRs)
    BY <1>1 DEF NoAmount
  <2> QED BY <1>1, <1>3, <2>1 DEF Granted, NoAssignment, Assignments
<1>4. ASSUME NEW a \in Assignments
      PROVE  /\ \A s \in {"NONE", "OK", "PROCESSING", "FAILED"} : [a EXCEPT !.state = s] \in Assignments
             /\ \A auto \in BOOLEAN : [a EXCEPT !.auto = auto] \in Assignments
  BY DEF Assignments
<1> QED BY <1>2, <1>3, <1>4

\* Whatever is requested lies between nothing and what all resources want.
LEMMA RequestsFit ==
    \A c \in CRs : /\ Required(Related) \in 0 .. Total(CRs)
                   /\ Required(Siblings(c)) \in 0 .. Total(CRs)
                   /\ 0 \in 0 .. Total(CRs) /\ 1 \in 0 .. Total(CRs)
<1>1. Related \in SUBSET CRs /\ \A c \in CRs : Siblings(c) \in SUBSET CRs
  BY DEF Related, Siblings
<1>2. Required(CRs) > 0 /\ Total(CRs) \in Nat
  BY RequiredFits, TotalIsNat, ConstantsAssumption DEF ConstantsAssumption
<1>3. Total(CRs) >= 1
  <2>1. PICK c \in CRs : TRUE
    BY ConstantsAssumption DEF ConstantsAssumption
  <2>2. Total(CRs) = Amount[c] + Total(CRs \ {c})
    BY TotalTakesOut
  <2>3. Amount[c] \in Nat \ {0} /\ Total(CRs \ {c}) \in Nat
    <3>1. CRs \ {c} \in SUBSET CRs
      OBVIOUS
    <3> QED BY <3>1, TotalIsNat, ConstantsAssumption DEF ConstantsAssumption
  <2> QED BY <2>2, <2>3
<1> QED BY <1>1, <1>2, <1>3, RequiredFits

\* The initial state has the types.
LEMMA TypeInit == Init => TypeOK
<1> SUFFICES ASSUME Init PROVE TypeOK
  OBVIOUS
<1>1. numeric \in BOOLEAN
  BY ConstantsAssumption DEF Init, ConstantsAssumption
<1>2. NoAssignment \in Assignments
  BY AssignmentsFit
<1>3. 0 \in 0 .. Total(CRs)
  BY TotalIsNat
<1> QED BY <1>1, <1>2, <1>3 DEF Init, TypeOK

\* A write is one of the requests, and what it leaves is an assignment.
LEMMA WriteTypes ==
    ASSUME TypeOK, NEW r \in 0 .. Total(CRs), SetServicePlans(r)
    PROVE  /\ btp' \in Assignments /\ pending' \in SUBSET (0 .. Total(CRs))
           /\ owner' \in {"nobody", "provider", "other"} /\ numeric' \in BOOLEAN
<1>1. btp' \in Assignments
  BY AssignmentsFit DEF SetServicePlans, TypeOK
<1> QED BY <1>1 DEF SetServicePlans, TypeOK

\* What is cached, read and remembered of it.
ReadTypes == /\ cache \in SUBSET Assignments /\ flight \in SUBSET Assignments
             /\ hit \in BOOLEAN /\ superseded \in BOOLEAN
             /\ behind \in SUBSET {"cache", "flight"} /\ misled \in SUBSET CRs

\* An invalidation drops the cached answer.
LEMMA InvalidateTypes == TypeOK /\ Invalidate => ReadTypes'
BY DEF Invalidate, TypeOK, ReadTypes

\* A read joins a flight, or begins one with the cached answer or to BTP.
LEMMA AwaitTypes ==
    ASSUME TypeOK, NEW c \in CRs, NEW step \in {"observing", "deleting"}, Await(c, step)
    PROVE  /\ ReadTypes'
           /\ pc' \in [CRs -> {"idle", "observing", "observe", "finalize", "create", "createwrite",
                       "stamp", "update", "describe", "deleting", "delete", "deletewrite", "mark"}]
BY DEF Await, TypeOK, ReadTypes

\* Every step of a reconcile keeps the types.
LEMMA ReconcileTypes ==
    ASSUME TypeOK, NEW c \in CRs, Reconcile(c) PROVE TypeOK'
<1> USE DEF btpVars, kubeVars, readVars, workVars
<1>1. CASE ObserveStart(c)
  <2>1. Await(c, "observing")
    BY <1>1 DEF ObserveStart
  <2>2. wdel' \in [CRs -> BOOLEAN]
    BY <1>1 DEF ObserveStart, TypeOK
  <2>3. inst' \in [CRs -> Assignments] /\ req' \in [CRs -> 0 .. Total(CRs)]
    BY <1>1, AssignmentsFit, RequestsFit DEF ObserveStart, TypeOK
  <2> QED BY <1>1, <2>1, <2>2, <2>3, AwaitTypes DEF ObserveStart, TypeOK, ReadTypes
<1>2. CASE Observe(c)
  <2>1. ExternalNameVerdict(c) \in {"exists", "idle", "finalize", "create"}
    BY DEF ExternalNameVerdict, NotExisting
  <2>2. ExistingVerdict(c) \in {"idle", "finalize", "create", "describe", "update"}
    BY DEF ExistingVerdict, NotExisting
  <2>3. pc' \in [CRs -> {"idle", "observing", "observe", "finalize", "create", "createwrite",
                       "stamp", "update", "describe", "deleting", "delete", "deletewrite", "mark"}]
    BY <1>2, <2>1, <2>2 DEF Observe, TypeOK
  <2>4. name' \in [CRs -> {"empty", "legacy", "current"}]
    BY <1>2 DEF Observe, TypeOK
  <2>5. req' \in [CRs -> 0 .. Total(CRs)]
    BY <1>2, RequestsFit DEF Observe, TypeOK
  <2> QED BY <1>2, <2>3, <2>4, <2>5 DEF Observe, TypeOK
<1>3. CASE Finalize(c)
  BY <1>3 DEF Finalize, TypeOK
<1>4. CASE CreateRead(c)
  <2>1. req' \in [CRs -> 0 .. Total(CRs)]
    BY <1>4, RequestsFit DEF CreateRead, TypeOK
  <2>2. pc' \in [CRs -> {"idle", "observing", "observe", "finalize", "create", "createwrite",
                       "stamp", "update", "describe", "deleting", "delete", "deletewrite", "mark"}]
    BY <1>4 DEF CreateRead, TypeOK
  <2> QED BY <1>4, <2>1, <2>2 DEF CreateRead, TypeOK
<1>5. CASE CreateWrite(c)
  <2>1. req[c] \in 0 .. Total(CRs) /\ SetServicePlans(req[c]) /\ Invalidate
    BY <1>5 DEF CreateWrite, UpdateInstance, TypeOK
  <2> QED BY <1>5, <2>1, WriteTypes, InvalidateTypes DEF CreateWrite, TypeOK, ReadTypes
<1>6. CASE StampExternalName(c)
  BY <1>6 DEF StampExternalName, TypeOK
<1>7. CASE UpdateWrite(c)
  <2>1. req[c] \in 0 .. Total(CRs) /\ SetServicePlans(req[c]) /\ Invalidate
    BY <1>7 DEF UpdateWrite, UpdateInstance, TypeOK
  <2> QED BY <1>7, <2>1, WriteTypes, InvalidateTypes DEF UpdateWrite, TypeOK, ReadTypes
<1>8. CASE DeleteStart(c)
  <2>1. Await(c, "deleting")
    BY <1>8 DEF DeleteStart
  <2> QED BY <1>8, <2>1, AwaitTypes DEF DeleteStart, TypeOK, ReadTypes
<1>9. CASE Delete(c)
  <2>1. req' \in [CRs -> 0 .. Total(CRs)]
    BY <1>9, RequestsFit DEF Delete, TypeOK
  <2> QED BY <1>9, <2>1 DEF Delete, TypeOK
<1>10. CASE DeleteWrite(c)
  <2>1. req[c] \in 0 .. Total(CRs) /\ SetServicePlans(req[c]) /\ Invalidate
    BY <1>10 DEF DeleteWrite, UpdateInstance, TypeOK
  <2> QED BY <1>10, <2>1, WriteTypes, InvalidateTypes DEF DeleteWrite, TypeOK, ReadTypes
<1>11. CASE MarkDeleting(c)
  BY <1>11 DEF MarkDeleting, TypeOK
<1> QED BY <1>1, <1>2, <1>3, <1>4, <1>5, <1>6, <1>7, <1>8, <1>9, <1>10, <1>11 DEF Reconcile

\* Every step keeps the types.
LEMMA TypeNext == TypeOK /\ [Next]_vars => TypeOK'
<1> SUFFICES ASSUME TypeOK, [Next]_vars PROVE TypeOK'
  OBVIOUS
<1> USE DEF btpVars, kubeVars, readVars, workVars
<1>1. ASSUME NEW c \in CRs, UserCreate(c) PROVE TypeOK'
  <2>1. name' \in [CRs -> {"empty", "legacy", "current"}]
    BY <1>1, ConstantsAssumption DEF UserCreate, TypeOK, ConstantsAssumption
  <2> QED BY <1>1, <2>1 DEF UserCreate, TypeOK
<1>2. ASSUME NEW c \in CRs, UserDelete(c) PROVE TypeOK'
  BY <1>2 DEF UserDelete, TypeOK
<1>3. ASSUME NEW c \in CRs, Reconcile(c) PROVE TypeOK'
  BY <1>3, ReconcileTypes
<1>4. ASSUME NEW c \in CRs, Abort(c) \/ WriteUnanswered(c) PROVE TypeOK'
  <2>1. CASE Abort(c)
    BY <2>1 DEF Abort, TypeOK
  <2>2. CASE WriteUnanswered(c)
    <3>1. req[c] \in 0 .. Total(CRs) /\ SetServicePlans(req[c])
      BY <2>2 DEF WriteUnanswered, TypeOK
    <3> QED BY <2>2, <3>1, WriteTypes DEF WriteUnanswered, TypeOK
  <2> QED BY <1>4, <2>1, <2>2
<1>5. CASE BTPFinish
  <2>1. PICK r \in pending : /\ btp' = IF r = 0 THEN NoAssignment ELSE Granted(r)
                             /\ owner' = IF r = 0 THEN "nobody" ELSE owner
    BY <1>5 DEF BTPFinish
  <2>2. r \in 0 .. Total(CRs) /\ numeric \in BOOLEAN
    BY DEF TypeOK
  <2>3. btp' \in Assignments
    BY <2>1, <2>2, AssignmentsFit
  <2> QED BY <1>5, <2>1, <2>3 DEF BTPFinish, TypeOK
<1>6. CASE BTPFail
  <2>1. btp' \in Assignments
    BY <1>6, AssignmentsFit DEF BTPFail, TypeOK
  <2> QED BY <1>6, <2>1 DEF BTPFail, TypeOK
<1>7. CASE OtherAssigns
  <2>1. Granted(1) \in Assignments
    <3>1. 1 \in 0 .. Total(CRs)
      BY RequestsFit, ConstantsAssumption DEF ConstantsAssumption
    <3> QED BY <3>1, AssignmentsFit DEF TypeOK
  <2>2. btp' \in Assignments
    BY <1>7, <2>1, AssignmentsFit DEF OtherAssigns
  <2> QED BY <1>7, <2>2 DEF OtherAssigns, TypeOK
<1>8. CASE FlightReturns
  <2>1. PICK v \in flight : /\ cache' = IF hit \/ superseded THEN cache ELSE {v}
                            /\ inst' = [c \in CRs |-> IF c \in Waiting THEN v ELSE inst[c]]
    BY <1>8 DEF FlightReturns
  <2>2. v \in Assignments
    BY DEF TypeOK
  <2>3. cache' \in SUBSET Assignments /\ inst' \in [CRs -> Assignments]
    BY <2>1, <2>2 DEF TypeOK
  <2>4. \A c \in CRs : c \in Waiting => Arrived(pc[c]) \in {"observe", "delete"}
    BY DEF Waiting, Arrived
  <2>5. pc' \in [CRs -> {"idle", "observing", "observe", "finalize", "create", "createwrite",
                       "stamp", "update", "describe", "deleting", "delete", "deletewrite", "mark"}]
    BY <1>8, <2>4 DEF FlightReturns, TypeOK
  <2>6. behind' \in SUBSET {"cache", "flight"} /\ misled' \in SUBSET CRs
    BY <1>8 DEF FlightReturns, Waiting, TypeOK
  <2> QED BY <1>8, <2>3, <2>5, <2>6 DEF FlightReturns, TypeOK
<1>9. CASE CacheExpires
  BY <1>9 DEF CacheExpires, TypeOK
<1>10. CASE UNCHANGED vars
  BY <1>10 DEF vars, TypeOK
<1> QED BY <1>1, <1>2, <1>3, <1>4, <1>5, <1>6, <1>7, <1>8, <1>9, <1>10 DEF Next

\* Every variable keeps its type, whatever the resources ask for.
THEOREM TypeCorrect == Spec => []TypeOK
BY TypeInit, TypeNext, PTL DEF Spec

-----------------------------------------------------------------------------
(* Who is at work.                                                         *)

\* A reconcile in flight has its resource: the finalizer goes last.
WorkHasResource == \A c \in CRs : pc[c] # "idle" => Exists(c)

\* A resource that nobody has created has no name.
NamesStand == \A c \in CRs : cr[c] = "none" => name[c] = "empty"

\* A reconcile's resource stays until its own finalizer goes.
LEMMA NextWorkHasResource == TypeOK /\ WorkHasResource /\ [Next]_vars => WorkHasResource'
<1> SUFFICES ASSUME TypeOK, WorkHasResource, [Next]_vars PROVE WorkHasResource'
  OBVIOUS
<1> USE DEF WorkHasResource, TypeOK, Exists, kubeVars, workVars
<1>1. ASSUME NEW c \in CRs, UserCreate(c) \/ UserDelete(c) PROVE WorkHasResource'
  BY <1>1 DEF UserCreate, UserDelete
<1>2. ASSUME NEW c \in CRs, Reconcile(c) PROVE WorkHasResource'
  <2>1. CASE Finalize(c)
    BY <2>1 DEF Finalize
  <2>2. CASE ~Finalize(c)
    <3>1. UNCHANGED cr /\ \A d \in CRs \ {c} : pc'[d] = pc[d]
      BY <1>2, <2>2 DEF Reconcile, ObserveStart, Await, Observe, CreateRead, CreateWrite,
           StampExternalName, UpdateWrite, DeleteStart, Delete, DeleteWrite, MarkDeleting
    <3>2. Exists(c)
      BY <1>2, <2>2 DEF Reconcile, ObserveStart, Observe, CreateRead, CreateWrite,
           StampExternalName, UpdateWrite, DeleteStart, Delete, DeleteWrite, MarkDeleting
    <3> QED BY <3>1, <3>2
  <2> QED BY <2>1, <2>2
<1>3. ASSUME NEW c \in CRs, Abort(c) \/ WriteUnanswered(c) PROVE WorkHasResource'
  BY <1>3 DEF Abort, WriteUnanswered
<1>4. CASE FlightReturns
  BY <1>4 DEF FlightReturns, Waiting
<1>5. CASE BTPFinish \/ BTPFail \/ OtherAssigns \/ CacheExpires \/ UNCHANGED vars
  BY <1>5 DEF BTPFinish, BTPFail, OtherAssigns, CacheExpires, vars
<1> QED BY <1>1, <1>2, <1>3, <1>4, <1>5 DEF Next

\* Names are given to resources that exist.
LEMMA NextNamesStand ==
    TypeOK /\ WorkHasResource /\ NamesStand /\ [Next]_vars => NamesStand'
<1> SUFFICES ASSUME TypeOK, WorkHasResource, NamesStand, [Next]_vars PROVE NamesStand'
  OBVIOUS
<1> USE DEF NamesStand, TypeOK, kubeVars
<1>1. ASSUME NEW c \in CRs, UserCreate(c) \/ UserDelete(c) PROVE NamesStand'
  BY <1>1 DEF UserCreate, UserDelete
<1>2. ASSUME NEW c \in CRs, Reconcile(c) PROVE NamesStand'
  <2>1. CASE Observe(c) \/ StampExternalName(c)
    <3>1. cr[c] # "none" /\ UNCHANGED cr
      BY <2>1 DEF Observe, StampExternalName, WorkHasResource, Exists
    <3>2. \A d \in CRs \ {c} : name'[d] = name[d]
      BY <2>1 DEF Observe, StampExternalName
    <3> QED BY <3>1, <3>2
  <2>2. CASE Finalize(c)
    BY <2>2 DEF Finalize
  <2>3. CASE ~(Observe(c) \/ StampExternalName(c) \/ Finalize(c))
    <3>1. UNCHANGED <<cr, name>>
      BY <1>2, <2>3 DEF Reconcile, ObserveStart, CreateRead, CreateWrite, UpdateWrite,
           DeleteStart, Delete, DeleteWrite, MarkDeleting
    <3> QED BY <3>1
  <2> QED BY <2>1, <2>2, <2>3
<1>3. CASE UNCHANGED <<cr, name>>
  BY <1>3
<1>4. ASSUME NEW c \in CRs, Abort(c) \/ WriteUnanswered(c) PROVE UNCHANGED <<cr, name>>
  BY <1>4 DEF Abort, WriteUnanswered
<1>5. CASE FlightReturns \/ BTPFinish \/ BTPFail \/ OtherAssigns \/ CacheExpires \/ UNCHANGED vars
  BY <1>3, <1>5 DEF FlightReturns, BTPFinish, BTPFail, OtherAssigns, CacheExpires, vars
<1> QED BY <1>1, <1>2, <1>3, <1>4, <1>5 DEF Next

-----------------------------------------------------------------------------
(* Somebody else's assignment.                                             *)

\* Some resource of the key has a name, or had one when it went.
Vouched == \E s \in CRs : name[s] # "empty"

\* A reconcile on its way to a write has been vouched for since it was let
\* through, except in a Create that read "no assignment".
WritesAreVouched ==
    \A c \in CRs :
        /\ pc[c] \in {"update", "describe", "deleting", "delete", "deletewrite"} => Vouched
        /\ pc[c] = "createwrite" => NeedsCreate(inst[c]) \/ Vouched

\* What keeps somebody else's assignment: names outlast the reconciles they let on.
VInv == TypeOK /\ WorkHasResource /\ NamesStand /\ WritesAreVouched

\* No resource has a name and no reconcile is under way at first.
LEMMA VouchedInit == Init => VInv
<1> SUFFICES ASSUME Init PROVE VInv
  OBVIOUS
<1> QED BY TypeInit DEF Init, VInv, WorkHasResource, NamesStand, WritesAreVouched

\* A name is given once and replaced by another, never taken away.
LEMMA VouchedStays ==
    ASSUME TypeOK, NamesStand, [Next]_vars, Vouched PROVE Vouched'
<1>1. PICK s \in CRs : name[s] # "empty"
  BY DEF Vouched
<1> SUFFICES name'[s] # "empty"
  BY DEF Vouched
<1> USE DEF TypeOK, kubeVars
<1>2. ASSUME NEW c \in CRs, UserCreate(c) PROVE name'[s] # "empty"
  BY <1>1, <1>2 DEF UserCreate, NamesStand
<1>3. ASSUME NEW c \in CRs, Observe(c) \/ StampExternalName(c) PROVE name'[s] # "empty"
  BY <1>1, <1>3 DEF Observe, StampExternalName
<1>4. ASSUME NEW c \in CRs, ~(Observe(c) \/ StampExternalName(c)),
             UserDelete(c) \/ Reconcile(c) \/ Abort(c) \/ WriteUnanswered(c)
      PROVE  UNCHANGED name
  BY <1>4 DEF UserDelete, Abort, WriteUnanswered, Reconcile, ObserveStart, Finalize, CreateRead, CreateWrite,
       UpdateWrite, DeleteStart, Delete, DeleteWrite, MarkDeleting
<1>5. CASE FlightReturns \/ BTPFinish \/ BTPFail \/ OtherAssigns \/ CacheExpires \/ UNCHANGED vars
  BY <1>1, <1>5 DEF FlightReturns, BTPFinish, BTPFail, OtherAssigns, CacheExpires, vars
<1> QED BY <1>1, <1>2, <1>3, <1>4, <1>5 DEF Next

\* Observe lets a reconcile on to a write only with a name to vouch for it.
LEMMA ObserveVouches ==
    ASSUME TypeOK, NEW c \in CRs, Observe(c), pc'[c] \in {"update", "describe"}
    PROVE  Vouched'
<1> USE DEF TypeOK
<1>1. ExternalNameVerdict(c) = "exists" /\ pc'[c] = ExistingVerdict(c)
  BY DEF Observe, ExternalNameVerdict, NotExisting
<1>2. CASE ~wdel[c]
  BY <1>1, <1>2 DEF Observe, Vouched
<1>3. CASE wdel[c]
  <2>1. UNCHANGED name
    BY <1>3 DEF Observe
  <2>2. ~inst[c].auto
    BY <1>1, <1>3 DEF ExistingVerdict, NotExisting
  <2>3. name[c] = "current" \/ ~AdoptionGuardApplies(c, TRUE, inst[c]) \/ MayAdopt(c)
    BY <1>1, <1>3 DEF ExternalNameVerdict, NotExisting
  <2>4. \/ name[c] = "current"
        \/ ~Absent(inst[c]) /\ ~(/\ AssignFailedNoQuota(inst[c])
                                 /\ ~DeletingWithReservedQuota(TRUE, inst[c]))
    BY <1>1, <1>3, <2>2 DEF ExternalNameVerdict, NotExisting
  <2>5. name[c] # "empty" \/ MayAdopt(c)
    BY <2>2, <2>3, <2>4 DEF AdoptionGuardApplies
  <2>6. Vouched
    BY <2>5 DEF MayAdopt, Vouched, Siblings, Related
  <2> QED BY <2>1, <2>6 DEF Vouched
<1> QED BY <1>2, <1>3

\* So does Create, unless it read that there is nothing to be taken.
LEMMA CreateReadVouches ==
    ASSUME TypeOK, NEW c \in CRs, CreateRead(c), pc'[c] = "createwrite"
    PROVE  NeedsCreate(inst'[c]) \/ Vouched
<1> USE DEF TypeOK
<1>1. inst'[c] = btp
  BY DEF CreateRead
<1>2. ~btp.auto /\ (~AdoptionGuardApplies(c, wdel[c], btp) \/ MayAdopt(c))
  BY DEF CreateRead
<1>3. CASE MayAdopt(c)
  BY <1>3 DEF MayAdopt, Vouched, Siblings, Related
<1>4. CASE ~MayAdopt(c)
  BY <1>1, <1>2, <1>4 DEF AdoptionGuardApplies, NeedsCreate, Vouched
<1> QED BY <1>3, <1>4

\* What lets a reconcile on to its write stays true until the write.
LEMMA NextWritesAreVouched == VInv /\ [Next]_vars => WritesAreVouched'
<1> SUFFICES ASSUME VInv, [Next]_vars, NEW d \in CRs
             PROVE  /\ pc'[d] \in {"update", "describe", "deleting", "delete", "deletewrite"}
                           => Vouched'
                    /\ pc'[d] = "createwrite" => NeedsCreate(inst'[d]) \/ Vouched'
  BY DEF WritesAreVouched
<1> DEFINE Fine == /\ pc'[d] \in {"update", "describe", "deleting", "delete", "deletewrite"}
                         => Vouched'
                   /\ pc'[d] = "createwrite" => NeedsCreate(inst'[d]) \/ Vouched'
<1>1. Vouched => Vouched'
  BY VouchedStays DEF VInv
<1> USE DEF VInv, TypeOK, workVars
<1>2. CASE pc'[d] = pc[d] /\ inst'[d] = inst[d]
  BY <1>1, <1>2 DEF WritesAreVouched
<1>3. ASSUME NEW c \in CRs, Reconcile(c) PROVE Fine
  <2>1. CASE c # d
    <3>1. pc'[d] = pc[d] /\ inst'[d] = inst[d]
      BY <1>3, <2>1 DEF Reconcile, ObserveStart, Await, Observe, Finalize, CreateRead,
           CreateWrite, StampExternalName, UpdateWrite, DeleteStart, Delete, DeleteWrite,
           MarkDeleting
    <3> QED BY <3>1, <1>2
  <2>2. CASE Observe(d)
    <3>1. pc'[d] # "createwrite" /\ pc'[d] \notin {"deleting", "delete", "deletewrite"}
      BY <2>2 DEF Observe, ExternalNameVerdict, ExistingVerdict, NotExisting
    <3> QED BY <2>2, <3>1, ObserveVouches
  <2>3. CASE CreateRead(d)
    <3>1. pc'[d] \in {"idle", "stamp", "createwrite"}
      BY <2>3 DEF CreateRead
    <3> QED BY <2>3, <3>1, <1>1, CreateReadVouches
  <2>4. CASE DeleteStart(d) \/ Delete(d)
    <3>1. pc[d] \in {"describe", "delete"} /\ pc'[d] # "createwrite"
      BY <2>4 DEF DeleteStart, Delete, Await
    <3> QED BY <3>1, <1>1 DEF WritesAreVouched
  <2>5. CASE \/ ObserveStart(d) \/ Finalize(d) \/ CreateWrite(d) \/ StampExternalName(d)
             \/ UpdateWrite(d) \/ DeleteWrite(d) \/ MarkDeleting(d)
    <3>1. pc'[d] \in {"observing", "observe", "idle", "stamp", "mark"}
      BY <2>5 DEF ObserveStart, Await, Finalize, CreateWrite, StampExternalName, UpdateWrite,
           DeleteWrite, MarkDeleting
    <3> QED BY <3>1
  <2> QED BY <1>3, <2>1, <2>2, <2>3, <2>4, <2>5 DEF Reconcile
<1>4. ASSUME NEW c \in CRs, Abort(c) \/ WriteUnanswered(c) PROVE Fine
  <2>1. pc'[d] \in {"idle", pc[d]} /\ inst'[d] = inst[d]
    BY <1>4 DEF Abort, WriteUnanswered
  <2> QED BY <2>1, <1>2
<1>5. CASE FlightReturns
  <2>1. CASE d \in Waiting
    <3>1. pc'[d] = Arrived(pc[d])
      BY <1>5, <2>1 DEF FlightReturns
    <3>2. \/ pc[d] = "observing" /\ pc'[d] = "observe"
          \/ pc[d] = "deleting" /\ pc'[d] = "delete"
      BY <2>1, <3>1 DEF Waiting, Arrived
    <3> QED BY <3>2, <1>1 DEF WritesAreVouched
  <2>2. CASE d \notin Waiting
    <3>1. pc'[d] = pc[d] /\ inst'[d] = inst[d]
      BY <1>5, <2>2 DEF FlightReturns
    <3> QED BY <3>1, <1>2
  <2> QED BY <2>1, <2>2
<1>6. ASSUME NEW c \in CRs, UserCreate(c) \/ UserDelete(c) PROVE Fine
  BY <1>2, <1>6 DEF UserCreate, UserDelete
<1>7. CASE BTPFinish \/ BTPFail \/ OtherAssigns \/ CacheExpires \/ UNCHANGED vars
  BY <1>2, <1>7 DEF BTPFinish, BTPFail, OtherAssigns, CacheExpires, vars
<1> QED BY <1>3, <1>4, <1>5, <1>6, <1>7 DEF Next

\* Every step keeps the invariant.
LEMMA VouchedNext == VInv /\ [Next]_vars => VInv'
<1>1. VInv /\ [Next]_vars => TypeOK' /\ WorkHasResource' /\ NamesStand'
  BY TypeNext, NextWorkHasResource, NextNamesStand DEF VInv
<1> QED BY <1>1, NextWritesAreVouched DEF VInv

\* For any number of resources and reconciles at a time, and however they
\* interleave, an assignment somebody else made is written only for a resource
\* whose key has a name that claims it, or in a Create that read "no assignment".
THEOREM ForeignIsUntouched == Spec => ForeignAssignmentUntouched
<1>1. ASSUME VInv, [Next]_vars
      PROVE  [owner = "other" /\ owner' = "provider" =>
                 \A c \in CRs : Writer(c) =>
                     \/ NeedsCreate(inst[c])
                     \/ \E s \in CRs : name[s] # "empty"]_vars
  BY <1>1 DEF Writer, VInv, WritesAreVouched, Vouched
<1> QED BY <1>1, VouchedInit, VouchedNext, PTL DEF Spec, ForeignAssignmentUntouched

-----------------------------------------------------------------------------
(* Quota and the last resource, one reconcile at a time.                   *)

\* At most one reconcile is under way.
OneAtATime == \A c, d \in CRs : pc[c] # "idle" /\ pc[d] # "idle" => c = d

\* A read in flight has somebody waiting for it.
FlightIsAwaited == flight # {} => Waiting # {}

\* What BTP holds: nothing is nothing at all, a request under way shows, and
\* what BTP assigned by itself stays somebody else's.
AssignmentsAreWhole ==
    /\ Absent(btp) => btp = NoAssignment
    /\ pending # {} => InProgress(btp)
    /\ btp.auto => owner = "other"
    /\ btp.amount # 0

\* The provider's quota, and an answer on which a deletion lets it go.
Held == owner = "provider" /\ Reserved
Letting(a) == \/ a.auto \/ Absent(a)
              \/ ~a.on /\ (a.amount = 0 \/ AssignFailedNoQuota(a))

\* What a decision may still be taken on, and is not older than a write whose
\* answer was lost: the cache, the read in flight and the copy that Observe is
\* about to judge.  No write outdates it.
Known == {a \in cache : "cache" \notin behind} \cup {a \in flight : "flight" \notin behind}
         \cup {inst[c] : c \in {d \in CRs : pc[d] = "observe" /\ d \notin misled}}
WhatIsReadHolds == \A a \in Known : Letting(a) => ~Held

\* A finalizer goes when there is no quota, or somebody left to stand for it,
\* or on such an older answer.
LastOneLetsGo ==
    \A c \in CRs : pc[c] = "finalize" => ~Held \/ c \in misled \/ \E s \in CRs \ {c} : Exists(s)

\* What keeps quota represented while reconciles do not overlap.
QInv == /\ TypeOK /\ WorkHasResource /\ OneAtATime /\ FlightIsAwaited
        /\ AssignmentsAreWhole /\ WhatIsReadHolds /\ LastOneLetsGo /\ NoOrphanedQuota

\* At first BTP holds nothing and nobody is at work.
LEMMA QuotaInit == Init => QInv
<1> SUFFICES ASSUME Init PROVE QInv
  OBVIOUS
<1> USE DEF Init
<1>1. TypeOK
  BY TypeInit
<1>2. WorkHasResource /\ OneAtATime /\ FlightIsAwaited
  BY DEF WorkHasResource, OneAtATime, FlightIsAwaited
<1>3. AssignmentsAreWhole
  BY DEF AssignmentsAreWhole, NoAssignment, NoAmount, InProgress
<1>4. WhatIsReadHolds /\ LastOneLetsGo /\ NoOrphanedQuota
  BY DEF WhatIsReadHolds, LastOneLetsGo, NoOrphanedQuota, Held
<1> QED BY <1>1, <1>2, <1>3, <1>4 DEF QInv

\* Nobody is at work when the only worker begins.
LEMMA WorkerIsFree ==
    ASSUME MaxConcurrent = 1, NEW c \in CRs, ObserveStart(c)
    PROVE  \A d \in CRs : pc[d] = "idle"
<1> DEFINE Busy == {d \in CRs : pc[d] # "idle"}
<1>1. IsFiniteSet(Busy)
  <2>1. Busy \subseteq CRs
    OBVIOUS
  <2> QED BY <2>1, ConstantsAssumption, FS_Subset DEF ConstantsAssumption
<1>2. Cardinality(Busy) < 1
  BY DEF ObserveStart
<1>3. Cardinality(Busy) \in Nat
  BY <1>1, FS_CardinalityType
<1>4. Cardinality(Busy) = 0
  BY <1>2, <1>3
<1>5. Busy = {}
  BY <1>1, <1>4, FS_EmptySet
<1> QED BY <1>5

\* With one worker a reconcile begins when no other is under way.
LEMMA NextOneAtATime ==
    ASSUME MaxConcurrent = 1, TypeOK, OneAtATime, [Next]_vars PROVE OneAtATime'
<1> USE DEF OneAtATime, TypeOK, workVars
<1>1. ASSUME NEW c \in CRs, Reconcile(c) PROVE OneAtATime'
  <2>1. CASE ObserveStart(c)
    <3>1. \A d \in CRs \ {c} : pc'[d] = "idle"
      BY <2>1, WorkerIsFree DEF ObserveStart, Await
    <3> QED BY <3>1
  <2>2. CASE ~ObserveStart(c)
    <3>1. pc[c] # "idle" /\ \A d \in CRs \ {c} : pc'[d] = pc[d]
      BY <1>1, <2>2 DEF Reconcile, Observe, Finalize, CreateRead, CreateWrite,
           StampExternalName, UpdateWrite, DeleteStart, Await, Delete, DeleteWrite, MarkDeleting
    <3> QED BY <3>1
  <2> QED BY <2>1, <2>2
<1>2. ASSUME NEW c \in CRs, Abort(c) \/ WriteUnanswered(c) PROVE OneAtATime'
  BY <1>2 DEF Abort, WriteUnanswered
<1>3. CASE FlightReturns
  BY <1>3 DEF FlightReturns, Waiting
<1>4. ASSUME NEW c \in CRs, UserCreate(c) \/ UserDelete(c) PROVE OneAtATime'
  BY <1>4 DEF UserCreate, UserDelete
<1>5. CASE BTPFinish \/ BTPFail \/ OtherAssigns \/ CacheExpires \/ UNCHANGED vars
  BY <1>5 DEF BTPFinish, BTPFail, OtherAssigns, CacheExpires, vars
<1> QED BY <1>1, <1>2, <1>3, <1>4, <1>5 DEF Next

\* A flight ends with the reconcile that waits for it.
LEMMA NextFlightIsAwaited ==
    ASSUME TypeOK, FlightIsAwaited, [Next]_vars PROVE FlightIsAwaited'
<1> USE DEF FlightIsAwaited, TypeOK, Waiting, workVars, readVars
<1>1. ASSUME NEW c \in CRs, Reconcile(c) PROVE FlightIsAwaited'
  <2>1. CASE ObserveStart(c) \/ DeleteStart(c)
    <3>1. pc[c] \notin {"observing", "deleting"}
      BY <2>1 DEF ObserveStart, DeleteStart
    <3>2. \A d \in CRs \ {c} : pc'[d] = pc[d]
      BY <2>1 DEF ObserveStart, DeleteStart, Await
    <3>3. pc'[c] \in {"observing", "deleting"} \/ flight' = flight
      BY <2>1 DEF ObserveStart, DeleteStart, Await
    <3> QED BY <3>1, <3>2, <3>3
  <2>2. CASE ~(ObserveStart(c) \/ DeleteStart(c))
    <3>1. pc[c] \notin {"observing", "deleting"} /\ flight' = flight
      BY <1>1, <2>2 DEF Reconcile, Observe, Finalize, CreateRead, CreateWrite, UpdateInstance, Invalidate,
           StampExternalName, UpdateWrite, Delete, DeleteWrite, MarkDeleting
    <3>2. \A d \in CRs \ {c} : pc'[d] = pc[d]
      BY <1>1, <2>2 DEF Reconcile, Observe, Finalize, CreateRead, CreateWrite,
           StampExternalName, UpdateWrite, Delete, DeleteWrite, MarkDeleting
    <3> QED BY <3>1, <3>2
  <2> QED BY <2>1, <2>2
<1>2. ASSUME NEW c \in CRs, Abort(c) \/ WriteUnanswered(c) PROVE FlightIsAwaited'
  BY <1>2 DEF Abort, WriteUnanswered
<1>3. CASE FlightReturns
  BY <1>3 DEF FlightReturns
<1>4. ASSUME NEW c \in CRs, UserCreate(c) \/ UserDelete(c) PROVE FlightIsAwaited'
  BY <1>4 DEF UserCreate, UserDelete
<1>5. CASE BTPFinish \/ BTPFail \/ OtherAssigns \/ CacheExpires \/ UNCHANGED vars
  BY <1>5 DEF BTPFinish, BTPFail, OtherAssigns, CacheExpires, vars
<1> QED BY <1>1, <1>2, <1>3, <1>4, <1>5 DEF Next

\* The steps of c that write to BTP.
Writes(c) == CreateWrite(c) \/ UpdateWrite(c) \/ DeleteWrite(c) \/ WriteUnanswered(c)

\* BTP's side changes in a write, or by itself.
LEMMA BTPSteps ==
    ASSUME [Next]_vars, \A c \in CRs : ~Writes(c), ~(BTPFinish \/ BTPFail \/ OtherAssigns)
    PROVE  UNCHANGED btpVars
<1>1. ASSUME NEW c \in CRs, UserCreate(c) \/ UserDelete(c) \/ Abort(c) PROVE UNCHANGED btpVars
  BY <1>1 DEF UserCreate, UserDelete, Abort
<1>2. ASSUME NEW c \in CRs, Reconcile(c) PROVE UNCHANGED btpVars
  BY <1>2 DEF Writes, Reconcile, ObserveStart, Observe, Finalize, CreateRead,
       StampExternalName, DeleteStart, Delete, MarkDeleting
<1>3. CASE FlightReturns \/ CacheExpires \/ UNCHANGED vars
  BY <1>3 DEF FlightReturns, CacheExpires, vars
<1> QED BY <1>1, <1>2, <1>3 DEF Next, Writes

\* What BTP reports stays whole, by requests and by its own doing.
LEMMA NextAssignmentsAreWhole ==
    ASSUME TypeOK, AssignmentsAreWhole, [Next]_vars PROVE AssignmentsAreWhole'
<1> USE DEF AssignmentsAreWhole, TypeOK, Assignments, Absent, InProgress, Granted,
            NoAssignment, NoAmount
<1>1. ASSUME NEW c \in CRs, Writes(c) PROVE AssignmentsAreWhole'
  BY <1>1 DEF Writes, CreateWrite, UpdateWrite, DeleteWrite, WriteUnanswered, UpdateInstance, SetServicePlans
<1>2. CASE BTPFinish
  BY <1>2 DEF BTPFinish
<1>3. CASE BTPFail
  BY <1>3 DEF BTPFail
<1>4. CASE OtherAssigns
  BY <1>4 DEF OtherAssigns
<1>5. CASE UNCHANGED btpVars
  BY <1>5 DEF btpVars
<1> QED BY <1>1, <1>2, <1>3, <1>4, <1>5, BTPSteps

\* Only a write makes quota the provider's.
LEMMA WritesHold ==
    ASSUME TypeOK, [Next]_vars, \A c \in CRs : ~Writes(c), Held' PROVE Held
<1> USE DEF Held, Reserved, TypeOK, Assignments, Granted, NoAssignment, NoAmount
<1>1. CASE BTPFinish
  <2>1. PICK r \in pending : /\ btp' = IF r = 0 THEN NoAssignment ELSE Granted(r)
                             /\ owner' = IF r = 0 THEN "nobody" ELSE owner
    BY <1>1 DEF BTPFinish
  <2>2. r \in Nat /\ r # 0
    BY <2>1
  <2> QED BY <2>1, <2>2
<1>2. CASE BTPFail
  BY <1>2 DEF BTPFail
<1>3. CASE OtherAssigns
  BY <1>3 DEF OtherAssigns
<1>4. CASE UNCHANGED btpVars
  BY <1>4 DEF btpVars
<1> QED BY <1>1, <1>2, <1>3, <1>4, BTPSteps

\* An answer read now is true now.
LEMMA FreshAnswerHolds ==
    ASSUME TypeOK, AssignmentsAreWhole, Letting(btp) PROVE ~Held
BY DEF TypeOK, Assignments, AssignmentsAreWhole, Letting, Held, Reserved, Absent, InProgress,
       AssignFailedNoQuota, NoAssignment, NoAmount

\* Answers come from BTP as it is, or are passed on.
LEMMA KnownGrows ==
    ASSUME TypeOK, WorkHasResource, [Next]_vars, \A c \in CRs : ~Writes(c)
    PROVE  Known' \subseteq Known \cup {btp}
<1> USE DEF TypeOK, Known, workVars, readVars
<1>1. ASSUME NEW c \in CRs, Reconcile(c) PROVE Known' \subseteq Known \cup {btp}
  <2>1. CASE ObserveStart(c) \/ DeleteStart(c)
    <3>1. cache' = cache /\ ("cache" \in behind <=> "cache" \in behind') /\ misled' = misled
      BY <2>1 DEF ObserveStart, DeleteStart, Await
    <3>2. {a \in flight : "flight" \notin behind}' \subseteq Known \cup {btp}
      BY <2>1 DEF ObserveStart, DeleteStart, Await
    <3>3. \A d \in CRs \ {c} : pc'[d] = pc[d] /\ inst'[d] = inst[d]
      BY <2>1 DEF ObserveStart, DeleteStart, Await
    <3>4. pc'[c] # "observe"
      BY <2>1 DEF ObserveStart, DeleteStart, Await
    <3> QED BY <3>1, <3>2, <3>3, <3>4
  <2>2. CASE CreateRead(c)
    <3>1. cache' = {btp} /\ flight' = flight /\ ("flight" \in behind <=> "flight" \in behind')
      BY <2>2 DEF CreateRead
    <3>2. pc'[c] # "observe" /\ misled' = misled \ {c}
          /\ \A d \in CRs \ {c} : pc'[d] = pc[d] /\ inst'[d] = inst[d]
      BY <2>2 DEF CreateRead
    <3> QED BY <3>1, <3>2
  <2>3. CASE Finalize(c)
    <3>1. UNCHANGED <<cache, flight, behind, inst>> /\ pc'[c] # "observe"
          /\ \A d \in CRs \ {c} : pc'[d] = pc[d]
      BY <2>3 DEF Finalize
    <3>2. \A d \in CRs : pc[d] = "observe" /\ d \notin misled' => d \notin misled
      BY <2>3 DEF Finalize, WorkHasResource
    <3> QED BY <3>1, <3>2
  <2>4. CASE ~(ObserveStart(c) \/ DeleteStart(c) \/ CreateRead(c) \/ Finalize(c))
    <3>1. UNCHANGED <<cache, flight, behind, misled, inst>>
      BY <1>1, <2>4 DEF Writes, Reconcile, Observe, StampExternalName, Delete, MarkDeleting
    <3>2. pc'[c] # "observe" /\ \A d \in CRs \ {c} : pc'[d] = pc[d]
      BY <1>1, <2>4 DEF Writes, Reconcile, Observe, StampExternalName,
           Delete, MarkDeleting, ExternalNameVerdict, ExistingVerdict, NotExisting
    <3> QED BY <3>1, <3>2
  <2> QED BY <2>1, <2>2, <2>3, <2>4
<1>2. ASSUME NEW c \in CRs, Abort(c) PROVE Known' \subseteq Known \cup {btp}
  <2>1. cache' = cache /\ ("cache" \in behind <=> "cache" \in behind')
        /\ UNCHANGED <<misled, inst>> /\ \A d \in CRs : pc'[d] = "observe" => pc[d] = "observe"
    BY <1>2 DEF Abort
  <2>2. flight' = {} \/ UNCHANGED <<flight, behind>>
    BY <1>2 DEF Abort
  <2> QED BY <2>1, <2>2
<1>3. CASE FlightReturns
  <2>1. PICK v \in flight : /\ cache' = IF hit \/ superseded THEN cache ELSE {v}
                            /\ inst' = [c \in CRs |-> IF c \in Waiting THEN v ELSE inst[c]]
    BY <1>3 DEF FlightReturns
  <2>2. ASSUME NEW c \in CRs, pc'[c] = "observe", c \notin misled' PROVE inst'[c] \in Known
    <3>1. CASE c \in Waiting
      <4>1. inst'[c] = v /\ "flight" \notin behind
        BY <1>3, <2>1, <2>2, <3>1 DEF FlightReturns
      <4> QED BY <4>1
    <3>2. CASE c \notin Waiting
      <4>1. inst'[c] = inst[c] /\ pc[c] = "observe" /\ c \notin misled
        BY <1>3, <2>1, <2>2, <3>2 DEF FlightReturns
      <4> QED BY <4>1
    <3> QED BY <3>1, <3>2
  <2>3. {a \in cache : "cache" \notin behind}' \subseteq Known
    BY <1>3, <2>1 DEF FlightReturns
  <2>4. flight' = {}
    BY <1>3 DEF FlightReturns
  <2> QED BY <2>2, <2>3, <2>4
<1>4. ASSUME NEW c \in CRs, UserCreate(c) \/ UserDelete(c) PROVE Known' \subseteq Known \cup {btp}
  BY <1>4 DEF UserCreate, UserDelete
<1>5. CASE CacheExpires
  BY <1>5 DEF CacheExpires
<1>6. CASE BTPFinish \/ BTPFail \/ OtherAssigns \/ UNCHANGED vars
  BY <1>6 DEF BTPFinish, BTPFail, OtherAssigns, vars
<1>7. ASSUME NEW c \in CRs, WriteUnanswered(c) PROVE FALSE
  BY <1>7 DEF Writes
<1> QED BY <1>1, <1>2, <1>3, <1>4, <1>5, <1>6, <1>7 DEF Next

\* A write drops what is cached, or has its answer lost; with one reconcile at
\* a time nobody else waits for a read or is about to judge one.
LEMMA WriteForgets ==
    ASSUME TypeOK, OneAtATime, FlightIsAwaited, NEW c \in CRs, Writes(c) PROVE Known' = {}
<1> USE DEF TypeOK, Writes, CreateWrite, UpdateWrite, DeleteWrite, WriteUnanswered,
            UpdateInstance, Invalidate
<1>1. pc[c] \in {"createwrite", "update", "deletewrite"}
      /\ pc'[c] \in {"stamp", "idle", "mark"} /\ \A d \in CRs \ {c} : pc'[d] = pc[d]
  OBVIOUS
<1>2. \A d \in CRs \ {c} : pc[d] = "idle"
  BY <1>1 DEF OneAtATime
<1>3. Waiting = {}
  BY <1>1, <1>2 DEF Waiting
<1>4. flight' = {} /\ (cache' = {} \/ "cache" \in behind')
  BY <1>3 DEF FlightIsAwaited
<1>5. \A d \in CRs : pc'[d] # "observe"
  BY <1>1, <1>2
<1> QED BY <1>4, <1>5 DEF Known

\* An answer that says there is nothing to release stays true until a write.
LEMMA NextWhatIsReadHolds == ASSUME QInv, [Next]_vars PROVE WhatIsReadHolds'
<1> USE DEF QInv
<1>1. ASSUME NEW c \in CRs, Writes(c) PROVE WhatIsReadHolds'
  BY <1>1, WriteForgets DEF WhatIsReadHolds
<1>2. CASE \A c \in CRs : ~Writes(c)
  <2> SUFFICES ASSUME NEW a \in Known', Letting(a), Held' PROVE FALSE
    BY DEF WhatIsReadHolds, Letting, Absent, AssignFailedNoQuota
  <2>1. Held
    BY <1>2, WritesHold
  <2>2. a \in Known \cup {btp}
    BY <1>2, KnownGrows
  <2> QED BY <2>1, <2>2, FreshAnswerHolds DEF WhatIsReadHolds
<1> QED BY <1>1, <1>2

\* Observe lets the finalizer go on an answer that says there is nothing to
\* release, or because siblings remain.
LEMMA ObserveLetsGo ==
    ASSUME TypeOK, NEW c \in CRs, Observe(c), pc'[c] = "finalize"
    PROVE  Letting(inst[c]) \/ \E s \in CRs \ {c} : Exists(s)
<1> SUFFICES ASSUME Siblings(c) = {} PROVE Letting(inst[c])
  BY DEF Siblings, Related
<1> DEFINE a == inst[c]
<1>1. ~DeletionComplete(c, a)
  BY DEF DeletionComplete
<1>2. a \in Assignments
  BY DEF TypeOK
<1>3. CASE ExternalNameVerdict(c) # "exists"
  <2>1. ExternalNameVerdict(c) = "finalize"
    BY <1>3 DEF Observe, TypeOK
  <2>2. CASE Absent(a) \/ (AssignFailedNoQuota(a) /\ ~DeletingWithReservedQuota(wdel[c], a))
    <3>1. wdel[c]
      BY <2>1 DEF ExternalNameVerdict, NotExisting
    <3> QED BY <2>2, <3>1 DEF Letting, DeletingWithReservedQuota
  <2>3. CASE ~(Absent(a) \/ (AssignFailedNoQuota(a) /\ ~DeletingWithReservedQuota(wdel[c], a)))
    <3>1. ~AssignmentStillReserved(a)
      BY <2>1, <2>3 DEF ExternalNameVerdict, NotExisting
    <3>2. ~a.on /\ a.amount = 0
      BY <1>2, <3>1, TotalIsNat DEF AssignmentStillReserved, Assignments, NoAmount
    <3> QED BY <3>2 DEF Letting
  <2> QED BY <2>2, <2>3
<1>4. CASE ExternalNameVerdict(c) = "exists"
  <2>1. ExistingVerdict(c) = "finalize"
    BY <1>4 DEF Observe, TypeOK
  <2>2. CASE NeedsCreate(a) /\ ~DeletingWithReservedQuota(wdel[c], a)
    <3>1. wdel[c]
      BY <2>1, <2>2 DEF ExistingVerdict, NotExisting
    <3> QED BY <2>2, <3>1 DEF Letting, DeletingWithReservedQuota, NeedsCreate
  <2>3. CASE ~(NeedsCreate(a) /\ ~DeletingWithReservedQuota(wdel[c], a))
    <3>1. a.auto
      BY <1>1, <2>1, <2>3 DEF ExistingVerdict
    <3> QED BY <3>1 DEF Letting
  <2> QED BY <2>2, <2>3
<1> QED BY <1>3, <1>4

\* Only the finalizer's removal takes a resource away.
LEMMA ResourcesStay ==
    ASSUME TypeOK, [Next]_vars, NEW s \in CRs, Exists(s), ~Finalize(s) PROVE Exists(s)'
<1> USE DEF TypeOK, Exists, kubeVars
<1>1. ASSUME NEW c \in CRs, UserCreate(c) \/ UserDelete(c) \/ Abort(c) \/ WriteUnanswered(c)
      PROVE  Exists(s)'
  BY <1>1 DEF UserCreate, UserDelete, Abort, WriteUnanswered
<1>2. ASSUME NEW c \in CRs, Reconcile(c) PROVE Exists(s)'
  <2>1. CASE Finalize(c)
    BY <2>1 DEF Finalize
  <2>2. CASE ~Finalize(c)
    <3>1. UNCHANGED cr
      BY <1>2, <2>2 DEF Reconcile, ObserveStart, Observe, CreateRead, CreateWrite,
           StampExternalName, UpdateWrite, DeleteStart, Delete, DeleteWrite, MarkDeleting
    <3> QED BY <3>1
  <2> QED BY <2>1, <2>2
<1>3. CASE FlightReturns \/ BTPFinish \/ BTPFail \/ OtherAssigns \/ CacheExpires \/ UNCHANGED vars
  BY <1>3 DEF FlightReturns, BTPFinish, BTPFail, OtherAssigns, CacheExpires, vars
<1> QED BY <1>1, <1>2, <1>3 DEF Next

\* A resource that is gone does not come back.
LEMMA GoneStays ==
    ASSUME TypeOK, [Next]_vars, NEW s \in CRs, cr[s] = "gone" PROVE cr'[s] = "gone"
<1> USE DEF TypeOK, kubeVars
<1>1. ASSUME NEW c \in CRs, UserCreate(c) \/ UserDelete(c) \/ Abort(c) \/ WriteUnanswered(c)
      PROVE  cr'[s] = "gone"
  BY <1>1 DEF UserCreate, UserDelete, Abort, WriteUnanswered
<1>2. ASSUME NEW c \in CRs, Reconcile(c) PROVE cr'[s] = "gone"
  BY <1>2 DEF Reconcile, ObserveStart, Observe, Finalize, CreateRead, CreateWrite,
     StampExternalName, UpdateWrite, DeleteStart, Delete, DeleteWrite, MarkDeleting
<1>3. CASE FlightReturns \/ BTPFinish \/ BTPFail \/ OtherAssigns \/ CacheExpires \/ UNCHANGED vars
  BY <1>3 DEF FlightReturns, BTPFinish, BTPFail, OtherAssigns, CacheExpires, vars
<1> QED BY <1>1, <1>2, <1>3 DEF Next

\* A finalizer about to go was let go by Observe, in this reconcile.
LEMMA FinalizeIsObserved ==
    ASSUME TypeOK, [Next]_vars, NEW c \in CRs, pc'[c] = "finalize"
    PROVE  Observe(c) \/ pc[c] = "finalize"
<1> SUFFICES ASSUME ~Observe(c) PROVE pc[c] = "finalize"
  OBVIOUS
<1> USE DEF TypeOK, workVars
<1>1. ASSUME NEW d \in CRs, Reconcile(d) PROVE pc[c] = "finalize"
  <2>1. CASE c # d
    <3>1. pc'[c] = pc[c]
      BY <1>1, <2>1 DEF Reconcile, ObserveStart, Await, Observe, Finalize, CreateRead,
           CreateWrite, StampExternalName, UpdateWrite, DeleteStart, Delete, DeleteWrite,
           MarkDeleting
    <3> QED BY <3>1
  <2>2. CASE c = d
    BY <1>1, <2>2 DEF Reconcile, ObserveStart, Await, Finalize, CreateRead,
         CreateWrite, StampExternalName, UpdateWrite, DeleteStart, Delete, DeleteWrite,
         MarkDeleting
  <2> QED BY <2>1, <2>2
<1>2. ASSUME NEW d \in CRs, Abort(d) \/ WriteUnanswered(d) PROVE pc[c] = "finalize"
  BY <1>2 DEF Abort, WriteUnanswered
<1>3. CASE FlightReturns
  <2>1. c \in Waiting => pc'[c] \in {"observe", "delete"}
    BY <1>3 DEF FlightReturns, Waiting, Arrived
  <2>2. c \notin Waiting => pc'[c] = pc[c]
    BY <1>3 DEF FlightReturns
  <2> QED BY <2>1, <2>2
<1>4. ASSUME NEW d \in CRs, UserCreate(d) \/ UserDelete(d) PROVE pc[c] = "finalize"
  BY <1>4 DEF UserCreate, UserDelete
<1>5. CASE BTPFinish \/ BTPFail \/ OtherAssigns \/ CacheExpires \/ UNCHANGED vars
  BY <1>5 DEF BTPFinish, BTPFail, OtherAssigns, CacheExpires, vars
<1> QED BY <1>1, <1>2, <1>3, <1>4, <1>5 DEF Next

\* Who went, or is about to go, on an older answer stays marked: marks go with
\* an answer that the resource itself gets, or with another's finalizer.
LEMMA MarksStay ==
    ASSUME TypeOK, WorkHasResource, [Next]_vars, NEW c \in misled, pc[c] \notin {"observing", "deleting", "create"}
    PROVE  c \in misled' \/ \E d \in CRs \ {c} : Finalize(d) /\ ~Exists(c)
<1> USE DEF TypeOK, readVars
<1>1. ASSUME NEW d \in CRs, Reconcile(d)
      PROVE  c \in misled' \/ \E e \in CRs \ {c} : Finalize(e) /\ ~Exists(c)
  <2>1. CASE CreateRead(d)
    BY <2>1 DEF CreateRead
  <2>2. CASE Finalize(d)
    <3>1. c \in misled' \/ ~Exists(c)
      BY <2>2 DEF Finalize
    <3>2. d = c => Exists(c)
      BY <2>2 DEF Finalize, WorkHasResource
    <3> QED BY <2>2, <3>1, <3>2
  <2>3. CASE ~(CreateRead(d) \/ Finalize(d))
    BY <1>1, <2>3 DEF Reconcile, ObserveStart, Await, Observe, CreateWrite, UpdateInstance,
       Invalidate, StampExternalName, UpdateWrite, DeleteStart, Delete, DeleteWrite, MarkDeleting
  <2> QED BY <2>1, <2>2, <2>3
<1>2. ASSUME NEW d \in CRs, UserCreate(d) \/ UserDelete(d) \/ Abort(d) \/ WriteUnanswered(d)
      PROVE  c \in misled'
  BY <1>2 DEF UserCreate, UserDelete, Abort, WriteUnanswered
<1>3. CASE FlightReturns
  BY <1>3 DEF FlightReturns, Waiting
<1>4. CASE BTPFinish \/ BTPFail \/ OtherAssigns \/ CacheExpires \/ UNCHANGED vars
  BY <1>4 DEF BTPFinish, BTPFail, OtherAssigns, CacheExpires, vars
<1> QED BY <1>1, <1>2, <1>3, <1>4 DEF Next

\* What let the finalizer go stays true until it goes.
LEMMA NextLastOneLetsGo == ASSUME QInv, [Next]_vars PROVE LastOneLetsGo'
<1> SUFFICES ASSUME NEW c \in CRs, pc'[c] = "finalize", Held', c \notin misled'
             PROVE  \E s \in CRs \ {c} : Exists(s)'
  BY DEF LastOneLetsGo
<1> USE DEF QInv
<1>1. \A d \in CRs : ~Writes(d)
  <2> SUFFICES ASSUME NEW d \in CRs, Writes(d) PROVE FALSE
    OBVIOUS
  <2>1. pc[d] \in {"createwrite", "update", "deletewrite"}
        /\ pc'[d] \in {"stamp", "idle", "mark"} /\ \A e \in CRs \ {d} : pc'[e] = pc[e]
    BY DEF TypeOK, Writes, CreateWrite, UpdateWrite, DeleteWrite, WriteUnanswered
  <2>2. \A e \in CRs \ {d} : pc[e] = "idle"
    BY <2>1 DEF OneAtATime
  <2> QED BY <2>1, <2>2
<1>2. Held
  BY <1>1, WritesHold
<1>3. CASE Observe(c)
  <2>1. pc[c] = "observe" /\ UNCHANGED <<cr, misled>>
    BY <1>3 DEF Observe, readVars
  <2>2. inst[c] \in Known
    BY <2>1 DEF Known
  <2>3. ~Letting(inst[c])
    BY <1>2, <2>2 DEF WhatIsReadHolds
  <2> QED BY <1>3, <2>1, <2>3, ObserveLetsGo DEF Exists
<1>4. CASE pc[c] = "finalize"
  <2>1. Exists(c)
    BY <1>4 DEF WorkHasResource
  <2>2. c \notin misled
    BY <1>4, <2>1, MarksStay
  <2>3. PICK s \in CRs \ {c} : Exists(s)
    BY <1>2, <1>4, <2>2 DEF LastOneLetsGo
  <2>4. ~Finalize(s)
    BY <1>4 DEF OneAtATime, Finalize
  <2>5. Exists(s)'
    BY <2>3, <2>4, ResourcesStay
  <2> QED BY <2>5
<1> QED BY <1>3, <1>4, FinalizeIsObserved

\* Quota is written for a resource that exists, and stays represented until one
\* goes on an older answer.
LEMMA NextNoOrphanedQuota == ASSUME QInv, [Next]_vars PROVE NoOrphanedQuota'
<1> DEFINE Stands(s) == Exists(s) \/ (cr[s] = "gone" /\ s \in misled)
<1> SUFFICES ASSUME Held' PROVE \E s \in CRs : Stands(s)'
  BY DEF NoOrphanedQuota, Held
<1> USE DEF QInv
<1>1. ASSUME NEW c \in CRs, Writes(c) PROVE Stands(c)'
  BY <1>1 DEF Writes, CreateWrite, UpdateWrite, DeleteWrite, WriteUnanswered, WorkHasResource,
     Exists, kubeVars
<1>2. ASSUME NEW c \in CRs, Finalize(c) PROVE \E s \in CRs : Stands(s)'
  <2>1. Held
    BY <1>2 DEF Finalize, Held, Reserved, btpVars
  <2>2. Exists(c)
    BY <1>2 DEF Finalize, WorkHasResource
  <2>3. CASE c \in misled
    <3>1. cr'[c] = "gone" /\ c \in misled'
      BY <1>2, <2>2, <2>3 DEF Finalize, TypeOK
    <3> QED BY <3>1
  <2>4. CASE c \notin misled
    <3>1. PICK s \in CRs \ {c} : Exists(s)
      BY <1>2, <2>1, <2>4 DEF Finalize, LastOneLetsGo
    <3> QED BY <1>2, <3>1 DEF Finalize, Exists, TypeOK
  <2> QED BY <2>3, <2>4
<1>3. CASE (\A c \in CRs : ~Writes(c)) /\ (\A c \in CRs : ~Finalize(c))
  <2>1. Held
    BY <1>3, WritesHold
  <2>2. PICK s \in CRs : Stands(s)
    BY <2>1 DEF NoOrphanedQuota, Held
  <2>3. CASE Exists(s)
    BY <1>3, <2>3, ResourcesStay
  <2>4. CASE cr[s] = "gone" /\ s \in misled
    <3>1. pc[s] = "idle"
      BY <2>4 DEF WorkHasResource, Exists
    <3>2. s \in misled'
      BY <1>3, <2>4, <3>1, MarksStay
    <3>3. cr'[s] = "gone"
      BY <1>3, <2>4, GoneStays
    <3> QED BY <3>2, <3>3
  <2> QED BY <2>2, <2>3, <2>4
<1> QED BY <1>1, <1>2, <1>3

\* Every step keeps the invariant when reconciles do not overlap.
LEMMA QuotaNext == MaxConcurrent = 1 /\ QInv /\ [Next]_vars => QInv'
<1> SUFFICES ASSUME MaxConcurrent = 1, QInv, [Next]_vars PROVE QInv'
  OBVIOUS
<1>1. TypeOK' /\ WorkHasResource' /\ OneAtATime' /\ FlightIsAwaited' /\ AssignmentsAreWhole'
  BY TypeNext, NextWorkHasResource, NextOneAtATime, NextFlightIsAwaited,
     NextAssignmentsAreWhole DEF QInv
<1> QED BY <1>1, NextWhatIsReadHolds, NextLastOneLetsGo, NextNoOrphanedQuota DEF QInv

\* With one reconcile at a time, for any number of resources, amounts, crashes,
\* failed requests, lost answers and foreign assignments: quota that the provider
\* assigned never outlives the last resource that stands for it, unless that one
\* went on an answer older than a write whose own answer was lost.
THEOREM NothingIsOrphaned == MaxConcurrent = 1 => (Spec => []NoOrphanedQuota)
<1> SUFFICES ASSUME MaxConcurrent = 1 PROVE Spec => []NoOrphanedQuota
  OBVIOUS
<1>1. QInv /\ [Next]_vars => QInv'
  BY QuotaNext
<1>2. QInv => NoOrphanedQuota
  BY DEF QInv
<1> QED BY <1>1, <1>2, QuotaInit, PTL DEF Spec
=============================================================================

------------------------ MODULE TwoPhaseCreate_proofs ------------------------
(***************************************************************************)
(* Theorems about TwoPhaseCreate, for every set of kinds, starting worlds  *)
(* and events, and every bound.                                            *)
(***************************************************************************)
EXTENDS TwoPhaseCreate, TLAPS

\* Ids are used in order, those of somebody else's halves first.
LEMMA IdsGrow ==
    ASSUME NEW i \in Nat, NEW x \in 0 .. i
    PROVE  x \in 0 .. (i + 1) /\ i + 1 \in 0 .. (i + 1) /\ i + 1 \in Nat
  OBVIOUS

-----------------------------------------------------------------------------
(* Type correctness.                                                       *)

ResourceType ==
    [phase : {"live", "deleting", "gone"}, inst : Ids, bind : Ids,
     attempted : BOOLEAN, incomplete : BOOLEAN, sInst : Ids, sBind : Ids]
PairType == [inst : Ids, bind : Ids]

\* What the program computes on the resource and on the Terraform states has
\* the right type.
LEMMA OperatorTypes ==
    ASSUME TypeOK
    PROVE  /\ Observed \in PairType /\ Refreshed \in PairType
           /\ Migrated(cr) \in ResourceType
           /\ \A p \in PairType : WithStatus(cr, p) \in ResourceType
           /\ Recorded(cr) \in ResourceType
           /\ \A c \in ResourceType : Connected(c) \in PairType
           /\ WithoutBinding \in [inst : Ids, bind : Ids, inWindow : BOOLEAN]
           /\ WithoutInstance \in [inst : Ids, bind : Ids, inWindow : BOOLEAN]
           /\ None \in Ids /\ Nothing \in PairType
  <1>0. None \in Ids
    BY DEF TypeOK, None, Ids
  <1>1. Observed \in PairType /\ Refreshed \in PairType
    BY <1>0 DEF TypeOK, Observed, Refreshed, Pair, PairType
  <1>2. Migrated(cr) \in ResourceType
    BY DEF TypeOK, Migrated, ResourceType
  <1>3. \A p \in PairType : WithStatus(cr, p) \in ResourceType
    BY <1>0 DEF TypeOK, WithStatus, ResourceType, PairType
  <1>4. Recorded(cr) \in ResourceType
    BY <1>0 DEF TypeOK, Recorded, ResourceType
  <1>5. \A c \in ResourceType : Connected(c) \in PairType
    BY DEF TypeOK, Connected, ResourceType, PairType, Pair
  <1>6. /\ WithoutBinding \in [inst : Ids, bind : Ids, inWindow : BOOLEAN]
        /\ WithoutInstance \in [inst : Ids, bind : Ids, inWindow : BOOLEAN]
    BY <1>0 DEF TypeOK, WithoutBinding, WithoutInstance, World
  <1>7. Nothing \in PairType
    BY <1>0 DEF Nothing, Pair, PairType
  <1> QED
    BY <1>0, <1>1, <1>2, <1>3, <1>4, <1>5, <1>6, <1>7

\* The initial states have the right types.
LEMMA InitType == Init => TypeOK
<1> SUFFICES ASSUME Init PROVE TypeOK
  OBVIOUS
<1> USE DEF Init, None
<1>1. kind \in AllKinds /\ foreign \subseteq {1, 2} /\ last \in Nat
  BY ConstantsAssumption
<1>2. btp \in [inst : Ids, bind : Ids, inWindow : BOOLEAN]
  BY DEF Ids, World
<1>3. cr \in ResourceType
  BY DEF Ids, Resource, ResourceType
<1>4. tf \in PairType /\ made \in PairType
  BY DEF Ids, Nothing, Pair, PairType
<1>5. pc \in Steps /\ del \in BOOLEAN /\ events \in [Events -> Nat]
  BY DEF Steps
<1> QED
  BY <1>1, <1>2, <1>3, <1>4, <1>5 DEF TypeOK, ResourceType, PairType

\* A counted event leaves the counters natural numbers.
LEMMA EventTypes ==
    ASSUME TypeOK, NEW e \in Events, Happens(e)
    PROVE  events' \in [Events -> Nat]
  BY DEF TypeOK, Happens

\* The types are preserved by every step.
LEMMA NextType == TypeOK /\ [Next]_vars => TypeOK'
<1> SUFFICES ASSUME TypeOK, [Next]_vars PROVE TypeOK'
  OBVIOUS
<1> USE DEF TypeOK, PairType, ResourceType, Goto, fixed, Steps
<1>t. /\ Observed \in PairType /\ Refreshed \in PairType
      /\ Migrated(cr) \in ResourceType
      /\ \A p \in PairType : WithStatus(cr, p) \in ResourceType
      /\ Recorded(cr) \in ResourceType
      /\ \A c \in ResourceType : Connected(c) \in PairType
      /\ WithoutBinding \in [inst : Ids, bind : Ids, inWindow : BOOLEAN]
      /\ WithoutInstance \in [inst : Ids, bind : Ids, inWindow : BOOLEAN]
      /\ None \in Ids /\ Nothing \in PairType
  BY OperatorTypes
<1>e. \A e \in Events : Happens(e) => events' \in [Events -> Nat]
  BY EventTypes
<1>i. last' = last => Ids' = Ids
  BY DEF Ids
<1>j. last' = last + 1 => last' \in Nat /\ Ids \subseteq Ids' /\ last' \in Ids' /\ None \in Ids'
  BY DEF Ids, None
<1>1. CASE Connect
  BY <1>1, <1>t, <1>i DEF Connect
<1>2. CASE Observe
  BY <1>2, <1>t, <1>i DEF Observe, Verdict, Missing
<1>3. CASE HealExternalName
  BY <1>3, <1>i DEF HealExternalName
<1>4. CASE NothingToHeal
  BY <1>4, <1>i DEF NothingToHeal, Missing
<1>5. CASE RecordPending
  BY <1>5, <1>e, <1>i DEF RecordPending, Events
<1>6. CASE CreateInstance
  BY <1>6, <1>e, <1>j DEF CreateInstance, Pair, Events
<1>7. CASE CreateBinding
  BY <1>7, <1>e, <1>j DEF CreateBinding, Pair, Events
<1>8. CASE CreateRefused
  BY <1>8, <1>e, <1>i DEF CreateRefused, Events
<1>9. CASE RecordResult
  BY <1>9, <1>t, <1>i DEF RecordResult, Failed
<1>10. CASE DeleteBinding
  BY <1>10, <1>t, <1>e, <1>i DEF DeleteBinding, Events
<1>11. CASE DeleteInstance
  BY <1>11, <1>t, <1>e, <1>i DEF DeleteInstance, Events
<1>12. CASE Finalize
  BY <1>12, <1>i DEF Finalize
<1>13. CASE ObserveFails
  BY <1>13, <1>t, <1>e, <1>i DEF ObserveFails, Events
<1>14. CASE LookupFails
  BY <1>14, <1>e, <1>i DEF LookupFails, Missing, Events
<1>15. CASE WriteFails
  BY <1>15, <1>t, <1>e, <1>i DEF WriteFails, Events
<1>16. CASE Restart
  BY <1>16, <1>t, <1>e, <1>i DEF Restart, Events
<1>17. CASE UserDeletes
  <2>1. cr' \in [phase : {"live", "deleting", "gone"}, inst : Ids, bind : Ids,
                  attempted : BOOLEAN, incomplete : BOOLEAN, sInst : Ids, sBind : Ids]
    BY <1>17 DEF UserDeletes
  <2> QED
    BY <2>1, <1>17, <1>i DEF UserDeletes
<1>18. CASE UserClearsIncomplete
  BY <1>18, <1>e, <1>i DEF UserClearsIncomplete, Events
<1>19. CASE LostInBTP
  <2>1. btp' \in [inst : Ids, bind : Ids, inWindow : BOOLEAN]
    <3>1. btp' = [btp EXCEPT !.bind = None] \/ btp' = World(None, None)
      BY <1>19 DEF LostInBTP
    <3>2. [btp EXCEPT !.bind = None] \in [inst : Ids, bind : Ids, inWindow : BOOLEAN]
      BY <1>t
    <3>3. World(None, None) \in [inst : Ids, bind : Ids, inWindow : BOOLEAN]
      BY <1>t DEF World
    <3> QED
      BY <3>1, <3>2, <3>3
  <2> QED
    BY <2>1, <1>19, <1>e, <1>i DEF LostInBTP, Events
<1>20. CASE UNCHANGED vars
  BY <1>20, <1>i DEF vars
<1> QED
  BY <1>1, <1>2, <1>3, <1>4, <1>5, <1>6, <1>7, <1>8, <1>9, <1>10, <1>11, <1>12, <1>13,
     <1>14, <1>15, <1>16, <1>17, <1>18, <1>19, <1>20 DEF Next, Reconcile

\* In every behaviour the variables keep their types.
THEOREM TypeCorrect == Spec => []TypeOK
<1>1. Init => TypeOK
  BY InitType
<1>2. TypeOK /\ [Next]_vars => TypeOK'
  BY NextType
<1> QED
  BY <1>1, <1>2, PTL DEF Spec

-----------------------------------------------------------------------------
(* Somebody else's halves.                                                 *)

\* Ids of ours come after theirs.
ForeignIsOlder == last >= 2

\* In BTP theirs is never proved ours by the window, and a binding of theirs is
\* a binding of an instance of theirs.
ForeignInBTP ==
    /\ btp.inst \in foreign => ~btp.inWindow
    /\ btp.bind \in foreign => btp.inst \in foreign

\* No place from which a name is ever made holds an id of theirs: not the name,
\* the status, the Terraform states, nor what Create returned.
OursAlone(c, t, m) ==
    \A f \in foreign : /\ c.inst # f /\ c.bind # f /\ c.sInst # f /\ c.sBind # f
                       /\ t.inst # f /\ t.bind # f /\ m.inst # f /\ m.bind # f

IInv == TypeOK /\ ForeignIsOlder /\ ForeignInBTP /\ OursAlone(cr, tf, made)

\* In the beginning theirs are apart from ours.
LEMMA InitIInv == Init => IInv
<1> SUFFICES ASSUME Init PROVE IInv
  OBVIOUS
<1>1. TypeOK
  BY InitType
<1>2. ForeignIsOlder /\ ForeignInBTP
  BY DEF Init, ForeignIsOlder, ForeignInBTP, World, None
<1>3. OursAlone(cr, tf, made)
  BY DEF Init, OursAlone, Resource, Nothing, Pair, None
<1> QED
  BY <1>1, <1>2, <1>3 DEF IInv

\* What the program computes from ids of ours are ids of ours, or None.
LEMMA OperatorsKeepOurs ==
    ASSUME TypeOK, OursAlone(cr, tf, made)
    PROVE  /\ OursAlone(cr, Refreshed, made)
           /\ OursAlone(WithStatus(cr, Observed), Refreshed, made)
           /\ OursAlone(WithStatus(cr, Nothing), tf, made)
           /\ OursAlone(Migrated(cr), Connected(Migrated(cr)), made)
           /\ OursAlone(Recorded(cr), tf, Nothing)
           /\ OursAlone(cr, tf, Nothing) /\ OursAlone(cr, Nothing, Nothing)
           /\ OursAlone(cr, [tf EXCEPT !.bind = None], made)
           /\ OursAlone(cr, [tf EXCEPT !.inst = None], made)
<1>0. \A f \in foreign : f # None
  BY DEF TypeOK, None
<1> USE <1>0 DEF OursAlone, TypeOK
<1>1. OursAlone(cr, Refreshed, made)
  BY DEF Refreshed, Observed, Pair
<1>2. OursAlone(WithStatus(cr, Observed), Refreshed, made)
  BY DEF WithStatus, Refreshed, Observed, Pair
<1>3. OursAlone(WithStatus(cr, Nothing), tf, made)
  BY DEF WithStatus, Nothing, Pair
<1>4. OursAlone(Migrated(cr), Connected(Migrated(cr)), made)
  BY DEF Migrated, Connected, Pair
<1>5. OursAlone(Recorded(cr), tf, Nothing)
  BY DEF Recorded, Nothing, Pair
<1>6. OursAlone(cr, tf, Nothing) /\ OursAlone(cr, Nothing, Nothing)
  BY DEF Nothing, Pair
<1>7. /\ OursAlone(cr, [tf EXCEPT !.bind = None], made)
      /\ OursAlone(cr, [tf EXCEPT !.inst = None], made)
  OBVIOUS
<1> QED
  BY <1>1, <1>2, <1>3, <1>4, <1>5, <1>6, <1>7

\* The name, the status and the Terraform states get no id of theirs.
LEMMA NextOursAlone == IInv /\ [Next]_vars => OursAlone(cr, tf, made)'
<1> SUFFICES ASSUME IInv, [Next]_vars PROVE OursAlone(cr, tf, made)'
  OBVIOUS
<1>t. TypeOK /\ OursAlone(cr, tf, made) /\ ForeignIsOlder /\ ForeignInBTP
  BY DEF IInv
<1>k. /\ OursAlone(cr, Refreshed, made)
      /\ OursAlone(WithStatus(cr, Observed), Refreshed, made)
      /\ OursAlone(WithStatus(cr, Nothing), tf, made)
      /\ OursAlone(Migrated(cr), Connected(Migrated(cr)), made)
      /\ OursAlone(Recorded(cr), tf, Nothing)
      /\ OursAlone(cr, tf, Nothing) /\ OursAlone(cr, Nothing, Nothing)
      /\ OursAlone(cr, [tf EXCEPT !.bind = None], made)
      /\ OursAlone(cr, [tf EXCEPT !.inst = None], made)
  BY <1>t, OperatorsKeepOurs
<1>n. \A f \in foreign : f # last + 1 /\ f # None
  BY <1>t DEF TypeOK, ForeignIsOlder, None
<1> USE DEF fixed, OursAlone
<1>1. CASE Connect
  BY <1>1, <1>k DEF Connect
<1>2. CASE Observe
  BY <1>2, <1>k DEF Observe
<1>3. CASE HealExternalName
  \* A half of theirs is not in the window, and not of the instance named.
  <2>1. btp.inst \notin foreign /\ btp.bind \notin foreign
    BY <1>3, <1>t DEF HealExternalName, CanHeal, Owned, Truncated, ForeignInBTP
  <2> QED
    BY <1>3, <1>t, <2>1 DEF HealExternalName, TypeOK
<1>4. CASE NothingToHeal
  BY <1>4, <1>t DEF NothingToHeal
<1>5. CASE RecordPending
  BY <1>5, <1>t DEF RecordPending, TypeOK
<1>6. CASE CreateInstance
  BY <1>6, <1>t, <1>n DEF CreateInstance, TypeOK, Pair
<1>7. CASE CreateBinding
  BY <1>7, <1>t, <1>n DEF CreateBinding, TypeOK, Pair
<1>8. CASE CreateRefused
  BY <1>8, <1>t DEF CreateRefused
<1>9. CASE RecordResult
  BY <1>9, <1>t, <1>k DEF RecordResult, Failed, TypeOK, Recorded
<1>10. CASE DeleteBinding
  BY <1>10, <1>t, <1>k DEF DeleteBinding
<1>11. CASE DeleteInstance
  BY <1>11, <1>t, <1>k DEF DeleteInstance
<1>12. CASE Finalize
  BY <1>12, <1>t DEF Finalize, TypeOK
<1>13. CASE ObserveFails
  BY <1>13, <1>t, <1>k DEF ObserveFails
<1>14. CASE LookupFails
  BY <1>14, <1>t DEF LookupFails
<1>15. CASE WriteFails
  BY <1>15, <1>k DEF WriteFails
<1>16. CASE Restart
  BY <1>16, <1>k DEF Restart
<1>17. CASE UserDeletes
  BY <1>17, <1>t DEF UserDeletes, TypeOK
<1>18. CASE UserClearsIncomplete
  BY <1>18, <1>t DEF UserClearsIncomplete, TypeOK
<1>19. CASE LostInBTP
  BY <1>19, <1>t DEF LostInBTP
<1>20. CASE UNCHANGED vars
  BY <1>20, <1>t DEF vars
<1> QED
  BY <1>1, <1>2, <1>3, <1>4, <1>5, <1>6, <1>7, <1>8, <1>9, <1>10, <1>11, <1>12, <1>13,
     <1>14, <1>15, <1>16, <1>17, <1>18, <1>19, <1>20 DEF Next, Reconcile

\* BTP keeps theirs apart from ours: a new instance has no binding, a new
\* binding is made for an instance that the name has.
LEMMA NextForeignInBTP == IInv /\ [Next]_vars => ForeignIsOlder' /\ ForeignInBTP'
<1> SUFFICES ASSUME IInv, [Next]_vars PROVE ForeignIsOlder' /\ ForeignInBTP'
  OBVIOUS
<1>t. TypeOK /\ ForeignIsOlder /\ ForeignInBTP
  BY DEF IInv
<1>n. last \in Nat /\ (\A f \in foreign : f # last + 1 /\ f # None) /\ last + 1 >= 2
  BY <1>t DEF TypeOK, ForeignIsOlder, None
<1>w. ~World(None, None).inWindow /\ World(None, None).bind = None
  BY DEF World
<1>f. foreign' = foreign
  BY DEF Next, Reconcile, Connect, Observe, HealExternalName, NothingToHeal, RecordPending,
     CreateInstance, CreateBinding, CreateRefused, RecordResult, DeleteBinding,
     DeleteInstance, Finalize, ObserveFails, LookupFails, WriteFails, Restart, UserDeletes,
     UserClearsIncomplete, LostInBTP, fixed, vars
<1> DEFINE Shrinks == \/ btp' = btp
                      \/ btp' = [btp EXCEPT !.inWindow = FALSE]
                      \/ btp' = [btp EXCEPT !.bind = None]
                      \/ btp' = World(None, None)
<1>s. ASSUME Shrinks, last' = last PROVE ForeignIsOlder' /\ ForeignInBTP'
  BY <1>s, <1>t, <1>f, <1>n, <1>w DEF ForeignIsOlder, ForeignInBTP, TypeOK
<1>1. CASE CreateInstance
  BY <1>1, <1>f, <1>n DEF CreateInstance, ForeignIsOlder, ForeignInBTP
<1>2. CASE CreateBinding
  BY <1>2, <1>t, <1>f, <1>n DEF CreateBinding, ForeignIsOlder, ForeignInBTP, TypeOK
<1>3. CASE \/ RecordPending \/ DeleteBinding \/ DeleteInstance \/ LostInBTP
  <2>1. Shrinks /\ last' = last
    BY <1>3 DEF RecordPending, DeleteBinding, DeleteInstance, LostInBTP,
       WithoutBinding, WithoutInstance
  <2> QED
    BY <2>1, <1>s
<1>4. CASE \/ Connect \/ Observe \/ HealExternalName \/ NothingToHeal \/ CreateRefused
           \/ RecordResult \/ Finalize \/ ObserveFails \/ LookupFails \/ WriteFails
           \/ Restart \/ UserDeletes \/ UserClearsIncomplete \/ UNCHANGED vars
  <2>1. btp' = btp /\ last' = last
    BY <1>4 DEF Connect, Observe, HealExternalName, NothingToHeal, CreateRefused,
       RecordResult, Finalize, ObserveFails, LookupFails, WriteFails, Restart,
       UserDeletes, UserClearsIncomplete, vars
  <2> QED
    BY <2>1, <1>s
<1> QED
  BY <1>1, <1>2, <1>3, <1>4 DEF Next, Reconcile

\* Somebody else's instance and binding are never recorded, so never deleted
\* by a resource of the same names (IsOwnedByCR in healExternalName).
THEOREM ForeignIsNeverRecorded == Spec => []ForeignIsSpared
<1>1. Init => IInv
  BY InitIInv
<1>2. IInv /\ [Next]_vars => IInv'
  BY NextType, NextOursAlone, NextForeignInBTP DEF IInv
<1>3. IInv => ForeignIsSpared
  BY DEF IInv, OursAlone, ForeignIsSpared
<1> QED
  BY <1>1, <1>2, <1>3, PTL DEF Spec

-----------------------------------------------------------------------------
(* Recorded halves.                                                        *)

\* CloudManagement never clears an id of its status, so BTP has that instance
\* or none.
StatusFollows ==
    kind = "CloudManagement" /\ cr.sInst # None /\ btp.inst # None => btp.inst = cr.sInst

HealsIncomplete == pc = "heal" => cr.bind = None

\* The Terraform state of the instance is the name's or BTP's; once observed,
\* BTP's; and after Connect there is one if the name has one.
StatesFollow ==
    /\ tf.inst # None /\ btp.inst # None =>
          /\ tf.inst \in {cr.inst, btp.inst}
          /\ pc \notin {"idle", "observe"} => tf.inst = btp.inst
    /\ pc = "observe" /\ cr.inst # None => tf.inst # None

\* A create for a name that BTP still has knows its instance; a status without
\* an instance means that the process knows none.
Chosen ==
    pc \in {"heal", "pending", "create"} =>
        /\ cr.inst # None /\ cr.inst = btp.inst => tf.inst = cr.inst
        /\ cr.sInst = None => tf.inst = None

\* A binding that the name does not have was made for the name's instance.
MigrationIsSafe ==
    /\ kind = "CloudManagement" /\ cr.bind = None
    /\ tf.bind # None \/ cr.sBind # None
    => cr.sInst # None /\ cr.inst = cr.sInst

\* What Create returns for the name takes the place of a lost instance, or adds
\* to the name's instance the binding it lacks.
MadeFits ==
    pc = "record" =>
        IF made.bind = None
        THEN /\ cr.inst # None => cr.inst # btp.inst
             /\ btp.bind = None /\ cr.sInst = None
        ELSE /\ made.inst = cr.inst
             /\ cr.bind # None => cr.bind # btp.bind

Steady == /\ StatusFollows /\ HealsIncomplete /\ StatesFollow /\ Chosen
          /\ MigrationIsSafe /\ MadeFits
RInv == TypeOK /\ Steady

\* The initial states are steady.
LEMMA InitRInv == Init => RInv
<1> SUFFICES ASSUME Init PROVE Steady
  BY InitType DEF RInv
<1> QED
  BY DEF Init, Steady, StatusFollows, HealsIncomplete, StatesFollow, Chosen, MigrationIsSafe,
     MadeFits, Nothing, Pair, Resource, None

\* What Observe makes of what it saw.
LEMMA Verdicts ==
    ASSUME NEW o
    PROVE  /\ Verdict(o) \in {"idle", "delete", "heal", "pending", "finalize"}
           /\ Verdict(o) \in {"heal", "pending", "finalize"} => ~ResourceExists(o)
           /\ Verdict(o) = "heal" <=> ~ResourceExists(o) /\ cr.bind = None
           /\ Verdict(o) \in {"delete", "finalize"} => del
           /\ Verdict(o) = "pending" => ~del
           /\ del /\ ResourceExists(o) => Verdict(o) = "delete"
<1>1. CASE ResourceExists(o)
  <2>1. Verdict(o) = IF del THEN "delete" ELSE "idle"
    BY <1>1 DEF Verdict
  <2> QED
    BY <1>1, <2>1
<1>2. CASE ~ResourceExists(o)
  <2>1. Verdict(o) = IF cr.bind = None THEN "heal" ELSE Missing
    BY <1>2 DEF Verdict
  <2> QED
    BY <1>2, <2>1 DEF Missing
<1> QED
  BY <1>1, <1>2

\* Every step of the reconcile, of users and of somebody else keeps it so.
LEMMA NextSteady == RInv /\ [Next]_vars => Steady'
<1> SUFFICES ASSUME RInv, [Next]_vars PROVE Steady'
  OBVIOUS
<1> USE DEF RInv, Steady, StatusFollows, HealsIncomplete, StatesFollow, Chosen, MigrationIsSafe,
     MadeFits, TypeOK, Goto, fixed
<1>n. None # last + 1 /\ \A x \in Ids : x # last + 1
  BY DEF None, Ids
<1>1. CASE Connect
  BY <1>1 DEF Connect, Migrated, MigrationNeeded, Connected, Pair
<1>2. CASE Observe
  <2>1. /\ pc = "observe" /\ btp' = btp /\ made' = made /\ kind' = kind
        /\ cr'.inst = cr.inst /\ cr'.bind = cr.bind
        /\ cr' = cr \/ cr' = WithStatus(cr, Observed)
        /\ pc' = "idle" \/ (pc' = Verdict(Observed) /\ cr' = WithStatus(cr, Observed))
    BY <1>2 DEF Observe, WithStatus
  <2>2. /\ SeesInstance => Observed.inst = btp.inst /\ Observed.inst = tf.inst /\ btp.inst # None
        /\ ~SeesInstance => Observed.inst = None
        /\ Observed.bind \in {None, tf.bind}
        /\ tf'.inst = Observed.inst /\ tf'.bind \in {None, tf.bind}
        /\ ResourceExists(Observed) => SeesInstance
    BY <1>2 DEF Observe, Observed, Refreshed, SeesInstance, Pair, ResourceExists
  <2>3. /\ WithStatus(cr, Observed).sInst =
              IF kind = "CloudManagement" /\ Observed.inst = None THEN cr.sInst ELSE Observed.inst
        /\ WithStatus(cr, Observed).sBind =
              IF kind = "CloudManagement" /\ Observed.bind = None THEN cr.sBind ELSE Observed.bind
    BY DEF WithStatus
  <2>4. StatusFollows' /\ MigrationIsSafe'
    BY <2>1, <2>2, <2>3
  <2>5. HealsIncomplete' /\ MadeFits'
    BY <2>1, Verdicts
  <2>6. pc' \notin {"idle", "observe"} => pc' \in {"delete", "heal", "pending", "finalize"}
    BY <2>1, Verdicts
  <2>7. cr.inst # None /\ cr.inst = btp.inst => SeesInstance
    BY <2>1 DEF SeesInstance
  <2>8. StatesFollow' /\ Chosen'
    BY <2>1, <2>2, <2>3, <2>6, <2>7, Verdicts
  <2> QED
    BY <2>4, <2>5, <2>8
<1>3. CASE HealExternalName
  BY <1>3 DEF HealExternalName, CanHeal, Owned, Truncated
<1>4. CASE NothingToHeal
  BY <1>4 DEF NothingToHeal, Missing
<1>5. CASE RecordPending
  BY <1>5 DEF RecordPending
<1>6. CASE CreateInstance
  BY <1>6, <1>n DEF CreateInstance, InstanceFits, NeedsInstance, Pair
<1>7. CASE CreateBinding
  BY <1>7, <1>n DEF CreateBinding, BindingFits, NeedsInstance, Pair
<1>8. CASE CreateRefused
  BY <1>8 DEF CreateRefused
<1>9. CASE RecordResult
  BY <1>9 DEF RecordResult, Recorded, Failed, Nothing, Pair
<1>10. CASE DeleteBinding
  BY <1>10 DEF DeleteBinding, WithoutBinding
<1>11. CASE DeleteInstance
  BY <1>11 DEF DeleteInstance, WithoutInstance, World
<1>12. CASE Finalize
  BY <1>12 DEF Finalize
<1>13. CASE ObserveFails
  BY <1>13 DEF ObserveFails, WithStatus, Nothing, Pair
<1>14. CASE LookupFails
  BY <1>14 DEF LookupFails, Missing
<1>15. CASE WriteFails
  BY <1>15 DEF WriteFails
<1>16. CASE Restart
  BY <1>16 DEF Restart, Nothing, Pair
<1>17. CASE UserDeletes
  BY <1>17 DEF UserDeletes
<1>18. CASE UserClearsIncomplete
  BY <1>18 DEF UserClearsIncomplete
<1>19. CASE LostInBTP
  BY <1>19 DEF LostInBTP, World
<1>20. CASE UNCHANGED vars
  BY <1>20 DEF vars
<1> QED
  BY <1>1, <1>2, <1>3, <1>4, <1>5, <1>6, <1>7, <1>8, <1>9, <1>10, <1>11, <1>12, <1>13,
     <1>14, <1>15, <1>16, <1>17, <1>18, <1>19, <1>20 DEF Next, Reconcile

\* A recorded half is replaced in a step only when BTP does not have it.
HalfIsKept == /\ cr.inst # cr'.inst => cr.inst = None \/ cr.inst # btp.inst
              /\ cr.bind # cr'.bind => cr.bind = None \/ cr.bind # btp.bind

\* Only four steps write the name: a migration, a heal, the record of a create
\* and (rewriting it as it is) everything else.
LEMMA StepKeepsHalves == RInv /\ [Next]_vars => HalfIsKept
<1> SUFFICES ASSUME RInv, [Next]_vars PROVE HalfIsKept
  OBVIOUS
<1> USE DEF HalfIsKept, RInv, Steady, TypeOK
<1>1. CASE Connect
  \* A migration fills in the binding of the instance the name has.
  BY <1>1 DEF Connect, Migrated, MigrationNeeded, MigrationIsSafe
<1>2. CASE HealExternalName
  BY <1>2 DEF HealExternalName, CanHeal, Owned, Truncated, HealsIncomplete
<1>3. CASE RecordResult
  BY <1>3 DEF RecordResult, Recorded, Failed, MadeFits
<1>4. CASE ~Connect /\ ~HealExternalName /\ ~RecordResult
  <2>1. cr'.inst = cr.inst /\ cr'.bind = cr.bind
    BY <1>4 DEF Next, Reconcile, Observe, WithStatus, NothingToHeal, RecordPending,
       CreateInstance, CreateBinding, CreateRefused, DeleteBinding, DeleteInstance,
       Finalize, ObserveFails, LookupFails, WriteFails, Restart, UserDeletes,
       UserClearsIncomplete, LostInBTP, vars
  <2> QED
    BY <2>1
<1> QED
  BY <1>1, <1>2, <1>3, <1>4

\* What is recorded is not forgotten while BTP has it: neither Create's new
\* name, nor healing, nor migration overwrites it.
THEOREM RecordedIsNotForgotten == Spec => RecordedIsKept
<1>1. Init => RInv
  BY InitRInv
<1>2. RInv /\ [Next]_vars => RInv'
  BY NextType, NextSteady DEF RInv
<1>3. RInv /\ [Next]_vars =>
        [/\ cr.inst # cr'.inst => cr.inst = None \/ cr.inst # btp.inst
         /\ cr.bind # cr'.bind => cr.bind = None \/ cr.bind # btp.bind]_vars
  BY StepKeepsHalves DEF HalfIsKept
<1> QED
  BY <1>1, <1>2, <1>3, PTL DEF Spec, RecordedIsKept

-----------------------------------------------------------------------------
(* Nothing is left behind.                                                 *)

\* What DeleteLeavesNothing assumes.
Clean == Never({"clear"}) /\ (Never({"lost"}) \/ Never({"blind", "loss"}))

Ours == btp.inst \notin foreign \cup {None}

\* An instance of ours is in the name, and then a deletion sees it; or the create
\* that made it is unanswered; or its answer was lost and a heal will find it.
IsRecorded == cr.inst = btp.inst /\ ~(del /\ pc \in {"heal", "finalize"})
Unanswered == cr.incomplete /\ (pc = "idle" \/ (pc = "record" /\ made.inst = btp.inst))
Findable ==
    /\ ~Never({"lost"}) /\ cr.inst = None /\ cr.attempted /\ btp.inWindow
    /\ pc \notin {"pending", "create", "record", "finalize"}

InstanceIsKnown == Ours => cr.phase # "gone" /\ (IsRecorded \/ Unanswered \/ Findable)

\* Creates are announced and belong to no deletion, a name and BTP have no binding
\* without an instance, and unless somebody deletes in BTP a name is that of the
\* instance there until our own deletion.
Orderly ==
    /\ pc \in {"create", "record", "failed"} => cr.attempted /\ cr.incomplete
    /\ pc \in {"pending", "create", "record", "failed"} => ~del
    /\ pc \in {"delete", "deleteinstance", "finalize"} => del
    /\ del => cr.phase # "live"
    /\ pc = "record" => made.inst # None
    /\ cr.inst = None => cr.bind = None
    /\ cr.phase = "gone" => pc = "idle"
    /\ btp.inst \in foreign \cup {None} => btp.bind \in foreign \cup {None}
    /\ Never({"loss"}) /\ ~del => /\ cr.inst # None => cr.inst = btp.inst
                                  /\ pc = "record" => made.inst = btp.inst

LInv == Orderly /\ (Clean => InstanceIsKnown)

\* Events are counted, and never forgotten.
LEMMA EventsGo ==
    ASSUME TypeOK, UNCHANGED events \/ (\E e \in Events : Happens(e))
    PROVE  /\ \A k \in Events : Never({k})' => Never({k}) /\ ~Happens(k)
           /\ Clean' => Clean
<1>1. ASSUME NEW k \in Events, Never({k})' PROVE Never({k}) /\ ~Happens(k)
  <2>1. events \in [Events -> Nat] /\ events'[k] = 0
    BY <1>1 DEF TypeOK, Never
  <2>2. ~Happens(k)
    <3>1. SUFFICES ASSUME Happens(k) PROVE FALSE
      OBVIOUS
    <3>2. events[k] \in Nat /\ events'[k] = events[k] + 1
      BY <2>1, <3>1 DEF Happens
    <3> QED
      BY <2>1, <3>2
  <2>3. events[k] = 0
    <3>1. CASE UNCHANGED events
      BY <2>1, <3>1
    <3>2. ASSUME NEW e \in Events, Happens(e) PROVE events[k] = 0
      <4>1. events' = [events EXCEPT ![e] = events[e] + 1] /\ e # k
        BY <2>2, <3>2 DEF Happens
      <4> QED
        BY <2>1, <4>1
    <3> QED
      BY <3>1, <3>2
  <2> QED
    BY <2>2, <2>3 DEF Never
<1>2. Clean' => Clean
  <2>1. {"clear", "lost", "blind", "loss"} \subseteq Events
    BY DEF Events
  <2> QED
    BY <1>1, <2>1 DEF Clean, Never
<1> QED
  BY <1>1, <1>2

\* Each step is one event or none.
LEMMA StepsAreEvents ==
    ASSUME [Next]_vars
    PROVE  UNCHANGED events \/ (\E e \in Events : Happens(e))
BY DEF Next, Reconcile, Connect, Observe, HealExternalName, NothingToHeal, RecordPending,
   CreateInstance, CreateBinding, CreateRefused, RecordResult, DeleteBinding, DeleteInstance,
   Finalize, ObserveFails, LookupFails, WriteFails, Restart, UserDeletes,
   UserClearsIncomplete, LostInBTP, Events, vars

LEMMA InitLInv == Init => LInv
<1> SUFFICES ASSUME Init PROVE LInv
  OBVIOUS
<1>1. pc = "idle" /\ ~del /\ cr.phase = "live"
  BY DEF Init, Resource
<1>2. PICK w \in Worlds :
          /\ btp = IF w = "empty" THEN World(None, None) ELSE World(1, 2)
          /\ cr = CASE w = "imported" -> Resource(1, 2)
                    [] w = "half"     -> Resource(1, None)
                    [] OTHER          -> Resource(None, None)
          /\ foreign = IF w = "foreign" THEN {1, 2} ELSE {}
  BY DEF Init
<1>3. w \in AllWorlds
  BY ConstantsAssumption
<1>4. CASE w \in {"empty", "foreign"}
  BY <1>1, <1>2, <1>4 DEF LInv, Orderly, InstanceIsKnown, Ours, Resource, World, None
<1>5. CASE w \in {"imported", "half"}
  BY <1>1, <1>2, <1>5 DEF LInv, Orderly, InstanceIsKnown, Ours, IsRecorded, Resource, World, None
<1> QED
  BY <1>3, <1>4, <1>5 DEF AllWorlds

LEMMA NextOrderly == IInv /\ RInv /\ LInv /\ [Next]_vars => Orderly'
<1> SUFFICES ASSUME IInv, RInv, LInv, [Next]_vars PROVE Orderly'
  OBVIOUS
<1>t. /\ TypeOK /\ Orderly /\ MadeFits /\ MigrationIsSafe /\ Chosen /\ OursAlone(cr, tf, made)
      /\ ForeignIsOlder
  BY DEF IInv, RInv, Steady, LInv
<1>e. (Never({"loss"})' => Never({"loss"}) /\ ~Happens("loss")) 
  <2>1. "loss" \in Events
    BY DEF Events
  <2> QED
    BY <1>t, <2>1, EventsGo, StepsAreEvents
<1>n. None # last + 1 /\ last \in Nat /\ \A f \in foreign : f # last + 1 /\ f # None
  BY <1>t DEF None, TypeOK, ForeignIsOlder
<1> USE <1>t, <1>e DEF Orderly, TypeOK, Goto, fixed
<1>1. CASE Connect
  BY <1>1 DEF Connect, Migrated, MigrationNeeded, MigrationIsSafe
<1>2. CASE Observe
  BY <1>2, Verdicts DEF Observe, WithStatus, Current
<1>3. CASE HealExternalName
  BY <1>3 DEF HealExternalName, CanHeal
<1>4. CASE NothingToHeal
  BY <1>4 DEF NothingToHeal, Missing
<1>5. CASE RecordPending
  <2>1. btp'.inst = btp.inst /\ btp'.bind = btp.bind
    BY <1>5 DEF RecordPending
  <2> QED
    BY <1>5, <2>1 DEF RecordPending
<1>6. CASE CreateInstance
  BY <1>6, <1>n DEF CreateInstance, InstanceFits, NeedsInstance, Pair
<1>7. CASE CreateBinding
  BY <1>7, <1>n DEF CreateBinding, BindingFits, NeedsInstance, Pair, Chosen, OursAlone
<1>8. CASE CreateRefused
  BY <1>8 DEF CreateRefused
<1>9. CASE RecordResult
  BY <1>9 DEF RecordResult, Recorded, Failed, Nothing, Pair, MadeFits
<1>10. CASE DeleteBinding
  BY <1>10 DEF DeleteBinding, WithoutBinding
<1>11. CASE DeleteInstance
  BY <1>11 DEF DeleteInstance, WithoutInstance, World
<1>12. CASE Finalize
  BY <1>12 DEF Finalize
<1>13. CASE ObserveFails
  BY <1>13 DEF ObserveFails, WithStatus, Nothing, Pair
<1>14. CASE LookupFails
  BY <1>14 DEF LookupFails, Missing
<1>15. CASE WriteFails
  BY <1>15 DEF WriteFails
<1>16. CASE Restart
  BY <1>16 DEF Restart, Nothing, Pair
<1>17. CASE UserDeletes
  BY <1>17 DEF UserDeletes
<1>18. CASE UserClearsIncomplete
  BY <1>18 DEF UserClearsIncomplete
<1>19. CASE LostInBTP
  BY <1>19 DEF LostInBTP, World
<1>20. CASE UNCHANGED vars
  BY <1>20 DEF vars
<1> QED
  BY <1>1, <1>2, <1>3, <1>4, <1>5, <1>6, <1>7, <1>8, <1>9, <1>10, <1>11, <1>12, <1>13,
     <1>14, <1>15, <1>16, <1>17, <1>18, <1>19, <1>20 DEF Next, Reconcile

LEMMA NextKnown == IInv /\ RInv /\ LInv /\ [Next]_vars /\ Clean' => InstanceIsKnown'
<1> SUFFICES ASSUME IInv, RInv, LInv, [Next]_vars, Clean', Ours'
             PROVE  cr'.phase # "gone" /\ (IsRecorded \/ Unanswered \/ Findable)'
  BY DEF InstanceIsKnown
<1>t. TypeOK /\ Orderly /\ MadeFits /\ MigrationIsSafe /\ StatesFollow
  BY DEF RInv, Steady, LInv
<1>e. /\ Clean /\ InstanceIsKnown
      /\ Happens("lost") => ~Never({"lost"})' /\ Never({"loss"})
      /\ ~Never({"lost"}) => ~Never({"lost"})'
      /\ ~Never({"lost"}) => ~Happens("blind")
      /\ ~Happens("clear")
  <2>1. {"lost", "loss", "blind", "clear"} \subseteq Events
    BY DEF Events
  <2>2. Clean /\ \A k \in Events : Never({k})' => Never({k}) /\ ~Happens(k)
    BY <1>t, EventsGo, StepsAreEvents
  <2>3. /\ Never({"clear"})'
        /\ ~Never({"lost"})' => Never({"blind"})' /\ Never({"loss"})'
    BY DEF Clean, Never
  <2> QED
    BY <2>1, <2>2, <2>3 DEF LInv
<1>m. None # last + 1 /\ \A x \in Ids : x # last + 1
  BY <1>t DEF None, Ids, TypeOK
<1>n. foreign' = foreign
  BY DEF Next, Reconcile, Connect, Observe, HealExternalName, NothingToHeal, RecordPending,
     CreateInstance, CreateBinding, CreateRefused, RecordResult, DeleteBinding,
     DeleteInstance, Finalize, ObserveFails, LookupFails, WriteFails, Restart, UserDeletes,
     UserClearsIncomplete, LostInBTP, fixed, vars
<1> USE <1>t, <1>e, <1>m, <1>n DEF Orderly, TypeOK, Goto, fixed, InstanceIsKnown, Ours, IsRecorded,
        Unanswered, Findable
<1>1. CASE Connect
  BY <1>1 DEF Connect, Migrated, MigrationNeeded, MigrationIsSafe
<1>2. CASE Observe
  <2>1. /\ pc = "observe" /\ btp' = btp /\ del' = del /\ made' = made /\ events' = events
        /\ cr'.inst = cr.inst /\ cr'.bind = cr.bind /\ cr'.phase = cr.phase /\ cr'.attempted = cr.attempted
    BY <1>2 DEF Observe, WithStatus
  <2>2. pc' \in {"idle", "delete", "heal", "pending", "finalize"} /\ (pc' = "finalize" => del)
        /\ (pc' \in {"pending", "finalize"} => cr.bind # None)
        /\ (del /\ SeesInstance => pc' \in {"idle", "delete"})
    <3>1. pc' = "idle" \/ pc' = Verdict(Observed)
      BY <1>2 DEF Observe
    <3>2. del /\ SeesInstance => ResourceExists(Observed)
      BY DEF Observed, SeesInstance, Pair, ResourceExists
    <3> QED
      BY <3>1, <3>2, Verdicts
  \* A deletion sees the instance that the name has: its state is of the name or of BTP.
  <2>3. cr.inst = btp.inst => SeesInstance
    BY <2>1 DEF StatesFollow, SeesInstance
  <2>4. IsRecorded \/ Findable
    BY <2>1
  <2>5. CASE IsRecorded
    BY <2>1, <2>2, <2>3, <2>5
  <2>6. CASE Findable
    BY <2>1, <2>2, <2>6
  <2> QED
    BY <2>4, <2>5, <2>6
<1>3. CASE HealExternalName
  BY <1>3 DEF HealExternalName, CanHeal
<1>4. CASE NothingToHeal
  BY <1>4 DEF NothingToHeal, Missing, CanHeal, Owned, Truncated
<1>5. CASE RecordPending
  <2>1. btp'.inst = btp.inst
    BY <1>5 DEF RecordPending
  <2> QED
    BY <1>5, <2>1 DEF RecordPending
<1>6. CASE CreateInstance
  BY <1>6 DEF CreateInstance, InstanceFits, Pair
<1>7. CASE CreateBinding
  BY <1>7 DEF CreateBinding
<1>8. CASE CreateRefused
  BY <1>8 DEF CreateRefused
<1>9. CASE RecordResult
  BY <1>9 DEF RecordResult, Recorded, Failed, MadeFits
<1>10. CASE DeleteBinding
  BY <1>10 DEF DeleteBinding, WithoutBinding
<1>11. CASE DeleteInstance
  BY <1>11 DEF DeleteInstance, WithoutInstance, World
<1>12. CASE Finalize
  BY <1>12 DEF Finalize
<1>13. CASE ObserveFails
  BY <1>13 DEF ObserveFails, WithStatus, Nothing, Pair
<1>14. CASE LookupFails
  BY <1>14 DEF LookupFails, Missing
<1>15. CASE WriteFails
  BY <1>15 DEF WriteFails
<1>16. CASE Restart
  BY <1>16 DEF Restart
<1>17. CASE UserDeletes
  BY <1>17 DEF UserDeletes
<1>18. CASE UserClearsIncomplete
  BY <1>18 DEF UserClearsIncomplete
<1>19. CASE LostInBTP
  BY <1>19 DEF LostInBTP, World
<1>20. CASE UNCHANGED vars
  BY <1>20 DEF vars
<1> QED
  BY <1>1, <1>2, <1>3, <1>4, <1>5, <1>6, <1>7, <1>8, <1>9, <1>10, <1>11, <1>12, <1>13,
     <1>14, <1>15, <1>16, <1>17, <1>18, <1>19, <1>20 DEF Next, Reconcile

\* A resource that is gone has left no instance and no binding of its own in BTP,
\* whatever fails or restarts, but for the create whose lost answer a failed lookup,
\* somebody's deletion or the user's word hides (Observe, healExternalName, Delete).
THEOREM NothingIsLeft == Spec => []DeleteLeavesNothing
<1>1. Init => IInv /\ RInv /\ LInv
  BY InitIInv, InitRInv, InitLInv
<1>2. IInv /\ RInv /\ LInv /\ [Next]_vars => (IInv /\ RInv /\ LInv)'
  BY NextType, NextOursAlone, NextForeignInBTP, NextSteady, NextOrderly, NextKnown DEF IInv, RInv, LInv
<1>3. LInv => DeleteLeavesNothing
  BY DEF LInv, Orderly, Clean, InstanceIsKnown, Ours, DeleteLeavesNothing
<1> QED
  BY <1>1, <1>2, <1>3, PTL DEF Spec
=============================================================================

------------------------- MODULE AsyncInstance_proofs -------------------------
(***************************************************************************)
(* Theorems about AsyncInstance, for any beginnings, any events and any    *)
(* number of them.                                                         *)
(***************************************************************************)
EXTENDS AsyncInstance, TLAPS

-----------------------------------------------------------------------------
(* The inductive invariant.                                                *)

\* No copy of the resource and no Terraform state has the id of somebody else's
\* instance, and neither has what is inside the window of an attempted create.
NoForeignId ==
    /\ last # 0
    /\ cr.name \notin foreign /\ cr.guid \notin foreign
    /\ my.name \notin foreign /\ my.guid \notin foreign
    /\ tf \notin foreign
    /\ btp.inWindow => btp.id \notin foreign

AInv == TypeOK /\ NoForeignId

-----------------------------------------------------------------------------
(* Types.                                                                  *)

Instances == [id : Ids, config : Nat, inWindow : BOOLEAN]
Operations == [kind : {"none", "create", "update", "delete"}, gen : Nat, runs : BOOLEAN]
Answers == {"none", "conflict", "create", "update", "delete"}

LEMMA Known ==
    ASSUME AInv
    PROVE  /\ foreign \subseteq {1} /\ last \in Nat /\ last # 0
           /\ cr \in Resources /\ cr.name \notin foreign /\ cr.guid \notin foreign
           /\ my \in Resources /\ my.name \notin foreign /\ my.guid \notin foreign
           /\ tf \in Ids /\ tf \notin foreign
           /\ btp \in Instances /\ (btp.inWindow => btp.id \notin foreign)
           /\ op \in Operations /\ ended \subseteq Results /\ pc \in Steps
           /\ events \in [Events -> Nat]
           /\ None \in Ids /\ None \notin foreign /\ 0 \in Nat
<1>1. last \in Nat /\ foreign \subseteq {1}
  BY DEF AInv, TypeOK
<1>2. None \in Ids /\ 0 \in Nat
  BY <1>1 DEF Ids, None
<1>3. None \notin foreign
  BY <1>1 DEF None
<1> QED
  BY <1>1, <1>2, <1>3 DEF AInv, TypeOK, NoForeignId, Instances, Operations

\* Ids are used up and never given back.
LEMMA Grown ==
    ASSUME last \in Nat, last' \in Nat, last <= last'
    PROVE  Ids \subseteq Ids' /\ Resources \subseteq Resources' /\ Instances \subseteq Instances'
<1>1. Ids \subseteq Ids'
  BY DEF Ids
<1> QED
  BY <1>1 DEF Resources, Instances

LEMMA Keeps ==
    ASSUME AInv, foreign' = foreign, last' \in Nat, last <= last',
           cr' \in Resources', cr'.name \notin foreign, cr'.guid \notin foreign,
           my' \in Resources', my'.name \notin foreign, my'.guid \notin foreign,
           tf' \in Ids', tf' \notin foreign,
           btp' \in Instances', btp'.inWindow => btp'.id \notin foreign,
           op' \in Operations, ended' \subseteq Results, pc' \in Steps, events' \in [Events -> Nat]
    PROVE  AInv'
<1>1. last' # 0
  BY Known
<1>2. TypeOK'
  BY Known DEF TypeOK, Instances, Operations, Results, Steps, Events
<1>3. NoForeignId'
  BY <1>1 DEF NoForeignId
<1> QED
  BY <1>2, <1>3 DEF AInv

\* The same for steps that use no id.
LEMMA QuietKeeps ==
    ASSUME AInv, foreign' = foreign, last' = last,
           cr' \in Resources, cr'.name \notin foreign, cr'.guid \notin foreign,
           my' \in Resources, my'.name \notin foreign, my'.guid \notin foreign,
           tf' \in Ids, tf' \notin foreign,
           btp' \in Instances, btp'.inWindow => btp'.id \notin foreign,
           op' \in Operations, ended' \subseteq Results, pc' \in Steps, events' \in [Events -> Nat]
    PROVE  AInv'
<1>1. last' \in Nat /\ last <= last'
  BY Known
<1>2. Ids \subseteq Ids' /\ Resources \subseteq Resources' /\ Instances \subseteq Instances'
  BY <1>1, Known, Grown
<1> QED
  BY <1>1, <1>2, Keeps

LEMMA NoCopyTyped ==
    ASSUME AInv
    PROVE  /\ NoCopy \in Resources /\ NoCopy.name = None /\ NoCopy.guid = None
           /\ NoFailure \in Results
<1>1. NoFailure \in Results
  BY DEF NoFailure, Results
<1>2. NoCopy = [phase |-> "live", gen |-> 1, name |-> None, marker |-> 0, cond |-> NoFailure,
                attempted |-> FALSE, incomplete |-> FALSE, guid |-> None]
  BY DEF NoCopy, Resource
<1> QED
  BY <1>1, <1>2, Known DEF Resources

LEMMA EventsTyped ==
    ASSUME AInv, UNCHANGED events \/ (\E e \in Events : Happens(e))
    PROVE  events' \in [Events -> Nat]
<1>1. \A n \in Nat : n + 1 \in Nat
  OBVIOUS
<1>2. ASSUME NEW e \in Events, Happens(e) PROVE events' \in [Events -> Nat]
  BY <1>1, <1>2, Known DEF Happens
<1> QED
  BY <1>2, Known

\* A step of the reconcile that writes nothing.
LEMMA StepGives ==
    ASSUME AInv, NEW step \in Steps, NEW copy \in Resources, copy.name \notin foreign, copy.guid \notin foreign,
           Step(step, copy)
    PROVE  my' \in Resources /\ my'.name \notin foreign /\ my'.guid \notin foreign /\ pc' \in Steps
BY NoCopyTyped, Known DEF Step

LEMMA GotoGives ==
    ASSUME AInv, NEW step \in Steps, Goto(step)
    PROVE  my' \in Resources /\ my'.name \notin foreign /\ my'.guid \notin foreign /\ pc' \in Steps
BY StepGives, Known DEF Goto

\* A step that writes the resource, or is refused.
LEMMA WriteGives ==
    ASSUME AInv, NEW step \in Steps, NEW new \in Resources, new.name \notin foreign, new.guid \notin foreign,
           Write(new, step)
    PROVE  /\ my' \in Resources /\ my'.name \notin foreign /\ my'.guid \notin foreign /\ pc' \in Steps
           /\ cr' \in Resources /\ cr'.name \notin foreign /\ cr'.guid \notin foreign
<1> DEFINE w == [new EXCEPT !.guid = None]
<1>1. w \in Resources /\ w.name = new.name /\ w.guid = None
  BY Known DEF Resources
<1>2. CASE cr' = w /\ Step(step, new)
  BY <1>1, <1>2, StepGives, Known
<1>3. CASE UNCHANGED cr /\ Goto("idle")
  BY <1>3, GotoGives, Known DEF Steps
<1> QED
  BY <1>2, <1>3 DEF Write

-----------------------------------------------------------------------------
(* The steps of a reconcile.                                               *)

LEMMA ConnectKeeps == ASSUME AInv, Connect PROVE AInv'
<1>1. my' \in Resources /\ my'.name \notin foreign /\ my'.guid \notin foreign /\ pc' \in Steps
  BY StepGives, Known DEF Connect, Steps
<1>2. tf' \in Ids /\ tf' \notin foreign
  BY Known DEF Connect, Imported, Resources
<1> QED
  BY <1>1, <1>2, QuietKeeps, Known DEF Connect, world

LEMMA ObserveConflictKeeps == ASSUME AInv, ObserveConflict PROVE AInv'
<1>1. my' \in Resources /\ my'.name \notin foreign /\ my'.guid \notin foreign /\ pc' \in Steps
  BY GotoGives DEF ObserveConflict, Steps
<1> QED
  BY <1>1, QuietKeeps, Known DEF ObserveConflict, world, process

LEMMA ObserveKeeps == ASSUME AInv, Observe PROVE AInv'
<1> DEFINE named == [my EXCEPT !.name = tf]
<1>1. named \in Resources /\ named.name = tf /\ named.guid = my.guid
  BY Known DEF Resources
<1>2. tf' \in Ids /\ tf' \notin foreign
  BY Known, Zenon DEF Observe
<1>3. Idle \in Operations
  BY DEF Idle, Operations
<1>4. op' \in Operations
  BY <1>3, Known, Zenon DEF Observe
<1>5. /\ my' \in Resources /\ my'.name \notin foreign /\ my'.guid \notin foreign /\ pc' \in Steps
      /\ cr' \in Resources /\ cr'.name \notin foreign /\ cr'.guid \notin foreign
  <2>1. Write(named, "idle")
        \/ (Goto(IF Exists THEN Found ELSE NotExisting) /\ UNCHANGED cr)
    BY Zenon DEF Observe
  <2>2. "idle" \in Steps /\ (IF Exists THEN Found ELSE NotExisting) \in Steps
    BY DEF Found, NotExisting, Missing, Steps
  <2>3. CASE Write(named, "idle")
    <3>1. named.name \notin foreign /\ named.guid \notin foreign
      BY <1>1, Known
    <3> QED
      BY <1>1, <2>2, <2>3, <3>1, WriteGives
  <2>4. CASE Goto(IF Exists THEN Found ELSE NotExisting) /\ UNCHANGED cr
    BY <2>2, <2>4, GotoGives, Known
  <2> QED
    BY <2>1, <2>3, <2>4
<1>6. foreign' = foreign /\ last' = last /\ btp' = btp /\ ended' = ended /\ events' = events
  BY DEF Observe, world
<1> QED
  BY <1>2, <1>4, <1>5, <1>6, QuietKeeps, Known

LEMMA HealClearsKeeps == ASSUME AInv, HealClears PROVE AInv'
<1> DEFINE new == [my EXCEPT !.cond = NoFailure, !.guid = btp.id]
<1>1. btp.id \in Ids /\ btp.id \notin foreign
  BY Known DEF HealClears, CanHeal, Instances
<1>2. new \in Resources /\ new.name = my.name /\ new.guid = btp.id
  BY <1>1, NoCopyTyped, Known DEF Resources
<1>3. new.name \notin foreign /\ new.guid \notin foreign
  BY <1>1, <1>2, Known
<1>4. Write(new, "name") /\ "name" \in Steps
  BY DEF HealClears, Steps
<1>5. /\ my' \in Resources /\ my'.name \notin foreign /\ my'.guid \notin foreign /\ pc' \in Steps
      /\ cr' \in Resources /\ cr'.name \notin foreign /\ cr'.guid \notin foreign
  BY <1>2, <1>3, <1>4, WriteGives
<1> QED
  BY <1>5, QuietKeeps, Known DEF HealClears, world, process

LEMMA HealNamesKeeps == ASSUME AInv, HealNames PROVE AInv'
<1> DEFINE new == [my EXCEPT !.name = my.guid]
<1>1. my.guid \in Ids /\ my.guid \notin foreign
  BY Known DEF Resources
<1>2. new \in Resources /\ new.name = my.guid /\ new.guid = my.guid
  BY <1>1, Known DEF Resources
<1>3. new.name \notin foreign /\ new.guid \notin foreign
  BY <1>1, <1>2
<1>4. Write(new, "idle") /\ "idle" \in Steps
  BY DEF HealNames, Steps
<1>5. /\ my' \in Resources /\ my'.name \notin foreign /\ my'.guid \notin foreign /\ pc' \in Steps
      /\ cr' \in Resources /\ cr'.name \notin foreign /\ cr'.guid \notin foreign
  BY <1>2, <1>3, <1>4, WriteGives
<1> QED
  BY <1>5, QuietKeeps, Known DEF HealNames, world, process

LEMMA NothingToHealKeeps == ASSUME AInv, NothingToHeal PROVE AInv'
<1>1. Unhealed \in Steps
  BY DEF Unhealed, Missing, Steps
<1>2. my' \in Resources /\ my'.name \notin foreign /\ my'.guid \notin foreign /\ pc' \in Steps
  BY <1>1, GotoGives DEF NothingToHeal
<1>3. events' \in [Events -> Nat]
  BY EventsTyped DEF NothingToHeal, Events
<1> QED
  BY <1>2, <1>3, QuietKeeps, Known DEF NothingToHeal, world, process

LEMMA RecordPendingKeeps == ASSUME AInv, RecordPending PROVE AInv'
<1> DEFINE new == [my EXCEPT !.attempted = TRUE, !.incomplete = TRUE]
<1>1. new \in Resources /\ new.name = my.name /\ new.guid = my.guid
  BY Known DEF Resources
<1>2. new.name \notin foreign /\ new.guid \notin foreign
  BY <1>1, Known
<1>3. Write(new, "mark") /\ "mark" \in Steps
  BY DEF RecordPending, Steps
<1>4. /\ my' \in Resources /\ my'.name \notin foreign /\ my'.guid \notin foreign /\ pc' \in Steps
      /\ cr' \in Resources /\ cr'.name \notin foreign /\ cr'.guid \notin foreign
  BY <1>1, <1>2, <1>3, WriteGives
<1>5. btp' \in Instances /\ (btp'.inWindow => btp'.id \notin foreign)
  <2>1. CASE UNCHANGED btp
    BY <2>1, Known
  <2>2. CASE btp' = [btp EXCEPT !.inWindow = FALSE]
    BY <2>2, Known DEF Instances
  <2> QED
    BY <2>1, <2>2 DEF RecordPending
<1>6. events' \in [Events -> Nat]
  BY EventsTyped DEF RecordPending, Events
<1>7. foreign' = foreign /\ last' = last /\ tf' = tf /\ op' = op /\ ended' = ended
  BY DEF RecordPending, process
<1> QED
  BY <1>4, <1>5, <1>6, <1>7, QuietKeeps, Known

LEMMA MarkKeeps == ASSUME AInv, Mark PROVE AInv'
<1> DEFINE launch == IF pc = "mark" THEN "create" ELSE "launch"
           new == [my EXCEPT !.marker = my.gen]
<1>1. launch \in Steps
  BY DEF Steps
<1>2. new \in Resources /\ new.name = my.name /\ new.guid = my.guid
  BY Known DEF Resources
<1>3. new.name \notin foreign /\ new.guid \notin foreign
  BY <1>2, Known
<1>4. (Goto(launch) /\ UNCHANGED cr) \/ Write(new, launch)
  BY Zenon DEF Mark
<1> HIDE DEF launch, new
<1>5. CASE Goto(launch) /\ UNCHANGED cr
  <2>1. my' \in Resources /\ my'.name \notin foreign /\ my'.guid \notin foreign /\ pc' \in Steps
    BY <1>1, <1>5, GotoGives
  <2> QED
    BY <1>5, <2>1, QuietKeeps, Known DEF Mark, world, process
<1>6. CASE Write(new, launch)
  <2>1. /\ my' \in Resources /\ my'.name \notin foreign /\ my'.guid \notin foreign /\ pc' \in Steps
        /\ cr' \in Resources /\ cr'.name \notin foreign /\ cr'.guid \notin foreign
    BY <1>1, <1>2, <1>3, <1>6, WriteGives
  <2> QED
    BY <2>1, QuietKeeps, Known DEF Mark, world, process
<1> QED
  BY <1>4, <1>5, <1>6

LEMMA OperationTyped ==
    ASSUME AInv, NEW kind \in {"create", "update", "delete"}
    PROVE  Operation(kind, my.gen) \in Operations
BY Known DEF Operation, Operations, Resources

LEMMA LaunchKeeps == ASSUME AInv, LaunchCreate \/ LaunchUpdate \/ Delete PROVE AInv'
<1>1. my' \in Resources /\ my'.name \notin foreign /\ my'.guid \notin foreign /\ pc' \in Steps
  BY GotoGives DEF LaunchCreate, LaunchUpdate, Delete, Steps
<1>2. op' \in Operations
  BY OperationTyped, Known DEF LaunchCreate, LaunchUpdate, Delete
<1> QED
  BY <1>1, <1>2, QuietKeeps, Known DEF LaunchCreate, LaunchUpdate, Delete, world

LEMMA RecordResultKeeps == ASSUME AInv, RecordResult PROVE AInv'
<1>1. my' \in Resources /\ my'.name \notin foreign /\ my'.guid \notin foreign /\ pc' \in Steps
  BY GotoGives DEF RecordResult, Steps
<1>2. cr' \in Resources /\ cr'.name = cr.name /\ cr'.guid = cr.guid
  BY Known DEF RecordResult, Resources
<1> QED
  BY <1>1, <1>2, QuietKeeps, Known DEF RecordResult, world, process

LEMMA FinalizeKeeps == ASSUME AInv, Finalize PROVE AInv'
<1> DEFINE new == [my EXCEPT !.phase = "gone"]
<1>1. new \in Resources /\ new.name = my.name /\ new.guid = my.guid
  BY Known DEF Resources
<1>2. new.name \notin foreign /\ new.guid \notin foreign
  BY <1>1, Known
<1>3. Write(new, "idle") /\ "idle" \in Steps
  BY DEF Finalize, Steps
<1>4. /\ my' \in Resources /\ my'.name \notin foreign /\ my'.guid \notin foreign /\ pc' \in Steps
      /\ cr' \in Resources /\ cr'.name \notin foreign /\ cr'.guid \notin foreign
  BY <1>1, <1>2, <1>3, WriteGives
<1> QED
  BY <1>4, QuietKeeps, Known DEF Finalize, world, process

-----------------------------------------------------------------------------
(* The operations and their callbacks.                                     *)

\* A new id is nobody's: ids of others are among the first.
LEMMA CreatedTyped ==
    ASSUME AInv, last' = last + 1
    PROVE  /\ Created \in Instances' /\ Created.id \notin foreign
           /\ last' \in Nat /\ last <= last'
           /\ last + 1 \in Ids' /\ last + 1 \notin foreign
<1>1. last + 1 \in Nat /\ last <= last + 1 /\ last + 1 # 1
  BY Known
<1>2. last + 1 \in Ids' /\ last + 1 \notin foreign
  BY <1>1, Known DEF Ids
<1>3. op.gen \in Nat
  BY Known DEF Operations
<1> QED
  BY <1>1, <1>2, <1>3 DEF Created, Instances

LEMMA ChangesTyped ==
    ASSUME AInv
    PROVE  /\ Updated \in Instances /\ (Updated.inWindow => Updated.id \notin foreign)
           /\ Removed \in Instances /\ (Removed.inWindow => Removed.id \notin foreign)
           /\ Instance(None, 0) \in Instances /\ Instance(None, 0).id = None
<1>1. Instance(None, 0) \in Instances /\ Instance(None, 0).id = None
  BY Known DEF Instance, Instances
<1>2. op.gen \in Nat
  BY Known DEF Operations
<1>3. [btp EXCEPT !.config = op.gen] \in Instances
  BY <1>2, Known DEF Instances
<1>4. /\ [btp EXCEPT !.config = op.gen].id = btp.id
      /\ [btp EXCEPT !.config = op.gen].inWindow = btp.inWindow
  BY Known DEF Instances
<1>5. Updated \in {btp, [btp EXCEPT !.config = op.gen]}
  BY DEF Updated
<1>6. Removed \in {btp, Instance(None, 0)}
  BY DEF Removed
<1> QED
  BY <1>1, <1>3, <1>4, <1>5, <1>6, Known

LEMMA EndedGives ==
    ASSUME AInv, NEW what \in Answers, Ended(what)
    PROVE  /\ op' \in Operations /\ ended' \subseteq Results
           /\ foreign' = foreign /\ cr' = cr /\ my' = my /\ pc' = pc
<1>1. [op EXCEPT !.runs = FALSE] \in Operations /\ op.gen \in Nat
  BY Known DEF Operations
<1>2. Failure(what, op.gen) \in Results
  BY <1>1 DEF Failure, Results, Answers
<1> QED
  BY <1>1, <1>2, Known DEF Ended

LEMMA CreateEndsKeeps == ASSUME AInv, CreateEnds PROVE AInv'
<1>1. events' \in [Events -> Nat]
  BY EventsTyped DEF CreateEnds, Events
<1>2. \E what \in Answers : Ended(what)
  BY DEF CreateEnds, Answers
<1>3. /\ op' \in Operations /\ ended' \subseteq Results
      /\ foreign' = foreign /\ cr' = cr /\ my' = my /\ pc' = pc
  BY <1>2, EndedGives
<1>4. CASE UNCHANGED <<btp, last, tf>>
  <2>1. btp' = btp /\ last' = last /\ tf' = tf
    BY <1>4
  <2> QED
    BY <1>1, <1>3, <2>1, QuietKeeps, Known
<1>5. CASE btp' = Created /\ last' = last + 1 /\ tf' \in {last + 1, tf}
  <2>1. btp' \in Instances' /\ (btp'.inWindow => btp'.id \notin foreign) /\ last' \in Nat /\ last <= last'
    BY <1>5, CreatedTyped
  <2>2. Ids \subseteq Ids' /\ Resources \subseteq Resources'
    BY <2>1, Known, Grown
  <2>3. tf' \in Ids' /\ tf' \notin foreign
    BY <1>5, <2>2, CreatedTyped, Known
  <2>4. cr' \in Resources' /\ my' \in Resources'
    BY <1>3, <2>2, Known
  <2>5. /\ cr'.name \notin foreign /\ cr'.guid \notin foreign
        /\ my'.name \notin foreign /\ my'.guid \notin foreign /\ pc' \in Steps
    BY <1>3, Known
  <2> QED
    BY <1>1, <1>3, <2>1, <2>3, <2>4, <2>5, Keeps
<1>6. UNCHANGED <<btp, last, tf>> \/ (btp' = Created /\ last' = last + 1 /\ tf' \in {last + 1, tf})
  BY DEF CreateEnds
<1> QED
  BY <1>4, <1>5, <1>6

LEMMA UpdateEndsKeeps == ASSUME AInv, UpdateEnds PROVE AInv'
<1>1. events' \in [Events -> Nat]
  BY EventsTyped DEF UpdateEnds, Events
<1>2. \E what \in Answers : Ended(what)
  BY DEF UpdateEnds, Answers
<1>3. /\ op' \in Operations /\ ended' \subseteq Results
      /\ foreign' = foreign /\ cr' = cr /\ my' = my /\ pc' = pc
  BY <1>2, EndedGives
<1>4. btp' \in {btp, Updated} /\ last' = last /\ tf' = tf
  BY DEF UpdateEnds
<1>5. btp' \in Instances /\ (btp'.inWindow => btp'.id \notin foreign)
  BY <1>4, ChangesTyped, Known
<1> QED
  BY <1>1, <1>3, <1>4, <1>5, QuietKeeps, Known

LEMMA DeleteEndsKeeps == ASSUME AInv, DeleteEnds PROVE AInv'
<1>1. events' \in [Events -> Nat]
  BY EventsTyped DEF DeleteEnds, Events
<1>2. \E what \in Answers : Ended(what)
  BY DEF DeleteEnds, Answers
<1>3. /\ op' \in Operations /\ ended' \subseteq Results
      /\ foreign' = foreign /\ cr' = cr /\ my' = my /\ pc' = pc
  BY <1>2, EndedGives
<1>4. btp' \in {btp, Removed} /\ last' = last /\ tf' \in {tf, None}
  BY DEF DeleteEnds
<1>5. btp' \in Instances /\ (btp'.inWindow => btp'.id \notin foreign)
  BY <1>4, ChangesTyped, Known
<1>6. tf' \in Ids /\ tf' \notin foreign
  BY <1>4, Known
<1> QED
  BY <1>1, <1>3, <1>4, <1>5, <1>6, QuietKeeps, Known

LEMMA CallbackKeeps ==
    ASSUME AInv, NEW c \in ended, Callback(c) \/ CallbackFails(c)
    PROVE  AInv'
<1>1. c \in Results /\ cr.marker \in Nat /\ cr.gen \in Nat
  BY Known DEF Resources
<1>2. LabelFor \in Nat
  BY <1>1 DEF LabelFor
<1> DEFINE cond == IF c.of = "none" THEN NoFailure ELSE Failure(c.of, LabelFor)
           new == [cr EXCEPT !.cond = cond]
<1>3. c.of \in {"none", "conflict", "create", "update", "delete"}
  BY <1>1 DEF Results
<1>4. cond \in Results
  <2>1. Failure(c.of, LabelFor) \in Results
    BY <1>2, <1>3 DEF Failure, Results
  <2> QED
    BY <2>1, NoCopyTyped
<1>5. cr' = cr \/ cr' = new
  BY Zenon DEF Callback, CallbackFails
<1> HIDE DEF cond
<1>6. new \in Resources
  BY <1>4, Known DEF Resources
<1>7. new.name = cr.name /\ new.guid = cr.guid
  BY Known DEF Resources
<1> HIDE DEF new
<1>8. cr' \in Resources /\ cr'.name \notin foreign /\ cr'.guid \notin foreign
  BY <1>5, <1>6, <1>7, Known
<1>9. events' \in [Events -> Nat]
  BY EventsTyped DEF Callback, CallbackFails, Events
<1>10. ended' \subseteq Results
  BY Known DEF Callback, CallbackFails
<1>11. /\ foreign' = foreign /\ btp' = btp /\ last' = last /\ tf' = tf /\ op' = op
       /\ my' = my /\ pc' = pc
  BY DEF Callback, CallbackFails, world
<1> QED
  BY <1>8, <1>9, <1>10, <1>11, QuietKeeps, Known

-----------------------------------------------------------------------------
(* Users and failures.                                                     *)

LEMMA UserKeeps ==
    ASSUME AInv, UserEdits \/ UserDeletes \/ UserClearsIncomplete
    PROVE  AInv'
<1>1. cr.gen + 1 \in Nat
  BY Known DEF Resources
<1>2. UserEdits => cr' \in Resources
  BY <1>1, Known DEF UserEdits, Resources
<1>3. UserDeletes => cr' \in Resources
  BY Known DEF UserDeletes, Resources
<1>4. UserClearsIncomplete => cr' \in Resources
  BY Known DEF UserClearsIncomplete, Resources
<1>5. cr'.name = cr.name /\ cr'.guid = cr.guid
  BY Known DEF UserEdits, UserDeletes, UserClearsIncomplete, Resources
<1>6. events' \in [Events -> Nat]
  BY EventsTyped DEF UserEdits, UserDeletes, UserClearsIncomplete, Events
<1>7. /\ foreign' = foreign /\ btp' = btp /\ last' = last /\ tf' = tf /\ op' = op
      /\ ended' = ended /\ my' = my /\ pc' = pc
  BY DEF UserEdits, UserDeletes, UserClearsIncomplete, world, process
<1> QED
  BY <1>2, <1>3, <1>4, <1>5, <1>6, <1>7, QuietKeeps, Known

LEMMA LostInBTPKeeps == ASSUME AInv, LostInBTP PROVE AInv'
<1>1. btp' \in Instances /\ (btp'.inWindow => btp'.id \notin foreign)
  BY ChangesTyped, Known DEF LostInBTP
<1>2. events' \in [Events -> Nat]
  BY EventsTyped DEF LostInBTP, Events
<1> QED
  BY <1>1, <1>2, QuietKeeps, Known DEF LostInBTP, process

LEMMA CallFailsKeeps == ASSUME AInv, ObserveFails \/ WriteFails \/ MarkFails PROVE AInv'
<1>1. my' \in Resources /\ my'.name \notin foreign /\ my'.guid \notin foreign /\ pc' \in Steps
  BY GotoGives DEF ObserveFails, WriteFails, MarkFails, Steps
<1>2. events' \in [Events -> Nat]
  BY EventsTyped DEF ObserveFails, WriteFails, MarkFails, Events
<1> QED
  BY <1>1, <1>2, QuietKeeps, Known DEF ObserveFails, WriteFails, MarkFails, world, process

LEMMA RestartKeeps == ASSUME AInv, Restart PROVE AInv'
<1>1. my' \in Resources /\ my'.name \notin foreign /\ my'.guid \notin foreign /\ pc' \in Steps
  BY GotoGives DEF Restart, Steps
<1>2. events' \in [Events -> Nat]
  BY EventsTyped DEF Restart, Events
<1>3. Idle \in Operations /\ {} \subseteq Results
  BY DEF Idle, Operations
<1>4. op' \in Operations /\ ended' \subseteq Results /\ tf' = None /\ foreign' = foreign /\ cr' = cr
  BY <1>3 DEF Restart
<1>5. CASE last' = last /\ btp' \in {btp, Updated, Removed}
  <2>1. btp' \in Instances /\ (btp'.inWindow => btp'.id \notin foreign)
    BY <1>5, ChangesTyped, Known
  <2> QED
    BY <1>1, <1>2, <1>4, <1>5, <2>1, QuietKeeps, Known
<1>6. CASE btp' = Created /\ last' = last + 1
  <2>1. btp' \in Instances' /\ (btp'.inWindow => btp'.id \notin foreign) /\ last' \in Nat /\ last <= last'
    BY <1>6, CreatedTyped
  <2>2. Ids \subseteq Ids' /\ Resources \subseteq Resources'
    BY <2>1, Known, Grown
  <2>3. tf' \in Ids' /\ tf' \notin foreign /\ cr' \in Resources' /\ my' \in Resources'
    BY <1>1, <1>4, <2>2, Known
  <2> QED
    BY <1>1, <1>2, <1>4, <2>1, <2>3, Keeps, Known
<1>7. (last' = last /\ btp' \in {btp, Updated, Removed}) \/ (btp' = Created /\ last' = last + 1)
  BY DEF Restart
<1> QED
  BY <1>5, <1>6, <1>7

-----------------------------------------------------------------------------
(* The theorems.                                                           *)

LEMMA InitHolds == ASSUME Init PROVE AInv
<1>1. foreign \subseteq {1} /\ last = 1 /\ last \in Nat
  BY DEF Init
<1>2. {0, 1} \subseteq Ids /\ None = 0
  BY <1>1 DEF Ids, None
<1>3. btp \in {Instance(None, 0), Instance(1, 0)}
  BY DEF Init
<1>4. btp \in Instances /\ ~btp.inWindow
  <2>1. 0 \in Ids /\ 1 \in Ids /\ 0 \in Nat
    BY <1>2
  <2>2. btp = [id |-> None, config |-> 0, inWindow |-> FALSE]
        \/ btp = [id |-> 1, config |-> 0, inWindow |-> FALSE]
    BY <1>3 DEF Instance
  <2>3. \A n \in Ids : [id |-> n, config |-> 0, inWindow |-> FALSE] \in Instances
    BY DEF Instances
  <2>4. None \in Ids
    BY <1>2, <2>1
  <2>5. btp \in Instances
    BY <2>1, <2>2, <2>3, <2>4
  <2>6. btp.inWindow = FALSE
    BY <2>2
  <2> QED
    BY <2>5, <2>6
<1>5. NoFailure \in Results
  BY DEF NoFailure, Results
<1>6. \A n \in {0, 1} : Resource(n) \in Resources /\ Resource(n).name = n /\ Resource(n).guid = None
  BY <1>2, <1>5 DEF Resource, Resources
<1>7. PICK w \in Worlds : /\ cr = Resource(IF w = "imported" THEN 1 ELSE None)
                          /\ foreign = IF w = "foreign" THEN {1} ELSE {}
  BY DEF Init
<1>8. cr \in Resources /\ cr.guid = None /\ cr.name \notin foreign
  <2>1. CASE w = "imported"
    BY <1>6, <1>7, <2>1
  <2>2. CASE w # "imported"
    BY <1>1, <1>2, <1>6, <1>7, <2>2
  <2> QED
    BY <2>1, <2>2
<1>9. my \in Resources /\ my.name = None /\ my.guid = None
  BY <1>2, <1>6 DEF Init, NoCopy
<1>10. op \in Operations /\ ended \subseteq Results /\ pc \in Steps /\ tf = None
  BY DEF Init, Idle, Operations, Steps
<1>11. events \in [Events -> Nat]
  BY DEF Init
<1>12. TypeOK
  <2>1. tf \in Ids
    BY <1>2, <1>10
  <2>2. btp \in [id : Ids, config : Nat, inWindow : BOOLEAN]
    BY <1>4 DEF Instances
  <2>3. op \in [kind : {"none", "create", "update", "delete"}, gen : Nat, runs : BOOLEAN]
    BY <1>10 DEF Operations
  <2> QED
    BY Zenon, <1>1, <1>8, <1>9, <1>10, <1>11, <2>1, <2>2, <2>3 DEF TypeOK
<1>13. None \notin foreign /\ last # 0
  BY <1>1, <1>2
<1>14. NoForeignId
  BY <1>4, <1>8, <1>9, <1>10, <1>13 DEF NoForeignId
<1> QED
  BY <1>12, <1>14 DEF AInv

LEMMA NextKeeps == ASSUME AInv, [Next]_vars PROVE AInv'
<1>1. CASE Reconcile
  BY <1>1, ConnectKeeps, ObserveConflictKeeps, ObserveKeeps, HealClearsKeeps, HealNamesKeeps,
     NothingToHealKeeps, RecordPendingKeeps, MarkKeeps, CallFailsKeeps, LaunchKeeps,
     RecordResultKeeps,
     FinalizeKeeps DEF Reconcile
<1>2. CASE OperationEnds
  BY <1>2, CreateEndsKeeps, UpdateEndsKeeps, DeleteEndsKeeps DEF OperationEnds
<1>3. CASE \E c \in ended : Callback(c) \/ CallbackFails(c)
  BY <1>3, CallbackKeeps
<1>4. CASE NothingToHeal \/ ObserveFails \/ WriteFails \/ MarkFails \/ Restart
  BY <1>4, NothingToHealKeeps, CallFailsKeeps, RestartKeeps
<1>5. CASE UserEdits \/ UserDeletes \/ UserClearsIncomplete \/ LostInBTP
  BY <1>5, UserKeeps, LostInBTPKeeps
<1>6. CASE UNCHANGED vars
  <2>1. /\ foreign' = foreign /\ btp' = btp /\ last' = last /\ cr' = cr /\ tf' = tf /\ op' = op
        /\ ended' = ended /\ my' = my /\ pc' = pc /\ events' = events
    BY <1>6 DEF vars
  <2> QED
    BY <2>1, QuietKeeps, Known
<1> QED
  BY <1>1, <1>2, <1>3, <1>4, <1>5, <1>6 DEF Next

\* The invariant that the theorems below rest on: what a reconcile copies, what
\* a recovery finds and what the Terraform state imports is never foreign.
THEOREM Invariance == Spec => []AInv
<1>1. Init => AInv
  BY InitHolds
<1>2. AInv /\ [Next]_vars => AInv'
  BY NextKeeps
<1> QED
  BY <1>1, <1>2, PTL DEF Spec

\* The state of the resource, its operations and its callbacks is well-typed.
THEOREM TypeCorrect == Spec => []TypeOK
<1>1. AInv => TypeOK
  BY DEF AInv
<1> QED
  BY <1>1, Invariance, PTL

\* An instance of the same name that belongs to somebody else is never recorded
\* as the external-name and never worked on by Terraform, whatever operations
\* fail or overlap (IsOwnedByCR, healExternalName in serviceinstance.go).
THEOREM ForeignIsNeverUsed == Spec => []ForeignIsSpared
<1>1. AInv => ForeignIsSpared
  BY Known DEF ForeignIsSpared
<1> QED
  BY <1>1, Invariance, PTL

-----------------------------------------------------------------------------
(* The generations: an operation, and a failure that its callback has yet  *)
(* to save, is never newer than the marker on the resource.                *)

Failures == {"conflict", "create", "update"}
MarkedFor(g, marker) == g # 0 /\ g <= marker

MarkerLeads ==
    /\ cr.gen # 0 /\ my.gen # 0
    /\ cr.marker <= cr.gen /\ my.marker <= cr.marker
    /\ pc \in {"create", "launch"} => my.marker = my.gen

ResultsAreMarked ==
    /\ op.runs /\ op.kind \in {"create", "update"} => MarkedFor(op.gen, cr.marker)
    /\ \A c \in ended : c.of \in Failures => MarkedFor(c.gen, cr.marker)

GInv == MarkerLeads /\ ResultsAreMarked

LEMMA Numbers ==
    ASSUME AInv
    PROVE  /\ cr.gen \in Nat /\ cr.marker \in Nat /\ my.gen \in Nat /\ my.marker \in Nat
           /\ op.gen \in Nat /\ \A c \in ended : c.gen \in Nat
BY Known DEF Resources, Operations, Results

\* The marker grows, and what is new is marked.
LEMMA GKeeps ==
    ASSUME AInv, AInv', GInv, MarkerLeads', cr.marker <= cr'.marker,
           op' = op \/ ~op'.runs \/ op'.kind = "delete" \/ MarkedFor(op'.gen, cr'.marker),
           \A c \in ended' : c \in ended \/ (c.of \in Failures => MarkedFor(c.gen, cr'.marker))
    PROVE  GInv'
<1>1. \A g \in Nat : MarkedFor(g, cr.marker) => MarkedFor(g, cr'.marker)
  <2>1. cr'.marker \in Nat
    BY Numbers DEF AInv, TypeOK, Resources
  <2> QED
    BY <2>1, Numbers DEF MarkedFor
<1>2. op'.runs /\ op'.kind \in {"create", "update"} => MarkedFor(op'.gen, cr'.marker)
  <2>1. op.runs /\ op.kind \in {"create", "update"} => MarkedFor(op.gen, cr'.marker)
    BY <1>1, Numbers DEF GInv, ResultsAreMarked
  <2> QED
    BY <2>1
<1>3. ASSUME NEW c \in ended', c.of \in Failures PROVE MarkedFor(c.gen, cr'.marker)
  <2>1. c \in ended => c.gen \in Nat /\ MarkedFor(c.gen, cr.marker)
    BY <1>3, Numbers DEF GInv, ResultsAreMarked
  <2> QED
    BY <1>1, <1>3, <2>1
<1> QED
  BY <1>2, <1>3 DEF GInv, ResultsAreMarked

LEMMA NoCopyNumbers == NoCopy.gen = 1 /\ NoCopy.marker = 0
BY DEF NoCopy, Resource

\* A step of the reconcile that writes nothing, and one that writes or is refused.
LEMMA GotoMarks ==
    ASSUME AInv, GInv, NEW step, Goto(step), cr'.gen = cr.gen, cr'.marker = cr.marker,
           step \in {"create", "launch"} => my.marker = my.gen
    PROVE  MarkerLeads' /\ cr.marker <= cr'.marker
<1>1. my' = my \/ (my' = NoCopy /\ step = "idle")
  BY DEF Goto, Step
<1>2. pc' = step
  BY DEF Goto, Step
<1> QED
  BY <1>1, <1>2, NoCopyNumbers, Numbers DEF GInv, MarkerLeads

LEMMA WriteMarks ==
    ASSUME AInv, GInv, NEW new \in Resources, NEW step, Write(new, step),
           new.gen = my.gen, new.marker \in {my.marker, my.gen},
           step \in {"create", "launch"} => new.marker = my.gen
    PROVE  MarkerLeads' /\ cr.marker <= cr'.marker
<1> DEFINE w == [new EXCEPT !.guid = None]
<1>1. CASE [my EXCEPT !.guid = None] = cr /\ cr' = w /\ Step(step, new)
  <2>1. my.gen = cr.gen /\ my.marker = cr.marker
    <3>1. [my EXCEPT !.guid = None].gen = my.gen /\ [my EXCEPT !.guid = None].marker = my.marker
      BY Known DEF Resources
    <3> QED
      BY <1>1, <3>1
  <2>2. w.gen = new.gen /\ w.marker = new.marker
    BY DEF Resources
  <2>3. cr'.gen = cr.gen /\ cr'.marker = new.marker
    BY <1>1, <2>1, <2>2
  <2>4. my' = new \/ (my' = NoCopy /\ step = "idle")
    BY <1>1 DEF Step
  <2>5. pc' = step
    BY <1>1 DEF Step
  <2>6. cr.marker <= cr'.marker /\ cr'.marker <= cr'.gen
    BY <2>1, <2>3, Numbers DEF GInv, MarkerLeads
  <2>7. my'.gen # 0 /\ my'.marker <= cr'.marker
    BY <2>1, <2>3, <2>4, NoCopyNumbers, Numbers DEF GInv, MarkerLeads
  <2> QED
    BY <2>1, <2>3, <2>4, <2>5, <2>6, <2>7 DEF GInv, MarkerLeads
<1>2. CASE UNCHANGED cr /\ Goto("idle")
  BY <1>2, GotoMarks
<1> QED
  BY <1>1, <1>2 DEF Write, Current

\* Connect copies the resource; the operation and the results stay.
LEMMA ConnectMarks == ASSUME AInv, AInv', GInv, Connect PROVE GInv'
<1>1. pc' = "observe" /\ my' = cr /\ cr' = cr /\ op' = op /\ ended' = ended
  BY DEF Connect, Step
<1>2. MarkerLeads' /\ cr.marker <= cr'.marker
  BY <1>1, Numbers DEF GInv, MarkerLeads
<1> QED
  BY <1>1, <1>2, GKeeps

\* Steps that decide, or write something else than the marker.
LEMMA QuietMarks ==
    ASSUME AInv, AInv', GInv,
           \/ ObserveConflict \/ Observe \/ HealClears \/ HealNames \/ NothingToHeal
           \/ RecordPending \/ Finalize \/ ObserveFails \/ WriteFails \/ MarkFails
    PROVE  GInv'
<1>1. CASE ObserveConflict \/ NothingToHeal \/ ObserveFails \/ WriteFails \/ MarkFails
  <2>1. \E step \in Steps \ {"create", "launch"} : Goto(step)
    BY <1>1 DEF ObserveConflict, NothingToHeal, Unhealed, Missing, ObserveFails, WriteFails, MarkFails,
       Steps
  <2>2. cr' = cr /\ op' = op /\ ended' = ended
    BY <1>1 DEF ObserveConflict, NothingToHeal, ObserveFails, WriteFails, MarkFails, process
  <2>3. MarkerLeads' /\ cr.marker <= cr'.marker
    BY <2>1, <2>2, GotoMarks
  <2> QED
    BY <2>2, <2>3, GKeeps
<1>2. CASE Observe
  <2> DEFINE named == [my EXCEPT !.name = tf]
  <2>1. named \in Resources /\ named.gen = my.gen /\ named.marker = my.marker
    BY Known DEF Resources
  <2>2. Write(named, "idle") \/ (Goto(IF Exists THEN Found ELSE NotExisting) /\ UNCHANGED cr)
    BY <1>2, Zenon DEF Observe
  <2>3. (IF Exists THEN Found ELSE NotExisting) \notin {"create", "launch"}
    BY DEF Found, NotExisting, Missing
  <2> HIDE DEF named
  <2>4. MarkerLeads' /\ cr.marker <= cr'.marker
    BY <2>1, <2>2, <2>3, WriteMarks, GotoMarks
  <2>5. (op' = op \/ op' = Idle) /\ ended' = ended
    BY <1>2, Zenon DEF Observe
  <2>6. Idle.runs = FALSE
    BY DEF Idle
  <2> QED
    BY <2>4, <2>5, <2>6, GKeeps
<1>3. CASE HealClears
  <2> DEFINE new == [my EXCEPT !.cond = NoFailure, !.guid = btp.id]
  <2>1. new \in Resources /\ new.gen = my.gen /\ new.marker = my.marker
    BY NoCopyTyped, Known DEF Resources, Instances
  <2>2. Write(new, "name") /\ op' = op /\ ended' = ended
    BY <1>3 DEF HealClears, process
  <2> HIDE DEF new
  <2>3. MarkerLeads' /\ cr.marker <= cr'.marker
    BY <2>1, <2>2, WriteMarks
  <2> QED
    BY <2>2, <2>3, GKeeps
<1>4. CASE HealNames
  <2> DEFINE new == [my EXCEPT !.name = my.guid]
  <2>1. new \in Resources /\ new.gen = my.gen /\ new.marker = my.marker
    BY Known DEF Resources
  <2>2. Write(new, "idle") /\ op' = op /\ ended' = ended
    BY <1>4 DEF HealNames, process
  <2> HIDE DEF new
  <2>3. MarkerLeads' /\ cr.marker <= cr'.marker
    BY <2>1, <2>2, WriteMarks
  <2> QED
    BY <2>2, <2>3, GKeeps
<1>5. CASE RecordPending
  <2> DEFINE new == [my EXCEPT !.attempted = TRUE, !.incomplete = TRUE]
  <2>1. new \in Resources /\ new.gen = my.gen /\ new.marker = my.marker
    BY Known DEF Resources
  <2>2. Write(new, "mark") /\ op' = op /\ ended' = ended
    BY <1>5 DEF RecordPending, process
  <2> HIDE DEF new
  <2>3. MarkerLeads' /\ cr.marker <= cr'.marker
    BY <2>1, <2>2, WriteMarks
  <2> QED
    BY <2>2, <2>3, GKeeps
<1>6. CASE Finalize
  <2> DEFINE new == [my EXCEPT !.phase = "gone"]
  <2>1. new \in Resources /\ new.gen = my.gen /\ new.marker = my.marker
    BY Known DEF Resources
  <2>2. Write(new, "idle") /\ op' = op /\ ended' = ended
    BY <1>6 DEF Finalize, process
  <2> HIDE DEF new
  <2>3. MarkerLeads' /\ cr.marker <= cr'.marker
    BY <2>1, <2>2, WriteMarks
  <2> QED
    BY <2>2, <2>3, GKeeps
<1> QED
  BY <1>1, <1>2, <1>3, <1>4, <1>5, <1>6

\* The marker is written before the launch.
LEMMA MarkMarks == ASSUME AInv, AInv', GInv, Mark PROVE GInv'
<1> DEFINE launch == IF pc = "mark" THEN "create" ELSE "launch"
           new == [my EXCEPT !.marker = my.gen]
<1>1. new \in Resources /\ new.gen = my.gen /\ new.marker = my.gen
  BY Known DEF Resources
<1>2. (my.marker = my.gen /\ Goto(launch) /\ UNCHANGED cr) \/ Write(new, launch)
  BY Zenon DEF Mark
<1>3. op' = op /\ ended' = ended
  BY DEF Mark, process
<1> HIDE DEF new, launch
<1>4. MarkerLeads' /\ cr.marker <= cr'.marker
  BY <1>1, <1>2, GotoMarks, WriteMarks
<1> QED
  BY <1>3, <1>4, GKeeps

\* What is launched has the generation of the marker.
LEMMA LaunchMarks == ASSUME AInv, AInv', GInv, LaunchCreate \/ LaunchUpdate \/ Delete PROVE GInv'
<1>1. /\ cr' = cr /\ ended' = ended
      /\ Goto("record") \/ Goto("idle")
  BY DEF LaunchCreate, LaunchUpdate, Delete
<1>2. MarkerLeads' /\ cr.marker <= cr'.marker
  BY <1>1, GotoMarks
<1>3. \/ op' = op \/ op' = Operation("delete", my.gen)
      \/ pc \in {"create", "launch"} /\ op' \in {Operation("create", my.gen), Operation("update", my.gen)}
  BY DEF LaunchCreate, LaunchUpdate, Delete
<1>4. pc \in {"create", "launch"} => MarkedFor(my.gen, cr'.marker)
  BY <1>1, Numbers DEF MarkedFor, GInv, MarkerLeads
<1>5. \A kind \in {"create", "update", "delete"} :
          Operation(kind, my.gen).kind = kind /\ Operation(kind, my.gen).gen = my.gen
  BY DEF Operation
<1>6. op' = op \/ op'.kind = "delete" \/ MarkedFor(op'.gen, cr'.marker)
  BY <1>3, <1>4, <1>5
<1> QED
  BY <1>1, <1>2, <1>6, GKeeps

\* The resource changes, its marker does not.
LEMMA OthersMark ==
    ASSUME AInv, AInv', GInv,
           \/ RecordResult \/ UserEdits \/ UserDeletes \/ UserClearsIncomplete \/ LostInBTP \/ Restart
           \/ \E c \in ended : Callback(c) \/ CallbackFails(c)
    PROVE  GInv'
<1>1. cr'.marker = cr.marker /\ (cr'.gen = cr.gen \/ cr'.gen = cr.gen + 1)
  <2>1. CASE RecordResult
    BY <2>1, Known DEF RecordResult, Resources
  <2>2. CASE UserEdits
    BY <2>2, Known DEF UserEdits, Resources
  <2>3. CASE UserDeletes
    BY <2>3, Known DEF UserDeletes, Resources
  <2>4. CASE UserClearsIncomplete
    BY <2>4, Known DEF UserClearsIncomplete, Resources
  <2>5. CASE LostInBTP \/ Restart
    BY <2>5 DEF LostInBTP, Restart
  <2>6. CASE \E c \in ended : Callback(c) \/ CallbackFails(c)
    <3>1. cr' = cr \/ \E f : cr' = [cr EXCEPT !.cond = f]
      BY <2>6 DEF Callback, CallbackFails
    <3> QED
      BY <3>1, Known DEF Resources
  <2> QED
    BY <2>1, <2>2, <2>3, <2>4, <2>5, <2>6
<1>2. (my' = my /\ pc' = pc) \/ Goto("idle")
  BY DEF RecordResult, UserEdits, UserDeletes, UserClearsIncomplete, LostInBTP, Restart, Callback, CallbackFails
<1>3. MarkerLeads' /\ cr.marker <= cr'.marker
  <2>1. (my' = my /\ pc' = pc) \/ (pc' = "idle" /\ (my' = my \/ my' = NoCopy))
    BY <1>2 DEF Goto, Step
  <2> QED
    BY <1>1, <2>1, NoCopyNumbers, Numbers DEF GInv, MarkerLeads
<1>4. ended' \subseteq ended
  BY DEF RecordResult, UserEdits, UserDeletes, UserClearsIncomplete, LostInBTP, Restart, Callback, CallbackFails, process
<1>5. op' = op \/ op' = Idle
  BY DEF RecordResult, UserEdits, UserDeletes, UserClearsIncomplete, LostInBTP, Restart, Callback, CallbackFails, process
<1>6. Idle.runs = FALSE
  BY DEF Idle
<1> QED
  BY <1>3, <1>4, <1>5, <1>6, GKeeps

\* A result has the generation of its operation.
LEMMA EndsMark == ASSUME AInv, AInv', GInv, OperationEnds PROVE GInv'
<1>1. PICK what \in Answers : /\ Ended(what) /\ op.runs
                              /\ what \in Failures => op.kind \in {"create", "update"}
  BY DEF OperationEnds, CreateEnds, UpdateEnds, DeleteEnds, Running, Answers, Failures
<1>2. cr' = cr /\ my' = my /\ pc' = pc /\ ended' = ended \cup {Failure(what, op.gen)}
  BY <1>1 DEF Ended
<1>3. MarkerLeads' /\ cr.marker <= cr'.marker
  BY <1>2, Numbers DEF GInv, MarkerLeads
<1>4. ~op'.runs
  BY <1>1, Known DEF Ended, Operations
<1>5. Failure(what, op.gen).of = what /\ Failure(what, op.gen).gen = op.gen
  BY DEF Failure
<1>6. what \in Failures => MarkedFor(op.gen, cr'.marker)
  BY <1>1, <1>2 DEF GInv, ResultsAreMarked
<1> QED
  BY <1>2, <1>3, <1>4, <1>5, <1>6, GKeeps

LEMMA InitMarks == ASSUME Init PROVE GInv
<1>1. \A n : Resource(n).gen = 1 /\ Resource(n).marker = 0
  BY DEF Resource
<1>2. cr.gen = 1 /\ cr.marker = 0
  BY <1>1 DEF Init
<1>3. my.gen = 1 /\ my.marker = 0 /\ pc = "idle" /\ op = Idle /\ ended = {}
  BY <1>1 DEF Init, NoCopy
<1>4. op.runs = FALSE
  BY <1>3 DEF Idle
<1> QED
  BY <1>2, <1>3, <1>4 DEF GInv, MarkerLeads, ResultsAreMarked

LEMMA NextMarks == ASSUME AInv, AInv', GInv, [Next]_vars PROVE GInv'
<1>1. CASE Reconcile
  BY <1>1, ConnectMarks, QuietMarks, MarkMarks, LaunchMarks, OthersMark DEF Reconcile
<1>2. CASE OperationEnds
  BY <1>2, EndsMark
<1>3. CASE NothingToHeal \/ ObserveFails \/ WriteFails \/ MarkFails
  BY <1>3, QuietMarks
<1>4. CASE \/ UserEdits \/ UserDeletes \/ UserClearsIncomplete \/ LostInBTP \/ Restart
           \/ \E c \in ended : Callback(c) \/ CallbackFails(c)
  BY <1>4, OthersMark
<1>5. CASE UNCHANGED vars
  <2>1. cr' = cr /\ my' = my /\ pc' = pc /\ op' = op /\ ended' = ended
    BY <1>5 DEF vars
  <2>2. MarkerLeads' /\ cr.marker <= cr'.marker
    BY <2>1, Numbers DEF GInv, MarkerLeads
  <2> QED
    BY <2>1, <2>2, GKeeps
<1> QED
  BY <1>1, <1>2, <1>3, <1>4, <1>5 DEF Next

LEMMA CallbackLabels ==
    ASSUME AInv, GInv, NEW c \in ended, Callback(c), c.of \in Failures, cr.phase # "gone"
    PROVE  cr'.cond.gen = c.gen \/ cr.marker > c.gen
<1>1. c.gen \in Nat /\ c.gen # 0 /\ c.gen <= cr.marker
  BY Numbers DEF GInv, ResultsAreMarked, MarkedFor
<1>2. LabelFor = cr.marker
  BY <1>1, Numbers DEF LabelFor
<1>3. c.of # "none"
  BY DEF Failures
<1>4. cr' = [cr EXCEPT !.cond = Failure(c.of, cr.marker)]
  BY <1>2, <1>3 DEF Callback
<1>5. cr'.cond = Failure(c.of, cr.marker)
  BY <1>4, Known DEF Resources
<1>6. cr'.cond.gen = cr.marker
  BY <1>5 DEF Failure
<1> QED
  BY <1>1, <1>6, Numbers

\* A failure is saved for the generation it was launched for, however often the
\* spec is edited before its callback runs; only the launch of a later operation
\* in between relabels it (saveCallback and startAsyncOperation in
\* serviceinstance.go).
THEOREM ResultsKeepTheirLabel == Spec => EditsDoNotRelabel
<1>1. Init => GInv
  BY InitMarks
<1>2. AInv /\ AInv' /\ GInv /\ [Next]_vars => GInv'
  BY NextMarks
<1>3. AInv /\ GInv =>
        [\A c \in ended :
            Callback(c) /\ c.of \in {"conflict", "create", "update"} /\ cr.phase # "gone" =>
                cr'.cond.gen = c.gen \/ cr.marker > c.gen]_vars
  BY CallbackLabels DEF Failures
<1> QED
  BY <1>1, <1>2, <1>3, Invariance, PTL DEF Spec, EditsDoNotRelabel

-----------------------------------------------------------------------------
(* Nothing is left behind.                                                 *)

\* What DeleteLeavesNothing assumes.
Clean == Never({"clear"}) /\ (Never({"lost", "restart"}) \/ Never({"blind", "loss"}))

Ours == btp.id \notin foreign \cup {None}

\* A create is launched or about to be; nobody has read yet that the resource is deleted.
Making == pc \in {"mark", "create"} \/ (Running /\ op.kind = "create")
Alive == cr.phase = "live" \/ (pc # "idle" /\ my.phase = "live")

\* A copy knows the name and the attempts, and not less of the deletion than it acts on.
CopyKnows ==
    pc # "idle" =>
        /\ my.name = cr.name /\ my.attempted = cr.attempted
        /\ my.phase # "live" => cr.phase # "live"
        /\ my.phase # "gone" /\ cr.phase # "gone"

\* A reconcile creates, heals or lets go only where it saw neither an operation nor a
\* state, but for the heal of a conflict.
Orderly ==
    /\ pc \in {"pending", "mark", "create", "finalize"} => ~Running /\ tf = None
    /\ pc = "heal" => ConflictHolds \/ (~Running /\ tf = None)
    /\ pc = "name" => my.phase = "live" \/ ~Running
    /\ pc \in {"delete", "finalize"} => Deleting
    /\ pc \in {"pending", "mark", "create"} => ~Deleting
    /\ Running /\ op.kind = "delete" => ~Alive
    /\ cr.phase = "gone" => pc = "idle" /\ ~Running

\* Unless somebody deletes in BTP, the name is that of the instance there until our
\* own deletion, also one about to be given; and only an unnamed resource creates.
NamesFit ==
    Never({"loss"}) =>
        /\ Alive /\ cr.name # None => btp.id = cr.name
        /\ pc = "name" => Ours /\ my.guid = btp.id
        /\ Making => cr.name = None /\ tf = None

\* An instance of ours is in the name, and in the state of who looks; or in the
\* state alone; or its create was disturbed and a heal will find it.
Recorded == cr.name = btp.id /\ (tf = btp.id \/ (tf = None /\ pc = "idle"))
InState == tf = btp.id /\ (Never({"loss"}) => cr.name = None /\ cr.attempted /\ btp.inWindow)
Findable ==
    /\ ~Never({"lost", "restart"})
    /\ cr.name = None /\ tf = None /\ cr.attempted /\ btp.inWindow

InstanceIsKnown ==
    Ours => /\ ~Making /\ pc \notin {"pending", "finalize"} /\ cr.phase # "gone"
            /\ Recorded \/ InState \/ Findable

LInv == CopyKnows /\ Orderly /\ (Clean => (Making => cr.attempted) /\ NamesFit /\ InstanceIsKnown)

\* Events are counted, and never forgotten.
LEMMA EventsGo ==
    ASSUME AInv, UNCHANGED events \/ (\E e \in Events : Happens(e))
    PROVE  /\ \A k \in Events : Never({k})' => Never({k}) /\ ~Happens(k)
           /\ Clean' => Clean
<1>1. ASSUME NEW k \in Events, Never({k})' PROVE Never({k}) /\ ~Happens(k)
  <2>1. events \in [Events -> Nat] /\ events'[k] = 0
    BY <1>1, Known DEF Never
  <2>2. ~Happens(k)
    <3>1. SUFFICES ASSUME Happens(k) PROVE FALSE
      OBVIOUS
    <3>2. events[k] \in Nat /\ events'[k] = events[k] + 1
      BY <2>1, <3>1 DEF Happens
    <3> QED
      BY <2>1, <3>2
  <2>3. events[k] = 0
    <3>1. CASE UNCHANGED events
      BY <2>1, <3>1
    <3>2. ASSUME NEW e \in Events, Happens(e) PROVE events[k] = 0
      <4>1. events' = [events EXCEPT ![e] = events[e] + 1] /\ e # k
        BY <2>2, <3>2 DEF Happens
      <4> QED
        BY <2>1, <4>1
    <3> QED
      BY <3>1, <3>2
  <2> QED
    BY <2>2, <2>3 DEF Never
<1>2. Clean' => Clean
  <2>1. {"clear", "lost", "restart", "blind", "loss"} \subseteq Events
    BY DEF Events
  <2> QED
    BY <1>1, <2>1 DEF Clean, Never
<1> QED
  BY <1>1, <1>2

\* Each step is one event or none.
LEMMA StepsAreEvents ==
    ASSUME [Next]_vars
    PROVE  UNCHANGED events \/ (\E e \in Events : Happens(e))
BY DEF Next, Reconcile, Connect, ObserveConflict, Observe, HealClears, HealNames,
   NothingToHeal, RecordPending, Mark, LaunchCreate, RecordResult, LaunchUpdate, Delete,
   Finalize, OperationEnds, CreateEnds, UpdateEnds, DeleteEnds, Callback, CallbackFails,
   ObserveFails, WriteFails, MarkFails, Restart, UserEdits, UserDeletes, UserClearsIncomplete,
   LostInBTP, Events, vars

\* What the events allow of the next state.
LEMMA CleanSteps ==
    ASSUME AInv, [Next]_vars
    PROVE  /\ Never({"loss"})' => Never({"loss"}) /\ ~Happens("loss")
           /\ ~Never({"lost", "restart"}) => ~Never({"lost", "restart"})'
           /\ Happens("lost") \/ Happens("restart") => ~Never({"lost", "restart"})'
           /\ Clean' => /\ Clean /\ ~Happens("clear")
                        /\ ~Never({"lost", "restart"})' => Never({"loss"})' /\ ~Happens("blind")
<1>1. {"lost", "restart", "loss", "blind", "clear"} \subseteq Events
  BY DEF Events
<1>2. /\ Clean' => Clean
      /\ \A k \in Events : Never({k})' => Never({k}) /\ ~Happens(k)
  BY EventsGo, StepsAreEvents
<1>3. /\ Clean' => Never({"clear"})' 
      /\ Clean' /\ ~Never({"lost", "restart"})' => Never({"blind"})' /\ Never({"loss"})'
  BY DEF Clean, Never
<1>4. /\ Never({"lost", "restart"})' => Never({"lost"})' /\ Never({"restart"})'
      /\ Never({"lost"}) /\ Never({"restart"}) => Never({"lost", "restart"})
  BY DEF Never
<1> QED
  BY <1>1, <1>2, <1>3, <1>4

-----------------------------------------------------------------------------
(* What a step of the reconcile does to the name, the attempt and the      *)
(* phase: it stops, or it writes and goes on with what it has written.     *)

Stops == cr' = cr /\ pc' = "idle"
Writes(new, step) ==
    /\ my.phase = cr.phase
    /\ cr'.phase = new.phase /\ cr'.name = new.name /\ cr'.attempted = new.attempted
    /\ pc' = step /\ (step # "idle" => my' = new)
GoesOn(step) == cr' = cr /\ pc' = step /\ (step # "idle" => my' = my)

LEMMA GotoShape == ASSUME NEW step, Goto(step), UNCHANGED cr PROVE GoesOn(step)
BY DEF Goto, Step, GoesOn

LEMMA WriteShape ==
    ASSUME AInv, NEW new \in Resources, NEW step, Write(new, step)
    PROVE  Stops \/ Writes(new, step)
<1>1. CASE [my EXCEPT !.guid = None] = cr /\ cr' = [new EXCEPT !.guid = None] /\ Step(step, new)
  <2>1. my.phase = cr.phase
    <3>1. [my EXCEPT !.guid = None].phase = my.phase
      BY Known DEF Resources
    <3> QED
      BY <1>1, <3>1
  <2>2. cr'.phase = new.phase /\ cr'.name = new.name /\ cr'.attempted = new.attempted
    BY <1>1 DEF Resources
  <2> QED
    BY <1>1, <2>1, <2>2 DEF Writes, Step
<1>2. CASE UNCHANGED cr /\ Goto("idle")
  BY <1>2 DEF Stops, Goto, Step
<1> QED
  BY <1>1, <1>2 DEF Write, Current

LEMMA ObserveShape ==
    ASSUME AInv, Observe
    PROVE  /\ \/ Stops
              \/ /\ Exists /\ ~Running /\ tf # None
                 /\ cr'.phase = cr.phase /\ cr'.name = tf /\ cr'.attempted = my.attempted
                 /\ my.phase = cr.phase /\ pc' = "idle"
              \/ Exists /\ GoesOn(Found)
              \/ ~Exists /\ GoesOn(NotExisting)
<1> DEFINE named == [my EXCEPT !.name = tf]
<1>1. /\ named \in Resources /\ named.name = tf /\ named.phase = my.phase
      /\ named.attempted = my.attempted
  BY Known DEF Resources
<1>2. \/ (LearnsName \/ (Settled /\ ~UpdateFailed /\ my.name # tf)) /\ Write(named, "idle")
      \/ Goto(IF Exists THEN Found ELSE NotExisting) /\ UNCHANGED cr
  BY Zenon DEF Observe
<1> HIDE DEF named
<1>3. ASSUME LearnsName \/ Settled, Write(named, "idle")
      PROVE  Stops \/ (/\ Exists /\ ~Running /\ tf # None /\ Writes(named, "idle"))
  BY <1>1, <1>3, WriteShape DEF LearnsName, Settled, Exists
<1>4. CASE Goto(IF Exists THEN Found ELSE NotExisting) /\ UNCHANGED cr
  BY <1>4, GotoShape
<1> QED
  BY <1>1, <1>2, <1>3, <1>4 DEF Writes

-----------------------------------------------------------------------------
(* What the other steps do.                                                *)

LEMMA Shapes ==
    ASSUME AInv
    PROVE  /\ NoCopy.phase = "live" /\ NoCopy.name = None
           /\ ConflictHolds => ~Deleting
           /\ Found \in {"delete", "update", "idle"} /\ (Found = "delete" => Deleting)
           /\ Missing \in {"finalize", "pending"} /\ (Missing = "finalize" <=> Deleting)
           /\ NotExisting = IF my.name = None THEN "heal" ELSE Missing
           /\ Updated.id = btp.id /\ Updated.inWindow = btp.inWindow
           /\ Removed = btp \/ (Removed.id = None /\ btp.id = tf)
           /\ btp.id # tf => Removed = btp
           /\ btp.id = tf => Removed.id = None
           /\ Created.id = last + 1 /\ Created.inWindow = TRUE
<1>1. [btp EXCEPT !.config = op.gen].id = btp.id /\ [btp EXCEPT !.config = op.gen].inWindow = btp.inWindow
  BY Known DEF Instances
<1>2. Updated \in {btp, [btp EXCEPT !.config = op.gen]}
  BY DEF Updated
<1>3. Instance(None, 0).id = None
  BY DEF Instance
<1>4. /\ NoCopy.phase = "live" /\ NoCopy.name = None
  BY DEF NoCopy, Resource
<1>5. Found \in {"delete", "update", "idle"} /\ (Found = "delete" => Deleting)
  BY DEF Found
<1>6. /\ Missing \in {"finalize", "pending"} /\ (Missing = "finalize" <=> Deleting)
      /\ NotExisting = IF my.name = None THEN "heal" ELSE Missing
  BY DEF Missing, NotExisting
<1>7. Created.id = last + 1 /\ Created.inWindow = TRUE
  BY DEF Created
<1> QED
  BY <1>1, <1>2, <1>3, <1>4, <1>5, <1>6, <1>7 DEF Removed, ConflictHolds

LEMMA InitLInv == ASSUME Init PROVE LInv
<1>1. /\ pc = "idle" /\ tf = None /\ op.runs = FALSE
      /\ cr.phase = "live" /\ cr.name \in {None, 1} /\ (cr.name = 1 => btp.id = 1)
      /\ btp.id \in foreign \cup {None} \/ (btp.id = 1 /\ cr.name = 1)
  <2>1. PICK w \in Worlds :
            /\ btp = IF w = "empty" THEN Instance(None, 0) ELSE Instance(1, 0)
            /\ cr = Resource(IF w = "imported" THEN 1 ELSE None)
            /\ foreign = IF w = "foreign" THEN {1} ELSE {}
    BY DEF Init
  <2>2. w \in {"empty", "foreign", "imported"}
    BY ConstantsAssumption DEF AllWorlds
  <2>3. \A i, g : Instance(i, g).id = i
    BY DEF Instance
  <2>4. \A n : Resource(n).phase = "live" /\ Resource(n).name = n
    BY DEF Resource
  <2>5. pc = "idle" /\ tf = None /\ op.runs = FALSE
    BY DEF Init, Idle
  <2> QED
    BY <2>1, <2>2, <2>3, <2>4, <2>5
<1> QED
  BY <1>1 DEF LInv, CopyKnows, Orderly, NamesFit, InstanceIsKnown, Making, Alive, Running,
     Ours, Recorded, None

\* The steps that write.
Wrote(phase, name, attempted, step) ==
    /\ my.phase = cr.phase
    /\ cr'.phase = phase /\ cr'.name = name /\ cr'.attempted = attempted
    /\ pc' = step
    /\ step # "idle" => my'.phase = phase /\ my'.name = name /\ my'.attempted = attempted

LEMMA HealClearsShape ==
    ASSUME AInv, HealClears
    PROVE  Stops \/ (Wrote(my.phase, my.name, my.attempted, "name") /\ my'.guid = btp.id)
<1> DEFINE new == [my EXCEPT !.cond = NoFailure, !.guid = btp.id]
<1>1. /\ new \in Resources /\ new.name = my.name /\ new.phase = my.phase
      /\ new.attempted = my.attempted /\ new.guid = btp.id
  BY NoCopyTyped, Known DEF Resources, Instances
<1>2. Write(new, "name")
  BY DEF HealClears
<1> HIDE DEF new
<1> QED
  BY <1>1, <1>2, WriteShape DEF Writes, Wrote

LEMMA HealNamesShape ==
    ASSUME AInv, HealNames
    PROVE  Stops \/ Wrote(my.phase, my.guid, my.attempted, "idle")
<1> DEFINE new == [my EXCEPT !.name = my.guid]
<1>1. /\ new \in Resources /\ new.name = my.guid /\ new.phase = my.phase
      /\ new.attempted = my.attempted
  BY Known DEF Resources
<1>2. Write(new, "idle")
  BY DEF HealNames
<1> HIDE DEF new
<1> QED
  BY <1>1, <1>2, WriteShape DEF Writes, Wrote

LEMMA RecordPendingShape ==
    ASSUME AInv, RecordPending
    PROVE  /\ Stops \/ Wrote(my.phase, my.name, TRUE, "mark")
           /\ btp'.id = btp.id
<1> DEFINE new == [my EXCEPT !.attempted = TRUE, !.incomplete = TRUE]
<1>1. /\ new \in Resources /\ new.name = my.name /\ new.phase = my.phase
      /\ new.attempted = TRUE
  BY Known DEF Resources
<1>2. Write(new, "mark")
  BY DEF RecordPending
<1>3. btp'.id = btp.id
  BY Known DEF RecordPending, Instances
<1> HIDE DEF new
<1> QED
  BY <1>1, <1>2, <1>3, WriteShape DEF Writes, Wrote

LEMMA MarkShape ==
    ASSUME AInv, Mark
    PROVE  \E step \in {"create", "launch"} :
              /\ step = "create" => pc = "mark"
              /\ GoesOn(step) \/ Stops \/ Wrote(my.phase, my.name, my.attempted, step)
<1> DEFINE new == [my EXCEPT !.marker = my.gen]
           launch == IF pc = "mark" THEN "create" ELSE "launch"
<1>1. /\ new \in Resources /\ new.name = my.name /\ new.phase = my.phase
      /\ new.attempted = my.attempted
  BY Known DEF Resources
<1>2. (Goto(launch) /\ UNCHANGED cr) \/ Write(new, launch)
  BY Zenon DEF Mark
<1>3. launch \in {"create", "launch"} /\ (launch = "create" => pc = "mark")
  OBVIOUS
<1> HIDE DEF new, launch
<1>4. GoesOn(launch) \/ Stops \/ Wrote(my.phase, my.name, my.attempted, launch)
  BY <1>1, <1>2, WriteShape, GotoShape DEF Writes, Wrote
<1> QED
  BY <1>3, <1>4

LEMMA FinalizeShape ==
    ASSUME AInv, Finalize
    PROVE  Stops \/ Wrote("gone", my.name, my.attempted, "idle")
<1> DEFINE new == [my EXCEPT !.phase = "gone"]
<1>1. /\ new \in Resources /\ new.name = my.name /\ new.phase = "gone"
      /\ new.attempted = my.attempted
  BY Known DEF Resources
<1>2. Write(new, "idle")
  BY DEF Finalize
<1> HIDE DEF new
<1> QED
  BY <1>1, <1>2, WriteShape DEF Writes, Wrote

\* Steps that write and stop, and those of others: the name stays.
LEMMA OtherShapes ==
    ASSUME AInv, \/ RecordResult \/ UserEdits \/ UserDeletes
                 \/ \E c \in ended : Callback(c) \/ CallbackFails(c)
    PROVE  /\ cr'.name = cr.name /\ cr'.attempted = cr.attempted
           /\ cr'.phase = cr.phase \/ (cr.phase = "live" /\ cr'.phase = "deleting")
           /\ btp' = btp /\ tf' = tf /\ op' = op
           /\ (pc' = pc /\ my' = my) \/ pc' = "idle"
<1>1. CASE \E c \in ended : Callback(c) \/ CallbackFails(c)
  <2>1. cr' = cr \/ \E f : cr' = [cr EXCEPT !.cond = f]
    BY <1>1 DEF Callback, CallbackFails
  <2>2. cr'.name = cr.name /\ cr'.attempted = cr.attempted /\ cr'.phase = cr.phase
    BY <2>1, Known DEF Resources
  <2> QED
    BY <1>1, <2>2 DEF Callback, CallbackFails, world
<1>2. CASE RecordResult
  BY <1>2, Known DEF RecordResult, Resources, Goto, Step, world, process
<1>3. CASE UserEdits
  BY <1>3, Known DEF UserEdits, Resources, world, process
<1>4. CASE UserDeletes
  BY <1>4, Known DEF UserDeletes, Resources, world, process
<1> QED
  BY <1>1, <1>2, <1>3, <1>4

LEMMA NextCopyKnows == ASSUME AInv, LInv, [Next]_vars PROVE CopyKnows'
<1> USE DEF CopyKnows
<1>t. CopyKnows /\ Orderly
  BY DEF LInv
<1>1. CASE Connect
  BY <1>1, Known DEF Connect, Step, Resources
<1>2. CASE ObserveConflict
  BY <1>2, <1>t, GotoShape DEF ObserveConflict, GoesOn
<1>3. CASE Observe
  BY <1>3, <1>t, ObserveShape DEF Observe, GoesOn, Stops
<1>4. CASE HealClears
  BY <1>4, <1>t, HealClearsShape DEF HealClears, Stops, Wrote
<1>5. CASE HealNames
  BY <1>5, HealNamesShape DEF Stops, Wrote
<1>6. CASE NothingToHeal
  BY <1>6, <1>t, GotoShape DEF NothingToHeal, GoesOn
<1>7. CASE RecordPending
  BY <1>7, <1>t, RecordPendingShape DEF RecordPending, Stops, Wrote
<1>8. CASE Mark
  BY <1>8, <1>t, MarkShape DEF Mark, GoesOn, Stops, Wrote
<1>9. CASE LaunchCreate \/ LaunchUpdate \/ Delete
  BY <1>9, <1>t, GotoShape DEF LaunchCreate, LaunchUpdate, Delete, GoesOn
<1>10. CASE ObserveFails \/ WriteFails \/ MarkFails \/ Restart
  BY <1>10, <1>t DEF ObserveFails, WriteFails, MarkFails, Restart, Goto, Step
<1>11. CASE Finalize
  BY <1>11, FinalizeShape DEF Stops, Wrote
<1>12. CASE OperationEnds
  BY <1>12, <1>t DEF OperationEnds, CreateEnds, UpdateEnds, DeleteEnds, Ended
<1>13. CASE \/ RecordResult \/ UserEdits \/ UserDeletes
            \/ \E c \in ended : Callback(c) \/ CallbackFails(c)
  BY <1>13, <1>t, OtherShapes
<1>14. CASE UserClearsIncomplete
  BY <1>14 DEF UserClearsIncomplete
<1>15. CASE LostInBTP \/ UNCHANGED vars
  BY <1>15, <1>t DEF LostInBTP, vars
<1> QED
  BY <1>1, <1>2, <1>3, <1>4, <1>5, <1>6, <1>7, <1>8, <1>9, <1>10, <1>11, <1>12, <1>13,
     <1>14, <1>15 DEF Next, Reconcile

LEMMA NextOrderly == ASSUME AInv, LInv, [Next]_vars PROVE Orderly'
<1> USE DEF Orderly, Running, Alive, Deleting
<1>t. CopyKnows /\ Orderly
  BY DEF LInv
<1>c. pc # "idle" => /\ my.phase # "live" => cr.phase # "live"
                     /\ my.phase # "gone" /\ cr.phase # "gone"
  BY <1>t DEF CopyKnows
<1>p. \A p \in {"live", "deleting", "gone"} : p # "live" /\ p # "gone" => p = "deleting"
  OBVIOUS
<1>m. my.phase \in {"live", "deleting", "gone"} /\ cr.phase \in {"live", "deleting", "gone"}
  BY Known DEF Resources
<1>1. CASE Connect
  BY <1>1, <1>t DEF Connect, Step
<1>2. CASE ObserveConflict
  BY <1>2, <1>t, <1>c, GotoShape DEF ObserveConflict, GoesOn, ConflictHolds, process
<1>3. CASE Observe
  <2>1. (op' = op \/ (op' = Idle /\ ~Running)) /\ tf' = (IF Exists THEN tf ELSE None)
    BY <1>3, Zenon DEF Observe
  <2>2. Idle.runs = FALSE
    BY DEF Idle
  <2>3. pc = "observe"
    BY <1>3 DEF Observe
  <2>4. ~Exists => ~Running /\ tf' = None
    BY <2>1 DEF Exists
  <2> QED
    BY <2>1, <2>2, <2>3, <2>4, <1>3, <1>t, <1>c, <1>m, ObserveShape, Shapes DEF GoesOn, Stops
<1>4. CASE HealClears
  BY <1>4, <1>t, <1>c, <1>m, HealClearsShape DEF HealClears, Stops, Wrote, process, ConflictHolds
<1>5. CASE HealNames
  BY <1>5, <1>t, <1>c, <1>m, HealNamesShape DEF HealNames, Stops, Wrote, process
<1>6. CASE NothingToHeal
  BY <1>6, <1>t, <1>c, <1>m, GotoShape, Shapes DEF NothingToHeal, GoesOn, Unhealed, process
<1>7. CASE RecordPending
  BY <1>7, <1>t, <1>c, <1>m, RecordPendingShape DEF RecordPending, Stops, Wrote, process
<1>8. CASE Mark
  BY <1>8, <1>t, <1>c, <1>m, MarkShape DEF Mark, GoesOn, Stops, Wrote, process
<1>9. CASE LaunchCreate \/ LaunchUpdate \/ Delete
  BY <1>9, <1>t, <1>c, <1>m, GotoShape DEF LaunchCreate, LaunchUpdate, Delete, GoesOn, Operation
<1>10. CASE ObserveFails \/ WriteFails \/ MarkFails \/ Restart
  <2>1. Idle.runs = FALSE
    BY DEF Idle
  <2> QED
    BY <1>10, <2>1, <1>t, <1>c, <1>m DEF ObserveFails, WriteFails, MarkFails, Restart, Goto, Step, process
<1>11. CASE Finalize
  BY <1>11, <1>t, <1>c, <1>m, FinalizeShape DEF Finalize, Stops, Wrote, process
<1>12. CASE OperationEnds
  <2>1. ~op'.runs /\ cr' = cr /\ my' = my /\ pc' = pc
    BY <1>12, Known DEF OperationEnds, CreateEnds, UpdateEnds, DeleteEnds, Ended, Operations
  <2>2. pc \in {"pending", "mark", "create", "finalize"} => ~Running
    BY <1>t
  <2>3. pc = "heal" => ConflictHolds \/ ~Running
    BY <1>t
  <2>4. Running
    BY <1>12 DEF OperationEnds, CreateEnds, UpdateEnds, DeleteEnds
  <2>5. ConflictHolds => ConflictHolds'
    BY <2>1 DEF ConflictHolds
  <2> QED
    BY <2>1, <2>2, <2>3, <2>4, <2>5, <1>t
<1>13. CASE \/ RecordResult \/ UserEdits \/ UserDeletes
            \/ \E c \in ended : Callback(c) \/ CallbackFails(c)
  BY <1>13, <1>t, <1>c, <1>m, OtherShapes DEF ConflictHolds
<1>14. CASE UserClearsIncomplete
  BY <1>14, <1>t, Known DEF UserClearsIncomplete, Resources, process
<1>15. CASE LostInBTP \/ UNCHANGED vars
  BY <1>15, <1>t DEF LostInBTP, vars, process, ConflictHolds
<1> QED
  BY <1>1, <1>2, <1>3, <1>4, <1>5, <1>6, <1>7, <1>8, <1>9, <1>10, <1>11, <1>12, <1>13,
     <1>14, <1>15 DEF Next, Reconcile

LEMMA ObserveMoves ==
    ASSUME AInv, Observe
    PROVE  /\ pc = "observe" /\ btp' = btp /\ events' = events
           /\ op' = op \/ (op' = Idle /\ ~Running)
           /\ Idle.runs = FALSE /\ Idle.kind = "none"
           /\ tf' = (IF Exists THEN tf ELSE None)
<1>1. (op' = op \/ (op' = Idle /\ ~Running)) /\ tf' = (IF Exists THEN tf ELSE None)
  BY Zenon DEF Observe
<1> QED
  BY <1>1 DEF Observe, world, Idle

LEMMA NextMaking == ASSUME AInv, LInv, [Next]_vars, Clean', Making' PROVE cr'.attempted
<1> USE DEF Making, Running
<1>t. CopyKnows /\ Orderly /\ Clean /\ (Making => cr.attempted)
  BY CleanSteps DEF LInv
<1>c. pc # "idle" => my.attempted = cr.attempted
  BY <1>t DEF CopyKnows
<1>e. ~Happens("clear")
  BY CleanSteps
<1>1. CASE Connect
  BY <1>1, <1>t DEF Connect, Step
<1>2. CASE ObserveConflict
  BY <1>2, <1>t, GotoShape DEF ObserveConflict, GoesOn, process
<1>3. CASE Observe
  <2>1. pc' \notin {"mark", "create"}
    BY <1>3, ObserveShape, Shapes DEF Stops, GoesOn
  <2>2. Making /\ cr.attempted
    BY <1>3, <1>t, <2>1, ObserveMoves
  <2> QED
    BY <1>3, <1>c, <2>2, ObserveMoves, ObserveShape DEF Stops, GoesOn
<1>4. CASE HealClears
  BY <1>4, <1>t, <1>c, HealClearsShape DEF HealClears, Stops, Wrote, process
<1>5. CASE HealNames
  BY <1>5, <1>t, <1>c, HealNamesShape DEF HealNames, Stops, Wrote, process
<1>6. CASE NothingToHeal
  BY <1>6, <1>t, GotoShape, Shapes DEF NothingToHeal, GoesOn, Unhealed, process
<1>7. CASE RecordPending
  BY <1>7, <1>t, RecordPendingShape DEF RecordPending, Stops, Wrote, process
<1>8. CASE Mark
  BY <1>8, <1>t, <1>c, MarkShape DEF Mark, GoesOn, Stops, Wrote, process
<1>9. CASE LaunchCreate \/ LaunchUpdate \/ Delete
  BY <1>9, <1>t, GotoShape DEF LaunchCreate, LaunchUpdate, Delete, GoesOn, Operation
<1>10. CASE ObserveFails \/ WriteFails \/ MarkFails \/ Restart
  BY <1>10, <1>t DEF ObserveFails, WriteFails, MarkFails, Restart, Goto, Step, process, Idle
<1>11. CASE Finalize
  BY <1>11, <1>t, <1>c, FinalizeShape DEF Finalize, Stops, Wrote, process
<1>12. CASE OperationEnds
  <2>1. ~op'.runs /\ cr' = cr /\ pc' = pc
    BY <1>12, Known DEF OperationEnds, CreateEnds, UpdateEnds, DeleteEnds, Ended, Operations
  <2> QED
    BY <2>1, <1>t
<1>13. CASE \/ RecordResult \/ UserEdits \/ UserDeletes
            \/ \E c \in ended : Callback(c) \/ CallbackFails(c)
  BY <1>13, <1>t, OtherShapes
<1>14. CASE UserClearsIncomplete
  BY <1>14, <1>e DEF UserClearsIncomplete
<1>15. CASE LostInBTP \/ UNCHANGED vars
  BY <1>15, <1>t DEF LostInBTP, vars, process
<1> QED
  BY <1>1, <1>2, <1>3, <1>4, <1>5, <1>6, <1>7, <1>8, <1>9, <1>10, <1>11, <1>12, <1>13,
     <1>14, <1>15 DEF Next, Reconcile

LEMMA ForeignStays == ASSUME [Next]_vars PROVE foreign' = foreign
BY DEF Next, Reconcile, Connect, ObserveConflict, Observe, HealClears, HealNames,
   NothingToHeal, RecordPending, Mark, LaunchCreate, RecordResult, LaunchUpdate, Delete,
   Finalize, OperationEnds, CreateEnds, UpdateEnds, DeleteEnds, Ended, Callback, CallbackFails,
   ObserveFails, WriteFails, MarkFails, Restart, UserEdits, UserDeletes, UserClearsIncomplete,
   LostInBTP, world, vars

LEMMA NextFits == ASSUME AInv, LInv, [Next]_vars, Clean' PROVE NamesFit'
<1> SUFFICES ASSUME Never({"loss"})'
             PROVE  /\ Alive' /\ cr'.name # None => btp'.id = cr'.name
                    /\ pc' = "name" => Ours' /\ my'.guid = btp'.id
                    /\ Making' => cr'.name = None /\ tf' = None
  BY DEF NamesFit, None
<1> USE DEF Making, Running, Alive, Deleting, Ours
<1>t. CopyKnows /\ Orderly /\ Clean /\ (Making => cr.attempted) /\ NamesFit /\ InstanceIsKnown
  BY CleanSteps DEF LInv
<1>e. Never({"loss"}) /\ ~Happens("loss") /\ ~Happens("clear")
  BY CleanSteps
<1>f. /\ Alive /\ cr.name # None => btp.id = cr.name
      /\ pc = "name" => Ours /\ my.guid = btp.id
      /\ Making => cr.name = None /\ tf = None
      /\ Making \/ pc = "pending" => ~Ours
  BY <1>t, <1>e DEF NamesFit, InstanceIsKnown
<1>c. pc # "idle" => /\ my.name = cr.name
                     /\ my.phase # "live" => cr.phase # "live"
                     /\ my.phase # "gone" /\ cr.phase # "gone"
  BY <1>t DEF CopyKnows
<1>o. /\ pc \in {"pending", "mark", "create", "finalize"} => ~Running /\ tf = None
      /\ pc = "name" => my.phase = "live" \/ ~Running
      /\ pc \in {"delete", "finalize"} => Deleting
      /\ pc \in {"pending", "mark", "create"} => ~Deleting
      /\ Running /\ op.kind = "delete" => ~Alive
      /\ cr.phase = "gone" => pc = "idle" /\ ~Running
  BY <1>t DEF Orderly
<1>k. /\ foreign' = foreign /\ cr.name \notin foreign /\ cr.guid \notin foreign
      /\ my.phase \in {"live", "deleting", "gone"} /\ cr.phase \in {"live", "deleting", "gone"}
      /\ btp.inWindow => btp.id \notin foreign
  BY ForeignStays, Known DEF Resources
<1>1. CASE Connect
  BY <1>1, <1>f, <1>c DEF Connect, Step, world, Imported
<1>2. CASE ObserveConflict
  BY <1>2, <1>f, <1>c, GotoShape DEF ObserveConflict, GoesOn, process, world
<1>3. CASE Observe
  <2>1. pc' \notin {"mark", "create", "name"}
    BY <1>3, ObserveShape, Shapes DEF Stops, GoesOn
  <2>2. Making' => Making
    BY <1>3, <2>1, ObserveMoves
  <2> QED
    BY <1>3, <1>f, <1>c, <2>1, <2>2, ObserveMoves, ObserveShape DEF Stops, GoesOn, Exists
<1>4. CASE HealClears
  BY <1>4, <1>f, <1>c, <1>k, HealClearsShape DEF HealClears, Stops, Wrote, process, world, CanHeal
<1>5. CASE HealNames
  BY <1>5, <1>f, <1>c, HealNamesShape DEF HealNames, Stops, Wrote, process, world
<1>6. CASE NothingToHeal
  BY <1>6, <1>f, <1>c, GotoShape, Shapes DEF NothingToHeal, GoesOn, Unhealed, process, world
<1>7. CASE RecordPending
  BY <1>7, <1>f, <1>c, <1>o, <1>k, RecordPendingShape DEF RecordPending, Stops, Wrote, process
<1>8. CASE Mark
  BY <1>8, <1>f, <1>c, MarkShape DEF Mark, GoesOn, Stops, Wrote, process, world
<1>9. CASE LaunchCreate \/ LaunchUpdate \/ Delete
  BY <1>9, <1>f, <1>c, GotoShape DEF LaunchCreate, LaunchUpdate, Delete, GoesOn, Operation, world
<1>10. CASE ObserveFails \/ WriteFails \/ MarkFails
  BY <1>10, <1>f, <1>c DEF ObserveFails, WriteFails, MarkFails, Goto, Step, process, world
<1>11. CASE Restart
  BY <1>11, <1>f, <1>c, <1>o, Shapes DEF Restart, Goto, Step, Idle
<1>12. CASE Finalize
  BY <1>12, <1>f, <1>c, FinalizeShape DEF Finalize, Stops, Wrote, process, world
<1>13. CASE CreateEnds
  BY <1>13, <1>f, <1>c, <1>o, Known DEF CreateEnds, Ended, Operations
<1>14. CASE UpdateEnds
  BY <1>14, <1>f, <1>c, <1>o, Shapes, Known DEF UpdateEnds, Ended, Operations
<1>15. CASE DeleteEnds
  BY <1>15, <1>f, <1>c, <1>o, Known DEF DeleteEnds, Ended, Operations
<1>16. CASE \/ RecordResult \/ UserEdits \/ UserDeletes
            \/ \E c \in ended : Callback(c) \/ CallbackFails(c)
  BY <1>16, <1>f, <1>c, <1>k, OtherShapes
<1>17. CASE UserClearsIncomplete
  BY <1>17, <1>e DEF UserClearsIncomplete
<1>18. CASE LostInBTP
  BY <1>18, <1>e DEF LostInBTP
<1>19. CASE UNCHANGED vars
  BY <1>19, <1>f DEF vars
<1> QED
  BY <1>1, <1>2, <1>3, <1>4, <1>5, <1>6, <1>7, <1>8, <1>9, <1>10, <1>11, <1>12, <1>13,
     <1>14, <1>15, <1>16, <1>17, <1>18, <1>19 DEF Next, Reconcile, OperationEnds

LEMMA NextKnown == ASSUME AInv, LInv, [Next]_vars, Clean' PROVE InstanceIsKnown'
<1> SUFFICES ASSUME Ours'
             PROVE  /\ ~Making' /\ pc' \notin {"pending", "finalize"} /\ cr'.phase # "gone"
                    /\ Recorded' \/ InState' \/ Findable'
  BY DEF InstanceIsKnown
<1> DEFINE unlucky == ~Never({"lost", "restart"})
<1> USE DEF Running, Ours
<1>t. CopyKnows /\ Orderly /\ Clean /\ (Making => cr.attempted) /\ NamesFit /\ InstanceIsKnown
  BY CleanSteps DEF LInv
<1>e. /\ Never({"loss"})' => Never({"loss"})
      /\ unlucky => unlucky'
      /\ Happens("lost") \/ Happens("restart") => unlucky'
      /\ unlucky' => Never({"loss"})' /\ ~Happens("blind")
      /\ ~Happens("clear")
  BY CleanSteps
<1>i. Ours => /\ ~Making /\ pc \notin {"pending", "finalize"} /\ cr.phase # "gone"
              /\ Recorded \/ InState \/ Findable
  BY <1>t DEF InstanceIsKnown
<1>c. pc # "idle" => /\ my.name = cr.name /\ my.attempted = cr.attempted
                     /\ my.phase # "gone" /\ cr.phase # "gone"
  BY <1>t DEF CopyKnows
<1>o. /\ pc \in {"pending", "mark", "create", "finalize"} => ~Running /\ tf = None
      /\ pc = "heal" => ConflictHolds \/ (~Running /\ tf = None)
      /\ cr.phase = "gone" => pc = "idle" /\ ~Running
  BY <1>t DEF Orderly
<1>k. foreign' = foreign
  BY ForeignStays
<1> HIDE DEF unlucky
<1> USE DEF Making, Recorded, InState, Findable, unlucky
<1>1. CASE Connect
  BY <1>1, <1>e, <1>i, <1>k DEF Connect, Step, world, Imported
<1>2. CASE ObserveConflict
  BY <1>2, <1>e, <1>i, <1>k, GotoShape DEF ObserveConflict, GoesOn, process, world
<1>3. CASE Observe
  <2>1. pc' \notin {"mark", "create"}
    BY <1>3, ObserveShape, Shapes DEF Stops, GoesOn
  <2>2. Ours /\ (Making' => Making)
    BY <1>3, <1>k, <2>1, ObserveMoves
  <2>3. ~Making' /\ cr.phase # "gone" /\ (Recorded \/ InState \/ Findable)
    BY <2>2, <1>i
  <2>4. cr'.phase # "gone"
    BY <1>3, <2>3, ObserveShape DEF Stops, GoesOn
  <2>5. CASE tf = btp.id
    <3>1. Exists /\ tf' = tf /\ btp' = btp /\ events' = events
      BY <1>3, <2>2, <2>5, ObserveMoves DEF Exists
    <3>2. pc' \notin {"pending", "finalize"}
      BY <1>3, <3>1, ObserveShape, Shapes DEF Stops, GoesOn
    <3>3. CASE cr' = cr
      BY <2>3, <2>4, <2>5, <3>1, <3>2, <3>3, <1>e
    <3>4. CASE cr'.name = tf
      BY <2>3, <2>4, <2>5, <3>1, <3>2, <3>4
    <3> QED
      BY <1>3, <3>1, <3>3, <3>4, ObserveShape DEF Stops, GoesOn
  <2>6. CASE Findable /\ tf # btp.id
    <3>1. tf' = None /\ btp' = btp /\ pc = "observe"
      BY <1>3, <2>6, ObserveMoves
    <3>2. my.name = None /\ tf = None
      BY <2>6, <3>1, <1>c
    <3>3. pc' \notin {"pending", "finalize"} /\ cr' = cr
      BY <1>3, <3>2, ObserveShape, Shapes DEF Stops, GoesOn
    <3> QED
      BY <2>3, <2>4, <2>6, <3>1, <3>3, <1>e
  <2>7. pc = "observe"
    BY <1>3, ObserveMoves
  <2> QED
    BY <2>3, <2>5, <2>6, <2>7
<1>4. CASE HealClears
  BY <1>4, <1>e, <1>i, <1>c, <1>k, HealClearsShape DEF HealClears, Stops, Wrote, process, world
<1>5. CASE HealNames
  <2>1. Never({"loss"}) => my.guid = btp.id
    BY <1>5, <1>t DEF NamesFit, HealNames
  <2> QED
    BY <1>5, <2>1, <1>e, <1>i, <1>c, <1>k, HealNamesShape DEF HealNames, Stops, Wrote, process, world
<1>6. CASE NothingToHeal
  BY <1>6, <1>e, <1>i, <1>c, <1>o, <1>k, GotoShape, Shapes
     DEF NothingToHeal, GoesOn, Unhealed, CanHeal, process, world
<1>7. CASE RecordPending
  BY <1>7, <1>i, <1>k, RecordPendingShape DEF RecordPending
<1>8. CASE Mark
  BY <1>8, <1>e, <1>i, <1>c, <1>k, MarkShape DEF Mark, GoesOn, Stops, Wrote, process, world
<1>9. CASE LaunchCreate \/ LaunchUpdate \/ Delete
  BY <1>9, <1>e, <1>i, <1>k, GotoShape DEF LaunchCreate, LaunchUpdate, Delete, GoesOn, Operation, world
<1>10. CASE ObserveFails \/ WriteFails \/ MarkFails
  BY <1>10, <1>e, <1>i, <1>k DEF ObserveFails, WriteFails, MarkFails, Goto, Step, process, world
<1>11. CASE Restart
  <2>1. unlucky' /\ Never({"loss"})' /\ Never({"loss"})
    BY <1>11, <1>e DEF Restart
  <2>2. tf' = None /\ pc' = "idle" /\ cr' = cr /\ op'.kind = "none"
    BY <1>11 DEF Restart, Goto, Step, Idle
  <2>3. CASE btp'.id = btp.id /\ btp'.inWindow = btp.inWindow
    BY <2>1, <2>2, <2>3, <1>i, <1>k
  <2>4. CASE Running /\ op.kind = "create" /\ btp' = Created
    <3>1. Making /\ cr.name = None /\ cr.attempted
      BY <2>1, <2>4, <1>t DEF NamesFit
    <3> QED
      BY <2>1, <2>2, <2>4, <3>1, <1>o, Shapes
  <2> QED
    BY <1>11, <2>3, <2>4, <1>k, Shapes DEF Restart
<1>12. CASE Finalize
  BY <1>12, <1>i, <1>k DEF Finalize, world
<1>13. CASE CreateEnds
  <2>1. /\ cr' = cr /\ pc' = pc /\ op'.runs = FALSE /\ Making
        /\ pc \notin {"pending", "mark", "create", "finalize"} /\ cr.phase # "gone"
    BY <1>13, <1>o, Known DEF CreateEnds, Ended, Operations
  <2>2. btp.id = None /\ btp' = Created /\ (tf' = last + 1 \/ (tf' = tf /\ Happens("lost")))
    BY <1>13, <2>1, <1>i, <1>k DEF CreateEnds
  <2>3. cr.attempted /\ (Never({"loss"}) => cr.name = None /\ tf = None)
    BY <2>1, <1>t DEF NamesFit
  <2>4. Never({"loss"})' => Never({"loss"})
    BY <1>e
  <2>5. tf' = tf => unlucky' /\ Never({"loss"})'
    <3>1. last + 1 # None /\ tf # last + 1
      BY Known DEF None, Ids
    <3> QED
      BY <2>2, <3>1, <1>e
  <2> QED
    BY <2>1, <2>2, <2>3, <2>4, <2>5, Shapes
<1>14. CASE UpdateEnds
  BY <1>14, <1>e, <1>i, <1>k, Shapes, Known DEF UpdateEnds, Ended, Operations
<1>15. CASE DeleteEnds
  BY <1>15, <1>e, <1>i, <1>k, Shapes, Known DEF DeleteEnds, Ended, Operations
<1>16. CASE \/ RecordResult \/ UserEdits \/ UserDeletes
            \/ \E c \in ended : Callback(c) \/ CallbackFails(c)
  <2>1. cr'.phase = "gone" => cr.phase = "gone"
    BY <1>16, OtherShapes
  <2> QED
    BY <1>16, <2>1, <1>e, <1>i, <1>k, OtherShapes
<1>17. CASE UserClearsIncomplete
  BY <1>17, <1>e DEF UserClearsIncomplete
<1>18. CASE LostInBTP
  BY <1>18 DEF LostInBTP, Instance
<1>19. CASE UNCHANGED vars
  BY <1>19, <1>e, <1>i DEF vars
<1> QED
  BY <1>1, <1>2, <1>3, <1>4, <1>5, <1>6, <1>7, <1>8, <1>9, <1>10, <1>11, <1>12, <1>13,
     <1>14, <1>15, <1>16, <1>17, <1>18, <1>19 DEF Next, Reconcile, OperationEnds

LEMMA NextLInv == ASSUME AInv, LInv, [Next]_vars PROVE LInv'
BY NextCopyKnows, NextOrderly, NextMaking, NextFits, NextKnown DEF LInv

\* A resource that is gone has left no instance of its own in BTP, also when its
\* create still ran or had failed as the deletion was asked, and whatever fails or
\* restarts, but for what a lost answer or a restart together with a failed lookup
\* or somebody's deletion hides, or the user's word (Observe, healExternalName and
\* the callbacks in serviceinstance.go).
THEOREM NothingIsLeft == Spec => []DeleteLeavesNothing
<1>1. Init => LInv
  BY InitLInv
<1>2. AInv /\ LInv /\ [Next]_vars => LInv'
  BY NextLInv
<1>3. LInv => DeleteLeavesNothing
  BY DEF LInv, Clean, InstanceIsKnown, Ours, DeleteLeavesNothing
<1> QED
  BY <1>1, <1>2, <1>3, Invariance, PTL DEF Spec
=============================================================================

------------------------ MODULE ServiceBinding_proofs ------------------------
(***************************************************************************)
(* Theorems about ServiceBinding, for any number of bindings, any events   *)
(* and any number of them.                                                 *)
(***************************************************************************)
EXTENDS ServiceBinding, TLAPS

-----------------------------------------------------------------------------
(* The inductive invariant.                                                *)

\* Without outdated copies a reconcile knows the retired keys, and what Update
\* is about to drop from the list is gone.
NoKeyIsDropped ==
    Never({"stale"}) =>
        /\ pc # "idle" => mem.retired = cr.retired
        /\ pc = "updatestatus" => \A i \in cr.retired \ keep : i \notin IdsOf(btp)

KeyInv == TypeOK /\ NoKeyIsDropped

-----------------------------------------------------------------------------
(* Types.                                                                  *)

IdsOrNone == Ids \cup {NoId}

LEMMA Known ==
    ASSUME TypeOK
    PROVE  /\ cr \in Resources /\ cache \in Resources /\ mem \in Resources
           /\ cr.retired \subseteq IdsOrNone /\ mem.retired \subseteq IdsOrNone
           /\ mem.ext \in IdsOrNone /\ mem.pending \in Nat
           /\ last \in Int /\ 0 <= last /\ last <= MaxBindings /\ MaxBindings \in Nat
           /\ NoId \in IdsOrNone /\ 0 \in Nat
BY ConstantsAssumption DEF TypeOK, Resources, IdsOrNone, ConstantsAssumption

\* What the steps write is a resource, and only Rotate and Update change its keys.
LEMMA Writes ==
    ASSUME NEW c \in Resources, mem \in Resources, target \in Nat,
           NEW id \in IdsOrNone, NEW n \in Nat, NEW keys \in SUBSET IdsOrNone
    PROVE  /\ Recorded(c, id) \in Resources /\ Recorded(c, id).retired = c.retired
           /\ WithName(c) \in Resources /\ WithName(c).retired = c.retired
           /\ [c EXCEPT !.ext = id] \in Resources /\ [c EXCEPT !.ext = id].retired = c.retired
           /\ [c EXCEPT !.pending = n] \in Resources
           /\ [c EXCEPT !.pending = n].retired = c.retired
           /\ [c EXCEPT !.sid = id, !.sname = n] \in Resources
           /\ [c EXCEPT !.sid = id, !.sname = n].retired = c.retired
           /\ [c EXCEPT !.retired = keys] \in Resources
           /\ [c EXCEPT !.retired = keys].retired = keys
           /\ [c EXCEPT !.incomplete = FALSE] \in Resources
           /\ [c EXCEPT !.incomplete = FALSE].retired = c.retired
           /\ [c EXCEPT !.attempted = TRUE, !.incomplete = TRUE] \in Resources
           /\ [c EXCEPT !.attempted = TRUE, !.incomplete = TRUE].retired = c.retired
           /\ [c EXCEPT !.phase = "gone"] \in Resources
           /\ [c EXCEPT !.phase = "gone"].retired = c.retired
<1>1. Recorded(c, id) \in Resources /\ Recorded(c, id).retired = c.retired
  <2>1. ASSUME NEW forced \in BOOLEAN
        PROVE  /\ [c EXCEPT !.ext = id, !.pending = 0, !.force = forced] \in Resources
               /\ [c EXCEPT !.ext = id, !.pending = 0, !.force = forced].retired = c.retired
    BY DEF Resources, IdsOrNone
  <2>2. (c.force /\ ~mem.force) \in BOOLEAN
    OBVIOUS
  <2>3. Recorded(c, id) = [c EXCEPT !.ext = id, !.pending = 0, !.force = c.force /\ ~mem.force]
    BY DEF Recorded, NoName, Resources
  <2> QED
    BY Zenon, <2>1, <2>2, <2>3
<1>2. WithName(c) \in Resources /\ WithName(c).retired = c.retired
  BY DEF WithName, Resources
<1>3. [c EXCEPT !.ext = id] \in Resources /\ [c EXCEPT !.ext = id].retired = c.retired
  BY DEF Resources, IdsOrNone
<1>4. [c EXCEPT !.pending = n] \in Resources /\ [c EXCEPT !.pending = n].retired = c.retired
  BY DEF Resources
<1>5. /\ [c EXCEPT !.sid = id, !.sname = n] \in Resources
      /\ [c EXCEPT !.sid = id, !.sname = n].retired = c.retired
  BY DEF Resources, IdsOrNone
<1>6. [c EXCEPT !.retired = keys] \in Resources /\ [c EXCEPT !.retired = keys].retired = keys
  BY DEF Resources, IdsOrNone
<1>7. [c EXCEPT !.incomplete = FALSE] \in Resources /\ [c EXCEPT !.incomplete = FALSE].retired = c.retired
  BY DEF Resources
<1>8. /\ [c EXCEPT !.attempted = TRUE, !.incomplete = TRUE] \in Resources
      /\ [c EXCEPT !.attempted = TRUE, !.incomplete = TRUE].retired = c.retired
  BY DEF Resources
<1>9. [c EXCEPT !.phase = "gone"] \in Resources /\ [c EXCEPT !.phase = "gone"].retired = c.retired
  BY DEF Resources
<1> QED
  BY <1>1, <1>2, <1>3, <1>4, <1>5, <1>6, <1>7, <1>8, <1>9

\* The count of events only grows.
EventsGo == UNCHANGED events \/ (\E e \in Events : Happens(e))

LEMMA EventsTyped ==
    ASSUME TypeOK, EventsGo
    PROVE  events' \in [Events -> Nat] /\ (Never({"stale"})' => Never({"stale"}))
<1>1. events \in [Events -> Nat] /\ "stale" \in Events
  BY DEF TypeOK, Events
<1>2. CASE UNCHANGED events
  BY <1>1, <1>2 DEF Never
<1>3. ASSUME NEW e \in Events, Happens(e)
      PROVE  events' \in [Events -> Nat] /\ (Never({"stale"})' => Never({"stale"}))
  <2>1. events[e] \in Nat /\ events[e] + 1 \in Nat /\ events["stale"] \in Nat
    BY <1>1, <1>3
  <2>2. events' = [events EXCEPT ![e] = events[e] + 1]
    BY <1>3 DEF Happens
  <2>3. events' \in [Events -> Nat]
    BY <1>1, <2>1, <2>2
  <2>4. events'["stale"] = 0 => events["stale"] = 0
    BY <1>1, <2>1, <2>2
  <2> QED
    BY <2>3, <2>4 DEF Never
<1> QED
  BY <1>2, <1>3 DEF EventsGo

-----------------------------------------------------------------------------
(* What a step leaves alone, and what follows from that.                   *)

\* A step of the reconcile that changes no key.
StepTyped ==
    /\ pc # "idle" /\ pc' \in Steps \ {"updatestatus"}
    /\ cr' \in Resources /\ cr'.retired = cr.retired
    /\ mem' = mem \/ mem' = cr'
    /\ EventsGo

\* The variables besides those of StepTyped.
RestTyped ==
    /\ btp' \subseteq Bindings /\ last' \in 0 .. MaxBindings /\ names' \in Nat
    /\ due' \subseteq Ids /\ expired' \subseteq Ids /\ cache' \in Resources
    /\ drift' \in BOOLEAN /\ target' \in Nat /\ made' \in IdsOrNone
    /\ keep' \subseteq IdsOrNone

LEMMA TypeFollows ==
    ASSUME TypeOK, RestTyped, EventsGo, cr' \in Resources, mem' \in Resources, pc' \in Steps
    PROVE  TypeOK'
BY EventsTyped DEF TypeOK, RestTyped, IdsOrNone, Bindings, Resources, Ids, Steps, Events, NoId

LEMMA StepKeeps ==
    ASSUME KeyInv, StepTyped, RestTyped
    PROVE  KeyInv'
<1>1. TypeOK
  BY DEF KeyInv
<1>2. mem' \in Resources
  BY <1>1, Known DEF StepTyped
<1>3. TypeOK'
  BY <1>1, <1>2, TypeFollows DEF StepTyped
<1>4. ASSUME Never({"stale"})' PROVE mem'.retired = cr'.retired
  <2>1. Never({"stale"})
    BY <1>1, <1>4, EventsTyped DEF StepTyped
  <2>2. mem.retired = cr.retired
    BY <2>1 DEF KeyInv, NoKeyIsDropped, StepTyped
  <2> QED
    BY <2>2 DEF StepTyped
<1>5. pc' # "updatestatus"
  BY DEF StepTyped
<1> QED
  BY <1>3, <1>4, <1>5 DEF KeyInv, NoKeyIsDropped

\* A step of somebody else: nothing is added in BTP.
OtherTyped ==
    /\ UNCHANGED <<pc, mem, keep>>
    /\ cr' \in Resources /\ cr'.retired = cr.retired
    /\ btp' \subseteq btp
    /\ EventsGo

LEMMA OtherKeeps ==
    ASSUME KeyInv, OtherTyped, RestTyped
    PROVE  KeyInv'
<1>1. TypeOK
  BY DEF KeyInv
<1>2. mem' \in Resources /\ pc' \in Steps
  BY <1>1, Known DEF OtherTyped, TypeOK
<1>3. TypeOK'
  BY <1>1, <1>2, TypeFollows DEF OtherTyped
<1>4. Never({"stale"})' => Never({"stale"})
  BY <1>1, EventsTyped DEF OtherTyped
<1>5. IdsOf(btp') \subseteq IdsOf(btp)
  BY DEF OtherTyped, IdsOf
<1>6. NoKeyIsDropped'
  BY <1>4, <1>5 DEF KeyInv, NoKeyIsDropped, OtherTyped, IdsOf
<1> QED
  BY <1>3, <1>6 DEF KeyInv

\* What is not touched keeps its type.
LEMMA RestStays ==
    ASSUME TypeOK
    PROVE  /\ btp \subseteq Bindings /\ last \in 0 .. MaxBindings /\ names \in Nat
           /\ due \subseteq Ids /\ expired \subseteq Ids /\ cache \in Resources
           /\ drift \in BOOLEAN /\ target \in Nat /\ made \in IdsOrNone
           /\ keep \subseteq IdsOrNone
BY DEF TypeOK, IdsOrNone

-----------------------------------------------------------------------------
(* Somebody else's steps.                                                  *)

LEMMA OthersKeep ==
    ASSUME KeyInv,
           \/ \E i \in Ids : BecomeDue(i) \/ Expire(i)
           \/ UserForcesRotation \/ UserSwitchesRotation \/ UserDeletes \/ UserClearsIncomplete
           \/ (\E b \in btp : BindingLost(b)) \/ SyncCache
    PROVE  KeyInv'
<1>1. TypeOK
  BY DEF KeyInv
<1>2. CASE \E i \in Ids : BecomeDue(i) \/ Expire(i)
  <2>1. OtherTyped
    BY <1>1, <1>2, Known DEF BecomeDue, Expire, OtherTyped, EventsGo, world, times, locals
  <2>2. RestTyped
    BY <1>1, <1>2, RestStays DEF BecomeDue, Expire, RestTyped, world, times, locals
  <2> QED
    BY <2>1, <2>2, OtherKeeps
<1>3. CASE UserForcesRotation \/ UserSwitchesRotation \/ UserDeletes \/ UserClearsIncomplete
  <2>1. cr' \in Resources /\ cr'.retired = cr.retired
    <3>1. CASE UserForcesRotation
      BY <1>1, <3>1, Known DEF UserForcesRotation, Resources
    <3>2. CASE UserSwitchesRotation
      BY <1>1, <3>2, Known DEF UserSwitchesRotation, Resources
    <3>3. CASE UserDeletes
      BY <1>1, <3>3, Known DEF UserDeletes, Resources
    <3>4. CASE UserClearsIncomplete
      BY <1>1, <3>4, Known DEF UserClearsIncomplete, Resources
    <3> QED
      BY <1>3, <3>1, <3>2, <3>3, <3>4
  <2>2. OtherTyped
    BY <1>3, <2>1 DEF UserForcesRotation, UserSwitchesRotation, UserDeletes, UserClearsIncomplete,
       OtherTyped, EventsGo, Events, world, locals
  <2>3. RestTyped
    BY <1>1, <1>3, RestStays DEF UserForcesRotation, UserSwitchesRotation, UserDeletes,
       UserClearsIncomplete, RestTyped, world, times, locals
  <2> QED
    BY <2>2, <2>3, OtherKeeps
<1>4. CASE \E b \in btp : BindingLost(b)
  <2>1. OtherTyped
    BY <1>1, <1>4, Known DEF BindingLost, OtherTyped, EventsGo, Events, locals
  <2>2. RestTyped
    BY <1>1, <1>4, RestStays DEF BindingLost, RestTyped, times, locals
  <2> QED
    BY <2>1, <2>2, OtherKeeps
<1>5. CASE SyncCache
  <2>1. OtherTyped
    BY <1>1, <1>5, Known DEF SyncCache, OtherTyped, EventsGo, world, locals
  <2>2. RestTyped
    BY <1>1, <1>5, Known, RestStays DEF SyncCache, RestTyped, world, times, locals
  <2> QED
    BY <2>1, <2>2, OtherKeeps
<1> QED
  BY <1>2, <1>3, <1>4, <1>5

-----------------------------------------------------------------------------
(* The steps of a reconcile that change no key.                            *)

LEMMA HealExternalNameKeeps == ASSUME KeyInv, HealExternalName PROVE KeyInv'
<1>1. TypeOK
  BY DEF KeyInv
<1>2. PICK b \in LookupServiceBinding(mem.sname) : cr' = IF Refused THEN cr ELSE [cr EXCEPT !.ext = b.id]
  BY DEF HealExternalName
<1>3. b \in btp
  BY DEF LookupServiceBinding
<1>4. b.id \in IdsOrNone
  BY <1>1, <1>3 DEF TypeOK, Bindings, IdsOrNone
<1>5. [cr EXCEPT !.ext = b.id] \in Resources /\ [cr EXCEPT !.ext = b.id].retired = cr.retired
  BY <1>1, <1>4, Known DEF Resources, IdsOrNone
<1>6. cr' \in Resources /\ cr'.retired = cr.retired
  BY <1>1, <1>2, <1>5, Known
<1>7. StepTyped
  BY <1>6 DEF HealExternalName, StepTyped, EventsGo, Goto, Steps
<1>8. RestTyped
  BY <1>1, RestStays DEF HealExternalName, RestTyped, world, times, locals
<1> QED
  BY <1>7, <1>8, StepKeeps

LEMMA QuietStepsKeep ==
    ASSUME KeyInv, ObserveMissing \/ RotateNot \/ NothingToAdopt \/ CreateRefused
                   \/ DeleteCurrent \/ DeleteRetiredKeys \/ CreateFails \/ Abort
    PROVE  KeyInv'
<1>1. TypeOK
  BY DEF KeyInv
<1>2. pc # "idle" /\ pc' \in Steps \ {"updatestatus"}
  BY DEF ObserveMissing, RotateNot, NothingToAdopt, CreateRefused, DeleteCurrent,
     DeleteRetiredKeys, CreateFails, Abort, Goto, Steps
<1>3. UNCHANGED <<cr, mem, last, names, due, expired, cache, drift, target, made, keep>>
  BY DEF ObserveMissing, RotateNot, NothingToAdopt, CreateRefused, DeleteCurrent,
     DeleteRetiredKeys, CreateFails, Abort, world, times, locals
<1>4. btp' \subseteq btp
  BY DEF ObserveMissing, RotateNot, NothingToAdopt, CreateRefused, DeleteCurrent,
     DeleteRetiredKeys, CreateFails, Abort, world, Without
<1>5. EventsGo
  BY DEF ObserveMissing, RotateNot, NothingToAdopt, CreateRefused, DeleteCurrent,
     DeleteRetiredKeys, CreateFails, Abort, EventsGo, FaultHappens, Events
<1>6. StepTyped
  BY <1>1, <1>2, <1>3, <1>5, Known DEF StepTyped
<1>7. RestTyped
  BY <1>1, <1>3, <1>4, RestStays DEF RestTyped
<1> QED
  BY <1>6, <1>7, StepKeeps

LEMMA ObserveExistingKeeps == ASSUME KeyInv, ObserveExisting PROVE KeyInv'
<1>1. TypeOK
  BY DEF KeyInv
<1>2. PICK b \in btp :
          /\ drift' = (b.name # mem.sname)
          /\ \/ UNCHANGED <<cr, mem>> /\ (Goto("rotate") \/ Goto("idle"))
             \/ Wrote([cr EXCEPT !.sid = b.id, !.sname = b.name]) /\ Goto("rotate")
  BY DEF ObserveExisting
<1>3. b.id \in IdsOrNone /\ b.name \in Nat
  BY <1>1 DEF TypeOK, Bindings, IdsOrNone
<1> DEFINE new == [cr EXCEPT !.sid = b.id, !.sname = b.name]
<1>4. new \in Resources /\ new.retired = cr.retired
  BY <1>1, <1>3, Known DEF Resources, IdsOrNone
<1> HIDE DEF new
<1>5. cr' \in Resources /\ cr'.retired = cr.retired /\ (mem' = mem \/ mem' = cr')
  <2>1. UNCHANGED <<cr, mem>> \/ Wrote(new)
    BY <1>2 DEF new
  <2> QED
    BY <1>1, <1>4, <2>1, Known DEF Wrote
<1>6. StepTyped
  BY <1>2, <1>5 DEF ObserveExisting, StepTyped, EventsGo, Goto, Steps
<1>7. drift' \in BOOLEAN
  BY <1>2
<1>8. RestTyped
  BY <1>1, <1>7, RestStays DEF ObserveExisting, RestTyped, world, times
<1> QED
  BY <1>6, <1>8, StepKeeps

LEMMA CreateStartKeeps == ASSUME KeyInv, CreateStart PROVE KeyInv'
<1>1. TypeOK
  BY DEF KeyInv
<1> DEFINE new == [cr EXCEPT !.attempted = TRUE, !.incomplete = TRUE]
<1>2. new \in Resources /\ new.retired = cr.retired
  BY <1>1, Known DEF Resources
<1>3. UNCHANGED <<cr, mem>> \/ Wrote(new)
  BY DEF CreateStart
<1> HIDE DEF new
<1>4. cr' \in Resources /\ cr'.retired = cr.retired /\ (mem' = mem \/ mem' = cr')
  BY <1>1, <1>2, <1>3, Known DEF Wrote
<1>5. pc # "idle" /\ pc' \in Steps \ {"updatestatus"} /\ EventsGo
  BY DEF CreateStart, EventsGo, Goto, Steps
<1>6. StepTyped
  BY <1>4, <1>5 DEF StepTyped
<1>7. RestTyped
  BY <1>1, Known, RestStays DEF CreateStart, RestTyped, world, times
<1> QED
  BY <1>6, <1>7, StepKeeps

LEMMA CommitNameKeeps == ASSUME KeyInv, CommitName PROVE KeyInv'
<1>1. TypeOK
  BY DEF KeyInv
<1> DEFINE new == [cr EXCEPT !.pending = names + 1]
<1>2. names + 1 \in Nat
  BY <1>1, RestStays
<1>3. new \in Resources /\ new.retired = cr.retired
  BY <1>1, <1>2, Known DEF Resources
<1>4. UNCHANGED <<cr, mem>> \/ Wrote(new)
  BY DEF CommitName
<1> HIDE DEF new
<1>5. cr' \in Resources /\ cr'.retired = cr.retired /\ (mem' = mem \/ mem' = cr')
  BY <1>1, <1>3, <1>4, Known DEF Wrote
<1>6. pc # "idle" /\ pc' \in Steps \ {"updatestatus"} /\ EventsGo
  BY DEF CommitName, EventsGo, Goto, Steps
<1>7. StepTyped
  BY <1>5, <1>6 DEF StepTyped
<1>8. target' \in Nat /\ names' \in Nat
  BY <1>1, <1>2, Known, RestStays DEF CommitName, Base
<1>9. RestTyped
  BY <1>1, <1>8, RestStays DEF CommitName, RestTyped, times
<1> QED
  BY <1>7, <1>9, StepKeeps

LEMMA PersistNameKeeps == ASSUME KeyInv, PersistName PROVE KeyInv'
<1>1. TypeOK
  BY DEF KeyInv
<1>2. WithName(cr) \in Resources /\ WithName(cr).retired = cr.retired
  BY <1>1, Known, RestStays DEF WithName, Resources
<1>3. UNCHANGED <<cr, mem>> \/ Wrote(WithName(cr))
  BY DEF PersistName
<1>4. cr' \in Resources /\ cr'.retired = cr.retired /\ (mem' = mem \/ mem' = cr')
  BY <1>1, <1>2, <1>3, Known DEF Wrote
<1>5. pc # "idle" /\ pc' \in Steps \ {"updatestatus"} /\ EventsGo
  BY DEF PersistName, EventsGo, Goto, Steps
<1>6. StepTyped
  BY <1>4, <1>5 DEF StepTyped
<1>7. RestTyped
  BY <1>1, RestStays DEF PersistName, RestTyped, world, times, locals
<1> QED
  BY <1>6, <1>7, StepKeeps

LEMMA AdoptOwnBindingKeeps == ASSUME KeyInv, AdoptOwnBinding PROVE KeyInv'
<1>1. TypeOK
  BY DEF KeyInv
<1>2. PICK b \in LookupServiceBinding(target) :
          made' = b.id /\ (UNCHANGED <<cr, mem>> \/ Wrote(Recorded(cr, b.id)))
  BY DEF AdoptOwnBinding
<1>3. b \in btp
  BY DEF LookupServiceBinding
<1>4. b.id \in IdsOrNone
  BY <1>1, <1>3 DEF TypeOK, Bindings, IdsOrNone
<1>5. Recorded(cr, b.id) \in Resources /\ Recorded(cr, b.id).retired = cr.retired
  BY <1>1, <1>4, Known, RestStays, Writes
<1>6. cr' \in Resources /\ cr'.retired = cr.retired /\ (mem' = mem \/ mem' = cr')
  BY <1>1, <1>2, <1>5, Known DEF Wrote
<1>7. pc # "idle" /\ pc' \in Steps \ {"updatestatus"} /\ EventsGo
  BY DEF AdoptOwnBinding, EventsGo, Goto, Steps
<1>8. StepTyped
  BY <1>6, <1>7 DEF StepTyped
<1>9. RestTyped
  BY <1>1, <1>2, <1>4, RestStays DEF AdoptOwnBinding, RestTyped, world, times
<1> QED
  BY <1>8, <1>9, StepKeeps

LEMMA CreateBindingKeeps == ASSUME KeyInv, CreateBinding PROVE KeyInv'
<1>1. TypeOK
  BY DEF KeyInv
<1>2. last + 1 \in Ids /\ last + 1 \in 0 .. MaxBindings
  BY <1>1, Known DEF CreateBinding, Fits, Ids
<1>3. [id |-> last + 1, name |-> target] \in Bindings
  BY <1>1, <1>2, RestStays DEF Bindings
<1>4. UNCHANGED <<cr, mem>> /\ pc # "idle" /\ pc' \in Steps \ {"updatestatus"} /\ EventsGo
  BY DEF CreateBinding, EventsGo, FaultHappens, Events, Goto, Steps
<1>5. StepTyped
  BY <1>1, <1>4, Known DEF StepTyped
<1>6. made' \in IdsOrNone
  BY <1>1, <1>2, RestStays DEF CreateBinding, IdsOrNone
<1>7. RestTyped
  BY <1>1, <1>2, <1>3, <1>6, RestStays DEF CreateBinding, RestTyped, times
<1> QED
  BY <1>5, <1>7, StepKeeps

LEMMA CreateEndsKeep ==
    ASSUME KeyInv, PatchExternalName \/ CreateSucceeded \/ CreateFailed
    PROVE  KeyInv'
<1>1. TypeOK
  BY DEF KeyInv
<1>2. made \in IdsOrNone /\ target \in Nat
  BY <1>1, RestStays
<1>3. Recorded(cr, made) \in Resources /\ Recorded(cr, made).retired = cr.retired
  BY <1>1, <1>2, Known, Writes
<1> DEFINE named == IF made = NoId THEN cr
                    ELSE IF Refused THEN [cr EXCEPT !.ext = made] ELSE Recorded(cr, made)
<1>4. named \in Resources /\ named.retired = cr.retired
  <2>1. [cr EXCEPT !.ext = made] \in Resources /\ [cr EXCEPT !.ext = made].retired = cr.retired
    BY <1>1, <1>2, Known DEF Resources, IdsOrNone
  <2> QED
    BY <1>1, <1>3, <2>1, Known
<1>5. CASE PatchExternalName
  <2>1. StepTyped
    BY <1>3, <1>5 DEF PatchExternalName, StepTyped, EventsGo, Wrote, Goto, Steps
  <2>2. RestTyped
    BY <1>1, <1>5, RestStays DEF PatchExternalName, RestTyped, world, times, locals
  <2> QED
    BY <2>1, <2>2, StepKeeps
<1>6. CASE CreateSucceeded \/ CreateFailed
  <2>1. PICK c \in {cr, named} : cr' = [c EXCEPT !.incomplete = FALSE]
    BY <1>6, Zenon DEF CreateSucceeded, CreateFailed
  <2> HIDE DEF named
  <2>2. c \in Resources /\ c.retired = cr.retired
    BY <1>1, <1>4, <2>1, Known
  <2>3. /\ [c EXCEPT !.incomplete = FALSE] \in Resources
        /\ [c EXCEPT !.incomplete = FALSE].retired = c.retired
    BY <2>2 DEF Resources
  <2>4. /\ mem' = mem /\ pc # "idle" /\ pc' \in Steps \ {"updatestatus"} /\ EventsGo
        /\ UNCHANGED <<world, times, cache, locals>>
    BY <1>6 DEF CreateSucceeded, CreateFailed, EventsGo, Goto, Steps
  <2>5. StepTyped
    BY <2>1, <2>2, <2>3, <2>4 DEF StepTyped
  <2>6. RestTyped
    BY <1>1, <2>4, RestStays DEF RestTyped, world, times, locals
  <2> QED
    BY <2>5, <2>6, StepKeeps
<1> QED
  BY <1>5, <1>6

LEMMA FinalizeKeeps == ASSUME KeyInv, Finalize PROVE KeyInv'
<1>1. TypeOK
  BY DEF KeyInv
<1>2. /\ [cr EXCEPT !.phase = "gone"] \in Resources
      /\ [cr EXCEPT !.phase = "gone"].retired = cr.retired
  BY <1>1, Known DEF Resources
<1>3. cr' \in Resources /\ cr'.retired = cr.retired
  BY <1>1, <1>2, Known DEF Finalize
<1>4. StepTyped
  BY <1>3 DEF Finalize, StepTyped, EventsGo, Goto, Steps
<1>5. RestTyped
  BY <1>1, RestStays DEF Finalize, RestTyped, world, times, locals
<1> QED
  BY <1>4, <1>5, StepKeeps

-----------------------------------------------------------------------------
(* The steps that take a copy or change keys.                              *)

LEMMA StartKeeps == ASSUME KeyInv, Start PROVE KeyInv'
<1>1. TypeOK
  BY DEF KeyInv
<1>2. EventsGo /\ mem' \in Resources /\ pc' = "observe" /\ pc' \in Steps
  BY <1>1, Known DEF Start, EventsGo, Events, Goto, Steps
<1>3. RestTyped /\ cr' = cr
  BY <1>1, RestStays DEF Start, RestTyped, world, times, locals
<1>4. TypeOK'
  BY <1>1, <1>2, <1>3, Known, TypeFollows
<1>5. ASSUME Never({"stale"})' PROVE mem'.retired = cr'.retired
  <2>1. mem' = cr \/ Happens("stale")
    BY DEF Start
  <2>2. ~Happens("stale")
    <3>1. SUFFICES ASSUME Happens("stale") PROVE FALSE
      OBVIOUS
    <3>2. events \in [Events -> Nat] /\ "stale" \in Events
      BY <1>1 DEF TypeOK, Events
    <3>3. events' = [events EXCEPT !["stale"] = events["stale"] + 1]
      BY <3>1 DEF Happens
    <3>4. events'["stale"] = events["stale"] + 1 /\ events["stale"] \in Nat
      BY <3>2, <3>3
    <3>5. events'["stale"] = 0
      BY <1>5 DEF Never
    <3> QED
      BY <3>4, <3>5
  <2> QED
    BY <1>3, <2>1, <2>2
<1> QED
  BY <1>2, <1>4, <1>5 DEF KeyInv, NoKeyIsDropped

LEMMA RetireTyped ==
    ASSUME TypeOK
    PROVE  RetireBinding(cr) \in Resources /\ cr.retired \subseteq RetireBinding(cr).retired
<1> DEFINE keys == cr.retired \cup {cr.sid}
<1>1. cr \in Resources /\ keys \in SUBSET IdsOrNone
  BY Known DEF Resources, IdsOrNone
<1>2. RetireBinding(cr) = cr \/ RetireBinding(cr) = [cr EXCEPT !.retired = keys]
  BY Zenon DEF RetireBinding
<1>3. cr.retired \subseteq keys
  OBVIOUS
<1> HIDE DEF keys
<1>4. [cr EXCEPT !.retired = keys] \in Resources /\ [cr EXCEPT !.retired = keys].retired = keys
  BY <1>1 DEF Resources, IdsOrNone
<1> QED
  BY <1>1, <1>2, <1>3, <1>4

LEMMA RotateKeeps == ASSUME KeyInv, Rotate PROVE KeyInv'
<1>1. TypeOK
  BY DEF KeyInv
<1>2. CASE Wrote(RetireBinding(cr)) /\ Goto(AfterRetirement(cr))
  <2>1. cr' \in Resources /\ mem' = cr'
    BY <1>1, <1>2, RetireTyped DEF Wrote
  <2>2. pc' \in Steps \ {"updatestatus"} /\ EventsGo
    BY <1>2 DEF Rotate, EventsGo, AfterRetirement, Goto, Steps
  <2>3. RestTyped
    BY <1>1, RestStays DEF Rotate, RestTyped, world, times, locals
  <2>4. TypeOK'
    BY <1>1, <2>1, <2>2, <2>3, TypeFollows
  <2> QED
    BY <2>1, <2>2, <2>4 DEF KeyInv, NoKeyIsDropped
<1>3. CASE UNCHANGED <<cr, mem>> /\ Goto("idle")
  <2>1. StepTyped
    BY <1>1, <1>3, Known DEF Rotate, StepTyped, EventsGo, Goto, Steps
  <2>2. RestTyped
    BY <1>1, RestStays DEF Rotate, RestTyped, world, times, locals
  <2> QED
    BY <2>1, <2>2, StepKeeps
<1> QED
  BY <1>2, <1>3 DEF Rotate

LEMMA DeleteExpiredKeysKeeps == ASSUME KeyInv, DeleteExpiredKeys PROVE KeyInv'
<1>1. TypeOK
  BY DEF KeyInv
<1>2. PICK gone \in SUBSET mem.retired :
          btp' = Without(btp, gone) /\ \E done \in SUBSET gone : keep' = mem.retired \ done
  BY DEF DeleteExpiredKeys
<1>3. /\ UNCHANGED <<last, names, times, cr, cache, mem, drift, target, made>>
      /\ pc # "idle" /\ pc' = "updatestatus" /\ EventsGo
  BY DEF DeleteExpiredKeys, EventsGo, FaultHappens, Events, Goto
<1>4. keep' \subseteq IdsOrNone /\ btp' \subseteq btp
  BY <1>1, <1>2, Known DEF Without
<1>5. RestTyped
  BY <1>1, <1>3, <1>4, RestStays DEF RestTyped, times
<1>6. TypeOK'
  BY <1>1, <1>3, <1>5, Known, TypeFollows DEF Steps
<1>7. ASSUME Never({"stale"})'
      PROVE  /\ mem'.retired = cr'.retired
             /\ \A i \in cr'.retired \ keep' : i \notin IdsOf(btp')
  <2>1. Never({"stale"})
    BY <1>1, <1>3, <1>7, EventsTyped
  <2>2. mem.retired = cr.retired
    BY <1>3, <2>1 DEF KeyInv, NoKeyIsDropped
  <2>3. ASSUME NEW i \in cr.retired \ keep' PROVE i \notin IdsOf(btp')
    <3>1. i \in gone
      BY <1>2, <2>2, <2>3
    <3> QED
      BY <1>2, <3>1 DEF Without, IdsOf
  <2> QED
    BY <1>3, <2>2, <2>3
<1>8. NoKeyIsDropped'
  BY <1>7 DEF NoKeyIsDropped, IdsOf
<1> QED
  BY <1>6, <1>8 DEF KeyInv

LEMMA UpdateRetiredKeysKeeps == ASSUME KeyInv, UpdateRetiredKeys PROVE KeyInv'
<1>1. TypeOK
  BY DEF KeyInv
<1>2. keep \in SUBSET IdsOrNone
  BY <1>1, RestStays
<1>3. [cr EXCEPT !.retired = keep] \in Resources
  BY <1>1, <1>2, Known DEF Resources, IdsOrNone
<1>4. cr' \in Resources /\ mem' \in Resources
  BY <1>1, <1>3, Known DEF UpdateRetiredKeys, Wrote
<1>5. RestTyped /\ EventsGo /\ pc' = "idle" /\ pc' \in Steps
  BY <1>1, RestStays DEF UpdateRetiredKeys, RestTyped, EventsGo, Goto, Steps, world, times, locals
<1>6. TypeOK'
  BY <1>1, <1>4, <1>5, TypeFollows
<1> QED
  BY <1>5, <1>6 DEF KeyInv, NoKeyIsDropped

-----------------------------------------------------------------------------
(* The theorems.                                                           *)

LEMMA InitHolds == ASSUME Init PROVE KeyInv
<1>1. cr \in Resources
  BY DEF Init, Resources, NoName, Base
<1>2. cache \in Resources /\ mem \in Resources /\ pc = "idle" /\ pc \in Steps
  BY <1>1 DEF Init, Steps
<1>3. 0 \in 0 .. MaxBindings /\ 0 \in Nat
  BY ConstantsAssumption DEF ConstantsAssumption
<1>4. /\ btp \subseteq Bindings /\ last \in 0 .. MaxBindings /\ names \in Nat
      /\ due \subseteq Ids /\ expired \subseteq Ids
      /\ drift \in BOOLEAN /\ target \in Nat /\ made \in Ids \cup {NoId}
      /\ keep \subseteq Ids \cup {NoId}
  BY <1>3 DEF Init, Base
<1>5. events \in [Events -> Nat]
  BY DEF Init
<1>6. TypeOK
  BY <1>1, <1>2, <1>4, <1>5 DEF TypeOK
<1> QED
  BY <1>2, <1>6 DEF KeyInv, NoKeyIsDropped

LEMMA NextKeeps == ASSUME KeyInv, [Next]_vars PROVE KeyInv'
<1>1. CASE Reconcile
  BY <1>1, StartKeeps, HealExternalNameKeeps, QuietStepsKeep, ObserveExistingKeeps, RotateKeeps,
     CreateStartKeeps, CommitNameKeeps, PersistNameKeeps, AdoptOwnBindingKeeps,
     CreateBindingKeeps, CreateEndsKeep, DeleteExpiredKeysKeeps, UpdateRetiredKeysKeeps,
     FinalizeKeeps DEF Reconcile
<1>2. CASE CreateFails \/ Abort
  BY <1>2, QuietStepsKeep
<1>3. CASE \/ \E i \in Ids : BecomeDue(i) \/ Expire(i)
           \/ UserForcesRotation \/ UserSwitchesRotation \/ UserDeletes \/ UserClearsIncomplete
           \/ (\E b \in btp : BindingLost(b)) \/ SyncCache
  BY <1>3, OthersKeep
<1>4. CASE UNCHANGED vars
  <2>1. TypeOK
    BY DEF KeyInv
  <2>2. OtherTyped
    BY <1>4, <2>1, Known DEF vars, world, times, locals, OtherTyped, EventsGo
  <2>3. RestTyped
    BY <1>4, <2>1, RestStays DEF vars, world, times, locals, RestTyped
  <2> QED
    BY <2>2, <2>3, OtherKeeps
<1> QED
  BY <1>1, <1>2, <1>3, <1>4 DEF Next

\* The invariant that the theorems below rest on: a reconcile's copy of the
\* retired keys is the resource's, and what Update drops is gone from BTP.
THEOREM Invariance == Spec => []KeyInv
<1>1. Init => KeyInv
  BY InitHolds
<1>2. KeyInv /\ [Next]_vars => KeyInv'
  BY NextKeeps
<1> QED
  BY <1>1, <1>2, PTL DEF Spec

\* The resource, its copies, BTP's bindings and the reconcile are well-typed.
THEOREM TypeCorrect == Spec => []TypeOK
<1>1. KeyInv => TypeOK
  BY DEF KeyInv
<1> QED
  BY <1>1, Invariance, PTL

\* Which steps change the keys: one adds, one drops.
LEMMA KeysChange ==
    ASSUME KeyInv, [Next]_vars
    PROVE  cr.retired \subseteq cr'.retired
           \/ (pc = "updatestatus" /\ pc # "idle" /\ cr' = [cr EXCEPT !.retired = keep])
<1>1. TypeOK
  BY DEF KeyInv
<1>2. CASE Rotate
  BY <1>1, <1>2, RetireTyped DEF Rotate, Wrote
<1>3. CASE UpdateRetiredKeys
  BY <1>3 DEF UpdateRetiredKeys, Wrote
<1>4. CASE HealExternalName
  <2>1. PICK b \in LookupServiceBinding(mem.sname) :
            cr' = IF Refused THEN cr ELSE [cr EXCEPT !.ext = b.id]
    BY <1>4 DEF HealExternalName
  <2> QED
    BY <1>1, <2>1, Known DEF Resources
<1>5. CASE ObserveExisting
  <2>1. PICK b \in btp : UNCHANGED cr \/ cr' = [cr EXCEPT !.sid = b.id, !.sname = b.name]
    BY <1>5 DEF ObserveExisting, Wrote
  <2> QED
    BY <1>1, <2>1, Known DEF Resources
<1>6. CASE AdoptOwnBinding \/ PatchExternalName \/ CreateFailed
  <2>1. \A i : Recorded(cr, i).retired = cr.retired
    BY <1>1, Known DEF Recorded, Resources
  <2>2. CASE AdoptOwnBinding
    BY <2>1, <2>2 DEF AdoptOwnBinding, Wrote
  <2>3. CASE PatchExternalName
    BY <2>1, <2>3 DEF PatchExternalName, Wrote
  <2>4. CASE CreateFailed
    <3> DEFINE named == IF made = NoId THEN cr
                        ELSE IF Refused THEN [cr EXCEPT !.ext = made] ELSE Recorded(cr, made)
    <3>1. made \in IdsOrNone /\ target \in Nat
      BY <1>1, RestStays
    <3>2. Recorded(cr, made) \in Resources
      BY <1>1, <3>1, Known, Writes
    <3>3. [cr EXCEPT !.ext = made] \in Resources /\ [cr EXCEPT !.ext = made].retired = cr.retired
      BY <1>1, <3>1, Known DEF Resources, IdsOrNone
    <3>4. named \in Resources /\ named.retired = cr.retired
      BY <1>1, <2>1, <3>2, <3>3, Known
    <3>5. cr' = [named EXCEPT !.incomplete = FALSE]
      BY <2>4, Zenon DEF CreateFailed
    <3> HIDE DEF named
    <3> QED
      BY <3>4, <3>5 DEF Resources
  <2> QED
    BY <1>6, <2>2, <2>3, <2>4
<1>7. CASE CreateStart \/ CommitName \/ PersistName \/ CreateSucceeded \/ Finalize
  BY <1>1, <1>7, Known DEF CreateStart, CommitName, PersistName, CreateSucceeded, Finalize,
     Wrote, WithName, Resources
<1>8. CASE UserForcesRotation \/ UserSwitchesRotation \/ UserDeletes \/ UserClearsIncomplete
  BY <1>1, <1>8, Known DEF UserForcesRotation, UserSwitchesRotation, UserDeletes,
     UserClearsIncomplete, Resources
<1>9. CASE UNCHANGED cr
  BY <1>9
<1>10. CASE Reconcile
  BY <1>2, <1>3, <1>4, <1>5, <1>6, <1>7, <1>9, <1>10 DEF Reconcile, Start, ObserveMissing, RotateNot,
     NothingToAdopt, CreateBinding, CreateRefused, DeleteExpiredKeys, DeleteRetiredKeys,
     DeleteCurrent
<1>11. CASE CreateFails \/ Abort \/ SyncCache \/ (\E i \in Ids : BecomeDue(i) \/ Expire(i))
            \/ (\E b \in btp : BindingLost(b))
  BY <1>9, <1>11 DEF CreateFails, Abort, SyncCache, BecomeDue, Expire, BindingLost
<1>12. CASE UNCHANGED vars
  BY <1>9, <1>12 DEF vars
<1> QED
  BY <1>8, <1>10, <1>11, <1>12 DEF Next

\* While no reconcile begins with an outdated copy, a retired key leaves the
\* status only after its binding has left BTP: deletions that fail, or whose
\* answer is lost, conflicts, edits and crashes drop none (DeleteExpiredKeys in
\* keyrotator.go, Update in servicebinding.go).
THEOREM KeysAreKept == Spec => RetiredKeysAreKept
<1>1. ASSUME KeyInv, [Next]_vars
      PROVE  [Never({"stale"}) => \A i \in cr.retired \ cr'.retired : i \notin IdsOf(btp)]_vars
  <2>1. SUFFICES ASSUME Never({"stale"}), NEW i \in cr.retired \ cr'.retired
                 PROVE  i \notin IdsOf(btp)
    OBVIOUS
  <2>2. pc = "updatestatus" /\ cr' = [cr EXCEPT !.retired = keep]
    BY <1>1, <2>1, KeysChange
  <2>3. cr'.retired = keep
    BY <1>1, <2>2, Known DEF KeyInv, Resources
  <2> QED
    BY <1>1, <2>1, <2>2, <2>3 DEF KeyInv, NoKeyIsDropped
<1> QED
  BY <1>1, Invariance, PTL DEF Spec, RetiredKeysAreKept

-----------------------------------------------------------------------------
(* No binding is forgotten.                                                *)

\* What EveryBindingIsTracked assumes.
Calm == Never({"loss", "stale", "edit"}) /\ (cr.rot \/ Never({"force"}))

Creating == {"create", "commit", "persist", "lookup", "sm", "patch", "failed"}

\* Create has a binding that is not recorded.
HasMade == pc = "patch" \/ (pc = "failed" /\ made # NoId)

\* Ids are given out in order, ids and names are unique.
InOrder ==
    /\ \A b \in btp : b.id <= last
    /\ \A b, c \in btp : b.id = c.id \/ b.name = c.name => b = c
    /\ cr.ext <= last /\ made <= last
    /\ pc \in {"commit", "persist", "lookup", "sm"} => made = NoId

\* A reconcile knows what the resource says of its bindings.
Same(c, d) ==
    /\ c.ext = d.ext /\ c.pending = d.pending /\ c.rot = d.rot
    /\ c.sname = d.sname /\ c.sid = d.sid /\ c.retired = d.retired

Knows ==
    pc # "idle" =>
        /\ Same(mem, cr) /\ (mem.force => cr.force) /\ (mem.phase # "live" => cr.phase # "live")
        /\ mem.phase # "gone" /\ cr.phase # "gone"
        /\ pc \in {"delete", "deletecurrent"} => mem.phase = "deleting"
        /\ pc = "updatestatus" => keep \subseteq mem.retired

MadeIsThere == HasMade => \E b \in btp : b.id = made /\ b.name = target

\* With rotation every name is generated, and committed before it is used; a create
\* replaces only a retired binding or one that is gone; the status has the id of
\* the current binding, or its name, by which the next observation knows it.
Generated ==
    /\ \A b \in btp :
          /\ b.name # Base
          /\ b.id = cr.ext \/ b.id \in cr.retired \/ (b.name = cr.pending /\ cr.pending # NoName)
          /\ b.id = cr.ext => b.id \in cr.retired \/ cr.sid = cr.ext \/ b.name = cr.sname
          /\ pc \in Creating /\ b.id = cr.ext => b.id \in cr.retired
    /\ cr.sname = Base => btp = {}
    /\ pc = "rotate" => cr.sid = cr.ext \/ cr.ext \in cr.retired
    /\ pc \in {"persist", "lookup", "sm"} \/ HasMade => target = cr.pending /\ target # NoName
    /\ pc \in {"lookup", "sm"} \/ HasMade => cr.sname = target

\* Without it there is one binding of the spec's name, and an id in the resource is
\* that of a binding that exists, until it is deleted.
Plain ==
    /\ ~cr.force /\ cr.sname = Base /\ cr.retired = {} /\ cr.pending = NoName
    /\ \A b \in btp : b.name = Base /\ (b.id = cr.ext \/ cr.ext = NoId)
    /\ pc \notin {"persist", "lookup"}
    /\ pc = "sm" \/ HasMade => target = Base
    /\ pc \in Creating => cr.ext = NoId
    /\ cr.ext # NoId /\ (cr.phase = "live" \/ (pc # "idle" /\ mem.phase = "live")) =>
          \E b \in btp : b.id = cr.ext

Accounted == (cr.rot => Generated) /\ (~cr.rot => Plain)

TInv == InOrder /\ (Calm => Knows /\ MadeIsThere /\ Accounted)

LEMMA CalmBefore ==
    ASSUME TypeOK, EventsGo, cr'.rot = cr.rot \/ Happens("edit"), Calm'
    PROVE  /\ Calm /\ cr'.rot = cr.rot
           /\ ~Happens("loss") /\ ~Happens("stale") /\ ~Happens("edit") /\ (~cr.rot => ~Happens("force"))
<1>1. events \in [Events -> Nat] /\ {"loss", "stale", "edit", "force"} \subseteq Events
  BY DEF TypeOK, Events
<1>2. ASSUME NEW k \in Events, events'[k] = 0 PROVE events[k] = 0 /\ ~Happens(k)
  <2>1. ~Happens(k)
    <3>1. SUFFICES ASSUME Happens(k) PROVE FALSE
      OBVIOUS
    <3>2. events[k] \in Nat /\ events' = [events EXCEPT ![k] = events[k] + 1]
      BY <1>1, <3>1 DEF Happens
    <3>3. events'[k] = events[k] + 1
      BY <1>1, <3>2
    <3> QED
      BY <1>2, <3>2, <3>3
  <2>2. events[k] = 0
    <3>1. CASE UNCHANGED events
      BY <1>2, <3>1
    <3>2. ASSUME NEW e \in Events, Happens(e) PROVE events[k] = 0
      <4>1. events' = [events EXCEPT ![e] = events[e] + 1]
        BY <3>2 DEF Happens
      <4>2. e # k
        BY <2>1, <3>2
      <4> QED
        BY <1>1, <1>2, <4>1, <4>2
    <3> QED
      BY <3>1, <3>2 DEF EventsGo
  <2> QED
    BY <2>1, <2>2
<1>3. events'["loss"] = 0 /\ events'["stale"] = 0 /\ events'["edit"] = 0 /\ (cr'.rot \/ events'["force"] = 0)
  BY DEF Calm, Never
<1>4. events["loss"] = 0 /\ events["stale"] = 0 /\ events["edit"] = 0 /\ ~Happens("loss") /\ ~Happens("stale")
      /\ ~Happens("edit")
  BY <1>1, <1>2, <1>3
<1>5. ~cr'.rot => events["force"] = 0 /\ ~Happens("force")
  BY <1>1, <1>2, <1>3
<1> QED
  BY <1>4, <1>5 DEF Calm, Never

\* A step that writes nothing about bindings, and makes none.
LEMMA SteadyTracks ==
    ASSUME TypeOK, TypeOK', TInv, InOrder', EventsGo,
           Same(cr', cr), cr'.force = cr.force \/ (cr'.force /\ Happens("force")),
           cr'.phase = "live" => cr.phase = "live",
           (mem' = mem /\ pc # "idle") \/ mem' = cr' \/ pc' = "idle",
           pc' = "idle" \/ cr'.phase # "gone" \/ (pc # "idle" /\ cr'.phase = cr.phase),
           pc' = "updatestatus" => keep' \subseteq mem'.retired \/ (pc' = pc /\ keep' = keep),
           made' = made, target' = target \/ (pc' = "failed" /\ pc = "commit"),
           \/ btp' = btp
           \/ /\ btp' \subseteq btp /\ mem' = mem
              /\ \/ pc \in {"delete", "deletecurrent"}
                 \/ pc = "update" /\ (mem.retired = {} => btp' = btp),
           \/ pc' = pc /\ mem' = mem
           \/ pc' \in {"idle", "observe", "update", "updatestatus", "finalize"}
           \/ pc' = "failed" /\ pc \in {"commit", "persist", "lookup", "sm", "patch"}
           \/ pc' = "delete" /\ mem'.phase = "deleting"
           \/ pc' = "deletecurrent" /\ pc = "delete" /\ mem' = mem
           \/ pc' = "sm" /\ pc = "lookup"
    PROVE  TInv'
<1> SUFFICES ASSUME Calm' PROVE Knows' /\ MadeIsThere' /\ Accounted'
  BY DEF TInv
<1>1. Calm /\ cr'.rot = cr.rot /\ (~cr.rot => ~Happens("force"))
  BY CalmBefore DEF Same
<1>2. Knows /\ MadeIsThere /\ Accounted /\ InOrder
  BY <1>1 DEF TInv
<1>3. Knows'
  <2>1. cr.force \in BOOLEAN /\ cr'.force \in BOOLEAN /\ mem.force \in BOOLEAN
    BY Known DEF TypeOK, Resources
  <2>2. cr.force => cr'.force
    BY <2>1
  <2>3. CASE pc' # "idle" /\ mem' = mem /\ pc # "idle"
    BY <1>2, <2>1, <2>2, <2>3 DEF Knows, Same
  <2>4. CASE pc' # "idle" /\ mem' = cr' /\ ~(mem' = mem /\ pc # "idle")
    BY <1>2, <2>1, <2>4 DEF Knows, Same
  <2>5. CASE pc' = "idle"
    BY <2>5 DEF Knows
  <2> QED
    BY <2>3, <2>4, <2>5
<1>4. HasMade' => HasMade /\ target' = target /\ made' = made
  BY <1>2 DEF HasMade, InOrder
<1>5. btp' \subseteq btp
  OBVIOUS
<1>6. HasMade => pc \notin {"delete", "deletecurrent", "update"}
  BY DEF HasMade
<1>7. MadeIsThere'
  BY <1>2, <1>4, <1>6 DEF MadeIsThere
<1>8. ASSUME cr.rot PROVE Generated'
  BY <1>2, <1>4, <1>5, <1>8 DEF Accounted, Generated, Same, Creating
<1>9. ASSUME ~cr.rot PROVE Plain'
  <2>1. Plain /\ cr'.force = cr.force
    BY <1>1, <1>2, <1>9 DEF Accounted
  <2>2. cr.ext # NoId /\ (cr'.phase = "live" \/ (pc' # "idle" /\ mem'.phase = "live")) => \E b \in btp' : b.id = cr.ext
    BY <1>2, <2>1 DEF Plain, Knows, Same
  <2> QED
    BY <1>2, <1>4, <1>5, <2>1, <2>2 DEF Plain, Same, Creating
<1> QED
  BY <1>1, <1>3, <1>7, <1>8, <1>9 DEF Accounted

LEMMA OrderStays ==
    ASSUME InOrder, btp' \subseteq btp, last' = last,
           cr'.ext \in {cr.ext, made} \/ (\E b \in btp : cr'.ext = b.id),
           made' = made \/ (pc' \notin {"commit", "persist", "lookup", "sm"} /\ \E b \in btp : made' = b.id),
           pc' = pc \/ pc' \notin {"commit", "persist", "lookup", "sm"} \/ pc \in {"commit", "persist", "lookup", "sm"}
    PROVE  InOrder'
<1>1. cr'.ext <= last /\ made' <= last
  BY DEF InOrder
<1> QED
  BY <1>1 DEF InOrder

\* What the user changes of the resource has no part in this.
LEMMA OthersTrack ==
    ASSUME TypeOK, TypeOK', TInv,
           \/ \E i \in Ids : BecomeDue(i) \/ Expire(i)
           \/ UserForcesRotation \/ UserDeletes \/ UserClearsIncomplete \/ SyncCache \/ UNCHANGED vars
    PROVE  TInv'
<1>1. /\ btp' = btp /\ last' = last /\ mem' = mem /\ pc' = pc /\ made' = made /\ target' = target /\ keep' = keep
      /\ \/ cr' = cr /\ UNCHANGED events
         \/ cr' = [cr EXCEPT !.force = TRUE] /\ Happens("force")
         \/ cr' \in {[cr EXCEPT !.phase = "deleting"], [cr EXCEPT !.incomplete = FALSE, !.attempted = FALSE]}
            /\ UNCHANGED events
  BY DEF BecomeDue, Expire, UserForcesRotation, UserDeletes, UserClearsIncomplete, SyncCache, world, locals, vars
<1>2. EventsGo
  BY <1>1 DEF EventsGo, Events
<1>3. /\ Same(cr', cr) /\ (cr'.force = cr.force \/ (cr'.force /\ Happens("force"))) /\ (cr'.phase = "live" => cr.phase = "live")
      /\ cr'.phase = cr.phase \/ cr'.phase = "deleting"
  BY <1>1, Known DEF Same, Resources
<1>4. InOrder'
  BY <1>1, <1>3, OrderStays DEF TInv, Same
<1> QED
  BY <1>1, <1>2, <1>3, <1>4, SteadyTracks

\* What the theorem excludes.
LEMMA ExcludedTrack ==
    ASSUME TypeOK, TInv, UserSwitchesRotation \/ (\E b \in btp : BindingLost(b)) \/ (Start /\ mem' # cr)
    PROVE  TInv'
<1>1. /\ btp' \subseteq btp /\ last' = last /\ made' = made /\ (pc' = pc \/ pc' = "observe")
      /\ cr' = cr \/ (cr' = [cr EXCEPT !.rot = ~cr.rot] /\ Happens("edit"))
      /\ Happens("loss") \/ Happens("stale") \/ Happens("edit")
  BY DEF UserSwitchesRotation, BindingLost, Start, Goto, world, locals
<1>2. EventsGo
  BY <1>1 DEF EventsGo, Events
<1>3. cr'.ext = cr.ext /\ (cr'.rot = cr.rot \/ Happens("edit"))
  BY <1>1, Known DEF Resources
<1>4. InOrder'
  BY <1>1, <1>3, OrderStays DEF TInv
<1>5. ~Calm'
  BY <1>1, <1>2, <1>3, CalmBefore
<1> QED
  BY <1>4, <1>5 DEF TInv

LEMMA StartTracks == ASSUME TypeOK, TypeOK', TInv, Start PROVE TInv'
<1>1. CASE mem' = cr
  <2>1. btp' = btp /\ last' = last /\ made' = made /\ target' = target /\ cr' = cr /\ pc' = "observe" /\ EventsGo
    BY DEF Start, Goto, world, locals, EventsGo, Events
  <2>2. cr.phase # "gone"
    BY DEF Start
  <2>3. InOrder'
    BY <2>1, OrderStays DEF TInv
  <2> QED
    BY <1>1, <2>1, <2>2, <2>3, SteadyTracks DEF Same
<1> QED
  BY <1>1, ExcludedTrack

\* Steps that only look, delete or stop.
LEMMA QuietTracks ==
    ASSUME TypeOK, TypeOK', TInv, UNCHANGED <<last, cr, target, made, mem>>, EventsGo, pc # "idle",
           pc' = "updatestatus" => keep' \subseteq mem.retired,
           \/ btp' = btp
           \/ /\ btp' \subseteq btp
              /\ \/ pc \in {"delete", "deletecurrent"}
                 \/ pc = "update" /\ (mem.retired = {} => btp' = btp),
           \/ pc' \in {"idle", "update", "updatestatus", "finalize"}
           \/ pc' = "failed" /\ pc \in {"commit", "persist", "lookup", "sm", "patch"}
           \/ pc' = "delete" /\ mem.phase = "deleting"
           \/ pc' = "deletecurrent" /\ pc = "delete"
           \/ pc' = "sm" /\ pc = "lookup"
    PROVE  TInv'
<1>1. InOrder'
  BY OrderStays DEF TInv
<1> QED
  BY <1>1, SteadyTracks DEF Same

LEMMA LooksTrack ==
    ASSUME TypeOK, TypeOK', TInv,
           RotateNot \/ NothingToAdopt \/ CreateRefused \/ CreateFails \/ Abort \/ (ObserveMissing /\ pc' # "create")
    PROVE  TInv'
<1>1. /\ UNCHANGED <<btp, last, cr, target, made, mem>> /\ EventsGo /\ pc # "idle"
  BY DEF RotateNot, NothingToAdopt, CreateRefused, CreateFails, Abort, ObserveMissing, world, locals, EventsGo,
     FaultHappens, Events
<1>2. \/ pc' \in {"idle", "update", "finalize"}
      \/ pc' = "failed" /\ pc \in {"commit", "persist", "lookup", "sm", "patch"}
      \/ pc' = "delete" /\ mem.phase = "deleting"
      \/ pc' = "sm" /\ pc = "lookup"
  BY DEF RotateNot, NothingToAdopt, CreateRefused, CreateFails, Abort, ObserveMissing, Goto
<1> QED
  BY <1>1, <1>2, QuietTracks

LEMMA DeletesTrack ==
    ASSUME TypeOK, TypeOK', TInv, DeleteExpiredKeys \/ DeleteRetiredKeys \/ DeleteCurrent
    PROVE  TInv'
<1>1. UNCHANGED <<last, cr, target, made, mem>> /\ EventsGo /\ pc # "idle"
  BY DEF DeleteExpiredKeys, DeleteRetiredKeys, DeleteCurrent, locals, EventsGo, FaultHappens, Events
<1>2. btp' \subseteq btp /\ (pc = "update" /\ mem.retired = {} => btp' = btp)
  BY DEF DeleteExpiredKeys, DeleteRetiredKeys, DeleteCurrent, Without
<1>3. \/ pc = "update" /\ pc' = "updatestatus"
      \/ pc = "delete" /\ pc' \in {"deletecurrent", "idle"}
      \/ pc = "deletecurrent" /\ pc' = "idle"
  BY DEF DeleteExpiredKeys, DeleteRetiredKeys, DeleteCurrent, Goto
<1>4. pc' = "updatestatus" => keep' \subseteq mem.retired
  BY <1>3 DEF DeleteExpiredKeys, DeleteRetiredKeys, DeleteCurrent, Goto
<1> QED
  BY <1>1, <1>2, <1>3, <1>4, QuietTracks

\* A conflict ends the reconcile or the create.
LEMMA ConflictTracks ==
    ASSUME TypeOK, TypeOK', TInv,
           HealExternalName \/ ObserveExisting \/ Rotate \/ PersistName \/ UpdateRetiredKeys,
           cr' = cr, mem' = mem, pc' \in {"idle", "failed"}
    PROVE  TInv'
<1> DEFINE Conflict == UNCHANGED <<btp, last, target, made, events>> /\ pc # "idle" /\ (pc' = "failed" => pc = "persist")
<1>1. HealExternalName \/ ObserveExisting => Conflict
  BY DEF HealExternalName, ObserveExisting, world, locals, Goto
<1>2. Rotate => Conflict
  BY DEF Rotate, world, locals, Goto, AfterRetirement
<1>3. PersistName \/ UpdateRetiredKeys => Conflict
  BY DEF PersistName, UpdateRetiredKeys, world, locals, Goto
<1>4. Conflict /\ EventsGo
  BY <1>1, <1>2, <1>3 DEF EventsGo
<1> QED
  BY <1>4, QuietTracks

\* The ends of a reconcile that write no word about bindings.
LEMMA EndsTrack ==
    ASSUME TypeOK, TypeOK', TInv, CreateSucceeded \/ Finalize
    PROVE  TInv'
<1>1. /\ UNCHANGED <<btp, last, target, made, mem>> /\ EventsGo /\ pc' = "idle"
      /\ cr' = cr \/ cr' = [cr EXCEPT !.incomplete = FALSE] \/ cr' = [cr EXCEPT !.phase = "gone"]
  BY DEF CreateSucceeded, Finalize, world, locals, Goto, EventsGo
<1>2. Same(cr', cr) /\ cr'.force = cr.force /\ (cr'.phase = "live" => cr.phase = "live")
  BY <1>1, Known DEF Same, Resources
<1>3. InOrder'
  BY <1>1, <1>2, OrderStays DEF TInv, Same
<1> QED
  BY <1>1, <1>2, <1>3, SteadyTracks

\* Lookups by a generated name, and by the spec's name where no other is used,
\* find the binding of that name.
LEMMA LookupIsExact ==
    ASSUME NEW n, NEW b \in LookupServiceBinding(n), n # Base \/ (\A x \in btp : x.name = Base)
    PROVE  b \in btp /\ b.name = n
BY DEF LookupServiceBinding

\* The bindings have ids, and so does who refers to one.
LEMMA IdsAreSome ==
    ASSUME TypeOK
    PROVE  \A b \in btp : b.id # NoId /\ b.id \in Nat /\ b.name \in Nat
BY ConstantsAssumption DEF TypeOK, Bindings, Ids, NoId, ConstantsAssumption

LEMMA HealTracks == ASSUME TypeOK, TypeOK', TInv, HealExternalName PROVE TInv'
<1>1. pc = "observe" /\ mem.ext = NoId /\ pc' = "idle" /\ UNCHANGED <<btp, last, mem, made, target, events>>
  BY DEF HealExternalName, Goto, world, locals
<1>2. PICK b \in LookupServiceBinding(mem.sname) : cr' = IF Refused THEN cr ELSE [cr EXCEPT !.ext = b.id]
  BY DEF HealExternalName
<1>3. CASE Refused
  BY <1>1, <1>2, <1>3, ConflictTracks
<1>4. CASE ~Refused
  <2>1. mem = cr /\ cr' = [cr EXCEPT !.ext = b.id] /\ b \in btp
    BY <1>2, <1>4 DEF Refused, LookupServiceBinding
  <2>2. /\ cr'.ext = b.id /\ cr'.sname = cr.sname /\ cr'.pending = cr.pending /\ cr'.retired = cr.retired
        /\ cr'.sid = cr.sid /\ cr'.rot = cr.rot /\ cr'.force = cr.force /\ cr'.phase = cr.phase
    BY <2>1, Known DEF Resources
  <2>3. InOrder'
    BY <1>1, <2>1, <2>2, OrderStays DEF TInv
  <2> SUFFICES ASSUME Calm' PROVE Knows' /\ MadeIsThere' /\ Accounted'
    BY <2>3 DEF TInv
  <2>4. Calm /\ Accounted /\ InOrder
    BY <1>1, <2>2, CalmBefore DEF EventsGo, TInv
  <2>5. Knows' /\ ~HasMade'
    BY <1>1 DEF Knows, HasMade
  <2>6. ASSUME cr.rot PROVE Generated'
    <3>1. Generated
      BY <2>4, <2>6 DEF Accounted
    <3>2. b.name = cr.sname
      BY <1>2, <2>1, <3>1, LookupIsExact DEF Generated
    <3>3. \A x \in btp : x.id = b.id => x.name = cr.sname
      BY <2>1, <2>4, <3>2 DEF InOrder
    <3>4. \A x \in btp : x.id # cr.ext
      BY <1>1, <2>1, IdsAreSome
    <3> QED
      BY <1>1, <2>1, <2>2, <2>5, <3>1, <3>3, <3>4 DEF Generated, Creating
  <2>7. ASSUME ~cr.rot PROVE Plain'
    <3>1. Plain
      BY <2>4, <2>7 DEF Accounted
    <3>2. \A x \in btp : x.id = b.id
      BY <2>1, <2>4, <3>1 DEF Plain, InOrder
    <3> QED
      BY <1>1, <2>1, <2>2, <2>5, <3>1, <3>2 DEF Plain, Creating
  <2> QED
    BY <2>2, <2>5, <2>6, <2>7 DEF MadeIsThere, Accounted
<1> QED
  BY <1>3, <1>4

\* A create begins where the current binding is missing.
LEMMA ObserveMissingTracks == ASSUME TypeOK, TypeOK', TInv, ObserveMissing PROVE TInv'
<1>1. CASE pc' # "create"
  BY <1>1, LooksTrack
<1>2. CASE pc' = "create"
  <2>1. /\ pc = "observe" /\ mem.phase # "deleting" /\ mem.ext \notin IdsOf(btp)
        /\ UNCHANGED <<btp, last, cr, mem, made, target, events>>
    BY <1>2 DEF ObserveMissing, Missing, Goto, world, locals
  <2>2. InOrder'
    BY <1>2, <2>1, OrderStays DEF TInv
  <2> SUFFICES ASSUME Calm' PROVE Knows' /\ MadeIsThere' /\ Accounted'
    BY <2>2 DEF TInv
  <2>3. Calm /\ Accounted /\ Knows
    BY <2>1, CalmBefore DEF EventsGo, TInv
  <2>4. Knows' /\ ~HasMade'
    BY <1>2, <2>1, <2>3 DEF Knows, HasMade, Same
  <2>5. \A b \in btp : b.id # cr.ext
    BY <2>1, <2>3 DEF Knows, Same, IdsOf
  <2>6. mem.phase = "live"
    BY <2>1, <2>3, Known DEF Knows, Resources
  <2>7. cr.rot => Generated'
    BY <1>2, <2>1, <2>3, <2>4, <2>5 DEF Accounted, Generated
  <2>8. ~cr.rot => Plain'
    BY <1>2, <2>1, <2>3, <2>4, <2>5, <2>6 DEF Accounted, Plain
  <2> QED
    BY <2>1, <2>4, <2>7, <2>8 DEF MadeIsThere, Accounted
<1> QED
  BY <1>1, <1>2

\* The status has the id of the current binding before it is judged.
LEMMA ObserveExistingTracks == ASSUME TypeOK, TypeOK', TInv, ObserveExisting PROVE TInv'
<1>1. PICK b \in btp :
          /\ b.id = mem.ext /\ drift' = (b.name # mem.sname)
          /\ \/ drift' /\ UNCHANGED <<cr, mem>> /\ Goto("rotate")
             \/ ~drift' /\ Wrote([cr EXCEPT !.sid = b.id, !.sname = b.name]) /\ Goto("rotate")
             \/ UNCHANGED <<cr, mem>> /\ Goto("idle")
  BY DEF ObserveExisting
<1>2. pc = "observe" /\ UNCHANGED <<btp, last, made, target, events>>
  BY DEF ObserveExisting, world
<1>3. CASE pc' = "idle"
  <2>1. UNCHANGED <<cr, mem>>
    BY <1>1, <1>3 DEF Goto
  <2> QED
    BY <1>3, <2>1, ConflictTracks
<1>4. CASE pc' # "idle"
  <2>1. pc' = "rotate"
    BY <1>1, <1>4 DEF Goto
  <2>2. /\ cr'.ext = cr.ext /\ cr'.pending = cr.pending /\ cr'.retired = cr.retired
        /\ cr'.rot = cr.rot /\ cr'.force = cr.force /\ cr'.phase = cr.phase
        /\ \/ cr' = cr /\ mem' = mem /\ b.name # mem.sname
           \/ cr'.sid = b.id /\ cr'.sname = b.name /\ mem' = cr' /\ b.name = mem.sname
    BY <1>1, <1>4, Known DEF Wrote, Resources, Goto
  <2>3. InOrder'
    BY <1>2, <2>1, <2>2, OrderStays DEF TInv
  <2> SUFFICES ASSUME Calm' PROVE Knows' /\ MadeIsThere' /\ Accounted'
    BY <2>3 DEF TInv
  <2>4. Calm /\ Accounted /\ Knows
    BY <1>2, <2>2, CalmBefore DEF EventsGo, TInv
  <2>5. cr.ext = b.id /\ mem.sname = cr.sname /\ cr.phase # "gone"
    BY <1>1, <1>2, <2>4 DEF Knows, Same
  <2>6. Knows' /\ ~HasMade' /\ cr'.sname = cr.sname
    <3>1. CASE cr' = cr /\ mem' = mem
      BY <1>2, <2>1, <2>4, <3>1 DEF Knows, HasMade, Same
    <3>2. CASE mem' = cr'
      BY <2>1, <2>2, <2>5, <3>2 DEF Knows, HasMade, Same
    <3> QED
      BY <2>2, <2>5, <3>1, <3>2
  <2>7. ASSUME cr.rot PROVE Generated'
    <3>1. Generated
      BY <2>4, <2>7 DEF Accounted
    <3>2. cr'.sid = cr'.ext \/ cr'.ext \in cr'.retired
      BY <1>1, <2>2, <2>5, <3>1 DEF Generated
    <3>3. \A x \in btp : x.id = cr'.ext => x.id \in cr'.retired \/ cr'.sid = cr'.ext \/ x.name = cr'.sname
      BY <2>2, <2>6, <3>1, <3>2 DEF Generated
    <3> QED
      BY <1>2, <2>1, <2>2, <2>6, <3>1, <3>2, <3>3 DEF Generated, Creating
  <2>8. ASSUME ~cr.rot PROVE Plain'
    <3>1. Plain
      BY <2>4, <2>8 DEF Accounted
    <3> QED
      BY <1>2, <2>1, <2>2, <2>5, <2>6, <3>1 DEF Plain, Creating
  <2> QED
    BY <2>2, <2>6, <2>7, <2>8 DEF MadeIsThere, Accounted
<1> QED
  BY <1>3, <1>4

\* The current binding is retired before another is made.
LEMMA RotateTracks == ASSUME TypeOK, TypeOK', TInv, Rotate PROVE TInv'
<1>1. pc = "rotate" /\ NeedRetirement(mem) /\ UNCHANGED <<btp, last, made, target, events, due>>
  BY DEF Rotate, world, times, locals
<1>2. CASE UNCHANGED <<cr, mem>> /\ pc' = "idle"
  BY <1>2, ConflictTracks
<1>3. CASE ~(UNCHANGED <<cr, mem>> /\ pc' = "idle")
  <2>1. Wrote(RetireBinding(cr)) /\ pc' = AfterRetirement(cr)
    BY <1>3 DEF Rotate, Goto
  <2>2. /\ cr'.ext = cr.ext /\ cr'.pending = cr.pending /\ cr'.sid = cr.sid /\ cr'.sname = cr.sname
        /\ cr'.rot = cr.rot /\ cr'.force = cr.force /\ cr'.phase = cr.phase /\ mem' = cr'
        /\ cr.retired \subseteq cr'.retired /\ (NeedRetirement(cr) => cr.sid \in cr'.retired)
    <3>1. CASE NeedRetirement(cr)
      BY <2>1, <3>1, Known DEF Wrote, RetireBinding, Resources
    <3>2. CASE ~NeedRetirement(cr)
      BY <2>1, <3>2 DEF Wrote, RetireBinding
    <3> QED
      BY <3>1, <3>2
  <2>3. pc' = "create" \/ (pc' = "delete" /\ cr.phase = "deleting")
    BY <2>1 DEF AfterRetirement
  <2>4. InOrder'
    BY <1>1, <2>2, <2>3, OrderStays DEF TInv
  <2> SUFFICES ASSUME Calm' PROVE Knows' /\ MadeIsThere' /\ Accounted'
    BY <2>4 DEF TInv
  <2>5. Calm /\ Accounted /\ Knows
    BY <1>1, <2>2, CalmBefore DEF EventsGo, TInv
  <2>6. cr.phase # "gone" /\ mem.rot = cr.rot /\ mem.sid = cr.sid /\ (mem.force => cr.force)
    BY <1>1, <2>5 DEF Knows, Same
  <2>7. Knows' /\ ~HasMade'
    BY <2>2, <2>3, <2>6 DEF Knows, HasMade, Same
  <2>8. cr.rot /\ NeedRetirement(cr)
    BY <1>1, <2>6 DEF NeedRetirement
  <2>9. Generated'
    <3>1. Generated /\ cr'.ext \in cr'.retired
      BY <1>1, <2>2, <2>5, <2>8 DEF Accounted, Generated
    <3> QED
      BY <1>1, <2>2, <2>3, <2>7, <3>1 DEF Generated
  <2> QED
    BY <2>2, <2>7, <2>8, <2>9 DEF MadeIsThere, Accounted
<1> QED
  BY <1>2, <1>3

LEMMA CreateStartTracks == ASSUME TypeOK, TypeOK', TInv, CreateStart PROVE TInv'
<1>1. /\ pc = "create" /\ made' = NoId /\ UNCHANGED <<btp, last, target, events>>
      /\ \/ UNCHANGED <<cr, mem>> /\ pc' = "idle"
         \/ Wrote([cr EXCEPT !.attempted = TRUE, !.incomplete = TRUE]) /\ pc' = "commit"
  BY DEF CreateStart, Goto, world
<1>2. /\ Same(cr', cr) /\ cr'.force = cr.force /\ cr'.phase = cr.phase
      /\ pc' = "idle" \/ (pc' = "commit" /\ mem' = cr')
  BY <1>1, Known DEF Same, Wrote, Resources
<1>3. InOrder'
  BY <1>1, <1>2, Known DEF TInv, InOrder, Same, NoId
<1> SUFFICES ASSUME Calm' PROVE Knows' /\ MadeIsThere' /\ Accounted'
  BY <1>3 DEF TInv
<1>4. Calm /\ Accounted /\ Knows
  BY <1>1, <1>2, CalmBefore DEF EventsGo, TInv, Same
<1>5. Knows' /\ ~HasMade'
  BY <1>1, <1>2, <1>4 DEF Knows, HasMade, Same
<1>6. cr.rot => Generated'
  BY <1>1, <1>2, <1>4, <1>5 DEF Accounted, Generated, Same, Creating
<1>7. ~cr.rot => Plain'
  BY <1>1, <1>2, <1>4, <1>5 DEF Accounted, Plain, Same, Creating
<1> QED
  BY <1>2, <1>5, <1>6, <1>7 DEF MadeIsThere, Accounted, Same

\* A generated name is in the resource before a binding can have it.
LEMMA CommitNameTracks == ASSUME TypeOK, TypeOK', TInv, CommitName PROVE TInv'
<1>1. pc = "commit" /\ UNCHANGED <<btp, last, made, events>>
  BY DEF CommitName
<1>2. CASE UNCHANGED <<cr, mem>> /\ pc' = "failed"
  <2>1. InOrder'
    BY <1>1, <1>2, OrderStays DEF TInv
  <2> QED
    BY <1>1, <1>2, <2>1, SteadyTracks DEF Same, EventsGo
<1>3. CASE ~(UNCHANGED <<cr, mem>> /\ pc' = "failed")
  <2>1. \/ ~IsRotationEnabled(mem) /\ target' = Base /\ pc' = "sm" /\ UNCHANGED <<cr, mem>>
        \/ IsRotationEnabled(mem) /\ Committed(mem) /\ target' = mem.pending /\ pc' = "persist" /\ UNCHANGED <<cr, mem>>
        \/ /\ IsRotationEnabled(mem) /\ ~Committed(mem) /\ target' = names + 1 /\ pc' = "persist"
           /\ cr' = [cr EXCEPT !.pending = names + 1] /\ mem' = cr'
    BY <1>3 DEF CommitName, Goto, Wrote
  <2>2. names \in Nat /\ names + 1 # NoName
    BY RestStays DEF NoName
  <2>3. /\ cr'.ext = cr.ext /\ cr'.retired = cr.retired /\ cr'.sid = cr.sid /\ cr'.sname = cr.sname
        /\ cr'.rot = cr.rot /\ cr'.force = cr.force /\ cr'.phase = cr.phase
        /\ \/ UNCHANGED <<cr, mem>> /\ (~IsRotationEnabled(mem) \/ Committed(mem))
           \/ ~Committed(mem) /\ cr'.pending = target' /\ mem' = cr'
    BY <2>1, Known DEF Resources
  <2>4. InOrder'
    BY <1>1, <2>1, <2>3, OrderStays DEF TInv
  <2> SUFFICES ASSUME Calm' PROVE Knows' /\ MadeIsThere' /\ Accounted'
    BY <2>4 DEF TInv
  <2>5. Calm /\ Accounted /\ Knows /\ InOrder
    BY <1>1, <2>3, CalmBefore DEF EventsGo, TInv
  <2>6. /\ mem.pending = cr.pending /\ mem.rot = cr.rot /\ (mem.force => cr.force)
        /\ cr.phase # "gone"
    BY <1>1, <2>5 DEF Knows, Same
  <2>7. Knows' /\ ~HasMade'
    <3>1. pc' \in {"sm", "persist"}
      BY <2>1
    <3>2. CASE UNCHANGED <<cr, mem>>
      BY <1>1, <2>5, <3>1, <3>2 DEF Knows, HasMade, Same
    <3>3. CASE mem' = cr'
      BY <2>3, <2>6, <3>1, <3>3 DEF Knows, HasMade, Same
    <3> QED
      BY <2>3, <3>2, <3>3
  <2>8. ASSUME cr.rot PROVE Generated'
    <3>1. Generated /\ IsRotationEnabled(mem)
      BY <2>5, <2>6, <2>8 DEF Accounted, IsRotationEnabled
    <3>2. pc' = "persist" /\ target' = cr'.pending /\ target' # NoName /\ (cr'.pending = cr.pending \/ cr.pending = NoName)
      BY <2>1, <2>2, <2>3, <2>6, <3>1 DEF Committed
    <3> QED
      BY <1>1, <2>3, <2>7, <3>1, <3>2 DEF Generated, Creating
  <2>9. ASSUME ~cr.rot PROVE Plain'
    <3>1. Plain /\ ~IsRotationEnabled(mem)
      BY <2>5, <2>6, <2>9 DEF Accounted, IsRotationEnabled, Plain
    <3>2. pc' = "sm" /\ target' = Base /\ UNCHANGED <<cr, mem>>
      BY <2>1, <3>1
    <3> QED
      BY <1>1, <2>7, <3>1, <3>2 DEF Plain, Creating
  <2> QED
    BY <2>3, <2>7, <2>8, <2>9 DEF MadeIsThere, Accounted
<1> QED
  BY <1>2, <1>3

LEMMA PersistNameTracks == ASSUME TypeOK, TypeOK', TInv, PersistName PROVE TInv'
<1>1. pc = "persist" /\ UNCHANGED <<btp, last, made, target, events>>
  BY DEF PersistName, world, locals
<1>2. CASE UNCHANGED <<cr, mem>> /\ pc' = "failed"
  BY <1>2, ConflictTracks
<1>3. CASE ~(UNCHANGED <<cr, mem>> /\ pc' = "failed")
  <2>1. Wrote(WithName(cr)) /\ pc' = "lookup"
    BY <1>3 DEF PersistName, Goto
  <2>2. /\ cr'.ext = cr.ext /\ cr'.retired = cr.retired /\ cr'.sid = cr.sid /\ cr'.sname = target
        /\ cr'.rot = cr.rot /\ cr'.force = cr.force /\ cr'.phase = cr.phase /\ cr'.pending = cr.pending /\ mem' = cr'
    BY <2>1, Known DEF Resources, Wrote, WithName
  <2>3. InOrder'
    BY <1>1, <2>1, <2>2, OrderStays DEF TInv
  <2> SUFFICES ASSUME Calm' PROVE Knows' /\ MadeIsThere' /\ Accounted'
    BY <2>3 DEF TInv
  <2>4. Calm /\ Accounted /\ Knows
    BY <1>1, <2>2, CalmBefore DEF EventsGo, TInv
  <2>5. Knows' /\ ~HasMade'
    BY <1>1, <2>1, <2>2, <2>4 DEF Knows, HasMade, Same
  <2>6. cr.rot /\ Generated
    BY <1>1, <2>4 DEF Accounted, Plain
  <2>7. Generated'
    BY <1>1, <2>1, <2>2, <2>5, <2>6 DEF Generated, Creating, NoName, Base
  <2> QED
    BY <2>2, <2>5, <2>6, <2>7 DEF MadeIsThere, Accounted
<1> QED
  BY <1>2, <1>3

\* To record a binding of the name that was committed, or the only one there is,
\* forgets none: the one recorded before is retired or gone.
LEMMA RecordingTracks ==
    ASSUME TypeOK, TypeOK', TInv, InOrder', EventsGo, btp' = btp, NEW b \in btp,
           pc \in Creating, pc' \in {"created", "idle"}, pc' = "idle" \/ mem' = cr',
           cr'.ext = b.id, cr'.pending \in {cr.pending, NoName}, cr'.retired = cr.retired, cr'.sid = cr.sid,
           cr'.sname = cr.sname, cr'.rot = cr.rot, cr'.force => cr.force, cr'.phase = cr.phase,
           b.name = target, pc = "lookup" \/ HasMade
    PROVE  TInv'
<1> SUFFICES ASSUME Calm' PROVE Knows' /\ MadeIsThere' /\ Accounted'
  BY DEF TInv
<1>1. Calm /\ Accounted /\ Knows /\ InOrder
  BY CalmBefore DEF TInv
<1>2. cr.phase # "gone" /\ pc # "idle"
  BY <1>1 DEF Knows, Creating
<1>3. Knows' /\ ~HasMade'
  BY <1>2 DEF Knows, HasMade, Same
<1>4. \A x \in btp : x.id = b.id \/ x.name = b.name => x = b
  BY <1>1 DEF InOrder
<1>5. ASSUME cr.rot PROVE Generated'
  <2>1. Generated /\ target = cr.pending /\ cr.sname = target
    BY <1>1, <1>5 DEF Accounted, Generated
  <2>2. \A x \in btp : x.id = b.id \/ x.id \in cr.retired
    BY <1>4, <2>1 DEF Generated
  <2> QED
    BY <1>3, <1>4, <2>1, <2>2 DEF Generated, Creating
<1>6. ASSUME ~cr.rot PROVE Plain'
  <2>1. Plain /\ target = Base
    BY <1>1, <1>6 DEF Accounted, Plain
  <2>2. \A x \in btp : x.id = b.id
    BY <1>4, <2>1 DEF Plain
  <2>3. cr'.force \in BOOLEAN /\ cr.force \in BOOLEAN
    BY Known DEF TypeOK, Resources
  <2> QED
    BY <1>3, <2>1, <2>2, <2>3 DEF Plain, Creating
<1> QED
  BY <1>3, <1>5, <1>6 DEF MadeIsThere, Accounted

LEMMA RecordedFields ==
    ASSUME TypeOK, NEW id
    PROVE  LET c == Recorded(cr, id) IN
           /\ c.ext = id /\ c.pending = NoName /\ c.retired = cr.retired /\ c.sid = cr.sid
           /\ c.sname = cr.sname /\ c.rot = cr.rot /\ (c.force => cr.force) /\ c.phase = cr.phase
BY Known DEF Recorded, Resources

LEMMA AdoptTracks == ASSUME TypeOK, TypeOK', TInv, AdoptOwnBinding PROVE TInv'
<1>1. pc = "lookup" /\ UNCHANGED <<btp, last, target, events>>
  BY DEF AdoptOwnBinding, world
<1>2. PICK b \in LookupServiceBinding(target) :
          /\ made' = b.id
          /\ \/ UNCHANGED <<cr, mem>> /\ pc' = "failed"
             \/ Wrote(Recorded(cr, b.id)) /\ pc' = "created"
  BY DEF AdoptOwnBinding, Goto
<1>3. b \in btp
  BY DEF LookupServiceBinding
<1>4. InOrder'
  <2>1. cr'.ext = cr.ext \/ cr'.ext = b.id
    BY <1>2, RecordedFields DEF Wrote
  <2>2. pc' \in {"failed", "created"}
    BY <1>2
  <2> QED
    BY <1>1, <1>2, <1>3, <2>1, <2>2, OrderStays DEF TInv
<1>5. Calm' => Calm
  BY <1>1, <1>2, RecordedFields, CalmBefore DEF EventsGo, Wrote
<1>6. Calm => cr.rot /\ Generated /\ Knows /\ b.name = target
  <2> SUFFICES ASSUME Calm PROVE cr.rot /\ Generated /\ Knows /\ b.name = target
    OBVIOUS
  <2>1. cr.rot /\ Generated /\ Knows
    BY <1>1 DEF TInv, Accounted, Plain
  <2>2. target # Base
    BY <1>1, <2>1 DEF Generated, NoName, Base
  <2> QED
    BY <2>1, <2>2, LookupIsExact
<1>7. CASE UNCHANGED <<cr, mem>> /\ pc' = "failed"
  <2> SUFFICES ASSUME Calm' PROVE Knows' /\ MadeIsThere' /\ Accounted'
    BY <1>4 DEF TInv
  <2>1. Knows'
    BY <1>1, <1>5, <1>6, <1>7 DEF Knows, Same
  <2>2. MadeIsThere'
    BY <1>1, <1>2, <1>3, <1>5, <1>6 DEF MadeIsThere
  <2>3. Generated'
    BY <1>1, <1>5, <1>6, <1>7 DEF Generated, Creating
  <2> QED
    BY <1>5, <1>6, <1>7, <2>1, <2>2, <2>3 DEF Accounted
<1>8. CASE Wrote(Recorded(cr, b.id)) /\ pc' = "created"
  <2>1. CASE Calm
    BY <1>1, <1>3, <1>4, <1>6, <1>8, <2>1, RecordedFields, RecordingTracks DEF Wrote, Creating, EventsGo
  <2>2. CASE ~Calm
    BY <1>4, <1>5, <2>2 DEF TInv
  <2> QED
    BY <2>1, <2>2
<1> QED
  BY <1>2, <1>7, <1>8

\* What is made has the committed name, even when its answer is lost.
LEMMA CreateBindingTracks == ASSUME TypeOK, TypeOK', TInv, CreateBinding PROVE TInv'
<1> DEFINE n == [id |-> last + 1, name |-> target]
<1>1. /\ pc = "sm" /\ btp' = btp \cup {n} /\ last' = last + 1 /\ UNCHANGED <<cr, mem, target>> /\ EventsGo
      /\ \A b \in btp : b.name # target
      /\ \/ made' = last + 1 /\ pc' = "patch"
         \/ made' = made /\ pc' = "failed"
  BY DEF CreateBinding, Fits, FaultHappens, EventsGo, Events, Goto
<1>2. n.id = last + 1 /\ n.name = target
  OBVIOUS
<1> HIDE DEF n
<1>3. last \in Nat /\ cr.ext \in Nat /\ made \in Nat /\ \A b \in btp : b.id \in Nat
  BY Known, IdsAreSome, ConstantsAssumption DEF TypeOK, Resources, Ids, NoId, ConstantsAssumption
<1>4. \A b \in btp : b.id # n.id /\ b.name # n.name /\ b.id <= last + 1
  BY <1>1, <1>2, <1>3 DEF TInv, InOrder
<1>5. cr.ext <= last + 1 /\ made <= last + 1 /\ cr.ext # n.id
  BY <1>2, <1>3 DEF TInv, InOrder
<1>6. InOrder'
  BY <1>1, <1>2, <1>3, <1>4, <1>5 DEF TInv, InOrder
<1> SUFFICES ASSUME Calm' PROVE Knows' /\ MadeIsThere' /\ Accounted'
  BY <1>6 DEF TInv
<1>7. Calm /\ Accounted /\ Knows /\ made = NoId
  BY <1>1, CalmBefore DEF TInv, InOrder
<1>8. Knows'
  BY <1>1, <1>7 DEF Knows, Same
<1>9. MadeIsThere'
  <2>1. HasMade' => made' = n.id
    BY <1>1, <1>2, <1>7 DEF HasMade
  <2> QED
    BY <1>1, <1>2, <2>1 DEF MadeIsThere
<1>10. ASSUME cr.rot PROVE Generated'
  <2>1. Generated /\ target = cr.pending /\ target # NoName /\ cr.sname = target
    BY <1>1, <1>7, <1>10 DEF Accounted, Generated
  <2>2. target # Base
    BY <2>1 DEF NoName, Base
  <2> QED
    BY <1>1, <1>2, <1>5, <2>1, <2>2 DEF Generated, Creating
<1>11. ASSUME ~cr.rot PROVE Plain'
  <2>1. Plain /\ target = Base /\ cr.ext = NoId
    BY <1>1, <1>7, <1>11 DEF Accounted, Plain, Creating
  <2> QED
    BY <1>1, <1>2, <2>1 DEF Plain, Creating
<1> QED
  BY <1>1, <1>8, <1>9, <1>10, <1>11 DEF Accounted

LEMMA CreateEndsTrack == ASSUME TypeOK, TypeOK', TInv, PatchExternalName \/ CreateFailed PROVE TInv'
<1> DEFINE named == IF made = NoId THEN cr
                    ELSE IF Refused THEN [cr EXCEPT !.ext = made] ELSE Recorded(cr, made)
<1>1. UNCHANGED <<btp, last, target, made, events>> /\ pc \in {"patch", "failed"} /\ EventsGo
  BY DEF PatchExternalName, CreateFailed, world, locals, EventsGo
<1>2. \/ pc = "patch" /\ cr' = Recorded(cr, made) /\ mem' = cr' /\ pc' = "created"
      \/ pc = "failed" /\ cr' = [named EXCEPT !.incomplete = FALSE] /\ pc' = "idle"
  BY Zenon DEF PatchExternalName, CreateFailed, Wrote, Goto
<1>3. /\ named.pending \in {cr.pending, NoName} /\ named.retired = cr.retired /\ named.sid = cr.sid
      /\ named.sname = cr.sname /\ named.rot = cr.rot /\ (named.force => cr.force) /\ named.phase = cr.phase
      /\ named.ext = (IF made = NoId THEN cr.ext ELSE made) /\ named \in Resources /\ (made = NoId => named = cr)
  <2>1. [cr EXCEPT !.ext = made] \in Resources /\ Recorded(cr, made) \in Resources /\ cr \in Resources
    <3>1. made \in IdsOrNone /\ target \in Nat /\ cr \in Resources /\ mem \in Resources
      BY Known, RestStays
    <3>2. [cr EXCEPT !.ext = made] \in Resources
      BY <3>1 DEF Resources, IdsOrNone
    <3> QED
      BY <3>1, <3>2, Writes
  <2>2. LET c == [cr EXCEPT !.ext = made] IN
        /\ c.ext = made /\ c.pending = cr.pending /\ c.retired = cr.retired /\ c.sid = cr.sid
        /\ c.sname = cr.sname /\ c.rot = cr.rot /\ c.force = cr.force /\ c.phase = cr.phase
    BY Known DEF Resources
  <2> QED
    BY <2>1, <2>2, RecordedFields
<1> HIDE DEF named
<1>4. /\ cr'.pending \in {cr.pending, NoName} /\ cr'.retired = cr.retired /\ cr'.sid = cr.sid
      /\ cr'.sname = cr.sname /\ cr'.rot = cr.rot /\ (cr'.force => cr.force) /\ cr'.phase = cr.phase
      /\ cr'.ext = (IF pc = "failed" /\ made = NoId THEN cr.ext ELSE made)
  <2>1. CASE pc = "patch"
    BY <1>2, <2>1, RecordedFields
  <2>2. CASE pc = "failed"
    BY <1>2, <1>3, <2>2 DEF Resources
  <2> QED
    BY <1>1, <2>1, <2>2
<1>5. InOrder'
  BY <1>1, <1>2, <1>4, OrderStays DEF TInv
<1>6. CASE Calm /\ HasMade
  <2>1. PICK b \in btp : b.id = made /\ b.name = target
    BY <1>6 DEF TInv, MadeIsThere
  <2> QED
    BY <1>1, <1>2, <1>4, <1>5, <1>6, <2>1, RecordingTracks DEF Creating, HasMade
<1>7. CASE ~HasMade
  <2>1. pc = "failed" /\ made = NoId /\ pc' = "idle" /\ cr' = [cr EXCEPT !.incomplete = FALSE]
    BY <1>1, <1>2, <1>3, <1>7 DEF HasMade
  <2>2. Same(cr', cr) /\ cr'.force = cr.force /\ cr'.phase = cr.phase
    BY <2>1, Known DEF Same, Resources
  <2> QED
    BY <1>1, <1>5, <2>1, <2>2, SteadyTracks
<1>8. CASE ~Calm
  BY <1>1, <1>4, <1>5, <1>8, CalmBefore DEF TInv
<1> QED
  BY <1>6, <1>7, <1>8

\* Only keys whose bindings are gone leave the list.
LEMMA UpdateRetiredKeysTracks == ASSUME KeyInv, TypeOK', TInv, UpdateRetiredKeys PROVE TInv'
<1>1. TypeOK /\ pc = "updatestatus" /\ pc' = "idle" /\ UNCHANGED <<btp, last, made, target, events>>
  BY DEF KeyInv, UpdateRetiredKeys, Goto, world, locals
<1>2. CASE UNCHANGED <<cr, mem>>
  BY <1>1, <1>2, ConflictTracks
<1>3. CASE ~UNCHANGED <<cr, mem>>
  <2>1. cr' = [cr EXCEPT !.retired = keep]
    BY <1>3 DEF UpdateRetiredKeys, Wrote
  <2>2. /\ cr'.ext = cr.ext /\ cr'.retired = keep /\ cr'.sid = cr.sid /\ cr'.sname = cr.sname
        /\ cr'.rot = cr.rot /\ cr'.force = cr.force /\ cr'.phase = cr.phase /\ cr'.pending = cr.pending
    BY <1>1, <2>1, Known DEF Resources
  <2>3. InOrder'
    BY <1>1, <2>2, OrderStays DEF TInv
  <2> SUFFICES ASSUME Calm' PROVE Knows' /\ MadeIsThere' /\ Accounted'
    BY <2>3 DEF TInv
  <2>4. Calm /\ Accounted /\ Knows
    BY <1>1, <2>2, CalmBefore DEF EventsGo, TInv
  <2>5. Knows' /\ ~HasMade'
    BY <1>1 DEF Knows, HasMade
  <2>6. \A b \in btp : b.id \in cr.retired => b.id \in keep
    <3>1. Never({"stale"})
      BY <2>4 DEF Calm, Never
    <3> QED
      BY <1>1, <3>1 DEF KeyInv, NoKeyIsDropped, IdsOf
  <2>7. cr.rot => Generated'
    BY <1>1, <2>2, <2>4, <2>5, <2>6 DEF Accounted, Generated, Creating
  <2>8. ASSUME ~cr.rot PROVE Plain'
    <3>1. Plain /\ keep = {}
      BY <1>1, <2>4, <2>8 DEF Accounted, Plain, Knows, Same
    <3> QED
      BY <1>1, <2>2, <2>5, <3>1 DEF Plain, Creating
  <2> QED
    BY <2>2, <2>5, <2>7, <2>8 DEF MadeIsThere, Accounted
<1> QED
  BY <1>2, <1>3

LEMMA InitTracks == Init => TInv
<1> SUFFICES ASSUME Init PROVE TInv
  OBVIOUS
<1>1. btp = {} /\ last = 0 /\ made = NoId /\ pc = "idle" /\ cr.ext = NoId
  BY DEF Init
<1>2. cr.force = FALSE /\ cr.sname = Base /\ cr.retired = {} /\ cr.pending = NoName
  BY DEF Init
<1>3. InOrder
  BY <1>1 DEF InOrder, NoId
<1>4. Knows /\ ~HasMade /\ Generated /\ Plain
  BY <1>1, <1>2 DEF Knows, HasMade, Generated, Plain, Creating
<1> QED
  BY <1>3, <1>4 DEF TInv, MadeIsThere, Accounted

LEMMA NextTracks == ASSUME KeyInv, TInv, [Next]_vars PROVE TInv'
<1>1. TypeOK /\ TypeOK'
  BY NextKeeps DEF KeyInv
<1>2. CASE Reconcile
  BY <1>1, <1>2, StartTracks, HealTracks, ObserveMissingTracks, ObserveExistingTracks, LooksTrack, RotateTracks,
     CreateStartTracks, CommitNameTracks, PersistNameTracks, AdoptTracks, CreateBindingTracks, CreateEndsTrack,
     EndsTrack, DeletesTrack, UpdateRetiredKeysTracks DEF Reconcile
<1>3. CASE ~Reconcile
  BY <1>1, <1>3, LooksTrack, OthersTrack, ExcludedTrack DEF Next
<1> QED
  BY <1>2, <1>3

\* The invariant that the next theorems rest on.
THEOREM TrackInvariance == Spec => []TInv
<1>1. KeyInv /\ TInv /\ [Next]_vars => TInv'
  BY NextTracks
<1> QED
  BY <1>1, InitTracks, Invariance, PTL DEF Spec

\* However a create fails, dies or loses its answer, and whatever conflicts and
\* forced rotations come in between, the binding it made is the current one, a
\* retired one, or has the name that the resource committed, by which the next
\* create finds it (commitCreateName, lookupOwnedBinding): none is leaked.
THEOREM BindingsAreTracked == Spec => []EveryBindingIsTracked
<1>1. TInv => EveryBindingIsTracked
  BY DEF TInv, Calm, Accounted, Generated, Plain, EveryBindingIsTracked
<1> QED
  BY <1>1, TrackInvariance, PTL
-----------------------------------------------------------------------------
(* A forced rotation makes a new binding.                                  *)

\* A committed name is used at most once: until the binding of that name is made
\* no other has it, and recording the binding drops the name.
Fresh ==
    /\ (\A b \in btp : b.name <= names) /\ cr.pending <= names
    /\ cr.pending # NoName => \A b \in btp : b.name = cr.pending => pc = "patch" /\ b.id = made
    /\ pc \in {"commit", "persist", "lookup", "sm"} => mem.pending = cr.pending
    /\ pc \in {"persist", "lookup"} => target = cr.pending /\ target # NoName
    /\ pc = "sm" => target \in {cr.pending, Base}
    /\ pc = "patch" => made # cr.ext
    /\ pc = "failed" => made = NoId

FInv == Never({"fault"}) => Fresh

LEMMA FaultsStay ==
    ASSUME TypeOK, EventsGo, Never({"fault"})'
    PROVE  Never({"fault"}) /\ ~Happens("fault")
<1>1. events \in [Events -> Nat] /\ "fault" \in Events /\ events'["fault"] = 0
  BY DEF TypeOK, Events, Never
<1>2. ~Happens("fault")
  <2>1. SUFFICES ASSUME Happens("fault") PROVE FALSE
    OBVIOUS
  <2>2. events["fault"] \in Nat /\ events' = [events EXCEPT !["fault"] = events["fault"] + 1]
    BY <1>1, <2>1 DEF Happens
  <2>3. events'["fault"] = events["fault"] + 1
    BY <1>1, <2>2
  <2> QED
    BY <1>1, <2>2, <2>3
<1>3. events["fault"] = 0
  <2>1. CASE UNCHANGED events
    BY <1>1, <2>1
  <2>2. ASSUME NEW e \in Events, Happens(e) PROVE events["fault"] = 0
    <3>1. events' = [events EXCEPT ![e] = events[e] + 1] /\ e # "fault"
      BY <1>2, <2>2 DEF Happens
    <3> QED
      BY <1>1, <3>1
  <2> QED
    BY <2>1, <2>2 DEF EventsGo
<1> QED
  BY <1>2, <1>3 DEF Never

\* A step that has no part in naming.
LEMMA SteadyFresh ==
    ASSUME InOrder, Fresh, btp' \subseteq btp, names' = names, target' = target, cr'.pending = cr.pending,
           pc = "patch" => pc' = "patch",
           pc' = "patch" => pc = "patch" /\ made' = made /\ cr'.ext = cr.ext,
           \/ pc' \notin {"commit", "persist", "lookup", "sm"}
           \/ mem'.pending = cr'.pending
           \/ mem'.pending = mem.pending /\ pc \in {"commit", "persist", "lookup", "sm"},
           pc' \in {"persist", "lookup"} => pc \in {"persist", "lookup"},
           pc' = "sm" => pc \in {"sm", "lookup"},
           pc' = "failed" => pc \in {"failed", "commit", "persist", "lookup", "sm"} /\ made' = made
    PROVE  Fresh'
BY DEF InOrder, Fresh

LEMMA OthersFresh ==
    ASSUME TypeOK, TInv, FInv,
           \/ \E i \in Ids : BecomeDue(i) \/ Expire(i)
           \/ \E b \in btp : BindingLost(b)
           \/ UserForcesRotation \/ UserSwitchesRotation \/ UserDeletes \/ UserClearsIncomplete
           \/ SyncCache \/ UNCHANGED vars
    PROVE  FInv'
<1>1. /\ btp' \subseteq btp /\ UNCHANGED <<names, target, mem, pc, made>>
      /\ \/ cr' = cr
         \/ cr' \in {[cr EXCEPT !.force = TRUE], [cr EXCEPT !.rot = ~cr.rot], [cr EXCEPT !.phase = "deleting"],
                     [cr EXCEPT !.incomplete = FALSE, !.attempted = FALSE]}
  BY DEF BecomeDue, Expire, BindingLost, UserForcesRotation, UserSwitchesRotation, UserDeletes, UserClearsIncomplete,
     SyncCache, world, locals, vars
<1>2. EventsGo
  BY DEF BecomeDue, Expire, BindingLost, UserForcesRotation, UserSwitchesRotation, UserDeletes, UserClearsIncomplete,
     SyncCache, vars, EventsGo, Events
<1>3. cr'.pending = cr.pending /\ cr'.ext = cr.ext
  BY <1>1, Known DEF Resources
<1> QED
  BY <1>1, <1>2, <1>3, FaultsStay, SteadyFresh DEF TInv, FInv

\* The steps of a reconcile outside Create, and those of Create that only look or end.
LEMMA QuietFresh ==
    ASSUME TypeOK, TInv, FInv,
           \/ Start \/ ObserveMissing \/ RotateNot \/ NothingToAdopt \/ CreateRefused
           \/ CreateFails \/ Abort \/ DeleteExpiredKeys \/ DeleteRetiredKeys \/ DeleteCurrent
    PROVE  FInv'
<1>1. /\ btp' \subseteq btp /\ UNCHANGED <<names, target, cr, made>> /\ EventsGo
      /\ pc # "patch" \/ Happens("fault")
  BY DEF Start, ObserveMissing, RotateNot, NothingToAdopt, CreateRefused, CreateFails, Abort, DeleteExpiredKeys,
     DeleteRetiredKeys, DeleteCurrent, world, locals, Without, EventsGo, FaultHappens, Events
<1>2. \/ pc' \notin {"commit", "persist", "lookup", "sm", "failed", "patch"}
      \/ mem' = mem /\ pc' = "sm" /\ pc = "lookup"
      \/ pc' = "failed" /\ pc = "sm"
      \/ Happens("fault")
  BY DEF Start, ObserveMissing, RotateNot, NothingToAdopt, CreateRefused, CreateFails, Abort, DeleteExpiredKeys,
     DeleteRetiredKeys, DeleteCurrent, Goto, FaultHappens
<1>3. SUFFICES ASSUME Never({"fault"})' PROVE Fresh'
  BY DEF FInv
<1>4. Fresh /\ ~Happens("fault")
  BY <1>1, <1>3, FaultsStay DEF FInv
<1> QED
  BY <1>1, <1>2, <1>4, SteadyFresh DEF TInv

LEMMA WritesFresh ==
    ASSUME TypeOK, TInv, FInv,
           \/ HealExternalName \/ ObserveExisting \/ Rotate \/ CreateStart \/ PersistName
           \/ CreateSucceeded \/ UpdateRetiredKeys \/ Finalize
    PROVE  FInv'
<1>1. cr'.pending = cr.pending
  <2>1. CASE HealExternalName
    <3>1. PICK b \in LookupServiceBinding(mem.sname) : cr' = IF Refused THEN cr ELSE [cr EXCEPT !.ext = b.id]
      BY <2>1 DEF HealExternalName
    <3> QED
      BY <3>1, Known DEF Resources
  <2>2. CASE ObserveExisting
    <3>1. PICK b \in btp : UNCHANGED cr \/ cr' = [cr EXCEPT !.sid = b.id, !.sname = b.name]
      BY <2>2 DEF ObserveExisting, Wrote
    <3> QED
      BY <3>1, Known DEF Resources
  <2>3. CASE Rotate
    BY <2>3, Known DEF Rotate, Wrote, RetireBinding, Resources
  <2>4. CASE CreateStart \/ PersistName \/ CreateSucceeded \/ UpdateRetiredKeys \/ Finalize
    BY <2>4, Known DEF CreateStart, PersistName, CreateSucceeded, UpdateRetiredKeys, Finalize, Wrote, WithName, Resources
  <2> QED
    BY <2>1, <2>2, <2>3, <2>4
<1>2. btp' = btp /\ names' = names /\ target' = target /\ events' = events /\ pc # "patch"
  BY DEF HealExternalName, ObserveExisting, Rotate, CreateStart, PersistName, CreateSucceeded, UpdateRetiredKeys,
     Finalize, world, locals
<1>3. \/ pc' \notin {"commit", "persist", "lookup", "sm", "failed", "patch"}
      \/ pc = "create" /\ pc' = "commit" /\ mem' = cr'
      \/ pc = "persist" /\ pc' = "lookup" /\ mem' = cr'
      \/ pc = "persist" /\ pc' = "failed" /\ made' = made
  BY DEF HealExternalName, ObserveExisting, Rotate, AfterRetirement, CreateStart, PersistName, CreateSucceeded,
     UpdateRetiredKeys, Finalize, Goto, Wrote, locals
<1>4. SUFFICES ASSUME Never({"fault"})' PROVE Fresh'
  BY DEF FInv
<1>5. EventsGo
  BY <1>2 DEF EventsGo
<1>6. Fresh
  BY <1>4, <1>5, FaultsStay DEF FInv
<1>7. CASE pc' = "commit"
  BY <1>1, <1>2, <1>3, <1>6, <1>7 DEF Fresh
<1>8. CASE pc' # "commit"
  BY <1>1, <1>2, <1>3, <1>6, <1>8, SteadyFresh DEF TInv
<1> QED
  BY <1>7, <1>8

LEMMA CommitNameFresh == ASSUME TypeOK, TInv, FInv, CommitName PROVE FInv'
<1>1. btp' = btp /\ made' = made /\ events' = events /\ pc = "commit"
  BY DEF CommitName
<1>2. SUFFICES ASSUME Never({"fault"})' PROVE Fresh'
  BY DEF FInv
<1>3. EventsGo
  BY <1>1 DEF EventsGo
<1>4. Fresh /\ mem.pending = cr.pending /\ made = NoId
  BY <1>1, <1>2, <1>3, FaultsStay DEF FInv, Fresh, TInv, InOrder
<1>5. names \in Nat /\ cr.pending \in Nat /\ \A b \in btp : b.name \in Nat
  BY Known DEF TypeOK, Bindings, Resources
<1>6. CASE target' = Base /\ pc' = "sm" /\ UNCHANGED <<cr, mem, names>>
  BY <1>1, <1>4, <1>6 DEF Fresh
<1>7. CASE Committed(mem) /\ target' = mem.pending /\ pc' = "persist" /\ UNCHANGED <<cr, mem, names>>
  BY <1>1, <1>4, <1>7 DEF Fresh, Committed
<1>8. CASE names' = names + 1 /\ UNCHANGED <<cr, mem>> /\ pc' = "failed"
  BY <1>1, <1>4, <1>5, <1>8 DEF Fresh
<1>9. CASE /\ names' = names + 1 /\ target' = names + 1 /\ pc' = "persist" /\ mem' = cr'
           /\ cr' = [cr EXCEPT !.pending = names + 1]
  <2>1. cr'.pending = names + 1
    BY <1>9, Known DEF Resources
  <2> QED
    BY <1>1, <1>4, <1>5, <1>9, <2>1 DEF Fresh, NoName
<1> QED
  BY <1>6, <1>7, <1>8, <1>9 DEF CommitName, Goto, Wrote

\* Nothing is there to adopt.
LEMMA AdoptsNone == ASSUME TInv, Fresh PROVE ~AdoptOwnBinding
<1>1. SUFFICES ASSUME AdoptOwnBinding PROVE FALSE
  OBVIOUS
<1>2. pc = "lookup" /\ target = cr.pending /\ target # Base
  BY <1>1 DEF AdoptOwnBinding, Fresh, NoName, Base
<1>3. PICK b \in LookupServiceBinding(target) : TRUE
  BY <1>1 DEF AdoptOwnBinding
<1>4. b \in btp /\ b.name = cr.pending
  BY <1>2, <1>3, LookupIsExact
<1> QED
  BY <1>2, <1>4 DEF Fresh, NoName, Base

LEMMA CreatesFresh ==
    ASSUME TypeOK, TInv, FInv, AdoptOwnBinding \/ CreateBinding \/ PatchExternalName \/ CreateFailed
    PROVE  FInv'
<1>1. EventsGo
  BY DEF AdoptOwnBinding, CreateBinding, PatchExternalName, CreateFailed, EventsGo, FaultHappens, Events
<1>2. SUFFICES ASSUME Never({"fault"})' PROVE Fresh'
  BY DEF FInv
<1>3. Fresh /\ ~Happens("fault") /\ InOrder
  BY <1>1, <1>2, FaultsStay DEF FInv, TInv
<1>4. names \in Nat /\ cr.pending \in Nat /\ last \in Nat /\ cr.ext \in Nat
  BY Known, ConstantsAssumption DEF TypeOK, Resources, Ids, NoId, ConstantsAssumption
<1>5. CASE CreateBinding
  <2>1. /\ pc = "sm" /\ pc' = "patch" /\ made' = last + 1 /\ names' = names /\ cr' = cr
        /\ btp' = btp \cup {[id |-> last + 1, name |-> target]}
    BY <1>3, <1>5 DEF CreateBinding, FaultHappens, Goto
  <2>2. target <= names /\ cr.ext <= last
    BY <1>3, <1>4, <2>1 DEF Fresh, InOrder, Base
  <2> QED
    BY <1>3, <1>4, <2>1, <2>2 DEF Fresh
<1>6. CASE PatchExternalName
  <2>1. cr'.pending = NoName /\ pc' = "created" /\ btp' = btp /\ names' = names
    BY <1>6, Known DEF PatchExternalName, Recorded, Wrote, Goto, world, Resources
  <2> QED
    BY <1>3, <1>4, <2>1 DEF Fresh, NoName
<1>7. CASE CreateFailed
  <2>1. pc = "failed" /\ pc' = "idle" /\ UNCHANGED <<btp, names, target, made>> /\ made = NoId
    BY <1>3, <1>7 DEF CreateFailed, Goto, world, locals, Fresh
  <2>2. cr' = [cr EXCEPT !.incomplete = FALSE]
    BY <1>7, <2>1 DEF CreateFailed
  <2>3. cr'.pending = cr.pending
    BY <2>2, Known DEF Resources
  <2> QED
    BY <1>3, <2>1, <2>3, SteadyFresh
<1>8. ~AdoptOwnBinding
  BY <1>3, AdoptsNone DEF TInv
<1> QED
  BY <1>5, <1>6, <1>7, <1>8

LEMMA NextFresh == ASSUME TypeOK, TInv, FInv, [Next]_vars PROVE FInv'
<1>1. CASE Reconcile
  BY <1>1, QuietFresh, WritesFresh, CommitNameFresh, CreatesFresh DEF Reconcile
<1>2. CASE ~Reconcile
  BY <1>2, QuietFresh, OthersFresh DEF Next
<1> QED
  BY <1>1, <1>2

\* Only a recorded create ends the wish for a rotation.
LEMMA ForceStays ==
    ASSUME TypeOK, TInv, Fresh, [Next]_vars, cr.force, ~cr'.force
    PROVE  PatchExternalName
<1> SUFFICES ASSUME ~PatchExternalName PROVE FALSE
  OBVIOUS
<1>1. CASE HealExternalName
  <2>1. PICK b \in LookupServiceBinding(mem.sname) : cr' = IF Refused THEN cr ELSE [cr EXCEPT !.ext = b.id]
    BY <1>1 DEF HealExternalName
  <2> QED
    BY <2>1, Known DEF Resources
<1>2. CASE ObserveExisting
  <2>1. PICK b \in btp : UNCHANGED cr \/ cr' = [cr EXCEPT !.sid = b.id, !.sname = b.name]
    BY <1>2 DEF ObserveExisting, Wrote
  <2> QED
    BY <2>1, Known DEF Resources
<1>3. CASE Rotate
  BY <1>3, Known DEF Rotate, Wrote, RetireBinding, Resources
<1>4. CASE CreateStart \/ CommitName \/ PersistName \/ CreateSucceeded \/ UpdateRetiredKeys \/ Finalize
  BY <1>4, Known DEF CreateStart, CommitName, PersistName, CreateSucceeded, UpdateRetiredKeys, Finalize,
     Wrote, WithName, Resources
<1>5. CASE CreateFailed
  <2>1. made = NoId
    BY <1>5 DEF CreateFailed, Fresh
  <2>2. cr' = [cr EXCEPT !.incomplete = FALSE]
    BY <1>5, <2>1 DEF CreateFailed
  <2> QED
    BY <2>2, Known DEF Resources
<1>6. CASE UserForcesRotation \/ UserSwitchesRotation \/ UserDeletes \/ UserClearsIncomplete
  BY <1>6, Known DEF UserForcesRotation, UserSwitchesRotation, UserDeletes, UserClearsIncomplete, Resources
<1>7. cr' # cr /\ ~AdoptOwnBinding
  BY AdoptsNone
<1>8. CASE Reconcile
  BY <1>1, <1>2, <1>3, <1>4, <1>5, <1>7, <1>8 DEF Reconcile, Start, ObserveMissing, RotateNot, NothingToAdopt,
     CreateBinding, CreateRefused, DeleteExpiredKeys, DeleteRetiredKeys, DeleteCurrent
<1>9. CASE ~Reconcile
  BY <1>6, <1>7, <1>9 DEF Next, CreateFails, Abort, SyncCache, BecomeDue, Expire, BindingLost, vars
<1> QED
  BY <1>8, <1>9

\* As long as no call fails, the annotation that forces a rotation goes only when
\* a binding made since has become the current one: no name is used twice, so no
\* create adopts the binding that was to be replaced (Create in servicebinding.go).
THEOREM ForcedRotationsReplace == Spec => ForceMeansNewBinding
<1>1. Init => FInv
  BY DEF Init, FInv, Fresh, NoName
<1>2. TypeOK /\ TInv /\ FInv /\ [Next]_vars => FInv'
  BY NextFresh
<1>3. TypeOK /\ TInv /\ FInv /\ [Next]_vars
         => [cr.force /\ ~cr'.force /\ Never({"fault"}) => cr'.ext # cr.ext]_vars
  <2>1. SUFFICES ASSUME TypeOK, TInv, Fresh, [Next]_vars, cr.force, ~cr'.force
                 PROVE  cr'.ext # cr.ext
    BY DEF FInv
  <2>2. PatchExternalName
    BY <2>1, ForceStays
  <2>3. cr'.ext = made /\ made # cr.ext
    BY <2>1, <2>2, Known DEF PatchExternalName, Recorded, Wrote, Resources, Fresh
  <2> QED
    BY <2>3
<1> QED
  BY <1>1, <1>2, <1>3, TypeCorrect, TrackInvariance, PTL DEF Spec, ForceMeansNewBinding

-----------------------------------------------------------------------------
(* Nothing is left behind.                                                 *)

\* What DeleteLeavesNothing assumes.
Smooth == Never(Events \ {"force"})

\* Every binding is the current one or a retired one, or is just made; and while any
\* is left the current one is, so that a deletion that misses it leaves none behind.
Held == \A b \in btp : b.id = cr.ext \/ b.id \in cr.retired \/ (pc = "patch" /\ b.id = made)
Anchored == btp # {} /\ pc # "patch" => cr.ext \in IdsOf(btp)

\* A current binding that is retired already is replaced before any key is deleted.
Owed(c) == c.ext \in c.retired \cap IdsOf(btp) => c.sid = c.ext /\ NeedRetirement(c)

InTurn ==
    /\ Owed(cr) /\ (pc # "idle" => Owed(mem))
    /\ pc \in Creating /\ cr.ext \in IdsOf(btp) => cr.ext \in cr.retired
    /\ pc = "patch" => made \in IdsOf(btp) \ cr.retired
    /\ pc = "update" => cr.ext \notin cr.retired \cap IdsOf(btp)
    /\ pc = "deletecurrent" => IdsOf(btp) \subseteq {cr.ext}
    /\ pc = "finalize" \/ cr.phase = "gone" => btp = {}
    /\ cr.sid <= last /\ \A i \in cr.retired : i <= last

Leaves == Knows /\ Held /\ Anchored /\ InTurn
DInv == Smooth => Leaves

LEMMA StepsAreEvents == ASSUME [Next]_vars PROVE EventsGo
BY DEF Next, Reconcile, Start, HealExternalName, ObserveMissing, ObserveExisting, RotateNot, Rotate,
   CreateStart, CommitName, PersistName, AdoptOwnBinding, NothingToAdopt, CreateBinding, CreateRefused,
   PatchExternalName, CreateSucceeded, CreateFailed, DeleteExpiredKeys, UpdateRetiredKeys,
   DeleteRetiredKeys, DeleteCurrent, Finalize, CreateFails, Abort, SyncCache, BecomeDue, Expire,
   UserForcesRotation, UserSwitchesRotation, UserDeletes, UserClearsIncomplete, BindingLost,
   FaultHappens, EventsGo, Events, vars

LEMMA SmoothBefore ==
    ASSUME TypeOK, EventsGo, Smooth'
    PROVE  Smooth /\ \A k \in Events \ {"force"} : ~Happens(k)
<1>1. events \in [Events -> Nat]
  BY DEF TypeOK
<1>2. ASSUME NEW k \in Events \ {"force"} PROVE events[k] = 0 /\ ~Happens(k)
  <2>1. events'[k] = 0
    BY DEF Smooth, Never
  <2>2. ~Happens(k)
    <3>1. SUFFICES ASSUME Happens(k) PROVE FALSE
      OBVIOUS
    <3>2. events[k] \in Nat /\ events'[k] = events[k] + 1
      BY <1>1, <3>1 DEF Happens
    <3> QED
      BY <2>1, <3>2
  <2>3. CASE UNCHANGED events
    BY <2>1, <2>2, <2>3
  <2>4. ASSUME NEW e \in Events, Happens(e) PROVE events[k] = 0
    <3>1. events' = [events EXCEPT ![e] = events[e] + 1] /\ e # k
      BY <2>2, <2>4 DEF Happens
    <3> QED
      BY <1>1, <2>1, <3>1
  <2> QED
    BY <2>2, <2>3, <2>4 DEF EventsGo
<1> QED
  BY <1>2 DEF Smooth, Never

\* A step that neither makes nor deletes a binding and leaves what the resource
\* says of them.
LEMMA SteadyLeaves ==
    ASSUME TypeOK, TypeOK', Leaves, btp' = btp, last' = last, due \subseteq due',
           made' = made \/ pc' # "patch",
           cr'.ext = cr.ext, cr'.sid = cr.sid, cr'.retired = cr.retired, cr'.rot = cr.rot,
           cr.force => cr'.force, cr'.phase = "live" => cr.phase = "live",
           \/ mem' = mem /\ pc # "idle" /\ Same(cr', cr)
           \/ mem' = cr'
           \/ pc' = "idle",
           pc' = "idle" \/ cr'.phase # "gone" \/ (pc # "idle" /\ cr'.phase = cr.phase),
           cr'.phase = "gone" => btp = {},
           pc = "patch" => pc' = "patch",
           \/ pc' = pc /\ mem' = mem /\ keep' = keep
           \/ pc' \in {"idle", "observe"}
           \/ pc' \in Creating \ {"patch"} /\ (pc \in Creating \/ cr.ext \notin IdsOf(btp))
           \/ pc' = "update" /\ pc # "idle" /\ mem' = mem /\ ~NeedRetirement(mem)
           \/ pc' = "delete" /\ mem'.phase = "deleting"
           \/ pc' = "finalize" /\ btp = {}
    PROVE  Leaves'
<1>1. Knows /\ Held /\ Anchored /\ InTurn
  BY DEF Leaves
<1>2. Knows'
  <2>1. CASE pc' # "idle" /\ mem' = mem /\ pc # "idle" /\ Same(cr', cr)
    BY <1>1, <2>1 DEF Knows, Same, Creating
  <2>2. CASE pc' # "idle" /\ mem' = cr' /\ ~(mem' = mem /\ pc # "idle" /\ Same(cr', cr))
    BY <1>1, <2>2 DEF Knows, Same, Creating
  <2>3. CASE pc' = "idle"
    BY <2>3 DEF Knows
  <2> QED
    BY <2>1, <2>2, <2>3
<1>3. IdsOf(btp)' = IdsOf(btp)
  BY DEF IdsOf
<1>4. Held' /\ Anchored'
  BY <1>1, <1>3 DEF Held, Anchored, Creating
<1>5. Owed(cr)'
  BY <1>1, <1>3 DEF InTurn, Owed, NeedRetirement
<1>6. pc' # "idle" => Owed(mem)'
  <2>1. CASE mem' = mem /\ pc # "idle"
    BY <1>1, <1>3, <2>1 DEF InTurn, Owed, NeedRetirement
  <2>2. CASE mem' = cr'
    BY <1>5, <2>2 DEF Owed, NeedRetirement
  <2> QED
    BY <2>1, <2>2
<1>7. pc' = "update" => cr'.ext \notin cr'.retired \cap IdsOf(btp)'
  BY <1>1, <1>3 DEF InTurn, Owed, Knows, Same, Creating
<1> QED
  BY <1>1, <1>2, <1>3, <1>4, <1>5, <1>6, <1>7 DEF Leaves, InTurn, Creating

\* Users, time and the cache.
LEMMA OthersLeave ==
    ASSUME TypeOK, TypeOK', Leaves,
           \/ \E i \in Ids : BecomeDue(i) \/ Expire(i)
           \/ UserForcesRotation \/ UserDeletes \/ UserClearsIncomplete \/ SyncCache \/ UNCHANGED vars
    PROVE  Leaves'
<1>1. /\ UNCHANGED <<btp, last, mem, pc, made, keep>> /\ due \subseteq due'
      /\ \/ cr' = cr
         \/ cr' = [cr EXCEPT !.force = TRUE] /\ cr.phase = "live"
         \/ cr' = [cr EXCEPT !.phase = "deleting"] /\ cr.phase = "live"
         \/ cr' = [cr EXCEPT !.incomplete = FALSE, !.attempted = FALSE] /\ pc = "idle"
  BY DEF BecomeDue, Expire, UserForcesRotation, UserDeletes, UserClearsIncomplete, SyncCache,
     world, times, locals, vars
<1>2. /\ Same(cr', cr) /\ (cr.force => cr'.force) /\ (cr'.phase = "live" => cr.phase = "live")
      /\ cr'.phase = cr.phase \/ cr'.phase = "deleting"
  BY <1>1, Known DEF Same, Resources
<1>3. cr'.phase = "gone" => btp = {}
  BY <1>2 DEF Leaves, InTurn
<1> QED
  BY <1>1, <1>2, <1>3, SteadyLeaves DEF Same

\* Steps that only look, or stop, or are refused a write.
LEMMA LooksLeave ==
    ASSUME TypeOK, TypeOK', Leaves, \A k \in Events \ {"force"} : ~Happens(k),
           Start \/ ObserveMissing \/ RotateNot \/ NothingToAdopt \/ CreateRefused
    PROVE  Leaves'
<1>s. \A k \in {"stale", "fault"} : ~Happens(k)
  BY DEF Events
<1>1. CASE Start
  <2>1. /\ UNCHANGED <<btp, last, due, made, keep, cr>> /\ mem' = cr /\ pc' = "observe" /\ pc = "idle"
        /\ cr.phase # "gone"
    BY <1>1, <1>s DEF Start, Goto, world, times, locals
  <2> QED
    BY <2>1, SteadyLeaves
<1>2. CASE ObserveMissing
  <2>1. /\ UNCHANGED <<btp, last, due, made, keep, cr, mem>> /\ pc = "observe"
        /\ mem.ext \notin IdsOf(btp)
        /\ pc' = IF mem.phase = "deleting" THEN "finalize" ELSE "create"
    BY <1>2 DEF ObserveMissing, Missing, Goto, world, times, locals
  <2>2. mem.ext = cr.ext /\ btp = {} /\ cr.phase # "gone"
    BY <2>1 DEF Leaves, Knows, Same, Anchored
  <2> QED
    BY <2>1, <2>2, SteadyLeaves DEF Creating, Same
<1>3. CASE RotateNot
  <2>1. /\ UNCHANGED <<btp, last, due, made, keep, cr, mem>> /\ pc = "rotate" /\ ~NeedRetirement(mem)
        /\ \/ pc' = "delete" /\ mem.phase = "deleting"
           \/ pc' = "update"
           \/ pc' = "idle"
    BY <1>3 DEF RotateNot, Goto, world, times, locals
  <2>2. cr.phase # "gone"
    BY <2>1 DEF Leaves, Knows
  <2> QED
    BY <2>1, <2>2, SteadyLeaves DEF Same
<1>4. CASE NothingToAdopt \/ CreateRefused
  <2>1. /\ UNCHANGED <<btp, last, due, made, keep, cr, mem>> /\ pc \in {"lookup", "sm"}
        /\ pc' \in {"sm", "failed"}
    BY <1>4 DEF NothingToAdopt, CreateRefused, Goto, world, times, locals
  <2>2. cr.phase # "gone"
    BY <2>1 DEF Leaves, Knows
  <2> QED
    BY <2>1, <2>2, SteadyLeaves DEF Creating, Same
<1> QED
  BY <1>1, <1>2, <1>3, <1>4

\* The steps of Create before and after BTP is called, and the ends of a reconcile.
LEMMA CreatesLeave ==
    ASSUME TypeOK, TypeOK', TInv, Fresh, Leaves,
           CreateStart \/ CommitName \/ PersistName \/ CreateSucceeded \/ CreateFailed \/ Finalize
    PROVE  Leaves'
<1>1. CASE CreateStart
  <2>1. /\ UNCHANGED <<btp, last, due, keep>> /\ pc = "create"
        /\ \/ UNCHANGED <<cr, mem>> /\ pc' = "idle"
           \/ cr' = [cr EXCEPT !.attempted = TRUE, !.incomplete = TRUE] /\ mem' = cr' /\ pc' = "commit"
    BY <1>1 DEF CreateStart, Wrote, Goto, world, times
  <2>2. Same(cr', cr) /\ cr'.force = cr.force /\ cr'.phase = cr.phase /\ cr.phase # "gone"
    BY <2>1, Known DEF Same, Resources, Leaves, Knows
  <2> QED
    BY <2>1, <2>2, SteadyLeaves DEF Creating, Same
<1>2. CASE CommitName
  <2>1. /\ UNCHANGED <<btp, last, due, keep, made>> /\ pc = "commit"
        /\ pc' \in {"sm", "persist", "failed"}
        /\ \/ UNCHANGED <<cr, mem>>
           \/ cr' = [cr EXCEPT !.pending = names + 1] /\ mem' = cr'
    BY <1>2 DEF CommitName, Wrote, Goto, times
  <2>2. /\ cr'.ext = cr.ext /\ cr'.sid = cr.sid /\ cr'.retired = cr.retired /\ cr'.rot = cr.rot
        /\ cr'.force = cr.force /\ cr'.phase = cr.phase /\ cr.phase # "gone"
    BY <2>1, Known DEF Resources, Leaves, Knows
  <2> QED
    BY <2>1, <2>2, SteadyLeaves DEF Creating, Same
<1>3. CASE PersistName
  <2>1. /\ UNCHANGED <<btp, last, due, keep, made>> /\ pc = "persist"
        /\ pc' \in {"lookup", "failed"}
        /\ \/ UNCHANGED <<cr, mem>>
           \/ cr' = [cr EXCEPT !.sname = target] /\ mem' = cr'
    BY <1>3 DEF PersistName, WithName, Wrote, Goto, world, times, locals
  <2>2. /\ cr'.ext = cr.ext /\ cr'.sid = cr.sid /\ cr'.retired = cr.retired /\ cr'.rot = cr.rot
        /\ cr'.force = cr.force /\ cr'.phase = cr.phase /\ cr.phase # "gone"
    BY <2>1, Known DEF Resources, Leaves, Knows
  <2> QED
    BY <2>1, <2>2, SteadyLeaves DEF Creating, Same
<1>4. CASE CreateSucceeded \/ CreateFailed
  <2>1. /\ UNCHANGED <<btp, last, due, keep, made, mem>> /\ pc \in {"created", "failed"} /\ pc' = "idle"
        /\ cr' = [cr EXCEPT !.incomplete = FALSE]
    BY <1>4 DEF CreateSucceeded, CreateFailed, Fresh, Goto, world, times, locals
  <2>2. /\ Same(cr', cr) /\ cr'.force = cr.force /\ cr'.phase = cr.phase /\ cr.phase # "gone"
    BY <2>1, Known DEF Same, Resources, Leaves, Knows
  <2> QED
    BY <2>1, <2>2, SteadyLeaves DEF Same
<1>5. CASE Finalize
  <2>1. /\ UNCHANGED <<btp, last, due, keep, made, mem>> /\ pc = "finalize" /\ pc' = "idle"
        /\ cr' = cr \/ cr' = [cr EXCEPT !.phase = "gone"]
    BY <1>5 DEF Finalize, Goto, world, times, locals
  <2>2. /\ Same(cr', cr) /\ cr'.force = cr.force /\ (cr'.phase = "live" => cr.phase = "live") /\ btp = {}
    BY <2>1, Known DEF Same, Resources, Leaves, InTurn
  <2> QED
    BY <2>1, <2>2, SteadyLeaves DEF Same
<1> QED
  BY <1>1, <1>2, <1>3, <1>4, <1>5

\* Without a fault there is nothing to heal.
LEMMA HealsNone == ASSUME TypeOK, Leaves PROVE ~HealExternalName
<1>1. SUFFICES ASSUME HealExternalName PROVE FALSE
  OBVIOUS
<1>2. pc = "observe" /\ mem.ext \notin IdsOf(btp) /\ \E b \in LookupServiceBinding(mem.sname) : TRUE
  BY <1>1 DEF HealExternalName, Missing
<1>3. btp = {}
  BY <1>2 DEF Leaves, Knows, Same, Anchored
<1>4. LookupServiceBinding(mem.sname) \subseteq btp
  BY DEF LookupServiceBinding
<1> QED
  BY <1>2, <1>3, <1>4

\* The observed binding goes to the status.
LEMMA ObserveExistingLeaves ==
    ASSUME TypeOK, TypeOK', TInv, Leaves, ObserveExisting
    PROVE  Leaves'
<1>1. PICK b \in btp :
          /\ b.id = mem.ext /\ pc = "observe"
          /\ UNCHANGED <<btp, last, due, made, keep>>
          /\ \/ UNCHANGED <<cr, mem>> /\ pc' \in {"rotate", "idle"}
             \/ cr' = [cr EXCEPT !.sid = b.id, !.sname = b.name] /\ mem' = cr' /\ pc' = "rotate"
  BY DEF ObserveExisting, Wrote, Goto, world, times
<1>2. /\ Knows /\ Held /\ Anchored /\ InTurn
      /\ mem.ext = cr.ext /\ cr.phase # "gone" /\ b.id <= last
  BY <1>1 DEF Leaves, Knows, Same, TInv, InOrder
<1>3. IdsOf(btp)' = IdsOf(btp)
  BY <1>1 DEF IdsOf
<1>4. CASE UNCHANGED <<cr, mem>>
  BY <1>1, <1>2, <1>3, <1>4 DEF Leaves, Knows, Same, Held, Anchored, InTurn, Owed, NeedRetirement, Creating
<1>5. CASE cr' = [cr EXCEPT !.sid = b.id, !.sname = b.name] /\ mem' = cr' /\ pc' = "rotate"
  <2>1. /\ cr'.ext = cr.ext /\ cr'.sid = cr.ext /\ cr'.retired = cr.retired /\ cr'.rot = cr.rot
        /\ cr'.force = cr.force /\ cr'.phase = cr.phase
    BY <1>1, <1>2, <1>5, Known DEF Resources
  <2>2. Knows'
    BY <1>2, <1>5, <2>1 DEF Knows, Same
  <2>3. Held' /\ Anchored'
    BY <1>1, <1>2, <1>3, <1>5, <2>1 DEF Held, Anchored
  <2>4. Owed(cr)' /\ Owed(mem)'
    BY <1>1, <1>2, <1>3, <1>5, <2>1 DEF InTurn, Owed, NeedRetirement
  <2>5. InTurn'
    BY <1>1, <1>2, <1>3, <1>5, <2>1, <2>4 DEF InTurn, Creating
  <2> QED
    BY <2>2, <2>3, <2>5 DEF Leaves
<1> QED
  BY <1>1, <1>4, <1>5

\* The current binding is retired: it is the one of the status, by the invariant
\* about rotation.
LEMMA RotateLeaves ==
    ASSUME TypeOK, TypeOK', TInv, Smooth, Leaves, Rotate
    PROVE  Leaves'
<1>1. /\ pc = "rotate" /\ NeedRetirement(mem) /\ UNCHANGED <<btp, last, due, made, keep>>
      /\ \/ UNCHANGED <<cr, mem>> /\ pc' = "idle"
         \/ cr' = RetireBinding(cr) /\ mem' = cr' /\ pc' = AfterRetirement(cr)
  BY DEF Rotate, Wrote, Goto, world, times, locals
<1>2. Knows /\ Held /\ Anchored /\ InTurn /\ cr.phase # "gone"
  BY <1>1 DEF Leaves, Knows
<1>3. IdsOf(btp)' = IdsOf(btp)
  BY <1>1 DEF IdsOf
<1>4. CASE UNCHANGED <<cr, mem>> /\ pc' = "idle"
  BY <1>1, <1>2, <1>3, <1>4 DEF Leaves, Knows, Held, Anchored, InTurn, Owed, NeedRetirement, Creating
<1>5. CASE cr' = RetireBinding(cr) /\ mem' = cr' /\ pc' = AfterRetirement(cr)
  <2>1. cr.rot /\ NeedRetirement(cr)
    BY <1>1, <1>2 DEF NeedRetirement, Knows, Same
  <2>2. cr.sid = cr.ext \/ cr.ext \in cr.retired
    <3>1. {"loss", "stale", "edit"} \subseteq Events \ {"force"}
      BY DEF Events
    <3>2. Calm
      BY <2>1, <3>1 DEF Calm, Smooth, Never
    <3> QED
      BY <1>1, <2>1, <3>2 DEF TInv, Accounted, Generated
  <2>3. cr' = [cr EXCEPT !.retired = cr.retired \cup {cr.sid}]
    BY <1>5, <2>1 DEF RetireBinding
  <2>4. /\ cr'.ext = cr.ext /\ cr'.sid = cr.sid /\ cr'.retired = cr.retired \cup {cr.sid}
        /\ cr'.rot = cr.rot /\ cr'.force = cr.force /\ cr'.phase = cr.phase
    BY <2>3, Known DEF Resources
  <2>5. pc' \in {"create", "delete"} /\ (pc' = "delete" => cr.phase = "deleting")
    BY <1>5 DEF AfterRetirement
  <2>6. Knows'
    BY <1>2, <1>5, <2>4, <2>5 DEF Knows, Same
  <2>7. Held' /\ Anchored'
    BY <1>1, <1>2, <1>3, <2>4, <2>5 DEF Held, Anchored
  <2>8. Owed(cr)' /\ Owed(mem)'
    BY <1>1, <1>2, <1>3, <1>5, <2>1, <2>2, <2>4 DEF InTurn, Owed, NeedRetirement
  <2>9. InTurn'
    BY <1>1, <1>2, <1>3, <2>2, <2>4, <2>5, <2>8 DEF InTurn, Creating
  <2> QED
    BY <2>6, <2>7, <2>9 DEF Leaves
<1> QED
  BY <1>1, <1>4, <1>5

\* A binding is made where the current one is retired or gone, and becomes current.
LEMMA CreateBindingLeaves ==
    ASSUME TypeOK, TypeOK', TInv, Leaves, CreateBinding, ~Happens("fault")
    PROVE  Leaves'
<1>1. /\ pc = "sm" /\ pc' = "patch" /\ made' = last + 1 /\ last' = last + 1
      /\ btp' = btp \cup {[id |-> last + 1, name |-> target]}
      /\ UNCHANGED <<due, cr, mem, keep>>
  BY DEF CreateBinding, FaultHappens, Goto, times
<1>2. /\ Knows /\ Held /\ Anchored /\ InTurn /\ cr.phase # "gone" /\ mem.ext = cr.ext /\ InOrder
  BY <1>1 DEF Leaves, Knows, Same, TInv
<1>3. IdsOf(btp)' = IdsOf(btp) \cup {last + 1}
  <2> DEFINE new == [id |-> last + 1, name |-> target]
  <2>1. new.id = last + 1 /\ btp' = btp \cup {new}
    BY <1>1
  <2> HIDE DEF new
  <2> QED
    BY <2>1 DEF IdsOf
<1>4. /\ last \in Nat /\ cr.ext \in Nat /\ cr.sid \in Nat /\ \A i \in cr.retired : i \in Nat
  BY Known, ConstantsAssumption DEF TypeOK, Resources, Ids, NoId, ConstantsAssumption
<1>5. /\ cr.ext <= last /\ \A i \in cr.retired : i <= last
      /\ cr.ext # last + 1 /\ last + 1 \notin cr.retired
  BY <1>2, <1>4 DEF InOrder, InTurn
<1>6. Knows'
  BY <1>1, <1>2 DEF Knows, Same
<1>7. Held' /\ Anchored'
  BY <1>1, <1>2 DEF Held, Anchored
<1>8. Owed(cr)' /\ Owed(mem)'
  BY <1>1, <1>2, <1>3, <1>5 DEF InTurn, Owed, NeedRetirement, Knows, Same
<1>9. cr.sid <= last + 1 /\ \A i \in cr.retired : i <= last + 1
  BY <1>2, <1>4 DEF InTurn
<1>10. InTurn'
  <2>1. cr.ext \in IdsOf(btp)' => cr.ext \in cr.retired
    BY <1>1, <1>2, <1>3, <1>5 DEF InTurn, Creating
  <2>2. made' \in IdsOf(btp)' \ cr.retired
    BY <1>1, <1>3, <1>5
  <2> QED
    BY <1>1, <1>2, <1>8, <1>9, <2>1, <2>2 DEF InTurn
<1> QED
  BY <1>6, <1>7, <1>10 DEF Leaves

LEMMA PatchLeaves ==
    ASSUME TypeOK, TypeOK', TInv, Leaves, PatchExternalName
    PROVE  Leaves'
<1>1. /\ pc = "patch" /\ pc' = "created" /\ cr' = Recorded(cr, made) /\ mem' = cr'
      /\ UNCHANGED <<btp, last, due, made, keep>>
  BY DEF PatchExternalName, Wrote, Goto, world, times, locals
<1>2. /\ Knows /\ Held /\ InTurn /\ cr.phase # "gone"
  BY <1>1 DEF Leaves, Knows
<1>3. IdsOf(btp)' = IdsOf(btp)
  BY <1>1 DEF IdsOf
<1>4. /\ cr'.ext = made /\ cr'.sid = cr.sid /\ cr'.retired = cr.retired /\ cr'.phase = cr.phase
  BY <1>1, Known DEF Recorded, Resources
<1>5. Knows'
  BY <1>1, <1>2, <1>4 DEF Knows, Same
<1>6. Held' /\ Anchored'
  BY <1>1, <1>2, <1>3, <1>4 DEF Held, Anchored, InTurn, Creating, IdsOf
<1>7. Owed(cr)' /\ Owed(mem)'
  BY <1>1, <1>2, <1>3, <1>4 DEF InTurn, Owed
<1>8. InTurn'
  BY <1>1, <1>2, <1>3, <1>4, <1>7 DEF InTurn, Creating
<1> QED
  BY <1>5, <1>6, <1>8 DEF Leaves

\* Update deletes what is not current, and drops what is deleted.
LEMMA DeleteExpiredLeaves ==
    ASSUME TypeOK, TypeOK', Leaves, DeleteExpiredKeys, ~Happens("fault")
    PROVE  Leaves'
<1>1. /\ pc = "update" /\ pc' = "updatestatus" /\ UNCHANGED <<last, due, cr, mem, made>>
      /\ btp' = {b \in btp : b.id \notin mem.retired \cap expired}
      /\ keep' = mem.retired \ (mem.retired \cap expired)
  BY DEF DeleteExpiredKeys, FaultHappens, Without, Goto, times
<1>2. /\ Knows /\ Held /\ Anchored /\ InTurn /\ cr.phase # "gone"
      /\ mem.ext = cr.ext /\ mem.retired = cr.retired
  BY <1>1 DEF Leaves, Knows, Same
<1>3. IdsOf(btp)' = IdsOf(btp) \ (cr.retired \cap expired)
  BY <1>1, <1>2 DEF IdsOf
<1>4. cr.ext \notin cr.retired \cap IdsOf(btp)
  BY <1>1, <1>2 DEF InTurn
<1>5. Knows'
  BY <1>1, <1>2 DEF Knows, Same
<1>6. Held' /\ Anchored'
  BY <1>1, <1>2, <1>3, <1>4 DEF Held, Anchored
<1>7. Owed(cr)' /\ Owed(mem)'
  BY <1>1, <1>2, <1>3, <1>4 DEF Owed
<1>8. InTurn'
  BY <1>1, <1>2, <1>3, <1>7 DEF InTurn, Creating
<1> QED
  BY <1>5, <1>6, <1>8 DEF Leaves

LEMMA UpdateRetiredLeaves ==
    ASSUME TypeOK, TypeOK', NoKeyIsDropped, Never({"stale"}), Leaves, UpdateRetiredKeys
    PROVE  Leaves'
<1>1. /\ pc = "updatestatus" /\ pc' = "idle" /\ UNCHANGED <<btp, last, due, made, keep>>
      /\ UNCHANGED cr \/ cr' = [cr EXCEPT !.retired = keep]
  BY DEF UpdateRetiredKeys, Wrote, Goto, world, times, locals
<1>2. /\ Knows /\ Held /\ Anchored /\ InTurn /\ cr.phase # "gone"
      /\ keep \subseteq cr.retired /\ \A i \in cr.retired \ keep : i \notin IdsOf(btp)
  BY <1>1 DEF Leaves, Knows, Same, NoKeyIsDropped
<1>3. IdsOf(btp)' = IdsOf(btp)
  BY <1>1 DEF IdsOf
<1>4. /\ cr'.ext = cr.ext /\ cr'.sid = cr.sid /\ cr'.phase = cr.phase /\ cr'.rot = cr.rot
      /\ cr'.force = cr.force /\ (cr'.retired = cr.retired \/ cr'.retired = keep)
  BY <1>1, Known DEF Resources
<1>5. Knows'
  BY <1>1 DEF Knows
<1>6. Held' /\ Anchored'
  BY <1>1, <1>2, <1>3, <1>4 DEF Held, Anchored, IdsOf
<1>7. Owed(cr)'
  BY <1>1, <1>2, <1>3, <1>4 DEF InTurn, Owed, NeedRetirement
<1>8. InTurn'
  BY <1>1, <1>2, <1>3, <1>4, <1>7 DEF InTurn, Creating
<1> QED
  BY <1>5, <1>6, <1>8 DEF Leaves

\* Delete: the retired keys first, and with the current one everything is deleted.
LEMMA DeletesLeave ==
    ASSUME TypeOK, TypeOK', Leaves, DeleteRetiredKeys \/ DeleteCurrent, ~Happens("fault")
    PROVE  Leaves'
<1>1. /\ UNCHANGED <<last, due, cr, mem, made, keep>>
      /\ \/ pc = "delete" /\ pc' = "deletecurrent" /\ btp' = {b \in btp : b.id \notin mem.retired}
         \/ pc = "deletecurrent" /\ pc' = "idle" /\ btp' = {b \in btp : b.id \notin {mem.ext}}
  BY DEF DeleteRetiredKeys, DeleteCurrent, FaultHappens, Without, Goto, times, locals
<1>2. /\ Knows /\ Held /\ Anchored /\ InTurn /\ cr.phase # "gone"
      /\ mem.ext = cr.ext /\ mem.retired = cr.retired
  BY <1>1 DEF Leaves, Knows, Same
<1>3. Knows'
  BY <1>1, <1>2 DEF Knows, Same
<1>4. CASE pc = "delete"
  <2>1. IdsOf(btp)' = IdsOf(btp) \ cr.retired
    BY <1>1, <1>2, <1>4 DEF IdsOf
  <2>2. \A b \in btp' : b.id = cr.ext
    BY <1>1, <1>2, <1>4 DEF Held
  <2>3. IdsOf(btp)' \subseteq {cr.ext}
    BY <2>2 DEF IdsOf
  <2>4. Held' /\ Anchored'
    BY <1>1, <1>2, <1>4, <2>2 DEF Held, Anchored, IdsOf
  <2>5. Owed(cr)' /\ Owed(mem)'
    BY <1>1, <1>2, <2>1 DEF Owed
  <2>6. InTurn'
    BY <1>1, <1>2, <1>4, <2>3, <2>5 DEF InTurn, Creating
  <2> QED
    BY <1>3, <2>4, <2>6 DEF Leaves
<1>5. CASE pc = "deletecurrent"
  <2>1. \A b \in btp : b.id = cr.ext
    BY <1>2, <1>5 DEF InTurn, IdsOf
  <2>2. btp' = {}
    BY <1>1, <1>2, <1>5, <2>1
  <2>3. IdsOf(btp)' = {}
    BY <2>2 DEF IdsOf
  <2> QED
    BY <1>1, <1>2, <1>3, <1>5, <2>2, <2>3 DEF Leaves, Held, Anchored, InTurn, Owed, Creating
<1> QED
  BY <1>1, <1>4, <1>5

LEMMA InitLeaves == Init => DInv
<1> SUFFICES ASSUME Init PROVE Knows /\ Held /\ Anchored /\ InTurn
  BY DEF DInv, Leaves
<1>1. btp = {} /\ pc = "idle" /\ last = 0 /\ cr.sid = NoId /\ cr.retired = {}
  BY DEF Init
<1>2. IdsOf(btp) = {}
  BY <1>1 DEF IdsOf
<1> QED
  BY <1>1, <1>2 DEF Knows, Held, Anchored, InTurn, Owed, Creating, NoId

LEMMA NextLeaves == ASSUME KeyInv, TInv, FInv, DInv, [Next]_vars PROVE DInv'
<1> SUFFICES ASSUME Smooth' PROVE Leaves'
  BY DEF DInv
<1>1. TypeOK /\ TypeOK' /\ NoKeyIsDropped
  BY NextKeeps DEF KeyInv
<1>2. Smooth /\ \A k \in Events \ {"force"} : ~Happens(k)
  BY <1>1, StepsAreEvents, SmoothBefore
<1>3. {"fault", "stale", "edit", "loss"} \subseteq Events \ {"force"}
  BY DEF Events
<1>4. Leaves /\ Fresh /\ Never({"stale"}) /\ ~Happens("fault") /\ ~Happens("edit") /\ ~Happens("loss")
  BY <1>2, <1>3 DEF DInv, FInv, Smooth, Never
<1>5. CASE Reconcile
  <2>1. ~HealExternalName /\ ~AdoptOwnBinding
    BY <1>1, <1>4, HealsNone, AdoptsNone
  <2> QED
    BY <1>1, <1>2, <1>4, <1>5, <2>1, LooksLeave, CreatesLeave, ObserveExistingLeaves, RotateLeaves,
       CreateBindingLeaves, PatchLeaves, DeleteExpiredLeaves, UpdateRetiredLeaves, DeletesLeave DEF Reconcile
<1>6. CASE ~Reconcile
  <2>1. ~CreateFails /\ ~Abort /\ ~UserSwitchesRotation /\ ~(\E b \in btp : BindingLost(b))
    BY <1>4 DEF CreateFails, Abort, UserSwitchesRotation, BindingLost, FaultHappens
  <2> QED
    BY <1>1, <1>4, <1>6, <2>1, OthersLeave DEF Next
<1> QED
  BY <1>5, <1>6

\* A resource that is gone has left no binding in BTP, current or retired, whichever
\* conflicts and forced rotations its creates, rotations and deletion met (Observe,
\* RetireBinding, DeleteExpiredKeys and Delete): the current binding goes last.  No
\* call failed, rotation was not switched, nothing was lost and no copy was outdated.
THEOREM NothingIsLeft == Spec => []DeleteLeavesNothing
<1>1. Init => FInv /\ DInv
  <2>1. Init => FInv
    BY DEF Init, FInv, Fresh, NoName
  <2> QED
    BY <2>1, InitLeaves
<1>2. KeyInv /\ TInv /\ FInv /\ DInv /\ [Next]_vars => FInv' /\ DInv'
  BY NextFresh, NextLeaves DEF KeyInv
<1>3. DInv => DeleteLeavesNothing
  <2>1. Events \ {"force"} = {"fault", "edit", "loss", "stale"}
    BY DEF Events
  <2> QED
    BY <2>1 DEF DInv, Leaves, InTurn, Smooth, DeleteLeavesNothing
<1> QED
  BY <1>1, <1>2, <1>3, Invariance, TrackInvariance, PTL DEF Spec
=============================================================================

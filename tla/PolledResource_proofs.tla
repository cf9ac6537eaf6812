------------------------- MODULE PolledResource_proofs -------------------------
(***************************************************************************)
(* Theorems about PolledResource, for any kinds, any events and any number *)
(* of objects.                                                             *)
(***************************************************************************)
EXTENDS PolledResource, TLAPS

-----------------------------------------------------------------------------
(* The inductive invariant.                                                *)

\* Beside an object of somebody else nothing is ever recorded: every create is a
\* conflict, and no window makes the object the resource's own.
NothingIsNamed == btp = Foreign => cr.name = None /\ base.name = None /\ mine.name = None

\* What the resource made cannot be mistaken for what somebody else made.
OwnIsNotForeign == btp = Foreign \/ btp.first \in Nat

PInv == TypeOK /\ NothingIsNamed /\ OwnIsNotForeign

-----------------------------------------------------------------------------
(* Objects and resources.                                                  *)

LEMMA Numbers == /\ 0 \in Ids /\ 1 \in Ids /\ None \in Ids /\ 0 \in Nat
                 /\ -1 \in Nat \cup {-1} /\ ~(-1 \in Nat) /\ 0 # 1
BY ConstantsAssumption DEF ConstantsAssumption, Ids, None

LEMMA ObjectTyped ==
    ASSUME NEW id \in Ids, NEW state \in States, NEW gen \in Nat
    PROVE  /\ Object(id, state, gen) \in Objects
           /\ Object(id, state, gen).first \in Nat
BY DEF Object, Objects

LEMMA NothingTyped == Nothing \in Objects /\ Nothing.first \in Nat /\ Nothing.id = None
<1> DEFINE o == Object(None, "none", 0)
<1>1. o \in Objects /\ o.first \in Nat
  BY Numbers, ObjectTyped DEF States
<1>2. o.id = None
  BY DEF Object
<1>3. Nothing = [o EXCEPT !.inWindow = FALSE]
  BY DEF Nothing
<1> HIDE DEF o
<1> QED
  BY <1>1, <1>2, <1>3 DEF Objects

LEMMA ForeignTyped ==
    /\ Foreign \in Objects /\ Foreign.first = -1 /\ Foreign.id = 1 /\ Foreign.inWindow = FALSE
    /\ Foreign.state = "ok" /\ [Foreign EXCEPT !.inWindow = FALSE] = Foreign
<1> DEFINE o == Object(1, "ok", 0)
<1>1. o \in Objects /\ o.id = 1 /\ o.state = "ok"
  BY Numbers, ObjectTyped DEF States, Object
<1>2. Foreign = [[o EXCEPT !.inWindow = FALSE] EXCEPT !.first = -1]
  BY DEF Foreign
<1> HIDE DEF o
<1>3. Foreign \in Objects /\ Foreign.first = -1 /\ Foreign.id = 1 /\ Foreign.inWindow = FALSE /\ Foreign.state = "ok"
  BY <1>1, <1>2 DEF Objects
<1>4. [Foreign EXCEPT !.inWindow = FALSE] = Foreign
  BY <1>3 DEF Objects
<1> QED
  BY <1>3, <1>4

LEMMA NewResourceTyped ==
    ASSUME NEW kind \in Kinds, NEW recreate \in BOOLEAN
    PROVE  NewResource(kind, recreate) \in Resources /\ NewResource(kind, recreate).name = None
<1>1. [count |-> 0, desired |-> 0, current |-> 0] \in [count : 0 .. maxRetriesDefault, desired : Nat, current : Nat]
  BY DEF maxRetriesDefault
<1> QED
  BY <1>1, Numbers DEF NewResource, Resources

\* What a step must show: it changes BTP only where the object is the resource's
\* own, and names nothing beside a foreign one.
LEMMA Keeps ==
    ASSUME PInv,
           cr' \in Resources, base' \in Resources, mine' \in Resources,
           btp' \in Objects, seen' \in Objects, last' \in Ids, pc' \in Steps,
           events' \in [Events -> Nat],
           \/ btp' = btp /\ (btp = Foreign => cr'.name = None /\ base'.name = None /\ mine'.name = None)
           \/ btp # Foreign /\ btp'.first \in Nat
    PROVE  PInv' /\ (btp = Foreign => btp' = btp)
<1>1. btp'.first \in Nat => btp' # Foreign
  BY Numbers, ForeignTyped
<1>2. Foreign' = Foreign /\ Ids' = Ids /\ Resources' = Resources /\ Objects' = Objects
  OBVIOUS
<1>3. TypeOK'
  BY DEF TypeOK
<1> QED
  BY <1>1, <1>3 DEF PInv, NothingIsNamed, OwnIsNotForeign

\* What the controller and the user change of a resource leaves it one.
LEMMA Renamed ==
    ASSUME NEW c \in Resources, NEW n \in Ids
    PROVE  [c EXCEPT !.name = n] \in Resources /\ [c EXCEPT !.name = n].name = n
BY DEF Resources

LEMMA Marked ==
    ASSUME NEW c \in Resources, NEW d \in BOOLEAN
    PROVE  /\ [c EXCEPT !.deleting = d] \in Resources /\ [c EXCEPT !.deleting = d].name = c.name
           /\ [c EXCEPT !.deleting = d].phase = c.phase /\ [c EXCEPT !.deleting = d].kind = c.kind
           /\ [c EXCEPT !.deleting = d].gen = c.gen /\ [c EXCEPT !.deleting = d].retry = c.retry
<1>1. [c EXCEPT !.deleting = d] \in Resources
  BY DEF Resources
<1> QED
  BY <1>1 DEF Resources

LEMMA Attempted ==
    ASSUME NEW c \in Resources
    PROVE  /\ [c EXCEPT !.attempted = TRUE, !.incomplete = TRUE] \in Resources
           /\ [c EXCEPT !.attempted = TRUE, !.incomplete = TRUE].name = c.name
           /\ [c EXCEPT !.incomplete = FALSE] \in Resources
           /\ [c EXCEPT !.incomplete = FALSE].name = c.name
           /\ [c EXCEPT !.incomplete = FALSE, !.attempted = FALSE] \in Resources
           /\ [c EXCEPT !.incomplete = FALSE, !.attempted = FALSE].name = c.name
<1>1. [c EXCEPT !.attempted = TRUE, !.incomplete = TRUE] \in Resources
  BY DEF Resources
<1>2. [c EXCEPT !.incomplete = FALSE] \in Resources
  BY DEF Resources
<1> QED
  BY <1>1, <1>2 DEF Resources

LEMMA Phased ==
    ASSUME NEW c \in Resources, NEW p \in {"live", "deleting", "gone"}
    PROVE  /\ [c EXCEPT !.phase = p] \in Resources
           /\ [c EXCEPT !.phase = p].name = c.name
BY DEF Resources

LEMMA Edited ==
    ASSUME NEW c \in Resources
    PROVE  /\ [c EXCEPT !.gen = c.gen + 1] \in Resources
           /\ [c EXCEPT !.gen = c.gen + 1].name = c.name
<1>1. c.gen \in Nat
  BY DEF Resources
<1>2. c.gen + 1 \in Nat
  BY <1>1
<1> QED
  BY <1>2 DEF Resources

\* The circuit breaker counts up to its limit.
LEMMA CountedTyped ==
    ASSUME NEW c \in Resources, NEW o \in Objects, o.first \in Nat
    PROVE  Counted(c, o) \in Resources /\ Counted(c, o).name = c.name
<1> DEFINE again == o.first # c.gen /\ c.retry.desired = c.gen /\ c.retry.current = o.first
           n == IF ~again THEN 1 ELSE IF Broken(c) THEN c.retry.count ELSE c.retry.count + 1
           r == [count |-> n, desired |-> c.gen, current |-> o.first]
<1>1. c.gen \in Nat /\ c.retry \in [count : 0 .. maxRetriesDefault, desired : Nat, current : Nat]
  BY DEF Resources
<1>2. c.retry.count \in 0 .. 3
  BY <1>1 DEF maxRetriesDefault
<1>3. ~Broken(c) => c.retry.count + 1 \in 0 .. 3
  BY <1>2 DEF Broken, maxRetriesDefault
<1>4. n \in 0 .. maxRetriesDefault
  BY <1>2, <1>3 DEF maxRetriesDefault
<1>5. Counted(c, o) = [c EXCEPT !.retry = r]
  BY DEF Counted
<1> HIDE DEF n
<1>6. r \in [count : 0 .. maxRetriesDefault, desired : Nat, current : Nat]
  BY <1>1, <1>4
<1> HIDE DEF r
<1> QED
  BY <1>5, <1>6 DEF Resources

LEMMA JudgedTyped ==
    ASSUME NEW c \in Resources, NEW o \in Objects, o.first \in Nat
    PROVE  Judged(c, o) \in Resources /\ Judged(c, o).name = c.name
<1> DEFINE b == c.kind = "kyma" /\ o.state = "deleting"
           d == [c EXCEPT !.deleting = b]
<1>1. b \in BOOLEAN
  OBVIOUS
<1> HIDE DEF b
<1>2. d \in Resources /\ d.name = c.name
  BY <1>1, Marked
<1> HIDE DEF d
<1>3. Judged(c, o) = IF c.kind = "kyma" THEN Counted(d, o) ELSE d
  BY Zenon DEF Judged, b, d
<1> QED
  BY <1>2, <1>3, CountedTyped

\* BTP's changes of an object.
LEMMA ObjectChanged ==
    ASSUME NEW o \in Objects, o.first \in Nat, NEW st \in States, NEW g \in Nat
    PROVE  /\ [o EXCEPT !.state = st] \in Objects /\ [o EXCEPT !.state = st].first \in Nat
           /\ [o EXCEPT !.state = st, !.wanted = g] \in Objects /\ [o EXCEPT !.state = st, !.wanted = g].first \in Nat
           /\ [o EXCEPT !.first = g] \in Objects /\ [o EXCEPT !.first = g].first \in Nat
           /\ [o EXCEPT !.second = g] \in Objects /\ [o EXCEPT !.second = g].first \in Nat
           /\ [o EXCEPT !.inWindow = FALSE] \in Objects /\ [o EXCEPT !.inWindow = FALSE].first \in Nat
<1>1. [o EXCEPT !.state = st] \in Objects /\ [o EXCEPT !.state = st].first \in Nat
  BY DEF Objects
<1>2. [o EXCEPT !.state = st, !.wanted = g] \in Objects /\ [o EXCEPT !.state = st, !.wanted = g].first \in Nat
  BY DEF Objects
<1>3. [o EXCEPT !.first = g] \in Objects /\ [o EXCEPT !.first = g].first \in Nat
  BY DEF Objects
<1>4. [o EXCEPT !.second = g] \in Objects /\ [o EXCEPT !.second = g].first \in Nat
  BY DEF Objects
<1>5. [o EXCEPT !.inWindow = FALSE] \in Objects /\ [o EXCEPT !.inWindow = FALSE].first \in Nat
  BY DEF Objects
<1> QED
  BY <1>1, <1>2, <1>3, <1>4, <1>5

\* Events are counted.
LEMMA EventsTyped ==
    ASSUME PInv, Quiet \/ (\E e \in Events : Happens(e))
    PROVE  events' \in [Events -> Nat]
<1>1. events \in [Events -> Nat]
  BY DEF PInv, TypeOK
<1>2. \A n \in Nat : n + 1 \in Nat
  OBVIOUS
<1>3. ASSUME NEW e \in Events, Happens(e) PROVE events' \in [Events -> Nat]
  BY <1>1, <1>2, <1>3 DEF Happens
<1> QED
  BY <1>1, <1>3 DEF Quiet

-----------------------------------------------------------------------------
(* The steps, each of which keeps the invariant and the foreign object.    *)

Spared == btp = Foreign => btp' = btp

LEMMA Known ==
    ASSUME PInv
    PROVE  /\ cr \in Resources /\ base \in Resources /\ mine \in Resources
           /\ btp \in Objects /\ seen \in Objects /\ last \in Ids /\ pc \in Steps
           /\ btp = Foreign => cr.name = None /\ base.name = None /\ mine.name = None
           /\ btp # Foreign => btp.first \in Nat
           /\ Named(cr, btp) \/ Named(mine, btp) => btp # Foreign
BY DEF PInv, TypeOK, NothingIsNamed, OwnIsNotForeign, Named

\* A reconcile that ends with BTP as it is.
LEMMA IdleKeeps ==
    ASSUME PInv, Idle, UNCHANGED service, cr' \in Resources, btp = Foreign => cr'.name = None,
           events' \in [Events -> Nat]
    PROVE  PInv' /\ Spared
<1>1. /\ pc' = "idle" /\ base' = cr' /\ mine' = cr' /\ seen' = Nothing /\ btp' = btp /\ last' = last
  BY DEF Idle, service
<1> QED
  BY <1>1, Known, Keeps, NothingTyped DEF Spared, Steps

\* An observation that reads the resource and BTP, and changes neither.
LEMMA ReadsKeeps ==
    ASSUME PInv, NEW c \in Resources, NEW step \in Steps, Reads(c, step), UNCHANGED <<service, cr>>,
           btp = Foreign => c.name = None, seen' \in Objects, Quiet \/ (\E e \in Events : Happens(e))
    PROVE  PInv' /\ Spared
<1>1. /\ pc' = step /\ base' = cr /\ mine' = c /\ btp' = btp /\ last' = last /\ cr' = cr
  BY DEF Reads, service
<1> QED
  BY <1>1, Known, Keeps, EventsTyped DEF Spared

LEMMA ObserveUnnamedKeeps ==
    ASSUME PInv, ObserveUnnamed
    PROVE  PInv' /\ Spared
<1>1. cr.name = None /\ UNCHANGED <<service, cr>> /\ seen' \in Objects
  BY Known DEF ObserveUnnamed
<1>2. Missing(cr) \in Steps /\ "heal" \in Steps
  BY DEF Missing, Steps
<1>3. CASE LooksUp(cr) /\ CanHeal(cr) /\ Reads([cr EXCEPT !.name = btp.id], "heal") /\ Quiet
  <2>1. btp # Foreign
    BY <1>3, ForeignTyped DEF CanHeal
  <2>2. btp.id \in Ids
    BY Known DEF Objects
  <2>3. [cr EXCEPT !.name = btp.id] \in Resources
    BY <2>2, Known, Renamed
  <2> QED
    BY <1>1, <1>2, <1>3, <2>1, <2>3, ReadsKeeps
<1>4. CASE Reads(cr, Missing(cr)) /\ (Quiet \/ Happens("blind"))
  <2>1. Quiet \/ (\E e \in Events : Happens(e))
    BY <1>4 DEF Events
  <2> QED
    BY <1>1, <1>2, <1>4, <2>1, Known, ReadsKeeps
<1> QED
  BY <1>3, <1>4 DEF ObserveUnnamed

LEMMA HealKeeps ==
    ASSUME PInv, Heal
    PROVE  PInv' /\ Spared
<1>1. cr' \in {mine, cr} /\ Idle /\ UNCHANGED service /\ Quiet
  BY DEF Heal
<1> QED
  BY <1>1, Known, EventsTyped, IdleKeeps

LEMMA ObserveMissingKeeps ==
    ASSUME PInv, ObserveMissing
    PROVE  PInv' /\ Spared
<1>1. Reads(cr, Missing(cr)) /\ Quiet /\ UNCHANGED <<service, cr>> /\ seen' = seen
  BY DEF ObserveMissing
<1>2. Missing(cr) \in Steps
  BY DEF Missing, Steps
<1> QED
  BY <1>1, <1>2, Known, ReadsKeeps

LEMMA ObserveFoundKeeps ==
    ASSUME PInv, ObserveFound
    PROVE  PInv' /\ Spared
<1>1. Named(cr, btp) /\ seen' = btp /\ Quiet /\ UNCHANGED <<service, cr>>
  BY DEF ObserveFound
<1>2. btp # Foreign /\ btp.first \in Nat
  BY <1>1, Known
<1>3. CASE ShouldRecreate(cr, btp)
  <2> DEFINE step == IF ~cr.deleting THEN "recreate" ELSE IF cr.phase = "deleting" THEN "delete" ELSE "settle"
  <2>1. Reads(cr, step)
    BY <1>3 DEF ObserveFound
  <2>2. step \in Steps
    BY DEF Steps
  <2> HIDE DEF step
  <2> QED
    BY <1>1, <1>2, <2>1, <2>2, Known, ReadsKeeps
<1>4. CASE ~ShouldRecreate(cr, btp)
  <2>1. Reads(Judged(cr, btp), Verdict(cr, btp))
    BY <1>4 DEF ObserveFound
  <2>2. Verdict(cr, btp) \in Steps
    BY DEF Verdict, Steps
  <2>3. Judged(cr, btp) \in Resources
    BY <1>2, Known, JudgedTyped
  <2> QED
    BY <1>1, <1>2, <2>1, <2>2, <2>3, Known, ReadsKeeps
<1> QED
  BY <1>3, <1>4

LEMMA ObserveFailsKeeps ==
    ASSUME PInv, ObserveFails
    PROVE  PInv' /\ Spared
<1>1. /\ btp' = btp /\ last' = last /\ cr' = cr /\ base' = base /\ mine' = mine /\ seen' = seen /\ pc' = pc
      /\ Happens("lost") /\ "lost" \in Events
  BY DEF ObserveFails, service, Events
<1>2. events' \in [Events -> Nat]
  BY <1>1, EventsTyped
<1> QED
  BY <1>1, <1>2, Known, Keeps DEF Spared

LEMMA SettleKeeps ==
    ASSUME PInv, Settle
    PROVE  PInv' /\ Spared
<1>1. cr' \in {mine, cr} /\ Idle /\ UNCHANGED service /\ Quiet
  BY DEF Settle
<1> QED
  BY <1>1, Known, EventsTyped, IdleKeeps

\* A new attempt moves the window past a foreign object, which it was past before.
LEMMA RecordPendingKeeps ==
    ASSUME PInv, RecordPending
    PROVE  PInv' /\ Spared
<1>1. events' \in [Events -> Nat]
  BY EventsTyped DEF RecordPending
<1>2. CASE ~Current
  BY <1>1, <1>2, Known, IdleKeeps DEF RecordPending, service
<1>3. CASE Current
  <2> DEFINE c == [base EXCEPT !.attempted = TRUE, !.incomplete = TRUE]
  <2>1. /\ cr' = c /\ base' = c /\ mine' = c /\ pc' = "create" /\ seen' = seen /\ last' = last
        /\ btp' \in {btp, [btp EXCEPT !.inWindow = FALSE]}
    BY <1>3 DEF RecordPending
  <2>2. c \in Resources /\ c.name = base.name
    BY Known, Attempted
  <2> HIDE DEF c
  <2>3. CASE btp = Foreign
    <3>1. btp' = btp
      BY <2>1, <2>3, ForeignTyped
    <3> QED
      BY <1>1, <2>1, <2>2, <2>3, <3>1, Known, Keeps DEF Spared, Steps
  <2>4. CASE btp # Foreign
    <3>1. "ok" \in States /\ 0 \in Nat
      BY DEF States
    <3>2. btp' \in Objects /\ btp'.first \in Nat
      BY <2>1, <2>4, <3>1, Known, ObjectChanged
    <3> QED
      BY <1>1, <2>1, <2>2, <2>4, <3>2, Known, Keeps DEF Spared, Steps
  <2> QED
    BY <2>3, <2>4
<1> QED
  BY <1>2, <1>3

LEMMA CreateKeeps ==
    ASSUME PInv, Create
    PROVE  PInv' /\ Spared
<1>1. /\ cr' = cr /\ base' = base /\ seen' = seen
      /\ \/ mine' = mine \/ mine' = [mine EXCEPT !.name = last + 1]
      /\ (btp.id = None /\ last # MaxObjects) \/ (btp' = btp /\ last' = last /\ mine' = mine)
      /\ \/ btp' = btp /\ last' = last /\ mine' = mine
         \/ btp' = Object(last + 1, "creating", mine.gen) /\ last' = last + 1
      /\ pc' \in {"failed", "created"}
      /\ Quiet \/ Happens("lost")
  BY DEF Create, Goto, copies, service
<1>2. events' \in [Events -> Nat]
  BY <1>1, EventsTyped DEF Events
<1>3. pc' \in Steps
  BY <1>1 DEF Steps
<1>4. CASE btp' = btp /\ last' = last /\ mine' = mine
  BY <1>1, <1>2, <1>3, <1>4, Known, Keeps DEF Spared
<1>5. CASE ~(btp' = btp /\ last' = last /\ mine' = mine)
  <2>1. last + 1 \in Ids
    <3>1. last \in 0 .. MaxObjects /\ last # MaxObjects /\ MaxObjects \in Nat
      BY <1>1, <1>5, Known, ConstantsAssumption DEF Ids, ConstantsAssumption
    <3> QED
      BY <3>1 DEF Ids
  <2>2. mine.gen \in Nat /\ "creating" \in States
    BY Known DEF Resources, States
  <2>3. btp' \in Objects /\ btp'.first \in Nat
    BY <1>1, <1>5, <2>1, <2>2, ObjectTyped
  <2>4. mine' \in Resources
    BY <1>1, <2>1, Known, Renamed
  <2>5. btp # Foreign
    BY <1>1, <1>5, ForeignTyped, Numbers DEF None
  <2> QED
    BY <1>1, <1>2, <1>3, <1>5, <2>1, <2>3, <2>4, <2>5, Known, Keeps DEF Spared
<1> QED
  BY <1>4, <1>5

LEMMA RecordResultKeeps ==
    ASSUME PInv, RecordResult
    PROVE  PInv' /\ Spared
<1> DEFINE n == IF pc = "created" THEN mine.name ELSE cr.name
           c == [cr EXCEPT !.incomplete = FALSE, !.name = n]
<1>1. /\ cr' = c /\ base' = c /\ pc' = "settle" /\ btp' = btp /\ last' = last /\ seen' = seen /\ Quiet
      /\ \E d \in {cr.deleting, FALSE} : mine' = [c EXCEPT !.deleting = d]
  BY DEF RecordResult, service
<1>2. n \in Ids /\ (btp = Foreign => n = None)
  BY Known DEF Resources
<1> HIDE DEF n
<1>3. c \in Resources /\ c.name = n /\ cr.deleting \in BOOLEAN
  BY <1>2, Known DEF Resources
<1> HIDE DEF c
<1>4. mine' \in Resources /\ mine'.name = n
  <2>1. PICK d \in {cr.deleting, FALSE} : mine' = [c EXCEPT !.deleting = d]
    BY <1>1
  <2>2. d \in BOOLEAN
    BY <1>3, <2>1
  <2> QED
    BY <1>3, <2>1, <2>2, Marked
<1>5. events' \in [Events -> Nat]
  BY <1>1, EventsTyped
<1> QED
  BY <1>1, <1>2, <1>3, <1>4, <1>5, Known, Keeps DEF Spared, Steps

\* A call is taken only for an object that the resource has recorded.
LEMMA CallKeeps ==
    ASSUME PInv, NEW states, NEW o, NEW step \in Steps, Call(states, o, step), UNCHANGED <<last, cr>>,
           btp # Foreign => o \in Objects /\ o.first \in Nat
    PROVE  PInv' /\ Spared
<1>1. /\ base' = base /\ mine' = mine /\ seen' = seen /\ last' = last /\ cr' = cr
      /\ pc' \in {step, "settle"} /\ (Quiet \/ Happens("lost"))
      /\ btp' = btp \/ (btp' = o /\ Named(mine, btp))
  BY DEF Call, Goto, copies
<1>2. events' \in [Events -> Nat]
  BY <1>1, EventsTyped DEF Events
<1>3. pc' \in Steps
  BY <1>1 DEF Steps
<1> QED
  BY <1>1, <1>2, <1>3, Known, Keeps DEF Spared

\* An update that is not made.
LEMMA SkipKeeps ==
    ASSUME PInv, NEW step \in Steps, Goto(step), Quiet, UNCHANGED btp, UNCHANGED <<last, cr>>
    PROVE  PInv' /\ Spared
<1>1. /\ base' = base /\ mine' = mine /\ seen' = seen /\ last' = last /\ cr' = cr /\ pc' = step /\ btp' = btp
  BY DEF Goto, copies
<1> QED
  BY <1>1, EventsTyped, Known, Keeps DEF Spared

LEMMA UpdateKeeps ==
    ASSUME PInv, UpdateKyma \/ UpdateSubaccount \/ UpdateDirectory \/ UpdateDirectoryFeatures
    PROVE  PInv' /\ Spared
<1>1. mine.gen \in Nat /\ "updating" \in States
  BY Known DEF Resources, States
<1>2. btp # Foreign =>
         /\ Starts \in Objects /\ Starts.first \in Nat
         /\ [btp EXCEPT !.first = mine.gen] \in Objects /\ [btp EXCEPT !.first = mine.gen].first \in Nat
         /\ [btp EXCEPT !.second = mine.gen] \in Objects /\ [btp EXCEPT !.second = mine.gen].first \in Nat
  BY <1>1, Known, ObjectChanged DEF Starts
<1>3. "settle" \in Steps /\ "features" \in Steps
  BY DEF Steps
<1>4. CASE UpdateKyma
  BY <1>2, <1>3, <1>4, CallKeeps, SkipKeeps DEF UpdateKyma
<1>5. CASE UpdateSubaccount
  BY <1>2, <1>3, <1>5, CallKeeps, SkipKeeps DEF UpdateSubaccount
<1>6. CASE UpdateDirectory
  BY <1>2, <1>3, <1>6, CallKeeps DEF UpdateDirectory
<1>7. CASE UpdateDirectoryFeatures
  BY <1>2, <1>3, <1>7, CallKeeps DEF UpdateDirectoryFeatures
<1> QED
  BY <1>4, <1>5, <1>6, <1>7

LEMMA DeleteKeeps ==
    ASSUME PInv, Delete
    PROVE  PInv' /\ Spared
<1> DEFINE d == mine.kind \in {"kyma", "subscription"}
<1>1. /\ base' = base /\ seen' = seen /\ last' = last /\ cr' = cr /\ mine' = [mine EXCEPT !.deleting = d]
      /\ pc' \in {AfterDelete, "settle"} /\ (Quiet \/ Happens("lost"))
      /\ btp' = btp \/ (btp' = [btp EXCEPT !.state = "deleting"] /\ Named(mine, btp))
  BY DEF Delete
<1>2. events' \in [Events -> Nat]
  BY <1>1, EventsTyped DEF Events
<1>3. pc' \in Steps
  BY <1>1 DEF Steps, AfterDelete
<1>4. d \in BOOLEAN
  OBVIOUS
<1> HIDE DEF d
<1>5. mine' \in Resources /\ mine'.name = mine.name
  BY <1>1, <1>4, Known, Marked
<1>6. btp # Foreign => [btp EXCEPT !.state = "deleting"] \in Objects /\ [btp EXCEPT !.state = "deleting"].first \in Nat
  <2>1. "deleting" \in States /\ 0 \in Nat
    BY DEF States
  <2> QED
    BY <2>1, Known, ObjectChanged
<1> QED
  BY <1>1, <1>2, <1>3, <1>5, <1>6, Known, Keeps DEF Spared

LEMMA FinalizeKeeps ==
    ASSUME PInv, Finalize
    PROVE  PInv' /\ Spared
<1>1. cr' \in {[cr EXCEPT !.phase = "gone"], cr} /\ Idle /\ UNCHANGED service /\ Quiet
  BY DEF Finalize
<1>2. cr' \in Resources /\ cr'.name = cr.name
  BY <1>1, Known, Phased
<1> QED
  BY <1>1, <1>2, Known, EventsTyped, IdleKeeps

\* BTP processes only what somebody asked it to, and a foreign object is not that.
LEMMA ProcessingKeeps ==
    ASSUME PInv, Processing
    PROVE  PInv' /\ Spared
<1> DEFINE st == CASE btp.state = "creating" -> "failed" [] btp.state = "updating" -> "broken" [] OTHER -> "undeleted"
           f == IF cr.kind = "kyma" THEN btp.wanted ELSE btp.first
           failed == [btp EXCEPT !.state = st]
           up == [btp EXCEPT !.state = "ok", !.second = btp.wanted, !.first = f]
           made == [btp EXCEPT !.state = "ok"]
<1>1. /\ last' = last /\ cr' = cr /\ base' = base /\ mine' = mine /\ seen' = seen /\ pc' = pc
      /\ btp.state \in {"creating", "updating", "deleting"} /\ (Quiet \/ Happens("fail"))
      /\ btp' \in {made, up, Nothing, failed}
  BY DEF Processing, CreationEnds, UpdateEnds, DeletionEnds, Ends, copies
<1>2. events' \in [Events -> Nat]
  BY <1>1, EventsTyped DEF Events
<1>3. btp # Foreign
  BY <1>1, ForeignTyped
<1>4. btp \in Objects /\ btp.first \in Nat /\ btp.wanted \in Nat
  BY <1>3, Known DEF Objects
<1>5. st \in States /\ "ok" \in States /\ f \in Nat
  BY <1>4 DEF States
<1> HIDE DEF st, f
<1>6. made \in Objects /\ made.first \in Nat /\ failed \in Objects /\ failed.first \in Nat
  BY <1>4, <1>5, ObjectChanged
<1>7. up \in Objects /\ up.first \in Nat
  BY <1>4, <1>5 DEF Objects
<1> HIDE DEF made, failed, up
<1>8. btp' \in Objects /\ btp'.first \in Nat
  BY <1>1, <1>6, <1>7, NothingTyped
<1> QED
  BY <1>1, <1>2, <1>3, <1>8, Known, Keeps DEF Spared

LEMMA UserKeeps ==
    ASSUME PInv, UserEdits \/ UserDeletes \/ UserClearsIncomplete
    PROVE  PInv' /\ Spared
<1>1. /\ btp' = btp /\ last' = last /\ base' = base /\ mine' = mine /\ seen' = seen /\ pc' = pc
      /\ cr' \in {[cr EXCEPT !.gen = cr.gen + 1], [cr EXCEPT !.phase = "deleting"],
                 [cr EXCEPT !.incomplete = FALSE, !.attempted = FALSE]}
      /\ Quiet \/ Happens("edit") \/ Happens("clear")
  BY DEF UserEdits, UserDeletes, UserClearsIncomplete, service, copies
<1>2. events' \in [Events -> Nat]
  BY <1>1, EventsTyped DEF Events
<1>3. cr' \in Resources /\ cr'.name = cr.name
  <2>1. cr \in Resources
    BY Known
  <2>2. [cr EXCEPT !.gen = cr.gen + 1] \in Resources /\ [cr EXCEPT !.gen = cr.gen + 1].name = cr.name
    BY <2>1, Edited
  <2>3. [cr EXCEPT !.phase = "deleting"] \in Resources /\ [cr EXCEPT !.phase = "deleting"].name = cr.name
    BY <2>1, Phased
  <2>4. /\ [cr EXCEPT !.incomplete = FALSE, !.attempted = FALSE] \in Resources
        /\ [cr EXCEPT !.incomplete = FALSE, !.attempted = FALSE].name = cr.name
    BY <2>1, Attempted
  <2> QED
    BY <1>1, <2>2, <2>3, <2>4
<1> QED
  BY <1>1, <1>2, <1>3, Known, Keeps DEF Spared

LEMMA LostInBTPKeeps ==
    ASSUME PInv, LostInBTP
    PROVE  PInv' /\ Spared
<1>1. /\ btp' = Nothing /\ last' = last /\ cr' = cr /\ base' = base /\ mine' = mine /\ seen' = seen /\ pc' = pc
      /\ Owned(btp) /\ Happens("loss") /\ "loss" \in Events
  BY DEF LostInBTP, copies, Events
<1>2. events' \in [Events -> Nat]
  BY <1>1, EventsTyped
<1>3. btp # Foreign
  BY <1>1, ForeignTyped DEF Owned
<1> QED
  BY <1>1, <1>2, <1>3, NothingTyped, Known, Keeps DEF Spared

LEMMA StopsKeep ==
    ASSUME PInv, WriteFails \/ Restart
    PROVE  PInv' /\ Spared
<1>1. Idle /\ UNCHANGED service /\ cr' = cr /\ (Happens("drop") \/ Happens("restart"))
  BY DEF WriteFails, Restart
<1>2. events' \in [Events -> Nat]
  BY <1>1, EventsTyped DEF Events
<1> QED
  BY <1>1, <1>2, Known, IdleKeeps

-----------------------------------------------------------------------------
(* The theorems.                                                           *)

LEMMA InitHolds == Init => PInv
<1> SUFFICES ASSUME Init PROVE PInv
  OBVIOUS
<1>1. /\ btp \in Objects /\ last \in Ids /\ (btp = Foreign \/ btp.first \in Nat)
  BY NothingTyped, ForeignTyped, Numbers DEF Init
<1>2. cr \in Resources /\ cr.name = None
  BY NewResourceTyped DEF Init
<1>3. TypeOK
  BY <1>1, <1>2, NothingTyped DEF Init, TypeOK, Steps
<1> QED
  BY <1>1, <1>2, <1>3 DEF Init, PInv, NothingIsNamed, OwnIsNotForeign

LEMMA NextKeeps == PInv /\ [Next]_vars => PInv' /\ (btp = Foreign => btp' = btp)
<1> SUFFICES ASSUME PInv, [Next]_vars PROVE PInv' /\ Spared
  BY DEF Spared
<1>1. CASE Reconcile
  BY <1>1, ObserveUnnamedKeeps, HealKeeps, ObserveMissingKeeps, ObserveFoundKeeps, SettleKeeps,
     RecordPendingKeeps, CreateKeeps, RecordResultKeeps, UpdateKeeps, DeleteKeeps, FinalizeKeeps DEF Reconcile
<1>2. CASE ObserveFails \/ WriteFails \/ Restart \/ Processing
  BY <1>2, ObserveFailsKeeps, StopsKeep, ProcessingKeeps
<1>3. CASE UserEdits \/ UserDeletes \/ UserClearsIncomplete \/ LostInBTP
  BY <1>3, UserKeeps, LostInBTPKeeps
<1>4. CASE UNCHANGED vars
  BY <1>4, Known, Keeps DEF vars, PInv, TypeOK, Spared
<1> QED
  BY <1>1, <1>2, <1>3, <1>4 DEF Next

THEOREM Invariance == Spec => []PInv
<1>1. PInv /\ [Next]_vars => PInv'
  BY NextKeeps
<1> QED
  BY <1>1, InitHolds, PTL DEF Spec

\* Every variable keeps its type, whatever the kinds and the bounds.
THEOREM TypeCorrect == Spec => []TypeOK
<1>1. PInv => TypeOK
  BY DEF PInv
<1> QED
  BY <1>1, Invariance, PTL

\* No step of the controller or of BTP changes an object of somebody else,
\* however often a refused create is retried and its window moved.
THEOREM ForeignIsNeverTouched == Spec => ForeignIsSpared
<1>1. PInv /\ [Next]_vars => [btp = Foreign => UNCHANGED btp]_vars
  BY NextKeeps
<1> QED
  BY <1>1, Invariance, PTL DEF Spec, ForeignIsSpared

-----------------------------------------------------------------------------
(* A deletion is asked for once.                                           *)

\* What the step before a deletion knows: only this resource's calls make BTP
\* delete, so what is being deleted was seen so, or this reconcile just asked.
DInv ==
    /\ pc = "recreate" => ShouldRecreate(mine, seen)
    /\ pc \in {"recreate", "delete"} /\ Named(mine, btp) /\ btp.state = "deleting" =>
          seen.state = "deleting" \/ (pc = "delete" /\ ShouldRecreate(mine, seen))

\* A step that leaves the reconcile where it is, and BTP or no deletion there.
LEMMA StaysOnce ==
    ASSUME DInv, pc' = pc, mine' = mine, seen' = seen, btp' = btp \/ btp'.state # "deleting"
    PROVE  DInv'
BY DEF DInv, Named, ShouldRecreate

LEMMA ElsewhereOnce == ASSUME pc' \notin {"recreate", "delete"} PROVE DInv'
BY DEF DInv

LEMMA ObserveFoundOnce == ASSUME ObserveFound PROVE DInv'
<1>1. seen' = btp /\ btp' = btp
  BY DEF ObserveFound, service
<1>2. pc' = "recreate" => mine' = cr /\ ShouldRecreate(cr, btp)
  BY DEF ObserveFound, Reads, Verdict
<1>3. pc' = "recreate" => ShouldRecreate(mine', seen')
  BY <1>1, <1>2 DEF ShouldRecreate
<1> QED
  BY <1>1, <1>3 DEF DInv

LEMMA DeleteOnce == ASSUME PInv, DInv, Delete PROVE DInv'
<1>1. pc' \in {AfterDelete, "settle"} /\ seen' = seen
  BY DEF Delete
<1>2. CASE pc' # "delete"
  BY <1>1, <1>2, ElsewhereOnce DEF AfterDelete
<1>3. CASE pc' = "delete"
  <2>1. ShouldRecreate(mine, seen)
    BY <1>1, <1>3 DEF AfterDelete, DInv
  <2>2. mine'.recreate = mine.recreate /\ mine'.kind = mine.kind
    BY Known DEF Delete, Resources
  <2>3. ShouldRecreate(mine', seen')
    BY <1>1, <2>1, <2>2 DEF ShouldRecreate
  <2> QED
    BY <1>3, <2>3 DEF DInv
<1> QED
  BY <1>2, <1>3

LEMMA ProcessingOnce == ASSUME PInv, DInv, Processing \/ LostInBTP PROVE DInv'
<1>1. pc' = pc /\ mine' = mine /\ seen' = seen
  BY DEF Processing, LostInBTP, copies
<1>2. Nothing.state = "none"
  BY DEF Nothing, Object
<1>3. btp' = Nothing \/ \E st \in {"ok", "failed", "broken", "undeleted"} : btp'.state = st
  <2>1. CASE LostInBTP
    BY <2>1 DEF LostInBTP
  <2>2. CASE Processing
    <3> DEFINE st == CASE btp.state = "creating" -> "failed" [] btp.state = "updating" -> "broken" [] OTHER -> "undeleted"
               f == IF cr.kind = "kyma" THEN btp.wanted ELSE btp.first
               failed == [btp EXCEPT !.state = st]
               up == [btp EXCEPT !.state = "ok", !.second = btp.wanted, !.first = f]
               made == [btp EXCEPT !.state = "ok"]
    <3>1. btp' \in {made, up, Nothing, failed}
      BY <2>2 DEF Processing, CreationEnds, UpdateEnds, DeletionEnds, Ends
    <3>2. st \in {"failed", "broken", "undeleted"}
      OBVIOUS
    <3> HIDE DEF st, f
    <3>3. made.state = "ok" /\ up.state = "ok" /\ failed.state = st
      BY Known DEF Objects
    <3> HIDE DEF made, up, failed
    <3> QED
      BY <3>1, <3>2, <3>3
  <2> QED
    BY <2>1, <2>2
<1>4. btp'.state # "deleting"
  BY <1>2, <1>3
<1> QED
  BY <1>1, <1>4, StaysOnce

LEMMA NextOnce == ASSUME PInv, DInv, [Next]_vars PROVE DInv'
<1>1. CASE ObserveFound
  BY <1>1, ObserveFoundOnce
<1>2. CASE Delete
  BY <1>2, DeleteOnce
<1>3. CASE Processing \/ LostInBTP
  BY <1>3, ProcessingOnce
<1>4. CASE ObserveFails \/ UserEdits \/ UserDeletes \/ UserClearsIncomplete \/ UNCHANGED vars
  BY <1>4, StaysOnce DEF ObserveFails, UserEdits, UserDeletes, UserClearsIncomplete, vars, service, copies
<1>5. CASE Heal \/ Settle \/ Finalize \/ WriteFails \/ Restart
  <2>1. pc' = "idle"
    BY <1>5 DEF Heal, Settle, Finalize, WriteFails, Restart, Idle
  <2> QED
    BY <2>1, ElsewhereOnce
<1>6. CASE ObserveUnnamed \/ ObserveMissing
  <2>1. pc' \in {"heal", "finalize", "pending"}
    BY <1>6 DEF ObserveUnnamed, ObserveMissing, Reads, Missing
  <2> QED
    BY <2>1, ElsewhereOnce
<1>7. CASE RecordPending \/ Create \/ RecordResult
  <2>1. pc' \in {"create", "idle", "failed", "created", "settle"}
    BY <1>7 DEF RecordPending, Create, RecordResult, Idle, Goto
  <2> QED
    BY <2>1, ElsewhereOnce
<1>8. CASE UpdateKyma \/ UpdateSubaccount \/ UpdateDirectory \/ UpdateDirectoryFeatures
  <2>1. pc' \in {"settle", "features"}
    BY <1>8 DEF UpdateKyma, UpdateSubaccount, UpdateDirectory, UpdateDirectoryFeatures, Call, Goto
  <2> QED
    BY <2>1, ElsewhereOnce
<1> QED
  BY <1>1, <1>2, <1>3, <1>4, <1>5, <1>6, <1>7, <1>8 DEF Next, Reconcile

\* BTP is asked to delete what it is deleting already only by a resource that is
\* deleted and whose observation has just asked, to recreate it: isDeleting and
\* IsDeletable in the controllers rule out every other second call.
THEOREM DeletionIsAskedOnce == Spec => []DeletedOnce
<1>1. Init => DInv
  BY DEF Init, DInv
<1>2. PInv /\ DInv /\ [Next]_vars => DInv'
  BY NextOnce
<1>3. DInv => DeletedOnce
  BY DEF DInv, DeletedOnce, IsDeleting
<1> QED
  BY <1>1, <1>2, <1>3, Invariance, PTL DEF Spec

-----------------------------------------------------------------------------
(* A deleted resource leaves nothing of its own.                           *)

\* What the copies have in common with the resource, at each step.
Copies ==
    /\ base.kind = cr.kind /\ base.name = cr.name
    /\ mine.kind = cr.kind /\ mine.recreate = cr.recreate
    /\ pc # "idle" => base.attempted = cr.attempted /\ mine.attempted = cr.attempted
    /\ cr.recreate => cr.kind # "subaccount"
    /\ mine.phase = base.phase
    /\ base.phase # "live" => cr.phase # "live"
    /\ pc # "idle" => base.phase # "gone" /\ cr.phase # "gone"
    /\ pc \notin {"heal", "created"} => mine.name = cr.name
    /\ pc = "heal" => cr.kind = "subaccount"
    /\ pc = "delete" => mine.phase = "deleting"
    /\ pc = "recreate" => mine.recreate
    /\ pc = "create" => cr.attempted

NothingLeft == pc = "finalize" \/ cr.phase = "gone" => ~Owned(btp)

\* Without a lost answer or write, what was created is recorded, or about to be.
Recorded ==
    cr.kind # "subaccount" /\ Never({"lost", "drop", "restart"}) =>
        /\ NothingLeft
        /\ Owned(btp) => btp.id = IF pc = "created" THEN mine.name ELSE cr.name

\* A subaccount's is recorded, or a lookup by its subdomain will find it: a live
\* resource with an id has its object, so only one without an id creates.
CanBeFound ==
    /\ NothingLeft
    /\ pc = "pending" => ~Owned(btp)
    /\ pc \in {"pending", "create", "created", "heal"} => cr.name = None
    /\ Owned(btp) => cr.name = btp.id \/ (cr.name = None /\ cr.attempted /\ btp.inWindow)
    /\ cr.phase = "live" /\ cr.name # None => btp.id = cr.name
    /\ btp.state = "deleting" => cr.phase # "live" /\ cr.name = btp.id
    /\ pc \in {"created", "heal"} => btp.id = mine.name /\ btp.state # "deleting"

Findable == cr.kind = "subaccount" /\ Never({"blind", "loss", "clear"}) => CanBeFound

LInv == Copies /\ Recorded /\ Findable

\* What never happened had not happened before.
LEMMA NeverBefore ==
    ASSUME PInv, Quiet \/ (\E e \in Events : Happens(e)), NEW E \in SUBSET Events, Never(E)'
    PROVE  Never(E) /\ \A e \in E : ~Happens(e)
<1>1. events \in [Events -> Nat]
  BY DEF PInv, TypeOK
<1>2. ASSUME NEW e \in Events, Happens(e), NEW k \in E PROVE events[k] = 0 /\ k # e
  <2>1. events' = [events EXCEPT ![e] = events[e] + 1] /\ events'[k] = 0 /\ k \in Events
    BY <1>2 DEF Happens, Never
  <2>2. \A n \in Nat : n + 1 # 0
    OBVIOUS
  <2>3. CASE k = e
    BY <1>1, <2>1, <2>2, <2>3
  <2>4. CASE k # e
    BY <1>1, <2>1, <2>4
  <2> QED
    BY <2>3, <2>4
<1>3. CASE Quiet
  <2>1. events' = events
    BY <1>3 DEF Quiet
  <2>2. \A e \in Events : ~Happens(e)
    <3>1. ASSUME NEW e \in Events, Happens(e) PROVE FALSE
      <4>1. events' = [events EXCEPT ![e] = events[e] + 1]
        BY <3>1 DEF Happens
      <4>2. events[e] \in Nat /\ events'[e] = events[e] + 1
        BY <1>1, <4>1
      <4> QED
        BY <2>1, <4>2
    <3> QED
      BY <3>1
  <2> QED
    BY <2>1, <2>2 DEF Never
<1>4. CASE \E e \in Events : Happens(e)
  <2>1. Never(E)
    BY <1>2, <1>4 DEF Never
  <2>2. ASSUME NEW e \in E, Happens(e) PROVE FALSE
    BY <1>2, <2>2
  <2> QED
    BY <2>1, <2>2
<1> QED
  BY <1>3, <1>4

\* The events that the two cases exclude.
LEMMA Excluded ==
    ASSUME PInv, Quiet \/ (\E e \in Events : Happens(e))
    PROVE  /\ Never({"lost", "drop", "restart"})' =>
                 Never({"lost", "drop", "restart"}) /\ ~Happens("lost") /\ ~Happens("drop") /\ ~Happens("restart")
           /\ Never({"blind", "loss", "clear"})' => Never({"blind", "loss", "clear"}) 
                 /\ ~Happens("blind") /\ ~Happens("loss") /\ ~Happens("clear")
<1>1. {"lost", "drop", "restart"} \in SUBSET Events /\ {"blind", "loss", "clear"} \in SUBSET Events
  BY DEF Events
<1> QED
  BY <1>1, NeverBefore

\* Nothing becomes the resource's own but what it creates.
LEMMA OwnedBefore ==
    ASSUME PInv, btp # Foreign, btp'.id = btp.id, Owned(btp')
    PROVE  Owned(btp)
BY Known, Numbers DEF Owned

LEMMA NothingIsOwned == ~Owned(Nothing) /\ Nothing.id = None /\ Nothing.state = "none"
BY NothingTyped DEF Owned, Nothing, Object

\* A step that keeps the name and begins nothing.
LEMMA SteadyLeaves ==
    ASSUME PInv, LInv, Copies', Quiet \/ (\E e \in Events : Happens(e)),
           cr'.kind = cr.kind, cr'.name = cr.name, cr'.attempted = cr.attempted,
           cr'.phase = cr.phase \/ (cr.phase = "live" /\ cr'.phase = "deleting"),
           (pc' = pc /\ mine'.name = mine.name) \/ pc' \in {"idle", "settle", "update", "features", "recreate", "delete"},
           pc = "created" => pc' = "created" \/ Happens("drop") \/ Happens("restart"),
           \/ /\ btp'.id = btp.id /\ (Owned(btp') => Owned(btp) /\ btp'.inWindow = btp.inWindow)
              /\ btp'.state = "deleting" => btp.state = "deleting"
           \/ btp' = Nothing /\ (btp.state = "deleting" \/ Happens("loss"))
    PROVE  LInv'
<1>1. Recorded'
  <2> SUFFICES ASSUME cr'.kind # "subaccount", Never({"lost", "drop", "restart"})'
               PROVE  /\ pc' = "finalize" \/ cr'.phase = "gone" => ~Owned(btp')
                      /\ Owned(btp') => btp'.id = IF pc' = "created" THEN mine'.name ELSE cr'.name
    BY DEF Recorded, NothingLeft
  <2>1. /\ NothingLeft
        /\ Owned(btp) => btp.id = IF pc = "created" THEN mine.name ELSE cr.name
        /\ ~Happens("drop") /\ ~Happens("restart")
    BY Excluded DEF LInv, Recorded
  <2>2. CASE btp' = Nothing
    BY <2>2, NothingIsOwned
  <2>3. CASE btp' # Nothing
    <3>1. pc = "created" <=> pc' = "created"
      BY <2>1
    <3>2. pc = "created" => mine'.name = mine.name
      BY <3>1
    <3>3. (Owned(btp') => Owned(btp)) /\ btp'.id = btp.id
      BY <2>3
    <3> QED
      BY <2>1, <3>1, <3>2, <3>3 DEF NothingLeft
  <2> QED
    BY <2>2, <2>3
<1>2. Findable'
  <2> SUFFICES ASSUME cr'.kind = "subaccount", Never({"blind", "loss", "clear"})'
               PROVE  CanBeFound'
    BY DEF Findable
  <2>1. CanBeFound /\ ~Happens("loss")
    BY Excluded DEF LInv, Findable
  <2>2. CASE btp' = Nothing
    BY <2>1, <2>2, NothingIsOwned DEF NothingLeft, CanBeFound
  <2>3. CASE btp' # Nothing
    BY <2>1, <2>3 DEF NothingLeft, CanBeFound
  <2> QED
    BY <2>2, <2>3
<1> QED
  BY <1>1, <1>2 DEF LInv

\* Fields that the steps of the controller and of the user do not change.
LEMMA JudgedSame ==
    ASSUME NEW c \in Resources, NEW o \in Objects, o.first \in Nat
    PROVE  LET d == Judged(c, o) IN d.kind = c.kind /\ d.name = c.name /\ d.recreate = c.recreate
                                    /\ d.attempted = c.attempted /\ d.phase = c.phase
<1> DEFINE b == c.kind = "kyma" /\ o.state = "deleting"
           e == [c EXCEPT !.deleting = b]
<1>1. e \in Resources
  <2>1. b \in BOOLEAN
    OBVIOUS
  <2> HIDE DEF b
  <2> QED
    BY <2>1, Marked
<1>2. e.kind = c.kind /\ e.name = c.name /\ e.recreate = c.recreate /\ e.attempted = c.attempted /\ e.phase = c.phase
  BY DEF Resources
<1> HIDE DEF e
<1>3. Judged(c, o) = IF c.kind = "kyma" THEN Counted(e, o) ELSE e
  BY Zenon DEF Judged, e, b
<1>4. LET d == Counted(e, o) IN d.kind = e.kind /\ d.name = e.name /\ d.recreate = e.recreate
                                /\ d.attempted = e.attempted /\ d.phase = e.phase
  BY <1>1 DEF Counted, Resources
<1> QED
  BY <1>2, <1>3, <1>4

LEMMA IdleCopies == ASSUME Idle, cr'.recreate => cr'.kind # "subaccount" PROVE Copies'
BY DEF Idle, Copies

LEMMA ReadsCopies ==
    ASSUME Copies, cr'= cr, cr.phase # "gone", NEW c, NEW step, Reads(c, step),
           c.kind = cr.kind, c.recreate = cr.recreate, c.attempted = cr.attempted, c.phase = cr.phase,
           \/ step \in {"pending", "finalize", "recreate", "delete", "update", "settle"} /\ c.name = cr.name
           \/ step = "heal" /\ cr.kind = "subaccount",
           step = "delete" => cr.phase = "deleting",
           step = "recreate" => cr.recreate
    PROVE  Copies'
<1>1. base' = cr /\ mine' = c /\ pc' = step
  BY DEF Reads
<1> QED
  BY <1>1 DEF Copies

\* A reconcile that ends, and writes at most its copy of a resource nobody changed.
LEMMA IdleLeaves ==
    ASSUME PInv, LInv, Idle, UNCHANGED service,
           cr' = cr \/ (pc # "idle" /\ Current /\ cr' = mine /\ mine.name = cr.name),
           Quiet \/ (\E e \in Events : Happens(e)),
           pc = "created" => Happens("drop") \/ Happens("restart")
    PROVE  LInv'
<1>1. Copies
  BY DEF LInv
<1>2. cr'.kind = cr.kind /\ cr'.name = cr.name /\ cr'.attempted = cr.attempted /\ cr'.phase = cr.phase
      /\ cr'.recreate = cr.recreate
  BY <1>1 DEF Copies, Current
<1>3. Copies'
  BY <1>1, <1>2, IdleCopies DEF Copies
<1>4. pc' = "idle" /\ btp' = btp
  BY DEF Idle, service
<1> QED
  BY <1>2, <1>3, <1>4, SteadyLeaves

LEMMA StopsLeave == ASSUME PInv, LInv, WriteFails \/ Restart PROVE LInv'
<1>1. Idle /\ UNCHANGED service /\ cr' = cr /\ (Happens("drop") \/ Happens("restart"))
  BY DEF WriteFails, Restart
<1> QED
  BY <1>1, IdleLeaves DEF Events

LEMMA SettleLeaves == ASSUME PInv, LInv, Settle PROVE LInv'
<1>1. pc = "settle" /\ Idle /\ UNCHANGED service /\ Quiet /\ (cr' = cr \/ (Current /\ cr' = mine))
  BY DEF Settle
<1>2. mine.name = cr.name
  BY <1>1 DEF LInv, Copies
<1> QED
  BY <1>1, <1>2, IdleLeaves

LEMMA ObserveFoundLeaves == ASSUME PInv, LInv, ObserveFound PROVE LInv'
<1>1. /\ pc = "idle" /\ cr.phase # "gone" /\ btp' = btp /\ cr' = cr /\ Quiet
      /\ btp \in Objects /\ btp.first \in Nat /\ cr \in Resources
  BY Known DEF ObserveFound, Begins, service
<1>2. Copies
  BY DEF LInv
<1>3. CASE ShouldRecreate(cr, btp)
  <2> DEFINE step == IF ~cr.deleting THEN "recreate" ELSE IF cr.phase = "deleting" THEN "delete" ELSE "settle"
  <2>1. Reads(cr, step)
    BY <1>3 DEF ObserveFound
  <2>2. step \in {"recreate", "delete", "settle"} /\ (step = "delete" => cr.phase = "deleting") /\ cr.recreate
    BY <1>3 DEF ShouldRecreate
  <2> HIDE DEF step
  <2>3. Copies'
    BY <1>1, <1>2, <2>1, <2>2, ReadsCopies
  <2>4. pc' \in {"recreate", "delete", "settle"}
    BY <2>1, <2>2 DEF Reads
  <2> QED
    BY <1>1, <2>3, <2>4, SteadyLeaves
<1>4. CASE ~ShouldRecreate(cr, btp)
  <2> DEFINE c == Judged(cr, btp)
  <2>1. Reads(c, Verdict(cr, btp))
    BY <1>4 DEF ObserveFound
  <2>2. Verdict(cr, btp) \in {"delete", "update", "settle"} /\ (Verdict(cr, btp) = "delete" => cr.phase = "deleting")
    BY DEF Verdict
  <2>3. c.kind = cr.kind /\ c.name = cr.name /\ c.recreate = cr.recreate /\ c.attempted = cr.attempted
        /\ c.phase = cr.phase
    BY <1>1, JudgedSame
  <2> HIDE DEF c
  <2>4. Copies'
    BY <1>1, <1>2, <2>1, <2>2, <2>3, ReadsCopies
  <2>5. pc' \in {"delete", "update", "settle"}
    BY <2>1, <2>2 DEF Reads
  <2> QED
    BY <1>1, <2>4, <2>5, SteadyLeaves
<1> QED
  BY <1>3, <1>4

\* Nothing of its own is there when an observation finds nothing.
LEMMA MissingLeaves ==
    ASSUME PInv, LInv, Begins, Reads(cr, Missing(cr)), UNCHANGED <<service, cr>>,
           Quiet \/ Happens("blind"), cr.name = None \/ ~Named(cr, btp),
           cr.name = None => ~(LooksUp(cr) /\ CanHeal(cr)) \/ Happens("blind")
    PROVE  LInv'
<1>1. /\ pc = "idle" /\ cr.phase # "gone" /\ btp' = btp /\ cr' = cr /\ pc' = Missing(cr)
      /\ Missing(cr) \in {"pending", "finalize"} /\ (Missing(cr) = "pending" => cr.phase = "live")
      /\ cr.phase \in {"live", "deleting", "gone"}
  BY Known DEF Begins, service, Reads, Missing, Resources
<1>2. Copies'
  BY <1>1, ReadsCopies DEF LInv
<1>3. Quiet \/ (\E e \in Events : Happens(e))
  BY DEF Events
<1>4. Owned(btp) => btp.id # None
  BY DEF Owned
<1>5. Recorded'
  <2> SUFFICES ASSUME cr.kind # "subaccount", Never({"lost", "drop", "restart"})' PROVE ~Owned(btp')
    BY <1>1 DEF Recorded, NothingLeft
  <2>1. Owned(btp) => btp.id = cr.name
    BY <1>1, <1>3, Excluded DEF LInv, Recorded
  <2> QED
    BY <1>1, <1>4, <2>1 DEF Named
<1>6. Findable'
  <2> SUFFICES ASSUME cr'.kind = "subaccount", Never({"blind", "loss", "clear"})' PROVE CanBeFound'
    BY DEF Findable
  <2>1. CanBeFound /\ ~Happens("blind") /\ cr.kind = "subaccount"
    BY <1>1, <1>3, Excluded DEF LInv, Findable
  <2>2. ~Owned(btp)
    <3>1. CASE cr.name = None
      BY <1>4, <2>1, <3>1 DEF CanBeFound, LooksUp, CanHeal
    <3>2. CASE cr.name # None
      BY <1>4, <2>1, <3>2 DEF CanBeFound, Named
    <3> QED
      BY <3>1, <3>2
  <2>3. Missing(cr) = "pending" => cr.name = None
    BY <1>1, <2>1 DEF CanBeFound, Named
  <2> QED
    BY <1>1, <2>1, <2>2, <2>3 DEF CanBeFound, NothingLeft
<1> QED
  BY <1>2, <1>5, <1>6 DEF LInv

LEMMA ObserveMissingLeaves == ASSUME PInv, LInv, ObserveMissing PROVE LInv'
BY MissingLeaves DEF ObserveMissing

LEMMA ObserveUnnamedLeaves == ASSUME PInv, LInv, ObserveUnnamed PROVE LInv'
<1>1. Begins /\ cr.name = None /\ UNCHANGED <<service, cr>>
  BY DEF ObserveUnnamed
<1>2. CASE Reads(cr, Missing(cr))
  <2>1. (Quiet \/ Happens("blind")) /\ (~(LooksUp(cr) /\ CanHeal(cr)) \/ Happens("blind"))
    <3>1. CASE LooksUp(cr) /\ CanHeal(cr)
      <4>1. Missing(cr) # "heal"
        BY DEF Missing
      <4> QED
        BY <1>2, <3>1, <4>1 DEF ObserveUnnamed, Reads
    <3>2. CASE ~(LooksUp(cr) /\ CanHeal(cr))
      BY <3>2 DEF ObserveUnnamed
    <3> QED
      BY <3>1, <3>2
  <2> QED
    BY <1>1, <1>2, <2>1, MissingLeaves
<1>3. CASE ~Reads(cr, Missing(cr))
  <2> DEFINE c == [cr EXCEPT !.name = btp.id]
  <2>1. LooksUp(cr) /\ CanHeal(cr) /\ Reads(c, "heal") /\ Quiet
    BY <1>3 DEF ObserveUnnamed
  <2>2. /\ c.name = btp.id /\ c.kind = cr.kind /\ c.recreate = cr.recreate /\ c.attempted = cr.attempted
        /\ c.phase = cr.phase
    BY Known DEF Resources
  <2> HIDE DEF c
  <2>3. /\ cr.kind = "subaccount" /\ cr.attempted /\ btp.id # None /\ btp.inWindow
        /\ btp' = btp /\ cr' = cr /\ pc' = "heal" /\ mine' = c /\ cr.phase # "gone"
    BY <1>1, <2>1 DEF LooksUp, CanHeal, Reads, service, Begins
  <2>4. Copies'
    BY <2>1, <2>2, <2>3, ReadsCopies DEF LInv
  <2>5. Recorded'
    BY <2>3 DEF Recorded
  <2>6. Findable'
    <3> SUFFICES ASSUME Never({"blind", "loss", "clear"})' PROVE CanBeFound'
      BY DEF Findable
    <3>1. CanBeFound
      BY <2>1, <2>3, Excluded DEF LInv, Findable
    <3> QED
      BY <1>1, <2>2, <2>3, <3>1 DEF CanBeFound, NothingLeft
  <2> QED
    BY <2>4, <2>5, <2>6 DEF LInv
<1> QED
  BY <1>2, <1>3

LEMMA HealLeaves == ASSUME PInv, LInv, Heal PROVE LInv'
<1>1. pc = "heal" /\ Idle /\ UNCHANGED service /\ Quiet
  BY DEF Heal
<1>2. CASE cr' = cr
  BY <1>1, <1>2, IdleLeaves
<1>3. CASE cr' # cr
  <2>1. Copies /\ Current /\ cr' = mine /\ btp' = btp /\ pc' = "idle" /\ cr.kind = "subaccount"
    BY <1>1, <1>3 DEF Heal, LInv, Copies, service, Idle
  <2>2. mine.kind = cr.kind /\ mine.recreate = cr.recreate /\ mine.phase = cr.phase /\ cr.phase # "gone"
    BY <1>1, <2>1 DEF Copies, Current
  <2>3. Copies'
    BY <1>1, <2>1, <2>2, IdleCopies DEF Copies
  <2>4. Recorded'
    BY <2>1, <2>2 DEF Recorded
  <2>5. Findable'
    <3> SUFFICES ASSUME Never({"blind", "loss", "clear"})' PROVE CanBeFound'
      BY DEF Findable
    <3>1. CanBeFound
      BY <1>1, <2>1, Excluded DEF LInv, Findable
    <3> QED
      BY <1>1, <2>1, <2>2, <3>1 DEF CanBeFound, NothingLeft
  <2> QED
    BY <2>3, <2>4, <2>5 DEF LInv
<1> QED
  BY <1>2, <1>3

LEMMA RecordPendingLeaves == ASSUME PInv, LInv, RecordPending PROVE LInv'
<1>1. pc = "pending" /\ Quiet
  BY DEF RecordPending
<1>2. CASE ~Current
  BY <1>1, <1>2, IdleLeaves DEF RecordPending, service
<1>3. CASE Current
  <2> DEFINE c == [base EXCEPT !.attempted = TRUE, !.incomplete = TRUE]
  <2>1. /\ cr' = c /\ base' = c /\ mine' = c /\ pc' = "create" /\ base = cr
        /\ btp' \in {btp, [btp EXCEPT !.inWindow = FALSE]}
    BY <1>3 DEF RecordPending, Current
  <2>2. c.attempted /\ c.name = cr.name /\ c.kind = cr.kind /\ c.phase = cr.phase /\ c.recreate = cr.recreate
    BY <2>1, Known DEF Resources
  <2> HIDE DEF c
  <2>3. btp'.id = btp.id /\ btp'.state = btp.state /\ (Owned(btp') => Owned(btp))
    BY <2>1, Known DEF Objects, Owned
  <2>4. Copies'
    BY <1>1, <2>1, <2>2 DEF LInv, Copies
  <2>5. Recorded'
    BY <1>1, <2>1, <2>2, <2>3, Excluded DEF LInv, Copies, Recorded, NothingLeft
  <2>6. Findable'
    BY <1>1, <2>1, <2>2, <2>3, Excluded DEF LInv, Copies, Findable, CanBeFound, NothingLeft
  <2> QED
    BY <2>4, <2>5, <2>6 DEF LInv
<1> QED
  BY <1>2, <1>3

LEMMA CreateLeaves == ASSUME PInv, LInv, Create PROVE LInv'
<1> DEFINE o == Object(last + 1, "creating", mine.gen)
           n == [mine EXCEPT !.name = last + 1]
<1>1. pc = "create" /\ cr' = cr /\ base' = base /\ (Quiet \/ \E e \in Events : Happens(e))
  BY DEF Create, Goto, copies, Events
<1>2. /\ \/ pc' = "failed" /\ mine' = mine /\ btp' = btp
         \/ pc' = "created" /\ mine' = n /\ btp' = o
         \/ pc' = "failed" /\ mine' = mine /\ btp' = o /\ Happens("lost")
  BY DEF Create, Goto, copies, service
<1>3. o.id = last + 1 /\ o.state = "creating" /\ o.inWindow
  BY DEF Object
<1>4. n.name = last + 1 /\ n.kind = mine.kind /\ n.recreate = mine.recreate /\ n.attempted = mine.attempted
      /\ n.phase = mine.phase
  BY Known DEF Resources
<1> HIDE DEF o, n
<1>5. Copies'
  BY <1>1, <1>2, <1>4 DEF LInv, Copies
<1>6. Recorded'
  BY <1>1, <1>2, <1>3, <1>4, Excluded DEF LInv, Copies, Recorded, NothingLeft
<1>7. Findable'
  BY <1>1, <1>2, <1>3, <1>4, Excluded DEF LInv, Copies, Findable, CanBeFound, NothingLeft
<1> QED
  BY <1>5, <1>6, <1>7 DEF LInv

LEMMA RecordResultLeaves == ASSUME PInv, LInv, RecordResult PROVE LInv'
<1> DEFINE name == IF pc = "created" THEN mine.name ELSE cr.name
           c == [cr EXCEPT !.incomplete = FALSE, !.name = name]
<1>1. pc \in {"created", "failed"} /\ cr' = c /\ base' = c /\ pc' = "settle" /\ btp' = btp /\ Quiet
  BY DEF RecordResult, service
<1>2. PICK d \in {cr.deleting, FALSE} : mine' = [c EXCEPT !.deleting = d]
  BY <1>1 DEF RecordResult
<1>3. c.name = name /\ c.kind = cr.kind /\ c.recreate = cr.recreate /\ c.attempted = cr.attempted
      /\ c.phase = cr.phase
  BY Known DEF Resources
<1>4. mine'.name = c.name /\ mine'.kind = c.kind /\ mine'.recreate = c.recreate /\ mine'.attempted = c.attempted
      /\ mine'.phase = c.phase
  BY <1>2, Known DEF Resources
<1> HIDE DEF c
<1>5. Copies'
  BY <1>1, <1>3, <1>4 DEF LInv, Copies
<1>6. Recorded'
  BY <1>1, <1>3, Excluded DEF LInv, Recorded, NothingLeft
<1>7. Findable'
  BY <1>1, <1>3, Excluded DEF LInv, Findable, CanBeFound, NothingLeft
<1> QED
  BY <1>5, <1>6, <1>7 DEF LInv

\* An update changes what is there, and neither makes nor deletes.
LEMMA UpdateLeaves ==
    ASSUME PInv, LInv, UpdateKyma \/ UpdateSubaccount \/ UpdateDirectory \/ UpdateDirectoryFeatures
    PROVE  LInv'
<1>1. /\ pc \in {"update", "features"} /\ cr' = cr /\ base' = base /\ mine' = mine
      /\ pc' \in {"settle", "features"} /\ (Quiet \/ \E e \in Events : Happens(e))
  BY DEF UpdateKyma, UpdateSubaccount, UpdateDirectory, UpdateDirectoryFeatures, Call, Goto, copies, Events
<1>2. \/ btp' = btp
      \/ /\ Named(mine, btp)
         /\ \/ btp' = Starts
            \/ btp' \in {[btp EXCEPT !.second = mine.gen], [btp EXCEPT !.first = mine.gen]} /\ btp.state = "ok"
  BY DEF UpdateKyma, UpdateSubaccount, UpdateDirectory, UpdateDirectoryFeatures, Call
<1>3. Copies'
  BY <1>1 DEF LInv, Copies
<1>4. /\ btp'.id = btp.id /\ (Owned(btp') => Owned(btp) /\ btp'.inWindow = btp.inWindow)
      /\ btp'.state = "deleting" => btp.state = "deleting"
  <2>1. CASE btp' = btp
    BY <2>1
  <2>2. CASE btp' # btp
    <3>1. btp # Foreign /\ btp'.id = btp.id /\ btp'.inWindow = btp.inWindow /\ btp'.state # "deleting"
      BY <1>2, <2>2, Known DEF Starts, Objects
    <3> QED
      BY <3>1, OwnedBefore
  <2> QED
    BY <2>1, <2>2
<1> QED
  BY <1>1, <1>3, <1>4, SteadyLeaves

\* Only a resource that is deleted, or recreated, deletes.
LEMMA DeleteLeaves == ASSUME PInv, LInv, Delete PROVE LInv'
<1> DEFINE d == mine.kind \in {"kyma", "subscription"}
           started == [btp EXCEPT !.state = "deleting"]
<1>1. /\ pc \in {"recreate", "delete"} /\ cr' = cr /\ base' = base /\ pc' \in {AfterDelete, "settle"}
      /\ mine' = [mine EXCEPT !.deleting = d]
      /\ btp' = btp \/ (Named(mine, btp) /\ btp' = started)
      /\ Quiet \/ \E e \in Events : Happens(e)
  BY DEF Delete, Events
<1>2. started.id = btp.id /\ started.inWindow = btp.inWindow /\ started.first = btp.first
  BY Known DEF Objects
<1>3. mine'.name = mine.name /\ mine'.kind = mine.kind /\ mine'.recreate = mine.recreate
      /\ mine'.attempted = mine.attempted /\ mine'.phase = mine.phase
  BY <1>1, Known DEF Resources
<1> HIDE DEF d, started
<1>4. Copies /\ mine.name = cr.name /\ (AfterDelete = "delete" => mine.phase = "deleting")
      /\ AfterDelete \in {"delete", "settle"}
  BY <1>1 DEF LInv, Copies, AfterDelete
<1>5. Copies'
  BY <1>1, <1>3, <1>4 DEF Copies
<1>6. Recorded'
  BY <1>1, <1>2, <1>4, Excluded DEF LInv, Recorded, NothingLeft, Owned
<1>7. Findable'
  <2> SUFFICES ASSUME cr'.kind = "subaccount", Never({"blind", "loss", "clear"})' PROVE CanBeFound'
    BY DEF Findable
  <2>1. CanBeFound /\ cr.kind = "subaccount"
    BY <1>1, Excluded DEF LInv, Findable
  <2>2. pc = "delete" /\ cr.phase # "live"
    BY <1>1, <1>4, <2>1 DEF Copies
  <2>3. CASE btp' = btp
    BY <1>1, <1>4, <2>1, <2>3 DEF CanBeFound, NothingLeft
  <2>4. CASE btp' # btp
    <3>1. cr.name = btp.id
      BY <1>1, <1>4, <2>1, <2>4 DEF Named, Copies
    <3> QED
      BY <1>1, <1>2, <1>4, <2>1, <2>2, <2>4, <3>1 DEF CanBeFound, NothingLeft, Owned
  <2> QED
    BY <2>3, <2>4
<1> QED
  BY <1>5, <1>6, <1>7 DEF LInv

LEMMA FinalizeLeaves == ASSUME PInv, LInv, Finalize PROVE LInv'
<1> DEFINE c == [cr EXCEPT !.phase = "gone"]
<1>1. pc = "finalize" /\ Idle /\ btp' = btp /\ Quiet /\ UNCHANGED service
  BY DEF Finalize, service
<1>2. CASE cr' = cr
  BY <1>1, <1>2, IdleLeaves
<1>3. CASE cr' # cr
  <2>1. cr' = c
    BY <1>3 DEF Finalize
  <2>2. c.name = cr.name /\ c.kind = cr.kind /\ c.recreate = cr.recreate /\ c.attempted = cr.attempted
        /\ c.phase = "gone"
    BY Known DEF Resources
  <2> HIDE DEF c
  <2>3. Copies'
    BY <1>1, <2>1, <2>2, IdleCopies DEF LInv, Copies
  <2>4. pc' = "idle"
    BY <1>1 DEF Idle
  <2>5. Recorded'
    BY <1>1, <2>1, <2>2, <2>4, Excluded DEF LInv, Recorded, NothingLeft
  <2>6. Findable'
    BY <1>1, <2>1, <2>2, <2>4, Excluded DEF LInv, Findable, CanBeFound, NothingLeft
  <2> QED
    BY <2>3, <2>5, <2>6 DEF LInv
<1> QED
  BY <1>2, <1>3

LEMMA ProcessingLeaves == ASSUME PInv, LInv, Processing \/ LostInBTP PROVE LInv'
<1>1. cr' = cr /\ base' = base /\ mine' = mine /\ pc' = pc
  BY DEF Processing, LostInBTP, copies
<1>2. Copies'
  BY <1>1 DEF LInv, Copies
<1>3. Quiet \/ (\E e \in Events : Happens(e))
  BY DEF Processing, CreationEnds, UpdateEnds, DeletionEnds, Ends, LostInBTP, Events
<1>4. \/ /\ btp'.id = btp.id /\ (Owned(btp') => Owned(btp) /\ btp'.inWindow = btp.inWindow)
         /\ btp'.state # "deleting"
      \/ btp' = Nothing /\ (btp.state = "deleting" \/ Happens("loss"))
  <2>1. CASE LostInBTP
    BY <2>1 DEF LostInBTP
  <2>2. CASE Processing
    <3> DEFINE st == CASE btp.state = "creating" -> "failed" [] btp.state = "updating" -> "broken" [] OTHER -> "undeleted"
               f == IF cr.kind = "kyma" THEN btp.wanted ELSE btp.first
               failed == [btp EXCEPT !.state = st]
               up == [btp EXCEPT !.state = "ok", !.second = btp.wanted, !.first = f]
               made == [btp EXCEPT !.state = "ok"]
    <3>1. btp.state # "ok" /\ (btp' \in {made, up, failed} \/ (btp' = Nothing /\ btp.state = "deleting"))
      BY <2>2 DEF Processing, CreationEnds, UpdateEnds, DeletionEnds, Ends
    <3>2. st # "deleting"
      OBVIOUS
    <3> HIDE DEF st, f
    <3>3. ASSUME NEW o \in {made, up, failed}
          PROVE  o.id = btp.id /\ o.inWindow = btp.inWindow /\ o.state # "deleting"
      BY <3>2, Known DEF Objects
    <3> HIDE DEF made, up, failed
    <3>4. btp # Foreign
      BY <3>1, ForeignTyped
    <3> QED
      BY <3>1, <3>3, <3>4, OwnedBefore
  <2> QED
    BY <2>1, <2>2
<1> QED
  BY <1>1, <1>2, <1>3, <1>4, SteadyLeaves

\* The user, a failed observation and a stutter leave what the reconcile has read.
LEMMA OthersLeave ==
    ASSUME PInv, LInv, ObserveFails \/ UserEdits \/ UserDeletes \/ UNCHANGED vars
    PROVE  LInv'
<1>1. /\ btp' = btp /\ base' = base /\ mine' = mine /\ pc' = pc
      /\ Quiet \/ (\E e \in Events : Happens(e))
      /\ \/ cr' = cr \/ cr' = [cr EXCEPT !.gen = @ + 1]
         \/ cr.phase = "live" /\ cr' = [cr EXCEPT !.phase = "deleting"]
  BY DEF ObserveFails, UserEdits, UserDeletes, vars, service, copies, Quiet, Events
<1>2. /\ cr'.kind = cr.kind /\ cr'.name = cr.name /\ cr'.attempted = cr.attempted /\ cr'.recreate = cr.recreate
      /\ cr'.phase = cr.phase \/ (cr.phase = "live" /\ cr'.phase = "deleting")
  BY <1>1, Known DEF Resources
<1>3. Copies'
  BY <1>1, <1>2 DEF LInv, Copies
<1> QED
  BY <1>1, <1>2, <1>3, SteadyLeaves

\* The user's answer to an unanswered create takes the attempt off the record.
LEMMA ClearLeaves == ASSUME PInv, LInv, UserClearsIncomplete PROVE LInv'
<1>1. btp' = btp /\ base' = base /\ mine' = mine /\ pc' = pc /\ pc = "idle" /\ Happens("clear") /\ "clear" \in Events
  BY DEF UserClearsIncomplete, service, copies, Events
<1>2. cr'.kind = cr.kind /\ cr'.name = cr.name /\ cr'.recreate = cr.recreate /\ cr'.phase = cr.phase
  BY Known DEF UserClearsIncomplete, Resources
<1>3. Copies'
  BY <1>1, <1>2 DEF LInv, Copies
<1>4. /\ Never({"lost", "drop", "restart"})' => Never({"lost", "drop", "restart"})
      /\ ~Never({"blind", "loss", "clear"})'
  BY <1>1, Excluded
<1>5. Recorded'
  BY <1>1, <1>2, <1>4 DEF LInv, Recorded, NothingLeft, Owned
<1> QED
  BY <1>3, <1>4, <1>5 DEF LInv, Findable

\* What a deleted subscription, environment or directory made was recorded with
\* the answer of its create, if that and its writes were not lost; what a deleted
\* subaccount made is found again by its subdomain, if its lookups do not fail,
\* nobody else deletes the object it has recorded, and the user does not remove
\* the annotation of the attempt.
THEOREM NothingIsLeft == Spec => []DeleteLeavesNothing
<1>1. Init => LInv
  <2> SUFFICES ASSUME Init PROVE LInv
    OBVIOUS
  <2>1. PICK kind \in Kinds, recreate \in BOOLEAN :
            (recreate => kind \in {"kyma", "subscription"}) /\ cr = NewResource(kind, recreate)
    BY DEF Init
  <2>2. cr.phase = "live" /\ cr.name = None /\ cr.kind = kind /\ cr.recreate = recreate
    BY <2>1 DEF NewResource
  <2>3. ~Owned(btp) /\ btp.state # "deleting" /\ base = cr /\ mine = cr /\ pc = "idle"
    BY NothingIsOwned, ForeignTyped DEF Init, Owned
  <2> QED
    BY <2>1, <2>2, <2>3 DEF LInv, Copies, Recorded, Findable, CanBeFound, NothingLeft
<1>2. PInv /\ LInv /\ [Next]_vars => LInv'
  BY ObserveUnnamedLeaves, HealLeaves, ObserveMissingLeaves, ObserveFoundLeaves, SettleLeaves, RecordPendingLeaves,
     CreateLeaves, RecordResultLeaves, UpdateLeaves, DeleteLeaves, FinalizeLeaves, StopsLeave, ProcessingLeaves,
     OthersLeave, ClearLeaves DEF Next, Reconcile
<1>3. LInv => DeleteLeavesNothing
  BY DEF LInv, Recorded, Findable, CanBeFound, NothingLeft, DeleteLeavesNothing
<1> QED
  BY <1>1, <1>2, <1>3, Invariance, PTL DEF Spec

=============================================================================

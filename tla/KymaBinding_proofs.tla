-------------------------- MODULE KymaBinding_proofs --------------------------
(***************************************************************************)
(* Theorems about KymaBinding, for any number of bindings, any events and  *)
(* any number of them.                                                     *)
(***************************************************************************)
EXTENDS KymaBinding, TLAPS

-----------------------------------------------------------------------------
(* The inductive invariant.                                                *)

\* No deletion failed, no answer was lost, no process died.
Undisturbed == Never({"lost", "restart", "refuse", "cut"})

\* Copies are never newer than the resource; what is to be deleted has expired.
Ordered ==
    /\ expired \subseteq due /\ doomed \subseteq expired
    /\ mine.phase = base.phase /\ mine.edits = base.edits
    /\ base.edits <= cr.edits /\ cache.edits <= cr.edits
    /\ cr.phase = "live" => base.phase = "live" /\ cache.phase = "live"

\* In every copy, a binding that is not active is past its rotation.
InactiveAreDue ==
    /\ cr.binds \ cr.active \subseteq due
    /\ cache.binds \ cache.active \subseteq due
    /\ base.binds \ base.active \subseteq due
    /\ mine.binds \ mine.active \subseteq due

\* What each step knows of the bindings it will write.
StepKnows ==
    /\ pc = "describe" => mine = base
    /\ pc = "validate" => base.binds \cap btp \subseteq mine.binds /\ base.active \cap btp \subseteq mine.active
    /\ pc \in {"purge", "pending"} => base.active \cap btp \subseteq mine.active \cup due
    /\ pc \in {"pending", "finalize"} => mine.active = {}
    /\ pc \in {"create", "append"} => mine.binds = base.binds
    /\ pc = "create" => cr.active \cap btp \subseteq due
    /\ pc = "delete" => mine.phase = "deleting"

\* A new binding is there, and not yet published, until the reconcile is done with it.
NewIsThere ==
    /\ pc # "idle" => mine.phase # "gone"
    /\ pc \in {"create", "append", "rollback", "created", "failed", "publish"} => cr.phase # "gone"
    /\ pc \in {"append", "rollback", "created", "publish"} => new \in 1 .. last /\ secret # new
    /\ pc \in {"append", "created", "publish"} /\ Never({"loss"}) => new \in btp

\* What no status has is in the hands of the step that deletes or writes it.
InHand == IF pc = "purge" THEN doomed ELSE IF pc \in {"append", "rollback"} THEN {new} ELSE {}
Tracked == Undisturbed /\ cr.phase # "gone" => btp \subseteq cr.binds \cup InHand

\* A copy that can still be written lacks nothing that BTP has.
WritableIsComplete ==
    Undisturbed /\ base = cr =>
        /\ pc = "purge" => btp \subseteq mine.binds \cup doomed
        /\ pc \in {"settle", "delete", "finalize"} => btp \subseteq mine.binds

KInv ==
    /\ TypeOK /\ Ordered /\ InactiveAreDue /\ StepKnows /\ NewIsThere /\ Tracked
    /\ WritableIsComplete /\ DeleteLeavesRotated /\ SecretWorks

-----------------------------------------------------------------------------
(* Counting events.                                                        *)

\* Events are counted and never uncounted.
Counted == events' \in [Events -> Nat] /\ \A e \in Events : events[e] <= events'[e]

LEMMA HappensCounts ==
    ASSUME TypeOK, NEW e \in Events, Happens(e)
    PROVE  Counted /\ events'[e] # 0
<1>1. events' = [events EXCEPT ![e] = events[e] + 1] /\ events \in [Events -> Nat]
  BY DEF Happens, TypeOK
<1>2. \A n \in Nat : n + 1 \in Nat /\ n <= n + 1 /\ n + 1 # 0 /\ n <= n
  OBVIOUS
<1>3. events' \in [Events -> Nat] /\ \A f \in Events : events'[f] = IF f = e THEN events[f] + 1 ELSE events[f]
  BY <1>1, <1>2
<1>4. \A f \in Events : events[f] \in Nat
  BY <1>1
<1> QED
  BY <1>2, <1>3, <1>4 DEF Counted

LEMMA QuietCounts ==
    ASSUME TypeOK, UNCHANGED events
    PROVE  Counted
<1>1. \A n \in Nat : n <= n
  OBVIOUS
<1> QED
  BY <1>1 DEF Counted, TypeOK

\* What never happened never happened before.
LEMMA NeverBefore ==
    ASSUME TypeOK, Counted, NEW E \in SUBSET Events, Never(E)'
    PROVE  Never(E)
<1>1. \A n \in Nat : n <= 0 => n = 0
  OBVIOUS
<1>2. \A e \in E : events[e] \in Nat /\ events[e] <= events'[e] /\ events'[e] = 0
  BY DEF Counted, Never, TypeOK
<1> QED
  BY <1>1, <1>2 DEF Never

LEMMA QuietBefore ==
    ASSUME TypeOK, Counted
    PROVE  (Undisturbed' => Undisturbed) /\ (Never({"loss"})' => Never({"loss"}))
<1>1. {"lost", "restart", "refuse", "cut"} \in SUBSET Events /\ {"loss"} \in SUBSET Events
  BY DEF Events
<1> QED
  BY <1>1, NeverBefore DEF Undisturbed

LEMMA Disturbs ==
    ASSUME NEW e \in {"lost", "restart", "refuse", "cut"}, events'[e] # 0
    PROVE  ~Undisturbed'
BY DEF Undisturbed, Never

-----------------------------------------------------------------------------
(* Copies.                                                                 *)

LEMMA NewResourceTyped == NewResource \in Resources /\ NewResource.phase = "live" /\ NewResource.edits = 0
                          /\ NewResource.binds = {} /\ NewResource.active = {}
BY DEF NewResource, Resources

\* As more bindings are numbered, a resource stays one.
LEMMA Grown ==
    ASSUME last \in Nat, last' \in Nat, last <= last'
    PROVE  Ids \subseteq Ids' /\ Resources \subseteq Resources'
<1>1. Ids \subseteq Ids'
  BY DEF Ids
<1> QED
  BY <1>1 DEF Resources

\* A reconcile that ends, here or by a failure, leaves nothing that anybody has to
\* write or delete, unless it was disturbed.
LEMMA IdleKeeps ==
    ASSUME KInv, Idle, UNCHANGED <<service, clocks, secret, cr, cache>>, Counted,
           ~Undisturbed' \/ InHand = {}
    PROVE  KInv'
<1>1. /\ pc' = "idle" /\ base' = NewResource /\ mine' = NewResource /\ new' = None /\ doomed' = {}
      /\ btp' = btp /\ last' = last /\ due' = due /\ expired' = expired /\ secret' = secret
      /\ cr' = cr /\ cache' = cache
  BY DEF Idle, Copy, service, clocks
<1>2. TypeOK'
  <2>1. Ids' = Ids /\ Resources' = Resources
    BY <1>1 DEF Ids, Resources
  <2>2. /\ last \in 0 .. MaxBindings /\ btp \subseteq Ids /\ due \subseteq Ids /\ expired \subseteq Ids
        /\ secret \in Ids \cup {None} /\ {cr, cache} \subseteq Resources
    BY DEF KInv, TypeOK
  <2> QED
    BY <1>1, <2>1, <2>2, NewResourceTyped DEF TypeOK, Counted, Steps
<1>3. Ordered'
  <2>1. cr.edits \in Nat
    BY DEF KInv, TypeOK, Resources
  <2>2. 0 <= cr.edits
    BY <2>1
  <2> QED
    BY <1>1, <2>2, NewResourceTyped DEF KInv, Ordered
<1>4. InactiveAreDue'
  BY <1>1, NewResourceTyped DEF KInv, InactiveAreDue
<1>5. StepKnows' /\ NewIsThere' /\ WritableIsComplete'
  BY <1>1 DEF StepKnows, NewIsThere, WritableIsComplete
<1>6. (Undisturbed' => Undisturbed) /\ (Never({"loss"})' => Never({"loss"}))
  BY QuietBefore DEF KInv
<1>7. Tracked'
  BY <1>1, <1>6 DEF KInv, Tracked, InHand
<1>8. DeleteLeavesRotated' /\ SecretWorks'
  BY <1>1, <1>6 DEF KInv, DeleteLeavesRotated, SecretWorks, Undisturbed
<1> QED
  BY <1>2, <1>3, <1>4, <1>5, <1>7, <1>8 DEF KInv

-----------------------------------------------------------------------------
(* Observe.                                                                *)

LEMMA ConnectKeeps ==
    ASSUME KInv, Connect
    PROVE  KInv'
<1>1. /\ pc = "idle" /\ pc' = "describe" /\ cache' = cr /\ cr' = cr /\ base' = mine'
      /\ base' \in {cr, cache} /\ base'.phase # "gone"
      /\ btp' = btp /\ last' = last /\ due' = due /\ expired' = expired /\ secret' = secret
      /\ new' = new /\ doomed' = doomed
  BY DEF Connect, Copy, service, clocks
<1>2. Counted
  BY HappensCounts, QuietCounts DEF Connect, Events, KInv
<1>3. (Undisturbed' => Undisturbed) /\ (Never({"loss"})' => Never({"loss"}))
  BY <1>2, QuietBefore DEF KInv
<1>4. TypeOK'
  <2>1. Ids' = Ids /\ Resources' = Resources
    BY <1>1 DEF Ids, Resources
  <2> QED
    BY <1>1, <1>2, <2>1 DEF KInv, TypeOK, Counted, Steps
<1>5. Ordered'
  <2>1. cr.edits \in Nat
    BY DEF KInv, TypeOK, Resources
  <2> QED
    BY <1>1, <2>1 DEF KInv, Ordered
<1>6. InactiveAreDue' /\ StepKnows' /\ NewIsThere' /\ WritableIsComplete'
  BY <1>1 DEF KInv, InactiveAreDue, StepKnows, NewIsThere, WritableIsComplete
<1>7. Tracked' /\ DeleteLeavesRotated' /\ SecretWorks'
  BY <1>1, <1>3 DEF KInv, Tracked, InHand, DeleteLeavesRotated, SecretWorks, Undisturbed
<1> QED
  BY <1>4, <1>5, <1>6, <1>7 DEF KInv

LEMMA DescribeKeeps ==
    ASSUME KInv, Describe
    PROVE  KInv'
<1>1. /\ pc = "describe" /\ pc' = "validate" /\ mine = base
      /\ mine' = [base EXCEPT !.binds = base.binds \cap btp, !.active = base.active \cap btp]
      /\ cr' = cr /\ cache' = cache /\ base' = base
      /\ btp' = btp /\ last' = last /\ due' = due /\ expired' = expired /\ secret' = secret
      /\ new' = new /\ doomed' = doomed /\ events' = events
  BY DEF Describe, Listed, service, clocks, KInv, StepKnows
<1>2. Counted
  BY <1>1, QuietCounts DEF KInv
<1>3. base \in Resources
  BY DEF KInv, TypeOK
<1>4. /\ mine' \in Resources /\ mine'.phase = base.phase /\ mine'.edits = base.edits
      /\ mine'.binds = base.binds \cap btp /\ mine'.active = base.active \cap btp
  BY <1>1, <1>3 DEF Resources
<1>5. TypeOK'
  <2>1. Ids' = Ids /\ Resources' = Resources
    BY <1>1 DEF Ids, Resources
  <2> QED
    BY <1>1, <1>2, <1>4, <2>1 DEF KInv, TypeOK, Counted, Steps
<1>6. Ordered' /\ InactiveAreDue'
  BY <1>1, <1>4 DEF KInv, Ordered, InactiveAreDue
<1>7. StepKnows' /\ NewIsThere' /\ WritableIsComplete'
  BY <1>1, <1>4 DEF KInv, StepKnows, NewIsThere, WritableIsComplete
<1>8. Tracked' /\ DeleteLeavesRotated' /\ SecretWorks'
  BY <1>1 DEF KInv, Tracked, InHand, DeleteLeavesRotated, SecretWorks, Undisturbed, Never
<1> QED
  BY <1>5, <1>6, <1>7, <1>8 DEF KInv

LEMMA DescribeFailsKeeps ==
    ASSUME KInv, DescribeFails
    PROVE  KInv'
<1>1. Counted /\ events'["lost"] # 0
  BY HappensCounts DEF DescribeFails, Events, KInv
<1>2. ~Undisturbed'
  BY <1>1, Disturbs
<1> QED
  BY <1>1, <1>2, IdleKeeps DEF DescribeFails

\* What Validate writes: nothing expired, and active only what is usable.
LEMMA ValidCopy ==
    ASSUME KInv
    PROVE  /\ Valid(mine) \in Resources
           /\ Valid(mine).phase = base.phase /\ Valid(mine).edits = base.edits
           /\ Valid(mine).binds = mine.binds \ expired
           /\ Valid(mine).active = mine.active \ (due \cup expired)
           /\ Valid(mine).binds \ Valid(mine).active \subseteq due
           /\ Expired(mine) = mine.binds \cap expired
<1>1. mine \in Resources /\ expired \subseteq due /\ mine.binds \ mine.active \subseteq due
      /\ mine.phase = base.phase /\ mine.edits = base.edits
  BY DEF KInv, TypeOK, Ordered, InactiveAreDue
<1>2. Valid(mine) = [mine EXCEPT !.binds = mine.binds \ expired, !.active = {b \in mine.active : Usable(b)}]
  BY DEF Valid
<1>3. {b \in mine.active : Usable(b)} = mine.active \ (due \cup expired)
  BY DEF Usable
<1>4. /\ Valid(mine) \in Resources
      /\ Valid(mine).phase = mine.phase /\ Valid(mine).edits = mine.edits
      /\ Valid(mine).binds = mine.binds \ expired
      /\ Valid(mine).active = mine.active \ (due \cup expired)
  BY <1>1, <1>2, <1>3 DEF Resources
<1> QED
  BY <1>1, <1>4 DEF Expired

LEMMA ValidateKeeps ==
    ASSUME KInv, Validate
    PROVE  KInv'
<1> DEFINE c == Valid(mine)
<1>1. /\ pc = "validate" /\ doomed' = Expired(mine)
      /\ btp' = btp /\ last' = last /\ due' = due /\ expired' = expired /\ secret' = secret
      /\ cache' = cache /\ new' = new
      /\ UpdateStatusWithRetry(c, "purge", "purge")
  BY DEF Validate, service, clocks
<1>2. /\ c \in Resources /\ c.phase = base.phase /\ c.edits = base.edits
      /\ c.binds = mine.binds \ expired /\ c.active = mine.active \ (due \cup expired)
      /\ c.binds \ c.active \subseteq due /\ doomed' = mine.binds \cap expired
  BY <1>1, ValidCopy
<1> HIDE DEF c
<1>3. base.phase # "gone"
  BY <1>1 DEF KInv, NewIsThere, Ordered
<1>4. Undisturbed /\ cr.phase # "gone" => btp \subseteq cr.binds
  BY <1>1 DEF KInv, Tracked, InHand
<1>5. Ids' = Ids /\ Resources' = Resources
  BY <1>1 DEF Ids, Resources
<1>6. base.binds \cap btp \subseteq mine.binds /\ base.active \cap btp \subseteq mine.active
  BY <1>1 DEF KInv, StepKnows
<1>7. base \in Resources /\ mine \in Resources /\ cr \in Resources /\ expired \subseteq due
  BY DEF KInv, TypeOK, Ordered
<1>8. doomed' \subseteq Ids' /\ doomed' \subseteq expired'
  BY <1>1, <1>2, <1>5 DEF KInv, TypeOK
<1>9. CASE StatusRetried /\ UNCHANGED events
  <2>1. base' = cr /\ mine' = cr /\ cr' = cr /\ pc' = "validate" /\ events' = events /\ cr.phase # "gone"
    BY <1>1, <1>9 DEF StatusRetried, Copy
  <2>2. Counted
    BY <2>1, QuietCounts DEF KInv
  <2>3. TypeOK'
    BY <1>1, <1>5, <1>8, <2>1, <2>2 DEF KInv, TypeOK, Counted
  <2>4. Ordered'
    <3>1. cr.edits \in Nat
      BY <1>7 DEF Resources
    <3> QED
      BY <1>1, <1>8, <2>1, <3>1 DEF KInv, Ordered
  <2>5. InactiveAreDue' /\ StepKnows' /\ NewIsThere' /\ WritableIsComplete'
    BY <1>1, <2>1 DEF KInv, InactiveAreDue, StepKnows, NewIsThere, WritableIsComplete
  <2>6. Tracked' /\ DeleteLeavesRotated' /\ SecretWorks'
    BY <1>1, <2>1 DEF KInv, Tracked, InHand, DeleteLeavesRotated, SecretWorks, Undisturbed, Never
  <2> QED
    BY <2>3, <2>4, <2>5, <2>6 DEF KInv
<1>10. CASE ~StatusRetried
  <2>1. /\ mine' = c /\ pc' = "purge" /\ Counted /\ base' \in {base, c}
        /\ \/ base = cr /\ cr.phase # "gone" /\ cr' = c
           \/ cr' = cr /\ base' = base /\ (base = cr => cr.phase # "gone")
    <3>1. CASE StatusWritten(c, "purge") /\ UNCHANGED events
      BY <3>1, QuietCounts DEF StatusWritten, Current, Copy, KInv
    <3>2. CASE StatusGivenUp(c, "purge")
      BY <3>2, <1>3, QuietCounts, HappensCounts DEF StatusGivenUp, Current, Events, KInv
    <3> QED
      BY <1>1, <1>10, <3>1, <3>2 DEF UpdateStatusWithRetry
  <2>2. (Undisturbed' => Undisturbed) /\ (Never({"loss"})' => Never({"loss"}))
    BY <2>1, QuietBefore DEF KInv
  <2>3. TypeOK'
    BY <1>1, <1>2, <1>5, <1>7, <1>8, <2>1 DEF KInv, TypeOK, Counted, Steps
  <2>4. Ordered'
    <3>1. base.edits <= cr.edits /\ cache.edits <= cr.edits /\ base.edits \in Nat /\ base.edits <= base.edits
      BY <1>7 DEF KInv, Ordered, Resources
    <3> QED
      BY <1>1, <1>2, <1>8, <2>1, <3>1 DEF KInv, Ordered
  <2>5. InactiveAreDue'
    BY <1>1, <1>2, <2>1 DEF KInv, InactiveAreDue
  <2>6. base'.active \cap btp' \subseteq mine'.active \cup due'
    BY <1>1, <1>2, <1>6, <1>7, <2>1
  <2>7. StepKnows'
    BY <2>1, <2>6 DEF StepKnows
  <2>8. NewIsThere'
    BY <1>2, <1>3, <2>1 DEF NewIsThere
  <2>9. base = cr /\ Undisturbed => btp \subseteq c.binds \cup doomed'
    BY <1>2, <1>3, <1>4, <1>6
  <2>10. Tracked' /\ WritableIsComplete'
    BY <1>1, <1>3, <1>4, <2>1, <2>2, <2>9 DEF Tracked, InHand, WritableIsComplete
  <2>11. DeleteLeavesRotated' /\ SecretWorks'
    BY <1>1, <1>2, <1>3, <2>1, <2>2 DEF KInv, DeleteLeavesRotated, SecretWorks, Undisturbed
  <2> QED
    BY <2>3, <2>4, <2>5, <2>7, <2>8, <2>10, <2>11 DEF KInv
<1> QED
  BY <1>1, <1>9, <1>10 DEF UpdateStatusWithRetry, StatusWritten, StatusRetried, StatusGivenUp, Current

\* A deletion takes nothing else, and all of it unless something went wrong.
LEMMA DeleteInstancesTakes ==
    ASSUME TypeOK, NEW ids, NEW done, NEW failed, DeleteInstances(ids, done, failed)
    PROVE  /\ btp \ ids \subseteq btp' /\ btp' \subseteq btp /\ Counted
           /\ pc' \in {done, failed}
           /\ base' = base /\ mine' = mine /\ new' = new /\ doomed' = doomed
           /\ btp' = btp \ ids \/ ~Undisturbed'
<1>1. CASE btp' = btp \ ids /\ Goto(done) /\ UNCHANGED events
  BY <1>1, QuietCounts DEF Goto
<1>2. ASSUME NEW b \in ids, btp' = btp \ {a \in ids : a < b}, Goto(failed), Happens("refuse")
      PROVE  /\ btp \ ids \subseteq btp' /\ btp' \subseteq btp /\ Counted
             /\ pc' \in {done, failed}
             /\ base' = base /\ mine' = mine /\ new' = new /\ doomed' = doomed
             /\ ~Undisturbed'
  <2>1. Counted /\ events'["refuse"] # 0
    BY <1>2, HappensCounts DEF Events
  <2> QED
    BY <1>2, <2>1, Disturbs DEF Goto
<1>3. ASSUME NEW b \in ids, btp' = btp \ (ids \ {b}), Goto(done), Happens("cut")
      PROVE  /\ btp \ ids \subseteq btp' /\ btp' \subseteq btp /\ Counted
             /\ pc' \in {done, failed}
             /\ base' = base /\ mine' = mine /\ new' = new /\ doomed' = doomed
             /\ ~Undisturbed'
  <2>1. Counted /\ events'["cut"] # 0
    BY <1>3, HappensCounts DEF Events
  <2> QED
    BY <1>3, <2>1, Disturbs DEF Goto
<1> QED
  BY <1>1, <1>2, <1>3 DEF DeleteInstances

\* Steps that delete: what they take has expired, belongs to a deleted resource or
\* was never published, and what they leave is recorded.
LEMMA DeletionKeeps ==
    ASSUME KInv, NEW ids, NEW done, NEW failed, DeleteInstances(ids, done, failed),
           UNCHANGED <<last, clocks, secret, cr, cache>>,
           secret \in ids => secret \in expired \/ cr.phase # "live",
           InHand \subseteq ids,
           {done, failed} \subseteq {"finalize", "delete", "pending", "settle", "failed"},
           {done, failed} \cap {"delete", "finalize", "settle"} # {} /\ base = cr /\ Undisturbed
               => btp \ ids \subseteq mine.binds,
           "finalize" \in {done, failed} => mine.active = {},
           "pending" \in {done, failed} => mine.active = {} /\ base.active \cap btp \subseteq due,
           "delete" \in {done, failed} => mine.phase = "deleting",
           mine.phase # "gone",
           "failed" \in {done, failed} => cr.phase # "gone"
    PROVE  KInv'
<1>1. /\ btp \ ids \subseteq btp' /\ btp' \subseteq btp /\ Counted /\ pc' \in {done, failed}
      /\ base' = base /\ mine' = mine /\ new' = new /\ doomed' = doomed
      /\ btp' = btp \ ids \/ ~Undisturbed'
  BY DeleteInstancesTakes DEF KInv
<1>2. /\ last' = last /\ due' = due /\ expired' = expired /\ secret' = secret
      /\ cr' = cr /\ cache' = cache
  BY DEF clocks
<1>3. pc' \in {"finalize", "delete", "pending", "settle", "failed"}
  BY <1>1
<1>4. (Undisturbed' => Undisturbed) /\ (Never({"loss"})' => Never({"loss"}))
  BY <1>1, QuietBefore DEF KInv
<1>5. TypeOK'
  <2>1. Ids' = Ids /\ Resources' = Resources
    BY <1>2 DEF Ids, Resources
  <2> QED
    BY <1>1, <1>2, <1>3, <2>1 DEF KInv, TypeOK, Counted, Steps
<1>6. Ordered' /\ InactiveAreDue'
  BY <1>1, <1>2 DEF KInv, Ordered, InactiveAreDue
<1>7. StepKnows'
  BY <1>1, <1>2, <1>3 DEF StepKnows
<1>8. NewIsThere'
  BY <1>1, <1>2, <1>3 DEF NewIsThere
<1>9. Tracked'
  BY <1>1, <1>2, <1>3, <1>4 DEF KInv, Tracked, InHand
<1>10. WritableIsComplete'
  BY <1>1, <1>2, <1>3, <1>4 DEF WritableIsComplete
<1>11. DeleteLeavesRotated' /\ SecretWorks'
  BY <1>1, <1>2, <1>4 DEF KInv, DeleteLeavesRotated, SecretWorks, Undisturbed
<1> QED
  BY <1>5, <1>6, <1>7, <1>8, <1>9, <1>10, <1>11 DEF KInv

LEMMA PurgeKeeps ==
    ASSUME KInv, Purge
    PROVE  KInv'
<1>1. pc = "purge" /\ DeleteInstances(doomed, Verdict, Verdict) /\ UNCHANGED <<last, clocks, secret, cr, cache>>
  BY DEF Purge
<1>2. InHand = doomed /\ doomed \subseteq expired /\ mine.phase # "gone"
  BY <1>1 DEF KInv, InHand, Ordered, NewIsThere
<1>3. base.active \cap btp \subseteq mine.active \cup due
  BY <1>1 DEF KInv, StepKnows
<1>4. base = cr /\ Undisturbed => btp \ doomed \subseteq mine.binds
  BY <1>1 DEF KInv, WritableIsComplete
<1>5. /\ Verdict \in {"finalize", "delete", "pending", "settle"}
      /\ Verdict \in {"finalize", "pending"} => mine.active = {}
      /\ Verdict = "delete" => mine.phase = "deleting"
  BY DEF Verdict
<1> QED
  BY <1>1, <1>2, <1>3, <1>4, <1>5, DeletionKeeps

LEMMA SettleKeeps ==
    ASSUME KInv, Settle
    PROVE  KInv'
<1>1. /\ pc = "settle" /\ cr' = (IF Current THEN mine ELSE cr) /\ Idle
      /\ UNCHANGED <<service, clocks, secret, cache, events>>
  BY DEF Settle
<1>2. Counted /\ InHand = {}
  BY <1>1, QuietCounts DEF KInv, InHand
<1>3. CASE ~Current
  BY <1>1, <1>2, <1>3, IdleKeeps
<1>4. CASE Current
  <2>1. /\ pc' = "idle" /\ base' = NewResource /\ mine' = NewResource /\ new' = None /\ doomed' = {}
        /\ btp' = btp /\ last' = last /\ due' = due /\ expired' = expired /\ secret' = secret
        /\ cr' = mine /\ cache' = cache /\ events' = events /\ base = cr
    BY <1>1, <1>4 DEF Idle, Copy, service, clocks, Current
  <2>2. Undisturbed => btp \subseteq mine.binds
    BY <1>1, <2>1 DEF KInv, WritableIsComplete
  <2>3. mine.phase # "gone" /\ mine.phase = cr.phase /\ mine.edits = cr.edits /\ mine.edits \in Nat /\ 0 <= mine.edits
    <3>1. mine.edits \in Nat
      BY DEF KInv, TypeOK, Resources
    <3> QED
      BY <1>1, <2>1, <3>1 DEF KInv, Ordered, NewIsThere
  <2>4. TypeOK'
    <3>1. Ids' = Ids /\ Resources' = Resources
      BY <2>1 DEF Ids, Resources
    <3> QED
      BY <1>2, <2>1, <3>1, NewResourceTyped DEF KInv, TypeOK, Counted, Steps
  <2>5. Ordered' /\ InactiveAreDue'
    BY <2>1, <2>3, NewResourceTyped DEF KInv, Ordered, InactiveAreDue
  <2>6. StepKnows' /\ NewIsThere' /\ WritableIsComplete'
    BY <2>1 DEF StepKnows, NewIsThere, WritableIsComplete
  <2>7. Tracked' /\ DeleteLeavesRotated' /\ SecretWorks'
    BY <2>1, <2>2, <2>3 DEF KInv, Tracked, InHand, DeleteLeavesRotated, SecretWorks, Undisturbed, Never
  <2> QED
    BY <2>4, <2>5, <2>6, <2>7 DEF KInv
<1> QED
  BY <1>3, <1>4

-----------------------------------------------------------------------------
(* Create.                                                                 *)

LEMMA RecordPendingKeeps ==
    ASSUME KInv, RecordPending
    PROVE  KInv'
<1> DEFINE c == [base EXCEPT !.incomplete = TRUE]
<1>1. /\ pc = "pending" /\ Update(c, "create")
      /\ UNCHANGED <<service, clocks, secret, cache, events>>
  BY DEF RecordPending
<1>2. Counted /\ InHand = {}
  BY <1>1, QuietCounts DEF KInv, InHand
<1>3. CASE ~Current
  BY <1>1, <1>2, <1>3, IdleKeeps DEF Update
<1>4. CASE Current
  <2>1. /\ pc' = "create" /\ base' = c /\ mine' = c /\ cr' = c /\ new' = new /\ doomed' = doomed
        /\ btp' = btp /\ last' = last /\ due' = due /\ expired' = expired /\ secret' = secret
        /\ cache' = cache /\ events' = events /\ base = cr /\ cr.phase # "gone"
    BY <1>1, <1>4 DEF Update, Copy, service, clocks, Current
  <2>2. /\ c \in Resources /\ c.phase = base.phase /\ c.edits = base.edits
        /\ c.binds = base.binds /\ c.active = base.active /\ base.edits \in Nat /\ base.edits <= base.edits
    <3>1. base \in Resources
      BY DEF KInv, TypeOK
    <3>2. c \in Resources
      BY <3>1 DEF Resources
    <3>3. c.phase = base.phase /\ c.edits = base.edits /\ c.binds = base.binds /\ c.active = base.active
      BY <3>1 DEF Resources
    <3>4. base.edits \in Nat
      BY <3>1 DEF Resources
    <3> QED
      BY <3>2, <3>3, <3>4
  <2> HIDE DEF c
  <2>3. base.active \cap btp \subseteq due
    BY <1>1 DEF KInv, StepKnows
  <2>4. TypeOK'
    <3>1. Ids' = Ids /\ Resources' = Resources
      BY <2>1 DEF Ids, Resources
    <3> QED
      BY <1>2, <2>1, <2>2, <3>1 DEF KInv, TypeOK, Counted, Steps
  <2>5. Ordered' /\ InactiveAreDue'
    BY <2>1, <2>2 DEF KInv, Ordered, InactiveAreDue
  <2>6. StepKnows' /\ NewIsThere' /\ WritableIsComplete'
    BY <2>1, <2>2, <2>3 DEF StepKnows, NewIsThere, WritableIsComplete
  <2>7. Tracked' /\ DeleteLeavesRotated' /\ SecretWorks'
    BY <1>1, <2>1, <2>2 DEF KInv, Tracked, InHand, DeleteLeavesRotated, SecretWorks, Undisturbed, Never
  <2> QED
    BY <2>4, <2>5, <2>6, <2>7 DEF KInv
<1> QED
  BY <1>3, <1>4

\* A binding made by a call that answered is the newest; another, or none, may
\* have been made by a call that did not.
LEMMA CreateInstanceKeeps ==
    ASSUME KInv, CreateInstance
    PROVE  KInv'
<1>1. /\ pc = "create" /\ base' = base /\ mine' = mine /\ doomed' = doomed
      /\ due' = due /\ expired' = expired /\ secret' = secret /\ cr' = cr /\ cache' = cache
  BY DEF CreateInstance, Goto, copies, clocks
<1>2. /\ Counted /\ btp \subseteq btp'
      /\ \/ last' = last /\ btp' = btp
         \/ last' = last + 1 /\ btp' = btp \cup {last + 1} /\ last # MaxBindings
      /\ \/ pc' = "append" /\ new' = last + 1 /\ last' = last + 1 /\ btp' = btp \cup {last + 1}
         \/ pc' = "failed" /\ new' = new /\ (btp' = btp \/ ~Undisturbed')
  <2>1. CASE last = MaxBindings /\ Goto("failed") /\ UNCHANGED <<service, events>>
    BY <2>1, QuietCounts DEF Goto, service, KInv
  <2>2. CASE /\ last # MaxBindings
             /\ btp' = btp \cup {last + 1} /\ last' = last + 1 /\ new' = last + 1
             /\ pc' = "append" /\ UNCHANGED <<copies, doomed, events>>
    BY <2>2, QuietCounts DEF KInv
  <2>3. CASE /\ last # MaxBindings /\ Happens("lost") /\ Goto("failed")
             /\ UNCHANGED service \/ (btp' = btp \cup {last + 1} /\ last' = last + 1)
    <3>1. Counted /\ ~Undisturbed'
      BY <2>3, HappensCounts, Disturbs DEF KInv, Events
    <3> QED
      BY <2>3, <3>1 DEF Goto, service
  <2> QED
    BY <2>1, <2>2, <2>3 DEF CreateInstance
<1>3. (Undisturbed' => Undisturbed) /\ (Never({"loss"})' => Never({"loss"}))
  BY <1>2, QuietBefore DEF KInv
<1>4. /\ last \in 0 .. MaxBindings /\ MaxBindings \in Nat /\ last \in Nat
      /\ last' \in 0 .. MaxBindings /\ last' \in Nat /\ last <= last' /\ last + 1 \in Nat
  BY <1>2, ConstantsAssumption DEF KInv, TypeOK, ConstantsAssumption
<1>5. Ids \subseteq Ids' /\ Resources \subseteq Resources' /\ new' \in Ids' \cup {None} /\ btp' \subseteq Ids'
  <2>1. Ids \subseteq Ids' /\ Resources \subseteq Resources'
    BY <1>4, Grown
  <2>2. last' = last + 1 => last + 1 \in Ids'
    BY <1>4 DEF Ids
  <2> QED
    BY <1>2, <2>1, <2>2 DEF KInv, TypeOK
<1>6. TypeOK'
  BY <1>1, <1>2, <1>4, <1>5 DEF KInv, TypeOK, Counted, Steps
<1>7. Ordered' /\ InactiveAreDue'
  BY <1>1 DEF KInv, Ordered, InactiveAreDue
<1>8. StepKnows' /\ WritableIsComplete'
  BY <1>1, <1>2 DEF KInv, StepKnows, WritableIsComplete
<1>9. NewIsThere'
  <2>1. secret # last + 1
    BY <1>4 DEF KInv, TypeOK, Ids, None
  <2>2. last' = last + 1 => last + 1 \in 1 .. last'
    BY <1>4
  <2> QED
    BY <1>1, <1>2, <2>1, <2>2 DEF KInv, NewIsThere
<1>10. Tracked'
  BY <1>1, <1>2, <1>3 DEF KInv, Tracked, InHand
<1>11. DeleteLeavesRotated' /\ SecretWorks'
  BY <1>1, <1>2, <1>3 DEF KInv, DeleteLeavesRotated, SecretWorks, Undisturbed, NewIsThere
<1> QED
  BY <1>6, <1>7, <1>8, <1>9, <1>10, <1>11 DEF KInv

LEMMA AppendNewKeeps ==
    ASSUME KInv, AppendNew
    PROVE  KInv'
<1> DEFINE c == WithNew
<1>1. /\ pc = "append" /\ UpdateStatusWithRetry(c, "created", "rollback")
      /\ btp' = btp /\ last' = last /\ due' = due /\ expired' = expired /\ secret' = secret
      /\ cache' = cache /\ new' = new /\ doomed' = doomed
  BY DEF AppendNew, service, clocks
<1>2. /\ new \in Ids /\ secret # new /\ mine.binds = base.binds /\ mine.phase # "gone" /\ cr.phase # "gone"
      /\ mine.phase = base.phase /\ mine.edits = base.edits /\ InHand = {new}
      /\ Never({"loss"}) => new \in btp
  BY <1>1 DEF KInv, NewIsThere, StepKnows, Ordered, InHand, Ids
<1>3. /\ c \in Resources /\ c.phase = mine.phase /\ c.edits = mine.edits
      /\ c.binds = mine.binds \cup {new} /\ c.active = mine.active \cup {new}
  <2>1. mine \in Resources
    BY DEF KInv, TypeOK
  <2> QED
    BY <1>2, <2>1 DEF WithNew, Resources
<1> HIDE DEF c
<1>4. Ids' = Ids /\ Resources' = Resources
  BY <1>1 DEF Ids, Resources
<1>5. /\ Counted
      /\ \/ pc' = "append" /\ base' = cr /\ mine' = cr /\ cr' = cr
         \/ pc' = "created" /\ base = cr /\ cr' = c /\ base' = c /\ mine' = c
         \/ pc' = "rollback" /\ base' = base /\ mine' = c /\ (cr' = cr \/ (cr' = c /\ base = cr))
  <2>1. CASE StatusWritten(c, "created") /\ UNCHANGED events
    BY <2>1, QuietCounts DEF StatusWritten, Current, Copy, KInv
  <2>2. CASE StatusRetried /\ UNCHANGED events
    BY <1>1, <2>2, QuietCounts DEF StatusRetried, Current, Copy, KInv
  <2>3. CASE StatusGivenUp(c, "rollback")
    <3>1. Counted
      BY <2>3, QuietCounts, HappensCounts DEF StatusGivenUp, Events, KInv
    <3> QED
      BY <2>3, <3>1, <1>2 DEF StatusGivenUp, Current
  <2> QED
    BY <1>1, <2>1, <2>2, <2>3 DEF UpdateStatusWithRetry
<1>6. (Undisturbed' => Undisturbed) /\ (Never({"loss"})' => Never({"loss"}))
  BY <1>5, QuietBefore DEF KInv
<1>7. TypeOK'
  BY <1>1, <1>3, <1>4, <1>5 DEF KInv, TypeOK, Counted, Steps
<1>8. Ordered'
  <2>1. cr.edits \in Nat /\ cr.edits <= cr.edits /\ base.edits \in Nat /\ base.edits <= base.edits
    BY DEF KInv, TypeOK, Resources
  <2> QED
    BY <1>1, <1>2, <1>3, <1>5, <2>1 DEF KInv, Ordered
<1>9. InactiveAreDue'
  BY <1>1, <1>3, <1>5 DEF KInv, InactiveAreDue
<1>10. StepKnows' /\ NewIsThere' /\ WritableIsComplete'
  BY <1>1, <1>2, <1>3, <1>5, <1>6 DEF StepKnows, NewIsThere, WritableIsComplete, Ids
<1>11. Tracked'
  BY <1>1, <1>2, <1>3, <1>5, <1>6 DEF KInv, Tracked, InHand
<1>12. DeleteLeavesRotated' /\ SecretWorks'
  BY <1>1, <1>2, <1>3, <1>5, <1>6 DEF KInv, DeleteLeavesRotated, SecretWorks, Undisturbed, Ordered
<1> QED
  BY <1>7, <1>8, <1>9, <1>10, <1>11, <1>12 DEF KInv

LEMMA RollbackKeeps ==
    ASSUME KInv, Rollback
    PROVE  KInv'
<1>1. /\ pc = "rollback" /\ DeleteInstances({new}, "failed", "failed")
      /\ UNCHANGED <<last, clocks, secret, cr, cache>>
  BY DEF Rollback
<1>2. InHand = {new} /\ secret # new /\ mine.phase # "gone" /\ cr.phase # "gone"
  BY <1>1 DEF KInv, InHand, NewIsThere
<1> QED
  BY <1>1, <1>2, DeletionKeeps

LEMMA RecordResultKeeps ==
    ASSUME KInv, RecordResult
    PROVE  KInv'
<1> DEFINE c == [cr EXCEPT !.incomplete = FALSE]
<1>1. /\ pc \in {"created", "failed"} /\ cr' = c
      /\ btp' = btp /\ last' = last /\ due' = due /\ expired' = expired /\ secret' = secret
      /\ cache' = cache /\ events' = events
      /\ \/ /\ pc = "created" /\ pc' = "publish"
            /\ base' = base /\ mine' = mine /\ new' = new /\ doomed' = doomed
         \/ /\ pc' = "idle" /\ base' = NewResource /\ mine' = NewResource /\ new' = None /\ doomed' = {}
  BY DEF RecordResult, service, clocks, Goto, Idle, Copy
<1>2. cr \in Resources /\ cr.edits \in Nat /\ 0 <= cr.edits
  <2>1. cr \in Resources
    BY DEF KInv, TypeOK
  <2>2. cr.edits \in Nat
    BY <2>1 DEF Resources
  <2> QED
    BY <2>1, <2>2
<1>3. c \in Resources
  BY <1>2 DEF Resources
<1>4. c.phase = cr.phase /\ c.edits = cr.edits /\ c.binds = cr.binds /\ c.active = cr.active
  BY <1>2 DEF Resources
<1> HIDE DEF c
<1>5. InHand = {} /\ InHand' = {}
  BY <1>1 DEF InHand
<1>6. TypeOK'
  <2>1. Ids' = Ids /\ Resources' = Resources
    BY <1>1 DEF Ids, Resources
  <2> QED
    BY <1>1, <1>3, <2>1, NewResourceTyped DEF KInv, TypeOK, Steps
<1>7. Ordered' /\ InactiveAreDue'
  BY <1>1, <1>2, <1>4, NewResourceTyped DEF KInv, Ordered, InactiveAreDue
<1>8. StepKnows' /\ NewIsThere' /\ WritableIsComplete'
  BY <1>1, <1>4 DEF KInv, StepKnows, NewIsThere, WritableIsComplete, Never
<1>9. Tracked' /\ DeleteLeavesRotated' /\ SecretWorks'
  BY <1>1, <1>4, <1>5 DEF KInv, Tracked, DeleteLeavesRotated, SecretWorks, Undisturbed, Never
<1> QED
  BY <1>6, <1>7, <1>8, <1>9 DEF KInv

LEMMA PublishConnectionKeeps ==
    ASSUME KInv, PublishConnection
    PROVE  KInv'
<1>1. /\ pc = "publish" /\ secret' \in {new, secret}
      /\ pc' = "idle" /\ base' = NewResource /\ mine' = NewResource /\ new' = None /\ doomed' = {}
      /\ btp' = btp /\ last' = last /\ due' = due /\ expired' = expired
      /\ cr' = cr /\ cache' = cache
  BY DEF PublishConnection, Idle, Copy, service, clocks
<1>2. Counted
  BY HappensCounts, QuietCounts DEF PublishConnection, Events, KInv
<1>3. (Undisturbed' => Undisturbed) /\ (Never({"loss"})' => Never({"loss"}))
  BY <1>2, QuietBefore DEF KInv
<1>4. new \in Ids /\ (Never({"loss"}) => new \in btp)
  BY <1>1 DEF KInv, NewIsThere, Ids
<1>5. TypeOK'
  <2>1. Ids' = Ids /\ Resources' = Resources
    BY <1>1 DEF Ids, Resources
  <2> QED
    BY <1>1, <1>2, <1>4, <2>1, NewResourceTyped DEF KInv, TypeOK, Counted, Steps
<1>6. Ordered' /\ InactiveAreDue'
  <2>1. cr.edits \in Nat
    BY DEF KInv, TypeOK, Resources
  <2>2. 0 <= cr.edits
    BY <2>1
  <2> QED
    BY <1>1, <2>2, NewResourceTyped DEF KInv, Ordered, InactiveAreDue
<1>7. StepKnows' /\ NewIsThere' /\ WritableIsComplete'
  BY <1>1 DEF StepKnows, NewIsThere, WritableIsComplete
<1>8. Tracked' /\ DeleteLeavesRotated' /\ SecretWorks'
  BY <1>1, <1>3, <1>4 DEF KInv, Tracked, InHand, DeleteLeavesRotated, SecretWorks, Undisturbed
<1> QED
  BY <1>5, <1>6, <1>7, <1>8 DEF KInv

-----------------------------------------------------------------------------
(* Delete.                                                                 *)

LEMMA DeleteKeeps ==
    ASSUME KInv, Delete
    PROVE  KInv'
<1>1. /\ pc = "delete" /\ DeleteInstances(mine.binds, "settle", "settle")
      /\ UNCHANGED <<last, clocks, secret, cr, cache>>
  BY DEF Delete
<1>2. InHand = {} /\ mine.phase # "gone" /\ cr.phase # "live"
  BY <1>1 DEF KInv, InHand, NewIsThere, StepKnows, Ordered
<1>3. base = cr /\ Undisturbed => btp \subseteq mine.binds
  BY <1>1 DEF KInv, WritableIsComplete
<1> QED
  BY <1>1, <1>2, <1>3, DeletionKeeps

LEMMA FinalizeKeeps ==
    ASSUME KInv, Finalize
    PROVE  KInv'
<1> DEFINE c == [mine EXCEPT !.phase = "gone"]
<1>1. /\ pc = "finalize" /\ cr' = (IF Current THEN c ELSE cr) /\ Idle
      /\ UNCHANGED <<service, clocks, secret, cache, events>>
  BY DEF Finalize
<1>2. Counted /\ InHand = {}
  BY <1>1, QuietCounts DEF KInv, InHand
<1>3. CASE ~Current
  BY <1>1, <1>2, <1>3, IdleKeeps
<1>4. CASE Current
  <2>1. /\ pc' = "idle" /\ base' = NewResource /\ mine' = NewResource /\ new' = None /\ doomed' = {}
        /\ btp' = btp /\ last' = last /\ due' = due /\ expired' = expired /\ secret' = secret
        /\ cr' = c /\ cache' = cache /\ events' = events /\ base = cr
    BY <1>1, <1>4 DEF Idle, Copy, service, clocks, Current
  <2>2. mine \in Resources
    BY DEF KInv, TypeOK
  <2>3. c \in Resources
    BY <2>2 DEF Resources
  <2>4. c.phase = "gone" /\ c.edits = mine.edits /\ c.binds = mine.binds /\ c.active = mine.active
    BY <2>2 DEF Resources
  <2> HIDE DEF c
  <2>5. mine.edits \in Nat /\ mine.edits = cr.edits
    BY <2>1, <2>2 DEF KInv, Ordered, Resources
  <2>6. Undisturbed => btp \subseteq due
    BY <1>1, <2>1 DEF KInv, WritableIsComplete, StepKnows, InactiveAreDue
  <2>7. TypeOK'
    <3>1. Ids' = Ids /\ Resources' = Resources
      BY <2>1 DEF Ids, Resources
    <3> QED
      BY <1>2, <2>1, <2>3, <3>1, NewResourceTyped DEF KInv, TypeOK, Counted, Steps
  <2>8. Ordered'
    <3>1. 0 <= mine.edits
      BY <2>5
    <3> QED
      BY <2>1, <2>4, <2>5, <3>1, NewResourceTyped DEF KInv, Ordered
  <2>9. InactiveAreDue' /\ StepKnows' /\ NewIsThere' /\ WritableIsComplete'
    BY <2>1, <2>4, NewResourceTyped DEF KInv, InactiveAreDue, StepKnows, NewIsThere, WritableIsComplete
  <2>10. Tracked' /\ DeleteLeavesRotated' /\ SecretWorks'
    BY <2>1, <2>4, <2>6 DEF Tracked, DeleteLeavesRotated, SecretWorks, Undisturbed, Never
  <2> QED
    BY <2>7, <2>8, <2>9, <2>10 DEF KInv
<1> QED
  BY <1>3, <1>4

-----------------------------------------------------------------------------
(* Time, users, somebody else, failures.                                   *)

LEMMA TimePassesKeeps ==
    ASSUME KInv, TimePasses
    PROVE  KInv'
<1>1. /\ due \subseteq due' /\ expired \subseteq expired' /\ due' \subseteq due \cup btp
      /\ expired' \subseteq expired \cup btp /\ expired' \subseteq due'
      /\ btp' = btp /\ last' = last /\ secret' = secret /\ cr' = cr /\ cache' = cache
      /\ base' = base /\ mine' = mine /\ new' = new /\ doomed' = doomed /\ pc' = pc /\ events' = events
  BY DEF TimePasses, Oldest, service, copies, KInv, Ordered
<1>2. TypeOK'
  <2>1. Ids' = Ids /\ Resources' = Resources
    BY <1>1 DEF Ids, Resources
  <2> QED
    BY <1>1, <2>1 DEF KInv, TypeOK
<1>3. Ordered' /\ InactiveAreDue'
  BY <1>1 DEF KInv, Ordered, InactiveAreDue
<1>4. StepKnows' /\ NewIsThere' /\ WritableIsComplete'
  BY <1>1 DEF KInv, StepKnows, NewIsThere, WritableIsComplete, Undisturbed, Never
<1>5. Tracked' /\ DeleteLeavesRotated' /\ SecretWorks'
  BY <1>1 DEF KInv, Tracked, InHand, DeleteLeavesRotated, SecretWorks, Undisturbed, Never
<1> QED
  BY <1>2, <1>3, <1>4, <1>5 DEF KInv

\* An edit or a deletion by the user outdates the copy of a reconcile.
LEMMA UserKeeps ==
    ASSUME KInv, UserEdits \/ UserDeletes
    PROVE  KInv'
<1>1. /\ btp' = btp /\ last' = last /\ due' = due /\ expired' = expired /\ secret' = secret
      /\ cache' = cache /\ base' = base /\ mine' = mine /\ new' = new /\ doomed' = doomed /\ pc' = pc
      /\ cr.phase = "live"
      /\ \/ cr' = [cr EXCEPT !.edits = cr.edits + 1]
         \/ cr' = [cr EXCEPT !.phase = "deleting"]
  BY DEF UserEdits, UserDeletes, service, clocks, copies
<1>2. Counted
  BY QuietCounts, HappensCounts DEF UserEdits, UserDeletes, Events, KInv
<1>3. (Undisturbed' => Undisturbed) /\ (Never({"loss"})' => Never({"loss"}))
  BY <1>2, QuietBefore DEF KInv
<1>4. cr \in Resources /\ base \in Resources
  BY DEF KInv, TypeOK
<1>5. cr.edits \in Nat /\ cr.edits + 1 \in Nat /\ base.edits \in Nat
  <2>1. cr.edits \in Nat /\ base.edits \in Nat
    BY <1>4 DEF Resources
  <2> QED
    BY <2>1
<1>6. /\ cr' \in Resources /\ cr'.binds = cr.binds /\ cr'.active = cr.active
      /\ cr'.phase # "gone" /\ cr'.edits \in {cr.edits, cr.edits + 1}
      /\ cr'.phase = "live" => cr'.edits = cr.edits + 1
  <2>1. CASE cr' = [cr EXCEPT !.edits = cr.edits + 1]
    BY <1>1, <1>4, <1>5, <2>1 DEF Resources
  <2>2. CASE cr' = [cr EXCEPT !.phase = "deleting"]
    BY <1>4, <2>2 DEF Resources
  <2> QED
    BY <1>1, <2>1, <2>2
<1>7. base # cr'
  <2>1. base.phase = "live" /\ base.edits <= cr.edits
    BY <1>1 DEF KInv, Ordered
  <2>2. base.edits # cr.edits + 1
    BY <1>5, <2>1
  <2> QED
    BY <1>6, <2>1, <2>2
<1>8. TypeOK'
  <2>1. Ids' = Ids /\ Resources' = Resources
    BY <1>1 DEF Ids, Resources
  <2> QED
    BY <1>1, <1>2, <1>6, <2>1 DEF KInv, TypeOK, Counted
<1>9. Ordered'
  <2>1. cache.edits \in Nat
    BY DEF KInv, TypeOK, Resources
  <2>2. base.edits <= cr.edits /\ cache.edits <= cr.edits
    BY DEF KInv, Ordered
  <2>3. base.edits <= cr'.edits /\ cache.edits <= cr'.edits
    BY <1>5, <1>6, <2>1, <2>2
  <2> QED
    BY <1>1, <1>6, <2>3 DEF KInv, Ordered
<1>10. InactiveAreDue' /\ StepKnows' /\ NewIsThere' /\ WritableIsComplete'
  BY <1>1, <1>3, <1>6, <1>7 DEF KInv, InactiveAreDue, StepKnows, NewIsThere, WritableIsComplete
<1>11. Tracked' /\ DeleteLeavesRotated' /\ SecretWorks'
  BY <1>1, <1>3, <1>6 DEF KInv, Tracked, InHand, DeleteLeavesRotated, SecretWorks
<1> QED
  BY <1>8, <1>9, <1>10, <1>11 DEF KInv

LEMMA UserClearsIncompleteKeeps ==
    ASSUME KInv, UserClearsIncomplete
    PROVE  KInv'
<1> DEFINE c == [cr EXCEPT !.incomplete = FALSE]
<1>1. /\ btp' = btp /\ last' = last /\ due' = due /\ expired' = expired /\ secret' = secret
      /\ cache' = cache /\ base' = base /\ mine' = mine /\ new' = new /\ doomed' = doomed /\ pc' = pc
      /\ pc = "idle" /\ cr' = c
  BY DEF UserClearsIncomplete, service, clocks, copies
<1>2. Counted
  BY HappensCounts DEF UserClearsIncomplete, Events, KInv
<1>3. (Undisturbed' => Undisturbed) /\ (Never({"loss"})' => Never({"loss"}))
  BY <1>2, QuietBefore DEF KInv
<1>4. cr \in Resources
  BY DEF KInv, TypeOK
<1>5. c \in Resources
  BY <1>4 DEF Resources
<1>6. c.phase = cr.phase /\ c.edits = cr.edits /\ c.binds = cr.binds /\ c.active = cr.active
  BY <1>4 DEF Resources
<1> HIDE DEF c
<1>7. TypeOK'
  <2>1. Ids' = Ids /\ Resources' = Resources
    BY <1>1 DEF Ids, Resources
  <2> QED
    BY <1>1, <1>2, <1>5, <2>1 DEF KInv, TypeOK, Counted
<1>8. Ordered' /\ InactiveAreDue'
  BY <1>1, <1>6 DEF KInv, Ordered, InactiveAreDue
<1>9. StepKnows' /\ NewIsThere' /\ WritableIsComplete'
  BY <1>1 DEF StepKnows, NewIsThere, WritableIsComplete
<1>10. Tracked' /\ DeleteLeavesRotated' /\ SecretWorks'
  BY <1>1, <1>3, <1>6 DEF KInv, Tracked, InHand, DeleteLeavesRotated, SecretWorks, Undisturbed
<1> QED
  BY <1>7, <1>8, <1>9, <1>10 DEF KInv

LEMMA LostInBTPKeeps ==
    ASSUME KInv, LostInBTP
    PROVE  KInv'
<1>1. /\ btp' \subseteq btp /\ last' = last /\ due' = due /\ expired' = expired /\ secret' = secret
      /\ cr' = cr /\ cache' = cache /\ base' = base /\ mine' = mine
      /\ new' = new /\ doomed' = doomed /\ pc' = pc
  BY DEF LostInBTP, clocks, copies
<1>2. Counted /\ events'["loss"] # 0
  BY HappensCounts DEF LostInBTP, Events, KInv
<1>3. (Undisturbed' => Undisturbed) /\ ~Never({"loss"})'
  BY <1>2, QuietBefore DEF KInv, Never
<1>4. TypeOK'
  <2>1. Ids' = Ids /\ Resources' = Resources
    BY <1>1 DEF Ids, Resources
  <2> QED
    BY <1>1, <1>2, <2>1 DEF KInv, TypeOK, Counted
<1>5. Ordered' /\ InactiveAreDue'
  BY <1>1 DEF KInv, Ordered, InactiveAreDue
<1>6. StepKnows' /\ NewIsThere' /\ WritableIsComplete'
  BY <1>1, <1>3 DEF KInv, StepKnows, NewIsThere, WritableIsComplete
<1>7. Tracked' /\ DeleteLeavesRotated' /\ SecretWorks'
  BY <1>1, <1>3 DEF KInv, Tracked, InHand, DeleteLeavesRotated, SecretWorks, Undisturbed
<1> QED
  BY <1>4, <1>5, <1>6, <1>7 DEF KInv

LEMMA WriteFailsKeeps ==
    ASSUME KInv, WriteFails
    PROVE  KInv'
<1>1. Counted
  BY HappensCounts DEF WriteFails, Events, KInv
<1>2. InHand = {}
  BY DEF WriteFails, InHand
<1> QED
  BY <1>1, <1>2, IdleKeeps DEF WriteFails

LEMMA RestartKeeps ==
    ASSUME KInv, Restart
    PROVE  KInv'
<1>1. Counted /\ events'["restart"] # 0
  BY HappensCounts DEF Restart, Events, KInv
<1>2. ~Undisturbed'
  BY <1>1, Disturbs
<1> QED
  BY <1>1, <1>2, IdleKeeps DEF Restart

-----------------------------------------------------------------------------
(* The theorems.                                                           *)

LEMMA InitHolds == Init => KInv
<1> SUFFICES ASSUME Init PROVE KInv
  OBVIOUS
<1>1. TypeOK
  <2>1. 0 \in 0 .. MaxBindings
    BY ConstantsAssumption DEF ConstantsAssumption
  <2> QED
    BY <2>1, NewResourceTyped DEF Init, TypeOK, Steps
<1>2. Ordered /\ InactiveAreDue /\ StepKnows /\ NewIsThere
  BY NewResourceTyped DEF Init, Ordered, InactiveAreDue, StepKnows, NewIsThere
<1>3. Tracked /\ WritableIsComplete /\ DeleteLeavesRotated /\ SecretWorks
  BY NewResourceTyped DEF Init, Tracked, WritableIsComplete, DeleteLeavesRotated, SecretWorks
<1> QED
  BY <1>1, <1>2, <1>3 DEF KInv

LEMMA StutterKeeps ==
    ASSUME KInv, UNCHANGED vars
    PROVE  KInv'
<1>1. /\ btp' = btp /\ last' = last /\ due' = due /\ expired' = expired /\ secret' = secret
      /\ cr' = cr /\ cache' = cache /\ base' = base /\ mine' = mine
      /\ new' = new /\ doomed' = doomed /\ pc' = pc /\ events' = events
  BY DEF vars
<1> QED
  BY <1>1 DEF KInv, TypeOK, Ids, Resources, Ordered, InactiveAreDue, StepKnows, NewIsThere, Tracked, InHand,
              WritableIsComplete, DeleteLeavesRotated, SecretWorks, Undisturbed, Never

LEMMA NextKeeps == KInv /\ [Next]_vars => KInv'
<1> SUFFICES ASSUME KInv, [Next]_vars PROVE KInv'
  OBVIOUS
<1>1. CASE Reconcile
  BY <1>1, ConnectKeeps, DescribeKeeps, ValidateKeeps, PurgeKeeps, SettleKeeps, RecordPendingKeeps,
     CreateInstanceKeeps, AppendNewKeeps, RollbackKeeps, RecordResultKeeps, PublishConnectionKeeps,
     DeleteKeeps, FinalizeKeeps DEF Reconcile
<1>2. CASE DescribeFails \/ WriteFails \/ Restart
  BY <1>2, DescribeFailsKeeps, WriteFailsKeeps, RestartKeeps
<1>3. CASE TimePasses \/ UserEdits \/ UserDeletes \/ UserClearsIncomplete \/ LostInBTP
  BY <1>3, TimePassesKeeps, UserKeeps, UserClearsIncompleteKeeps, LostInBTPKeeps
<1>4. CASE UNCHANGED vars
  BY <1>4, StutterKeeps
<1> QED
  BY <1>1, <1>2, <1>3, <1>4 DEF Next

THEOREM Invariance == Spec => []KInv
BY InitHolds, NextKeeps, PTL DEF Spec

\* Every variable keeps its type, whatever the bounds.
THEOREM TypeCorrect == Spec => []TypeOK
<1>1. KInv => TypeOK
  BY DEF KInv
<1> QED
  BY <1>1, Invariance, PTL

\* Without a lost answer, a crash or a refused or broken deletion, every binding in
\* BTP is in the status or in the hands of a reconcile: in particular a status that
\* could not be written never loses one.
THEOREM BindingsAreTracked == Spec => []EveryBindingIsTracked
<1>1. KInv => EveryBindingIsTracked
  BY DEF KInv, Tracked, InHand, EveryBindingIsTracked, Undisturbed
<1> QED
  BY <1>1, Invariance, PTL

\* With the same exceptions, only bindings past their rotation outlive the resource.
THEOREM OnlyRotatedAreLeft == Spec => []DeleteLeavesRotated
<1>1. KInv => DeleteLeavesRotated
  BY DEF KInv
<1> QED
  BY <1>1, Invariance, PTL

\* No step takes the binding of the connection secret before it expires, unless
\* somebody deletes it or the resource.
THEOREM TheSecretWorks == Spec => []SecretWorks
<1>1. KInv => SecretWorks
  BY DEF KInv
<1> QED
  BY <1>1, Invariance, PTL

\* Only Create makes bindings, and only when no recorded one is usable.
LEMMA OnlyCreateMakes ==
    ASSUME KInv, [Next]_vars, btp' \ btp # {}
    PROVE  pc = "create"
<1>1. ~UNCHANGED btp
  OBVIOUS
<1>2. ASSUME NEW ids, NEW done, NEW failed, DeleteInstances(ids, done, failed) PROVE FALSE
  BY <1>2, DeleteInstancesTakes DEF KInv
<1>3. CASE Reconcile
  BY <1>1, <1>2, <1>3 DEF Reconcile, Connect, Describe, Validate, Purge, Settle, RecordPending, CreateInstance,
     AppendNew, Rollback, RecordResult, PublishConnection, Delete, Finalize, service
<1>4. CASE LostInBTP
  BY <1>4 DEF LostInBTP
<1>5. CASE DescribeFails \/ WriteFails \/ Restart \/ TimePasses \/ UserEdits \/ UserDeletes
           \/ UserClearsIncomplete \/ UNCHANGED vars
  BY <1>1, <1>5 DEF DescribeFails, WriteFails, Restart, TimePasses, UserEdits, UserDeletes,
     UserClearsIncomplete, vars, service
<1> QED
  BY <1>3, <1>4, <1>5 DEF Next

THEOREM BindingsAreMadeWhenNeeded == Spec => MadeWhenNeeded
<1>1. ASSUME KInv, [Next]_vars
      PROVE  [btp' \ btp # {} => \A b \in cr.active \cap btp : b \in due \cup expired]_vars
  <2>1. CASE btp' \ btp # {}
    BY <1>1, <2>1, OnlyCreateMakes DEF KInv, StepKnows
  <2> QED
    BY <2>1
<1> QED
  BY <1>1, Invariance, PTL DEF Spec, MadeWhenNeeded
=============================================================================

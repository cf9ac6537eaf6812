---------------------------- MODULE Caches_proofs ----------------------------
(***************************************************************************)
(* The two caches of the provider, proved for any number of callers, keys, *)
(* writes and requests: the memoization map keeps the promise of           *)
(* LossyStore, and the describe cache never answers with less than a read  *)
(* is owed, however flights are joined and overtaken.                      *)
(***************************************************************************)
EXTENDS MemoMap, DescribeCache, TLAPS

-----------------------------------------------------------------------------
(* THE MEMOIZATION MAP.  Types.                                            *)

LEMMA TypeInit == Init => TypeOK
<1> SUFFICES ASSUME Init PROVE TypeOK
  OBVIOUS
<1>1. last \in 0 .. MaxStores /\ horizon \in Values
  BY MapAssumption DEF MapAssumption, Init, Values
<1>2. 0 \in Values
  BY DEF Init, Values
<1> QED BY <1>1, <1>2 DEF Init, TypeOK, Nothing

\* Every operation keeps the values numbered below the newest.
LEMMA TypeNext == TypeOK /\ [Next]_vars => TypeOK'
<1> SUFFICES ASSUME TypeOK, [Next]_vars PROVE TypeOK'
  OBVIOUS
<1> USE MapAssumption DEF MapAssumption, TypeOK, Values, Nothing
<1>1. ASSUME NEW k \in Keys, Set(k) PROVE TypeOK'
  BY <1>1 DEF Set, callers
<1>2. ASSUME NEW k \in Keys, Invalidate(k) PROVE TypeOK'
  BY <1>2 DEF Invalidate, callers
<1>3. ASSUME NEW c \in Callers, GetReads(c) PROVE TypeOK'
  BY <1>3 DEF GetReads
<1>4. ASSUME NEW c \in Callers, GetJudges(c) PROVE TypeOK'
  <2>1. AfterJudgement(c) \in {"idle", "purge"}
    BY DEF AfterJudgement
  <2>2. CASE AfterJudgement(c) = "idle"
    BY <1>4, <2>2 DEF GetJudges
  <2>3. CASE AfterJudgement(c) # "idle"
    BY <1>4, <2>1, <2>3 DEF GetJudges
  <2> QED BY <2>2, <2>3
<1>5. ASSUME NEW c \in Callers, GetPurges(c) PROVE TypeOK'
  BY <1>5 DEF GetPurges
<1>6. ASSUME NEW c \in Callers, NEW k \in Keys, GetBegins(c, k) PROVE TypeOK'
  BY <1>6 DEF GetBegins
<1>7. CASE Collect
  BY <1>7 DEF Collect, Collected, callers
<1>8. CASE CollectorEnds
  BY <1>8 DEF CollectorEnds, callers
<1>9. CASE TimePasses
  BY <1>9 DEF TimePasses, callers
<1>10. CASE Stop
  BY <1>10 DEF Stop, callers
<1>11. CASE UNCHANGED vars
  BY <1>11 DEF vars
<1> QED
  BY <1>1, <1>2, <1>3, <1>4, <1>5, <1>6, <1>7, <1>8, <1>9, <1>10, <1>11
     DEF Next, GetStep

\* The map and its callers always have the types the code gives them.
THEOREM TypeCorrect == Spec => []TypeOK
BY TypeInit, TypeNext, PTL DEF Spec

-----------------------------------------------------------------------------
(* Refinement.                                                             *)

LEMMA PromiseInit == Init => Promise!Init
BY DEF Init, Promise!Init, Nothing, Promise!Nothing, Asked

\* Set stores, within the limit.
LEMMA SameCount ==
    ASSUME NEW S PROVE Promise!Cardinality(S) = Cardinality(S)
BY Zenon DEF Promise!Cardinality, Cardinality, Promise!IsFiniteSet, IsFiniteSet

LEMMA SetPuts ==
    ASSUME NEW k \in Keys, Set(k) PROVE Promise!Put(k)
BY SameCount DEF Set, Fits, Stored, Promise!Put, Promise!Stored, callers,
       Nothing, Promise!Nothing

\* Invalidate and the collector only lose values.
LEMMA InvalidateLoses ==
    ASSUME TypeOK, NEW k \in Keys, Invalidate(k) PROVE Promise!Lose
<1>1. m' = [j \in Keys |-> IF j \in {k} THEN Nothing ELSE m[j]]
  BY DEF TypeOK, Invalidate
<1>2. UNCHANGED <<last, [c \in Callers |-> Asked(pc[c])], key, cdAt, answer>>
  BY DEF Invalidate, callers
<1> QED BY <1>1, <1>2 DEF Promise!Lose, Nothing, Promise!Nothing

LEMMA CollectLoses ==
    ASSUME TypeOK, Collect PROVE Promise!Lose
<1> DEFINE gone == {k \in Keys : Expired(m[k])}
<1>1. m' = [j \in Keys |-> IF j \in gone THEN Nothing ELSE m[j]]
  BY DEF TypeOK, Collect, Collected
<1>2. UNCHANGED <<last, [c \in Callers |-> Asked(pc[c])], key, cdAt, answer>>
  BY DEF Collect, callers
<1>3. gone \in SUBSET Keys
  OBVIOUS
<1> QED BY <1>1, <1>2, <1>3 DEF Promise!Lose, Nothing, Promise!Nothing

\* A step of one caller changes what the promise sees of that caller alone.
LEMMA AskedMoves ==
    ASSUME TypeOK, NEW c \in Callers, NEW step,
           pc' = [pc EXCEPT ![c] = step]
    PROVE  [d \in Callers |-> Asked(pc[d])]'
             = [[d \in Callers |-> Asked(pc[d])] EXCEPT ![c] = Asked(step)]
BY DEF TypeOK

LEMMA BeginsAsks ==
    ASSUME TypeOK, NEW c \in Callers, NEW k \in Keys, GetBegins(c, k)
    PROVE  Promise!Ask(c, k)
<1>1. pc' = [pc EXCEPT ![c] = "read"]
  BY DEF GetBegins
<1>2. Asked(pc[c]) = "no" /\ Asked("read") = "asked"
  BY DEF GetBegins, Asked
<1>3. [d \in Callers |-> Asked(pc[d])]'
        = [[d \in Callers |-> Asked(pc[d])] EXCEPT ![c] = "asked"]
  BY <1>1, <1>2, AskedMoves
<1>4. key' = [key EXCEPT ![c] = k] /\ UNCHANGED <<m, last, cdAt, answer>>
  BY DEF GetBegins
<1> QED BY <1>2, <1>3, <1>4 DEF Promise!Ask

LEMMA ReadsLooks ==
    ASSUME TypeOK, NEW c \in Callers, GetReads(c) PROVE Promise!Look(c)
<1>1. pc' = [pc EXCEPT ![c] = "judge"]
  BY DEF GetReads
<1>2. Asked(pc[c]) = "asked" /\ Asked("judge") = "looked"
  BY DEF GetReads, Asked
<1>3. [d \in Callers |-> Asked(pc[d])]'
        = [[d \in Callers |-> Asked(pc[d])] EXCEPT ![c] = "looked"]
  BY <1>1, <1>2, AskedMoves
<1> QED BY <1>2, <1>3 DEF GetReads, Promise!Look

\* The judgement answers with what was read, or is not seen.
LEMMA JudgesAnswers ==
    ASSUME TypeOK, NEW c \in Callers, GetJudges(c)
    PROVE  Promise!Answer(c) \/ UNCHANGED Promise!vars
<1>1. CASE AfterJudgement(c) = "idle"
  <2>1. pc' = [pc EXCEPT ![c] = "idle"]
    BY <1>1 DEF GetJudges
  <2>2. Asked(pc[c]) = "looked" /\ Asked("idle") = "no"
    BY DEF GetJudges, Asked
  <2>3. /\ answer' = [answer EXCEPT ![c] = cdAt[c]]
        /\ cdAt' = [cdAt EXCEPT ![c] = Nothing]
        /\ UNCHANGED <<m, last, key>>
    BY <1>1 DEF GetJudges
  <2> QED BY <2>1, <2>2, <2>3, AskedMoves DEF Promise!Answer, Nothing, Promise!Nothing
<1>2. CASE AfterJudgement(c) # "idle"
  <2>1. AfterJudgement(c) = "purge"
    BY <1>2 DEF AfterJudgement
  <2>2. pc' = [pc EXCEPT ![c] = "purge"]
    BY <2>1 DEF GetJudges
  <2>3. Asked(pc[c]) = "looked" /\ Asked("purge") = "looked"
    BY DEF GetJudges, Asked
  <2>4. [d \in Callers |-> Asked(pc[d])]' = [d \in Callers |-> Asked(pc[d])]
    BY <2>2, <2>3 DEF TypeOK
  <2>5. UNCHANGED <<m, last, key, cdAt, answer>>
    BY <1>2 DEF GetJudges
  <2> QED BY <2>4, <2>5 DEF Promise!vars
<1> QED BY <1>1, <1>2

LEMMA PurgesAnswers ==
    ASSUME TypeOK, NEW c \in Callers, GetPurges(c) PROVE Promise!Answer(c)
<1>1. pc' = [pc EXCEPT ![c] = "idle"]
  BY DEF GetPurges
<1>2. Asked(pc[c]) = "looked" /\ Asked("idle") = "no"
  BY DEF GetPurges, Asked
<1>3. [d \in Callers |-> Asked(pc[d])]'
        = [[d \in Callers |-> Asked(pc[d])] EXCEPT ![c] = "no"]
  BY <1>1, <1>2, AskedMoves
<1>4. Asked(pc[c]) = "looked"
  BY <1>2
<1> QED BY <1>3, <1>4 DEF GetPurges, Promise!Answer, Nothing, Promise!Nothing, TypeOK

\* Every step of the map is a step of the promise, or one it does not see.
LEMMA PromiseNext == TypeOK /\ [Next]_vars => [Promise!Next]_(Promise!vars)
<1> SUFFICES ASSUME TypeOK, [Next]_vars PROVE Promise!Next \/ UNCHANGED Promise!vars
  OBVIOUS
<1>1. ASSUME NEW k \in Keys, Set(k) PROVE Promise!Next
  BY <1>1, SetPuts DEF Promise!Next
<1>2. ASSUME NEW k \in Keys, Invalidate(k) PROVE Promise!Next
  BY <1>2, InvalidateLoses DEF Promise!Next
<1>3. ASSUME NEW c \in Callers, GetReads(c) PROVE Promise!Next
  BY <1>3, ReadsLooks DEF Promise!Next
<1>4. ASSUME NEW c \in Callers, GetJudges(c) PROVE Promise!Next \/ UNCHANGED Promise!vars
  BY <1>4, JudgesAnswers DEF Promise!Next
<1>5. ASSUME NEW c \in Callers, GetPurges(c) PROVE Promise!Next
  BY <1>5, PurgesAnswers DEF Promise!Next
<1>6. ASSUME NEW c \in Callers, NEW k \in Keys, GetBegins(c, k) PROVE Promise!Next
  BY <1>6, BeginsAsks DEF Promise!Next
<1>7. CASE Collect
  BY <1>7, CollectLoses DEF Promise!Next
<1>8. CASE CollectorEnds \/ TimePasses \/ Stop \/ UNCHANGED vars
  BY <1>8 DEF CollectorEnds, TimePasses, Stop, vars, callers, Promise!vars
<1> QED
  BY <1>1, <1>2, <1>3, <1>4, <1>5, <1>6, <1>7, <1>8 DEF Next, GetStep

\* The map of two locks, a collector and a limit implements the store that may
\* lose values but never answers with one it did not have at that time.
THEOREM MapKeepsPromise == Spec => KeepsPromise
BY PromiseInit, PromiseNext, TypeCorrect, PTL DEF Spec, KeepsPromise, Promise!Spec

-----------------------------------------------------------------------------
(* Who loses a value that is not expired.                                  *)

\* A Get deletes only after it judged the value it read, and time goes one way.
Judged == \A c \in Callers : pc[c] = "purge" => Expired(cdAt[c])

LEMMA JudgedInit == Init => Judged
BY DEF Init, Judged

LEMMA JudgedNext == TypeOK /\ Judged /\ [Next]_vars => Judged'
<1> SUFFICES ASSUME TypeOK, Judged, [Next]_vars,
                    NEW d \in Callers, pc'[d] = "purge"
             PROVE  cdAt'[d] <= horizon'
  BY DEF Judged, Expired
<1> USE DEF TypeOK, Judged, Expired, Values
<1>1. ASSUME NEW k \in Keys, Set(k) \/ Invalidate(k) PROVE cdAt'[d] <= horizon'
  BY <1>1 DEF Set, Invalidate, callers
<1>2. ASSUME NEW c \in Callers, GetReads(c) PROVE cdAt'[d] <= horizon'
  BY <1>2 DEF GetReads
<1>3. ASSUME NEW c \in Callers, GetJudges(c) PROVE cdAt'[d] <= horizon'
  <2>1. CASE AfterJudgement(c) = "idle"
    BY <1>3, <2>1 DEF GetJudges
  <2>2. CASE AfterJudgement(c) # "idle"
    <3>1. Expired(cdAt[c])
      BY <2>2 DEF AfterJudgement
    <3>2. UNCHANGED <<cdAt, horizon>> /\ pc' = [pc EXCEPT ![c] = AfterJudgement(c)]
      BY <1>3, <2>2 DEF GetJudges
    <3> QED BY <3>1, <3>2
  <2> QED BY <2>1, <2>2
<1>4. ASSUME NEW c \in Callers, GetPurges(c) PROVE cdAt'[d] <= horizon'
  BY <1>4 DEF GetPurges
<1>5. ASSUME NEW c \in Callers, NEW k \in Keys, GetBegins(c, k) PROVE cdAt'[d] <= horizon'
  BY <1>5 DEF GetBegins
<1>6. CASE Collect \/ CollectorEnds \/ Stop \/ UNCHANGED vars
  BY <1>6 DEF Collect, CollectorEnds, Stop, vars, callers
<1>7. CASE TimePasses
  BY <1>7 DEF TimePasses, callers
<1> QED BY <1>1, <1>2, <1>3, <1>4, <1>5, <1>6, <1>7 DEF Next, GetStep

LEMMA FreshStep ==
    ASSUME TypeOK, Judged, [Next]_vars,
           NEW k \in Keys, m[k] > horizon, m'[k] = Nothing
    PROVE  \/ Invalidate(k)
           \/ \E c \in Callers : key[c] = k /\ GetPurges(c) /\ cdAt[c] # m[k]
<1> DEFINE Lost == \/ Invalidate(k)
                   \/ \E c \in Callers : key[c] = k /\ GetPurges(c) /\ cdAt[c] # m[k]
<1>0. m[k] \in Nat /\ m[k] # Nothing /\ horizon \in Nat /\ last \in Nat
  BY DEF TypeOK, Values, Nothing
<1>1. ASSUME NEW j \in Keys, Set(j) PROVE Lost
  BY <1>0, <1>1 DEF TypeOK, Set, Nothing
<1>2. ASSUME NEW j \in Keys, Invalidate(j) PROVE Lost
  <2>1. j = k
    BY <1>0, <1>2 DEF TypeOK, Invalidate
  <2> QED BY <1>2, <2>1
<1>3. ASSUME NEW c \in Callers, GetPurges(c) PROVE Lost
  <2>1. key[c] = k
    BY <1>0, <1>3 DEF TypeOK, GetPurges
  <2>2. cdAt[c] <= horizon
    BY <1>3 DEF GetPurges, Judged, Expired
  <2>3. cdAt[c] # m[k]
    BY <1>0, <2>2
  <2> QED BY <1>3, <2>1, <2>3
<1>4. CASE Collect
  BY <1>0, <1>4 DEF TypeOK, Collect, Collected, Expired
<1>5. ASSUME UNCHANGED m PROVE Lost
  BY <1>0, <1>5
<1>6. CASE (\E c \in Callers : GetReads(c) \/ GetJudges(c) \/ \E j \in Keys : GetBegins(c, j))
           \/ CollectorEnds \/ TimePasses \/ Stop \/ UNCHANGED vars
  BY <1>5, <1>6 DEF GetReads, GetJudges, GetBegins, CollectorEnds, TimePasses, Stop, vars
<1> QED BY <1>1, <1>2, <1>3, <1>4, <1>6 DEF Next, GetStep

\* What is stored and not expired is lost to a removal that was asked for or to
\* a Get that judged an older value, and to nothing else.
THEOREM FreshIsKept == Spec => FreshIsPurgedLate
<1>1. TypeOK /\ Judged /\ [Next]_vars
        => [\A k \in Keys :
              m[k] > horizon /\ m'[k] = Nothing =>
                  \/ Invalidate(k)
                  \/ \E c \in Callers : key[c] = k /\ GetPurges(c) /\ cdAt[c] # m[k]]_vars
  BY FreshStep
<1> QED BY <1>1, JudgedInit, JudgedNext, TypeCorrect, PTL DEF Spec, FreshIsPurgedLate

-----------------------------------------------------------------------------
(* THE DESCRIBE CACHE.  What a flight is in the middle of.                 *)

\* A flight's answer includes every write that was invalidated while no older
\* answer was on its way, and every write older than a TTL when it began; what
\* it is about to store is as new as its stamp; what it has loaded is expired
\* where it purges, and was issued earlier where it swaps.
FlightFits(f) ==
    /\ f.floor <= verAt[aged] /\ f.at <= now
    /\ Answered(f) => f.val >= quiet /\ f.val >= f.floor
    /\ f.step \in {"store", "swap", "return"} => Answered(f)
    /\ f.step \in {"store", "swap"} => f.val >= verAt[f.at]
    /\ f.step = "purge" => \A e \in f.prev : e.at <= aged
    /\ f.step = "swap" => \A e \in f.prev : f.at > e.at

FlightsFit == \A k \in Kinds : \A f \in flight[k] : FlightFits(f)

\* The entry includes those writes too, and is as new as its stamp.
EntriesFit ==
    \A e \in cache : e.at <= now /\ e.val >= quiet /\ e.val >= verAt[e.at]

\* Versions and times only grow.
TimesGrow ==
    /\ quiet <= ver /\ aged <= now
    /\ \A c \in Reconciles : wver[c] <= ver
    /\ \A s, t \in Times : s <= t /\ t <= now => verAt[s] <= verAt[t]
    /\ \A t \in Times : t <= now => verAt[t] <= ver

\* A reconcile that waits has its flight, which will give it what it is owed,
\* and has no answer yet.
WaitersAreServed ==
    \A c \in Reconciles : waiting[c] # "no" =>
        /\ got[c] = Unserved /\ flight[waiting[c]] # {}
        /\ \A f \in flight[waiting[c]] : owed[c] <= quiet \/ owed[c] <= f.floor

\* What makes reads recent and answers stand.
IInv == /\ DescribeTypeOK /\ FlightsFit /\ EntriesFit /\ TimesGrow /\ WaitersAreServed
        /\ ReadsAreRecent /\ StoredAnswersStand

\* At first there is neither an entry nor a flight.
LEMMA InitIInv == DescribeInit => IInv
<1> SUFFICES ASSUME DescribeInit PROVE IInv
  OBVIOUS
<1> USE ConstantsAssumption DEF ConstantsAssumption, DescribeInit
<1>1. DescribeTypeOK
  BY DEF DescribeTypeOK, Times, Unserved
<1>2. FlightsFit /\ EntriesFit
  BY DEF FlightsFit, EntriesFit
<1>3. TimesGrow
  BY DEF TimesGrow, Times
<1>4. WaitersAreServed /\ ReadsAreRecent /\ StoredAnswersStand
  BY DEF WaitersAreServed, ReadsAreRecent, StoredAnswersStand, Unserved
<1> QED BY <1>1, <1>2, <1>3, <1>4 DEF IInv

-----------------------------------------------------------------------------
(* A flight's records.                                                     *)

\* A flight that goes to a step keeps the rest of its record.
LEMMA Stepped ==
    ASSUME NEW f \in Flights, NEW s \in Steps
    PROVE  /\ To(f, s) \in Flights /\ To(f, s).step = s /\ To(f, s).val = f.val
           /\ To(f, s).at = f.at /\ To(f, s).prev = f.prev /\ To(f, s).floor = f.floor
BY DEF Flights, To

\* So does one that forgets or remembers what it has loaded,
LEMMA Loaded ==
    ASSUME NEW f \in Flights, NEW p \in SUBSET Entries
    PROVE  /\ Holding(f, p) \in Flights /\ Holding(f, p).step = f.step /\ Holding(f, p).prev = p
           /\ Holding(f, p).val = f.val /\ Holding(f, p).at = f.at /\ Holding(f, p).floor = f.floor
BY DEF Flights, Holding

\* is given its answer,
LEMMA Valued ==
    ASSUME NEW f \in Flights, NEW v \in Nat
    PROVE  /\ Given(f, v) \in Flights /\ Given(f, v).step = f.step /\ Given(f, v).val = v
           /\ Given(f, v).at = f.at /\ Given(f, v).prev = f.prev /\ Given(f, v).floor = f.floor
BY DEF Flights, Given

\* or takes its stamp.
LEMMA Stamped ==
    ASSUME NEW f \in Flights, NEW t \in Times
    PROVE  /\ Issued(f, t) \in Flights /\ Issued(f, t).step = f.step /\ Issued(f, t).at = t
           /\ Issued(f, t).val = f.val /\ Issued(f, t).prev = f.prev /\ Issued(f, t).floor = f.floor
BY DEF Flights, Issued

\* What the fields of a flight's record and of an entry are.
LEMMA Fields ==
    /\ \A f \in Flights : f.step \in Steps /\ f.val \in Nat \cup {Unserved} /\ f.at \in Times
                          /\ f.prev \in SUBSET Entries /\ f.floor \in Nat
    /\ \A e \in Entries : e.val \in Nat /\ e.at \in Times
BY DEF Flights, Entries

\* What each step of a flight leaves of its record: f was there, g is.
LEMMA LookupMoves ==
    ASSUME DescribeTypeOK, NEW k \in Kinds, Lookup(k)
    PROVE  \E f \in flight[k], g \in Flights :
             /\ FlightStep(k, f, g) /\ g.at = f.at /\ g.floor = f.floor
             /\ \/ g.step = "stamp" /\ g.val = f.val
                \/ \E e \in cache : Fresh(e) /\ g.step = "return" /\ g.val = e.val
                \/ \E e \in cache :
                     ~Fresh(e) /\ g.step = "purge" /\ g.val = f.val /\ g.prev = {e}
             /\ f.step = "lookup" /\ UNCHANGED <<now, cache, verAt, kept>>
<1>1. PICK f \in flight[k] :
        /\ \/ FlightStep(k, f, To(f, "stamp"))
           \/ \E e \in cache : Fresh(e) /\ FlightStep(k, f, Given(To(f, "return"), e.val))
           \/ \E e \in cache : ~Fresh(e) /\ FlightStep(k, f, Holding(To(f, "purge"), {e}))
        /\ f.step = "lookup" /\ UNCHANGED <<now, cache, verAt, kept>>
  BY DEF Lookup
<1>2. f \in Flights /\ {"stamp", "return", "purge"} \subseteq Steps
  BY DEF DescribeTypeOK, Steps
<1>3. CASE FlightStep(k, f, To(f, "stamp"))
  BY <1>1, <1>2, <1>3, Stepped
<1>4. ASSUME NEW e \in cache, Fresh(e), FlightStep(k, f, Given(To(f, "return"), e.val))
      PROVE  \E g \in Flights : /\ FlightStep(k, f, g) /\ g.at = f.at /\ g.floor = f.floor
                                /\ g.step = "return" /\ g.val = e.val
  <2>1. e.val \in Nat
    BY Fields DEF DescribeTypeOK
  <2>2. To(f, "return") \in Flights /\ To(f, "return").step = "return"
        /\ To(f, "return").at = f.at /\ To(f, "return").floor = f.floor
    BY <1>2, Stepped
  <2> QED BY <1>4, <2>1, <2>2, Valued
<1>5. ASSUME NEW e \in cache, ~Fresh(e), FlightStep(k, f, Holding(To(f, "purge"), {e}))
      PROVE  \E g \in Flights : /\ FlightStep(k, f, g) /\ g.at = f.at /\ g.floor = f.floor
                                /\ g.step = "purge" /\ g.val = f.val /\ g.prev = {e}
  <2>1. {e} \in SUBSET Entries
    BY DEF DescribeTypeOK
  <2> QED BY <1>2, <1>5, <2>1, Stepped, Loaded
<1> QED BY <1>1, <1>3, <1>4, <1>5

LEMMA PurgeMoves ==
    ASSUME DescribeTypeOK, NEW k \in Kinds, Purge(k)
    PROVE  \E f \in flight[k], g \in Flights :
             /\ FlightStep(k, f, g) /\ g.at = f.at /\ g.floor = f.floor
             /\ g.step = "stamp" /\ g.val = f.val
             /\ f.step = "purge" /\ cache' = cache \ f.prev /\ UNCHANGED <<now, verAt, kept>>
<1>1. PICK f \in flight[k] :
        /\ FlightStep(k, f, Holding(To(f, "stamp"), {}))
        /\ f.step = "purge" /\ cache' = cache \ f.prev /\ UNCHANGED <<now, verAt, kept>>
  BY DEF Purge
<1>2. f \in Flights /\ "stamp" \in Steps /\ {} \in SUBSET Entries
  BY DEF DescribeTypeOK, Steps
<1> QED BY <1>1, <1>2, Stepped, Loaded

LEMMA StampMoves ==
    ASSUME DescribeTypeOK, NEW k \in Kinds, Stamp(k)
    PROVE  \E f \in flight[k], g \in Flights :
             /\ FlightStep(k, f, g) /\ g.at = now + 1 /\ g.floor = f.floor
             /\ g.step = "sent" /\ g.val = f.val
             /\ now' = now + 1 /\ now + 1 \in Times /\ verAt' = [verAt EXCEPT ![now + 1] = ver]
             /\ UNCHANGED <<cache, kept>>
<1>1. PICK f \in flight[k] :
        /\ FlightStep(k, f, Issued(To(f, "sent"), now + 1))
        /\ now' = now + 1 /\ verAt' = [verAt EXCEPT ![now + 1] = ver] /\ now < MaxIssues
        /\ UNCHANGED <<cache, kept>>
  BY DEF Stamp
<1>2. f \in Flights /\ "sent" \in Steps
  BY DEF DescribeTypeOK, Steps
<1>3. now + 1 \in Times
  BY <1>1, ConstantsAssumption DEF DescribeTypeOK, Times, ConstantsAssumption
<1> QED BY <1>1, <1>2, <1>3, Stepped, Stamped

LEMMA ServeMoves ==
    ASSUME DescribeTypeOK, NEW k \in Kinds, Serve(k)
    PROVE  \E f \in flight[k], g \in Flights :
             /\ FlightStep(k, f, g) /\ g.at = f.at /\ g.floor = f.floor
             /\ g.step = "store" /\ g.val = ver
             /\ UNCHANGED <<now, cache, verAt, kept>>
<1>1. PICK f \in flight[k] :
        /\ FlightStep(k, f, Given(To(f, "store"), ver))
        /\ UNCHANGED <<now, cache, verAt, kept>>
  BY DEF Serve
<1>2. f \in Flights /\ "store" \in Steps /\ ver \in Nat
  BY DEF DescribeTypeOK, Steps
<1> QED BY <1>1, <1>2, Stepped, Valued

LEMMA StoreMoves ==
    ASSUME DescribeTypeOK, NEW k \in Kinds, LoadOrStore(k)
    PROVE  \E f \in flight[k], g \in Flights :
             /\ FlightStep(k, f, g) /\ g.at = f.at /\ g.floor = f.floor /\ g.val = f.val
             /\ \/ /\ cache = {} /\ cache' = {Entry(f)} /\ kept' = Larger(kept, f.at)
                   /\ g.step = "return"
                \/ /\ \E e \in cache : f.at <= e.at
                   /\ kept' = Larger(kept, f.at) /\ UNCHANGED cache /\ g.step = "return"
                \/ /\ \E e \in cache : f.at > e.at /\ g.prev = {e}
                   /\ UNCHANGED <<cache, kept>> /\ g.step = "swap"
             /\ f.step = "store" /\ UNCHANGED <<now, verAt>>
<1>1. PICK f \in flight[k] :
        /\ \/ /\ cache = {} /\ cache' = {Entry(f)} /\ kept' = Larger(kept, f.at)
              /\ FlightStep(k, f, To(f, "return"))
           \/ /\ \E e \in cache : f.at <= e.at
              /\ kept' = Larger(kept, f.at) /\ UNCHANGED cache
              /\ FlightStep(k, f, To(f, "return"))
           \/ \E e \in cache : /\ f.at > e.at /\ UNCHANGED <<cache, kept>>
                               /\ FlightStep(k, f, Holding(To(f, "swap"), {e}))
        /\ f.step = "store" /\ UNCHANGED <<now, verAt>>
  BY DEF LoadOrStore
<1>2. f \in Flights /\ {"return", "swap"} \subseteq Steps
  BY DEF DescribeTypeOK, Steps
<1>3. To(f, "return") \in Flights /\ To(f, "return").at = f.at /\ To(f, "return").floor = f.floor
      /\ To(f, "return").val = f.val /\ To(f, "return").step = "return"
  BY <1>2, Stepped
<1>4. ASSUME NEW e \in cache, f.at > e.at, FlightStep(k, f, Holding(To(f, "swap"), {e}))
      PROVE  \E g \in Flights : /\ FlightStep(k, f, g) /\ g.at = f.at /\ g.floor = f.floor
                                /\ g.step = "swap" /\ g.val = f.val /\ g.prev = {e}
  <2>1. {e} \in SUBSET Entries
    BY DEF DescribeTypeOK
  <2>2. To(f, "swap") \in Flights /\ To(f, "swap").step = "swap" /\ To(f, "swap").at = f.at
        /\ To(f, "swap").val = f.val /\ To(f, "swap").floor = f.floor
    BY <1>2, Stepped
  <2> QED BY <1>4, <2>1, <2>2, Loaded
<1> QED BY <1>1, <1>3, <1>4

LEMMA SwapMoves ==
    ASSUME DescribeTypeOK, NEW k \in Kinds, CompareAndSwap(k)
    PROVE  \E f \in flight[k], g \in Flights :
             /\ FlightStep(k, f, g) /\ g.at = f.at /\ g.floor = f.floor /\ g.val = f.val
             /\ \/ /\ cache = f.prev /\ cache' = {Entry(f)} /\ kept' = Larger(kept, f.at)
                   /\ g.step = "return"
                \/ UNCHANGED <<cache, kept>> /\ g.step = "store"
             /\ f.step = "swap" /\ UNCHANGED <<now, verAt>>
<1>1. PICK f \in flight[k] :
        /\ \/ /\ cache = f.prev /\ cache' = {Entry(f)} /\ kept' = Larger(kept, f.at)
              /\ FlightStep(k, f, Holding(To(f, "return"), {}))
           \/ UNCHANGED <<cache, kept>> /\ FlightStep(k, f, Holding(To(f, "store"), {}))
        /\ f.step = "swap" /\ UNCHANGED <<now, verAt>>
  BY DEF CompareAndSwap, Unchanged
<1>2. f \in Flights /\ {"return", "store"} \subseteq Steps /\ {} \in SUBSET Entries
  BY DEF DescribeTypeOK, Steps
<1>3. ASSUME NEW s \in {"return", "store"}, FlightStep(k, f, Holding(To(f, s), {}))
      PROVE  \E g \in Flights : /\ FlightStep(k, f, g) /\ g.at = f.at /\ g.floor = f.floor
                                /\ g.step = s /\ g.val = f.val
  BY <1>2, <1>3, Stepped, Loaded
<1> QED BY <1>1, <1>3

-----------------------------------------------------------------------------
(* Types.                                                                  *)

\* A flight's next step is a flight's record.
LEMMA NextType == IInv /\ [DescribeNext]_describeVars => DescribeTypeOK'
<1> SUFFICES ASSUME IInv, [DescribeNext]_describeVars PROVE DescribeTypeOK'
  OBVIOUS
<1> USE ConstantsAssumption DEF ConstantsAssumption, IInv, DescribeTypeOK
<1>1. ASSUME NEW c \in Reconciles, NEW k \in Kinds, Ask(c, k) PROVE DescribeTypeOK'
  <2>1. Begun(k) \in Flights
    BY DEF Begun, Flights, Steps, Times
  <2>2. PICK f \in Flights : /\ flight' = [flight EXCEPT ![k] = {f}]
                             /\ owed' = [owed EXCEPT ![c] = Larger(quiet, f.floor)]
    BY <1>1, <2>1 DEF Ask
  <2>3. Larger(quiet, f.floor) \in Nat
    BY DEF Larger, Flights
  <2> QED BY <1>1, <2>2, <2>3 DEF Ask
<1>2. ASSUME NEW k \in Kinds, NEW f \in Flights, NEW g \in Flights, FlightStep(k, f, g)
      PROVE  /\ flight' \in [Kinds -> SUBSET Flights]
             /\ UNCHANGED <<ver, aged, waiting, wver, quiet, owed, got>>
  BY <1>2 DEF FlightStep
<1>3. ASSUME NEW k \in Kinds, Lookup(k) \/ Purge(k) \/ Serve(k) PROVE DescribeTypeOK'
  <2>1. PICK f \in flight[k] : \E g \in Flights :
          /\ FlightStep(k, f, g) /\ cache' \subseteq cache /\ UNCHANGED <<now, verAt, kept>>
    BY <1>3, LookupMoves, PurgeMoves, ServeMoves
  <2> QED BY <2>1, <1>2
<1>4. ASSUME NEW k \in Kinds, Stamp(k) PROVE DescribeTypeOK'
  <2>1. now + 1 \in Times
    BY <1>4 DEF Stamp, Times
  <2>2. PICK f \in flight[k] : \E g \in Flights :
          /\ FlightStep(k, f, g) /\ now' = now + 1 /\ verAt' = [verAt EXCEPT ![now + 1] = ver]
          /\ UNCHANGED <<cache, kept>>
    BY <1>4, StampMoves
  <2> QED BY <2>1, <2>2, <1>2
<1>6. ASSUME NEW k \in Kinds, LoadOrStore(k) \/ CompareAndSwap(k) PROVE DescribeTypeOK'
  <2>1. PICK f \in flight[k] : \E g \in Flights :
          /\ FlightStep(k, f, g) /\ f.step \in {"store", "swap"}
          /\ cache' \in {cache, {Entry(f)}} /\ kept' \in {kept, Larger(kept, f.at)}
          /\ UNCHANGED <<now, verAt>>
    BY <1>6, StoreMoves, SwapMoves
  <2>2. f \in Flights /\ Answered(f)
    BY <2>1 DEF FlightsFit, FlightFits
  <2>3. Entry(f) \in Entries /\ Larger(kept, f.at) \in Times
    BY <2>2, Fields DEF Entry, Entries, Answered, Larger
  <2> QED BY <2>1, <2>3, <1>2
<1>7. ASSUME NEW k \in Kinds, Return(k) PROVE DescribeTypeOK'
  <2>1. PICK f \in Flights :
          got' = [c \in Reconciles |-> IF waiting[c] = k THEN f.val ELSE got[c]]
    BY <1>7 DEF Return
  <2>2. got' \in [Reconciles -> Nat \cup {Unserved}]
    BY <2>1 DEF Flights
  <2> QED BY <1>7, <2>2 DEF Return
<1>8. ASSUME NEW k \in Kinds, Fail(k) PROVE DescribeTypeOK'
  BY <1>8 DEF Fail
<1>9. CASE Age
  BY <1>9 DEF Age, Times
<1>10. ASSUME NEW c \in Reconciles, Write(c) \/ Drop(c) \/ WriteUnanswered(c) PROVE DescribeTypeOK'
  <2>1. CASE Write(c)
    BY <2>1 DEF Write
  <2>2. CASE Drop(c)
    <3>1. Larger(quiet, wver[c]) \in Nat /\ 0 \in Times
      BY DEF Larger, Times
    <3> QED BY <2>2, <3>1 DEF Drop, Invalidated
  <2>3. CASE WriteUnanswered(c)
    BY <2>3 DEF WriteUnanswered
  <2> QED BY <1>10, <2>1, <2>2, <2>3
<1>11. CASE UNCHANGED describeVars
  BY <1>11 DEF describeVars
<1> QED
  BY <1>1, <1>3, <1>4, <1>6, <1>7, <1>8, <1>9, <1>10, <1>11
     DEF DescribeNext, FlightGoesOn

-----------------------------------------------------------------------------
(* Times and versions.                                                     *)

\* What moves them: requests are stamped, TTLs pass, BTP writes and a write is
\* invalidated.  Everything else leaves them alone.
LEMMA ClockSteps ==
    ASSUME [DescribeNext]_describeVars
    PROVE  \/ UNCHANGED <<ver, now, aged, quiet, verAt, wver>>
           \/ \E c \in Reconciles : WriteUnanswered(c)
           \/ \E k \in Kinds : Stamp(k)
           \/ Age
           \/ \E c \in Reconciles : Write(c) \/ Drop(c)
<1>1. ASSUME NEW k \in Kinds, NEW f, NEW g, FlightStep(k, f, g) PROVE UNCHANGED <<ver, aged, quiet, wver>>
  BY <1>1 DEF FlightStep
<1>2. ASSUME NEW k \in Kinds, Lookup(k) \/ Purge(k) \/ Serve(k)
      PROVE  UNCHANGED <<ver, now, aged, quiet, verAt, wver>>
  BY <1>1, <1>2 DEF Lookup, Purge, Serve
<1>3. ASSUME NEW k \in Kinds, LoadOrStore(k) \/ CompareAndSwap(k)
      PROVE  UNCHANGED <<ver, now, aged, quiet, verAt, wver>>
  BY <1>1, <1>3 DEF LoadOrStore, CompareAndSwap
<1>4. ASSUME NEW k \in Kinds, NEW c \in Reconciles, Ask(c, k)
      PROVE  UNCHANGED <<ver, now, aged, quiet, verAt, wver>>
  BY <1>4 DEF Ask
<1>5. ASSUME NEW k \in Kinds, Return(k) \/ Fail(k)
      PROVE  UNCHANGED <<ver, now, aged, quiet, verAt, wver>>
  BY <1>5 DEF Return, Fail
<1> QED BY <1>2, <1>3, <1>4, <1>5 DEF DescribeNext, FlightGoesOn, describeVars

LEMMA NextTimesGrow == IInv /\ [DescribeNext]_describeVars => TimesGrow'
<1> SUFFICES ASSUME IInv, [DescribeNext]_describeVars PROVE TimesGrow'
  OBVIOUS
<1> USE ConstantsAssumption DEF ConstantsAssumption, IInv, DescribeTypeOK, TimesGrow, Times
<1>1. ASSUME NEW k \in Kinds, Stamp(k) PROVE TimesGrow'
  BY <1>1 DEF Stamp, FlightStep
<1>2. CASE Age
  BY <1>2 DEF Age
<1>3. ASSUME NEW c \in Reconciles, Write(c) PROVE TimesGrow'
  BY <1>3 DEF Write
<1>4. ASSUME NEW c \in Reconciles, Drop(c) PROVE TimesGrow'
  BY <1>4 DEF Drop, Larger
<1>5. ASSUME NEW c \in Reconciles, WriteUnanswered(c) PROVE TimesGrow'
  BY <1>5 DEF WriteUnanswered
<1>6. CASE UNCHANGED <<ver, now, aged, quiet, verAt, wver>>
  BY <1>6
<1> QED BY <1>1, <1>2, <1>3, <1>4, <1>5, <1>6, ClockSteps

-----------------------------------------------------------------------------
(* Flights.                                                                *)

\* Whatever happens beside it, a flight still fits: an invalidation counts only
\* while no older answer is on its way.
LEMMA FlightsStay ==
    ASSUME IInv, [DescribeNext]_describeVars, NEW k \in Kinds, NEW f \in flight[k]
    PROVE  FlightFits(f)'
<1> USE ConstantsAssumption DEF ConstantsAssumption, IInv, DescribeTypeOK
<1>1. FlightFits(f) /\ f \in Flights /\ f.at \in Times
  BY DEF FlightsFit, Flights
<1>2. \A e \in f.prev : e.at \in Times
  BY <1>1 DEF Flights, Entries
<1>3. ASSUME NEW j \in Kinds, Stamp(j) PROVE FlightFits(f)'
  <2>1. /\ now' = now + 1 /\ verAt' = [verAt EXCEPT ![now + 1] = ver] /\ UNCHANGED <<aged, quiet>>
    BY <1>3 DEF Stamp, FlightStep
  <2>2. verAt'[aged] = verAt[aged] /\ verAt'[f.at] = verAt[f.at]
    BY <1>1, <2>1 DEF TimesGrow, FlightFits, Times
  <2> QED BY <1>1, <2>1, <2>2 DEF FlightFits, Answered, Times
<1>4. CASE Age
  <2>1. verAt[aged] <= verAt[aged + 1] /\ aged + 1 \in Times
    BY <1>4 DEF Age, TimesGrow, Times
  <2>2. f.floor \in Nat /\ verAt[aged] \in Nat /\ verAt[aged + 1] \in Nat
    BY <1>1, <2>1 DEF Flights
  <2> QED BY <1>1, <1>2, <1>4, <2>1, <2>2 DEF Age, FlightFits, Answered, Times
<1>5. ASSUME NEW c \in Reconciles, Write(c) PROVE FlightFits(f)'
  BY <1>1, <1>5 DEF Write, FlightFits, Answered
<1>6. ASSUME NEW c \in Reconciles, Drop(c) PROVE FlightFits(f)'
  <2>1. UNCHANGED <<now, aged, verAt>>
        /\ quiet' = IF OlderOnItsWay(wver[c]) THEN quiet ELSE Larger(quiet, wver[c])
    BY <1>6 DEF Drop
  <2>2. CASE OlderOnItsWay(wver[c])
    BY <1>1, <2>1, <2>2 DEF FlightFits, Answered
  <2>3. CASE ~OlderOnItsWay(wver[c])
    <3>1. Answered(f) => f.val >= wver[c]
      BY <1>1, <2>3 DEF OlderOnItsWay, Flights, Answered
    <3> QED BY <1>1, <2>1, <2>3, <3>1 DEF FlightFits, Answered, Larger
  <2> QED BY <2>2, <2>3
<1>7. CASE UNCHANGED <<now, aged, quiet, verAt>>
  BY <1>1, <1>7 DEF FlightFits, Answered
<1> QED BY <1>3, <1>4, <1>5, <1>6, <1>7, ClockSteps DEF WriteUnanswered

\* So does the flight that makes the step.
LEMMA NextFlightsFit == IInv /\ [DescribeNext]_describeVars => FlightsFit'
<1> SUFFICES ASSUME IInv, [DescribeNext]_describeVars, NEW j \in Kinds, NEW h \in flight'[j]
             PROVE  FlightFits(h)'
  BY DEF FlightsFit
<1> USE ConstantsAssumption DEF ConstantsAssumption, IInv, DescribeTypeOK
<1>1. CASE h \in flight[j]
  BY <1>1, FlightsStay
<1>2. ASSUME NEW c \in Reconciles, NEW k \in Kinds, Ask(c, k), h \notin flight[j]
      PROVE  FlightFits(h)'
  <2>1. h = Begun(k) /\ UNCHANGED <<now, aged, verAt>>
    BY <1>2 DEF Ask
  <2>2. h.at = 0 /\ h.floor = verAt[aged] /\ ~Answered(h) /\ h.step \in {"stamp", "lookup"}
    BY <2>1 DEF Begun, Answered
  <2> QED BY <2>1, <2>2 DEF FlightFits, Answered, Times
<1>3. ASSUME NEW k \in Kinds, NEW f \in flight[k], NEW g, FlightStep(k, f, g), FlightFits(g)'
      PROVE  FlightFits(h)'
  <2>1. h = g \/ h \in flight[j]
    BY <1>3 DEF FlightStep
  <2> QED BY <1>1, <1>3, <2>1
<1>4. ASSUME NEW k \in Kinds, Lookup(k) PROVE FlightFits(h)'
  <2>1. PICK f \in flight[k], g \in Flights :
          /\ FlightStep(k, f, g) /\ g.at = f.at /\ g.floor = f.floor
          /\ \/ g.step = "stamp" /\ g.val = f.val
             \/ \E e \in cache : Fresh(e) /\ g.step = "return" /\ g.val = e.val
             \/ \E e \in cache : ~Fresh(e) /\ g.step = "purge" /\ g.val = f.val /\ g.prev = {e}
          /\ UNCHANGED <<now, verAt>>
    BY <1>4, LookupMoves
  <2>2. FlightFits(f) /\ f \in Flights /\ UNCHANGED <<now, aged, quiet, verAt>>
    BY <2>1 DEF FlightsFit, FlightStep
  <2>3. \A e \in cache : e \in Entries /\ e.at \in Times /\ e.val \in Nat /\ e.val >= quiet
                         /\ e.val >= verAt[e.at] /\ e.at <= now
    BY Fields DEF EntriesFit
  <2>4. f.floor \in Nat /\ f.at \in Times /\ g.at \in Times
    BY <2>2, Fields
  <2>5. CASE g.step = "stamp" /\ g.val = f.val
    BY <2>1, <2>2, <2>5, <1>3 DEF FlightFits, Answered
  <2>6. ASSUME NEW e \in cache, Fresh(e), g.step = "return", g.val = e.val
        PROVE  FlightFits(g)'
    <3>1. verAt[aged] <= verAt[e.at]
      BY <2>3, <2>6 DEF Fresh, TimesGrow, Times
    <3>2. f.floor <= verAt[aged] /\ verAt[aged] \in Nat /\ verAt[e.at] \in Nat /\ e.val \in Nat
      BY <2>2, <2>3 DEF FlightFits
    <3>3. e.val >= f.floor /\ e.val >= quiet
      BY <2>3, <2>4, <3>1, <3>2
    <3> QED BY <2>1, <2>2, <2>6, <3>2, <3>3 DEF FlightFits, Answered, Unserved
  <2>7. ASSUME NEW e \in cache, ~Fresh(e), g.step = "purge", g.val = f.val, g.prev = {e}
        PROVE  FlightFits(g)'
    <3>1. e.at <= aged
      BY <2>3, <2>7 DEF Fresh, Times
    <3> QED BY <2>1, <2>2, <2>7, <3>1 DEF FlightFits, Answered
  <2> QED BY <2>1, <2>5, <2>6, <2>7, <1>3
<1>5. ASSUME NEW k \in Kinds, Purge(k) PROVE FlightFits(h)'
  <2>1. PICK f \in flight[k], g \in Flights :
          /\ FlightStep(k, f, g) /\ g.at = f.at /\ g.floor = f.floor
          /\ g.step = "stamp" /\ g.val = f.val /\ UNCHANGED <<now, verAt>>
    BY <1>5, PurgeMoves
  <2>2. FlightFits(f) /\ UNCHANGED <<now, aged, quiet, verAt>>
    BY <2>1 DEF FlightsFit, FlightStep
  <2> QED BY <2>1, <2>2, <1>3 DEF FlightFits, Answered
<1>6. ASSUME NEW k \in Kinds, Stamp(k) PROVE FlightFits(h)'
  <2>1. PICK f \in flight[k], g \in Flights :
          /\ FlightStep(k, f, g) /\ g.at = now + 1 /\ g.floor = f.floor
          /\ g.step = "sent" /\ g.val = f.val /\ now' = now + 1
    BY <1>6, StampMoves
  <2>2. FlightFits(f)'
    BY <2>1, FlightsStay
  <2>3. FlightFits(g)'
    BY <2>1, <2>2 DEF FlightFits, Answered, Times
  <2> QED BY <2>1, <2>3, <1>3
<1>7. ASSUME NEW k \in Kinds, Serve(k) PROVE FlightFits(h)'
  <2>1. PICK f \in flight[k], g \in Flights :
          /\ FlightStep(k, f, g) /\ g.at = f.at /\ g.floor = f.floor
          /\ g.step = "store" /\ g.val = ver /\ UNCHANGED <<now, verAt>>
    BY <1>7, ServeMoves
  <2>2. FlightFits(f) /\ UNCHANGED <<now, aged, quiet, verAt>>
    BY <2>1 DEF FlightsFit, FlightStep
  <2>3. f.floor \in Nat /\ f.at \in Times /\ verAt[aged] \in Nat /\ verAt[f.at] \in Nat
    BY Fields
  <2>4. verAt[aged] <= ver /\ verAt[f.at] <= ver /\ quiet <= ver
    BY <2>2, <2>3 DEF TimesGrow, FlightFits
  <2> QED BY <2>1, <2>2, <2>3, <2>4, <1>3 DEF FlightFits, Answered, Unserved
<1>8. ASSUME NEW k \in Kinds, LoadOrStore(k) PROVE FlightFits(h)'
  <2>1. PICK f \in flight[k], g \in Flights :
          /\ FlightStep(k, f, g) /\ g.at = f.at /\ g.floor = f.floor /\ g.val = f.val
          /\ \/ g.step = "return"
             \/ g.step = "swap" /\ \E e \in cache : f.at > e.at /\ g.prev = {e}
          /\ f.step = "store" /\ UNCHANGED <<now, verAt>>
    BY <1>8, StoreMoves
  <2>2. FlightFits(f) /\ UNCHANGED <<now, aged, quiet, verAt>>
    BY <2>1 DEF FlightsFit, FlightStep
  <2> QED BY <2>1, <2>2, <1>3 DEF FlightFits, Answered
<1>9. ASSUME NEW k \in Kinds, CompareAndSwap(k) PROVE FlightFits(h)'
  <2>1. PICK f \in flight[k], g \in Flights :
          /\ FlightStep(k, f, g) /\ g.at = f.at /\ g.floor = f.floor /\ g.val = f.val
          /\ g.step \in {"return", "store"} /\ f.step = "swap" /\ UNCHANGED <<now, verAt>>
    BY <1>9, SwapMoves
  <2>2. FlightFits(f) /\ UNCHANGED <<now, aged, quiet, verAt>>
    BY <2>1 DEF FlightsFit, FlightStep
  <2> QED BY <2>1, <2>2, <1>3 DEF FlightFits, Answered
<1>10. ASSUME NEW k \in Kinds, Return(k) \/ Fail(k) PROVE h \in flight[j]
  BY <1>10 DEF Return, Fail
<1>11. CASE flight' = flight
  BY <1>1, <1>11
<1> QED
  BY <1>1, <1>2, <1>4, <1>5, <1>6, <1>7, <1>8, <1>9, <1>10, <1>11
     DEF DescribeNext, FlightGoesOn, Age, Write, Drop, WriteUnanswered, describeVars

-----------------------------------------------------------------------------
(* The entry.                                                              *)

\* What is stored comes from a flight that fits.
LEMMA Stores ==
    ASSUME IInv, [DescribeNext]_describeVars, ~(cache' \subseteq cache)
    PROVE  \E k \in Kinds : \E f \in flight[k] :
              /\ cache' = {Entry(f)} /\ f.step \in {"store", "swap"}
              /\ UNCHANGED <<now, quiet, verAt>>
BY DEF DescribeNext, FlightGoesOn, Ask, Lookup, Purge, Stamp, Serve, LoadOrStore, CompareAndSwap,
       FlightStep, Return, Fail, Age, Write, Drop, Invalidated, WriteUnanswered, describeVars

LEMMA NextEntriesFit == IInv /\ [DescribeNext]_describeVars => EntriesFit'
<1> SUFFICES ASSUME IInv, [DescribeNext]_describeVars, NEW e \in cache'
             PROVE  e.at <= now' /\ e.val >= quiet' /\ e.val >= verAt'[e.at]
  BY DEF EntriesFit
<1> USE ConstantsAssumption DEF ConstantsAssumption, IInv, DescribeTypeOK
<1>1. CASE cache' \subseteq cache
  <2>1. e \in cache /\ e \in Entries /\ e.at \in Times /\ e.at <= now /\ e.val >= quiet
        /\ e.val >= verAt[e.at]
    BY <1>1 DEF EntriesFit, Entries
  <2>2. quiet' = quiet
    BY DEF DescribeNext, FlightGoesOn, Ask, Lookup, Purge, Stamp, Serve, LoadOrStore,
         CompareAndSwap, FlightStep, Return, Fail, Age, Write, Drop, Invalidated,
         WriteUnanswered, describeVars
  <2>3. CASE UNCHANGED <<now, verAt>>
    BY <2>1, <2>2, <2>3
  <2>4. ASSUME NEW k \in Kinds, Stamp(k) PROVE now' = now + 1 /\ verAt'[e.at] = verAt[e.at]
    BY <2>1, <2>4 DEF Stamp, Times
  <2>5. UNCHANGED <<now, verAt>> \/ \E k \in Kinds : Stamp(k)
    BY ClockSteps DEF Age, Write, Drop, WriteUnanswered
  <2> QED BY <2>1, <2>2, <2>3, <2>4, <2>5 DEF Times
<1>2. CASE ~(cache' \subseteq cache)
  <2>1. PICK k \in Kinds : \E f \in flight[k] :
          /\ cache' = {Entry(f)} /\ f.step \in {"store", "swap"}
          /\ UNCHANGED <<now, quiet, verAt>>
    BY <1>2, Stores
  <2>2. PICK f \in flight[k] :
          /\ cache' = {Entry(f)} /\ f.step \in {"store", "swap"}
          /\ UNCHANGED <<now, quiet, verAt>>
    BY <2>1
  <2>3. FlightFits(f)
    BY DEF FlightsFit
  <2> QED BY <2>2, <2>3 DEF Entry, FlightFits
<1> QED BY <1>1, <1>2

\* An answer that was stored is there, or a later one is.
LEMMA NextStoredAnswersStand == IInv /\ [DescribeNext]_describeVars => StoredAnswersStand'
<1> SUFFICES ASSUME IInv, [DescribeNext]_describeVars, kept' > aged'
             PROVE  \E e \in cache' : e.at >= kept'
  BY DEF StoredAnswersStand
<1> USE ConstantsAssumption DEF ConstantsAssumption, IInv, DescribeTypeOK, StoredAnswersStand, Times
<1>0. \A e \in cache : e.at \in Times
  BY DEF Entries
<1>1. ASSUME NEW k \in Kinds, LoadOrStore(k) \/ CompareAndSwap(k)
      PROVE  \E e \in cache' : e.at >= kept'
  <2>1. PICK f \in flight[k] :
          /\ aged' = aged
          /\ \/ /\ cache = {} \/ (f.step = "swap" /\ cache = f.prev)
                /\ cache' = {Entry(f)} /\ kept' = Larger(kept, f.at)
             \/ \E e \in cache : f.at <= e.at /\ kept' = Larger(kept, f.at) /\ UNCHANGED cache
             \/ UNCHANGED <<cache, kept>>
    BY <1>1 DEF LoadOrStore, CompareAndSwap, FlightStep, Unchanged
  <2>2. f.at \in Times /\ FlightFits(f)
    BY DEF FlightsFit, Flights
  <2>3. CASE /\ cache = {} \/ (f.step = "swap" /\ cache = f.prev)
             /\ cache' = {Entry(f)} /\ kept' = Larger(kept, f.at)
    <3>1. kept <= aged \/ f.at >= kept
      BY <1>0, <2>2, <2>3 DEF FlightFits
    <3>2. kept' = f.at
      BY <2>1, <2>2, <2>3, <3>1 DEF Larger
    <3> QED BY <2>2, <2>3, <3>2 DEF Entry
  <2>4. ASSUME NEW e \in cache, f.at <= e.at, kept' = Larger(kept, f.at), UNCHANGED cache
        PROVE  \E d \in cache' : d.at >= kept'
    BY <1>0, <2>1, <2>2, <2>4 DEF Larger
  <2>5. CASE UNCHANGED <<cache, kept>>
    BY <2>1, <2>5
  <2> QED BY <2>1, <2>3, <2>4, <2>5
<1>2. ASSUME NEW k \in Kinds, Purge(k) PROVE \E e \in cache' : e.at >= kept'
  <2>1. PICK f \in flight[k] : f.step = "purge" /\ cache' = cache \ f.prev /\ UNCHANGED <<aged, kept>>
    BY <1>2 DEF Purge, FlightStep
  <2>2. \A e \in f.prev : e.at <= aged
    BY <2>1 DEF FlightsFit, FlightFits
  <2>3. PICK e \in cache : e.at >= kept
    BY <2>1
  <2>4. e \notin f.prev
    BY <1>0, <2>1, <2>2, <2>3
  <2> QED BY <2>1, <2>3, <2>4
<1>3. CASE Age
  BY <1>3 DEF Age
<1>4. ASSUME NEW c \in Reconciles, Drop(c) PROVE FALSE
  BY <1>4 DEF Drop
<1>5. CASE UNCHANGED <<cache, kept, aged>>
  BY <1>5
<1> QED
  BY <1>1, <1>2, <1>3, <1>4, <1>5
     DEF DescribeNext, FlightGoesOn, Ask, Lookup, Stamp, Serve, FlightStep, Return, Fail, Write,
         WriteUnanswered, describeVars

-----------------------------------------------------------------------------
(* Reads.                                                                  *)

\* The flight that a reconcile waits for will give it what it is owed.
LEMMA NextWaitersAreServed == IInv /\ [DescribeNext]_describeVars => WaitersAreServed'
<1> SUFFICES ASSUME IInv, [DescribeNext]_describeVars, NEW c \in Reconciles, waiting'[c] # "no"
             PROVE  /\ got'[c] = Unserved /\ flight'[waiting'[c]] # {}
                    /\ \A f \in flight'[waiting'[c]] : owed'[c] <= quiet' \/ owed'[c] <= f.floor
  BY DEF WaitersAreServed
<1> DEFINE Served == /\ got'[c] = Unserved /\ flight'[waiting'[c]] # {}
                     /\ \A f \in flight'[waiting'[c]] : owed'[c] <= quiet' \/ owed'[c] <= f.floor
<1> USE ConstantsAssumption DEF ConstantsAssumption, IInv, DescribeTypeOK, WaitersAreServed
<1>0. quiet' >= quiet
  BY ClockSteps DEF Stamp, FlightStep, Age, Write, Drop, WriteUnanswered, Larger
<1>1. ASSUME NEW d \in Reconciles, NEW k \in Kinds, Ask(d, k) PROVE Served
  <2>1. PICK f : /\ f \in IF flight[k] = {} THEN {Begun(k)} ELSE flight[k]
                 /\ flight' = [flight EXCEPT ![k] = {f}]
                 /\ owed' = [owed EXCEPT ![d] = Larger(quiet, f.floor)]
                 /\ waiting' = [waiting EXCEPT ![d] = k] /\ got' = [got EXCEPT ![d] = Unserved]
                 /\ UNCHANGED quiet
    BY <1>1 DEF Ask
  <2>2. f.floor \in Nat
    BY <2>1, Fields DEF Begun
  <2>3. CASE c = d
    BY <2>1, <2>2, <2>3 DEF Larger
  <2>4. CASE c # d
    <3>1. waiting[c] # "no" /\ waiting'[c] = waiting[c] /\ got'[c] = got[c] /\ owed'[c] = owed[c]
      BY <2>1, <2>4
    <3>2. flight'[waiting[c]] \subseteq flight[waiting[c]] /\ flight'[waiting[c]] # {}
      BY <2>1, <3>1
    <3> QED BY <2>1, <3>1, <3>2
  <2> QED BY <2>3, <2>4
<1>2. ASSUME NEW k \in Kinds, NEW f \in flight[k], NEW g, FlightStep(k, f, g), g.floor = f.floor
      PROVE  Served
  <2>1. /\ flight' = [flight EXCEPT ![k] = {g}] /\ UNCHANGED <<waiting, got, owed, quiet>>
    BY <1>2 DEF FlightStep
  <2>2. waiting[c] # "no" /\ got[c] = Unserved /\ flight[waiting[c]] # {}
        /\ \A h \in flight[waiting[c]] : owed[c] <= quiet \/ owed[c] <= h.floor
    BY <2>1
  <2>3. CASE waiting[c] = k
    BY <1>2, <2>1, <2>2, <2>3
  <2>4. CASE waiting[c] # k
    BY <2>1, <2>2, <2>4
  <2> QED BY <2>3, <2>4
<1>3. ASSUME NEW k \in Kinds, Lookup(k) \/ Purge(k) \/ Stamp(k) \/ Serve(k) \/ LoadOrStore(k)
                              \/ CompareAndSwap(k)
      PROVE  Served
  <2>1. PICK f \in flight[k] : \E g : FlightStep(k, f, g) /\ g.floor = f.floor
    BY <1>3, LookupMoves, PurgeMoves, StampMoves, ServeMoves, StoreMoves, SwapMoves
  <2> QED BY <2>1, <1>2
<1>4. ASSUME NEW k \in Kinds, Return(k) \/ Fail(k) PROVE Served
  <2>1. /\ flight' = [flight EXCEPT ![k] = {}] /\ UNCHANGED <<owed, quiet>>
        /\ waiting' = [d \in Reconciles |-> IF waiting[d] = k THEN "no" ELSE waiting[d]]
        /\ waiting[c] # k => got'[c] = got[c]
    BY <1>4 DEF Return, Fail
  <2>2. waiting[c] # k /\ waiting'[c] = waiting[c]
    BY <2>1
  <2> QED BY <2>1, <2>2
<1>5. CASE UNCHANGED <<flight, waiting, got, owed>>
  <2>1. \A f \in flight[waiting[c]] : owed[c] <= quiet' \/ owed[c] <= f.floor
    <3>1. quiet' \in Nat /\ owed[c] \in Nat
      BY NextType
    <3> QED BY <1>0, <1>5, <3>1
  <2> QED BY <1>5, <2>1
<1> QED
  BY <1>1, <1>3, <1>4, <1>5
     DEF DescribeNext, FlightGoesOn, Age, Write, Drop, WriteUnanswered, describeVars

\* A read returns what a flight that fits was answered.
LEMMA NextReadsAreRecent == IInv /\ [DescribeNext]_describeVars => ReadsAreRecent'
<1> SUFFICES ASSUME IInv, [DescribeNext]_describeVars,
                    NEW c \in Reconciles, waiting'[c] = "no", got'[c] # Unserved
             PROVE  got'[c] >= owed'[c]
  BY DEF ReadsAreRecent
<1> USE DEF IInv, DescribeTypeOK
<1>1. ASSUME NEW d \in Reconciles, NEW k \in Kinds, Ask(d, k) PROVE got'[c] >= owed'[c]
  <2>1. c # d
    BY <1>1 DEF Ask
  <2> QED BY <1>1, <2>1 DEF Ask, ReadsAreRecent
<1>2. ASSUME NEW k \in Kinds, Return(k) PROVE got'[c] >= owed'[c]
  <2>1. PICK f \in flight[k] :
          /\ f.step = "return" /\ UNCHANGED owed
          /\ got' = [d \in Reconciles |-> IF waiting[d] = k THEN f.val ELSE got[d]]
          /\ waiting' = [d \in Reconciles |-> IF waiting[d] = k THEN "no" ELSE waiting[d]]
    BY <1>2 DEF Return
  <2>2. CASE waiting[c] = k
    <3>1. f \in Flights /\ Answered(f) /\ f.val >= quiet /\ f.val >= f.floor
      BY <2>1 DEF FlightsFit, FlightFits
    <3>2. owed[c] <= quiet \/ owed[c] <= f.floor
      BY <2>2 DEF WaitersAreServed, Kinds
    <3>3. f.val \in Nat /\ f.floor \in Nat /\ owed[c] \in Nat
      BY <3>1, Fields DEF Answered
    <3> QED BY <2>1, <2>2, <3>1, <3>2, <3>3
  <2>3. CASE waiting[c] # k
    BY <2>1, <2>3 DEF ReadsAreRecent
  <2> QED BY <2>2, <2>3
<1>3. ASSUME NEW k \in Kinds, Fail(k) PROVE got'[c] >= owed'[c]
  BY <1>3 DEF Fail, ReadsAreRecent, WaitersAreServed
<1>4. CASE UNCHANGED <<waiting, got, owed>>
  BY <1>4 DEF ReadsAreRecent
<1> QED
  BY <1>1, <1>2, <1>3, <1>4
     DEF DescribeNext, FlightGoesOn, Lookup, Purge, Stamp, Serve, LoadOrStore, CompareAndSwap,
         FlightStep, Age, Write, Drop, WriteUnanswered, describeVars

-----------------------------------------------------------------------------
\* Every step keeps the invariant.
LEMMA NextIInv == IInv /\ [DescribeNext]_describeVars => IInv'
<1> SUFFICES ASSUME IInv, [DescribeNext]_describeVars PROVE IInv'
  OBVIOUS
<1>1. DescribeTypeOK' /\ FlightsFit' /\ EntriesFit' /\ TimesGrow' /\ WaitersAreServed'
      /\ ReadsAreRecent' /\ StoredAnswersStand'
  BY NextType, NextFlightsFit, NextEntriesFit, NextTimesGrow, NextWaitersAreServed,
     NextReadsAreRecent, NextStoredAnswersStand
<1> QED BY <1>1 DEF IInv

\* The inductive invariant holds in every reachable state.
THEOREM Invariance == DescribeSpec => []IInv
BY InitIInv, NextIInv, PTL DEF DescribeSpec

\* Every variable of the describe cache keeps its type (DescribeTypeOK).
THEOREM DescribeTypeCorrect == DescribeSpec => []DescribeTypeOK
<1>1. IInv => DescribeTypeOK
  BY DEF IInv
<1> QED BY <1>1, Invariance, PTL

\* However flights are joined, overtaken and invalidated, a read sees every
\* write invalidated before it began while no older answer was on its way, and
\* every write older than a TTL when its flight began (fetchAssignments).
THEOREM WritesAreSeen == DescribeSpec => []ReadsAreRecent
<1>1. IInv => ReadsAreRecent
  BY DEF IInv
<1> QED BY <1>1, Invariance, PTL

\* What a flight has stored, or something issued later, is in the cache until it
\* is invalidated or expires (describeCacheStore, describeCacheGet).
THEOREM AnswersStand == DescribeSpec => []StoredAnswersStand
<1>1. IInv => StoredAnswersStand
  BY DEF IInv
<1> QED BY <1>1, Invariance, PTL
=============================================================================

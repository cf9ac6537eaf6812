------------------------------- MODULE MemoMap -------------------------------
(***************************************************************************)
(* The memoization map (memoize/memoize.go): a map behind a lock, whose    *)
(* values expire, with a limit of keys and a collector that clears what is *)
(* expired.  Get takes the lock twice: it reads a value, judges its age    *)
(* without the lock, and takes it again to delete an expired one.          *)
(***************************************************************************)
EXTENDS Integers, FiniteSets

CONSTANTS
    Keys, Callers,
    KeyLimit,    \* the key limit of the map
    MaxStores    \* bound: values stored

ASSUME MapAssumption == IsFiniteSet(Keys) /\ KeyLimit \in Nat /\ MaxStores \in Nat

Nothing == 0

VARIABLES
    m,           \* the map; values are numbered as they are stored
    last,        \* the number of the newest value
    horizon,     \* values up to this one are older than keyExpiration
    stopped,     \* Stop was called
    collecting,  \* the collector's goroutine runs
    pc, key, cdAt, \* each caller in Get: its step, its key, the value it read
    answer       \* each caller's last answer

vars == <<m, last, horizon, stopped, collecting, pc, key, cdAt, answer>>
callers == <<pc, key, cdAt, answer>>

Expired(v) == v <= horizon
Stored == {k \in Keys : m[k] # Nothing}

\* Mistakes this code could make, for the mutation runs: one key too many, the
\* collector takes what is not expired.
BugOneTooMany == Cardinality(Stored) <= KeyLimit
BugCollectsAll == [k \in Keys |-> Nothing]

\* A map at its limit takes no value, not even of a key it has.
Fits == Cardinality(Stored) < KeyLimit

Init ==
    /\ m = [k \in Keys |-> Nothing] /\ last = 0 /\ horizon = 0
    /\ stopped = FALSE /\ collecting = TRUE
    /\ pc = [c \in Callers |-> "idle"]
    /\ key \in [Callers -> Keys]
    /\ cdAt = [c \in Callers |-> Nothing]
    /\ answer = [c \in Callers |-> Nothing]

-----------------------------------------------------------------------------
Set(k) ==
    /\ ~stopped /\ last < MaxStores /\ Fits
    /\ last' = last + 1
    /\ m' = [m EXCEPT ![k] = last + 1]
    /\ UNCHANGED <<horizon, stopped, collecting, callers>>

\* Also Set of a nil value.
Invalidate(k) ==
    /\ ~stopped
    /\ m' = [m EXCEPT ![k] = Nothing]
    /\ UNCHANGED <<last, horizon, stopped, collecting, callers>>

-----------------------------------------------------------------------------
(* Get.                                                                    *)

GetBegins(c, k) ==
    /\ pc[c] = "idle" /\ ~stopped
    /\ pc' = [pc EXCEPT ![c] = "read"]
    /\ key' = [key EXCEPT ![c] = k]
    /\ UNCHANGED <<m, last, horizon, stopped, collecting, cdAt, answer>>

GetReads(c) ==
    /\ pc[c] = "read"
    /\ cdAt' = [cdAt EXCEPT ![c] = m[key[c]]]
    /\ pc' = [pc EXCEPT ![c] = "judge"]
    /\ UNCHANGED <<m, last, horizon, stopped, collecting, key, answer>>

AfterJudgement(c) == IF cdAt[c] # Nothing /\ Expired(cdAt[c]) THEN "purge" ELSE "idle"

GetJudges(c) ==
    /\ pc[c] = "judge"
    /\ pc' = [pc EXCEPT ![c] = AfterJudgement(c)]
    /\ IF AfterJudgement(c) = "idle"
       THEN /\ answer' = [answer EXCEPT ![c] = cdAt[c]]
            /\ cdAt' = [cdAt EXCEPT ![c] = Nothing]
       ELSE UNCHANGED <<cdAt, answer>>
    /\ UNCHANGED <<m, last, horizon, stopped, collecting, key>>

\* Deletes whatever the key has by now.
GetPurges(c) ==
    /\ pc[c] = "purge"
    /\ m' = [m EXCEPT ![key[c]] = Nothing]
    /\ answer' = [answer EXCEPT ![c] = Nothing]
    /\ cdAt' = [cdAt EXCEPT ![c] = Nothing]
    /\ pc' = [pc EXCEPT ![c] = "idle"]
    /\ UNCHANGED <<last, horizon, stopped, collecting, key>>

-----------------------------------------------------------------------------
(* The collector, time and Stop.                                           *)

Collected == [k \in Keys |-> IF Expired(m[k]) THEN Nothing ELSE m[k]]

Collect ==
    /\ collecting
    /\ m' = Collected
    /\ UNCHANGED <<last, horizon, stopped, collecting, callers>>

CollectorEnds ==
    /\ stopped /\ collecting
    /\ collecting' = FALSE
    /\ UNCHANGED <<m, last, horizon, stopped, callers>>

TimePasses ==
    /\ horizon < last
    /\ horizon' = horizon + 1
    /\ UNCHANGED <<m, last, stopped, collecting, callers>>

Stop ==
    /\ ~stopped
    /\ stopped' = TRUE
    /\ UNCHANGED <<m, last, horizon, collecting, callers>>

-----------------------------------------------------------------------------
GetStep(c) == GetReads(c) \/ GetJudges(c) \/ GetPurges(c)

Next ==
    \/ \E k \in Keys : Set(k) \/ Invalidate(k)
    \/ \E c \in Callers : GetStep(c) \/ \E k \in Keys : GetBegins(c, k)
    \/ Collect \/ CollectorEnds \/ TimePasses \/ Stop

Spec == Init /\ [][Next]_vars

-----------------------------------------------------------------------------
Values == 0 .. last

TypeOK ==
    /\ last \in 0 .. MaxStores /\ horizon \in Values
    /\ m \in [Keys -> Values]
    /\ stopped \in BOOLEAN /\ collecting \in BOOLEAN
    /\ pc \in [Callers -> {"idle", "read", "judge", "purge"}]
    /\ key \in [Callers -> Keys]
    /\ cdAt \in [Callers -> Values] /\ answer \in [Callers -> Values]

\* A caller in Get as the promise sees it: before and after its one look.
Asked(step) == CASE step = "idle" -> "no" [] step = "read" -> "asked" [] OTHER -> "looked"

Promise == INSTANCE LossyStore WITH
    store <- m, asked <- [c \in Callers |-> Asked(pc[c])], seen <- cdAt

\* What the map promises its callers holds of its two-lock Get, its limit and
\* its collector: an answer is a value that was stored while the caller asked,
\* and what was invalidated, replaced or collected never comes back.
KeepsPromise == Promise!Spec

\* A value that is not expired is lost only to the caller who asked for it to
\* be removed, or to a Get that judged an older value of the same key and
\* deletes what has come since (Get drops the lock between the two).
FreshIsPurgedLate ==
    [][\A k \in Keys :
          m[k] > horizon /\ m'[k] = Nothing =>
              \/ Invalidate(k)
              \/ \E c \in Callers : key[c] = k /\ GetPurges(c) /\ cdAt[c] # m[k]]_vars
=============================================================================

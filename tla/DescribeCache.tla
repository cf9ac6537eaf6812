--------------------------- MODULE DescribeCache ---------------------------
(***************************************************************************)
(* The cache in front of GetDirectoryAssignments for one (subaccount,      *)
(* service, plan): a singleflight group and a TTL map, package-level state *)
(* shared by every reconcile (clients/entitlement/entitlement.go).         *)
(*                                                                         *)
(* A read joins the flight on its key or starts one.  The flight's closure *)
(* does the rest, a step at a time: an ordinary one loads the entry, whose *)
(* value is the answer while it is fresh; otherwise the flight stamps and  *)
(* sends a request, and stores the answer with LoadOrStore and             *)
(* CompareAndSwap.  The assignment is abstracted to its version: the       *)
(* number of writes BTP has done.                                          *)
(***************************************************************************)
EXTENDS Integers, FiniteSets

CONSTANTS
    Reconciles, \* the reconciles that ask
    MaxWrites,  \* bound: writes
    MaxIssues   \* bound: requests issued

ASSUME ConstantsAssumption == MaxWrites \in Nat /\ MaxIssues \in Nat

Kinds == {"ordinary", "fresh"}    \* flight keys: k and "fresh|" + k
Unserved == -1
Times == 0 .. MaxIssues

VARIABLES
    ver,        \* BTP: the version
    now,        \* requests issued so far: the time a request is stamped with
    aged,       \* entries stamped until then are older than describeCacheT
    cache,      \* describeCache: no entry, or one
    flight,     \* describeGroup: per flight key, no flight or one
    waiting,    \* per caller: the flight key it waits on, or "no"
    wver,       \* per caller: the version it wrote and has not yet invalidated for, or 0
    quiet,      \* history: newest version invalidated while no older answer was on its way
    verAt,      \* history: the version at each time
    owed,       \* history: the version that the caller's read must see
    got,        \* the version the caller's last read returned, or Unserved
    kept        \* history: newest stamp of an answer stored since the last invalidation

describeVars == <<ver, now, aged, cache, flight, waiting, wver, quiet, verAt, owed, got, kept>>

Entries == [val : Nat, at : Times]
Steps == {"lookup", "purge", "stamp", "sent", "store", "swap", "return"}
Flights == [step : Steps, val : Nat \cup {Unserved}, at : Times,
            prev : SUBSET Entries,   \* the entry that the closure has loaded
            floor : Nat]             \* history: the version a TTL before the flight began

DescribeInit ==
    /\ ver = 0 /\ now = 0 /\ aged = 0
    /\ cache = {}
    /\ flight = [k \in Kinds |-> {}]
    /\ waiting = [c \in Reconciles |-> "no"]
    /\ wver = [c \in Reconciles |-> 0]
    /\ quiet = 0
    /\ verAt = [t \in Times |-> 0]
    /\ owed = [c \in Reconciles |-> 0]
    /\ got = [c \in Reconciles |-> Unserved]
    /\ kept = 0

BugNotInvalidated == cache
BugSwapsBlindly(f) == TRUE

Larger(a, b) == IF a > b THEN a ELSE b
Idle(c) == waiting[c] = "no" /\ wver[c] = 0
Answered(f) == f.val # Unserved
Fresh(e) == e.at > aged

\* A flight at its next step, and with what it has loaded, what it was given
\* as its answer, or its stamp.
To(f, s) == [f EXCEPT !.step = s]
Holding(f, p) == [f EXCEPT !.prev = p]
Given(f, v) == [f EXCEPT !.val = v]
Issued(f, t) == [f EXCEPT !.at = t]

Entry(f) == [val |-> f.val, at |-> f.at]

\* The closure that describeGroup.Do runs for the first caller.
Begun(k) == [step |-> IF k = "fresh" THEN "stamp" ELSE "lookup", val |-> Unserved,
             at |-> 0, prev |-> {}, floor |-> verAt[aged]]

\* fetchAssignments: join the flight on the key, or begin one.
Ask(c, k) ==
    /\ Idle(c)
    /\ \E f \in IF flight[k] = {} THEN {Begun(k)} ELSE flight[k] :
          /\ flight' = [flight EXCEPT ![k] = {f}]
          /\ owed' = [owed EXCEPT ![c] = Larger(quiet, f.floor)]
    /\ waiting' = [waiting EXCEPT ![c] = k]
    /\ got' = [got EXCEPT ![c] = Unserved]
    /\ UNCHANGED <<ver, now, aged, cache, wver, quiet, verAt, kept>>

\* The flight of k goes from step to step, and changes nothing else of the callers.
FlightStep(k, f, g) ==
    /\ f \in flight[k]
    /\ flight' = [flight EXCEPT ![k] = {g}]
    /\ UNCHANGED <<ver, aged, waiting, wver, quiet, owed, got>>

\* describeCacheGet: no entry, one that is fresh, or one to be purged.
Lookup(k) ==
    \E f \in flight[k] :
        /\ f.step = "lookup"
        /\ \/ /\ cache = {}
              /\ FlightStep(k, f, To(f, "stamp"))
           \/ \E e \in cache :
                /\ Fresh(e)
                /\ FlightStep(k, f, Given(To(f, "return"), e.val))
           \/ \E e \in cache :
                /\ ~Fresh(e)
                /\ FlightStep(k, f, Holding(To(f, "purge"), {e}))
        /\ UNCHANGED <<now, cache, verAt, kept>>

\* describeCacheGet: CompareAndDelete spares an entry stored in between.
Purge(k) ==
    \E f \in flight[k] :
        /\ f.step = "purge"
        /\ FlightStep(k, f, Holding(To(f, "stamp"), {}))
        /\ cache' = cache \ f.prev
        /\ UNCHANGED <<now, verAt, kept>>

\* issuedAt is taken, and the request goes out.
Stamp(k) ==
    \E f \in flight[k] :
        /\ f.step = "stamp" /\ now < MaxIssues
        /\ now' = now + 1
        /\ verAt' = [verAt EXCEPT ![now + 1] = ver]
        /\ FlightStep(k, f, Issued(To(f, "sent"), now + 1))
        /\ UNCHANGED <<cache, kept>>

\* BTP answers, some time after the request was sent and before it is stored.
Serve(k) ==
    \E f \in flight[k] :
        /\ f.step = "sent"
        /\ FlightStep(k, f, Given(To(f, "store"), ver))
        /\ UNCHANGED <<now, cache, verAt, kept>>

\* describeCacheStore: LoadOrStore stores where nothing is, gives up before
\* an entry that was issued no earlier, and otherwise goes on to replace it.
LoadOrStore(k) ==
    \E f \in flight[k] :
        /\ f.step = "store"
        /\ \/ /\ cache = {}
              /\ cache' = {Entry(f)} /\ kept' = Larger(kept, f.at)
              /\ FlightStep(k, f, To(f, "return"))
           \/ \E e \in cache :
                /\ f.at <= e.at
                /\ kept' = Larger(kept, f.at) /\ UNCHANGED cache
                /\ FlightStep(k, f, To(f, "return"))
           \/ \E e \in cache :
                /\ f.at > e.at
                /\ FlightStep(k, f, Holding(To(f, "swap"), {e}))
                /\ UNCHANGED <<cache, kept>>
        /\ UNCHANGED <<now, verAt>>

\* CompareAndSwap replaces the entry that was loaded; another one there, or
\* none, sends the flight back to LoadOrStore.
Unchanged(f) == cache = f.prev

CompareAndSwap(k) ==
    \E f \in flight[k] :
        /\ f.step = "swap"
        /\ \/ /\ Unchanged(f)
              /\ cache' = {Entry(f)} /\ kept' = Larger(kept, f.at)
              /\ FlightStep(k, f, Holding(To(f, "return"), {}))
           \/ /\ ~Unchanged(f)
              /\ FlightStep(k, f, Holding(To(f, "store"), {}))
              /\ UNCHANGED <<cache, kept>>
        /\ UNCHANGED <<now, verAt>>

\* The closure returns: every waiter gets its answer.
Return(k) ==
    \E f \in flight[k] :
        /\ f.step = "return"
        /\ flight' = [flight EXCEPT ![k] = {}]
        /\ got' = [c \in Reconciles |-> IF waiting[c] = k THEN f.val ELSE got[c]]
        /\ waiting' = [c \in Reconciles |-> IF waiting[c] = k THEN "no" ELSE waiting[c]]
        /\ UNCHANGED <<ver, now, aged, cache, wver, quiet, verAt, owed, kept>>

\* The request fails: nothing is stored, every waiter gets the error.
Fail(k) ==
    /\ \E f \in flight[k] : f.step = "sent"
    /\ flight' = [flight EXCEPT ![k] = {}]
    /\ waiting' = [c \in Reconciles |-> IF waiting[c] = k THEN "no" ELSE waiting[c]]
    /\ UNCHANGED <<ver, now, aged, cache, wver, quiet, verAt, owed, got, kept>>

\* The TTL of whatever was stamped next passes.
Age ==
    /\ aged < now
    /\ aged' = aged + 1
    /\ UNCHANGED <<ver, now, cache, flight, waiting, wver, quiet, verAt, owed, got, kept>>

\* UpdateInstance: SetServicePlans reaches BTP ...
Write(c) ==
    /\ Idle(c) /\ ver < MaxWrites
    /\ ver' = ver + 1
    /\ wver' = [wver EXCEPT ![c] = ver + 1]
    /\ UNCHANGED <<now, aged, cache, flight, waiting, quiet, verAt, owed, got, kept>>

\* ... and once it returned, describeCache.Delete ...
Invalidated == {}
OlderOnItsWay(v) == \E k \in Kinds : \E f \in flight[k] : Answered(f) /\ f.val < v

Drop(c) ==
    /\ wver[c] > 0
    /\ cache' = Invalidated /\ kept' = 0
    /\ quiet' = IF OlderOnItsWay(wver[c]) THEN quiet ELSE Larger(quiet, wver[c])
    /\ wver' = [wver EXCEPT ![c] = 0]
    /\ UNCHANGED <<ver, now, aged, flight, waiting, verAt, owed, got>>

\* ... but not when the call returned an error, although BTP wrote.
WriteUnanswered(c) ==
    /\ wver[c] > 0
    /\ wver' = [wver EXCEPT ![c] = 0]
    /\ UNCHANGED <<ver, now, aged, cache, flight, waiting, quiet, verAt, owed, got, kept>>

FlightGoesOn(k) ==
    \/ Lookup(k) \/ Purge(k) \/ Stamp(k) \/ Serve(k)
    \/ LoadOrStore(k) \/ CompareAndSwap(k) \/ Return(k) \/ Fail(k)

DescribeNext ==
    \/ \E c \in Reconciles : (\E k \in Kinds : Ask(c, k)) \/ Write(c) \/ Drop(c) \/ WriteUnanswered(c)
    \/ \E k \in Kinds : FlightGoesOn(k)
    \/ Age

DescribeSpec == DescribeInit /\ [][DescribeNext]_describeVars

-----------------------------------------------------------------------------
DescribeTypeOK ==
    /\ ver \in Nat /\ now \in Times /\ aged \in Times /\ quiet \in Nat /\ kept \in Times
    /\ cache \in SUBSET Entries
    /\ flight \in [Kinds -> SUBSET Flights]
    /\ waiting \in [Reconciles -> Kinds \cup {"no"}]
    /\ wver \in [Reconciles -> Nat]
    /\ verAt \in [Times -> Nat]
    /\ owed \in [Reconciles -> Nat]
    /\ got \in [Reconciles -> Nat \cup {Unserved}]

\* A read sees, first, every write whose invalidation came before the read
\* began, unless an answer older than the write was still on its way then: loaded
\* from the entry or served by BTP, but not yet returned and stored.  It sees,
\* secondly and whatever was on its way or left uninvalidated, every write older
\* than a TTL when the flight that answers it began (UpdateInstance,
\* describeCacheGet, issuedAt).
ReadsAreRecent ==
    \A c \in Reconciles : waiting[c] = "no" /\ got[c] # Unserved => got[c] >= owed[c]

\* "this stops a slower ordinary/fresh flight from regressing an
\* already-cached response" (describeCacheStore, describeCacheGet): what a
\* flight has stored is in the cache, or something issued later is, until it
\* is invalidated or expires, however stores and purges of other flights overlap.
StoredAnswersStand == kept > aged => \E e \in cache : e.at >= kept
=============================================================================

------------------------------ MODULE LossyStore ------------------------------
(***************************************************************************)
(* What a memoization map promises its callers (internal/memoize): values  *)
(* are stored under keys, at most KeyLimit of them at a time, and may be   *)
(* lost at any moment.  A question is answered with nothing, or with the   *)
(* value that was stored at one moment between the question and the        *)
(* answer: a lost or replaced value never comes back.                      *)
(***************************************************************************)
EXTENDS Integers, FiniteSets

CONSTANTS Keys, Callers, KeyLimit

Nothing == 0

VARIABLES
    store,   \* the value of each key; values are numbered as they are stored
    last,    \* the number of the newest value
    asked,   \* the callers with a question, and those who looked already
    key,     \* what each caller asked for
    seen,    \* what it saw
    answer   \* its last answer

vars == <<store, last, asked, key, seen, answer>>

Stored(s) == {k \in Keys : s[k] # Nothing}

Init ==
    /\ store = [k \in Keys |-> Nothing] /\ last = 0
    /\ asked = [c \in Callers |-> "no"]
    /\ key \in [Callers -> Keys]
    /\ seen = [c \in Callers |-> Nothing]
    /\ answer = [c \in Callers |-> Nothing]

Put(k) ==
    /\ Cardinality(Stored(store)) < KeyLimit
    /\ last' = last + 1
    /\ store' = [store EXCEPT ![k] = last + 1]
    /\ UNCHANGED <<asked, key, seen, answer>>

Lose ==
    /\ \E gone \in SUBSET Keys :
          store' = [k \in Keys |-> IF k \in gone THEN Nothing ELSE store[k]]
    /\ UNCHANGED <<last, asked, key, seen, answer>>

Ask(c, k) ==
    /\ asked[c] = "no"
    /\ asked' = [asked EXCEPT ![c] = "asked"]
    /\ key' = [key EXCEPT ![c] = k]
    /\ UNCHANGED <<store, last, seen, answer>>

Look(c) ==
    /\ asked[c] = "asked"
    /\ asked' = [asked EXCEPT ![c] = "looked"]
    /\ seen' = [seen EXCEPT ![c] = store[key[c]]]
    /\ UNCHANGED <<store, last, key, answer>>

\* A caller that answers nothing may lose the key as it does.
Answer(c) ==
    /\ asked[c] = "looked"
    /\ asked' = [asked EXCEPT ![c] = "no"]
    /\ seen' = [seen EXCEPT ![c] = Nothing]
    /\ \/ answer' = [answer EXCEPT ![c] = seen[c]] /\ UNCHANGED store
       \/ /\ answer' = [answer EXCEPT ![c] = Nothing]
          /\ store' \in {store, [store EXCEPT ![key[c]] = Nothing]}
    /\ UNCHANGED <<last, key>>

Next ==
    \/ Lose
    \/ \E k \in Keys : Put(k)
    \/ \E c \in Callers : Look(c) \/ Answer(c) \/ \E k \in Keys : Ask(c, k)

Spec == Init /\ [][Next]_vars
=============================================================================

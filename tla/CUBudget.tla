------------------------------- MODULE CUBudget -------------------------------
(***************************************************************************)
(* The day's API credits (CU).  Every task that calls Birdeye first asks   *)
(* whether the call fits under the daily cap and under its component's own *)
(* daily budget, then awaits the answer, and the ledger is charged when    *)
(* the answer is there: check, await, charge, with the other tasks running *)
(* in between.  The ledger is a table; the components' counters are fields *)
(* of objects that die with the process.                                   *)
(***************************************************************************)
EXTENDS Integers, FiniteSets

CONSTANTS
    Callers,     \* tasks that call the API, one call at a time each
    Components,  \* code with a budget check of its own
    Metered,     \* the components with a daily_cu_budget
    Uses,        \* the components each caller goes through
    Cost,        \* cu_cost of a component's call
    MaxCalls,    \* calls one check may admit: the tape asks for its pages at once
    Budget,      \* daily_cu_budget of a metered component
    Cap,         \* daily_cu_cap
    Largest,     \* the most one check admits, in CU
    None,
    LastDay      \* bound: the days of a run

ASSUME BudgetAssumption ==
    /\ IsFiniteSet(Callers) /\ Callers # {}
    /\ Metered \subseteq Components
    /\ Uses \in [Callers -> SUBSET Components]
    /\ Cost \in [Components -> Nat]
    /\ MaxCalls \in [Components -> Nat]
    /\ Budget \in [Metered -> Nat]
    /\ {Cap, Largest, LastDay} \subseteq Nat
    /\ Largest <= Cap
    /\ \A m \in Components : Cost[m] * MaxCalls[m] <= Largest

\* A component that may be asked for several pages at once has one caller: the
\* tape's polls hold eval_lock.
ASSUME PagesAssumption ==
    \A m \in Metered : MaxCalls[m] > 1 =>
        \A c, d \in Callers : m \in Uses[c] /\ m \in Uses[d] => c = d

VARIABLES
    day,    \* the local day
    total,  \* CU the ledger has for the day
    spent,  \* history: the same by component
    meter,  \* cu_today and _day of each metered component
    call    \* what each caller awaits, or None

vars == <<day, total, spent, meter, call>>

-----------------------------------------------------------------------------
Meter == [cu : Nat, day : Nat]
Call == [of : Components, left : Nat, paid : Nat]

ASSUME NoneAssumption == None \notin Call

\* The counter as _budget_ok sees it: a new day empties it, but only here.
Rolled(m) == IF meter[m].day = day THEN meter[m] ELSE [cu |-> 0, day |-> day]

Roll(m) ==
    meter' = IF m \in Metered THEN [meter EXCEPT ![m] = Rolled(m)] ELSE meter

\* CU a caller has been granted and not yet paid.
Owed(c) == IF call[c] = None THEN 0 ELSE call[c].left * Cost[call[c].of]

-----------------------------------------------------------------------------
\* Mutated forms of the definitions below.
IgnoresLedger(m, n) ==
    m \in Metered => Rolled(m).cu + n * Cost[m] <= Budget[m]

SettlesToday(m, cu) ==
    meter' = IF m \in Metered
             THEN [meter EXCEPT ![m] = [cu |-> @.cu + cu, day |-> day]]
             ELSE meter

-----------------------------------------------------------------------------
\* _budget_ok for n calls of component m.
Fits(m, n) ==
    /\ m \in Metered => Rolled(m).cu + n * Cost[m] <= Budget[m]
    /\ total + n * Cost[m] <= Cap

Admit(c, m, n) ==
    /\ call[c] = None /\ m \in Uses[c]
    /\ Fits(m, n)
    /\ Roll(m)
    /\ call' = [call EXCEPT ![c] = [of |-> m, left |-> n, paid |-> 0]]
    /\ UNCHANGED <<day, total, spent>>

Refuse(c, m, n) ==
    /\ call[c] = None /\ m \in Uses[c]
    /\ ~Fits(m, n)
    /\ Roll(m)
    /\ UNCHANGED <<day, total, spent, call>>

\* The last answer is in: the component adds what it paid to its counter, as
\* it stands, rolled or not.
Settle(m, cu) ==
    meter' = IF m \in Metered THEN [meter EXCEPT ![m].cu = @ + cu] ELSE meter

Charge(m) ==
    /\ total' = total + Cost[m]
    /\ spent' = [spent EXCEPT ![m] = @ + Cost[m]]

\* An answer that is charged; the caller asks for its next page, or is done,
\* early when there are no more pages.
NextPage(c) ==
    /\ call[c] # None /\ call[c].left > 1
    /\ Charge(call[c].of)
    /\ call' = [call EXCEPT ![c].left = @ - 1, ![c].paid = @ + Cost[call[c].of]]
    /\ UNCHANGED <<day, meter>>

Answered(c) ==
    /\ call[c] # None /\ call[c].left > 0
    /\ Charge(call[c].of)
    /\ Settle(call[c].of, call[c].paid + Cost[call[c].of])
    /\ call' = [call EXCEPT ![c] = None]
    /\ UNCHANGED day

\* The client gives up on an error, which is not charged.
Failed(c) ==
    /\ call[c] # None
    /\ Settle(call[c].of, call[c].paid)
    /\ call' = [call EXCEPT ![c] = None]
    /\ UNCHANGED <<day, total, spent>>

Midnight ==
    /\ day < LastDay
    /\ day' = day + 1
    /\ total' = 0
    /\ spent' = [m \in Components |-> 0]
    /\ UNCHANGED <<meter, call>>

\* A new process reads the ledger's table and starts with empty counters.
Restart ==
    /\ meter' = [m \in Metered |-> [cu |-> 0, day |-> day]]
    /\ call' = [c \in Callers |-> None]
    /\ UNCHANGED <<day, total, spent>>

Init ==
    /\ day = 0
    /\ total = 0
    /\ spent = [m \in Components |-> 0]
    /\ meter = [m \in Metered |-> [cu |-> 0, day |-> 0]]
    /\ call = [c \in Callers |-> None]

Next ==
    \/ \E c \in Callers :
          \/ \E m \in Components : \E n \in 1 .. MaxCalls[m] : Admit(c, m, n) \/ Refuse(c, m, n)
          \/ NextPage(c) \/ Answered(c) \/ Failed(c)
    \/ Midnight \/ Restart

Spec == Init /\ [][Next]_vars

-----------------------------------------------------------------------------
TypeOK ==
    /\ day \in Nat /\ total \in Nat
    /\ spent \in [Components -> Nat]
    /\ meter \in [Metered -> Meter]
    /\ call \in [Callers -> Call \cup {None}]

\* The granted CU of all callers, one element each.
Slots == {s \in Callers \X (1 .. Largest) : s[2] <= Owed(s[1])}

Overshoot == (Cardinality(Callers) - 1) * Largest

\* Between the check and the charge every other task may pass the same check
\* (_budget_ok, Stage0Scanner.cycle, CULedger.record), so the day's charges can
\* pass the cap.  But the charges and the grants still open stay together
\* within the cap and one grant for every other caller, also across midnight
\* and restarts.
OvershootBounded == total + Cardinality(Slots) <= Cap + Overshoot

\* A counter that has seen the day never counts more than the ledger shows for
\* its component, so no call is refused for CU that was not spent (_roll_day,
\* and the additions to cu_today after the await).
NeverOverstates ==
    \A m \in Metered : meter[m].day = day => meter[m].cu <= spent[m]
=============================================================================

---------------------------- MODULE CUBudgetProofs ----------------------------
(***************************************************************************)
(* The overshoot of the daily cap is bounded for every number of callers,  *)
(* every price list and every cap.  The credits a caller has been granted  *)
(* and not yet paid are a column of as many elements; a grant needs room   *)
(* for its own column under the cap, and the other columns have at most    *)
(* Largest elements each.                                                  *)
(***************************************************************************)
EXTENDS CUBudget, FiniteSetTheorems, TLAPS

\* The columns under an arbitrary assignment of owed credits to callers.
Columns(f) == {s \in Callers \X (1 .. Largest) : s[2] <= f[s[1]]}
Others(f, c) == {s \in Columns(f) : s[1] # c}

\* The other callers' columns are at most Largest high.
LEMMA OthersBounded ==
  ASSUME NEW f \in [Callers -> 0 .. Largest], NEW c \in Callers
  PROVE  /\ IsFiniteSet(Others(f, c))
         /\ Cardinality(Others(f, c)) \in Nat
         /\ Cardinality(Others(f, c)) <= Overshoot
<1> DEFINE Rest == Callers \ {c}
<1>1. /\ IsFiniteSet(Callers) /\ Largest \in Nat
      /\ Cardinality(Callers) \in Nat
  BY BudgetAssumption, FS_CardinalityType
<1>2. IsFiniteSet(Rest) /\ Cardinality(Rest) = Cardinality(Callers) - 1
  BY <1>1, FS_RemoveElement
<1>3. IsFiniteSet(1 .. Largest) /\ Cardinality(1 .. Largest) = Largest
  BY <1>1, FS_Interval
<1>4. Others(f, c) \in SUBSET (Rest \X (1 .. Largest))
  BY DEF Others, Columns
<1> HIDE DEF Rest
<1>5. /\ IsFiniteSet(Rest \X (1 .. Largest))
      /\ Cardinality(Rest \X (1 .. Largest)) = Cardinality(Rest) * Cardinality(1 .. Largest)
  BY <1>2, <1>3, FS_Product
<1>6. /\ IsFiniteSet(Others(f, c))
      /\ Cardinality(Others(f, c)) <= Cardinality(Rest \X (1 .. Largest))
  BY <1>4, <1>5, FS_Subset
<1>7. Cardinality(Others(f, c)) \in Nat
  BY <1>6, FS_CardinalityType
<1> QED
  BY <1>2, <1>3, <1>5, <1>6, <1>7 DEF Overshoot

\* All columns are one caller's and the others'.
LEMMA ColumnsSplit ==
  ASSUME NEW f \in [Callers -> 0 .. Largest], NEW c \in Callers
  PROVE  Cardinality(Columns(f)) = Cardinality(Others(f, c)) + f[c]
<1> DEFINE Own == {c} \X (1 .. f[c])
<1>1. Largest \in Nat /\ f[c] \in 0 .. Largest
  BY BudgetAssumption
<1>2. IsFiniteSet(1 .. f[c]) /\ Cardinality(1 .. f[c]) = f[c]
  BY <1>1, FS_Interval
<1>3. IsFiniteSet({c}) /\ Cardinality({c}) = 1
  BY FS_Singleton
<1>4. IsFiniteSet(Own) /\ Cardinality(Own) = f[c]
  <2>1. IsFiniteSet(Own) /\ Cardinality(Own) = Cardinality({c}) * Cardinality(1 .. f[c])
    BY <1>2, <1>3, FS_Product
  <2> QED
    BY <1>1, <1>2, <1>3, <2>1
<1>5. Columns(f) = Others(f, c) \cup Own
  BY <1>1 DEF Columns, Others
<1>6. Others(f, c) \cap Own = {}
  BY DEF Others
<1> HIDE DEF Own
<1>7. IsFiniteSet(Others(f, c)) /\ Cardinality(Others(f, c)) \in Nat
  BY OthersBounded
<1>8. Cardinality(Columns(f)) = Cardinality(Others(f, c)) + Cardinality(Own)
                                - Cardinality(Others(f, c) \cap Own)
  BY <1>4, <1>5, <1>7, FS_Union
<1>9. Cardinality(Others(f, c) \cap Own) = 0
  BY <1>6, FS_EmptySet
<1> QED
  BY <1>1, <1>4, <1>7, <1>8, <1>9

\* When only one caller's debt changes, the others' columns stay.
LEMMA SameOthers ==
  ASSUME NEW f, NEW g, NEW c,
         \A d \in Callers \ {c} : f[d] = g[d]
  PROVE  Others(f, c) = Others(g, c)
  BY DEF Others, Columns

-----------------------------------------------------------------------------
\* What each caller owes, as a function.
Debt == [c \in Callers |-> Owed(c)]

DebtOK == \A c \in Callers : Owed(c) \in 0 .. Largest

\* OvershootBounded needs that no grant is larger than Largest.
IInv == TypeOK /\ DebtOK /\ OvershootBounded

\* The slots are the columns of the callers' debts.
LEMMA SlotsAreColumns == Slots = Columns(Debt) /\ Slots' = Columns(Debt')
  BY DEF Slots, Columns, Debt, Owed

\* Prices and grants are whole numbers, and a partly used grant is a grant.
LEMMA GrantSize ==
  ASSUME NEW m \in Components, NEW n \in 1 .. MaxCalls[m]
  PROVE  Cost[m] \in Nat /\ n * Cost[m] \in 0 .. Largest
<1>1. Cost[m] \in Nat /\ MaxCalls[m] \in Nat /\ Largest \in Nat
      /\ Cost[m] * MaxCalls[m] <= Largest
  BY BudgetAssumption
<1>2. n * Cost[m] \in Nat /\ n * Cost[m] <= Cost[m] * MaxCalls[m]
  BY <1>1
<1> QED
  BY <1>1, <1>2

\* One call less is one price less.
LEMMA OneLess ==
  ASSUME NEW n \in Nat, NEW u \in Nat
  PROVE  (n - 1) * u = n * u - u
  OBVIOUS

\* A call with one page answered is a call with one page less to come.
LEMMA PartPaid ==
  ASSUME NEW e \in Call, e.left > 0, NEW u \in Nat
  PROVE  LET r == [e EXCEPT !.left = @ - 1, !.paid = @ + u]
         IN  r \in Call /\ r.left = e.left - 1 /\ r.of = e.of
<1>1. e.left - 1 \in Nat /\ e.paid + u \in Nat
  BY DEF Call
<1>2. ASSUME NEW x \in Nat, NEW y \in Nat
      PROVE  LET r == [e EXCEPT !.left = x, !.paid = y]
             IN  r \in Call /\ r.left = x /\ r.of = e.of
  BY DEF Call
<1> QED
  BY <1>1, <1>2

\* A caller whose debt falls by at least what is charged keeps the bound.
LEMMA PayingKeepsBound ==
  ASSUME IInv, DebtOK', NEW c \in Callers, total' \in Nat,
         \A d \in Callers \ {c} : Owed(d)' = Owed(d),
         total' + Owed(c)' <= total + Owed(c)
  PROVE  OvershootBounded'
<1>1. Debt \in [Callers -> 0 .. Largest] /\ Debt' \in [Callers -> 0 .. Largest]
  BY DEF IInv, DebtOK, Debt
<1>2. Others(Debt', c) = Others(Debt, c)
  <2>1. \A d \in Callers \ {c} : Debt[d] = Debt'[d]
    BY DEF Debt
  <2> HIDE DEF Debt
  <2> QED
    BY <2>1, SameOthers
<1>3. Cardinality(Columns(Debt)) = Cardinality(Others(Debt, c)) + Debt[c]
  BY <1>1, ColumnsSplit
<1>4. Cardinality(Columns(Debt')) = Cardinality(Others(Debt', c)) + Debt'[c]
  BY <1>1, ColumnsSplit
<1>5. Cardinality(Others(Debt, c)) \in Nat
  BY <1>1, OthersBounded
<1>6. Debt[c] = Owed(c) /\ Debt'[c] = Owed(c)'
  BY DEF Debt
<1>7. Owed(c) \in Nat /\ Owed(c)' \in Nat /\ total \in Nat
  BY BudgetAssumption DEF IInv, DebtOK, TypeOK
<1>8. Cap + Overshoot \in Int
  BY BudgetAssumption, FS_CardinalityType DEF Overshoot
<1>9. total + Cardinality(Columns(Debt)) <= Cap + Overshoot
  BY SlotsAreColumns DEF IInv, OvershootBounded
<1> HIDE DEF Debt
<1>10. total' + Cardinality(Columns(Debt')) <= Cap + Overshoot
  BY <1>2, <1>3, <1>4, <1>5, <1>6, <1>7, <1>8, <1>9
<1> QED
  BY <1>10, SlotsAreColumns DEF OvershootBounded, Overshoot

\* A caller whose new debt fits under the cap keeps the bound, whatever the
\* others owe.
LEMMA GrantKeepsBound ==
  ASSUME DebtOK', NEW c \in Callers, total' \in Nat,
         total' + Owed(c)' <= Cap
  PROVE  OvershootBounded'
<1>1. Debt' \in [Callers -> 0 .. Largest]
  BY DEF DebtOK, Debt
<1>2. Debt'[c] = Owed(c)'
  BY DEF Debt
<1>3. Owed(c)' \in Nat
  BY BudgetAssumption DEF DebtOK
<1> HIDE DEF Debt
<1>4. /\ Cardinality(Columns(Debt')) = Cardinality(Others(Debt', c)) + Debt'[c]
      /\ Cardinality(Others(Debt', c)) \in Nat
      /\ Cardinality(Others(Debt', c)) <= Overshoot
  BY <1>1, ColumnsSplit, OthersBounded
<1>5. Cap \in Nat /\ Overshoot \in Int
  BY BudgetAssumption, FS_CardinalityType DEF Overshoot
<1>6. total' + Cardinality(Columns(Debt')) <= Cap + Overshoot
  BY <1>2, <1>3, <1>4, <1>5
<1> QED
  BY <1>6, SlotsAreColumns DEF OvershootBounded, Overshoot

-----------------------------------------------------------------------------
\* The initial state satisfies the invariant.
LEMMA InitIInv == Init => IInv
<1> SUFFICES ASSUME Init PROVE IInv
  OBVIOUS
<1>1. TypeOK
  BY DEF Init, TypeOK, Meter
<1>2. \A c \in Callers : Owed(c) = 0
  BY DEF Init, Owed
<1>3. Slots = {}
  BY <1>2, BudgetAssumption DEF Slots
<1>4. Cardinality(Callers) \in Nat /\ Cardinality(Callers) # 0
  BY BudgetAssumption, FS_CardinalityType, FS_EmptySet
<1>5. (Cardinality(Callers) - 1) * Largest \in Nat
  <2>1. Cardinality(Callers) - 1 \in Nat /\ Largest \in Nat
    BY <1>4, BudgetAssumption
  <2> QED
    BY <2>1
<1>6. OvershootBounded
  BY <1>3, <1>5, FS_EmptySet, BudgetAssumption DEF Init, OvershootBounded, Overshoot
<1>7. DebtOK
  BY <1>2, BudgetAssumption DEF DebtOK
<1> QED
  BY <1>1, <1>6, <1>7 DEF IInv

\* The counters keep their type when they are rolled and when they are settled.
LEMMA MeterTypes ==
  ASSUME TypeOK, NEW m \in Components, NEW cu \in Nat
  PROVE  /\ Roll(m) => meter' \in [Metered -> Meter]
         /\ Settle(m, cu) => meter' \in [Metered -> Meter]
<1>1. ASSUME m \in Metered
      PROVE  Rolled(m) \in Meter /\ [meter[m] EXCEPT !.cu = @ + cu] \in Meter
  BY <1>1 DEF Rolled, Meter, TypeOK
<1> QED
  BY <1>1 DEF Roll, Settle, TypeOK

\* Every step keeps the invariant.
LEMMA NextIInv == IInv /\ [Next]_vars => IInv'
<1> SUFFICES ASSUME IInv, [Next]_vars PROVE IInv'
  OBVIOUS
<1>0. TypeOK /\ DebtOK
  BY DEF IInv
<1>1. ASSUME NEW c \in Callers, NEW m \in Components, NEW n \in 1 .. MaxCalls[m],
             Admit(c, m, n)
      PROVE  IInv'
  <2>1. Cost[m] \in Nat /\ n * Cost[m] \in 0 .. Largest /\ n \in Nat
    BY GrantSize
  <2>2. TypeOK'
    <3>1. meter' \in [Metered -> Meter]
      BY <1>0, <1>1, MeterTypes DEF Admit
    <3>2. [of |-> m, left |-> n, paid |-> 0] \in Call
      BY <2>1 DEF Call
    <3> QED
      BY <1>0, <1>1, <3>1, <3>2 DEF Admit, TypeOK
  <2>3. /\ Owed(c)' = n * Cost[m]
        /\ \A d \in Callers \ {c} : Owed(d)' = Owed(d)
    <3>1. [of |-> m, left |-> n, paid |-> 0] \in Call
      BY <2>1 DEF Call
    <3> QED
      BY <1>0, <1>1, <3>1, NoneAssumption DEF Admit, Owed, TypeOK
  <2>4. DebtOK'
    BY <1>0, <2>1, <2>3 DEF DebtOK
  <2>5. total' + Owed(c)' <= Cap /\ total' \in Nat
    BY <1>0, <1>1, <2>3 DEF Admit, Fits, TypeOK
  <2> QED
    BY <2>2, <2>4, <2>5, GrantKeepsBound DEF IInv
<1>2. ASSUME NEW c \in Callers, NEW m \in Components, NEW n \in 1 .. MaxCalls[m],
             Refuse(c, m, n)
      PROVE  IInv'
  <2>1. meter' \in [Metered -> Meter]
    BY <1>0, <1>2, MeterTypes DEF Refuse
  <2>2. UNCHANGED <<day, total, spent, call>>
    BY <1>2 DEF Refuse
  <2> QED
    BY <2>1, <2>2 DEF IInv, TypeOK, DebtOK, OvershootBounded, Overshoot, Slots, Owed
<1>3. ASSUME NEW c \in Callers, NextPage(c) \/ Answered(c)
      PROVE  IInv'
  <2> DEFINE m == call[c].of
             u == Cost[call[c].of]
             k == call[c].left
  <2>1. call[c] \in Call
    BY <1>0, <1>3 DEF NextPage, Answered, TypeOK
  <2>2. m \in Components /\ k \in Nat /\ k > 0 /\ call[c].paid \in Nat /\ u \in Nat
    BY <1>3, <2>1, BudgetAssumption DEF Call, NextPage, Answered
  <2>3. total' = total + u /\ spent' = [spent EXCEPT ![m] = @ + u] /\ day' = day
    BY <1>3 DEF NextPage, Answered, Charge
  <2>4. total' \in Nat /\ spent' \in [Components -> Nat]
    BY <1>0, <2>2, <2>3 DEF TypeOK
  <2>5. Owed(c) = k * u
    BY <2>1, NoneAssumption DEF Owed
  <2>6. \A d \in Callers \ {c} : Owed(d)' = Owed(d)
    BY <1>0, <1>3 DEF NextPage, Answered, Owed, TypeOK
  <2>7. (k - 1) * u = k * u - u /\ k * u \in Nat /\ (k - 1) * u \in Nat
    <3>1. k - 1 \in Nat
      BY <2>2
    <3> HIDE DEF k, u
    <3> QED
      BY <2>2, <3>1, OneLess
  <2>8. /\ call' \in [Callers -> Call \cup {None}]
        /\ meter' \in [Metered -> Meter]
        /\ Owed(c)' \in 0 .. (k - 1) * u
    <3>1. CASE NextPage(c)
      <4> DEFINE r == [call[c] EXCEPT !.left = @ - 1, !.paid = @ + u]
      <4>1. r \in Call /\ r.left = k - 1 /\ r.of = m
        BY <2>1, <2>2, PartPaid
      <4>2. call' = [call EXCEPT ![c] = r] /\ meter' = meter
        BY <3>1 DEF NextPage
      <4> HIDE DEF r
      <4>3. call'[c] = r
        BY <1>0, <4>2 DEF TypeOK
      <4>4. Owed(c)' = (k - 1) * u
        <5>1. call'[c] # None
          BY <4>1, <4>3, NoneAssumption
        <5>2. Owed(c)' = call'[c].left * Cost[call'[c].of]
          BY <5>1 DEF Owed
        <5> QED
          BY <4>1, <4>3, <5>2
      <4> QED
        BY <1>0, <2>7, <4>1, <4>2, <4>4 DEF TypeOK
    <3>2. CASE Answered(c)
      <4>1. call[c].paid + u \in Nat
        BY <2>2
      <4>2. meter' \in [Metered -> Meter]
        BY <1>0, <2>2, <3>2, <4>1, MeterTypes DEF Answered
      <4>3. Owed(c)' = 0
        BY <1>0, <3>2 DEF Answered, Owed, TypeOK
      <4> QED
        BY <1>0, <2>7, <3>2, <4>2, <4>3 DEF Answered, TypeOK
    <3> QED
      BY <1>3, <3>1, <3>2
  <2>9. TypeOK'
    BY <1>0, <2>3, <2>4, <2>8 DEF TypeOK
  <2>10. Owed(c) \in 0 .. Largest /\ total \in Nat /\ Largest \in Nat
    BY <1>0, BudgetAssumption DEF DebtOK, TypeOK
  <2>11. /\ Owed(c)' \in 0 .. Largest
         /\ total' + Owed(c)' <= total + Owed(c)
    <3> HIDE DEF k, u, m
    <3> QED
      BY <2>2, <2>3, <2>5, <2>7, <2>8, <2>10
  <2>12. DebtOK'
    BY <1>0, <2>6, <2>11 DEF DebtOK
  <2> QED
    BY <2>4, <2>6, <2>9, <2>11, <2>12, PayingKeepsBound DEF IInv
<1>4. ASSUME NEW c \in Callers, Failed(c)
      PROVE  IInv'
  <2>1. call[c] \in Call
    BY <1>0, <1>4 DEF Failed, TypeOK
  <2>2. call[c].of \in Components /\ call[c].paid \in Nat
    BY <2>1 DEF Call
  <2>3. meter' \in [Metered -> Meter]
    BY <1>0, <1>4, <2>2, MeterTypes DEF Failed
  <2>4. TypeOK'
    BY <1>0, <1>4, <2>3 DEF Failed, TypeOK
  <2>5. Owed(c)' = 0 /\ \A d \in Callers \ {c} : Owed(d)' = Owed(d)
    BY <1>0, <1>4 DEF Failed, Owed, TypeOK
  <2>6. DebtOK' /\ Owed(c) \in 0 .. Largest
    BY <1>0, <2>5, BudgetAssumption DEF DebtOK
  <2>7. total' = total /\ total \in Nat
    BY <1>0, <1>4 DEF Failed, TypeOK
  <2>8. total' + Owed(c)' <= total + Owed(c)
    BY <2>5, <2>6, <2>7, BudgetAssumption
  <2> QED
    BY <2>4, <2>5, <2>6, <2>7, <2>8, PayingKeepsBound DEF IInv
<1>5. CASE Midnight
  <2>1. TypeOK'
    BY <1>0, <1>5 DEF Midnight, TypeOK
  <2>2. \A c \in Callers : Owed(c)' = Owed(c)
    BY <1>5 DEF Midnight, Owed
  <2>3. DebtOK'
    BY <1>0, <2>2 DEF DebtOK
  <2>4. PICK c \in Callers : TRUE
    BY BudgetAssumption
  <2>5. total' = 0 /\ Owed(c)' \in 0 .. Largest
    BY <1>5, <2>3 DEF Midnight, DebtOK
  <2>6. total' + Owed(c)' <= Cap
    BY <2>5, BudgetAssumption
  <2> QED
    BY <2>1, <2>3, <2>5, <2>6, GrantKeepsBound DEF IInv
<1>6. CASE Restart
  <2>1. TypeOK'
    BY <1>0, <1>6 DEF Restart, TypeOK, Meter
  <2>2. Slots' = {} /\ DebtOK'
    <3>1. \A c \in Callers : Owed(c)' = 0
      BY <1>6 DEF Restart, Owed
    <3> QED
      BY <3>1, BudgetAssumption DEF Slots, DebtOK
  <2>3. IsFiniteSet(Slots) /\ Cardinality(Slots) \in Nat
    <3>1. IsFiniteSet(Callers) /\ IsFiniteSet(1 .. Largest)
      BY BudgetAssumption, FS_Interval
    <3>2. IsFiniteSet(Callers \X (1 .. Largest))
      BY <3>1, FS_Product
    <3>3. Slots \in SUBSET (Callers \X (1 .. Largest))
      BY DEF Slots
    <3> QED
      BY <3>2, <3>3, FS_Subset, FS_CardinalityType
  <2>4. Cardinality(Slots') = 0 /\ total' = total /\ total \in Nat
    BY <1>0, <1>6, <2>2, FS_EmptySet DEF Restart, TypeOK
  <2>5. Cap + Overshoot \in Int
    BY BudgetAssumption, FS_CardinalityType DEF Overshoot
  <2>6. OvershootBounded'
    BY <2>3, <2>4, <2>5 DEF IInv, OvershootBounded, Overshoot
  <2> QED
    BY <2>1, <2>2, <2>6 DEF IInv
<1>7. CASE UNCHANGED vars
  BY <1>7 DEF vars, IInv, TypeOK, DebtOK, OvershootBounded, Overshoot, Slots, Owed
<1> QED
  BY <1>1, <1>2, <1>3, <1>4, <1>5, <1>6, <1>7 DEF Next

-----------------------------------------------------------------------------
(* The counters. *)

\* Only a call of several pages has paid for some before it is settled.
CallsFit ==
    \A c \in Callers : call[c] # None =>
        /\ call[c].of \in Uses[c]
        /\ MaxCalls[call[c].of] <= 1 => call[c].left <= 1 /\ call[c].paid = 0

\* What a counter shows and what a call will still add to it are in the ledger.
Backed(m) ==
    /\ meter[m].day <= day
    /\ meter[m].day = day =>
          /\ meter[m].cu <= spent[m]
          /\ \A c \in Callers : call[c] # None /\ call[c].of = m =>
                meter[m].cu + call[c].paid <= spent[m]

CountersBacked == CallsFit /\ \A m \in Metered : Backed(m)

\* While somebody else may check the budget, an open call has paid for nothing.
LEMMA OthersUnpaid ==
  ASSUME TypeOK, CallsFit, NEW c \in Callers, NEW d \in Callers, c # d,
         call[d] # None, call[d].of \in Metered, call[d].of \in Uses[c]
  PROVE  call[d].paid = 0
<1> DEFINE m == call[d].of
<1>1. m \in Metered /\ m \in Uses[c] /\ m \in Uses[d]
  BY DEF CallsFit
<1>2. ~(MaxCalls[m] > 1)
  BY <1>1, PagesAssumption
<1>3. MaxCalls[m] \in Nat
  BY <1>1, BudgetAssumption
<1>4. MaxCalls[m] <= 1
  BY <1>2, <1>3
<1> QED
  BY <1>4 DEF CallsFit

\* A counter is rolled when nobody else has pages to pay for.
LEMMA RollKeeps ==
  ASSUME TypeOK, CountersBacked, NEW c \in Callers, NEW m \in Components,
         call[c] = None, m \in Uses[c], Roll(m), UNCHANGED <<day, spent>>,
         \A d \in Callers : call'[d] = call[d] \/ (d = c /\ call'[c].paid = 0)
  PROVE  \A k \in Metered : Backed(k)'
<1> SUFFICES ASSUME NEW k \in Metered PROVE Backed(k)'
  OBVIOUS
<1>1. spent[k] \in Nat /\ meter[k] \in Meter /\ day \in Nat
  BY BudgetAssumption DEF TypeOK
<1>2. ASSUME k = m
      PROVE  \A d \in Callers : call'[d] # None /\ call'[d].of = m => call'[d].paid = 0
  BY <1>2, OthersUnpaid DEF CountersBacked
<1>3. CASE k = m
  <2>1. meter'[k] = Rolled(m)
    BY <1>3 DEF Roll, TypeOK
  <2>2. CASE meter[m].day = day
    <3>1. meter'[k] = meter[k]
      BY <1>3, <2>1, <2>2 DEF Rolled
    <3>2. meter[k].cu \in Nat
      BY <1>1 DEF Meter
    <3> QED
      BY <1>1, <1>2, <1>3, <2>2, <3>1, <3>2 DEF Backed, CountersBacked
  <2>3. CASE meter[m].day # day
    <3>1. meter'[k].cu = 0 /\ meter'[k].day = day
      BY <2>1, <2>3 DEF Rolled
    <3> QED
      BY <1>1, <1>2, <1>3, <3>1 DEF Backed
  <2> QED
    BY <2>2, <2>3
<1>4. CASE k # m
  <2>1. meter'[k] = meter[k]
    BY <1>4 DEF Roll, TypeOK
  <2>2. meter[k].cu \in Nat
    BY <1>1 DEF Meter
  <2> QED
    BY <1>1, <2>1, <2>2 DEF Backed, CountersBacked
<1> QED
  BY <1>3, <1>4

\* A settled call adds to its counter what it has paid.
LEMMA SettleKeeps ==
  ASSUME TypeOK, CountersBacked, NEW c \in Callers, call[c] # None,
         NEW u \in Nat, Settle(call[c].of, call[c].paid + u),
         spent' \in [Components -> Nat],
         \A m \in Components : spent'[m] >= IF m = call[c].of THEN spent[m] + u ELSE spent[m],
         call' = [call EXCEPT ![c] = None], day' = day
  PROVE  \A k \in Metered : Backed(k)'
<1> SUFFICES ASSUME NEW k \in Metered PROVE Backed(k)'
  OBVIOUS
<1> DEFINE m == call[c].of
           p == call[c].paid
<1>1. /\ k \in Components /\ spent[k] \in Nat /\ spent'[k] \in Nat /\ day \in Nat
      /\ meter[k] \in Meter /\ meter[k].cu \in Nat /\ meter[k].day \in Nat
  BY BudgetAssumption DEF TypeOK, Meter
<1>2. call[c] \in Call /\ p \in Nat /\ m \in Components
  BY DEF TypeOK, Call
<1>3. \A d \in Callers : d # c => call'[d] = call[d]
  BY DEF TypeOK
<1>4. call'[c] = None
  BY DEF TypeOK
<1>5. CASE k = m
  <2>1. meter'[k] = [meter[k] EXCEPT !.cu = @ + (p + u)]
    BY <1>5 DEF Settle, TypeOK
  <2>2. meter'[k].cu = meter[k].cu + p + u /\ meter'[k].day = meter[k].day
    BY <1>1, <1>2, <2>1 DEF Meter
  <2>3. meter[k].day = day => meter[k].cu + p <= spent[k]
    BY <1>5 DEF CountersBacked, Backed
  <2>4. spent'[k] >= spent[k] + u
    BY <1>1, <1>5
  <2>5. ASSUME NEW d \in Callers, call'[d] # None, call'[d].of = k PROVE call'[d].paid = 0
    <3>1. d # c /\ call'[d] = call[d]
      BY <1>3, <1>4, <2>5
    <3>2. m \in Uses[c]
      BY DEF CountersBacked, CallsFit
    <3> QED
      BY <1>5, <2>5, <3>1, <3>2, OthersUnpaid DEF CountersBacked
  <2>6. meter[k].day <= day
    BY DEF CountersBacked, Backed
  <2> HIDE DEF p
  <2>7. meter[k].day = day => meter'[k].cu <= spent'[k]
    BY <1>1, <1>2, <2>2, <2>3, <2>4
  <2>8. meter'[k].cu + 0 = meter'[k].cu
    BY <1>1, <1>2, <2>2
  <2> QED
    BY <2>2, <2>5, <2>6, <2>7, <2>8 DEF Backed
<1>6. CASE k # m
  <2>1. meter'[k] = meter[k]
    BY <1>6 DEF Settle, TypeOK
  <2>2. spent'[k] >= spent[k]
    BY <1>1, <1>6
  <2>3. /\ meter[k].day <= day
        /\ meter[k].day = day =>
              /\ meter[k].cu <= spent[k]
              /\ \A d \in Callers : call[d] # None /\ call[d].of = k =>
                    meter[k].cu + call[d].paid <= spent[k]
    BY DEF CountersBacked, Backed
  <2>4. \A d \in Callers : call[d] # None => call[d].paid \in Nat
    BY DEF TypeOK, Call
  <2> QED
    BY <1>1, <1>3, <1>4, <2>1, <2>2, <2>3, <2>4 DEF Backed
<1> QED
  BY <1>5, <1>6

\* The parts of an open call.
LEMMA CallParts ==
  ASSUME TypeOK, NEW c \in Callers, call[c] # None
  PROVE  /\ call[c] \in Call /\ call[c].of \in Components
         /\ call[c].left \in Nat /\ call[c].paid \in Nat
         /\ Cost[call[c].of] \in Nat /\ MaxCalls[call[c].of] \in Nat
BY BudgetAssumption DEF TypeOK, Call

LEMMA CountersKept == IInv /\ CountersBacked /\ [Next]_vars => CountersBacked'
<1> SUFFICES ASSUME IInv, CountersBacked, [Next]_vars PROVE CountersBacked'
  OBVIOUS
<1>0. TypeOK /\ TypeOK' /\ CallsFit
  BY NextIInv DEF IInv, CountersBacked
<1>1. ASSUME NEW c \in Callers, NEW m \in Components, NEW n \in 1 .. MaxCalls[m],
             Admit(c, m, n)
      PROVE  CountersBacked'
  <2> DEFINE r == [of |-> m, left |-> n, paid |-> 0]
  <2>1. /\ call[c] = None /\ m \in Uses[c] /\ Roll(m)
        /\ call' = [call EXCEPT ![c] = r] /\ UNCHANGED <<day, spent>>
    BY <1>1 DEF Admit
  <2>2. call'[c] = r /\ \A d \in Callers \ {c} : call'[d] = call[d]
    BY <1>0, <2>1 DEF TypeOK
  <2>3. CallsFit'
    BY <1>0, <2>1, <2>2, BudgetAssumption DEF CallsFit
  <2>4. \A k \in Metered : Backed(k)'
    BY <1>0, <2>1, <2>2, RollKeeps
  <2> QED
    BY <2>3, <2>4 DEF CountersBacked
<1>2. ASSUME NEW c \in Callers, NEW m \in Components, NEW n \in 1 .. MaxCalls[m],
             Refuse(c, m, n)
      PROVE  CountersBacked'
  <2>1. /\ call[c] = None /\ m \in Uses[c] /\ Roll(m)
        /\ UNCHANGED <<day, spent, call>>
    BY <1>2 DEF Refuse
  <2>2. CallsFit'
    BY <1>0, <2>1 DEF CallsFit
  <2>3. \A k \in Metered : Backed(k)'
    BY <1>0, <2>1, RollKeeps
  <2> QED
    BY <2>2, <2>3 DEF CountersBacked
<1>3. ASSUME NEW c \in Callers, NextPage(c)
      PROVE  CountersBacked'
  <2> DEFINE m == call[c].of
             u == Cost[call[c].of]
             r == [call[c] EXCEPT !.left = @ - 1, !.paid = @ + u]
  <2>1. /\ call[c] # None /\ call[c].left > 1
        /\ spent' = [spent EXCEPT ![m] = @ + u]
        /\ call' = [call EXCEPT ![c] = r] /\ UNCHANGED <<day, meter>>
    BY <1>3 DEF NextPage, Charge
  <2>2. /\ call[c] \in Call /\ m \in Components /\ call[c].left \in Nat
        /\ call[c].paid \in Nat /\ u \in Nat /\ MaxCalls[m] \in Nat
    BY <1>0, <2>1, CallParts
  <2>3. r.of = m /\ r.left = call[c].left - 1 /\ r.paid = call[c].paid + u
    BY <2>2 DEF Call
  <2>4. call'[c] = r /\ \A d \in Callers \ {c} : call'[d] = call[d]
    BY <1>0, <2>1 DEF TypeOK
  <2>5. MaxCalls[m] > 1
    BY <1>0, <2>1, <2>2 DEF CallsFit
  <2>6. CallsFit'
    BY <1>0, <2>1, <2>2, <2>3, <2>4, <2>5 DEF CallsFit
  <2>7. ASSUME NEW k \in Metered PROVE Backed(k)'
    <3>1. /\ k \in Components /\ spent[k] \in Nat /\ meter[k].cu \in Nat
      BY <1>0, BudgetAssumption DEF TypeOK, Meter
    <3>2. spent'[k] = IF k = m THEN spent[k] + u ELSE spent[k]
      BY <1>0, <2>1, <3>1 DEF TypeOK
    <3>3. \A d \in Callers : call[d] # None => call[d].paid \in Nat
      BY <1>0, CallParts
    <3>4. Backed(k)
      BY DEF CountersBacked
    <3> HIDE DEF r, m, u
    <3> QED
      BY <2>1, <2>2, <2>3, <2>4, <3>1, <3>2, <3>3, <3>4 DEF Backed, m
  <2> QED
    BY <2>6, <2>7 DEF CountersBacked
<1>4. ASSUME NEW c \in Callers, Answered(c) \/ Failed(c)
      PROVE  CountersBacked'
  <2> DEFINE m == call[c].of
  <2>1. /\ call[c] # None /\ call' = [call EXCEPT ![c] = None] /\ day' = day
    BY <1>4 DEF Answered, Failed
  <2>2. /\ call[c].paid \in Nat /\ m \in Components /\ Cost[m] \in Nat
        /\ spent \in [Components -> Nat] /\ spent' \in [Components -> Nat]
    BY <1>0, <2>1, CallParts DEF TypeOK
  <2>3. CallsFit'
    BY <1>0, <2>1 DEF CallsFit, TypeOK
  <2>4. \A k \in Metered : Backed(k)'
    <3>1. CASE Answered(c)
      <4>1. Settle(m, call[c].paid + Cost[m]) /\ spent' = [spent EXCEPT ![m] = @ + Cost[m]]
        BY <3>1 DEF Answered, Charge
      <4>2. \A k \in Components : spent'[k] >= IF k = m THEN spent[k] + Cost[m] ELSE spent[k]
        BY <2>2, <4>1
      <4> QED
        BY <1>0, <2>1, <2>2, <4>1, <4>2, SettleKeeps
    <3>2. CASE Failed(c)
      <4>1. Settle(m, call[c].paid + 0) /\ spent' = spent
        BY <2>2, <3>2 DEF Failed
      <4>2. \A k \in Components : spent'[k] >= IF k = m THEN spent[k] + 0 ELSE spent[k]
        BY <2>2, <4>1
      <4>3. 0 \in Nat
        OBVIOUS
      <4> QED
        BY <1>0, <2>1, <2>2, <4>1, <4>2, <4>3, SettleKeeps
    <3> QED
      BY <1>4, <3>1, <3>2
  <2> QED
    BY <2>3, <2>4 DEF CountersBacked
<1>5. CASE Midnight
  <2>1. day' = day + 1 /\ day \in Nat /\ UNCHANGED <<meter, call>>
    BY <1>0, <1>5 DEF Midnight, TypeOK
  <2>2. CallsFit'
    BY <1>0, <2>1 DEF CallsFit
  <2>3. \A k \in Metered : meter[k].day \in Nat /\ meter[k].day <= day
    BY <1>0 DEF TypeOK, Meter, CountersBacked, Backed
  <2> QED
    BY <2>1, <2>2, <2>3 DEF CountersBacked, Backed
<1>6. CASE Restart
  <2>1. /\ \A c \in Callers : call'[c] = None
        /\ \A k \in Metered : meter'[k].cu = 0 /\ meter'[k].day = day
        /\ UNCHANGED <<day, spent>>
    BY <1>6 DEF Restart
  <2>2. day \in Nat /\ \A k \in Metered : spent[k] \in Nat
    BY <1>0, BudgetAssumption DEF TypeOK
  <2> QED
    BY <2>1, <2>2 DEF CountersBacked, CallsFit, Backed
<1>7. CASE UNCHANGED vars
  BY <1>7 DEF vars, CountersBacked, CallsFit, Backed
<1> QED
  BY <1>1, <1>2, <1>3, <1>4, <1>5, <1>6, <1>7 DEF Next

\* The type invariant of the budget.
THEOREM BudgetTypeCorrect == Spec => []TypeOK
<1>1. IInv => TypeOK
  BY DEF IInv
<1> QED
  BY <1>1, InitIInv, NextIInv, PTL DEF Spec

\* The day's charges never pass the cap by more than one grant for every other
\* caller, however the checks, the awaits, midnight and restarts interleave.
THEOREM OvershootHolds == Spec => []OvershootBounded
<1>1. IInv => OvershootBounded
  BY DEF IInv
<1> QED
  BY <1>1, InitIInv, NextIInv, PTL DEF Spec

\* A component's counter of the day never shows more than the ledger has for it
\* (_roll_day, and the additions to cu_today after the await), so no call is
\* refused for credits that were not spent.
THEOREM NeverOverstatesHolds == Spec => []NeverOverstates
<1>1. Init => CountersBacked
  <2> SUFFICES ASSUME Init PROVE CountersBacked
    OBVIOUS
  <2>1. \A c \in Callers : call[c] = None
    BY DEF Init
  <2>2. \A k \in Metered : meter[k].cu = 0 /\ meter[k].day = 0 /\ spent[k] = 0
    BY BudgetAssumption DEF Init
  <2> QED
    BY <2>1, <2>2 DEF Init, CountersBacked, CallsFit, Backed
<1>2. CountersBacked => NeverOverstates
  BY DEF CountersBacked, Backed, NeverOverstates
<1> QED
  BY <1>1, <1>2, InitIInv, NextIInv, CountersKept, PTL DEF Spec
=============================================================================

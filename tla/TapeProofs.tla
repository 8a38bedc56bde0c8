------------------------------ MODULE TapeProofs ------------------------------
(***************************************************************************)
(* The tape of a token keeps its promises for every ring, page and refresh *)
(* size and every history of the market.  The ring argument counts, for    *)
(* each swap, the swaps that come after it; the argument about holes       *)
(* follows the page a running fetch will ask for next; the cadence is a    *)
(* matter of remainders.                                                   *)
(***************************************************************************)
EXTENDS Tape, FiniteSetTheorems, FunctionTheorems, TLAPS

-----------------------------------------------------------------------------
(* The order of the ring *)

\* No two swaps share time and signature, so they are all in order.
LEMMA EarlierOrders ==
  ASSUME NEW r \in Swaps, NEW s \in Swaps, NEW t \in Swaps
  PROVE  /\ ~Earlier(s, s)
         /\ Earlier(s, t) => ~Earlier(t, s)
         /\ s = t \/ Earlier(s, t) \/ Earlier(t, s)
         /\ Earlier(r, s) /\ Earlier(s, t) => Earlier(r, t)
<1>1. /\ TimeOf[r] \in Nat /\ TimeOf[s] \in Nat /\ TimeOf[t] \in Nat
      /\ SigOf[r] \in Nat /\ SigOf[s] \in Nat /\ SigOf[t] \in Nat
      /\ SigOf[s] = SigOf[t] => s = t
  BY TapeAssumption DEF Swaps
<1> QED
  BY <1>1 DEF Earlier

Later(S, s) == {t \in S : Earlier(s, t)}
After(S, s) == Cardinality(Later(S, s))

LEMMA SwapsFinite ==
  ASSUME NEW S \in SUBSET Swaps
  PROVE  IsFiniteSet(S) /\ Cardinality(S) \in Nat
<1>1. MaxSwaps \in Int
  BY TapeAssumption
<1>2. IsFiniteSet(Swaps)
  BY <1>1, FS_Interval DEF Swaps
<1> QED
  BY <1>2, FS_Subset, FS_CardinalityType

\* How many swaps come after one: fewer than there are, and fewer still after
\* a later one.
LEMMA AfterOrders ==
  ASSUME NEW S \in SUBSET Swaps, NEW s \in S
  PROVE  /\ After(S, s) \in 0 .. Cardinality(S) - 1
         /\ \A t \in S : Earlier(s, t) => After(S, t) < After(S, s)
<1>1. IsFiniteSet(S) /\ Cardinality(S) \in Nat
  BY SwapsFinite
<1>2. Later(S, s) \in SUBSET (S \ {s})
  BY EarlierOrders DEF Later
<1>3. IsFiniteSet(S \ {s}) /\ Cardinality(S \ {s}) = Cardinality(S) - 1
  BY <1>1, FS_RemoveElement
<1>4. After(S, s) \in Nat /\ After(S, s) <= Cardinality(S) - 1
  <2>1. IsFiniteSet(Later(S, s)) /\ Cardinality(Later(S, s)) <= Cardinality(S \ {s})
    BY <1>2, <1>3, FS_Subset
  <2> QED
    BY <1>3, <2>1, FS_CardinalityType DEF After
<1>5. ASSUME NEW t \in S, Earlier(s, t)
      PROVE  After(S, t) < After(S, s)
  <2>1. t \in Later(S, s) /\ t \notin Later(S, t)
    BY <1>5, EarlierOrders DEF Later
  <2>2. Later(S, t) \in SUBSET Later(S, s)
    BY <1>5, EarlierOrders DEF Later
  <2>3. Later(S, s) \in SUBSET Swaps /\ Later(S, t) \in SUBSET Swaps
    BY DEF Later
  <2>4. /\ IsFiniteSet(Later(S, s))
        /\ Cardinality(Later(S, s)) \in Nat /\ Cardinality(Later(S, t)) \in Nat
    BY <2>3, SwapsFinite
  <2>5. Cardinality(Later(S, t)) <= Cardinality(Later(S, s))
    BY <2>2, <2>4, FS_Subset
  <2>6. Cardinality(Later(S, t)) # Cardinality(Later(S, s))
    BY <2>1, <2>2, <2>4, FS_Subset
  <2> QED
    BY <2>4, <2>5, <2>6 DEF After
<1> QED
  BY <1>1, <1>4, <1>5

\* The RingSize last of a set, as add keeps them.
Last(S) == {s \in S : After(S, s) < RingSize}

\* Sorting a set that is large enough leaves exactly RingSize of it: counting
\* what comes after is one-to-one, and so onto.
LEMMA LastIsFull ==
  ASSUME NEW S \in SUBSET Swaps, Cardinality(S) >= RingSize
  PROVE  Cardinality(Last(S)) = RingSize
<1> DEFINE n == Cardinality(S)
           f == [s \in S |-> After(S, s)]
           g == [s \in Last(S) |-> After(S, s)]
<1>1. IsFiniteSet(S) /\ n \in Nat /\ RingSize \in Nat \ {0}
  BY SwapsFinite, TapeAssumption
<1>2. IsFiniteSet(0 .. n - 1) /\ Cardinality(0 .. n - 1) = n
  <2>1. 0 \in Int /\ n - 1 \in Int /\ n > 0
    BY <1>1
  <2> HIDE DEF n
  <2> QED
    BY <2>1, <1>1, FS_Interval
<1>3. \A s \in S : After(S, s) \in 0 .. n - 1
  BY AfterOrders
<1>4. \A s, t \in S : After(S, s) = After(S, t) => s = t
  <2> SUFFICES ASSUME NEW s \in S, NEW t \in S, After(S, s) = After(S, t), s # t
               PROVE  FALSE
    OBVIOUS
  <2>1. Earlier(s, t) \/ Earlier(t, s)
    BY EarlierOrders
  <2>2. After(S, s) < After(S, t) \/ After(S, t) < After(S, s)
    BY <2>1, AfterOrders
  <2> QED
    BY <2>2, <1>1, <1>3
<1>5. f \in Injection(S, 0 .. n - 1)
  BY <1>3, <1>4 DEF Injection, IsInjective
<1>6. f \in Surjection(S, 0 .. n - 1)
  <2> HIDE DEF f
  <2> QED
    BY <1>1, <1>2, <1>5, FS_Injection
<1>7. \A i \in 0 .. n - 1 : \E s \in S : After(S, s) = i
  BY <1>6 DEF Surjection
<1>8. \A s \in Last(S) : After(S, s) \in 0 .. RingSize - 1
  BY <1>1, <1>3 DEF Last
<1>9. \A i \in 0 .. RingSize - 1 : \E s \in Last(S) : After(S, s) = i
  <2> SUFFICES ASSUME NEW i \in 0 .. RingSize - 1
               PROVE  \E s \in Last(S) : After(S, s) = i
    OBVIOUS
  <2>1. i \in 0 .. n - 1 /\ i < RingSize
    BY <1>1
  <2> QED
    BY <1>7, <2>1 DEF Last
<1>10. g \in Bijection(Last(S), 0 .. RingSize - 1)
  <2>1. g \in Injection(Last(S), 0 .. RingSize - 1)
    BY <1>4, <1>8 DEF Injection, IsInjective, Last
  <2>2. g \in Surjection(Last(S), 0 .. RingSize - 1)
    BY <1>8, <1>9 DEF Surjection
  <2> QED
    BY <2>1, <2>2 DEF Bijection
<1>11. IsFiniteSet(0 .. RingSize - 1) /\ Cardinality(0 .. RingSize - 1) = RingSize
  <2>1. PICK m \in Nat : m = RingSize - 1 /\ RingSize = m + 1
    BY <1>1
  <2> HIDE DEF f, g, n
  <2>2. IsFiniteSet(0 .. m) /\ Cardinality(0 .. m) = m + 1
    BY FS_Interval
  <2> QED
    BY <2>1, <2>2
<1>12. IsFiniteSet(Last(S))
  BY SwapsFinite DEF Last
<1>13. ExistsBijection(Last(S), 0 .. RingSize - 1)
  <2> HIDE DEF g
  <2> QED
    BY <1>10 DEF ExistsBijection
<1> QED
  BY <1>11, <1>12, <1>13, FS_Bijection

\* A stored swap that a ring lacks is no newer than the ring, which is full.
NewestOf(ring, stored) ==
    \A t \in stored \ ring :
        /\ Cardinality(ring) = RingSize
        /\ \A s \in ring : TimeOf[t] <= TimeOf[s]

LEMMA AddIsLast ==
  ASSUME NEW ring, NEW new
  PROVE  Add(ring, new) = Last(ring \cup new)
  BY DEF Add, Last, After, Later

\* What add keeps comes after what it lets go, which had RingSize after it.
LEMMA DroppedIsOlder ==
  ASSUME NEW S \in SUBSET Swaps, NEW t \in S \ Last(S)
  PROVE  /\ Cardinality(S) >= RingSize
         /\ \A s \in Last(S) : TimeOf[t] <= TimeOf[s]
<1>1. After(S, t) \in 0 .. Cardinality(S) - 1 /\ After(S, t) >= RingSize
  <2>1. ~(After(S, t) < RingSize) /\ RingSize \in Nat
    BY TapeAssumption DEF Last
  <2>2. After(S, t) \in 0 .. Cardinality(S) - 1
    BY AfterOrders
  <2> QED
    BY <2>1, <2>2, SwapsFinite
<1>2. Cardinality(S) \in Nat /\ RingSize \in Nat
  BY SwapsFinite, TapeAssumption
<1>3. ASSUME NEW s \in Last(S)
      PROVE  TimeOf[t] <= TimeOf[s]
  <2>1. s \in S /\ After(S, s) < After(S, t)
    <3>1. s \in S /\ After(S, s) < RingSize /\ After(S, s) \in 0 .. Cardinality(S) - 1
      BY AfterOrders DEF Last
    <3> QED
      BY <1>1, <1>2, <3>1
  <2>2. s # t /\ ~Earlier(s, t)
    <3>1. Earlier(s, t) => After(S, t) < After(S, s)
      BY <2>1, AfterOrders
    <3>2. After(S, s) \in Int /\ After(S, t) \in Int
      BY <1>1, <2>1, AfterOrders
    <3> QED
      BY <2>1, <3>1, <3>2
  <2>3. Earlier(t, s)
    BY <2>1, <2>2, EarlierOrders
  <2>4. TimeOf[t] \in Nat /\ TimeOf[s] \in Nat
    BY <2>1, TapeAssumption DEF Swaps
  <2> QED
    BY <2>3, <2>4 DEF Earlier
<1> QED
  BY <1>1, <1>2, <1>3

\* add keeps a ring the newest of what is stored, however much of the new page
\* the table took.
LEMMA AddKeepsNewest ==
  ASSUME NEW ring \in SUBSET Swaps, NEW new \in SUBSET Swaps,
         NEW stored \in SUBSET Swaps, NewestOf(ring, stored)
  PROVE  NewestOf(Add(ring, new), stored \cup new)
<1> DEFINE S == ring \cup new
<1>1. S \in SUBSET Swaps /\ Last(S) \in SUBSET S
  BY DEF Last
<1>2. Cardinality(ring) \in Nat /\ Cardinality(S) \in Nat /\ Cardinality(ring) <= Cardinality(S)
  <2>1. IsFiniteSet(S) /\ Cardinality(S) \in Nat /\ Cardinality(ring) \in Nat
    BY <1>1, SwapsFinite
  <2>2. ring \in SUBSET S
    OBVIOUS
  <2> HIDE DEF S
  <2> QED
    BY <2>1, <2>2, FS_Subset
<1>3. ASSUME NEW t \in (stored \cup new) \ Last(S)
      PROVE  /\ Cardinality(Last(S)) = RingSize
             /\ \A s \in Last(S) : TimeOf[t] <= TimeOf[s]
  <2>1. CASE t \in S
    <3>1. t \in S \ Last(S)
      BY <1>3, <2>1
    <3> HIDE DEF S
    <3>2. /\ Cardinality(S) >= RingSize
          /\ \A s \in Last(S) : TimeOf[t] <= TimeOf[s]
      BY <1>1, <3>1, DroppedIsOlder
    <3> QED
      BY <1>1, <3>2, LastIsFull
  <2>2. CASE t \notin S
    <3>1. Cardinality(ring) = RingSize /\ \A s \in ring : TimeOf[t] <= TimeOf[s]
      BY <1>3, <2>2 DEF NewestOf
    <3>2. Cardinality(Last(S)) = RingSize
      <4>1. Cardinality(S) >= RingSize
        BY <1>2, <3>1, TapeAssumption
      <4> HIDE DEF S
      <4> QED
        BY <1>1, <4>1, LastIsFull
    <3>3. ASSUME NEW s \in Last(S)
          PROVE  TimeOf[t] <= TimeOf[s]
      <4>1. PICK u \in ring : u = s \/ Earlier(u, s)
        <5>1. CASE \A u \in ring : Earlier(s, u)
          <6>1. ring \in SUBSET Later(S, s)
            BY <5>1 DEF Later
          <6>2. Later(S, s) \in SUBSET Swaps
            BY <1>1 DEF Later
          <6>3. IsFiniteSet(Later(S, s)) /\ Cardinality(Later(S, s)) \in Nat
            BY <6>2, SwapsFinite
          <6>4. Cardinality(ring) <= Cardinality(Later(S, s))
            BY <6>1, <6>3, FS_Subset
          <6>5. Cardinality(Later(S, s)) < RingSize
            BY <3>3 DEF Last, After
          <6> QED
            BY <1>2, <3>1, <6>3, <6>4, <6>5
        <5>2. CASE \E u \in ring : ~Earlier(s, u)
          BY <1>1, <5>2, EarlierOrders
        <5> QED
          BY <5>1, <5>2
      <4>2. TimeOf[u] \in Nat /\ TimeOf[s] \in Nat /\ TimeOf[t] \in Nat
        BY <1>1, <1>3, TapeAssumption DEF Swaps
      <4> QED
        BY <3>1, <4>1, <4>2 DEF Earlier
    <3> QED
      BY <3>2, <3>3
  <2> QED
    BY <2>1, <2>2
<1> QED
  BY <1>3, AddIsLast DEF NewestOf

-----------------------------------------------------------------------------
(* The invariant *)

\* What a ring holds was stored once, or belongs to a page that rolled back.
RingSeen == tape # None => tape.ring \subseteq Seen

SeenExists == Seen \subseteq 1 .. swaps

\* The next page of a fetch begins right below the page before it, or higher,
\* the list having grown.
PageIsNext ==
    job # None /\ job.offset > 0 => \E t \in Seen : t <= swaps - job.offset + 1

\* A fetch stops being counted only when its tape is dropped.
FetchCounted == job # None /\ job.mine = None => job.attached

\* The slots skipped in a row end at the last one, and none of them was due: at
\* the faster rate, at the slower one, or first at the one and then at the other.
RunFits ==
    skips > 0 =>
        /\ job = None
        /\ tape # None /\ tape.polls > 0
        /\ ~late => skips <= (tape.polls - 1) % Every
        /\ skips <= Every - 1 + ((tape.polls - 1) % EveryLate)
        /\ EveryLate % Every = 0 => skips <= (tape.polls - 1) % EveryLate

IInv ==
    /\ TypeOK
    /\ RingIsNewest /\ RingSeen
    /\ HolesExplained /\ SeenExists /\ PageIsNext
    /\ FetchCounted /\ RunFits

-----------------------------------------------------------------------------
(* Remainders *)

\* Division with remainder has one answer.
LEMMA OneRemainder ==
  ASSUME NEW n \in Nat \ {0}, NEW p \in Int, NEW q \in Int,
         NEW r \in 0 .. n - 1, NEW s \in 0 .. n - 1, n * p + r = n * q + s
  PROVE  r = s
<1>1. n * (p - q) = s - r
  OBVIOUS
<1>2. CASE p = q
  BY <1>1, <1>2
<1>3. CASE p - q >= 1
  <2>1. n * (p - q) >= n
    BY <1>3
  <2> QED
    BY <1>1, <2>1
<1>4. CASE q - p >= 1
  <2>1. n * (q - p) >= n
    BY <1>4
  <2>2. n * (q - p) = r - s
    OBVIOUS
  <2> QED
    BY <2>1, <2>2
<1> QED
  BY <1>2, <1>3, <1>4

LEMMA Division ==
  ASSUME NEW a \in Nat, NEW n \in Nat \ {0}
  PROVE  a % n \in 0 .. n - 1 /\ \E q \in Nat : a = n * q + (a % n)
<1>1. a % n \in 0 .. n - 1
  OBVIOUS
<1>2. a = n * (a \div n) + (a % n)
  OBVIOUS
<1>3. a \div n \in Nat
  OBVIOUS
<1> QED
  BY <1>1, <1>2, <1>3

LEMMA NextRemainder ==
  ASSUME NEW a \in Nat, NEW n \in Nat \ {0}, (a + 1) % n # 0
  PROVE  (a + 1) % n = (a % n) + 1
<1> DEFINE r == ((a + 1) % n) - 1
           s == a % n
<1>1. PICK q \in Nat : a + 1 = n * q + ((a + 1) % n)
  BY a + 1 \in Nat, Division
<1>2. PICK p \in Nat : a = n * p + s
  BY Division
<1>3. r \in 0 .. n - 1
  <2>1. (a + 1) % n \in 0 .. n - 1
    BY a + 1 \in Nat, Division
  <2> QED
    BY <2>1
<1>4. s \in 0 .. n - 1
  BY Division
<1>7. (a + 1) % n = r + 1
  <2>1. (a + 1) % n \in 0 .. n - 1
    BY a + 1 \in Nat, Division
  <2> QED
    BY <2>1
<1> HIDE DEF r, s
<1>5. n * q + r = n * p + s
  <2>1. n * q \in Nat /\ n * p \in Nat
    OBVIOUS
  <2> QED
    BY <1>1, <1>2, <1>3, <1>4, <1>7, <2>1
<1>6. r = s
  BY <1>3, <1>4, <1>5, OneRemainder
<1> QED
  BY <1>6, <1>7 DEF s

LEMMA CoarserRemainder ==
  ASSUME NEW a \in Nat, NEW n \in Nat \ {0}, NEW m \in Nat \ {0}, m % n = 0
  PROVE  a % n <= a % m
<1> DEFINE b == a % m
<1>1. PICK k \in Nat : m = n * k
  <2>1. PICK k \in Nat : m = n * k + (m % n)
    BY Division
  <2>2. n * k + 0 = n * k
    OBVIOUS
  <2> QED
    BY <2>1, <2>2
<1>2. b \in Nat
  BY Division
<1>3. PICK q \in Nat : a = m * q + b
  BY Division
<1> HIDE DEF b
<1>4. PICK p \in Nat : b = n * p + (b % n)
  BY <1>2, Division
<1>5. PICK o \in Nat : a = n * o + (a % n)
  BY Division
<1>6. a % n \in 0 .. n - 1 /\ b % n \in 0 .. n - 1
  BY <1>2, Division
<1>7. b % n = a % n
  <2> DEFINE c == b % n
             d == a % n
  <2>1. /\ b = n * p + c /\ a = n * o + d
        /\ c \in 0 .. n - 1 /\ d \in 0 .. n - 1
    BY <1>4, <1>5, <1>6
  <2> HIDE DEF c, d
  <2>2. n * (k * q + p) = (n * k) * q + n * p
    OBVIOUS
  <2>3. k * q + p \in Int /\ n * (k * q + p) + c = n * o + d
    BY <1>1, <1>3, <2>1, <2>2
  <2>4. c = d
    BY <2>1, <2>3, OneRemainder
  <2> QED
    BY <2>4 DEF c, d
<1>8. n * p >= 0
  OBVIOUS
<1>9. b % n <= b
  <2> DEFINE c == b % n
  <2>1. b = n * p + c /\ c \in Int
    BY <1>4, <1>6
  <2> HIDE DEF c
  <2>2. n * p \in Int
    OBVIOUS
  <2>3. c <= b
    BY <1>8, <2>1, <2>2
  <2> QED
    BY <2>3 DEF c
<1> QED
  BY <1>7, <1>9 DEF b

-----------------------------------------------------------------------------
(* Types *)

LEMMA TapeWith ==
  ASSUME NEW t \in Tapes, NEW ring \in SUBSET Swaps, NEW n \in Nat
  PROVE  /\ [t EXCEPT !.ring = ring] \in Tapes
         /\ [t EXCEPT !.ring = ring].ring = ring
         /\ [t EXCEPT !.polls = n] \in Tapes
         /\ [t EXCEPT !.polls = n].ring = t.ring /\ [t EXCEPT !.polls = n].polls = n
         /\ [t EXCEPT !.ring = ring, !.polls = n] \in Tapes
         /\ [t EXCEPT !.ring = ring, !.polls = n].ring = ring
  BY DEF Tapes

\* The tape of the store, or a new one with the newest rows of the table.
LEMMA Gets ==
  ASSUME TypeOK, RingIsNewest, RingSeen, NEW t \in Get
  PROVE  /\ t \in Tapes /\ t # None
         /\ NewestOf(t.ring, trades) /\ t.ring \subseteq Seen
         /\ tape # None => t = tape
         /\ tape = None => t.polls = 0
<1>1. CASE tape # None
  BY <1>1 DEF Get, TypeOK, RingIsNewest, RingSeen, NewestOf
<1>2. CASE tape = None
  <2>1. PICK S \in NewestByTime : t = [ring |-> S, polls |-> 0]
    BY <1>2 DEF Get
  <2>2. S \in SUBSET trades /\ Cardinality(S) = Smaller(RingSize, Cardinality(trades))
    BY <2>1 DEF NewestByTime
  <2>3. S \in SUBSET Swaps
    BY <2>2 DEF TypeOK
  <2>4. t \in Tapes
    BY <2>1, <2>3 DEF Tapes
  <2>5. ASSUME NEW u \in trades \ S
        PROVE  Cardinality(S) = RingSize /\ \A s \in S : TimeOf[u] <= TimeOf[s]
    <3>1. IsFiniteSet(trades) /\ Cardinality(trades) \in Nat /\ Cardinality(S) \in Nat
      BY <2>3, SwapsFinite DEF TypeOK
    <3>2. Cardinality(S) # Cardinality(trades)
      BY <2>2, <2>5, <3>1, FS_Subset
    <3>3. Cardinality(S) = RingSize
      BY <2>2, <3>1, <3>2 DEF Smaller
    <3> QED
      BY <2>1, <2>5, <3>3 DEF NewestByTime
  <2> QED
    BY <1>2, <2>1, <2>2, <2>4, <2>5, NoneAssumption DEF NewestOf, Seen
<1> QED
  BY <1>1, <1>2, NoneAssumption

LEMMA PageInSwaps ==
  ASSUME TypeOK, NEW offset \in Nat
  PROVE  Page(offset) \in SUBSET (1 .. swaps) /\ 1 .. swaps \subseteq Swaps
<1>1. 1 .. swaps \subseteq Swaps
  BY TapeAssumption DEF TypeOK, Swaps
<1> QED
  BY <1>1 DEF Page

\* A fetch never takes more from the polls than they are.
LEMMA CountedIsNat ==
  ASSUME FetchCounted, job # None, job \in Jobs, NEW n \in Nat
  PROVE  n + Counted(job) \in Nat
<1>1. job.deep \in BOOLEAN /\ job.attached \in BOOLEAN
  BY DEF Jobs
<1>2. Counted(job) \in {0, 1}
  BY <1>1 DEF Counted, FetchCounted
<1> QED
  BY <1>2

\* The records of a fetch that goes on, and of one whose tape is dropped.
LEMMA JobWith ==
  ASSUME NEW j \in Jobs, NEW left \in Nat, NEW offset \in Nat, NEW pages \in Nat,
         NEW ring \in SUBSET Swaps
  PROVE  /\ [j EXCEPT !.left = left, !.offset = offset, !.pages = pages] \in Jobs
         /\ [j EXCEPT !.left = left, !.offset = offset, !.pages = pages,
                      !.deep = TRUE, !.attached = TRUE] \in Jobs
         /\ [j EXCEPT !.mine = IF j.mine = None THEN ring ELSE j.mine,
                      !.attached = FALSE] \in Jobs
<1>1. (IF j.mine = None THEN ring ELSE j.mine) \in (SUBSET Swaps) \cup {None}
  BY DEF Jobs
<1> DEFINE m == IF j.mine = None THEN ring ELSE j.mine
<1> HIDE DEF m
<1>2. ASSUME NEW e \in Jobs, m \in (SUBSET Swaps) \cup {None}
      PROVE  [e EXCEPT !.mine = m, !.attached = FALSE] \in Jobs
  BY <1>2 DEF Jobs
<1>3. [j EXCEPT !.mine = m, !.attached = FALSE] \in Jobs
  BY <1>1, <1>2 DEF m
<1> QED
  BY <1>3 DEF Jobs, m

-----------------------------------------------------------------------------
(* The shapes of a step: it looks at a page, or leaves what is seen alone *)

\* The page the running fetch asked for reaches the tape t; of its new swaps
\* the table takes all or none.
LooksAt(t, new) ==
    /\ job # None
    /\ new = Page(job.offset) \ t.ring
    /\ tape' # None /\ tape'.ring = Add(t.ring, new)
    /\ trades' \subseteq trades \cup new
    /\ Seen' = Seen \cup new
    /\ swaps' = swaps
    /\ burst' = burst \cup SlidPast
    /\ job' # None => /\ job'.offset = job.offset + PageSize
                      /\ swaps > job.offset + PageSize

Quiet ==
    /\ UNCHANGED <<trades, rolledBack, burst>>
    /\ swaps' \in {swaps, swaps + 1}
    /\ tape' # None => \E t \in Get : tape'.ring = t.ring
    /\ job' # None => \/ job'.offset = 0
                      \/ job # None /\ job'.offset = job.offset

Parts ==
    /\ TypeOK
    /\ RingIsNewest /\ RingSeen
    /\ FetchCounted

\* A page that is not the last of its list has swaps below it.
LEMMA NotExhausted ==
  ASSUME TypeOK, job \in Jobs, NEW new, NEW t, ~Exhausted(job, new, t)
  PROVE  swaps > job.offset + PageSize
<1>1. swaps \in Nat /\ job.offset \in Nat /\ PageSize \in Nat
  BY TapeAssumption DEF TypeOK, Jobs
<1> QED
  BY <1>1 DEF Exhausted

LEMMA PagesLook ==
  ASSUME Parts, NextPage \/ LastPage \/ StoreFails
  PROVE  TypeOK' /\ \E t \in Get, new \in SUBSET Swaps : LooksAt(t, new)
<1>1. job \in Jobs /\ job # None /\ TypeOK /\ FetchCounted
  BY DEF Parts, TypeOK, NextPage, LastPage, StoreFails
<1>2. job.offset \in Nat /\ job.left \in Nat /\ job.pages \in Nat /\ PageSize \in Nat
  BY <1>1, TapeAssumption DEF Jobs
<1>3. /\ SlidPast \in SUBSET Swaps
      /\ Page(job.offset) \in SUBSET Swaps
  BY <1>1, <1>2, PageInSwaps DEF SlidPast
<1>4. ASSUME NEW t \in Get
      PROVE  /\ t \in Tapes
             /\ \A new \in SUBSET Swaps : Add(t.ring, new) \in SUBSET Swaps
  BY Gets DEF Add, Tapes, Parts
<1>5. CASE NextPage
  <2>0. PICK t \in Get :
         /\ Ingested(t, Page(job.offset) \ t.ring)
         /\ ~Exhausted(job, Page(job.offset) \ t.ring,
                       [t EXCEPT !.ring = Add(@, Page(job.offset) \ t.ring)])
         /\ job.left > 1
         /\ tape' = [t EXCEPT !.ring = Add(@, Page(job.offset) \ t.ring)]
         /\ job' = [job EXCEPT !.left = @ - 1, !.offset = NextOffset(@), !.pages = @ + 1]
    BY <1>5 DEF NextPage
  <2> DEFINE new == Page(job.offset) \ t.ring
  <2>1. new \in SUBSET Swaps
    BY <1>3
  <2>2. /\ trades' = trades \cup new /\ rolledBack' = rolledBack
        /\ burst' = burst \cup SlidPast
        /\ swaps' = swaps /\ late' = late /\ skips' = skips
    BY <2>0 DEF Ingested
  <2>3. swaps > job.offset + PageSize
    BY <1>1, <2>0, NotExhausted
  <2>4. job' = [job EXCEPT !.left = job.left - 1, !.offset = job.offset + PageSize,
                           !.pages = job.pages + 1]
    BY <2>0 DEF NextOffset
  <2>5. tape' = [t EXCEPT !.ring = Add(t.ring, new)]
    BY <2>0
  <2> HIDE DEF new
  <2>6. tape' \in Tapes /\ tape'.ring = Add(t.ring, new)
    <3>1. Add(t.ring, new) \in SUBSET Swaps /\ t \in Tapes
      BY <1>4, <2>1
    <3> QED
      BY <2>5, <3>1, TapeWith
  <2>7. job' \in Jobs
    <3>1. job.left - 1 \in Nat /\ job.offset + PageSize \in Nat /\ job.pages + 1 \in Nat
      BY <1>2, <2>0
    <3> QED
      BY <1>1, <2>4, <3>1 DEF Jobs
  <2>8. job'.offset = job.offset + PageSize
    BY <1>1, <2>4 DEF Jobs
  <2>9. TypeOK'
    BY <1>1, <1>3, <2>1, <2>2, <2>6, <2>7 DEF TypeOK
  <2>10. LooksAt(t, new)
    BY <1>1, <2>2, <2>3, <2>6, <2>8, NoneAssumption DEF LooksAt, Seen, new
  <2> QED
    BY <2>1, <2>9, <2>10
<1>6. CASE LastPage
  <2> DEFINE P(t) == Page(job.offset) \ t.ring
             T2(t) == [t EXCEPT !.ring = Add(@, P(t)), !.polls = @ + Counted(job)]
             J2 == [job EXCEPT !.left = 1, !.offset = NextOffset(@), !.pages = @ + 1,
                               !.deep = TRUE, !.attached = TRUE]
  <2>0. PICK t \in Get :
         /\ Ingested(t, P(t))
         /\ tape' = T2(t)
         /\ job' = None \/ (~Exhausted(job, P(t), T2(t)) /\ job' = J2)
    BY <1>6 DEF LastPage
  <2> DEFINE new == P(t)
  <2>1. new \in SUBSET Swaps
    BY <1>3
  <2>2. /\ trades' = trades \cup new /\ rolledBack' = rolledBack
        /\ burst' = burst \cup SlidPast
        /\ swaps' = swaps /\ late' = late /\ skips' = skips
    BY <2>0 DEF Ingested
  <2>3. job' # None => swaps > job.offset + PageSize
    <3> HIDE DEF P, T2
    <3> QED
      BY <1>1, <2>0, NotExhausted
  <2>4. job' # None =>
           job' = [job EXCEPT !.left = 1, !.offset = job.offset + PageSize,
                     !.pages = job.pages + 1, !.deep = TRUE, !.attached = TRUE]
    BY <2>0 DEF NextOffset
  <2>5. tape' = [t EXCEPT !.ring = Add(t.ring, new), !.polls = t.polls + Counted(job)]
    BY <2>0
  <2> HIDE DEF P
  <2>6. tape' \in Tapes /\ tape'.ring = Add(t.ring, new)
    <3>1. Add(t.ring, new) \in SUBSET Swaps /\ t \in Tapes
      BY <1>4, <2>1
    <3>2. t.polls + Counted(job) \in Nat
      BY <1>1, <3>1, CountedIsNat DEF Tapes
    <3>3. PICK ring \in SUBSET Swaps, n \in Nat :
             ring = Add(t.ring, new) /\ n = t.polls + Counted(job)
      BY <3>1, <3>2
    <3>4. tape' = [t EXCEPT !.ring = ring, !.polls = n]
      BY <2>5, <3>3
    <3> QED
      BY <3>1, <3>3, <3>4 DEF Tapes
  <2>7. job' # None => job' \in Jobs /\ job'.offset = job.offset + PageSize
    <3> SUFFICES ASSUME job' # None
                 PROVE  job' \in Jobs /\ job'.offset = job.offset + PageSize
      OBVIOUS
    <3>1. PICK o \in Nat, p \in Nat : o = job.offset + PageSize /\ p = job.pages + 1
      BY <1>2
    <3>2. job' = [job EXCEPT !.left = 1, !.offset = o, !.pages = p,
                             !.deep = TRUE, !.attached = TRUE]
      BY <2>4, <3>1
    <3>3. job' \in Jobs /\ job'.offset = o
      BY <1>1, <3>2 DEF Jobs
    <3> QED
      BY <3>1, <3>3
  <2>9. TypeOK'
    BY <1>1, <1>3, <2>1, <2>2, <2>6, <2>7 DEF TypeOK
  <2>10. LooksAt(t, new)
    <3>1. new = Page(job.offset) \ t.ring
      BY DEF P
    <3> QED
      BY <1>1, <2>2, <2>3, <2>6, <2>7, <3>1, NoneAssumption DEF LooksAt, Seen
  <2> QED
    BY <2>1, <2>9, <2>10
<1>7. CASE StoreFails
  <2>0. PICK t \in Get :
         /\ tape' = [t EXCEPT !.ring = Add(@, Page(job.offset) \ t.ring)]
         /\ rolledBack' = rolledBack \cup (Page(job.offset) \ t.ring)
    BY <1>7 DEF StoreFails
  <2> DEFINE new == Page(job.offset) \ t.ring
  <2>1. new \in SUBSET Swaps
    BY <1>3
  <2>2. /\ trades' = trades /\ rolledBack' = rolledBack \cup new
        /\ burst' = burst \cup SlidPast
        /\ swaps' = swaps /\ late' = late /\ skips' = skips /\ job' = None
    BY <1>7, <2>0 DEF StoreFails
  <2>5. tape' = [t EXCEPT !.ring = Add(t.ring, new)]
    BY <2>0
  <2> HIDE DEF new
  <2>6. tape' \in Tapes /\ tape'.ring = Add(t.ring, new)
    <3>1. Add(t.ring, new) \in SUBSET Swaps /\ t \in Tapes
      BY <1>4, <2>1
    <3> QED
      BY <2>5, <3>1, TapeWith
  <2>9. TypeOK'
    BY <1>1, <1>3, <2>1, <2>2, <2>6 DEF TypeOK
  <2>10. LooksAt(t, new)
    BY <1>1, <2>2, <2>6, NoneAssumption DEF LooksAt, Seen, new
  <2> QED
    BY <2>1, <2>9, <2>10
<1> QED
  BY <1>5, <1>6, <1>7

\* The tape a poll begins with, with its polls counted or not.
LEMMA PollsBegin ==
  ASSUME Parts, SkipRefresh \/ SkipBudget \/ StartFetch
  PROVE  \E t \in Get :
            /\ PollBegins(t)
            /\ tape' \in Tapes /\ tape'.ring = t.ring
            /\ UNCHANGED <<swaps, trades, rolledBack, burst>>
            /\ late' \in BOOLEAN
<1>1. ASSUME NEW t \in Get
      PROVE  t \in Tapes /\ t.polls \in Nat
  BY Gets DEF Parts, Tapes
<1>2. ASSUME NEW t \in Get, PollBegins(t)
      PROVE  late' \in BOOLEAN
  BY <1>2 DEF PollBegins
<1>3. CASE SkipRefresh
  <2>1. PICK t \in Get : /\ PollBegins(t)
                         /\ tape' = [t EXCEPT !.polls = SlotAfter(t)]
                         /\ UNCHANGED <<swaps, trades, rolledBack, burst>>
    BY <1>3 DEF SkipRefresh
  <2>2. SlotAfter(t) \in Nat /\ t \in Tapes
    BY <1>1 DEF SlotAfter
  <2>3. tape' \in Tapes /\ tape'.ring = t.ring
    BY <2>1, <2>2 DEF Tapes
  <2> QED
    BY <1>2, <2>1, <2>3
<1>4. CASE SkipBudget \/ StartFetch
  <2>1. PICK t \in Get : /\ PollBegins(t) /\ tape' = t
                         /\ UNCHANGED <<swaps, trades, rolledBack, burst>>
    BY <1>4 DEF SkipBudget, StartFetch
  <2> QED
    BY <1>1, <1>2, <2>1
<1> QED
  BY <1>3, <1>4

\* A fetch begins at the newest page, counted on its own tape.
LEMMA FetchBegins ==
  ASSUME StartFetch
  PROVE  /\ job' \in Jobs /\ job'.offset = 0
         /\ job'.mine = None /\ job'.attached /\ skips' = 0
<1>1. FirstPages \in Nat
  BY TapeAssumption
<1>2. PICK t \in Get :
         job' = [first |-> IsFirst(t), deep |-> FALSE,
                 left |-> IF IsFirst(t) THEN FirstPages ELSE 1,
                 offset |-> 0, pages |-> 0, mine |-> None, attached |-> TRUE]
  BY DEF StartFetch
<1>3. IsFirst(t) \in BOOLEAN
  BY DEF IsFirst
<1> QED
  BY <1>1, <1>2, <1>3 DEF Jobs, StartFetch

LEMMA FetchFails ==
  ASSUME Parts, PageFails
  PROVE  /\ job' = None /\ job # None
         /\ tape' # None => tape # None /\ tape' \in Tapes /\ tape'.ring = tape.ring
         /\ UNCHANGED <<swaps, trades, late, rolledBack, burst, skips>>
<1>1. job \in Jobs /\ job # None /\ FetchCounted
  BY DEF Parts, TypeOK, PageFails
<1>2. ASSUME tape' # None
      PROVE  tape # None /\ tape' \in Tapes /\ tape'.ring = tape.ring
  <2>1. tape # None /\ tape \in Tapes
    BY <1>2 DEF PageFails, Parts, TypeOK
  <2>2. PICK n \in Nat : n = tape.polls + Counted(job)
    BY <1>1, <2>1, CountedIsNat DEF Tapes
  <2>3. tape' = [tape EXCEPT !.polls = n]
    BY <2>1, <2>2 DEF PageFails
  <2> QED
    BY <2>1, <2>3 DEF Tapes
<1> QED
  BY <1>1, <1>2 DEF PageFails

LEMMA TapeDrops ==
  ASSUME Parts, Drop
  PROVE  /\ job' \in Jobs \cup {None}
         /\ job' # None => job # None /\ job'.offset = job.offset
                           /\ job'.mine # None
<1> SUFFICES ASSUME job' # None
             PROVE  job' \in Jobs /\ job # None /\ job'.offset = job.offset /\ job'.mine # None
  OBVIOUS
<1>1. job \in Jobs /\ job # None /\ tape \in Tapes
  BY DEF Drop, Parts, TypeOK
<1>2. tape.ring \in SUBSET Swaps /\ tape.ring # None
  BY <1>1, NoneAssumption DEF Tapes
<1>3. PICK m \in SUBSET Swaps : m = IF job.mine = None THEN tape.ring ELSE job.mine
  BY <1>1, <1>2 DEF Jobs
<1>4. job' = [job EXCEPT !.mine = m, !.attached = FALSE]
  BY <1>1, <1>3 DEF Drop
<1>5. job' \in Jobs /\ job'.offset = job.offset /\ job'.mine = m
  BY <1>1, <1>4 DEF Jobs
<1> QED
  BY <1>1, <1>5, NoneAssumption

\* Every step that looks at no page is quiet.
LEMMA OthersQuiet ==
  ASSUME Parts, \/ Swap \/ GrowOld \/ SkipRefresh \/ SkipBudget \/ StartFetch
                \/ PageFails \/ Drop \/ Restart \/ UNCHANGED vars
  PROVE  TypeOK' /\ Quiet
<1>0. TypeOK
  BY DEF Parts
<1>1. tape # None => tape \in Get
  BY DEF Get
<1>2. CASE Swap
  <2>1. swaps' \in 0 .. MaxSwaps
    BY <1>0, <1>2, TapeAssumption DEF Swap, TypeOK
  <2> QED
    BY <1>0, <1>1, <1>2, <2>1 DEF Swap, TypeOK, Quiet
<1>3. CASE GrowOld \/ UNCHANGED vars
  BY <1>0, <1>1, <1>3 DEF GrowOld, vars, TypeOK, Quiet
<1>4. CASE SkipRefresh \/ SkipBudget \/ StartFetch
  <2>1. PICK t \in Get : /\ tape' \in Tapes /\ tape'.ring = t.ring
                         /\ UNCHANGED <<swaps, trades, rolledBack, burst>>
                         /\ late' \in BOOLEAN
    BY <1>4, PollsBegin
  <2>2. /\ job' \in Jobs \cup {None}
        /\ job' = job \/ job'.offset = 0
        /\ skips' \in Nat
    <3>1. CASE StartFetch
      BY <3>1, FetchBegins
    <3>2. CASE SkipRefresh \/ SkipBudget
      BY <1>0, <3>2 DEF SkipRefresh, SkipBudget, TypeOK
    <3> QED
      BY <1>4, <3>1, <3>2
  <2> QED
    BY <1>0, <2>1, <2>2 DEF TypeOK, Quiet
<1>5. CASE PageFails
  BY <1>0, <1>1, <1>5, FetchFails DEF TypeOK, Quiet
<1>6. CASE Drop
  <2>1. /\ tape' = None /\ skips' = 0
        /\ UNCHANGED <<swaps, trades, late, rolledBack, burst>>
    BY <1>6 DEF Drop
  <2> QED
    BY <1>0, <1>6, <2>1, TapeDrops DEF TypeOK, Quiet
<1>7. CASE Restart
  BY <1>0, <1>7 DEF Restart, TypeOK, Quiet
<1> QED
  BY <1>2, <1>3, <1>4, <1>5, <1>6, <1>7

-----------------------------------------------------------------------------
(* The ring *)

\* The ring stays the newest of what is stored, and holds only what was seen.
LEMMA RingKept ==
  ASSUME Parts, TypeOK',
         Quiet \/ \E t \in Get, new \in SUBSET Swaps : LooksAt(t, new)
  PROVE  RingIsNewest' /\ RingSeen'
<1>0. /\ TypeOK /\ RingIsNewest /\ RingSeen
      /\ trades \in SUBSET Swaps
  BY DEF Parts, TypeOK
<1>1. CASE Quiet
  <2> SUFFICES ASSUME tape' # None
               PROVE  NewestOf(tape'.ring, trades) /\ tape'.ring \subseteq Seen
    BY <1>1 DEF Quiet, RingIsNewest, RingSeen, NewestOf, Seen
  <2> QED
    BY <1>0, <1>1, Gets DEF Quiet
<1>2. ASSUME NEW t \in Get, NEW new \in SUBSET Swaps, LooksAt(t, new)
      PROVE  RingIsNewest' /\ RingSeen'
  <2>1. t.ring \in SUBSET Swaps /\ NewestOf(t.ring, trades) /\ t.ring \subseteq Seen
    BY <1>0, Gets DEF Tapes
  <2>2. NewestOf(Add(t.ring, new), trades \cup new)
    BY <1>0, <2>1, AddKeepsNewest
  <2>3. /\ tape'.ring = Add(t.ring, new) /\ trades' \subseteq trades \cup new
        /\ Seen' = Seen \cup new
    BY <1>2 DEF LooksAt
  <2>4. Add(t.ring, new) \subseteq t.ring \cup new
    BY DEF Add
  <2> QED
    BY <2>1, <2>2, <2>3, <2>4 DEF RingIsNewest, RingSeen, NewestOf
<1> QED
  BY <1>1, <1>2

-----------------------------------------------------------------------------
(* The holes *)

\* The next page overlaps or adjoins what is seen, so it opens no hole below;
\* what it opens above is a burst.
LEMMA HolesKept ==
  ASSUME Parts, TypeOK', HolesExplained, SeenExists, PageIsNext,
         Quiet \/ \E t \in Get, new \in SUBSET Swaps : LooksAt(t, new)
  PROVE  HolesExplained' /\ SeenExists' /\ PageIsNext'
<1>0. /\ TypeOK /\ RingSeen /\ RingIsNewest
      /\ swaps \in Nat /\ PageSize \in Nat \ {0}
  BY TapeAssumption DEF Parts, TypeOK
<1>1. CASE Quiet
  <2>1. Seen' = Seen /\ burst' = burst /\ trades' = trades /\ rolledBack' = rolledBack
    BY <1>1 DEF Quiet, Seen
  <2>2. swaps' \in {swaps, swaps + 1}
    BY <1>1 DEF Quiet
  <2>3. SeenExists'
    BY <1>0, <2>1, <2>2 DEF SeenExists
  <2>4. HolesExplained'
    <3> SUFFICES ASSUME NEW s \in 1 .. swaps', \E t \in Seen : t < s, \E t \in Seen : s < t
                 PROVE  s \in trades \cup rolledBack \cup burst
      BY <2>1 DEF HolesExplained
    <3>1. s \in 1 .. swaps
      <4>1. PICK t \in Seen : s < t
        OBVIOUS
      <4>2. t \in 1 .. swaps /\ s \in Nat /\ s >= 1
        BY <1>0, <2>2 DEF SeenExists
      <4> QED
        BY <1>0, <4>1, <4>2
    <3> QED
      BY <3>1 DEF HolesExplained
  <2>5. PageIsNext'
    <3> SUFFICES ASSUME job' # None, job'.offset > 0
                 PROVE  \E t \in Seen : t <= swaps' - job'.offset + 1
      BY <2>1 DEF PageIsNext
    <3>1. job # None /\ job'.offset = job.offset /\ job.offset \in Nat
      BY <1>0, <1>1 DEF Quiet, TypeOK, Jobs
    <3>2. PICK t \in Seen : t <= swaps - job.offset + 1
      BY <3>1 DEF PageIsNext
    <3>3. t \in Int
      BY DEF SeenExists
    <3> QED
      BY <1>0, <2>2, <3>1, <3>2, <3>3
  <2> QED
    BY <2>3, <2>4, <2>5
<1>2. ASSUME NEW t \in Get, NEW new \in SUBSET Swaps, LooksAt(t, new)
      PROVE  HolesExplained' /\ SeenExists' /\ PageIsNext'
  <2> DEFINE o == job.offset
             low == swaps - o - PageSize
             high == swaps - o
  <2>1. /\ job # None /\ o \in Nat
        /\ new = Page(o) \ t.ring
        /\ Seen' = Seen \cup new /\ swaps' = swaps /\ burst' = burst \cup SlidPast
    BY <1>0, <1>2 DEF LooksAt, TypeOK, Jobs
  <2>2. Page(o) = {s \in 1 .. swaps : low < s /\ s <= high}
    BY DEF Page
  <2>3. t.ring \subseteq Seen
    BY <1>0, Gets
  <2>4. Seen' = Seen \cup Page(o)
    BY <2>1, <2>3
  <2>5. low \in Int /\ high \in Int /\ low < high
    BY <1>0, <2>1
  <2>6. o = 0 => high = swaps
    BY <1>0
  <2>7. o > 0 => \E u \in Seen : u <= high + 1
    BY <2>1 DEF PageIsNext
  <2>8. SlidPast = {s \in 1 .. swaps : /\ Seen # {} /\ \A u \in Seen : u < s
                                       /\ s <= low}
    BY DEF SlidPast
  <2>9. SeenExists'
    BY <2>1, <2>2, <2>4 DEF SeenExists
  <2>10. HolesExplained'
    <3> HIDE DEF o, low, high
    <3> SUFFICES ASSUME NEW s \in 1 .. swaps, NEW u \in Seen \cup Page(o), u < s,
                        NEW v \in Seen \cup Page(o), s < v
                 PROVE  s \in Seen' \cup burst'
      BY <2>1, <2>4 DEF HolesExplained, Seen
    <3>1. u \in Int /\ v \in Int /\ s \in Int /\ \A w \in Seen : w \in Int
      BY <2>2 DEF SeenExists
    <3>2. \A w, x \in Seen : w < s /\ s < x => s \in Seen \cup burst
      BY DEF HolesExplained, Seen
    <3>3. CASE low < s /\ s <= high
      BY <2>2, <2>4, <3>3
    <3>4. CASE s > high
      <4>1. v \in Seen
        BY <2>2, <2>5, <3>1, <3>4
      <4>2. o # 0
        BY <2>6, <3>4, <1>0
      <4>3. PICK w \in Seen : w <= high + 1
        BY <2>1, <2>7, <4>2
      <4>4. w < s \/ w = s
        BY <2>5, <3>1, <3>4, <4>3
      <4> QED
        BY <2>1, <2>4, <3>2, <4>1, <4>4
    <3>5. CASE s <= low
      <4>1. u \in Seen
        BY <2>2, <2>5, <3>1, <3>5
      <4>2. CASE \E x \in Seen : s < x
        BY <2>1, <2>4, <3>2, <4>1, <4>2
      <4>3. CASE \A x \in Seen : x < s
        BY <2>1, <2>8, <3>5, <4>1, <4>3
      <4>4. CASE s \in Seen
        BY <2>4, <4>4
      <4> QED
        BY <3>1, <4>2, <4>3, <4>4
    <3> QED
      BY <2>5, <3>1, <3>3, <3>4, <3>5
  <2>11. PageIsNext'
    <3> SUFFICES ASSUME job' # None
                 PROVE  \E u \in Seen' : u <= swaps - job'.offset + 1
      BY <2>1 DEF PageIsNext
    <3>1. job'.offset = o + PageSize /\ swaps > o + PageSize
      BY <1>2 DEF LooksAt
    <3>2. low + 1 \in Page(o)
      <4>1. low + 1 \in 1 .. swaps
        BY <1>0, <2>1, <3>1
      <4>2. low < low + 1 /\ low + 1 <= high
        BY <2>5
      <4> HIDE DEF low, high
      <4> QED
        BY <2>2, <4>1, <4>2
    <3>3. low + 1 <= swaps - job'.offset + 1
      BY <1>0, <2>1, <3>1
    <3> QED
      BY <2>4, <3>2, <3>3
  <2> QED
    BY <2>9, <2>10, <2>11
<1> QED
  BY <1>1, <1>2

-----------------------------------------------------------------------------
(* The cadence *)

\* A skipped slot makes the run of skipped slots one longer, and is not due.
LEMMA RunGrows ==
  ASSUME NEW n \in Nat, NEW p \in Nat \ {0}, NEW l \in BOOLEAN,
         p % (IF l THEN EveryLate ELSE Every) # 0,
         n > 0 => /\ ~l => n <= (p - 1) % Every
                  /\ n <= Every - 1 + ((p - 1) % EveryLate)
                  /\ EveryLate % Every = 0 => n <= (p - 1) % EveryLate
  PROVE  /\ ~l => n + 1 <= p % Every
         /\ n + 1 <= Every - 1 + (p % EveryLate)
         /\ EveryLate % Every = 0 => n + 1 <= p % EveryLate
<1>1. Every \in Nat \ {0} /\ EveryLate \in Nat \ {0}
  BY TapeAssumption
<1>2. PICK a \in Nat : p = a + 1 /\ a = p - 1
  <2>1. p - 1 \in Nat /\ p = (p - 1) + 1
    OBVIOUS
  <2> QED
    BY <2>1
<1>3. /\ p % Every \in 0 .. Every - 1 /\ p % EveryLate \in 0 .. EveryLate - 1
      /\ a % Every \in 0 .. Every - 1 /\ a % EveryLate \in 0 .. EveryLate - 1
  BY <1>1, Division
<1>4. n > 0 => /\ ~l => n <= a % Every
               /\ n <= Every - 1 + (a % EveryLate)
               /\ EveryLate % Every = 0 => n <= a % EveryLate
  BY <1>2
<1>5. CASE l
  <2>1. p % EveryLate # 0
    BY <1>5
  <2>2. p % EveryLate = (a % EveryLate) + 1
    BY <1>1, <1>2, <2>1, NextRemainder
  <2> DEFINE x == p % EveryLate
             y == a % EveryLate
  <2>3. x = y + 1 /\ y \in Nat
    BY <1>3, <2>2
  <2>4. n > 0 => /\ n <= Every - 1 + y
                 /\ EveryLate % Every = 0 => n <= y
    BY <1>4
  <2> HIDE DEF x, y
  <2>5. n + 1 <= Every - 1 + x /\ (EveryLate % Every = 0 => n + 1 <= x)
    BY <1>1, <2>3, <2>4
  <2> QED
    BY <1>5, <2>5 DEF x
<1>6. CASE ~l
  <2>1. p % Every # 0
    BY <1>6
  <2>2. p % Every = (a % Every) + 1
    BY <1>1, <1>2, <2>1, NextRemainder
  <2>3. EveryLate % Every = 0 => p % Every <= p % EveryLate
    BY <1>1, CoarserRemainder
  <2> DEFINE x == p % Every
             y == a % Every
             z == p % EveryLate
  <2>4. x = y + 1 /\ y \in Nat /\ x <= Every - 1 /\ z \in Nat
    BY <1>1, <1>3, <2>2
  <2>5. n > 0 => n <= y
    BY <1>4, <1>6
  <2> HIDE DEF x, y, z
  <2>6. n + 1 <= x /\ n + 1 <= Every - 1 + z
    BY <1>1, <2>4, <2>5
  <2> QED
    BY <1>1, <1>3, <2>3, <2>6 DEF x, z
<1> QED
  BY <1>5, <1>6

\* No step makes the run of skipped slots longer than its slots allow.
LEMMA RunKept ==
  ASSUME Parts, RunFits, TypeOK', [Next]_vars
  PROVE  RunFits'
<1>0. TypeOK /\ skips \in Nat /\ late \in BOOLEAN
  BY DEF Parts, TypeOK
<1>1. CASE Swap \/ GrowOld \/ UNCHANGED vars
  BY <1>0, <1>1 DEF Swap, GrowOld, vars, RunFits
<1>2. CASE SkipRefresh
  <2>1. PICK t \in Get :
           /\ PollBegins(t) /\ ~Due(t)
           /\ tape' = [t EXCEPT !.polls = SlotAfter(t)]
           /\ skips' = skips + 1 /\ job' = job
    BY <1>2 DEF SkipRefresh
  <2>2. t \in Tapes /\ (tape # None => t = tape)
    BY <1>0, Gets DEF Parts
  <2> DEFINE p == t.polls
  <2>3. /\ p \in Nat \ {0}
        /\ p % (IF late THEN EveryLate ELSE Every) # 0
        /\ job = None /\ late' = late
    BY <2>1, <2>2, <1>0 DEF Due, IsFirst, PollBegins, Tapes
  <2>4. tape'.polls = p + 1 /\ tape' # None
    <3>1. tape'.polls = p + 1 /\ tape' \in Tapes
      BY <2>1, <2>2 DEF SlotAfter, Tapes
    <3> QED
      BY <3>1, NoneAssumption
  <2>5. skips > 0 => /\ ~late => skips <= (p - 1) % Every
                     /\ skips <= Every - 1 + ((p - 1) % EveryLate)
                     /\ EveryLate % Every = 0 => skips <= (p - 1) % EveryLate
    BY <2>2 DEF RunFits
  <2> HIDE DEF p
  <2>6. /\ ~late => skips + 1 <= p % Every
        /\ skips + 1 <= Every - 1 + (p % EveryLate)
        /\ EveryLate % Every = 0 => skips + 1 <= p % EveryLate
    BY <1>0, <2>3, <2>5, RunGrows
  <2>7. (tape'.polls - 1) = p /\ tape'.polls > 0
    BY <2>3, <2>4
  <2> QED
    BY <2>1, <2>3, <2>4, <2>6, <2>7 DEF RunFits
<1>3. CASE SkipBudget
  <2>1. PICK t \in Get : PollBegins(t) /\ tape' = t /\ job' = job /\ skips' = skips
    BY <1>3 DEF SkipBudget
  <2>2. t # None /\ (tape # None => t = tape) /\ t.polls \in Nat
    BY <1>0, Gets DEF Parts, Tapes
  <2>3. t.polls > 0 => late' = late
    BY <1>0, <2>1, <2>2 DEF PollBegins, IsFirst
  <2> QED
    BY <2>1, <2>2, <2>3 DEF RunFits
<1>4. CASE StartFetch \/ Drop \/ Restart
  BY <1>4 DEF StartFetch, Drop, Restart, RunFits
<1>5. CASE NextPage \/ LastPage \/ PageFails \/ StoreFails
  <2>1. job # None /\ skips' = skips
    BY <1>5 DEF NextPage, LastPage, PageFails, StoreFails, Ingested
  <2> QED
    BY <1>0, <2>1 DEF RunFits
<1> QED
  BY <1>1, <1>2, <1>3, <1>4, <1>5 DEF Next

\* A run that fits is bounded.
LEMMA RunBounded ==
  ASSUME TypeOK, RunFits
  PROVE  SkipsBounded
<1>1. Every \in Nat \ {0} /\ EveryLate \in Nat \ {0} /\ Every <= EveryLate /\ skips \in Nat
  BY TapeAssumption DEF TypeOK
<1>2. CASE skips = 0
  BY <1>1, <1>2 DEF SkipsBounded
<1>3. CASE skips > 0
  <2>1. tape \in Tapes /\ tape.polls > 0
    BY <1>3 DEF RunFits, TypeOK
  <2>2. tape.polls - 1 \in Nat
    BY <2>1 DEF Tapes
  <2>3. (tape.polls - 1) % EveryLate \in 0 .. EveryLate - 1
    BY <1>1, <2>2, Division
  <2> DEFINE y == (tape.polls - 1) % EveryLate
  <2>4. /\ skips <= Every - 1 + y
        /\ EveryLate % Every = 0 => skips <= y
    BY <1>3 DEF RunFits
  <2> HIDE DEF y
  <2>5. y \in Nat /\ y <= EveryLate - 1
    BY <1>1, <2>3 DEF y
  <2> QED
    BY <1>1, <2>4, <2>5 DEF SkipsBounded
<1> QED
  BY <1>1, <1>2, <1>3

-----------------------------------------------------------------------------
LEMMA CountedKept ==
  ASSUME Parts, TypeOK', [Next]_vars
  PROVE  FetchCounted'
<1>0. TypeOK /\ FetchCounted
  BY DEF Parts
<1>1. CASE Swap \/ GrowOld \/ SkipRefresh \/ SkipBudget \/ UNCHANGED vars
  BY <1>0, <1>1 DEF Swap, GrowOld, SkipRefresh, SkipBudget, vars, FetchCounted
<1>2. CASE StartFetch
  BY <1>2, FetchBegins DEF FetchCounted
<1>3. CASE NextPage
  <2>1. /\ job \in Jobs
        /\ job' = [job EXCEPT !.left = @ - 1, !.offset = NextOffset(@), !.pages = @ + 1]
    BY <1>0, <1>3 DEF NextPage, TypeOK
  <2>2. job'.mine = job.mine /\ job'.attached = job.attached /\ job # None
    BY <1>3, <2>1 DEF Jobs, NextPage
  <2> QED
    BY <1>0, <2>2 DEF FetchCounted
<1>4. CASE LastPage
  <2>1. /\ job \in Jobs
        /\ job' # None =>
              job' = [job EXCEPT !.left = 1, !.offset = NextOffset(@), !.pages = @ + 1,
                                 !.deep = TRUE, !.attached = TRUE]
    BY <1>0, <1>4 DEF LastPage, TypeOK
  <2>2. job' # None => job'.attached
    BY <2>1 DEF Jobs
  <2> QED
    BY <2>2 DEF FetchCounted
<1>5. CASE PageFails \/ StoreFails \/ Restart
  BY <1>5 DEF PageFails, StoreFails, Restart, FetchCounted
<1>6. CASE Drop
  BY <1>6, TapeDrops DEF FetchCounted
<1> QED
  BY <1>1, <1>2, <1>3, <1>4, <1>5, <1>6 DEF Next

LEMMA InitIInv == Init => IInv
<1> SUFFICES ASSUME Init
             PROVE  IInv
  OBVIOUS
<1>1. TypeOK
  <2>1. 0 \in 0 .. MaxSwaps
    BY TapeAssumption
  <2> QED
    BY <2>1 DEF Init, TypeOK
<1>2. RingIsNewest /\ RingSeen /\ SeenExists /\ PageIsNext /\ FetchCounted /\ RunFits
  BY DEF Init, RingIsNewest, RingSeen, SeenExists, PageIsNext, FetchCounted, RunFits, Seen
<1>3. HolesExplained
  BY DEF Init, HolesExplained, Seen
<1> QED
  BY <1>1, <1>2, <1>3 DEF IInv

\* The inductive invariant of the tape.
THEOREM Invariance == Spec => []IInv
<1>1. IInv /\ [Next]_vars => IInv'
  <2> SUFFICES ASSUME IInv, [Next]_vars
               PROVE  IInv'
    OBVIOUS
  <2>1. Parts /\ HolesExplained /\ SeenExists /\ PageIsNext /\ RunFits
    BY DEF IInv, Parts
  <2>2. TypeOK' /\ (Quiet \/ \E t \in Get, new \in SUBSET Swaps : LooksAt(t, new))
    <3>1. CASE NextPage \/ LastPage \/ StoreFails
      BY <2>1, <3>1, PagesLook
    <3>2. CASE \/ Swap \/ GrowOld \/ SkipRefresh \/ SkipBudget \/ StartFetch
               \/ PageFails \/ Drop \/ Restart \/ UNCHANGED vars
      BY <2>1, <3>2, OthersQuiet
    <3> QED
      BY <3>1, <3>2 DEF Next
  <2>3. RingIsNewest' /\ RingSeen'
    BY <2>1, <2>2, RingKept
  <2>4. HolesExplained' /\ SeenExists' /\ PageIsNext'
    BY <2>1, <2>2, HolesKept
  <2>5. FetchCounted' /\ RunFits'
    BY <2>1, <2>2, CountedKept, RunKept
  <2> QED
    BY <2>2, <2>3, <2>4, <2>5 DEF IInv
<1> QED
  BY <1>1, InitIInv, PTL DEF Spec

\* The type invariant of the tape.
THEOREM TypeCorrect == Spec => []TypeOK
<1>1. IInv => TypeOK
  BY DEF IInv
<1> QED
  BY <1>1, Invariance, PTL

\* What Stage 2 evaluates is the newest of what is stored, through drops,
\* reloads, ties at the edge of the ring and transactions that roll back.
THEOREM RingHolds == Spec => []RingIsNewest
<1>1. IInv => RingIsNewest
  BY DEF IInv
<1> QED
  BY <1>1, Invariance, PTL

\* Paging by offset leaves no hole that a failed transaction or a burst of more
\* than a page does not explain.
THEOREM HolesHold == Spec => []HolesExplained
<1>1. IInv => HolesExplained
  BY DEF IInv
<1> QED
  BY <1>1, Invariance, PTL

\* A refresh is put off for at most one run of each rate, for one run of the
\* slower rate where the rates divide.
THEOREM SkipsHold == Spec => []SkipsBounded
<1>1. IInv => SkipsBounded
  BY RunBounded DEF IInv
<1> QED
  BY <1>1, Invariance, PTL
=============================================================================

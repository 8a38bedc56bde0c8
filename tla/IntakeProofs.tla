------------------------------ MODULE IntakeProofs ------------------------------
(***************************************************************************)
(* What holds of one chain's intake for any pages, schedules, gates,       *)
(* cooldown and faults.  The invariant adds to the properties what the     *)
(* memory knows of the nominations a cycle may still be spaced against,    *)
(* what of the table a later cycle can no longer change, and since when a  *)
(* sleeping loop has been in the quiet window.                             *)
(***************************************************************************)
EXTENDS Intake, TLAPS

Fields == {"at", "until", "ts", "rows", "evals"}

Types ==
    /\ chain \in DOMAIN Settings /\ sched \in Schedules
    /\ now \in Nat /\ born \in Nat /\ born <= now
    /\ cycle \in Nat
    /\ DOMAIN loop = Fields
    /\ loop.ts \in Nat /\ loop.ts <= now
    /\ loop.at \in {"list", "rows", "label"} => born <= loop.ts
    /\ last \in [Addresses -> Nat \cup {None}]
    /\ \A n \in noms : n.ts \in Nat /\ n.ts <= now

\* The memory holds no older nomination of a token than the table has, unless
\* that one's cooldown was over when the process started.
Remembers(a) ==
    \A n \in noms : n.address = a /\ n.tier = "WATCH" =>
        \/ last[a] \in Nat /\ n.ts <= last[a]
        \/ n.ts + Renominate <= born

MemoryHolds == loop.at # "down" => \A a \in Addresses : Remembers(a)

\* Cycle ids are new, and what was evaluated is older than what will be stored.
PagesStored ==
    /\ \A r \in table : r.cycle \in Nat /\ r.cycle <= cycle
    /\ \A e \in live : e.cycle \in Nat /\ e.cycle <= cycle /\ e.ts \in Nat /\ e.ts <= now
    /\ loop.at = "list" =>
          /\ \A r \in table : r.cycle < cycle
          /\ \A e \in live : e.cycle < cycle /\ e.ts <= loop.ts
    /\ loop.at = "rows" => loop.rows = StoredPage(cycle)

QuietSince(t) ==
    t \in Nat /\ InQuiet(t) /\ t <= now /\ now <= loop.until /\ loop.until <= t + QuietSleep

QuietWait == loop.at = "quiet" => loop.until \in Int /\ \E t \in Nat : QuietSince(t)

IInv ==
    /\ Types
    /\ MemoryHolds
    /\ NominationsSpaced
    /\ CooldownExplained
    /\ PagesStored
    /\ ReplayAgrees
    /\ QuietWait

-----------------------------------------------------------------------------
(* What the operators return. *)

LEMMA Numbers ==
    /\ Renominate \in Nat /\ LookBack \in Nat /\ Renominate <= LookBack
    /\ QuietSleep \in Nat /\ QuietSleep >= 1 /\ DayM \in Nat /\ DayM >= 1 /\ ShiftAt \in Nat
BY IntakeAssumption

LEMMA Shapes ==
    /\ DOMAIN Down = Fields /\ DOMAIN Awake = Fields
    /\ Down.at = "down" /\ Down.ts = 0
    /\ Awake.at = "awake" /\ Awake.ts = 0
BY DEF Down, Awake, Fields

LEMMA PauseShape ==
    ASSUME NEW l
    PROVE  DOMAIN Pause(l) = Fields /\ Pause(l).at = "pause" /\ Pause(l).ts = 0
BY DEF Pause, Down, Fields

\* The rows a cycle keeps carry its id and its time.
LEMMA KeptRows ==
    ASSUME NEW page, NEW c, NEW id, NEW t, NEW r \in Kept(page, c, id, t)
    PROVE  r.cycle = id /\ r.ts = t
<1>1. PICK k : r = RowOf(page[k], id, t, k)
  BY DEF Kept
<1> QED
  BY <1>1 DEF RowOf

LEMMA EarliestOf == ASSUME NEW a \in Int, NEW b \in Int
    PROVE Earliest(a, b) \in {a, b} /\ Earliest(a, b) <= a /\ Earliest(a, b) <= b
BY DEF Earliest

LEMMA LargerOf == ASSUME NEW a \in Int, NEW b \in Int
    PROVE Larger(a, b) \in {a, b} /\ Larger(a, b) >= a /\ Larger(a, b) >= b
BY DEF Larger

\* No scan means a quiet window.
LEMMA NoScanIsQuiet ==
    ASSUME chain \in DOMAIN Settings, NEW t, ScanInterval(t) = None
    PROVE  InQuiet(t)
<1>1. C.scan_interval \in Nat
  BY IntakeAssumption DEF C
<1> QED
  BY <1>1, NoneAssumption DEF ScanInterval

LEMMA TransitionIsTime ==
    ASSUME sched \in Schedules, now \in Nat
    PROVE  NextTransition(now) \in Int
<1>1. sched.start \in Nat /\ sched.end \in Nat /\ sched.shift \in Int
  BY IntakeAssumption
<1>2. ASSUME NEW t \in Int PROVE LocalDay(t) \in Int /\ LocalMinutes(t) \in Int
  BY <1>1, Numbers DEF LocalDay, LocalMinutes, Offset
<1>3. ASSUME NEW day \in Int PROVE Midnight(day) \in Int
  BY <1>1, Numbers DEF Midnight
<1>4. Midnight(LocalDay(now)) \in Int /\ Midnight(LocalDay(now) + 1) \in Int
  BY <1>2, <1>3
<1> DEFINE ahead == {m \in {sched.start, sched.end} : m > LocalMinutes(now)}
           next  == CHOOSE m \in ahead : \A k \in ahead : m <= k
<1>5. CASE ahead = {}
  <2>1. Earliest(sched.start, sched.end) \in Int
    BY <1>1, EarliestOf
  <2>2. NextTransition(now) = Midnight(LocalDay(now) + 1) + Earliest(sched.start, sched.end)
    BY <1>5 DEF NextTransition
  <2> QED
    BY <2>1, <2>2, <1>4
<1>6. CASE ahead # {}
  <2>1. \E m \in ahead : \A k \in ahead : m <= k
    BY <1>1, <1>6
  <2>2. next \in ahead
    BY <2>1
  <2>3. NextTransition(now) = Midnight(LocalDay(now)) + next
    BY <1>6 DEF NextTransition
  <2>4. \A m \in ahead : m \in Int
    BY <1>1
  <2> HIDE DEF ahead, next
  <2> QED
    BY <2>2, <2>3, <2>4, <1>4
<1> QED
  BY <1>5, <1>6

LEMMA QuietForBound ==
    ASSUME sched \in Schedules, now \in Nat
    PROVE  QuietFor \in Int /\ 1 <= QuietFor /\ QuietFor <= QuietSleep
<1>1. NextTransition(now) - now \in Int
  BY TransitionIsTime
<1> DEFINE ahead == NextTransition(now) - now
<1>2. Larger(1, ahead) \in Int /\ Larger(1, ahead) >= 1
  BY <1>1, LargerOf
<1> HIDE DEF ahead
<1>3. Earliest(QuietSleep, Larger(1, ahead)) \in {QuietSleep, Larger(1, ahead)}
      /\ Earliest(QuietSleep, Larger(1, ahead)) <= QuietSleep
  BY <1>2, EarliestOf, Numbers
<1> QED
  BY <1>2, <1>3, Numbers DEF QuietFor, ahead

-----------------------------------------------------------------------------
(* The ways a step changes the tables, the memory and the loop.            *)

\* Nothing of what the invariant speaks of, but the clock, the cycle id and
\* where the loop is.
Keeps == UNCHANGED <<chain, sched, table, noms, last, lost, born, live>>

LoopMoves ==
    \/ UNCHANGED <<loop, now, cycle>>
    \/ UNCHANGED <<loop, cycle>> /\ now' = now + 1 /\ loop.at # "rows" /\ loop.at # "label"
       /\ (loop.at = "quiet" => now < loop.until)
    \/ UNCHANGED <<now, cycle>> /\ (loop' = Awake \/ loop' = Pause(loop)) /\ loop.at # "down"
    \/ /\ loop.at = "awake" /\ now' = now
       /\ \/ /\ cycle' = cycle + 1
             /\ \/ DOMAIN loop' = Fields /\ loop'.at = "list" /\ loop'.ts = now
                \/ \E l : loop' = Pause(l)
          \/ /\ cycle' = cycle
             /\ DOMAIN loop' = Fields /\ loop'.at = "quiet" /\ loop'.ts = 0
             /\ ScanInterval(now) = None /\ loop'.until = now + QuietFor

LEMMA KeepingSteps ==
    ASSUME Types, 
           \/ UNCHANGED vars \/ Tick \/ WakesUp \/ Quiet \/ StartCycle \/ ListFails
           \/ RunCycleRaises \/ TransactionFails
    PROVE  Keeps /\ LoopMoves
<1>1. CASE UNCHANGED vars
  BY <1>1 DEF vars, Keeps, LoopMoves
<1>2. CASE Tick
  BY <1>2 DEF Tick, Keeps, LoopMoves
<1>3. CASE WakesUp
  BY <1>3 DEF WakesUp, Keeps, LoopMoves
<1>4. CASE Quiet
  <2>1. DOMAIN loop' = Fields /\ loop'.at = "quiet" /\ loop'.ts = 0 /\ loop'.until = now + QuietFor
    BY <1>4 DEF Quiet, Down, Fields
  <2> QED
    BY <1>4, <2>1 DEF Quiet, Keeps, LoopMoves
<1>5. CASE StartCycle
  <2> DEFINE begun == [Down EXCEPT !.at = "list", !.ts = now, !.until = now + ScanInterval(now)]
  <2>1. DOMAIN begun = Fields /\ begun.at = "list" /\ begun.ts = now
    BY DEF Down, Fields
  <2>2. loop' = begun \/ loop' = Pause(begun)
    BY <1>5 DEF StartCycle
  <2> HIDE DEF begun
  <2>3. (DOMAIN loop' = Fields /\ loop'.at = "list" /\ loop'.ts = now) \/ \E l : loop' = Pause(l)
    BY <2>1, <2>2
  <2>4. loop.at = "awake" /\ cycle' = cycle + 1 /\ Keeps /\ now' = now
    BY <1>5 DEF StartCycle, Keeps
  <2> QED
    BY <2>3, <2>4 DEF LoopMoves
<1>6. CASE ListFails
  BY <1>6 DEF ListFails, Keeps, LoopMoves
<1>7. CASE RunCycleRaises
  BY <1>7 DEF RunCycleRaises, Keeps, LoopMoves
<1>8. CASE TransactionFails
  BY <1>8 DEF TransactionFails, Keeps, LoopMoves
<1> QED
  BY <1>1, <1>2, <1>3, <1>4, <1>5, <1>6, <1>7, <1>8

\* The answer of a list call adds rows of its cycle and time.
LEMMA ListAnswersAdds ==
    ASSUME Types, PagesStored, ListAnswers
    PROVE  /\ UNCHANGED <<now, chain, sched, cycle, noms, last, lost, born, live>>
           /\ loop.at = "list"
           /\ \E new : /\ table' = table \cup new
                       /\ \A r \in new : r.cycle = cycle /\ r.ts = loop.ts
                       /\ \/ loop' = Pause(loop)
                          \/ /\ DOMAIN loop' = Fields /\ loop'.at = "rows" /\ loop'.ts = loop.ts
                             /\ loop'.rows = InOrder(new)
<1>1. PICK page \in Pages[chain] :
         LET rows == Kept([k \in DOMAIN page |-> page[k] @@ [last_trade_ts |-> now]], C, cycle, loop.ts)
         IN /\ table' = table \cup rows
            /\ loop' = IF rows = {} THEN Pause(loop)
                       ELSE [loop EXCEPT !.at = "rows", !.rows = InOrder(rows)]
  BY DEF ListAnswers
<1> DEFINE list == [k \in DOMAIN page |-> page[k] @@ [last_trade_ts |-> now]]
           new  == Kept(list, C, cycle, loop.ts)
<1>3. /\ table' = table \cup new
      /\ \/ loop' = Pause(loop)
         \/ loop' = [loop EXCEPT !.at = "rows", !.rows = InOrder(new)]
  BY <1>1
<1> HIDE DEF list
<1>4. \A r \in new : r.cycle = cycle /\ r.ts = loop.ts
  BY KeptRows
<1> HIDE DEF new
<1>2. loop' = [loop EXCEPT !.at = "rows", !.rows = InOrder(new)] =>
         DOMAIN loop' = Fields /\ loop'.at = "rows" /\ loop'.ts = loop.ts /\ loop'.rows = InOrder(new)
  BY DEF Types, Fields
<1> QED
  BY <1>2, <1>3, <1>4 DEF ListAnswers

\* A cycle nominates tokens that have passed their cooldown.
LEMMA RunCycleMoves ==
    ASSUME Types, RunCycle
    PROVE  /\ UNCHANGED <<now, chain, sched, cycle, table, born>>
           /\ loop.at = "rows"
           /\ \E evals, touched :
                 /\ evals = Evaluate(loop.rows, Before(loop.ts), C, loop.ts)
                 /\ live' = live \cup {[cycle |-> cycle, ts |-> loop.ts, evals |-> evals]}
                 /\ last' = LastAfter(touched)
                 /\ \A e \in touched : ~CoolingDown(e.address)
                 /\ \/ /\ noms' = noms \cup Nominated(touched, "WATCH") /\ lost' = lost
                       /\ DOMAIN loop' = Fields /\ loop'.at = "label" /\ loop'.ts = loop.ts
                    \/ /\ noms' = noms
                       /\ lost' = lost \cup {<<e.address, loop.ts>> : e \in touched}
                       /\ loop' = Pause(loop)
<1> DEFINE evals == Evaluate(loop.rows, Before(loop.ts), C, loop.ts)
<1> DEFINE touched == Nominees(evals)
<1>1. \A e \in touched : ~CoolingDown(e.address)
  BY DEF Nominees
<1>2. last' = LastAfter(touched) /\ live' = live \cup {[cycle |-> cycle, ts |-> loop.ts, evals |-> evals]}
  BY DEF RunCycle, Touched
<1>3. \/ noms' = noms \cup Nominated(touched, "WATCH") /\ lost' = lost
         /\ loop' = [loop EXCEPT !.at = "label", !.rows = <<>>, !.evals = evals]
      \/ noms' = noms /\ lost' = lost \cup {<<e.address, loop.ts>> : e \in touched}
         /\ loop' = Pause(loop)
  BY DEF RunCycle
<1>4. loop' = [loop EXCEPT !.at = "label", !.rows = <<>>, !.evals = evals] =>
         DOMAIN loop' = Fields /\ loop'.at = "label" /\ loop'.ts = loop.ts
  BY DEF Types, Fields
<1>5. UNCHANGED <<now, chain, sched, cycle, table, born>> /\ loop.at = "rows"
  BY DEF RunCycle
<1> HIDE DEF touched, evals
<1>6. evals = Evaluate(loop.rows, Before(loop.ts), C, loop.ts)
  BY DEF evals
<1> QED
  BY <1>1, <1>2, <1>3, <1>4, <1>5, <1>6

LEMMA DrawControlsAdds ==
    ASSUME Types, DrawControls
    PROVE  /\ UNCHANGED <<now, chain, sched, cycle, table, last, lost, born, live>>
           /\ loop.at = "label" /\ loop' = Pause(loop)
           /\ \E drawn : noms' = noms \cup Nominated(drawn, "CONTROL")
BY DEF DrawControls

-----------------------------------------------------------------------------
(* The conjuncts of the invariant, one by one.                             *)

\* Every step keeps what the invariant speaks of, or is one of these.
KeepingStep ==
    \/ UNCHANGED vars \/ Tick \/ WakesUp \/ Quiet \/ StartCycle \/ ListFails
    \/ RunCycleRaises \/ TransactionFails

LEMMA StepCases ==
    ASSUME [Next]_vars
    PROVE  KeepingStep \/ ListAnswers \/ RunCycle \/ DrawControls \/ Crash \/ Restart
BY DEF Next, KeepingStep

LEMMA InitHolds == ASSUME Init PROVE IInv
<1>1. Types
  BY Shapes DEF Init, Types, Never
<1>2. MemoryHolds /\ NominationsSpaced /\ CooldownExplained
  BY DEF Init, MemoryHolds, Remembers, NominationsSpaced, CooldownExplained, Never
<1>3. PagesStored /\ ReplayAgrees /\ QuietWait
  BY Shapes DEF Init, PagesStored, ReplayAgrees, QuietWait
<1> QED
  BY <1>1, <1>2, <1>3 DEF IInv

LEMMA TypesStep ==
    ASSUME IInv, [Next]_vars
    PROVE  Types'
<1> USE DEF IInv
<1>1. CASE KeepingStep
  <2>1. Keeps /\ LoopMoves
    BY <1>1, KeepingSteps DEF KeepingStep
  <2>2. now' \in Nat /\ now <= now' /\ cycle' \in Nat
    BY <2>1 DEF Types, LoopMoves
  <2>3. DOMAIN loop' = Fields /\ loop'.ts \in Nat /\ loop'.ts <= now'
        /\ (loop'.at \in {"list", "rows", "label"} => born <= loop'.ts)
    BY <2>1, Shapes, PauseShape DEF Types, LoopMoves
  <2> QED
    BY <2>1, <2>2, <2>3 DEF Types, Keeps
<1>2. CASE ListAnswers
  BY <1>2, ListAnswersAdds, PauseShape DEF Types
<1>3. CASE RunCycle
  <2>1. PICK evals, touched :
                 /\ last' = LastAfter(touched)
                 /\ \/ /\ noms' = noms \cup Nominated(touched, "WATCH") /\ lost' = lost
                       /\ DOMAIN loop' = Fields /\ loop'.at = "label" /\ loop'.ts = loop.ts
                    \/ /\ noms' = noms
                       /\ loop' = Pause(loop)
    BY <1>3, RunCycleMoves
  <2>2. UNCHANGED <<now, chain, sched, cycle, born>> /\ loop.at = "rows"
    BY <1>3, RunCycleMoves
  <2>3. last' \in [Addresses -> Nat \cup {None}]
    BY <2>1 DEF LastAfter, Types
  <2>4. \A n \in noms' : n.ts \in Nat /\ n.ts <= now'
    BY <2>1, <2>2 DEF Nominated, Types
  <2>5. DOMAIN loop' = Fields /\ loop'.ts \in Nat /\ loop'.ts <= now'
        /\ (loop'.at \in {"list", "rows", "label"} => born <= loop'.ts)
    BY <2>1, <2>2, PauseShape DEF Types
  <2> QED
    BY <2>2, <2>3, <2>4, <2>5 DEF Types
<1>4. CASE DrawControls
  <2>1. \A n \in noms' : n.ts \in Nat /\ n.ts <= now'
    BY <1>4, DrawControlsAdds DEF Nominated, Types
  <2> QED
    BY <1>4, <2>1, DrawControlsAdds, PauseShape DEF Types
<1>5. CASE Crash
  BY <1>5, Shapes DEF Crash, Types, Never
<1>6. CASE Restart
  <2>1. last' \in [Addresses -> Nat \cup {None}]
    BY <1>6 DEF Restart, Types
  <2> QED
    BY <1>6, <2>1, Shapes DEF Restart, CycleAtStart, Types
<1> QED
  BY <1>1, <1>2, <1>3, <1>4, <1>5, <1>6, StepCases

LEMMA QuietStep ==
    ASSUME IInv, [Next]_vars
    PROVE  QuietWait'
<1> USE DEF IInv
<1>1. CASE KeepingStep
  <2>1. Keeps /\ LoopMoves
    BY <1>1, KeepingSteps DEF KeepingStep
  <2>2. \A t : InQuiet(t)' = InQuiet(t)
    BY <2>1 DEF Keeps, InQuiet, LocalMinutes, Offset
  <2>3. CASE loop.at = "quiet" /\ loop' = loop
    <3>4. loop.until \in Int /\ now \in Nat
      BY <2>3 DEF QuietWait, Types
    <3>1. now' = now \/ (now' = now + 1 /\ now < loop.until)
      <4>1. \/ now' = now
            \/ now' = now + 1 /\ (loop.at = "quiet" => now < loop.until)
        BY <2>1 DEF LoopMoves
      <4>2. loop.at = "quiet"
        BY <2>3
      <4> QED
        BY <3>4, <4>1, <4>2
    <3>2. PICK t \in Nat : QuietSince(t)
      BY <2>3 DEF QuietWait
    <3>3. QuietSince(t)'
      BY <2>2, <2>3, <3>1, <3>2, <3>4, Numbers DEF QuietSince
    <3> QED
      BY <2>3, <3>3, <3>4 DEF QuietWait
  <2>4. CASE loop'.at = "quiet" /\ ScanInterval(now) = None /\ loop'.until = now + QuietFor /\ now' = now
    <3>1. QuietFor \in Int /\ 1 <= QuietFor /\ QuietFor <= QuietSleep
      BY QuietForBound DEF Types
    <3>2. InQuiet(now)
      BY <2>4, NoScanIsQuiet DEF Types
    <3>3. now \in Nat /\ loop'.until \in Int /\ now <= loop'.until /\ loop'.until <= now + QuietSleep
      BY <2>4, <3>1, Numbers DEF Types
    <3>4. InQuiet(now)'
      BY <2>1, <2>4, <3>2 DEF Keeps, InQuiet, LocalMinutes, Offset
    <3>5. QuietSince(now)'
      BY <2>4, <3>3, <3>4 DEF QuietSince
    <3> QED
      BY <2>4, <3>3, <3>5 DEF QuietWait
  <2>5. CASE loop'.at # "quiet"
    BY <2>5 DEF QuietWait
  <2> QED
    BY <2>1, <2>3, <2>4, <2>5, Shapes, PauseShape DEF LoopMoves
<1>2. CASE ~KeepingStep
  <2>1. loop'.at # "quiet"
    BY <1>2, StepCases, ListAnswersAdds, RunCycleMoves, DrawControlsAdds, PauseShape, Shapes
       DEF Crash, Restart
  <2> QED
    BY <2>1 DEF QuietWait
<1> QED
  BY <1>1, <1>2

\* A step that does not run Stage 1 and does not restart adds no nomination of
\* tier WATCH and leaves the memory alone, unless the process dies.
LEMMA WatchKept ==
    ASSUME Types, KeepingStep \/ ListAnswers \/ DrawControls
    PROVE  /\ last' = last /\ born' = born /\ (loop.at # "down" \/ loop'.at = "down")
           /\ \A n \in noms' : n.tier = "WATCH" => n \in noms
<1>1. CASE KeepingStep
  <2>1. Keeps /\ LoopMoves
    BY <1>1, KeepingSteps DEF KeepingStep
  <2> QED
    BY <2>1 DEF Keeps, LoopMoves
<1>2. CASE ListAnswers
  BY <1>2 DEF ListAnswers
<1>3. CASE DrawControls
  BY <1>3, DrawControlsAdds DEF Nominated
<1> QED
  BY <1>1, <1>2, <1>3

LEMMA MemoryStep ==
    ASSUME IInv, [Next]_vars
    PROVE  MemoryHolds'
<1> USE DEF IInv
<1>1. CASE KeepingStep \/ ListAnswers \/ DrawControls
  BY <1>1, WatchKept DEF MemoryHolds, Remembers
<1>2. CASE RunCycle
  <2>1. PICK evals, touched :
                 /\ last' = LastAfter(touched)
                 /\ \A e \in touched : ~CoolingDown(e.address)
                 /\ noms' = noms \cup Nominated(touched, "WATCH") \/ noms' = noms
    BY <1>2, RunCycleMoves
  <2>2. born' = born /\ loop.at = "rows" /\ loop.ts \in Nat
    BY <1>2, RunCycleMoves DEF Types
  <2>3. ASSUME NEW a \in Addresses, NEW n \in noms', n.address = a, n.tier = "WATCH"
        PROVE  (last'[a] \in Nat /\ n.ts <= last'[a]) \/ n.ts + Renominate <= born'
    <3>1. CASE n \in noms
      <4>1. (last[a] \in Nat /\ n.ts <= last[a]) \/ n.ts + Renominate <= born
        BY <2>2, <2>3, <3>1 DEF MemoryHolds, Remembers
      <4>2. CASE \E e \in touched : e.address = a
        <5>1. last'[a] = loop.ts /\ ~CoolingDown(a)
          BY <2>1, <2>3, <4>2 DEF LastAfter
        <5>2. last[a] \in Nat => last[a] + Renominate <= loop.ts
          BY <5>1, <2>2, Numbers, NoneAssumption DEF CoolingDown
        <5>3. n.ts \in Nat
          BY <3>1 DEF Types
        <5> QED
          BY <4>1, <5>1, <5>2, <5>3, <2>2, Numbers
      <4>3. CASE ~ \E e \in touched : e.address = a
        <5>1. last'[a] = last[a]
          BY <2>1, <2>3, <4>3 DEF LastAfter
        <5> QED
          BY <4>1, <5>1, <2>2
      <4> QED
        BY <4>2, <4>3
    <3>2. CASE n \in Nominated(touched, "WATCH")
      <4>1. n.ts = loop.ts /\ \E e \in touched : e.address = a
        BY <2>3, <3>2 DEF Nominated
      <4>2. last'[a] = loop.ts
        BY <2>1, <2>3, <4>1 DEF LastAfter
      <4> QED
        BY <4>1, <4>2, <2>2
    <3> QED
      BY <2>1, <2>3, <3>1, <3>2
  <2> QED
    BY <2>3 DEF MemoryHolds, Remembers
<1>3. CASE Crash
  BY <1>3, Shapes DEF Crash, MemoryHolds
<1>4. CASE Restart
  <2>1. noms' = noms /\ born' = now /\ now \in Nat
    BY <1>4 DEF Restart, Types
  <2>2. ASSUME NEW a \in Addresses, NEW n \in noms, n.address = a
        PROVE  (last'[a] \in Nat /\ n.ts <= last'[a]) \/ n.ts + Renominate <= now
    <3>1. IsLatest(a, last'[a]) /\ n.ts \in Nat
      BY <1>4, <2>2 DEF Restart, Types
    <3>2. CASE n.ts >= now - LookBack
      <4>1. n.ts \in Remembered(a)
        BY <2>2, <3>2 DEF Remembered
      <4>2. last'[a] \in Remembered(a) /\ last'[a] >= n.ts
        BY <3>1, <4>1 DEF IsLatest
      <4>3. last'[a] \in Nat
        BY <4>2 DEF Remembered, Types
      <4> QED
        BY <3>1, <4>2, <4>3
    <3>3. CASE ~(n.ts >= now - LookBack)
      BY <3>1, <3>3, <2>1, Numbers
    <3> QED
      BY <3>2, <3>3
  <2> QED
    BY <2>1, <2>2 DEF MemoryHolds, Remembers
<1> QED
  BY <1>1, <1>2, <1>3, <1>4, StepCases

LEMMA SpacedStep ==
    ASSUME IInv, [Next]_vars
    PROVE  NominationsSpaced'
<1> USE DEF IInv
<1>1. CASE \A n \in noms' : n.tier = "WATCH" => n \in noms
  BY <1>1 DEF NominationsSpaced
<1>2. CASE RunCycle
  <2>1. PICK evals, touched :
                 /\ last' = LastAfter(touched)
                 /\ \A e \in touched : ~CoolingDown(e.address)
                 /\ noms' = noms \cup Nominated(touched, "WATCH") \/ noms' = noms
    BY <1>2, RunCycleMoves
  <2>2. born \in Nat /\ loop.at = "rows" /\ loop.ts \in Nat /\ born <= loop.ts
    BY <1>2, RunCycleMoves DEF Types
  <2>3. ASSUME NEW a \in Addresses, NEW n \in noms, n.address = a, n.tier = "WATCH",
               NEW e \in touched, e.address = a
        PROVE  loop.ts - n.ts >= Renominate
    <3>1. (last[a] \in Nat /\ n.ts <= last[a]) \/ n.ts + Renominate <= born
      BY <2>2, <2>3 DEF MemoryHolds, Remembers
    <3>2. last[a] \in Nat => last[a] + Renominate <= loop.ts
      BY <2>1, <2>2, <2>3, Numbers, NoneAssumption DEF CoolingDown
    <3>3. n.ts \in Nat
      BY DEF Types
    <3> QED
      BY <2>2, <3>1, <3>2, <3>3, Numbers
  <2>4. ASSUME NEW n \in Nominated(touched, "WATCH")
        PROVE  /\ n = [address |-> n.address, ts |-> loop.ts, tier |-> "WATCH", cycle |-> cycle]
               /\ n.ts = loop.ts
               /\ \E e \in touched : e.address = n.address
    BY <2>4 DEF Nominated
  <2>5. ASSUME NEW a \in Addresses, NEW m \in noms', NEW n \in noms',
               m.address = a, n.address = a, m.tier = "WATCH", n.tier = "WATCH", m # n
        PROVE  (m.ts - n.ts >= Renominate) \/ (n.ts - m.ts >= Renominate)
    <3>1. CASE m \in noms /\ n \in noms
      BY <2>5, <3>1 DEF NominationsSpaced
    <3>2. CASE m \in noms /\ n \in Nominated(touched, "WATCH")
      BY <2>3, <2>4, <2>5, <3>2
    <3>3. CASE n \in noms /\ m \in Nominated(touched, "WATCH")
      BY <2>3, <2>4, <2>5, <3>3
    <3>4. CASE m \in Nominated(touched, "WATCH") /\ n \in Nominated(touched, "WATCH")
      <4>1. m = [address |-> a, ts |-> loop.ts, tier |-> "WATCH", cycle |-> cycle]
        BY <2>4, <2>5, <3>4
      <4>2. n = [address |-> a, ts |-> loop.ts, tier |-> "WATCH", cycle |-> cycle]
        BY <2>4, <2>5, <3>4
      <4> QED
        BY <2>5, <4>1, <4>2
    <3> QED
      BY <2>1, <2>5, <3>1, <3>2, <3>3, <3>4
  <2> QED
    BY <2>5 DEF NominationsSpaced
<1>3. CASE Crash \/ Restart
  BY <1>3 DEF Crash, Restart, NominationsSpaced
<1> QED
  BY <1>1, <1>2, <1>3, StepCases, WatchKept

\* Why the memory holds what it holds for a token.
Explains(a) ==
    \/ <<a, last[a]>> \in lost
    \/ \E n \in noms : n.address = a /\ n.ts = last[a] /\ (n.tier = "CONTROL" => n.ts <= born)

LEMMA ExplainedStep ==
    ASSUME IInv, [Next]_vars
    PROVE  CooldownExplained'
<1> USE DEF IInv
<1>1. ASSUME NEW a \in Addresses, last[a] # None, last'[a] = last[a], born' = born,
             noms \subseteq noms', lost \subseteq lost'
      PROVE  Explains(a)'
  BY <1>1 DEF CooldownExplained, Explains
<1>2. CASE KeepingStep \/ ListAnswers \/ DrawControls
  <2>1. last' = last /\ born' = born
    BY <1>2, WatchKept
  <2>2. noms \subseteq noms' /\ lost' = lost
    <3>1. CASE KeepingStep
      BY <3>1, KeepingSteps DEF KeepingStep, Keeps
    <3>2. CASE ListAnswers
      BY <3>2 DEF ListAnswers
    <3>3. CASE DrawControls
      BY <3>3, DrawControlsAdds
    <3> QED
      BY <1>2, <3>1, <3>2, <3>3
  <2> QED
    BY <1>1, <2>1, <2>2 DEF CooldownExplained, Explains
<1>3. CASE RunCycle
  <2>1. PICK evals, touched :
                 /\ last' = LastAfter(touched)
                 /\ \/ noms' = noms \cup Nominated(touched, "WATCH") /\ lost' = lost
                    \/ noms' = noms /\ lost' = lost \cup {<<e.address, loop.ts>> : e \in touched}
    BY <1>3, RunCycleMoves
  <2>2. born' = born /\ noms \subseteq noms' /\ lost \subseteq lost'
    BY <1>3, <2>1, RunCycleMoves
  <2>3. ASSUME NEW a \in Addresses, last'[a] # None
        PROVE  Explains(a)'
    <3>1. CASE \E e \in touched : e.address = a
      <4>1. PICK e \in touched : e.address = a
        BY <3>1
      <4>2. last'[a] = loop.ts
        BY <2>1, <4>1 DEF LastAfter
      <4>3. CASE noms' = noms \cup Nominated(touched, "WATCH")
        <5> DEFINE n == [address |-> e.address, ts |-> loop.ts, tier |-> "WATCH", cycle |-> cycle]
        <5>1. n \in noms'
          BY <4>1, <4>3 DEF Nominated
        <5>2. n.address = a /\ n.ts = last'[a] /\ n.tier # "CONTROL"
          BY <4>1, <4>2
        <5> QED
          BY <5>1, <5>2 DEF Explains
      <4>4. CASE lost' = lost \cup {<<x.address, loop.ts>> : x \in touched}
        <5>1. <<e.address, loop.ts>> \in lost'
          BY <4>1, <4>4
        <5> QED
          BY <4>1, <4>2, <5>1 DEF Explains
      <4> QED
        BY <2>1, <4>3, <4>4
    <3>2. CASE ~ \E e \in touched : e.address = a
      <4>1. last'[a] = last[a]
        BY <2>1, <3>2 DEF LastAfter
      <4> QED
        BY <1>1, <2>2, <2>3, <4>1
    <3> QED
      BY <3>1, <3>2
  <2> QED
    BY <2>3 DEF CooldownExplained, Explains
<1>4. CASE Crash
  BY <1>4 DEF Crash, Never, CooldownExplained
<1>5. CASE Restart
  <2>1. noms' = noms /\ born' = now /\ now \in Nat
    BY <1>5 DEF Restart, Types
  <2>2. ASSUME NEW a \in Addresses, last'[a] # None
        PROVE  Explains(a)'
    <3>1. IsLatest(a, last'[a])
      BY <1>5 DEF Restart
    <3>2. last'[a] \in Remembered(a)
      BY <2>2, <3>1 DEF IsLatest
    <3>3. PICK n \in noms : n.address = a /\ n.ts = last'[a]
      BY <3>2 DEF Remembered
    <3>4. n.ts <= now
      BY DEF Types
    <3> QED
      BY <2>1, <3>3, <3>4 DEF Explains
  <2> QED
    BY <2>2 DEF CooldownExplained, Explains
<1> QED
  BY <1>2, <1>3, <1>4, <1>5, StepCases

-----------------------------------------------------------------------------
\* What a replay of a stored page sees.
LEMMA SameView ==
    ASSUME NEW id, NEW ts, chain' = chain,
           {r \in table' : r.cycle = id} = {r \in table : r.cycle = id},
           {r \in table' : r.ts < ts} = {r \in table : r.ts < ts}
    PROVE  Replayed(id, ts)' = Replayed(id, ts) /\ StoredPage(id)' = StoredPage(id)
<1>1. StoredPage(id)' = StoredPage(id)
  BY DEF StoredPage
<1>2. Before(ts)' = Before(ts)
  BY DEF Before
<1>3. C' = C
  BY DEF C
<1> QED
  BY <1>1, <1>2, <1>3 DEF Replayed

LEMMA StoredStep ==
    ASSUME IInv, [Next]_vars
    PROVE  PagesStored' /\ ReplayAgrees'
<1> USE DEF IInv
<1>1. ASSUME table' = table, chain' = chain
      PROVE  /\ \A id, ts : Replayed(id, ts)' = Replayed(id, ts)
             /\ \A id : StoredPage(id)' = StoredPage(id)
  BY <1>1, SameView
<1>2. CASE KeepingStep
  <2>1. Keeps /\ LoopMoves
    BY <1>2, KeepingSteps DEF KeepingStep
  <2>2. ReplayAgrees'
    BY <2>1, <1>1 DEF ReplayAgrees, Keeps
  <2>3. now \in Nat /\ now' \in Nat /\ now <= now' /\ cycle \in Nat /\ cycle' \in Nat /\ cycle <= cycle'
    BY <2>1 DEF Types, LoopMoves
  <2>4. /\ \A r \in table' : r.cycle \in Nat /\ r.cycle <= cycle'
        /\ \A e \in live' : e.cycle \in Nat /\ e.cycle <= cycle' /\ e.ts \in Nat /\ e.ts <= now'
    BY <2>1, <2>3 DEF PagesStored, Keeps
  <2>5. loop'.at \in {"list", "rows"} =>
           \/ loop' = loop /\ cycle' = cycle
           \/ loop'.at = "list" /\ loop'.ts = now /\ cycle' = cycle + 1
    BY <2>1, Shapes, PauseShape DEF LoopMoves
  <2>6. loop'.at = "list" =>
          /\ \A r \in table' : r.cycle < cycle'
          /\ \A e \in live' : e.cycle < cycle' /\ e.ts <= loop'.ts
    BY <2>1, <2>3, <2>5 DEF PagesStored, Keeps
  <2>7. loop'.at = "rows" => loop'.rows = StoredPage(cycle)'
    BY <2>1, <2>5 DEF PagesStored, Keeps, StoredPage
  <2> QED
    BY <2>2, <2>4, <2>6, <2>7 DEF PagesStored
<1>3. CASE ListAnswers
  <2>1. UNCHANGED <<now, chain, cycle, live>> /\ loop.at = "list" /\ cycle \in Nat
    BY <1>3, ListAnswersAdds DEF Types
  <2>2. PICK new : /\ table' = table \cup new
                   /\ \A r \in new : r.cycle = cycle /\ r.ts = loop.ts
                   /\ \/ loop' = Pause(loop)
                      \/ loop'.at = "rows" /\ loop'.rows = InOrder(new)
    BY <1>3, ListAnswersAdds
  <2>3. ASSUME NEW e \in live
        PROVE  Replayed(e.cycle, e.ts)' = Replayed(e.cycle, e.ts)
    <3>1. e.cycle < cycle /\ e.ts <= loop.ts /\ loop.ts \in Nat /\ e.ts \in Nat /\ e.cycle \in Nat
      BY <2>1 DEF PagesStored, Types
    <3>2. \A r \in new : r.cycle # e.cycle /\ ~(r.ts < e.ts)
      BY <2>1, <2>2, <3>1
    <3>3. {r \in table' : r.cycle = e.cycle} = {r \in table : r.cycle = e.cycle}
      BY <2>2, <3>2
    <3>4. {r \in table' : r.ts < e.ts} = {r \in table : r.ts < e.ts}
      BY <2>2, <3>2
    <3> QED
      BY <2>1, <3>3, <3>4, SameView
  <2>4. ReplayAgrees'
    BY <2>1, <2>3 DEF ReplayAgrees
  <2>5. {r \in table' : r.cycle = cycle} = new
    BY <2>1, <2>2 DEF PagesStored
  <2>6. loop'.at = "rows" => loop'.rows = StoredPage(cycle)'
    BY <2>1, <2>2, <2>5, PauseShape DEF StoredPage
  <2>7. loop'.at # "list"
    BY <2>2, PauseShape
  <2>8. \A r \in table' : r.cycle \in Nat /\ r.cycle <= cycle
    BY <2>1, <2>2 DEF PagesStored
  <2> QED
    BY <2>1, <2>4, <2>6, <2>7, <2>8 DEF PagesStored
<1>4. CASE RunCycle
  <2>1. UNCHANGED <<now, chain, cycle, table>> /\ loop.at = "rows" /\ cycle \in Nat
        /\ loop.ts \in Nat /\ loop.ts <= now
    BY <1>4, RunCycleMoves DEF Types
  <2>2. PICK evals :
                 /\ evals = Evaluate(loop.rows, Before(loop.ts), C, loop.ts)
                 /\ live' = live \cup {[cycle |-> cycle, ts |-> loop.ts, evals |-> evals]}
                 /\ loop'.at \in {"label", "pause"}
    BY <1>4, RunCycleMoves, PauseShape
  <2>3. evals = Replayed(cycle, loop.ts)
    BY <2>1, <2>2 DEF Replayed, PagesStored
  <2>4. \A e \in live' : Replayed(e.cycle, e.ts) = e.evals
    BY <2>2, <2>3 DEF ReplayAgrees
  <2>5. ReplayAgrees'
    BY <2>1, <2>4, <1>1 DEF ReplayAgrees
  <2>6. \A e \in live' : e.cycle \in Nat /\ e.cycle <= cycle /\ e.ts \in Nat /\ e.ts <= now
    BY <2>1, <2>2 DEF PagesStored
  <2> QED
    BY <2>1, <2>2, <2>5, <2>6 DEF PagesStored
<1>5. CASE DrawControls \/ Crash \/ Restart
  <2>1. UNCHANGED <<now, chain, cycle, table, live>> /\ loop'.at \notin {"list", "rows"}
    BY <1>5, DrawControlsAdds, PauseShape, Shapes DEF Crash, Restart, CycleAtStart
  <2> QED
    BY <2>1, <1>1 DEF PagesStored, ReplayAgrees
<1> QED
  BY <1>2, <1>3, <1>4, <1>5, StepCases

-----------------------------------------------------------------------------
THEOREM Invariance == Spec => []IInv
<1>1. Init => IInv
  BY InitHolds
<1>2. IInv /\ [Next]_vars => IInv'
  <2> SUFFICES ASSUME IInv, [Next]_vars PROVE IInv'
    OBVIOUS
  <2> QED
    BY TypesStep, MemoryStep, SpacedStep, ExplainedStep, StoredStep, QuietStep DEF IInv
<1> QED
  BY <1>1, <1>2, PTL DEF Spec

\* Nominations of a token are renominate_after apart, for any pages, gates,
\* failures and restarts, because Stage 1 looks back far enough when it starts
\* (last_nominated of Stage1).
THEOREM SpacedHolds == Spec => []NominationsSpaced
<1>1. IInv => NominationsSpaced
  BY DEF IInv
<1> QED
  BY Invariance, <1>1, PTL

\* Only a nomination, one that was rolled back, or a control row read at the
\* start holds a token back (Stage1.run_cycle, Labeler.on_cycle).
THEOREM ExplainedHolds == Spec => []CooldownExplained
<1>1. IInv => CooldownExplained
  BY DEF IInv
<1> QED
  BY Invariance, <1>1, PTL

\* A replay of stored rows agrees with the live evaluation, whatever the
\* features and gates compute (the docstrings of stage1.py and replay.py).
THEOREM ReplayHolds == Spec => []ReplayAgrees
<1>1. IInv => ReplayAgrees
  BY DEF IInv
<1> QED
  BY Invariance, <1>1, PTL

\* A loop that waits has been in the quiet window within the last quiet sleep,
\* for any window and any shift of the local time (chain_loop, Schedule).
THEOREM ScansResumeHolds == Spec => []ScansResume
<1>1. IInv => ScansResume
  <2> SUFFICES ASSUME IInv, loop.at = "quiet" PROVE \E t \in now - QuietSleep .. now : InQuiet(t)
    BY DEF ScansResume
  <2>1. loop.until \in Int /\ now \in Nat
    BY DEF IInv, QuietWait, Types
  <2>2. PICK t \in Nat : QuietSince(t)
    BY DEF IInv, QuietWait
  <2>3. t \in now - QuietSleep .. now
    BY <2>1, <2>2, Numbers DEF QuietSince
  <2> QED
    BY <2>2, <2>3 DEF QuietSince
<1> QED
  BY Invariance, <1>1, PTL
=============================================================================

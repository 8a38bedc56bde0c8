--------------------------------- MODULE Intake ---------------------------------
(***************************************************************************)
(* How tokens come in: one chain's loop (chain_loop of scanner/runner.py)  *)
(* with its schedule over local days and daylight saving, the Stage-0      *)
(* cycle and its stored rows, Stage 1's nominations under their cooldown,  *)
(* and the control sample drawn after them.  List calls fail or take time, *)
(* transactions roll back, and the process dies between any two of them    *)
(* and is started again.  The replay of scanner/replay.py reads what is    *)
(* left.  Times are in minutes.                                            *)
(***************************************************************************)
EXTENDS Ignition

CONSTANTS
    Addresses,
    Settings,     \* of each chain: its stage0 and stage1 settings, and scan_interval
    Pages,        \* bound: what the token list of each chain may answer, by the time asked
    Schedules,    \* bound: [start, end: of the quiet window, mode, slow, shift]
    DayM,         \* minutes of a day without a shift
    ShiftAt,      \* when the local time shifts, by schedule.shift
    QuietSleep,   \* the 60 s of chain_loop
    Renominate,   \* renominate_after_s
    LookBack,     \* how far Stage 1 looks back for nominations when it starts
    MaxLag,       \* bound: how long a list call takes
    MaxNow,       \* bound: the clock
    MaxControls,  \* bound: rows of the control sample
    MaxFaults     \* bound: crashes and failed transactions

ASSUME IntakeAssumption ==
    /\ {ShiftAt, Renominate, LookBack, MaxLag, MaxNow, MaxControls, MaxFaults} \subseteq Nat
    /\ {DayM, QuietSleep} \subseteq Nat \ {0}
    /\ Renominate <= LookBack
    /\ \A c \in DOMAIN Settings : Settings[c].scan_interval \in Nat
    /\ \A s \in Schedules : {s.start, s.end} \subseteq Nat /\ s.shift \in Int

ASSUME NoneAssumption == None \notin Int

VARIABLES
    now,      \* the clock
    chain,    \* the chain
    sched,    \* its schedule
    faults,   \* bound: how many faults there have been
    loop,     \* chain_loop: [at, until, ts, rows, evals]; at is "down" without a process
    cycle,    \* the cycle id in the table meta
    table,    \* the table scan_rows
    noms,     \* the table nominations: [address, ts, tier, cycle]
    last,     \* Stage1.last_nominated
    lost,     \* history: address and time of nominations that were rolled back
    born,     \* history: when the process started
    live      \* history: the Stage-1 results as they were computed

vars == <<now, chain, sched, faults, loop, cycle, table, noms, last, lost, born, live>>

C == Settings[chain]

-----------------------------------------------------------------------------
(* schedule.py and the local days of clock.py *)

Offset(t) == IF t < ShiftAt THEN 0 ELSE sched.shift

LocalMinutes(t) == (t + Offset(t)) % DayM

\* The clock at the local midnight that begins the day.
Midnight(day) == IF day * DayM < ShiftAt THEN day * DayM ELSE day * DayM - sched.shift

LocalDay(t) == (t + Offset(t)) \div DayM

InQuiet(t) ==
    LET m == LocalMinutes(t)
    IN IF sched.start = sched.end THEN FALSE
       ELSE IF sched.start < sched.end THEN sched.start <= m /\ m < sched.end
       ELSE m >= sched.start \/ m < sched.end

\* None: no scan now.
ScanInterval(t) ==
    IF ~InQuiet(t) THEN C.scan_interval
    ELSE IF sched.mode = "slow" THEN Larger(C.scan_interval, sched.slow)
    ELSE None

Earliest(a, b) == IF a <= b THEN a ELSE b

NextTransition(t) ==
    LET ahead == {m \in {sched.start, sched.end} : m > LocalMinutes(t)}
    IN IF ahead = {} THEN Midnight(LocalDay(t) + 1) + Earliest(sched.start, sched.end)
       ELSE Midnight(LocalDay(t)) + (CHOOSE m \in ahead : \A k \in ahead : m <= k)

-----------------------------------------------------------------------------
Down   == [at |-> "down", until |-> 0, ts |-> 0, rows |-> <<>>, evals |-> <<>>]
Awake  == [Down EXCEPT !.at = "awake"]
Never  == [a \in Addresses |-> None]

\* The loop sleeps the rest of the interval that began with the cycle.
Pause(l) == [Down EXCEPT !.at = "pause", !.until = Larger(now, l.until)]

Init ==
    /\ now = 0
    /\ chain \in DOMAIN Settings
    /\ sched \in Schedules
    /\ faults = 0
    /\ loop = Awake
    /\ cycle = 0 /\ table = {} /\ noms = {}
    /\ last = Never
    /\ lost = {} /\ born = 0 /\ live = {}

\* What runs without an await takes no time, and timers fire on time.
Tick ==
    /\ now < MaxNow
    /\ loop.at \notin {"awake", "rows", "label"}
    /\ loop.at \in {"quiet", "pause"} => now < loop.until
    /\ loop.at = "list" => now < loop.ts + MaxLag
    /\ now' = now + 1
    /\ UNCHANGED <<chain, sched, faults, loop, cycle, table, noms, last, lost, born, live>>

-----------------------------------------------------------------------------
\* Mutated forms of the definitions below.
ToTheBoundary == Larger(1, NextTransition(now) - now)

NewId == 0

SinceTheAnswer(a) == last[a] # None /\ now - last[a] < Renominate

TouchedIfPassed(evals, nominees) == {e \in Range(evals) : e.fails = {}}

-----------------------------------------------------------------------------
(* chain_loop *)

WakesUp ==
    /\ loop.at \in {"quiet", "pause"} /\ now = loop.until
    /\ loop' = Awake
    /\ UNCHANGED <<now, chain, sched, faults, cycle, table, noms, last, lost, born, live>>

\* next_transition is an hour off on a day with a shift.
QuietFor == Earliest(QuietSleep, Larger(1, NextTransition(now) - now))

Quiet ==
    /\ loop.at = "awake" /\ ScanInterval(now) = None
    /\ loop' = [Down EXCEPT !.at = "quiet", !.until = now + QuietFor]
    /\ UNCHANGED <<now, chain, sched, faults, cycle, table, noms, last, lost, born, live>>

\* The cycle id is stored before anything else of the cycle.
StartCycle ==
    /\ loop.at = "awake" /\ ScanInterval(now) # None
    /\ cycle' = cycle + 1
    /\ LET begun == [Down EXCEPT !.at = "list", !.ts = now, !.until = now + ScanInterval(now)]
       IN loop' \in {begun, Pause(begun)}  \* the second when the CU cap is reached
    /\ UNCHANGED <<now, chain, sched, faults, table, noms, last, lost, born, live>>

ListFails ==
    /\ loop.at = "list"
    /\ loop' = Pause(loop)
    /\ UNCHANGED <<now, chain, sched, faults, cycle, table, noms, last, lost, born, live>>

\* The rows of the answer carry the time at which the cycle began.
ListAnswers ==
    /\ loop.at = "list"
    /\ \E page \in Pages[chain] :
          LET rows == Kept([k \in DOMAIN page |-> page[k] @@ [last_trade_ts |-> now]], C, cycle, loop.ts)
          IN /\ table' = table \cup rows
             /\ loop' = IF rows = {} THEN Pause(loop)
                        ELSE [loop EXCEPT !.at = "rows", !.rows = InOrder(rows)]
    /\ UNCHANGED <<now, chain, sched, faults, cycle, noms, last, lost, born, live>>

-----------------------------------------------------------------------------
(* Stage1.run_cycle *)

Before(ts) == {r \in table : r.ts < ts}

CoolingDown(a) == last[a] # None /\ loop.ts - last[a] < Renominate

Nominees(evals) ==
    {e \in Range(evals) : e.fails = {} /\ ~CoolingDown(e.address)}

\* The addresses whose last_nominated is set, before any row is written.
Touched(evals, nominees) == nominees

Nominated(nominees, tier) ==
    {[address |-> e.address, ts |-> loop.ts, tier |-> tier, cycle |-> cycle] : e \in nominees}

LastAfter(touched) ==
    [a \in Addresses |-> IF \E e \in touched : e.address = a THEN loop.ts ELSE last[a]]

RunCycle ==
    /\ loop.at = "rows" /\ ~Raises(loop.rows, C)
    /\ LET evals == Evaluate(loop.rows, Before(loop.ts), C, loop.ts)
       IN /\ last' = LastAfter(Touched(evals, Nominees(evals)))
          /\ live' = live \cup {[cycle |-> cycle, ts |-> loop.ts, evals |-> evals]}
          /\ \/ noms' = noms \cup Nominated(Nominees(evals), "WATCH")
                /\ loop' = [loop EXCEPT !.at = "label", !.rows = <<>>, !.evals = evals]
                /\ UNCHANGED <<faults, lost>>
             \/ Nominees(evals) # {} /\ faults < MaxFaults   \* the transaction rolls back
                /\ faults' = faults + 1
                /\ lost' = lost \cup {<<e.address, loop.ts>> : e \in Nominees(evals)}
                /\ loop' = Pause(loop)
                /\ UNCHANGED noms
    /\ UNCHANGED <<now, chain, sched, cycle, table, born>>

RunCycleRaises ==
    /\ loop.at = "rows" /\ Raises(loop.rows, C)
    /\ loop' = Pause(loop)
    /\ UNCHANGED <<now, chain, sched, faults, cycle, table, noms, last, lost, born, live>>

Controls == {n \in noms : n.tier = "CONTROL"}

\* labeler.on_cycle: at most one control, of those the cycle has not nominated.
DrawControls ==
    /\ loop.at = "label"
    /\ LET nominated == {n.address : n \in {m \in noms : m.cycle = cycle}}
           pool == {e \in Range(loop.evals) : e.address \notin nominated}
       IN \E drawn \in {{}} \cup {{e} : e \in pool} : 
              /\ drawn = {} \/ Cardinality(Controls) < MaxControls
              /\ noms' = noms \cup Nominated(drawn, "CONTROL")
    /\ loop' = Pause(loop)
    /\ UNCHANGED <<now, chain, sched, faults, cycle, table, last, lost, born, live>>

\* The transaction of the scanned rows or of the controls rolls back.
TransactionFails ==
    /\ loop.at \in {"list", "label"} /\ faults < MaxFaults
    /\ faults' = faults + 1
    /\ loop' = Pause(loop)
    /\ UNCHANGED <<now, chain, sched, cycle, table, noms, last, lost, born, live>>

-----------------------------------------------------------------------------
Crash ==
    /\ loop.at # "down" /\ faults < MaxFaults
    /\ faults' = faults + 1
    /\ loop' = Down
    /\ last' = Never
    /\ UNCHANGED <<now, chain, sched, cycle, table, noms, lost, born, live>>

\* Stage 1 takes up the nominations of the last day, of either tier.
Remembered(a) == {n.ts : n \in {m \in noms : m.address = a /\ m.ts >= now - LookBack}}

IsLatest(a, t) ==
    IF Remembered(a) = {} THEN t = None
    ELSE t \in Remembered(a) /\ \A s \in Remembered(a) : t >= s

CycleAtStart == cycle

Restart ==
    /\ loop.at = "down"
    /\ loop' = Awake
    /\ last' \in {f \in [Addresses -> {n.ts : n \in noms} \cup {None}] :
                     \A a \in Addresses : IsLatest(a, f[a])}
    /\ cycle' = CycleAtStart
    /\ born' = now
    /\ UNCHANGED <<now, chain, sched, faults, table, noms, lost, live>>

Next ==
    \/ Tick \/ WakesUp \/ Quiet \/ StartCycle \/ ListFails \/ ListAnswers
    \/ RunCycle \/ RunCycleRaises \/ DrawControls \/ TransactionFails \/ Crash \/ Restart

Spec == Init /\ [][Next]_vars

-----------------------------------------------------------------------------
(* replay.py *)

StoredPage(id) == InOrder({r \in table : r.cycle = id})

Replayed(id, ts) == Evaluate(StoredPage(id), Before(ts), C, ts)

-----------------------------------------------------------------------------
\* Two nominations of a token are renominate_after apart, over restarts,
\* rolled-back transactions and list calls that answer late.
NominationsSpaced ==
    \A a \in Addresses : \A m, n \in {k \in noms : k.address = a /\ k.tier = "WATCH"} :
        m # n => m.ts - n.ts >= Renominate \/ n.ts - m.ts >= Renominate

\* What holds a token back is a nomination it had, one whose row was rolled
\* back, or, after a restart only, a row of the control sample: a token that
\* passes on every page is nominated as often as the cooldown lets it.
CooldownExplained ==
    \A a \in Addresses : last[a] # None =>
        \/ <<a, last[a]>> \in lost
        \/ \E n \in noms : n.address = a /\ n.ts = last[a] /\ (n.tier = "CONTROL" => n.ts <= born)

\* A replay over the stored rows finds for every evaluated page the features
\* and gates of the live evaluation, though pages came after it and cycles
\* around it were cut short (the docstrings of stage1.py and replay.py).
ReplayAgrees == \A e \in live : Replayed(e.cycle, e.ts) = e.evals

\* The loop does not sleep into the active hours: whenever it waits for the
\* quiet window to end the window was open within the last quiet sleep, also
\* on a day whose boundary next_transition misses because of a shift.
ScansResume == loop.at = "quiet" => \E t \in now - QuietSleep .. now : InQuiet(t)
=============================================================================

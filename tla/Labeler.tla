------------------------------- MODULE Labeler -------------------------------
(***************************************************************************)
(* The outcome labels of alerts, nominations, near misses and controls     *)
(* (scanner/labeler.py).  All pending work is in the labels table: one row *)
(* per event and horizon.  The label loop of scanner/runner.py settles the *)
(* rows in two passes, awaiting the network in both, while the chain loops *)
(* and the evaluation jobs enqueue more.  The connection commits every     *)
(* statement by itself, so a crash can fall between any two of them.       *)
(***************************************************************************)
EXTENDS Integers, FiniteSets

CONSTANTS
    Events,           \* numbered in the order of their addresses
    KindOf,           \* ref_kind of each event
    PathKinds,        \* labeler.ohlcv_path_for
    ChainOf, Chains,
    Horizons,         \* labeler.horizons_min
    Grace,            \* labeler.grace_s
    PathDeadline,     \* labeler.path_deadline_s
    MaxPathAttempts,
    MaxAsk,           \* addresses one multi_price call asks for: 100
    None,
    MaxTime,          \* bound: the clock stops here
    LastEvent,        \* bound: no event is enqueued later than this
    MaxCrashes        \* bound on crashes

Kinds == {"alert", "nomination", "near_miss", "control"}
Rows == Events \X Horizons

ASSUME LabelerAssumption ==
    /\ Events \subseteq Nat
    /\ KindOf \in [Events -> Kinds]
    /\ PathKinds \subseteq Kinds
    /\ ChainOf \in [Events -> Chains]
    /\ Horizons \subseteq Nat
    /\ {Grace, PathDeadline, MaxPathAttempts, MaxAsk, MaxTime, LastEvent, MaxCrashes}
           \subseteq Nat

ASSUME LastHorizonExists == \E h \in Horizons : \A g \in Horizons : g <= h

Final == CHOOSE h \in Horizons : \A g \in Horizons : g <= h

VARIABLES
    now,
    events,    \* t0 and the draw of in_path_sample, or None
    labels,    \* the labels table
    loop,      \* the label loop inside Labeler.tick
    configured,  \* the chains this process serves
    crashes,
    tries,     \* history: OHLCV requests and missed final closes, per event
    torn       \* history: events whose path update was cut short

vars == <<now, events, labels, loop, configured, crashes, tries, torn>>
history == <<tries, torn>>

-----------------------------------------------------------------------------
Event == [t0 : Nat, sampled : BOOLEAN]

\* attempts is kept for the final horizon only, which is where it is read, and
\* up to the bound it is compared with.
Label == [status : {"pending", "done", "failed"},
          path : {"pending", "done", "failed", "skipped"},
          source : {"none", "scan_row", "multi_price", "ohlcv"},
          attempts : 0 .. MaxPathAttempts]

ASSUME NoneAssumption == None \notin Event \cup Label \cup Events \cup Chains

NewLabel == [status |-> "pending", path |-> "pending", source |-> "none", attempts |-> 0]

\* due: the rows of the close pass still to settle; chain: whose prices are
\* awaited; paths: the events of the path pass; current: whose candles are.
Loop == [at : {"asleep", "down", "closing", "pricing", "pathing", "candles"},
         wake : Nat, ts : Nat, due : SUBSET Rows, chain : Chains \cup {None},
         paths : SUBSET Events, current : Events \cup {None}]

Waking(t) == [at |-> "asleep", wake |-> t, ts |-> 0, due |-> {}, chain |-> None,
              paths |-> {}, current |-> None]
Asleep == Waking(IF now < MaxTime THEN now + 1 ELSE now)

InTable(r) == labels[r] # None
Due(r) == events[r[1]].t0 + r[2]
Pending(r) == InTable(r) /\ labels[r].status = "pending"
PathPending(e) == InTable(<<e, Final>>) /\ labels[<<e, Final>>].path = "pending"
RowsOf(e) == {r \in Rows : r[1] = e /\ InTable(r)}

More(n) == IF n < MaxPathAttempts THEN n + 1 ELSE n

\* UPDATE labels SET ... WHERE id in S
Update(S, F(_)) == [r \in Rows |-> IF r \in S THEN F(labels[r]) ELSE labels[r]]

-----------------------------------------------------------------------------
\* Mutated forms of the definitions below.
FilledIfPending(label) ==
    [label EXCEPT !.path = "done", !.status = IF @ = "pending" THEN "done" ELSE @,
                  !.source = IF @ = "none" THEN "ohlcv" ELSE @]

FilledAnew(label) == [label EXCEPT !.path = "done", !.status = "done", !.source = "ohlcv"]

LeftUnfilled(label) == label

LateIfServed(e) ==
    ChainOf[e] \in configured /\ loop.ts - Due(<<e, Final>>) > PathDeadline

ExhaustedEarly(e) == labels[<<e, Final>>].attempts + 1 >= MaxPathAttempts

-----------------------------------------------------------------------------
\* in_path_sample draws among nominations and near misses only.
Drawn(e) == KindOf[e] \in {"nomination", "near_miss"}

\* enqueue: the rows of an alert and of a cycle's nominations and controls are
\* committed together, those of a near miss one by one.
Insert(e, horizons, sampled) ==
    /\ loop.at # "down"
    /\ now <= LastEvent
    /\ events[e] = None
    /\ ~sampled => Drawn(e)
    /\ events' = [events EXCEPT ![e] = [t0 |-> now, sampled |-> sampled]]
    /\ labels' = [r \in Rows |-> IF r[1] = e /\ r[2] \in horizons
                                 THEN NewLabel ELSE labels[r]]

Enqueue(e, sampled) ==
    /\ Insert(e, Horizons, sampled)
    /\ UNCHANGED <<now, loop, configured, crashes, history>>

EnqueueTorn(e, h, sampled) ==
    /\ KindOf[e] = "near_miss"
    /\ crashes < MaxCrashes
    /\ Insert(e, {g \in Horizons : g < h}, sampled)
    /\ loop' = [Waking(0) EXCEPT !.at = "down"]
    /\ crashes' = crashes + 1
    /\ UNCHANGED <<now, configured, history>>

-----------------------------------------------------------------------------
\* The close pass reads the clock and the due rows once.
StartTick ==
    /\ loop.at = "asleep" /\ now >= loop.wake
    /\ loop' = [loop EXCEPT !.at = "closing", !.ts = now,
                            !.due = {r \in Rows : Pending(r) /\ Due(r) <= now}]
    /\ UNCHANGED <<now, events, labels, configured, crashes, history>>

DueOn(c) == {r \in loop.due : ChainOf[r[1]] = c}

MarkDone(label, src) == [label EXCEPT !.status = "done", !.source = src]

\* The rows with a scan row near their due time are done; the prices of the
\* others are asked for, if the chain is configured.
CloseFromScans(c, hits) ==
    LET rest == DueOn(c) \ hits
        FromScan(label) == MarkDone(label, "scan_row")
    IN  /\ loop.at = "closing"
        /\ DueOn(c) # {}
        /\ hits \subseteq DueOn(c)
        /\ labels' = Update(hits, FromScan)
        /\ loop' = IF rest # {} /\ c \in configured
                   THEN [loop EXCEPT !.at = "pricing", !.chain = c, !.due = @ \ hits]
                   ELSE [loop EXCEPT !.due = @ \ DueOn(c)]
        /\ UNCHANGED <<now, events, configured, crashes, history>>

\* addresses[:100] of the sorted ones
Asked(R) ==
    LET addresses == {r[1] : r \in R}
    IN  {a \in addresses : Cardinality({b \in addresses : b < a}) < MaxAsk}

GraceOver(r) == loop.ts - Due(r) > Grace

Missed(r, label) ==
    [label EXCEPT !.status = IF GraceOver(r) THEN "failed" ELSE @,
                  !.attempts = IF r[2] = Final THEN More(@) ELSE @]

\* multi_price answered for these addresses; for none of them when the request
\* failed, was over the daily cap, or is not in the plan.  Of the rows that
\* waited those of S are updated, each by a statement of its own.
SettleRows(answered, S) ==
    /\ loop.at = "pricing"
    /\ answered \subseteq Asked(DueOn(loop.chain))
    /\ labels' = [r \in Rows |->
                     IF r \notin S THEN labels[r]
                     ELSE IF r[1] \in answered THEN MarkDone(labels[r], "multi_price")
                     ELSE Missed(r, labels[r])]
    /\ tries' = [e \in Events |->
                     IF <<e, Final>> \in S /\ e \notin answered THEN More(tries[e]) ELSE tries[e]]
    /\ UNCHANGED <<now, events, configured, torn>>

PricesArrive(answered) ==
    /\ SettleRows(answered, DueOn(loop.chain))
    /\ loop' = [loop EXCEPT !.at = "closing", !.chain = None, !.due = @ \ DueOn(loop.chain)]
    /\ UNCHANGED crashes

\* The process dies between two of the updates, which are in the order of the
\* due times; ties are left open.
PricesCrash(answered, S) ==
    /\ crashes < MaxCrashes
    /\ S \subseteq DueOn(loop.chain)
    /\ \A q \in DueOn(loop.chain), r \in S : Due(q) < Due(r) => q \in S
    /\ SettleRows(answered, S)
    /\ loop' = [Waking(0) EXCEPT !.at = "down"]
    /\ crashes' = crashes + 1

-----------------------------------------------------------------------------
\* The path pass reads the events whose final horizon has passed.
PathDue(e) ==
    /\ KindOf[e] \in PathKinds
    /\ PathPending(e)
    /\ Due(<<e, Final>>) <= loop.ts

CloseEnds ==
    /\ loop.at = "closing" /\ loop.due = {}
    /\ loop' = [loop EXCEPT !.at = "pathing", !.paths = {e \in Events : PathDue(e)}]
    /\ UNCHANGED <<now, events, labels, configured, crashes, history>>

\* ORDER BY due_ts; ties are left open.
Next1st(e) ==
    /\ loop.at = "pathing"
    /\ e \in loop.paths
    /\ \A f \in loop.paths : events[e].t0 <= events[f].t0

LeftOut(e) == Drawn(e) /\ ~events[e].sampled
Late(e) == loop.ts - Due(<<e, Final>>) > PathDeadline
Exhausted(e) == labels[<<e, Final>>].attempts >= MaxPathAttempts

SetPaths(e, value) ==
    LET Set(label) == [label EXCEPT !.path = value]
    IN  /\ labels' = Update(RowsOf(e), Set)
        /\ loop' = [loop EXCEPT !.paths = @ \ {e}]
        /\ UNCHANGED <<now, events, configured, crashes, history>>

SkipPath(e) == Next1st(e) /\ LeftOut(e) /\ SetPaths(e, "skipped")

GiveUpPath(e) ==
    /\ Next1st(e) /\ ~LeftOut(e)
    /\ Late(e) \/ Exhausted(e)
    /\ SetPaths(e, "failed")

Worthwhile(e) == Next1st(e) /\ ~LeftOut(e) /\ ~Late(e) /\ ~Exhausted(e)

\* The chain is not configured any more, or the daily cap is reached.
PostponePath(e) ==
    /\ Worthwhile(e)
    /\ loop' = [loop EXCEPT !.paths = @ \ {e}]
    /\ UNCHANGED <<now, events, labels, configured, crashes, history>>

AskCandles(e) ==
    /\ Worthwhile(e)
    /\ ChainOf[e] \in configured
    /\ loop' = [loop EXCEPT !.at = "candles", !.paths = @ \ {e}, !.current = e]
    /\ tries' = [tries EXCEPT ![e] = More(@)]
    /\ UNCHANGED <<now, events, labels, configured, crashes, torn>>

CandlesDone == [loop EXCEPT !.at = "pathing", !.current = None]

\* An error, or an empty answer.
NoCandles ==
    LET Counted(label) == [label EXCEPT !.attempts = More(@)]
    IN  /\ loop.at = "candles"
        /\ labels' = Update({<<loop.current, Final>>}, Counted)
        /\ loop' = CandlesDone
        /\ UNCHANGED <<now, events, configured, crashes, history>>

Filled(label) ==
    [label EXCEPT !.path = "done", !.status = "done",
                  !.source = IF @ = "none" THEN "ohlcv" ELSE @]

Unfilled(label) == [label EXCEPT !.path = IF @ = "pending" THEN "failed" ELSE @]

\* The horizons whose window holds a candle: all from some first one on.
Windows == {{h \in Horizons : h >= first} : first \in Horizons} \cup {{}}

\* apply_path
ApplyPath(window) ==
    /\ loop.at = "candles"
    /\ labels' = [r \in Rows |->
                     IF r \notin RowsOf(loop.current) THEN labels[r]
                     ELSE IF r[2] \in window THEN Filled(labels[r]) ELSE Unfilled(labels[r])]
    /\ loop' = CandlesDone
    /\ UNCHANGED <<now, events, configured, crashes, history>>

\* apply_path up to the horizon at which a malformed candle raises or the
\* process dies: the statements before it stay.
ApplyUpTo(window, h) ==
    LET filled == {r \in RowsOf(loop.current) : r[2] \in window /\ r[2] < h}
    IN  /\ loop.at = "candles"
        /\ labels' = Update(filled, Filled)
        /\ torn' = IF filled = {} THEN torn ELSE torn \cup {loop.current}
        /\ UNCHANGED <<now, events, configured, tries>>

ApplyRaises(window, h) ==
    /\ h \in window
    /\ ApplyUpTo(window, h)
    /\ loop' = Asleep
    /\ UNCHANGED crashes

ApplyCrashes(window, h) ==
    /\ crashes < MaxCrashes
    /\ ApplyUpTo(window, h)
    /\ loop' = [Waking(0) EXCEPT !.at = "down"]
    /\ crashes' = crashes + 1

\* A malformed answer raises; the label loop logs it and sleeps.
PricesRaise ==
    /\ loop.at = "pricing"
    /\ loop' = Asleep
    /\ UNCHANGED <<now, events, labels, configured, crashes, history>>

TickEnds ==
    /\ loop.at = "pathing" /\ loop.paths = {}
    /\ loop' = Asleep
    /\ UNCHANGED <<now, events, labels, configured, crashes, history>>

-----------------------------------------------------------------------------
Crash ==
    /\ loop.at # "down" /\ crashes < MaxCrashes
    /\ loop' = [Waking(0) EXCEPT !.at = "down"]
    /\ crashes' = crashes + 1
    /\ UNCHANGED <<now, events, labels, configured, history>>

Restart ==
    /\ loop.at = "down"
    /\ loop' = Waking(0)
    /\ configured' \in SUBSET Chains
    /\ UNCHANGED <<now, events, labels, crashes, history>>

Clock ==
    /\ now < MaxTime
    /\ now' = now + 1
    /\ UNCHANGED <<events, labels, loop, configured, crashes, history>>
Init ==
    /\ now = 0
    /\ events = [e \in Events |-> None]
    /\ labels = [r \in Rows |-> None]
    /\ loop = Waking(0)
    /\ configured = Chains
    /\ crashes = 0
    /\ tries = [e \in Events |-> 0]
    /\ torn = {}

ClosePass ==
    \/ CloseEnds
    \/ \E c \in Chains, hits \in SUBSET loop.due : CloseFromScans(c, hits)

PathPass ==
    \/ TickEnds
    \/ \E e \in Events : SkipPath(e) \/ GiveUpPath(e) \/ PostponePath(e) \/ AskCandles(e)

CandlesArrive == NoCandles \/ \E window \in Windows : ApplyPath(window)

Raises ==
    \/ PricesRaise
    \/ \E window \in Windows, h \in Horizons : ApplyRaises(window, h)

Interrupted ==
    \/ Crash
    \/ \E answered \in SUBSET Events, S \in SUBSET loop.due : PricesCrash(answered, S)
    \/ \E window \in Windows, h \in Horizons \cup {Final + 1} : ApplyCrashes(window, h)
    \/ \E e \in Events, h \in Horizons, sampled \in BOOLEAN : EnqueueTorn(e, h, sampled)

Next ==
    \/ Clock \/ StartTick \/ ClosePass \/ PathPass \/ CandlesArrive
    \/ \E answered \in SUBSET Events : PricesArrive(answered)
    \/ \E e \in Events, sampled \in BOOLEAN : Enqueue(e, sampled)
    \/ Raises \/ Interrupted \/ Restart

Spec == Init /\ [][Next]_vars

-----------------------------------------------------------------------------
TypeOK ==
    /\ now \in Nat
    /\ events \in [Events -> Event \cup {None}]
    /\ labels \in [Rows -> Label \cup {None}]
    /\ loop \in Loop
    /\ configured \in SUBSET Chains
    /\ crashes \in Nat
    /\ tries \in [Events -> 0 .. MaxPathAttempts]
    /\ torn \in SUBSET Events

\* A candle path recovers the close its row failed to get (apply_path): no
\* row has its high and low but neither a close price nor the status done,
\* whichever of the two passes wrote it last and wherever they were cut short.
PathHasClose ==
    \A r \in Rows : InTable(r) /\ labels[r].path = "done"
                        => labels[r].status = "done" /\ labels[r].source # "none"

\* The price of a label is the first one found: no later pass, retry or
\* restart replaces it (COALESCE in apply_path, the status in _close_pass).
PriceKept ==
    [][\A r \in Rows : InTable(r) /\ labels[r].source # "none"
                           => labels'[r].source = labels[r].source]_vars

\* The path of an event is settled for all its horizons at once, except when
\* apply_path was cut short between two of its statements.
PathsTogether ==
    \A e \in Events \ torn, g, h \in Horizons :
        /\ InTable(<<e, g>>) /\ labels[<<e, g>>].path = "pending"
        /\ InTable(<<e, h>>)
        => labels[<<e, h>>].path = "pending"

\* Before its deadline a path is given up only for max_path_attempts failures,
\* each of them a request for its candles or a missed close of its last
\* horizon (attempts, which the two passes share).
GivenUpAfterItsTries ==
    [][\A e \in Events :
          /\ loop.at = "pathing"
          /\ PathPending(e) /\ labels'[<<e, Final>>].path = "failed"
          => tries[e] >= MaxPathAttempts \/ now - Due(<<e, Final>>) > PathDeadline]_vars

\* A tick leaves nothing overdue: not the label of a chain it serves for which
\* the grace was over when it began, although prices may never arrive, nor the
\* path of any event past its deadline, although the chain may be gone, the cap
\* reached or the candles malformed.
TickSettles ==
    [][TickEnds =>
          /\ \A r \in Rows : Pending(r) /\ ChainOf[r[1]] \in configured 
                        => loop.ts - Due(r) <= Grace
          /\ \A e \in Events : PathPending(e) /\ KindOf[e] \in PathKinds 
                        => loop.ts - Due(<<e, Final>>) <= PathDeadline]_vars
=============================================================================

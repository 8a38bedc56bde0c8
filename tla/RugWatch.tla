------------------------------- MODULE RugWatch -------------------------------
(***************************************************************************)
(* The re-checks of alerted tokens (scanner/rugwatch.py) and the delivery  *)
(* of the warnings they raise (Alerter.deliver_rug_warnings), which the    *)
(* label loop of scanner/runner.py runs one after the other.  Everything   *)
(* that matters is in the rug_checks table; the loop keeps only what one   *)
(* pass has fetched, and awaits the network between its statements while   *)
(* the evaluation jobs schedule more checks.                               *)
(***************************************************************************)
EXTENDS Integers

CONSTANTS
    Alerts,      \* the alerts ever sent
    Configured,  \* those of a chain that is still configured
    Minutes,     \* rugwatch.recheck_minutes
    Grace,       \* rugwatch.grace_s
    None,
    MaxTime,     \* bound: the clock stops here
    LastAlert    \* bound: no alert is sent later than this

ASSUME RugAssumption ==
    /\ Configured \subseteq Alerts
    /\ Minutes \subseteq Nat
    /\ {Grace, MaxTime, LastAlert} \subseteq Nat

Reasons == {"LIQUIDITY_DROP", "SAFETY_FLIP"}
Checks == Alerts \X Minutes

VARIABLES
    now,
    rows,    \* rug_checks: the row of each check, or None
    loop,    \* the label loop
    enabled, \* whether this process has a Discord webhook
    posted   \* history: the warnings whose card reached Discord

vars == <<now, rows, loop, enabled, posted>>

-----------------------------------------------------------------------------
\* baseline: the reasons that liq_then and safety_then leave possible;
\* found: those that liq_change_pct and safety_now show; data: whether any
\* source said anything; reason: the warning, if it is not empty.
Row == [due : Nat, baseline : SUBSET Reasons, status : {"pending", "done", "failed"},
        found : SUBSET Reasons, data : BOOLEAN, reason : SUBSET Reasons,
        delivered : BOOLEAN]

ASSUME NoneAssumption == None \notin Row \cup Checks

\* What one re-check learns.  A safety check whose sources all fail still has
\* a verdict, UNKNOWN; None is one that raised.
Liquidity == {None, "healthy", "collapsed"}
Safety == {None, "UNKNOWN without data", "UNKNOWN", "SAFE", "UNSAFE"}

Shows(liq, safety) ==
    (IF liq = "collapsed" THEN {"LIQUIDITY_DROP"} ELSE {}) \cup
    (IF safety = "UNSAFE" THEN {"SAFETY_FLIP"} ELSE {})

Asleep == [at |-> "asleep", ts |-> 0, todo |-> {}, current |-> None, arrived |-> FALSE]
Loop == [at : {"asleep", "down", "ticking", "checking", "delivering", "posting"},
         ts : Nat, todo : SUBSET Checks, current : Checks \cup {None},
         arrived : BOOLEAN]

InTable(c) == rows[c] # None
Warned(c) == InTable(c) /\ rows[c].reason # {}
Undelivered(c) == Warned(c) /\ ~rows[c].delivered
Delivered(c) == InTable(c) /\ rows[c].delivered

-----------------------------------------------------------------------------
\* Mutated forms of the definitions below.
WarnedElsewhere(a, why) == \E c \in Checks : InTable(c) /\ why \in rows[c].reason

NeverGivesUp(c) == FALSE

FailureIsDelivery ==
    /\ loop.at = "posting"
    /\ rows' = [rows EXCEPT ![loop.current].delivered = TRUE]
    /\ loop' = [loop EXCEPT !.at = "delivering", !.current = None]
    /\ UNCHANGED <<now, enabled, posted>>

AnyStatus(c, t) == InTable(c) /\ rows[c].due <= t

RaisedInTime == {c \in Checks : Undelivered(c) /\ rows[c].due + Grace > now}

-----------------------------------------------------------------------------
Scheduled(a, m, baseline) ==
    [due |-> now + m, baseline |-> baseline, status |-> "pending", found |-> {},
     data |-> FALSE, reason |-> {}, delivered |-> FALSE]

Pending(c) == InTable(c) /\ rows[c].status = "pending"
Due(c, t) == Pending(c) /\ rows[c].due <= t

AlreadyWarned(a, why) == \E m \in Minutes : InTable(<<a, m>>) /\ why \in rows[<<a, m>>].reason

\* pending_warnings
Queue == {c \in Checks : Undelivered(c)}

\* schedule: in the transaction of the alert, while the loop is anywhere.
Schedule(a, baseline) ==
    /\ loop.at # "down"
    /\ now <= LastAlert
    /\ \A m \in Minutes : ~InTable(<<a, m>>)
    /\ rows' = [c \in Checks |-> IF c[1] = a THEN Scheduled(a, c[2], baseline) ELSE rows[c]]
    /\ UNCHANGED <<now, loop, enabled, posted>>

\* tick reads the clock and the due rows once.
StartTick ==
    /\ loop.at = "asleep"
    /\ loop' = [loop EXCEPT !.at = "ticking", !.ts = now,
                            !.todo = {c \in Checks : Due(c, now)}]
    /\ UNCHANGED <<now, rows, enabled, posted>>

\* ORDER BY due_ts; ties are left open.
First(c) == c \in loop.todo /\ \A d \in loop.todo : rows[c].due <= rows[d].due

SkipUnconfigured(c) ==
    /\ loop.at = "ticking" /\ First(c)
    /\ c[1] \notin Configured
    /\ loop' = [loop EXCEPT !.todo = @ \ {c}]
    /\ UNCHANGED <<now, rows, enabled, posted>>

\* The liquidity sources and the safety check are awaited.
StartCheck(c) ==
    /\ loop.at = "ticking" /\ First(c)
    /\ c[1] \in Configured
    /\ loop' = [loop EXCEPT !.at = "checking", !.todo = @ \ {c}, !.current = c]
    /\ UNCHANGED <<now, rows, enabled, posted>>

Learnt(liq, safety) == liq # None \/ safety # None

GraceOver(c) == loop.ts - rows[c].due > Grace

\* Nobody answered: wait for the next tick, or give the check up.
NoData(c, liq, safety) ==
    /\ loop.at = "checking" /\ loop.current = c
    /\ ~Learnt(liq, safety)
    /\ rows' = IF GraceOver(c) THEN [rows EXCEPT ![c].status = "failed"] ELSE rows
    /\ loop' = [loop EXCEPT !.at = "ticking", !.current = None]
    /\ UNCHANGED <<now, enabled, posted>>

HasData(liq, safety) == liq # None \/ safety \notin {None, "UNKNOWN without data"}

Judged(c, found, data) ==
    [rows[c] EXCEPT !.status = "done", !.found = found, !.data = data,
                    !.reason = {why \in found : ~AlreadyWarned(c[1], why)}]

Judge(c, liq, safety) ==
    /\ loop.at = "checking" /\ loop.current = c
    /\ Learnt(liq, safety)
    /\ rows' = [rows EXCEPT ![c] = Judged(c, Shows(liq, safety) \cap rows[c].baseline,
                                          HasData(liq, safety))]
    /\ loop' = [loop EXCEPT !.at = "ticking", !.current = None]
    /\ UNCHANGED <<now, enabled, posted>>

\* An exception ends the tick; the loop logs it and goes on to deliver.
TickRaises ==
    /\ loop.at = "checking"
    /\ loop' = [loop EXCEPT !.at = "delivering", !.current = None,
                            !.todo = Queue]
    /\ UNCHANGED <<now, rows, enabled, posted>>

TickEnds ==
    /\ loop.at = "ticking" /\ loop.todo = {}
    /\ loop' = [loop EXCEPT !.at = "delivering", !.todo = Queue]
    /\ UNCHANGED <<now, rows, enabled, posted>>

-----------------------------------------------------------------------------
\* deliver_rug_warnings goes through the warnings pending_warnings found.
StartPost(c) ==
    /\ loop.at = "delivering" /\ c \in loop.todo
    /\ enabled
    /\ loop' = [loop EXCEPT !.at = "posting", !.todo = @ \ {c}, !.current = c,
                            !.arrived = FALSE]
    /\ UNCHANGED <<now, rows, enabled, posted>>

\* Without a webhook send answers 'dry-run' at once, nothing is posted, and the
\* warning is marked like a posted one.
DryRun(c) ==
    /\ loop.at = "delivering" /\ c \in loop.todo
    /\ ~enabled
    /\ rows' = [rows EXCEPT ![c].delivered = TRUE]
    /\ loop' = [loop EXCEPT !.todo = @ \ {c}]
    /\ UNCHANGED <<now, enabled, posted>>

\* Discord, which is outside the process, takes the card.
Arrive ==
    /\ loop.at = "posting" /\ ~loop.arrived
    /\ posted' = posted \cup {loop.current}
    /\ loop' = [loop EXCEPT !.arrived = TRUE]
    /\ UNCHANGED <<now, rows, enabled>>

MarkDelivered ==
    /\ loop.at = "posting" /\ loop.arrived
    /\ rows' = [rows EXCEPT ![loop.current].delivered = TRUE]
    /\ loop' = [loop EXCEPT !.at = "delivering", !.current = None, !.arrived = FALSE]
    /\ UNCHANGED <<now, enabled, posted>>

\* No 200 came back, although the card may have arrived: it stays queued.
SendFails ==
    /\ loop.at = "posting"
    /\ loop' = [loop EXCEPT !.at = "delivering", !.current = None, !.arrived = FALSE]
    /\ UNCHANGED <<now, rows, enabled, posted>>

\* An exception ends the round; the loop logs it and sleeps.
DeliveryRaises ==
    /\ \/ loop.at = "posting"
       \/ loop.at = "delivering" /\ loop.todo # {} /\ ~enabled
    /\ loop' = Asleep
    /\ UNCHANGED <<now, rows, enabled, posted>>

DeliveryEnds ==
    /\ loop.at = "delivering" /\ loop.todo = {}
    /\ loop' = Asleep
    /\ UNCHANGED <<now, rows, enabled, posted>>

-----------------------------------------------------------------------------
Crash ==
    /\ loop.at # "down"
    /\ loop' = [Asleep EXCEPT !.at = "down"]
    /\ UNCHANGED <<now, rows, enabled, posted>>

\* A new process reads the webhook from its environment.
Restart ==
    /\ loop.at = "down"
    /\ loop' = Asleep
    /\ enabled' \in BOOLEAN
    /\ UNCHANGED <<now, rows, posted>>

Tick ==
    /\ now < MaxTime
    /\ now' = now + 1
    /\ UNCHANGED <<rows, loop, enabled, posted>>

Init ==
    /\ now = 0
    /\ rows = [c \in Checks |-> None]
    /\ loop = Asleep
    /\ enabled \in BOOLEAN
    /\ posted = {}

LoopStep ==
    \/ StartTick \/ TickEnds \/ MarkDelivered \/ SendFails \/ DeliveryEnds
    \/ \E c \in Checks :
          \/ SkipUnconfigured(c) \/ StartCheck(c) \/ StartPost(c) \/ DryRun(c)
          \/ \E liq \in Liquidity, safety \in Safety :
                NoData(c, liq, safety) \/ Judge(c, liq, safety)

Running ==
    \/ Tick \/ LoopStep \/ TickRaises \/ Arrive \/ DeliveryRaises
    \/ \E a \in Alerts, baseline \in SUBSET Reasons : Schedule(a, baseline)

Next == Running \/ Crash \/ Restart

Spec == Init /\ [][Next]_vars

\* The clock runs; the loop's awaits are bounded by timeouts; a row whose turn
\* comes again and again is not always the one that raises; and neither Discord
\* nor, in a dry run, the table refuses a warning for ever.  The process is
\* assumed not to crash.
FairSpec ==
    /\ Init
    /\ [][Running]_vars
    /\ WF_vars(Tick)
    /\ WF_vars(LoopStep)
    /\ \A c \in Configured \X Minutes :
          /\ SF_vars(\E liq \in Liquidity, safety \in Safety :
                        NoData(c, liq, safety) \/ Judge(c, liq, safety))
          /\ SF_vars(loop.current = c /\ Arrive)
          /\ SF_vars((loop.current = c /\ MarkDelivered) \/ DryRun(c))

-----------------------------------------------------------------------------
TypeOK ==
    /\ now \in Nat
    /\ rows \in [Checks -> Row \cup {None}]
    /\ loop \in Loop
    /\ enabled \in BOOLEAN
    /\ posted \in SUBSET Checks

\* One warning per alert per reason, over re-checks that may all fall due in
\* one tick after an outage: a drop or a flip that some finished re-check found
\* is warned of, and by one re-check only (_already_warned, tick).
EachFindingWarnedOnce ==
    \A a \in Alerts, why \in Reasons :
        LET finders == {m \in Minutes : InTable(<<a, m>>) /\ why \in rows[<<a, m>>].found}
            warners == {m \in Minutes : InTable(<<a, m>>) /\ why \in rows[<<a, m>>].reason}
        IN  /\ finders # {} => warners # {}
            /\ \A m, n \in warners : m = n

\* A process with a webhook marks a warning delivered only when Discord has its
\* card: a failed post, a lost answer or a crash between the post and
\* mark_delivered keeps it queued.  A dry run marks it without any card, and a
\* later process with a webhook does not post it either (deliver_rug_warnings).
DeliveredReachedDiscord ==
    [][\A c \in Checks :
          ~Delivered(c) /\ Delivered(c)' => c \in posted \/ ~enabled]_vars

\* What a re-check found is final: later ticks, crashes and restarts neither
\* re-open it nor take back or add to its warning.
FindingsAreFinal ==
    [][\A c \in Checks :
          InTable(c) /\ rows[c].status # "pending"
              => rows'[c] \in {rows[c], [rows[c] EXCEPT !.delivered = TRUE]}]_vars

\* Every re-check of a configured chain comes to an end, although its sources
\* may be out and other rows may end the tick with an exception.
ChecksFinish == \A c \in Configured \X Minutes : Pending(c) ~> ~Pending(c)

\* Every warning leaves the queue, however often posts or rounds fail first, and
\* where there is a webhook Discord has its card by then.
WarningsDelivered ==
    \A c \in Checks : Undelivered(c) ~> ~Undelivered(c) /\ (enabled => c \in posted)
=============================================================================

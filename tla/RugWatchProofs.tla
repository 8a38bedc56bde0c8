---------------------------- MODULE RugWatchProofs ----------------------------
(***************************************************************************)
(* What holds of the re-checks and their warnings for any alerts, minutes  *)
(* and grace.  The invariant adds to the properties what the loop knows of *)
(* the rows it has fetched: nobody else finishes a pending row, and a row  *)
(* without a result carries no warning.                                    *)
(***************************************************************************)
EXTENDS RugWatch, TLAPS

\* A row without a result has found and warned of nothing, and every warning
\* is of something found.
RowsClean ==
    \A c \in Checks : InTable(c) =>
        /\ rows[c].status # "done" => rows[c].found = {}
        /\ rows[c].reason \subseteq rows[c].found

\* The rows the loop has in hand are still as it fetched them.
LoopFresh ==
    /\ loop.at \in {"ticking", "checking"} => \A c \in loop.todo : Pending(c)
    /\ loop.at \in {"checking", "posting"} => loop.current \in Checks
    /\ loop.at = "checking" => Pending(loop.current) /\ loop.current \notin loop.todo
    /\ loop.at \in {"delivering", "posting"} => \A c \in loop.todo : Warned(c)
    /\ loop.at = "posting" => Warned(loop.current)
    /\ loop.at = "posting" /\ loop.arrived => loop.current \in posted

IInv ==
    /\ TypeOK
    /\ RowsClean
    /\ LoopFresh
    /\ EachFindingWarnedOnce

-----------------------------------------------------------------------------
\* The ways a step changes the table: not at all, by the rows of a new alert,
\* by giving a check up, by finishing it, or by marking a warning delivered.
Adds(a, baseline) ==
    /\ \A m \in Minutes : ~InTable(<<a, m>>)
    /\ rows' = [c \in Checks |-> IF c[1] = a THEN Scheduled(a, c[2], baseline) ELSE rows[c]]
GivesUp(c) ==
    /\ Pending(c)
    /\ rows' = [rows EXCEPT ![c].status = "failed"]
Finishes(c, found, data) ==
    /\ Pending(c)
    /\ rows' = [rows EXCEPT ![c] = Judged(c, found, data)]
Marks(c) ==
    /\ Warned(c) /\ (c \in posted \/ ~enabled)
    /\ rows' = [rows EXCEPT ![c].delivered = TRUE]

TableMove ==
    \/ rows' = rows
    \/ \E a \in Alerts, baseline \in SUBSET Reasons : Adds(a, baseline)
    \/ \E c \in Checks : GivesUp(c) \/ Marks(c)
    \/ \E c \in Checks, found \in SUBSET Reasons, data \in BOOLEAN : Finishes(c, found, data)

\* What the sources show is a set of reasons.
LEMMA ShowsReasons ==
  ASSUME NEW liq, NEW safety
  PROVE  Shows(liq, safety) \subseteq Reasons
  BY DEF Shows, Reasons

\* Every step is one of these moves.
LEMMA StepIsMove ==
  ASSUME IInv, [Next]_vars
  PROVE  TableMove
<1>1. CASE UNCHANGED vars
  BY <1>1 DEF vars, TableMove
<1>2. ASSUME NEW a \in Alerts, NEW baseline \in SUBSET Reasons, Schedule(a, baseline)
      PROVE  TableMove
  BY <1>2 DEF Schedule, Adds, TableMove
<1>3. ASSUME NEW c \in Checks, NEW liq, NEW safety, NoData(c, liq, safety)
      PROVE  TableMove
  BY <1>3 DEF NoData, GivesUp, TableMove, IInv, LoopFresh
<1>4. ASSUME NEW c \in Checks, NEW liq, NEW safety, Judge(c, liq, safety)
      PROVE  TableMove
  <2> DEFINE found == Shows(liq, safety) \cap rows[c].baseline
  <2>1. found \in SUBSET Reasons
    BY ShowsReasons
  <2>2. HasData(liq, safety) \in BOOLEAN
    BY DEF HasData
  <2>3. Finishes(c, found, HasData(liq, safety))
    BY <1>4 DEF Judge, Finishes, IInv, LoopFresh
  <2> QED
    BY <2>1, <2>2, <2>3 DEF TableMove
<1>5. ASSUME MarkDelivered
      PROVE  TableMove
  BY <1>5 DEF MarkDelivered, Marks, TableMove, IInv, LoopFresh
<1>7. ASSUME NEW c \in Checks, DryRun(c)
      PROVE  TableMove
  BY <1>7 DEF DryRun, Marks, TableMove, IInv, LoopFresh
<1>6. CASE \/ Tick \/ StartTick \/ TickEnds \/ SendFails \/ DeliveryEnds \/ TickRaises
           \/ Arrive \/ DeliveryRaises \/ Crash \/ Restart
           \/ \E c \in Checks : SkipUnconfigured(c) \/ StartCheck(c) \/ StartPost(c)
  BY <1>6 DEF Tick, StartTick, TickEnds, SendFails, DeliveryEnds, TickRaises, Arrive,
       DeliveryRaises, Crash, Restart, SkipUnconfigured, StartCheck, StartPost, TableMove
<1> QED
  BY <1>1, <1>2, <1>3, <1>4, <1>5, <1>6, <1>7 DEF Next, Running, LoopStep

-----------------------------------------------------------------------------
\* A row is what its fields are: the forms in which the moves write rows.
LEMMA RowForms ==
  ASSUME TypeOK, NEW c \in Checks, InTable(c)
  PROVE  /\ rows[c] \in Row
         /\ [rows[c] EXCEPT !.status = "failed"] \in Row
         /\ [rows[c] EXCEPT !.delivered = TRUE] \in Row
         /\ \A found \in SUBSET Reasons, data \in BOOLEAN : Judged(c, found, data) \in Row
<1>1. rows[c] \in Row
  BY DEF TypeOK, InTable
<1>2. \A found \in SUBSET Reasons, data \in BOOLEAN, S \in SUBSET Reasons :
        [rows[c] EXCEPT !.status = "done", !.found = found, !.data = data,
                        !.reason = S] \in Row
  BY <1>1 DEF Row
<1>3. \A found \in SUBSET Reasons, data \in BOOLEAN : Judged(c, found, data) \in Row
  BY <1>2 DEF Judged
<1> QED
  BY <1>1, <1>3 DEF Row

\* The moves keep the table's type.
LEMMA TableType ==
  ASSUME TypeOK, TableMove
  PROVE  rows' \in [Checks -> Row \cup {None}]
<1>1. CASE rows' = rows
  BY <1>1 DEF TypeOK
<1>2. ASSUME NEW a \in Alerts, NEW baseline \in SUBSET Reasons, Adds(a, baseline)
      PROVE  rows' \in [Checks -> Row \cup {None}]
  <2>1. \A c \in Checks : c[2] \in Nat
    BY RugAssumption DEF Checks
  <2>2. \A c \in Checks : Scheduled(a, c[2], baseline) \in Row
    BY <2>1 DEF Scheduled, Row, TypeOK
  <2> QED
    BY <1>2, <2>2 DEF Adds, TypeOK
<1>3. ASSUME NEW c \in Checks, NEW r \in Row, rows' = [rows EXCEPT ![c] = r]
      PROVE  rows' \in [Checks -> Row \cup {None}]
  BY <1>3 DEF TypeOK
<1>4. ASSUME NEW c \in Checks, GivesUp(c) \/ Marks(c)
      PROVE  rows' \in [Checks -> Row \cup {None}]
  BY <1>3, <1>4, RowForms DEF GivesUp, Marks, Pending, Warned
<1>5. ASSUME NEW c \in Checks, NEW found \in SUBSET Reasons, NEW data \in BOOLEAN,
             Finishes(c, found, data)
      PROVE  rows' \in [Checks -> Row \cup {None}]
  BY <1>3, <1>5, RowForms DEF Finishes, Pending
<1> QED
  BY <1>1, <1>2, <1>4, <1>5 DEF TableMove

\* What a move does to one row: it stays, or is added without a result, given
\* up, finished or marked.
RowAdded(c) ==
    /\ ~InTable(c) /\ InTable(c)'
    /\ rows'[c].status = "pending" /\ ~rows'[c].delivered
    /\ rows'[c].found = {} /\ rows'[c].reason = {}
RowGivenUp(c) ==
    /\ Pending(c) /\ InTable(c)'
    /\ rows'[c].status = "failed" /\ rows'[c].delivered = rows[c].delivered
    /\ rows'[c].found = rows[c].found /\ rows'[c].reason = rows[c].reason
RowFinished(c) ==
    /\ Pending(c) /\ InTable(c)'
    /\ rows'[c].status = "done" /\ rows'[c].delivered = rows[c].delivered
    /\ rows'[c].reason = {why \in rows'[c].found : ~AlreadyWarned(c[1], why)}
RowMarked(c) ==
    /\ Warned(c) /\ (c \in posted \/ ~enabled)
    /\ rows'[c] = [rows[c] EXCEPT !.delivered = TRUE]
    /\ InTable(c)' /\ rows'[c].status = rows[c].status
    /\ rows'[c].found = rows[c].found /\ rows'[c].reason = rows[c].reason

\* Every row changes in one of these ways, and when one is finished the others
\* stay.
LEMMA RowMoves ==
  ASSUME IInv, TableMove
  PROVE  \/ \A c \in Checks :
                rows'[c] = rows[c] \/ RowAdded(c) \/ RowGivenUp(c) \/ RowMarked(c)
         \/ \E c \in Checks :
                RowFinished(c) /\ \A d \in Checks \ {c} : rows'[d] = rows[d]
<1> USE DEF IInv
<1>1. CASE rows' = rows
  BY <1>1
<1>2. ASSUME NEW a \in Alerts, NEW baseline \in SUBSET Reasons, Adds(a, baseline),
             NEW c \in Checks
      PROVE  rows'[c] = rows[c] \/ RowAdded(c)
  <2>1. CASE c[1] = a
    <3>1. c = <<a, c[2]>> /\ c[2] \in Minutes /\ c[2] \in Nat
      <4>1. PICK b \in Alerts, m \in Minutes : c = <<b, m>>
        BY DEF Checks
      <4>2. c[1] = b /\ c[2] = m
        BY <4>1
      <4> QED
        BY <2>1, <4>1, <4>2, RugAssumption
    <3>2. ~InTable(c)
      BY <1>2, <3>1 DEF Adds
    <3>3. rows'[c] = Scheduled(a, c[2], baseline)
      BY <1>2, <2>1 DEF Adds
    <3>4. Scheduled(a, c[2], baseline) \in Row
      BY <3>1 DEF Scheduled, Row, TypeOK
    <3>5. InTable(c)'
      BY <3>3, <3>4, NoneAssumption DEF InTable
    <3>6. /\ rows'[c].status = "pending" /\ rows'[c].delivered = FALSE
          /\ rows'[c].found = {} /\ rows'[c].reason = {}
      BY <3>3 DEF Scheduled
    <3>7. ~rows'[c].delivered
      BY <3>6
    <3> QED
      BY <3>2, <3>5, <3>6, <3>7 DEF RowAdded
  <2> QED
    BY <1>2, <2>1 DEF Adds
<1>3. ASSUME NEW c \in Checks, GivesUp(c)
      PROVE  RowGivenUp(c) /\ \A d \in Checks \ {c} : rows'[d] = rows[d]
  <2>1. rows[c] \in Row /\ [rows[c] EXCEPT !.status = "failed"] \in Row
    BY <1>3, RowForms DEF GivesUp, Pending
  <2>2. /\ rows'[c] = [rows[c] EXCEPT !.status = "failed"]
        /\ \A d \in Checks \ {c} : rows'[d] = rows[d]
    BY <1>3 DEF GivesUp, TypeOK
  <2>3. InTable(c)'
    BY <2>1, <2>2, NoneAssumption DEF InTable
  <2> QED
    BY <1>3, <2>1, <2>2, <2>3 DEF GivesUp, RowGivenUp, Row
<1>4. ASSUME NEW c \in Checks, Marks(c)
      PROVE  RowMarked(c) /\ \A d \in Checks \ {c} : rows'[d] = rows[d]
  <2>1. rows[c] \in Row /\ [rows[c] EXCEPT !.delivered = TRUE] \in Row
    BY <1>4, RowForms DEF Marks, Warned
  <2>2. /\ rows'[c] = [rows[c] EXCEPT !.delivered = TRUE]
        /\ \A d \in Checks \ {c} : rows'[d] = rows[d]
    BY <1>4 DEF Marks, TypeOK
  <2>3. InTable(c)'
    BY <2>1, <2>2, NoneAssumption DEF InTable
  <2> QED
    BY <1>4, <2>1, <2>2, <2>3 DEF Marks, RowMarked, Row
<1>5. ASSUME NEW c \in Checks, NEW found \in SUBSET Reasons, NEW data \in BOOLEAN,
             Finishes(c, found, data)
      PROVE  RowFinished(c) /\ \A d \in Checks \ {c} : rows'[d] = rows[d]
  <2>1. rows[c] \in Row /\ Judged(c, found, data) \in Row
    BY <1>5, RowForms DEF Finishes, Pending
  <2>2. /\ rows'[c] = Judged(c, found, data)
        /\ \A d \in Checks \ {c} : rows'[d] = rows[d]
    BY <1>5 DEF Finishes, TypeOK
  <2>3. InTable(c)'
    BY <2>1, <2>2, NoneAssumption DEF InTable
  <2>4. /\ rows'[c].status = "done" /\ rows'[c].delivered = rows[c].delivered
        /\ rows'[c].found = found
        /\ rows'[c].reason = {why \in found : ~AlreadyWarned(c[1], why)}
    BY <2>1, <2>2 DEF Judged, Row
  <2> QED
    BY <1>5, <2>3, <2>4 DEF Finishes, RowFinished
<1> QED
  BY <1>1, <1>2, <1>3, <1>4, <1>5 DEF TableMove

-----------------------------------------------------------------------------
LEMMA CleanKept ==
  ASSUME IInv, TableMove
  PROVE  RowsClean'
<1>1. CASE \A c \in Checks :
             rows'[c] = rows[c] \/ RowAdded(c) \/ RowGivenUp(c) \/ RowMarked(c)
  BY <1>1 DEF IInv, RowsClean, RowAdded, RowGivenUp, RowMarked, InTable, Pending, Warned
<1>2. ASSUME NEW c \in Checks, RowFinished(c), \A d \in Checks \ {c} : rows'[d] = rows[d]
      PROVE  RowsClean'
  BY <1>2 DEF IInv, RowsClean, RowFinished, InTable
<1> QED
  BY <1>1, <1>2, RowMoves

\* A warning stays.
LEMMA WarnedKept ==
  ASSUME IInv, TableMove, NEW c \in Checks, Warned(c)
  PROVE  Warned(c)'
<1>1. ~Pending(c)
  BY DEF IInv, RowsClean, Warned, Pending
<1>2. rows'[c] = rows[c] \/ RowMarked(c)
  BY <1>1, RowMoves DEF Warned, RowAdded, RowGivenUp, RowFinished
<1> QED
  BY <1>2 DEF RowMarked, Warned, InTable

\* Which re-checks have found, and which have warned of, a reason.
Finds(a, why, m) == InTable(<<a, m>>) /\ why \in rows[<<a, m>>].found
Warns(a, why, m) == InTable(<<a, m>>) /\ why \in rows[<<a, m>>].reason

WarnedOnce(a, why) ==
    /\ (\E m \in Minutes : Finds(a, why, m)) => \E m \in Minutes : Warns(a, why, m)
    /\ \A m, n \in Minutes : Warns(a, why, m) /\ Warns(a, why, n) => m = n

\* The property, said with these.
LEMMA WarnedOnceForm ==
  EachFindingWarnedOnce <=> \A a \in Alerts, why \in Reasons : WarnedOnce(a, why)
  BY DEF EachFindingWarnedOnce, WarnedOnce, Finds, Warns

LEMMA WarnedOncePrimed ==
  EachFindingWarnedOnce' <=> \A a \in Alerts, why \in Reasons : WarnedOnce(a, why)'
  BY DEF EachFindingWarnedOnce, WarnedOnce, Finds, Warns

LEMMA OnceKept ==
  ASSUME IInv, TableMove
  PROVE  EachFindingWarnedOnce'
<1> SUFFICES ASSUME NEW a \in Alerts, NEW why \in Reasons
             PROVE  WarnedOnce(a, why)'
  BY WarnedOncePrimed
<1>0. WarnedOnce(a, why) /\ \A m \in Minutes : <<a, m>> \in Checks
  BY WarnedOnceForm DEF IInv, Checks
<1>1. CASE \A c \in Checks :
             rows'[c] = rows[c] \/ RowAdded(c) \/ RowGivenUp(c) \/ RowMarked(c)
  <2>1. ASSUME NEW m \in Minutes
        PROVE  Finds(a, why, m)' <=> Finds(a, why, m)
    BY <1>0, <1>1 DEF Finds, RowAdded, RowGivenUp, RowMarked, InTable, Pending, Warned
  <2>2. ASSUME NEW m \in Minutes
        PROVE  Warns(a, why, m)' <=> Warns(a, why, m)
    BY <1>0, <1>1 DEF Warns, RowAdded, RowGivenUp, RowMarked, InTable, Pending, Warned
  <2> QED
    BY <1>0, <2>1, <2>2 DEF WarnedOnce
<1>2. ASSUME NEW c \in Checks, RowFinished(c), \A d \in Checks \ {c} : rows'[d] = rows[d]
      PROVE  WarnedOnce(a, why)'
  <2>1. PICK b \in Alerts, n \in Minutes : c = <<b, n>>
    BY DEF Checks
  <2>2. ASSUME NEW m \in Minutes, <<a, m>> # c
        PROVE  (Finds(a, why, m)' <=> Finds(a, why, m))
               /\ (Warns(a, why, m)' <=> Warns(a, why, m))
    BY <1>0, <1>2, <2>2 DEF Finds, Warns, InTable
  <2>3. CASE b # a
    BY <1>0, <2>1, <2>2, <2>3 DEF WarnedOnce
  <2>4. CASE b = a
    <3>1. c[1] = a /\ c = <<a, n>>
      BY <2>1, <2>4
    <3>2. ~Finds(a, why, n) /\ ~Warns(a, why, n)
      BY <1>2, <3>1 DEF IInv, RowsClean, RowFinished, Pending, Finds, Warns
    <3>3. Warns(a, why, n)' <=> Finds(a, why, n)' /\ ~AlreadyWarned(a, why)
      BY <1>2, <3>1 DEF RowFinished, Finds, Warns
    <3>4. AlreadyWarned(a, why) <=> \E m \in Minutes : Warns(a, why, m)
      BY DEF AlreadyWarned, Warns
    <3>5. ASSUME NEW m \in Minutes, m # n
          PROVE  (Finds(a, why, m)' <=> Finds(a, why, m))
                 /\ (Warns(a, why, m)' <=> Warns(a, why, m))
      BY <2>2, <3>1, <3>5
    <3> QED
      BY <1>0, <3>2, <3>3, <3>4, <3>5 DEF WarnedOnce
  <2> QED
    BY <2>3, <2>4
<1> QED
  BY <1>1, <1>2, RowMoves

\* A warning that a step marks delivered has reached Discord, or belongs to a
\* process without a webhook.
LEMMA NewlyDelivered ==
  ASSUME IInv, TableMove, NEW c \in Checks, ~Delivered(c), Delivered(c)'
  PROVE  c \in posted \/ ~enabled
<1>1. InTable(c)' /\ rows'[c].delivered
  BY DEF Delivered
<1>2. ~(rows'[c] = rows[c])
  BY <1>1 DEF Delivered, InTable
<1>3. ~RowAdded(c)
  BY <1>1 DEF RowAdded
<1>4. ~RowGivenUp(c) /\ ~RowFinished(c)
  BY <1>1 DEF RowGivenUp, RowFinished, Pending, Delivered
<1>5. RowMarked(c)
  BY <1>2, <1>3, <1>4, RowMoves
<1> QED
  BY <1>5 DEF RowMarked

-----------------------------------------------------------------------------
LoopTyped == now \in Nat /\ loop \in Loop /\ enabled \in BOOLEAN /\ posted \in SUBSET Checks

\* The loop's own state keeps its type.
LEMMA LoopType ==
  ASSUME IInv, [Next]_vars
  PROVE  LoopTyped'
<1> USE DEF IInv, TypeOK, LoopTyped
<1>1. CASE UNCHANGED vars \/ Tick \/ \E a \in Alerts, b \in SUBSET Reasons : Schedule(a, b)
  BY <1>1 DEF vars, Tick, Schedule
<1>0. PICK queue \in SUBSET Checks : queue = Queue
  BY DEF Queue
<1>2. CASE StartTick \/ TickEnds \/ TickRaises
  <2>1. CASE StartTick
    <3>1. PICK due \in SUBSET Checks : due = {c \in Checks : Due(c, now)}
      OBVIOUS
    <3>2. loop' = [loop EXCEPT !.at = "ticking", !.ts = now, !.todo = due]
      BY <2>1, <3>1 DEF StartTick
    <3> QED
      BY <2>1, <3>2 DEF StartTick, Loop
  <2>2. CASE TickEnds
    <3>1. loop' = [loop EXCEPT !.at = "delivering", !.todo = queue]
      BY <1>0, <2>2 DEF TickEnds
    <3> QED
      BY <2>2, <3>1 DEF TickEnds, Loop
  <2>3. CASE TickRaises
    <3>1. loop' = [loop EXCEPT !.at = "delivering", !.current = None, !.todo = queue]
      BY <1>0, <2>3 DEF TickRaises
    <3> QED
      BY <2>3, <3>1 DEF TickRaises, Loop
  <2> QED
    BY <1>2, <2>1, <2>2, <2>3
<1>3. ASSUME NEW c \in Checks, SkipUnconfigured(c) \/ StartCheck(c) \/ StartPost(c)
      PROVE  LoopTyped'
  <2>1. CASE SkipUnconfigured(c)
    BY <2>1 DEF SkipUnconfigured, Loop
  <2>2. CASE StartCheck(c)
    BY <2>2 DEF StartCheck, Loop
  <2>3. CASE StartPost(c)
    BY <2>3 DEF StartPost, Loop
  <2> QED
    BY <1>3, <2>1, <2>2, <2>3
<1>4. ASSUME NEW c \in Checks, NEW liq, NEW safety,
             NoData(c, liq, safety) \/ Judge(c, liq, safety)
      PROVE  LoopTyped'
  BY <1>4 DEF NoData, Judge, Loop
<1>5. CASE MarkDelivered \/ SendFails
  BY <1>5 DEF MarkDelivered, SendFails, Loop
<1>8. ASSUME NEW c \in Checks, DryRun(c)
      PROVE  LoopTyped'
  BY <1>8 DEF DryRun, Loop
<1>6. CASE Arrive
  BY <1>6 DEF Arrive, LoopFresh, Loop
<1>7. CASE DeliveryEnds \/ DeliveryRaises \/ Crash \/ Restart
  <2>1. Asleep \in Loop
    BY DEF Asleep, Loop
  <2>2. [Asleep EXCEPT !.at = "down"] \in Loop
    BY <2>1 DEF Loop
  <2> QED
    BY <1>7, <2>1, <2>2 DEF DeliveryEnds, DeliveryRaises, Crash, Restart
<1> QED
  BY <1>1, <1>2, <1>3, <1>4, <1>5, <1>6, <1>7, <1>8 DEF Next, Running, LoopStep

\* What the loop has in hand stays as it fetched it.
LEMMA FreshKept ==
  ASSUME IInv, [Next]_vars
  PROVE  LoopFresh'
<1>0. TableMove /\ loop \in Loop
  BY StepIsMove DEF IInv, TypeOK
<1>a. \A c \in Checks : Warned(c) => Warned(c)'
  BY <1>0, WarnedKept
<1>b. loop.todo \in SUBSET Checks
  BY <1>0 DEF Loop
<1> USE DEF IInv, LoopFresh
<1>1. CASE UNCHANGED vars \/ Tick
  BY <1>1 DEF vars, Tick, Pending, Warned, InTable
<1>2. ASSUME NEW a \in Alerts, NEW baseline \in SUBSET Reasons, Schedule(a, baseline)
      PROVE  LoopFresh'
  <2>1. \A c \in Checks : InTable(c) => rows'[c] = rows[c]
    <3> SUFFICES ASSUME NEW c \in Checks, InTable(c)
                 PROVE  rows'[c] = rows[c]
      OBVIOUS
    <3>1. PICK b \in Alerts, m \in Minutes : c = <<b, m>>
      BY DEF Checks
    <3>2. b # a /\ c[1] = b
      BY <1>2, <3>1 DEF Schedule
    <3> QED
      BY <1>2, <3>2 DEF Schedule
  <2>2. \A c \in Checks : Pending(c) => Pending(c)'
    BY <2>1 DEF Pending, InTable
  <2> QED
    BY <1>2, <1>a, <1>b, <2>2 DEF Schedule
<1>3. CASE StartTick
  BY <1>0, <1>3 DEF StartTick, Loop, Due, Pending, InTable
<1>4. CASE TickEnds \/ TickRaises
  <2>1. loop'.at = "delivering" /\ loop'.todo = Queue
    BY <1>0, <1>4 DEF TickEnds, TickRaises, Loop
  <2>2. \A c \in Queue : Warned(c)'
    BY <1>a DEF Queue, Undelivered
  <2> QED
    BY <2>1, <2>2
<1>5. ASSUME NEW c \in Checks, SkipUnconfigured(c) \/ StartCheck(c)
      PROVE  LoopFresh'
  <2>1. /\ loop.at = "ticking" /\ c \in loop.todo
        /\ loop'.todo = loop.todo \ {c} /\ rows' = rows
    BY <1>0, <1>5 DEF SkipUnconfigured, StartCheck, First, Loop
  <2>2. \A d \in loop.todo : Pending(d) /\ Pending(d)'
    BY <2>1 DEF Pending, InTable
  <2>3. \/ loop'.at = "ticking"
        \/ loop'.at = "checking" /\ loop'.current = c
    BY <1>0, <1>5 DEF SkipUnconfigured, StartCheck, Loop
  <2> QED
    BY <2>1, <2>2, <2>3 DEF Pending, InTable
<1>6. ASSUME NEW c \in Checks, NEW liq, NEW safety,
             NoData(c, liq, safety) \/ Judge(c, liq, safety)
      PROVE  LoopFresh'
  <2>1. \A d \in Checks \ {c} : rows'[d] = rows[d]
    BY <1>6 DEF NoData, Judge, TypeOK
  <2>2. \A d \in Checks \ {c} : Pending(d) => Pending(d)'
    BY <2>1 DEF Pending, InTable
  <2>3. loop'.at = "ticking" /\ loop'.todo = loop.todo
    BY <1>0, <1>6 DEF NoData, Judge, Loop
  <2>4. \A d \in loop.todo : Pending(d)'
    BY <1>6, <1>b, <2>2 DEF NoData, Judge
  <2> QED
    BY <2>3, <2>4
<1>7. ASSUME NEW c \in Checks, StartPost(c)
      PROVE  LoopFresh'
  BY <1>0, <1>7 DEF StartPost, Loop, Warned, InTable
<1>8. CASE MarkDelivered \/ SendFails
  <2>1. loop'.at = "delivering" /\ loop'.todo = loop.todo
    BY <1>0, <1>8 DEF MarkDelivered, SendFails, Loop
  <2>2. loop.at = "posting"
    BY <1>8 DEF MarkDelivered, SendFails
  <2>3. \A d \in loop.todo : Warned(d)'
    BY <1>a, <1>b, <2>2
  <2> QED
    BY <2>1, <2>3
<1>11. ASSUME NEW c \in Checks, DryRun(c)
       PROVE  LoopFresh'
  <2>1. loop'.at = "delivering" /\ loop'.todo = loop.todo \ {c}
    BY <1>0, <1>11 DEF DryRun, Loop
  <2>2. loop.at = "delivering"
    BY <1>11 DEF DryRun
  <2>3. \A d \in loop.todo : Warned(d)'
    BY <1>a, <1>b, <2>2
  <2> QED
    BY <2>1, <2>3
<1>9. CASE Arrive
  BY <1>0, <1>9 DEF Arrive, Loop, Warned, InTable
<1>10. CASE DeliveryEnds \/ DeliveryRaises \/ Crash \/ Restart
  BY <1>10 DEF DeliveryEnds, DeliveryRaises, Crash, Restart, Asleep
<1> QED
  BY <1>1, <1>2, <1>3, <1>4, <1>5, <1>6, <1>7, <1>8, <1>9, <1>10, <1>11 DEF Next, Running, LoopStep

-----------------------------------------------------------------------------
LEMMA InitInvariant == Init => IInv
<1> SUFFICES ASSUME Init
             PROVE  IInv
  OBVIOUS
<1> USE DEF Init
<1>1. TypeOK
  BY DEF TypeOK, Asleep, Loop
<1>2. \A c \in Checks : ~InTable(c)
  BY DEF InTable
<1>3. \A a \in Alerts, m \in Minutes : ~InTable(<<a, m>>)
  BY <1>2 DEF Checks
<1>4. RowsClean /\ EachFindingWarnedOnce
  BY <1>2, <1>3 DEF RowsClean, EachFindingWarnedOnce
<1>5. LoopFresh
  BY DEF LoopFresh, Asleep
<1> QED
  BY <1>1, <1>4, <1>5 DEF IInv

LEMMA StepInvariant == IInv /\ [Next]_vars => IInv'
<1> SUFFICES ASSUME IInv, [Next]_vars
             PROVE  IInv'
  OBVIOUS
<1>1. TableMove
  BY StepIsMove
<1>2. TypeOK'
  BY <1>1, TableType, LoopType DEF IInv, TypeOK, LoopTyped
<1>3. RowsClean' /\ LoopFresh' /\ EachFindingWarnedOnce'
  BY <1>1, CleanKept, FreshKept, OnceKept
<1> QED
  BY <1>2, <1>3 DEF IInv

\* Every reachable state of the rug watch satisfies the inductive invariant.
THEOREM Invariance == Spec => []IInv
<1> QED
  BY InitInvariant, StepInvariant, PTL DEF Spec

\* Type correctness, for any alerts, minutes, grace and number of crashes.
THEOREM TypeCorrect == Spec => []TypeOK
<1>1. IInv => TypeOK
  BY DEF IInv
<1> QED
  BY Invariance, <1>1, PTL

\* One warning per alert per reason: every finding is warned of by exactly one
\* re-check, over any number of re-checks, ticks, crashes and restarts
\* (RugWatch.tick, _already_warned).
THEOREM WarnedOnceHolds == Spec => []EachFindingWarnedOnce
<1>1. IInv => EachFindingWarnedOnce
  BY DEF IInv
<1> QED
  BY Invariance, <1>1, PTL

\* A process with a webhook marks a warning delivered only after Discord has
\* taken its card; only a dry run marks one without (Alerter.deliver_rug_warnings,
\* DiscordWebhook.send).
THEOREM DeliveredHolds == Spec => DeliveredReachedDiscord
<1>1. ASSUME IInv, [Next]_vars, NEW c \in Checks, ~Delivered(c), Delivered(c)'
      PROVE  c \in posted \/ ~enabled
  BY <1>1, StepIsMove, NewlyDelivered
<1>2. IInv /\ [Next]_vars =>
        [\A c \in Checks :
            ~Delivered(c) /\ Delivered(c)' => c \in posted \/ ~enabled]_vars
  BY <1>1
<1> QED
  BY Invariance, <1>2, PTL DEF Spec, DeliveredReachedDiscord

\* The result of a re-check never changes; only its delivery is noted.
THEOREM FinalHolds == Spec => FindingsAreFinal
<1>1. ASSUME IInv, [Next]_vars, NEW c \in Checks, InTable(c), rows[c].status # "pending"
      PROVE  rows'[c] \in {rows[c], [rows[c] EXCEPT !.delivered = TRUE]}
  <2>1. TableMove
    BY <1>1, StepIsMove
  <2>2. ~RowAdded(c) /\ ~RowGivenUp(c) /\ ~RowFinished(c)
    BY <1>1 DEF RowAdded, RowGivenUp, RowFinished, Pending
  <2>3. rows'[c] = rows[c] \/ RowMarked(c)
    BY <1>1, <2>1, <2>2, RowMoves
  <2> QED
    BY <2>3 DEF RowMarked
<1>2. IInv /\ [Next]_vars =>
        [\A c \in Checks : InTable(c) /\ rows[c].status # "pending"
              => rows'[c] \in {rows[c], [rows[c] EXCEPT !.delivered = TRUE]}]_vars
  BY <1>1
<1> QED
  BY Invariance, <1>2, PTL DEF Spec, FindingsAreFinal
=============================================================================

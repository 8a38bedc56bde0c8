---------------------------- MODULE LabelerProofs ----------------------------
(***************************************************************************)
(* What holds of the labels table for every set of events, kinds, chains   *)
(* and horizons, every grace, deadline and number of attempts, and however *)
(* often the loop is cut short: the close of a filled path (PathHasClose), *)
(* the first price (PriceKept), the paths of one event (PathsTogether),    *)
(* what a tick leaves behind it (TickSettles) and the attempts that a      *)
(* path gets (GivenUpAfterItsTries).                                       *)
(*                                                                         *)
(* Two observations carry the proof.  Whatever a step does, one row makes  *)
(* one of a few moves (Moves), and the rows of one event move alike as far *)
(* as their paths go (EventMoves).                                         *)
(***************************************************************************)
EXTENDS Labeler, TLAPS

\* What the loop has in its hands while it awaits: unsettled rows in the close
\* pass, and rows that exist in the path pass.
Hands ==
    /\ \A r \in loop.due : Pending(r)
    /\ loop.at \notin {"closing", "pricing"} => loop.due = {}
    /\ \A e \in loop.paths : InTable(<<e, Final>>)
    /\ loop.at = "candles" => loop.current \in Events /\ InTable(<<loop.current, Final>>)

\* A row with a price is done, and so is one with a candle path.
Settled(label) ==
    label # None =>
        /\ label.source # "none" => label.status = "done"
        /\ label.path = "done" => label.status = "done" /\ label.source # "none"

IInv ==
    /\ TypeOK
    /\ Hands
    /\ \A r \in Rows : InTable(r) => events[r[1]] # None
    /\ \A r \in Rows : Settled(labels[r])
    /\ PathsTogether

Tries == 0 .. MaxPathAttempts

\* The moves a row can make in one step.
Moves(old, new) ==
    \/ new = old
    \/ old = None /\ new = NewLabel
    \/ /\ old # None
       /\ \/ \E s \in {"scan_row", "multi_price"} :
                 old.status = "pending" /\ new = MarkDone(old, s)
          \/ \E s \in {"pending", "failed"}, n \in Tries :
                 old.status = "pending" /\ new = [old EXCEPT !.status = s, !.attempts = n]
          \/ \E v \in {"failed", "skipped"} : new = [old EXCEPT !.path = v]
          \/ \E n \in Tries : new = [old EXCEPT !.attempts = n]
          \/ new = Filled(old)
          \/ new = Unfilled(old)

RowsMove == \A r \in Rows : Moves(labels[r], labels'[r])

\* What a step does to the paths of an event.
PathKept(e) ==
    \A h \in Horizons :
        /\ InTable(<<e, h>>)' <=> InTable(<<e, h>>)
        /\ InTable(<<e, h>>) => labels'[<<e, h>>].path = labels[<<e, h>>].path

EventMoves ==
    /\ torn \subseteq torn'
    /\ \A e \in Events :
          \/ e \in torn'
          \/ PathKept(e)
          \/ \A h \in Horizons : InTable(<<e, h>>)' => labels'[<<e, h>>].path = "pending"
          \/ \A h \in Horizons : InTable(<<e, h>>)' => labels'[<<e, h>>].path # "pending"

-----------------------------------------------------------------------------
LEMMA FinalIsHorizon == Final \in Horizons
BY LastHorizonExists DEF Final

LEMMA MoreType == ASSUME NEW n \in Tries PROVE More(n) \in Tries
BY LabelerAssumption DEF Tries, More

LEMMA WakingType == \A t \in Nat : Waking(t) \in Loop /\ [Waking(t) EXCEPT !.at = "down"] \in Loop
BY DEF Waking, Loop

LEMMA AsleepType == ASSUME now \in Nat PROVE Asleep \in Loop
<1>1. (IF now < MaxTime THEN now + 1 ELSE now) \in Nat
  BY LabelerAssumption
<1> QED BY <1>1, WakingType DEF Asleep

\* A move keeps a label well-formed and settled, keeps the first price, and
\* takes no row out of the table.
LEMMA MovesKeep ==
    ASSUME NEW old \in Label \cup {None}, NEW new, Moves(old, new), Settled(old)
    PROVE  /\ new \in Label \cup {None}
           /\ Settled(new)
           /\ old # None => new # None
           /\ old # None /\ old.source # "none" => new.source = old.source
<1> USE NoneAssumption
<1>1. CASE new = old
  BY <1>1
<1>2. CASE old = None /\ new = NewLabel
  <2>1. NewLabel \in Label
    BY LabelerAssumption DEF NewLabel, Label
  <2>2. Settled(NewLabel)
    BY DEF NewLabel, Settled
  <2> QED BY <1>2, <2>1, <2>2
<1>3. ASSUME old # None,
             NEW s \in {"scan_row", "multi_price"},
             old.status = "pending", new = MarkDone(old, s)
      PROVE  new \in Label /\ Settled(new) /\ old.source = "none"
  BY <1>3 DEF MarkDone, Label, Settled
<1>4. ASSUME old # None, NEW s \in {"pending", "failed"}, NEW n \in Tries,
             old.status = "pending", new = [old EXCEPT !.status = s, !.attempts = n]
      PROVE  new \in Label /\ Settled(new) /\ new.source = old.source
  BY <1>4 DEF Tries, Label, Settled
<1>5. ASSUME old # None, NEW v \in {"failed", "skipped"}, new = [old EXCEPT !.path = v]
      PROVE  new \in Label /\ Settled(new) /\ new.source = old.source
  BY <1>5 DEF Label, Settled
<1>6. ASSUME old # None, NEW n \in Tries, new = [old EXCEPT !.attempts = n]
      PROVE  new \in Label /\ Settled(new) /\ new.source = old.source
  BY <1>6 DEF Tries, Label, Settled
<1>7. ASSUME old # None, new = Filled(old)
      PROVE  /\ new \in Label /\ Settled(new)
             /\ old.source # "none" => new.source = old.source
  BY <1>7 DEF Filled, Label, Settled
<1>8. ASSUME old # None, new = Unfilled(old)
      PROVE  new \in Label /\ Settled(new) /\ new.source = old.source
  BY <1>8 DEF Unfilled, Label, Settled
<1> QED BY <1>1, <1>2, <1>3, <1>4, <1>5, <1>6, <1>7, <1>8 DEF Moves

\* Rows of the table stay in it.
LEMMA RowsStay ==
    ASSUME IInv, RowsMove
    PROVE  \A r \in Rows : InTable(r) => InTable(r)'
<1> TAKE r \in Rows
<1>1. /\ labels[r] \in Label \cup {None} /\ Settled(labels[r])
      /\ Moves(labels[r], labels'[r])
  BY DEF IInv, TypeOK, RowsMove
<1> QED BY <1>1, MovesKeep DEF InTable

LEMMA TableKeeps ==
    ASSUME IInv, RowsMove, labels' = [r \in Rows |-> labels'[r]]
    PROVE  /\ labels' \in [Rows -> Label \cup {None}]
           /\ \A r \in Rows : Settled(labels[r])'
<1>1. ASSUME NEW r \in Rows
      PROVE  labels'[r] \in Label \cup {None} /\ Settled(labels'[r])
  <2>1. /\ labels[r] \in Label \cup {None} /\ Settled(labels[r])
        /\ Moves(labels[r], labels'[r])
    BY DEF IInv, TypeOK, RowsMove
  <2> QED BY <2>1, MovesKeep
<1>2. labels' \in [Rows -> Label \cup {None}]
  BY <1>1
<1>3. \A r \in Rows : Settled(labels'[r])
  BY <1>1
<1> QED BY <1>2, <1>3 DEF Settled

\* The paths of an event stay together when all its rows move alike.
LEMMA EventsTogether ==
    ASSUME IInv, EventMoves
    PROVE  PathsTogether'
<1> SUFFICES ASSUME NEW e \in Events \ torn', NEW g \in Horizons, NEW h \in Horizons,
                    InTable(<<e, g>>)', labels'[<<e, g>>].path = "pending",
                    InTable(<<e, h>>)'
             PROVE  labels'[<<e, h>>].path = "pending"
  BY DEF PathsTogether
<1>1. CASE PathKept(e)
  <2>1. e \in Events \ torn
    BY DEF EventMoves
  <2>2. InTable(<<e, g>>) /\ labels[<<e, g>>].path = "pending" /\ InTable(<<e, h>>)
    BY <1>1 DEF PathKept
  <2>3. labels[<<e, h>>].path = "pending"
    BY <2>1, <2>2 DEF IInv, PathsTogether
  <2> QED BY <1>1, <2>2, <2>3 DEF PathKept
<1>2. CASE \A i \in Horizons : InTable(<<e, i>>)' => labels'[<<e, i>>].path = "pending"
  BY <1>2
<1>3. CASE \A i \in Horizons : InTable(<<e, i>>)' => labels'[<<e, i>>].path # "pending"
  BY <1>3
<1> QED BY <1>1, <1>2, <1>3 DEF EventMoves

-----------------------------------------------------------------------------
\* The steps that leave the table and the histories of path updates alone.
LEMMA TableUnchanged ==
    ASSUME UNCHANGED <<labels, torn>>
    PROVE  RowsMove /\ EventMoves
BY DEF RowsMove, Moves, EventMoves, PathKept, InTable

LEMMA InsertMoves ==
    ASSUME IInv, NEW e \in Events, NEW S \in SUBSET Horizons, NEW sampled \in BOOLEAN,
           Insert(e, S, sampled), UNCHANGED torn
    PROVE  RowsMove /\ EventMoves
<1>1. ASSUME NEW r \in Rows PROVE Moves(labels[r], labels'[r])
  <2>1. labels'[r] = IF r[1] = e /\ r[2] \in S THEN NewLabel ELSE labels[r]
    BY DEF Insert
  <2>2. r[1] = e => labels[r] = None
    BY DEF Insert, InTable, IInv
  <2> QED BY <2>1, <2>2 DEF Moves
<1>2. ASSUME NEW f \in Events
      PROVE  \/ PathKept(f)
             \/ \A h \in Horizons : InTable(<<f, h>>)' => labels'[<<f, h>>].path = "pending"
  <2>1. \A h \in Horizons : <<f, h>> \in Rows
    BY DEF Rows
  <2>2. CASE f = e
    <3>1. \A h \in Horizons : labels[<<f, h>>] = None
      <4>1. ASSUME NEW h \in Horizons PROVE labels[<<f, h>>] = None
        <5>1. events[<<f, h>>[1]] = None
          BY <2>2 DEF Insert
        <5> QED BY <5>1, <2>1 DEF InTable, IInv
      <4> QED BY <4>1
    <3>2. \A h \in Horizons :
             labels'[<<f, h>>] = IF h \in S THEN NewLabel ELSE labels[<<f, h>>]
      BY <2>1, <2>2 DEF Insert
    <3> QED BY <3>1, <3>2 DEF InTable, NewLabel
  <2>3. CASE f # e
    <3>1. \A h \in Horizons : labels'[<<f, h>>] = labels[<<f, h>>]
      BY <2>1, <2>3 DEF Insert
    <3> QED BY <3>1 DEF PathKept, InTable
  <2> QED BY <2>2, <2>3
<1> QED BY <1>1, <1>2 DEF RowsMove, EventMoves

\* The close pass changes rows it has in its hands, which exist and wait for
\* a price, and no path.
LEMMA CloseMoves ==
    ASSUME IInv, UNCHANGED torn,
           \A r \in Rows :
              \/ labels'[r] = labels[r]
              \/ /\ Pending(r)
                 /\ \/ \E s \in {"scan_row", "multi_price"} : labels'[r] = MarkDone(labels[r], s)
                    \/ \E s \in {"pending", "failed"}, n \in Tries :
                          labels'[r] = [labels[r] EXCEPT !.status = s, !.attempts = n]
    PROVE  RowsMove /\ EventMoves
<1>1. ASSUME NEW r \in Rows PROVE Moves(labels[r], labels'[r])
  BY DEF Moves, Pending, InTable
<1>2. ASSUME NEW r \in Rows
      PROVE  /\ InTable(r)' <=> InTable(r)
             /\ InTable(r) => labels'[r].path = labels[r].path
  <2>1. CASE labels'[r] = labels[r]
    BY <2>1 DEF InTable
  <2>2. ASSUME NEW s \in {"scan_row", "multi_price"}, Pending(r),
               labels'[r] = MarkDone(labels[r], s)
        PROVE  /\ InTable(r)' <=> InTable(r)
               /\ InTable(r) => labels'[r].path = labels[r].path
    <3>1. labels[r] \in Label /\ labels[r] # None
      BY <2>2 DEF IInv, TypeOK, Pending, InTable
    <3>2. MarkDone(labels[r], s) \in Label /\ MarkDone(labels[r], s).path = labels[r].path
      BY <3>1 DEF MarkDone, Label
    <3> QED BY <2>2, <3>1, <3>2, NoneAssumption DEF InTable
  <2>3. ASSUME NEW s \in {"pending", "failed"}, NEW n \in Tries, Pending(r),
               labels'[r] = [labels[r] EXCEPT !.status = s, !.attempts = n]
        PROVE  /\ InTable(r)' <=> InTable(r)
               /\ InTable(r) => labels'[r].path = labels[r].path
    <3>1. labels[r] \in Label /\ labels[r] # None
      BY <2>3 DEF IInv, TypeOK, Pending, InTable
    <3>2. labels'[r] \in Label /\ labels'[r].path = labels[r].path
      BY <2>3, <3>1 DEF Label, Tries
    <3> QED BY <3>1, <3>2, NoneAssumption DEF InTable
  <2> QED BY <2>1, <2>2, <2>3
<1>3. ASSUME NEW e \in Events PROVE PathKept(e)
  <2>1. \A h \in Horizons : <<e, h>> \in Rows
    BY DEF Rows
  <2> QED BY <1>2, <2>1 DEF PathKept
<1> QED BY <1>1, <1>3 DEF RowsMove, EventMoves

LEMMA ScansMove ==
    ASSUME IInv, NEW c \in Chains, NEW hits \in SUBSET loop.due, CloseFromScans(c, hits)
    PROVE  RowsMove /\ EventMoves
<1>1. ASSUME NEW r \in Rows
      PROVE  labels'[r] = IF r \in hits THEN MarkDone(labels[r], "scan_row") ELSE labels[r]
  BY DEF CloseFromScans, Update
<1>2. \A r \in hits : Pending(r)
  BY DEF IInv, Hands
<1>3. UNCHANGED torn
  BY DEF CloseFromScans, history
<1> QED BY <1>1, <1>2, <1>3, CloseMoves

LEMMA PricesMove ==
    ASSUME IInv, NEW answered \in SUBSET Events, NEW S \in SUBSET DueOn(loop.chain),
           SettleRows(answered, S)
    PROVE  RowsMove /\ EventMoves
<1>1. \A r \in S : Pending(r)
  BY DEF IInv, Hands, DueOn
<1>2. ASSUME NEW r \in Rows, r \in S, r[1] \notin answered
      PROVE  \E s \in {"pending", "failed"}, n \in Tries :
                labels'[r] = [labels[r] EXCEPT !.status = s, !.attempts = n]
  <2>1. labels'[r] = Missed(r, labels[r])
    BY <1>2 DEF SettleRows
  <2>2. labels[r] \in Label /\ labels[r].status = "pending"
    BY <1>1, <1>2 DEF IInv, TypeOK, Pending, InTable
  <2>3. labels[r].attempts \in Tries
    BY <2>2 DEF Label, Tries
  <2> DEFINE s == IF GraceOver(r) THEN "failed" ELSE "pending"
             n == IF r[2] = Final THEN More(labels[r].attempts) ELSE labels[r].attempts
  <2>4. s \in {"pending", "failed"} /\ n \in Tries
    BY <2>3, MoreType
  <2>5. Missed(r, labels[r]) = [labels[r] EXCEPT !.status = s, !.attempts = n]
    BY <2>2 DEF Missed
  <2> HIDE DEF s, n
  <2> QED BY <2>1, <2>4, <2>5
<1>3. ASSUME NEW r \in Rows, r \in S, r[1] \in answered
      PROVE  labels'[r] = MarkDone(labels[r], "multi_price")
  BY <1>3 DEF SettleRows
<1>4. ASSUME NEW r \in Rows, r \notin S PROVE labels'[r] = labels[r]
  BY <1>4 DEF SettleRows
<1>5. UNCHANGED torn
  BY DEF SettleRows
<1> QED BY <1>1, <1>2, <1>3, <1>4, <1>5, CloseMoves

\* A step that changes rows of one event only, and their paths in one way.
LEMMA OneEventMoves ==
    ASSUME IInv, NEW e \in Events, torn \subseteq torn',
           \A r \in Rows : r[1] # e \/ ~InTable(r) => labels'[r] = labels[r],
           \/ e \in torn'
           \/ PathKept(e)
           \/ \A r \in Rows : r[1] = e /\ InTable(r) => labels'[r].path # "pending"
    PROVE  EventMoves
<1> SUFFICES ASSUME NEW f \in Events
             PROVE  \/ f \in torn'
                    \/ PathKept(f)
                    \/ \A h \in Horizons : InTable(<<f, h>>)' => labels'[<<f, h>>].path # "pending"
  BY DEF EventMoves
<1>1. \A h \in Horizons : <<f, h>> \in Rows /\ <<f, h>>[1] = f
  BY DEF Rows
<1>2. CASE f # e
  <2>1. \A h \in Horizons : labels'[<<f, h>>] = labels[<<f, h>>]
    BY <1>1, <1>2
  <2> QED BY <2>1 DEF PathKept, InTable
<1>3. CASE f = e /\ \A r \in Rows : r[1] = e /\ InTable(r) => labels'[r].path # "pending"
  <2>1. \A h \in Horizons : ~InTable(<<f, h>>) => ~InTable(<<f, h>>)'
    BY <1>1 DEF InTable
  <2>2. \A h \in Horizons : InTable(<<f, h>>) => labels'[<<f, h>>].path # "pending"
    BY <1>1, <1>3
  <2> QED BY <2>1, <2>2
<1> QED BY <1>2, <1>3

LEMMA SetPathsMove ==
    ASSUME IInv, NEW e \in Events, NEW v \in {"failed", "skipped"}, SetPaths(e, v)
    PROVE  RowsMove /\ EventMoves
<1>1. ASSUME NEW r \in Rows
      PROVE  labels'[r] = IF r[1] = e /\ InTable(r) THEN [labels[r] EXCEPT !.path = v]
                                                   ELSE labels[r]
  BY DEF SetPaths, Update, RowsOf
<1>2. ASSUME NEW r \in Rows PROVE Moves(labels[r], labels'[r])
  BY <1>1 DEF Moves, InTable
<1>3. ASSUME NEW r \in Rows, r[1] = e, InTable(r) PROVE labels'[r].path # "pending"
  <2>1. labels[r] \in Label
    BY <1>3 DEF IInv, TypeOK, InTable
  <2>2. labels'[r] = [labels[r] EXCEPT !.path = v]
    BY <1>1, <1>3
  <2>3. labels'[r].path = v
    BY <2>1, <2>2 DEF Label
  <2> QED BY <2>3
<1>4. torn' = torn
  BY DEF SetPaths, history
<1>5. EventMoves
  BY <1>1, <1>3, <1>4, OneEventMoves
<1> QED BY <1>2, <1>5 DEF RowsMove

LEMMA NoCandlesMoves ==
    ASSUME IInv, NoCandles
    PROVE  RowsMove /\ EventMoves
<1>0. PICK f \in Events : f = loop.current /\ InTable(<<f, Final>>)
  BY DEF IInv, Hands, NoCandles
<1> DEFINE last == <<f, Final>>
<1>1. last \in Rows /\ InTable(last)
  BY <1>0, FinalIsHorizon DEF Rows
<1>2. labels[last] \in Label /\ labels[last] # None
  BY <1>1 DEF IInv, TypeOK, InTable
<1>3. PICK n \in Tries : n = More(labels[last].attempts)
  BY <1>2, MoreType DEF Label, Tries
<1>4. labels' = [r \in Rows |-> IF r \in {last} THEN [labels[r] EXCEPT !.attempts = More(@)]
                                               ELSE labels[r]]
  BY <1>0 DEF NoCandles, Update
<1>5. labels'[last] = [labels[last] EXCEPT !.attempts = n]
  BY <1>1, <1>3, <1>4
<1>6. \A r \in Rows : r # last => labels'[r] = labels[r]
  BY <1>4
<1>7. ASSUME NEW r \in Rows PROVE Moves(labels[r], labels'[r])
  BY <1>2, <1>5, <1>6 DEF Moves
<1>8. labels'[last] \in Label /\ labels'[last].path = labels[last].path
  BY <1>2, <1>5 DEF Label, Tries
<1>9. ASSUME NEW e \in Events PROVE PathKept(e)
  <2>1. ASSUME NEW h \in Horizons
        PROVE  /\ InTable(<<e, h>>)' <=> InTable(<<e, h>>)
               /\ InTable(<<e, h>>) => labels'[<<e, h>>].path = labels[<<e, h>>].path
    <3>1. CASE <<e, h>> = last
      BY <3>1, <1>1, <1>8, NoneAssumption DEF InTable
    <3>2. CASE <<e, h>> # last
      BY <3>2, <1>6 DEF InTable, Rows
    <3> QED BY <3>1, <3>2
  <2> QED BY <2>1 DEF PathKept
<1> QED BY <1>7, <1>9 DEF RowsMove, EventMoves, NoCandles, history

LEMMA ApplyMoves ==
    ASSUME IInv, NEW window \in SUBSET Horizons, ApplyPath(window)
    PROVE  RowsMove /\ EventMoves
<1>1. PICK e \in Events : e = loop.current
  BY DEF IInv, Hands, ApplyPath
<1>2. ASSUME NEW r \in Rows
      PROVE  labels'[r] = IF ~(r[1] = e /\ InTable(r)) THEN labels[r]
                          ELSE IF r[2] \in window THEN Filled(labels[r]) ELSE Unfilled(labels[r])
  BY <1>1 DEF ApplyPath, RowsOf
<1>3. ASSUME NEW r \in Rows PROVE Moves(labels[r], labels'[r])
  BY <1>2 DEF Moves, InTable
<1>4. ASSUME NEW r \in Rows, r[1] = e, InTable(r) PROVE labels'[r].path # "pending"
  <2>1. labels[r] \in Label
    BY <1>4 DEF IInv, TypeOK, InTable
  <2>2. Filled(labels[r]).path # "pending" /\ Unfilled(labels[r]).path # "pending"
    BY <2>1 DEF Filled, Unfilled, Label
  <2> QED BY <1>2, <1>4, <2>2
<1>5. torn' = torn
  BY DEF ApplyPath, history
<1>6. EventMoves
  BY <1>1, <1>2, <1>4, <1>5, OneEventMoves
<1> QED BY <1>3, <1>6 DEF RowsMove

LEMMA ApplyUpToMoves ==
    ASSUME IInv, NEW window \in SUBSET Horizons, NEW h \in Horizons \cup {Final + 1},
           ApplyUpTo(window, h)
    PROVE  RowsMove /\ EventMoves
<1>1. PICK e \in Events : e = loop.current
  BY DEF IInv, Hands, ApplyUpTo
<1> DEFINE filled == {r \in RowsOf(e) : r[2] \in window /\ r[2] < h}
<1>2. ASSUME NEW r \in Rows
      PROVE  labels'[r] = IF r \in filled THEN Filled(labels[r]) ELSE labels[r]
  BY <1>1 DEF ApplyUpTo, Update
<1>3. \A r \in filled : r \in Rows /\ r[1] = e /\ InTable(r)
  BY DEF RowsOf
<1>4. torn' = IF filled = {} THEN torn ELSE torn \cup {e}
  BY <1>1 DEF ApplyUpTo
<1> HIDE DEF filled
<1>5. ASSUME NEW r \in Rows PROVE Moves(labels[r], labels'[r])
  BY <1>2, <1>3 DEF Moves, InTable
<1>6. CASE filled = {}
  <2>1. \A r \in Rows : labels'[r] = labels[r]
    BY <1>2, <1>6
  <2>2. PathKept(e)
    <3>1. \A i \in Horizons : labels'[<<e, i>>] = labels[<<e, i>>]
      BY <1>1, <2>1 DEF Rows
    <3> QED BY <3>1 DEF PathKept, InTable
  <2>3. torn \subseteq torn'
    BY <1>4, <1>6
  <2> QED BY <1>1, <2>1, <2>2, <2>3, OneEventMoves, <1>5 DEF RowsMove
<1>7. CASE filled # {}
  <2>1. e \in torn' /\ torn \subseteq torn'
    BY <1>4, <1>7
  <2>2. \A r \in Rows : r[1] # e \/ ~InTable(r) => labels'[r] = labels[r]
    BY <1>2, <1>3
  <2>3. EventMoves
    BY <1>1, <2>1, <2>2, OneEventMoves
  <2> QED BY <1>5, <2>3 DEF RowsMove
<1> QED BY <1>6, <1>7

\* Every step moves rows and events in these ways.
LEMMA StepsMove ==
    ASSUME IInv, [Next]_vars
    PROVE  RowsMove /\ EventMoves
<1>1. CASE UNCHANGED <<labels, torn>>
  BY <1>1, TableUnchanged
<1>2. CASE ~UNCHANGED <<labels, torn>>
  <2>1. ASSUME NEW e \in Events, NEW sampled \in BOOLEAN, Enqueue(e, sampled)
        PROVE  RowsMove /\ EventMoves
    BY <2>1, InsertMoves DEF Enqueue, history
  <2>2. ASSUME NEW e \in Events, NEW h \in Horizons, NEW sampled \in BOOLEAN,
               EnqueueTorn(e, h, sampled)
        PROVE  RowsMove /\ EventMoves
    BY <2>2, InsertMoves DEF EnqueueTorn, history
  <2>3. ASSUME NEW c \in Chains, NEW hits \in SUBSET loop.due, CloseFromScans(c, hits)
        PROVE  RowsMove /\ EventMoves
    BY <2>3, ScansMove
  <2>4. ASSUME NEW answered \in SUBSET Events, NEW S \in SUBSET DueOn(loop.chain),
               SettleRows(answered, S)
        PROVE  RowsMove /\ EventMoves
    BY <2>4, PricesMove
  <2>5. ASSUME NEW e \in Events, SkipPath(e) \/ GiveUpPath(e)
        PROVE  RowsMove /\ EventMoves
    BY <2>5, SetPathsMove DEF SkipPath, GiveUpPath
  <2>6. ASSUME NoCandles PROVE RowsMove /\ EventMoves
    BY <2>6, NoCandlesMoves
  <2>7. ASSUME NEW window \in Windows, ApplyPath(window)
        PROVE  RowsMove /\ EventMoves
    BY <2>7, ApplyMoves DEF Windows
  <2>8. ASSUME NEW window \in Windows, NEW h \in Horizons \cup {Final + 1},
               ApplyUpTo(window, h)
        PROVE  RowsMove /\ EventMoves
    BY <2>8, ApplyUpToMoves DEF Windows
  <2>9. ASSUME NEW window \in Windows, NEW h \in Horizons, ApplyRaises(window, h)
        PROVE  RowsMove /\ EventMoves
    BY <2>8, <2>9 DEF ApplyRaises
  <2>10. ASSUME NEW window \in Windows, NEW h \in Horizons \cup {Final + 1},
                ApplyCrashes(window, h)
         PROVE  RowsMove /\ EventMoves
    BY <2>8, <2>10 DEF ApplyCrashes
  <2>11. \/ \E e \in Events, sampled \in BOOLEAN : Enqueue(e, sampled)
         \/ \E e \in Events, h \in Horizons, sampled \in BOOLEAN : EnqueueTorn(e, h, sampled)
         \/ \E c \in Chains, hits \in SUBSET loop.due : CloseFromScans(c, hits)
         \/ \E answered \in SUBSET Events, S \in SUBSET DueOn(loop.chain) : SettleRows(answered, S)
         \/ \E e \in Events : SkipPath(e) \/ GiveUpPath(e)
         \/ NoCandles
         \/ \E window \in Windows : ApplyPath(window)
         \/ \E window \in Windows, h \in Horizons : ApplyRaises(window, h)
         \/ \E window \in Windows, h \in Horizons \cup {Final + 1} : ApplyCrashes(window, h)
    BY <1>2 DEF Next, vars, history, ClosePass, PathPass, CandlesArrive, Raises, Interrupted,
                Clock, StartTick, CloseEnds, PostponePath, AskCandles, PricesRaise, TickEnds,
                Crash, Restart, PricesArrive, PricesCrash
  <2> QED BY <2>1, <2>2, <2>3, <2>4, <2>5, <2>6, <2>7, <2>9, <2>10, <2>11
<1> QED BY <1>1, <1>2

LEMMA LabelsAreFunction ==
    ASSUME IInv, [Next]_vars
    PROVE  labels' = [r \in Rows |-> labels'[r]]
<1>1. labels = [r \in Rows |-> labels[r]]
  BY DEF IInv, TypeOK
<1>2. CASE UNCHANGED labels
  BY <1>1, <1>2
<1>3. CASE ~UNCHANGED labels
  BY <1>3 DEF Next, vars, history, ClosePass, PathPass, CandlesArrive, Raises, Interrupted,
              Clock, StartTick, CloseEnds, PostponePath, AskCandles, PricesRaise, TickEnds,
              Crash, Restart, Enqueue, EnqueueTorn, Insert, CloseFromScans, PricesArrive,
              SkipPath, GiveUpPath, SetPaths, NoCandles, ApplyPath, ApplyRaises,
              ApplyCrashes, ApplyUpTo, Update, PricesCrash, SettleRows
<1> QED BY <1>2, <1>3

-----------------------------------------------------------------------------
\* The loop's own state stays well-formed, and what it has in its hands stays
\* in the table, pending in the close pass.  A step is named by the loop state
\* it leads to.
LEMMA LoopSteps ==
    ASSUME IInv, Next
    PROVE  \/ UNCHANGED <<loop, labels>>
           \/ \E e \in Events, sampled \in BOOLEAN : Enqueue(e, sampled)
           \/ loop' = Asleep \/ loop' = Waking(0) \/ loop' = [Waking(0) EXCEPT !.at = "down"]
           \/ StartTick \/ CloseEnds
           \/ \E c \in Chains, hits \in SUBSET loop.due : CloseFromScans(c, hits)
           \/ \E answered \in SUBSET Events : PricesArrive(answered)
           \/ /\ loop.at = "pathing"
              /\ \E e \in loop.paths : loop' = [loop EXCEPT !.paths = @ \ {e}]
           \/ /\ loop.at = "pathing"
              /\ \E e \in loop.paths :
                    loop' = [loop EXCEPT !.at = "candles", !.paths = @ \ {e}, !.current = e]
           \/ loop.at = "candles" /\ loop' = CandlesDone
<1>1. ASSUME NEW e \in Events, SkipPath(e) \/ GiveUpPath(e) \/ PostponePath(e)
      PROVE  /\ loop.at = "pathing" /\ e \in loop.paths
             /\ loop' = [loop EXCEPT !.paths = @ \ {e}]
  BY <1>1 DEF SkipPath, GiveUpPath, PostponePath, Worthwhile, Next1st, SetPaths
<1>2. ASSUME NEW e \in Events, AskCandles(e)
      PROVE  /\ loop.at = "pathing" /\ e \in loop.paths
             /\ loop' = [loop EXCEPT !.at = "candles", !.paths = @ \ {e}, !.current = e]
  BY <1>2 DEF AskCandles, Worthwhile, Next1st
<1>3. CandlesArrive => loop.at = "candles" /\ loop' = CandlesDone
  BY DEF CandlesArrive, NoCandles, ApplyPath
<1>4. Raises => loop' = Asleep
  BY DEF Raises, PricesRaise, ApplyRaises
<1>5. Interrupted => loop' = [Waking(0) EXCEPT !.at = "down"]
  BY DEF Interrupted, Crash, ApplyCrashes, PricesCrash, EnqueueTorn
<1>6. Restart => loop' = Waking(0)
  BY DEF Restart
<1>7. TickEnds => loop' = Asleep
  BY DEF TickEnds
<1>8. Clock => UNCHANGED <<loop, labels>>
  BY DEF Clock
<1> QED BY <1>1, <1>2, <1>3, <1>4, <1>5, <1>6, <1>7, <1>8 DEF Next, ClosePass, PathPass

LEMMA HandsSteps ==
    ASSUME IInv, Next, \A r \in Rows : InTable(r) => InTable(r)'
    PROVE  (loop \in Loop)' /\ Hands'
<1> USE DEF Loop
<1>a. /\ loop \in Loop /\ now \in Nat
      /\ \A r \in loop.due : r \in Rows /\ Pending(r)
      /\ loop.at \notin {"closing", "pricing"} => loop.due = {}
      /\ \A e \in loop.paths : e \in Events /\ InTable(<<e, Final>>)
      /\ loop.at = "candles" => loop.current \in Events /\ InTable(<<loop.current, Final>>)
  BY DEF IInv, TypeOK, Hands
<1>b. \A e \in Events : InTable(<<e, Final>>) => InTable(<<e, Final>>)'
  BY FinalIsHorizon DEF Rows
<1>1. CASE UNCHANGED <<loop, labels>>
  BY <1>1, <1>a DEF Hands, Pending, InTable
<1>2. CASE \E e \in Events, sampled \in BOOLEAN : Enqueue(e, sampled)
  <2>1. PICK e \in Events, sampled \in BOOLEAN : Enqueue(e, sampled)
    BY <1>2
  <2>2. loop' = loop
    BY <2>1 DEF Enqueue
  <2>3. ASSUME NEW r \in loop.due PROVE labels'[r] = labels[r]
    <3>1. r \in Rows /\ InTable(r)
      BY <1>a DEF Pending
    <3>2. r[1] # e
      BY <2>1, <3>1 DEF Enqueue, Insert, IInv
    <3> QED BY <2>1, <3>1, <3>2 DEF Enqueue, Insert
  <2>4. \A r \in loop.due : Pending(r)'
    BY <1>a, <2>3 DEF Pending, InTable
  <2>5. \A f \in loop.paths : InTable(<<f, Final>>)'
    BY <1>a, <1>b
  <2>6. loop.at = "candles" => InTable(<<loop.current, Final>>)'
    <3>1. ASSUME loop.at = "candles" PROVE InTable(<<loop.current, Final>>)'
      <4>1. PICK f \in Events : f = loop.current /\ InTable(<<f, Final>>)
        BY <3>1, <1>a
      <4>2. InTable(<<f, Final>>)'
        BY <4>1, <1>b
      <4> QED BY <4>1, <4>2, <2>2 DEF InTable
    <3> QED BY <3>1
  <2> QED BY <1>a, <2>2, <2>4, <2>5, <2>6 DEF Hands, InTable
<1>3. CASE loop' = Asleep \/ loop' = Waking(0) \/ loop' = [Waking(0) EXCEPT !.at = "down"]
  <2>1. \E t \in Nat : loop' = Waking(t) \/ loop' = [Waking(t) EXCEPT !.at = "down"]
    BY <1>3, <1>a, LabelerAssumption DEF Asleep
  <2>2. PICK t \in Nat : loop' = Waking(t) \/ loop' = [Waking(t) EXCEPT !.at = "down"]
    BY <2>1
  <2>3. /\ loop' \in Loop
        /\ loop'.at \in {"asleep", "down"} /\ loop'.due = {} /\ loop'.paths = {}
    BY <2>2 DEF Waking
  <2> QED BY <2>3 DEF Hands
<1>4. CASE StartTick
  <2>1. /\ loop'.due = {r \in Rows : Pending(r) /\ Due(r) <= now}
        /\ loop'.at = "closing" /\ loop'.paths = loop.paths /\ loop' \in Loop
    BY <1>4, <1>a DEF StartTick
  <2>2. UNCHANGED labels
    BY <1>4 DEF StartTick
  <2> QED BY <1>a, <2>1, <2>2 DEF Hands, Pending, InTable
<1>5. CASE CloseEnds
  <2>1. /\ loop'.paths = {e \in Events : PathDue(e)} /\ loop'.due = {}
        /\ loop'.at = "pathing" /\ loop' \in Loop
    BY <1>5, <1>a DEF CloseEnds
  <2>2. UNCHANGED labels
    BY <1>5 DEF CloseEnds
  <2> QED BY <2>1, <2>2 DEF Hands, PathDue, PathPending, InTable
<1>6. CASE \E c \in Chains, hits \in SUBSET loop.due : CloseFromScans(c, hits)
  <2>1. PICK c \in Chains, hits \in SUBSET loop.due : CloseFromScans(c, hits)
    BY <1>6
  <2>2. /\ loop' \in Loop /\ loop'.at \in {"closing", "pricing"}
        /\ loop'.due \subseteq loop.due \ hits /\ loop'.paths = loop.paths
    <3>1. CASE loop' = [loop EXCEPT !.at = "pricing", !.chain = c, !.due = @ \ hits]
      BY <1>a, <2>1, <3>1
    <3>2. CASE loop' = [loop EXCEPT !.due = @ \ DueOn(c)]
      BY <1>a, <2>1, <3>2 DEF CloseFromScans
    <3> QED BY <2>1, <3>1, <3>2 DEF CloseFromScans
  <2>3. \A r \in loop.due \ hits : labels'[r] = labels[r]
    BY <1>a, <2>1 DEF CloseFromScans, Update
  <2>4. \A r \in loop'.due : Pending(r)'
    BY <1>a, <2>2, <2>3 DEF Pending, InTable
  <2>5. \A e \in loop'.paths : InTable(<<e, Final>>)'
    BY <1>a, <1>b, <2>2
  <2> QED BY <2>2, <2>4, <2>5 DEF Hands
<1>7. CASE \E answered \in SUBSET Events : PricesArrive(answered)
  <2>1. PICK answered \in SUBSET Events : PricesArrive(answered)
    BY <1>7
  <2>2. /\ loop' \in Loop /\ loop'.at = "closing"
        /\ loop'.due = loop.due \ DueOn(loop.chain) /\ loop'.paths = loop.paths
    BY <1>a, <2>1 DEF PricesArrive, SettleRows
  <2>3. \A r \in loop.due \ DueOn(loop.chain) : labels'[r] = labels[r]
    BY <1>a, <2>1 DEF PricesArrive, SettleRows
  <2>4. \A r \in loop'.due : Pending(r)'
    BY <1>a, <2>2, <2>3 DEF Pending, InTable
  <2>5. \A e \in loop'.paths : InTable(<<e, Final>>)'
    BY <1>a, <1>b, <2>2
  <2> QED BY <2>2, <2>4, <2>5 DEF Hands
<1>8. ASSUME loop.at = "pathing", NEW e \in loop.paths,
             \/ loop' = [loop EXCEPT !.paths = @ \ {e}]
             \/ loop' = [loop EXCEPT !.at = "candles", !.paths = @ \ {e}, !.current = e]
      PROVE  (loop \in Loop)' /\ Hands'
  <2>1. e \in Events /\ InTable(<<e, Final>>)'
    BY <1>a, <1>b
  <2>2. /\ loop' \in Loop /\ loop'.due = {} /\ loop'.paths \subseteq loop.paths
        /\ loop'.at = "pathing" \/ (loop'.at = "candles" /\ loop'.current = e)
    <3>1. CASE loop' = [loop EXCEPT !.paths = @ \ {e}]
      BY <1>a, <1>8, <3>1
    <3>2. CASE loop' = [loop EXCEPT !.at = "candles", !.paths = @ \ {e}, !.current = e]
      <4>1. /\ loop'.at = "candles" /\ loop'.current = e /\ loop'.due = loop.due
            /\ loop'.paths = loop.paths \ {e}
        BY <1>a, <3>2
      <4>2. loop' \in Loop
        BY <1>a, <2>1, <3>2
      <4> QED
        BY <1>a, <1>8, <4>1, <4>2
    <3> QED
      BY <1>8, <3>1, <3>2
  <2>3. \A f \in loop'.paths : InTable(<<f, Final>>)'
    BY <1>a, <1>b, <2>2
  <2> QED BY <2>1, <2>2, <2>3 DEF Hands, InTable
<1>9. CASE loop.at = "candles" /\ loop' = CandlesDone
  <2>1. /\ loop' \in Loop /\ loop'.due = {} /\ loop'.paths = loop.paths
        /\ loop'.at = "pathing"
    BY <1>a, <1>9 DEF CandlesDone
  <2> QED BY <1>a, <1>b, <2>1 DEF Hands
<1> QED BY LoopSteps, <1>1, <1>2, <1>3, <1>4, <1>5, <1>6, <1>7, <1>8, <1>9

\* The rest of the state, and the events of the rows.
LEMMA OthersSteps ==
    ASSUME IInv, Next
    PROVE  /\ now' \in Nat /\ crashes' \in Nat
           /\ events' \in [Events -> Event \cup {None}]
           /\ \A e \in Events : events[e] # None => events'[e] # None
           /\ configured' \in SUBSET Chains
           /\ tries' \in [Events -> Tries]
           /\ torn' \in SUBSET Events
<1> USE DEF history
<1>a. /\ now \in Nat /\ crashes \in Nat /\ events \in [Events -> Event \cup {None}]
      /\ configured \in SUBSET Chains /\ tries \in [Events -> Tries]
      /\ torn \in SUBSET Events
  BY DEF IInv, TypeOK, Tries
<1>1. ASSUME NEW e \in Events, NEW S, NEW sampled \in BOOLEAN, Insert(e, S, sampled)
      PROVE  /\ events' \in [Events -> Event \cup {None}]
             /\ \A f \in Events : events[f] # None => events'[f] # None
  <2>1. [t0 |-> now, sampled |-> sampled] \in Event
    BY <1>a DEF Event
  <2> QED BY <1>1, <1>a, <2>1 DEF Insert
<1>2. CASE \E e \in Events, sampled \in BOOLEAN : Enqueue(e, sampled)
  BY <1>1, <1>2, <1>a DEF Enqueue
<1>3. CASE \E e \in Events, h \in Horizons, sampled \in BOOLEAN : EnqueueTorn(e, h, sampled)
  BY <1>1, <1>3, <1>a DEF EnqueueTorn
<1>4. ASSUME NEW answered \in SUBSET Events, NEW S, SettleRows(answered, S)
      PROVE  /\ now' = now /\ events' = events /\ configured' = configured /\ torn' = torn
             /\ tries' \in [Events -> Tries]
  <2>2. tries' = [e \in Events |->
                     IF <<e, Final>> \in S /\ e \notin answered
                     THEN More(tries[e]) ELSE tries[e]]
    BY <1>4 DEF SettleRows
  <2>3. \A e \in Events : tries[e] \in Tries /\ More(tries[e]) \in Tries
    BY <1>a, MoreType
  <2>4. tries' \in [Events -> Tries]
    BY <2>2, <2>3
  <2> QED BY <1>4, <2>4 DEF SettleRows
<1>5. CASE \E e \in Events : AskCandles(e)
  <2>1. PICK e \in Events : AskCandles(e)
    BY <1>5
  <2>2. tries' = [tries EXCEPT ![e] = More(tries[e])] /\ More(tries[e]) \in Tries
    BY <2>1, <1>a, MoreType DEF AskCandles
  <2>3. tries' \in [Events -> Tries]
    BY <1>a, <2>2
  <2> QED BY <1>a, <2>1, <2>3 DEF AskCandles
<1>6. ASSUME NEW window \in Windows, NEW h, ApplyUpTo(window, h)
      PROVE  /\ now' = now /\ events' = events /\ configured' = configured /\ tries' = tries
             /\ torn' \in SUBSET Events
  <2>1. loop.current \in Events
    BY <1>6 DEF ApplyUpTo, IInv, Hands
  <2> QED BY <1>6, <1>a, <2>1 DEF ApplyUpTo
<1>7. CASE \E window \in Windows, h \in Horizons : ApplyRaises(window, h)
  BY <1>6, <1>7, <1>a DEF ApplyRaises
<1>8. CASE \E window \in Windows, h \in Horizons \cup {Final + 1} : ApplyCrashes(window, h)
  BY <1>6, <1>8, <1>a DEF ApplyCrashes
<1>9. CASE Clock \/ Crash \/ Restart
  BY <1>9, <1>a DEF Clock, Crash, Restart
<1>10. CASE \/ StartTick \/ ClosePass \/ CandlesArrive \/ PricesRaise \/ TickEnds
            \/ \E e \in Events : SkipPath(e) \/ GiveUpPath(e) \/ PostponePath(e)
  BY <1>10, <1>a DEF StartTick, ClosePass, CloseEnds, CloseFromScans, CandlesArrive, NoCandles,
                     ApplyPath, PricesRaise, TickEnds, SkipPath, GiveUpPath, PostponePath,
                     SetPaths
<1>11. CASE \E answered \in SUBSET Events : PricesArrive(answered)
  BY <1>4, <1>11, <1>a DEF PricesArrive
<1>12. CASE \E answered \in SUBSET Events, S \in SUBSET loop.due : PricesCrash(answered, S)
  <2>1. PICK answered \in SUBSET Events, S \in SUBSET loop.due : PricesCrash(answered, S)
    BY <1>12
  <2>2. SettleRows(answered, S) /\ crashes' = crashes + 1
    BY <2>1 DEF PricesCrash
  <2> QED BY <1>4, <1>a, <2>2
<1> QED BY <1>2, <1>3, <1>5, <1>7, <1>8, <1>9, <1>10, <1>11, <1>12
        DEF Next, PathPass, Raises, Interrupted

\* Rows come into the table by enqueue only.
LEMMA NewRows ==
    ASSUME IInv, [Next]_vars, NEW r \in Rows, ~InTable(r), InTable(r)'
    PROVE  events[r[1]] = None /\ events'[r[1]] # None /\ events'[r[1]].t0 = now
<1> USE DEF InTable
<1>1. ASSUME NEW e \in Events, NEW S, NEW sampled \in BOOLEAN, Insert(e, S, sampled)
      PROVE  events[r[1]] = None /\ events'[r[1]] # None /\ events'[r[1]].t0 = now
  <2>1. [t0 |-> now, sampled |-> sampled] \in Event
    BY DEF Event, IInv, TypeOK
  <2>2. events'[e] = [t0 |-> now, sampled |-> sampled]
    BY <1>1 DEF Insert, IInv, TypeOK
  <2>3. r[1] = e /\ events[e] = None
    BY <1>1 DEF Insert
  <2> QED BY <2>1, <2>2, <2>3, NoneAssumption
<1>2. ASSUME NEW c, NEW hits \in SUBSET loop.due, CloseFromScans(c, hits) PROVE FALSE
  <2>1. r \notin hits
    BY DEF IInv, Hands, Pending
  <2> QED BY <1>2, <2>1 DEF CloseFromScans, Update
<1>3. ASSUME NEW answered, NEW S \in SUBSET DueOn(loop.chain), SettleRows(answered, S)
      PROVE  FALSE
  <2>1. r \notin S
    BY DEF IInv, Hands, Pending, DueOn
  <2> QED BY <1>3, <2>1 DEF SettleRows
<1>4. ASSUME NoCandles PROVE FALSE
  <2>1. r # <<loop.current, Final>>
    BY <1>4 DEF IInv, Hands, NoCandles
  <2> QED BY <1>4, <2>1 DEF NoCandles, Update
<1>5. ASSUME NEW e, r \in RowsOf(e) PROVE FALSE
  BY <1>5 DEF RowsOf
<1>6. ASSUME NEW e, NEW v, SetPaths(e, v) PROVE FALSE
  BY <1>5, <1>6 DEF SetPaths, Update
<1>7. ASSUME NEW window, ApplyPath(window) PROVE FALSE
  BY <1>5, <1>7 DEF ApplyPath
<1>8. ASSUME NEW window, NEW h, ApplyUpTo(window, h) PROVE FALSE
  BY <1>5, <1>8 DEF ApplyUpTo, Update
<1>9. CASE UNCHANGED labels
  BY <1>9
<1>10. CASE ~UNCHANGED labels
  <2>1. \/ \E e \in Events, S \in SUBSET Horizons, sampled \in BOOLEAN : Insert(e, S, sampled)
        \/ \E c \in Chains, hits \in SUBSET loop.due : CloseFromScans(c, hits)
        \/ \E answered \in SUBSET Events, S \in SUBSET DueOn(loop.chain) : SettleRows(answered, S)
        \/ NoCandles
        \/ \E e, v : SetPaths(e, v)
        \/ \E window \in Windows : ApplyPath(window)
        \/ \E window, h : ApplyUpTo(window, h)
    BY <1>10 DEF Next, vars, history, ClosePass, PathPass, CandlesArrive, Raises, Interrupted,
                 Clock, StartTick, CloseEnds, PostponePath, AskCandles, PricesRaise, TickEnds,
                 Crash, Restart, Enqueue, EnqueueTorn, SkipPath, GiveUpPath, ApplyRaises,
                 ApplyCrashes, PricesArrive, PricesCrash
  <2> QED BY <2>1, <1>1, <1>2, <1>3, <1>4, <1>6, <1>7, <1>8
<1> QED BY <1>9, <1>10

-----------------------------------------------------------------------------
LEMMA InitIInv == ASSUME Init PROVE IInv
<1>1. Waking(0) \in Loop /\ Waking(0).at = "asleep"
      /\ Waking(0).due = {} /\ Waking(0).paths = {}
  BY WakingType DEF Waking
<1>2. TypeOK
  BY <1>1, LabelerAssumption DEF Init, TypeOK
<1>3. \A r \in Rows : ~InTable(r)
  BY DEF Init, InTable
<1>4. Hands
  BY <1>1 DEF Init, Hands
<1>5. PathsTogether
  BY <1>3 DEF PathsTogether, Rows
<1> QED BY <1>2, <1>3, <1>4, <1>5 DEF IInv, Settled, InTable

LEMMA StepIInv == ASSUME IInv, [Next]_vars PROVE IInv'
<1>1. RowsMove /\ EventMoves
  BY StepsMove
<1>2. labels' \in [Rows -> Label \cup {None}] /\ \A r \in Rows : Settled(labels[r])'
  BY <1>1, TableKeeps, LabelsAreFunction
<1>3. PathsTogether'
  BY <1>1, EventsTogether
<1>4. CASE Next
  <2>1. \A r \in Rows : InTable(r) => InTable(r)'
    BY <1>1, RowsStay
  <2>2. loop' \in Loop /\ Hands'
    BY <1>4, <2>1, HandsSteps
  <2>3. TypeOK'
    BY <1>2, <1>4, <2>2, OthersSteps DEF TypeOK, Tries
  <2>4. ASSUME NEW r \in Rows, InTable(r)' PROVE events'[r[1]] # None
    <3>1. r[1] \in Events
      BY DEF Rows
    <3>2. CASE InTable(r)
      BY <1>4, <3>1, <3>2, OthersSteps DEF IInv
    <3>3. CASE ~InTable(r)
      BY <2>4, <3>3, NewRows
    <3> QED BY <3>2, <3>3
  <2> QED BY <1>2, <1>3, <2>2, <2>3, <2>4 DEF IInv
<1>5. CASE UNCHANGED vars
  BY <1>5 DEF IInv, TypeOK, Hands, vars, history, Settled, PathsTogether, InTable, Pending
<1> QED BY <1>4, <1>5

THEOREM Invariance == Spec => []IInv
BY InitIInv, StepIInv, PTL DEF Spec

\* The tables, the loop and the histories are well-formed, whatever the
\* constants are.
THEOREM TypeCorrect == Spec => []TypeOK
<1>1. IInv => TypeOK
  BY DEF IInv
<1> QED BY <1>1, Invariance, PTL

\* A row with a candle path has a close: the path recovers a failed one and no
\* later close pass takes it back (apply_path, _close_pass).
THEOREM FilledPathsHaveCloses == Spec => []PathHasClose
<1>1. IInv => PathHasClose
  BY DEF IInv, PathHasClose, Settled, InTable
<1> QED BY <1>1, Invariance, PTL

\* The paths of an event are settled together unless apply_path was cut short.
THEOREM PathsSettleTogether == Spec => []PathsTogether
<1>1. IInv => PathsTogether
  BY DEF IInv
<1> QED BY <1>1, Invariance, PTL

\* The first price of a label is the one it keeps.
THEOREM FirstPriceKept == Spec => PriceKept
<1>1. IInv /\ [Next]_vars =>
         [\A r \in Rows : InTable(r) /\ labels[r].source # "none"
                              => labels'[r].source = labels[r].source]_vars
  <2> SUFFICES ASSUME IInv, [Next]_vars, NEW r \in Rows, InTable(r),
                      labels[r].source # "none"
               PROVE  labels'[r].source = labels[r].source
    OBVIOUS
  <2>1. labels[r] \in Label /\ Settled(labels[r]) /\ Moves(labels[r], labels'[r])
    BY StepsMove DEF IInv, TypeOK, RowsMove, InTable
  <2> QED BY <2>1, MovesKeep DEF InTable
<1> QED BY <1>1, Invariance, PTL DEF Spec, PriceKept

-----------------------------------------------------------------------------
Ticking == {"closing", "pricing", "pathing", "candles"}

\* What a tick has left behind it: a pending row it does not hold is within
\* its grace, or of a chain not served; and so for the paths.
RowsSwept ==
    loop.at \in Ticking =>
        \A r \in Rows \ loop.due :
            Pending(r) /\ ChainOf[r[1]] \in configured => loop.ts - Due(r) <= Grace

PathsSwept ==
    loop.at \in {"pathing", "candles"} =>
        \A e \in Events \ loop.paths :
            PathPending(e) /\ KindOf[e] \in PathKinds
                => loop.ts - Due(<<e, Final>>) <= PathDeadline

\* No attempt is counted that was not made; the one under way is not counted.
AttemptsMade ==
    /\ \A e \in Events : InTable(<<e, Final>>) => labels[<<e, Final>>].attempts <= tries[e]
    /\ loop.at = "candles" =>
          More(labels[<<loop.current, Final>>].attempts) <= tries[loop.current]

SInv == IInv /\ loop.ts <= now /\ RowsSwept /\ PathsSwept /\ AttemptsMade

\* Events come into being with the time of their enqueue and stay as they are;
\* the chains served change between two ticks only.
LEMMA EventsKept ==
    ASSUME IInv, [Next]_vars
    PROVE  /\ \A e \in Events : events[e] # None => events'[e] = events[e]
           /\ now \in Nat /\ now' \in Nat /\ now <= now'
           /\ configured' = configured \/ loop'.at = "asleep"
<1> USE DEF history
<1>a. now \in Nat /\ events \in [Events -> Event \cup {None}]
  BY DEF IInv, TypeOK
<1>1. ASSUME NEW e \in Events, NEW S, NEW sampled, Insert(e, S, sampled)
      PROVE  \A f \in Events : events[f] # None => events'[f] = events[f]
  BY <1>1, <1>a DEF Insert
<1>2. CASE \E e \in Events, sampled \in BOOLEAN : Enqueue(e, sampled)
  BY <1>1, <1>2, <1>a DEF Enqueue
<1>3. CASE \E e \in Events, h \in Horizons, sampled \in BOOLEAN : EnqueueTorn(e, h, sampled)
  BY <1>1, <1>3, <1>a DEF EnqueueTorn
<1>4. CASE Clock
  BY <1>4, <1>a DEF Clock
<1>5. CASE Restart
  BY <1>5, <1>a DEF Restart, Waking
<1>6. CASE UNCHANGED <<now, events, configured>>
  BY <1>6, <1>a
<1> QED BY <1>2, <1>3, <1>4, <1>5, <1>6
        DEF Next, vars, ClosePass, PathPass, CandlesArrive, Raises, Interrupted,
            StartTick, CloseEnds, PostponePath, AskCandles, PricesRaise, TickEnds,
            Crash, CloseFromScans, PricesArrive, SkipPath, GiveUpPath, SetPaths, NoCandles,
            ApplyPath, ApplyRaises, ApplyCrashes, ApplyUpTo, PricesCrash,
                    SettleRows

LEMMA DueType ==
    ASSUME IInv, NEW r \in Rows, InTable(r)
    PROVE  Due(r) \in Int
<1>1. r[1] \in Events /\ r[2] \in Nat
  BY LabelerAssumption DEF Rows
<1>2. events[r[1]] \in Event
  BY <1>1 DEF IInv, TypeOK
<1> QED BY <1>1, <1>2 DEF Due, Event

\* A row that is in the table after a step was there before, due at the same
\* time, or is due later than the step.
LEMMA DueKept ==
    ASSUME IInv, [Next]_vars, NEW r \in Rows, InTable(r)'
    PROVE  \/ InTable(r) /\ Due(r)' = Due(r)
           \/ ~InTable(r) /\ Due(r)' \in Int /\ now <= Due(r)'
<1>1. r[1] \in Events /\ r[2] \in Nat /\ now \in Nat
  BY LabelerAssumption DEF Rows, IInv, TypeOK
<1>2. CASE InTable(r)
  <2>1. events[r[1]] # None
    BY <1>2 DEF IInv
  <2> QED BY <1>1, <1>2, <2>1, EventsKept DEF Due
<1>3. CASE ~InTable(r)
  <2>1. events'[r[1]].t0 = now
    BY <1>3, NewRows
  <2> QED BY <1>1, <1>3, <2>1 DEF Due
<1> QED BY <1>2, <1>3

\* Nothing becomes pending again.
LEMMA PendingKept ==
    ASSUME IInv, [Next]_vars, NEW r \in Rows, InTable(r)
    PROVE  /\ Pending(r)' => Pending(r)
           /\ labels'[r].path = "pending" => labels[r].path = "pending"
<1>1. labels[r] \in Label /\ labels[r] # None /\ Moves(labels[r], labels'[r])
  BY StepsMove DEF IInv, TypeOK, RowsMove, InTable
<1>2. ASSUME NEW old \in Label, NEW new, old # None, Moves(old, new)
      PROVE  /\ new.status = "pending" => old.status = "pending"
             /\ new.path = "pending" => old.path = "pending"
  <2>1. ASSUME NEW s \in {"scan_row", "multi_price"}, new = MarkDone(old, s)
        PROVE  new.status = "done" /\ new.path = old.path
    BY <2>1 DEF MarkDone, Label
  <2>2. ASSUME NEW s \in {"pending", "failed"}, NEW n \in Tries,
               new = [old EXCEPT !.status = s, !.attempts = n]
        PROVE  new.path = old.path
    BY <2>2 DEF Label
  <2>3. ASSUME NEW v \in {"failed", "skipped"}, new = [old EXCEPT !.path = v]
        PROVE  new.status = old.status /\ new.path = v
    BY <2>3 DEF Label
  <2>4. ASSUME NEW n \in Tries, new = [old EXCEPT !.attempts = n]
        PROVE  new.status = old.status /\ new.path = old.path
    BY <2>4 DEF Label
  <2>5. CASE new = Filled(old)
    BY <2>5 DEF Filled, Label
  <2>6. CASE new = Unfilled(old)
    BY <2>6 DEF Unfilled, Label
  <2> QED BY <1>2, <2>1, <2>2, <2>3, <2>4, <2>5, <2>6 DEF Moves
<1>3. /\ labels'[r].status = "pending" => labels[r].status = "pending"
      /\ labels'[r].path = "pending" => labels[r].path = "pending"
  BY <1>1, <1>2
<1> QED BY <1>1, <1>3 DEF Pending, InTable

-----------------------------------------------------------------------------
\* In a step of one tick the swept rows stay swept, if the rows that leave the
\* loop's hands do so settled, within their grace, or for want of a chain.
LEMMA SweepGoesOn ==
    ASSUME SInv, [Next]_vars, loop.at \in Ticking, loop'.at \in Ticking, loop'.ts = loop.ts,
           \A r \in loop.due \ loop'.due :
               Pending(r) /\ Pending(r)' /\ ChainOf[r[1]] \in configured
                   => loop.ts - Due(r) <= Grace
    PROVE  RowsSwept'
<1> USE DEF SInv
<1>0. loop.ts \in Nat /\ Grace \in Nat /\ configured' = configured
  BY EventsKept, LabelerAssumption DEF IInv, TypeOK, Loop, Ticking
<1> SUFFICES ASSUME NEW r \in Rows, r \notin loop'.due, Pending(r)', ChainOf[r[1]] \in configured
             PROVE  loop.ts - Due(r)' <= Grace
  BY <1>0 DEF RowsSwept
<1>1. CASE InTable(r) /\ Due(r)' = Due(r)
  <2>1. Pending(r)
    BY <1>1, PendingKept
  <2> QED BY <1>1, <2>1 DEF RowsSwept
<1>2. CASE Due(r)' \in Int /\ now <= Due(r)'
  <2> DEFINE d == Due(r)'
  <2>1. d \in Int /\ now <= d /\ loop.ts <= now /\ now \in Nat
    BY <1>2, EventsKept
  <2> HIDE DEF d
  <2>2. loop.ts - d <= Grace
    BY <1>0, <2>1
  <2> QED BY <2>2 DEF d
<1> QED BY <1>1, <1>2, DueKept DEF Pending, InTable

LEMMA PathSweepGoesOn ==
    ASSUME SInv, [Next]_vars, loop.at \in {"pathing", "candles"},
           loop'.at \in {"pathing", "candles"}, loop'.ts = loop.ts,
           \A e \in Events : e \in loop.paths /\ e \notin loop'.paths /\ PathPending(e)
                             /\ labels'[<<e, Final>>].path = "pending" => ~Late(e)
    PROVE  PathsSwept'
<1> USE DEF SInv
<1>0. loop.ts \in Nat /\ PathDeadline \in Nat
  BY LabelerAssumption DEF IInv, TypeOK, Loop
<1> SUFFICES ASSUME NEW e \in Events, e \notin loop'.paths, PathPending(e)', KindOf[e] \in PathKinds
             PROVE  loop.ts - Due(<<e, Final>>)' <= PathDeadline
  BY DEF PathsSwept
<1> DEFINE r == <<e, Final>>
<1>1. r \in Rows /\ InTable(r)' /\ labels'[r].path = "pending"
  BY FinalIsHorizon DEF Rows, PathPending
<1>2. CASE InTable(r) /\ Due(r)' = Due(r)
  <2>1. PathPending(e)
    BY <1>1, <1>2, PendingKept DEF PathPending
  <2>2. CASE e \in loop.paths
    <3>1. ~Late(e)
      BY <1>1, <2>1, <2>2
    <3>2. Due(r) \in Int
      BY <1>1, <1>2, DueType
    <3> QED BY <1>0, <1>2, <3>1, <3>2 DEF Late
  <2>3. CASE e \notin loop.paths
    BY <1>2, <2>1, <2>3 DEF PathsSwept
  <2> QED BY <2>2, <2>3
<1>3. CASE Due(r)' \in Int /\ now <= Due(r)'
  <2> DEFINE d == Due(r)'
  <2>1. d \in Int /\ now <= d /\ loop.ts <= now /\ now \in Nat
    BY <1>3, EventsKept
  <2> HIDE DEF d
  <2>2. loop.ts - d <= PathDeadline
    BY <1>0, <2>1
  <2> QED BY <2>2 DEF d
<1> QED BY <1>1, <1>2, <1>3, DueKept

\* The steps of the loop, as far as a tick goes on.
LEMMA TickSteps ==
    ASSUME IInv, [Next]_vars
    PROVE  \/ loop' = loop /\ tries' = tries
              /\ (labels' = labels \/ \E e \in Events, sampled \in BOOLEAN : Enqueue(e, sampled))
           \/ loop'.at \notin Ticking /\ loop'.ts = 0
           \/ StartTick
           \/ \E c \in Chains, hits \in SUBSET loop.due : CloseFromScans(c, hits)
           \/ \E answered \in SUBSET Events : PricesArrive(answered)
           \/ CloseEnds
           \/ \E e \in Events : SkipPath(e) \/ GiveUpPath(e) \/ PostponePath(e) \/ AskCandles(e)
           \/ CandlesArrive
<1>1. ASSUME loop' = Asleep \/ loop' = Waking(0) \/ loop' = [Waking(0) EXCEPT !.at = "down"]
      PROVE  loop'.at \notin Ticking /\ loop'.ts = 0
  BY <1>1 DEF Asleep, Waking, Ticking
<1>2. CASE TickEnds \/ Raises \/ Interrupted \/ Restart
  BY <1>1, <1>2 DEF TickEnds, Raises, PricesRaise, ApplyRaises, Interrupted, Crash, ApplyCrashes,
                    PricesCrash, EnqueueTorn, Restart
<1>3. CASE Clock \/ UNCHANGED vars
  BY <1>3 DEF Clock, vars, history
<1>4. CASE \E e \in Events, sampled \in BOOLEAN : Enqueue(e, sampled)
  BY <1>4 DEF Enqueue, history
<1> QED BY <1>2, <1>3, <1>4 DEF Next, ClosePass, PathPass

LEMMA RowsSweptSteps == ASSUME SInv, [Next]_vars PROVE RowsSwept'
<1> USE DEF SInv
<1>a. /\ loop \in Loop /\ loop.due \subseteq Rows
      /\ \A r \in loop.due : Pending(r)
      /\ loop.at \notin {"closing", "pricing"} => loop.due = {}
  BY DEF IInv, TypeOK, Hands, Loop
<1>1. CASE loop'.at \notin Ticking
  BY <1>1 DEF RowsSwept
<1>2. CASE loop' = loop /\ loop'.at \in Ticking
  BY <1>2, SweepGoesOn
<1>3. CASE StartTick
  <2>1. /\ loop'.due = {r \in Rows : Pending(r) /\ Due(r) <= now} /\ loop'.ts = now
        /\ UNCHANGED <<labels, events>>
    BY <1>3, <1>a DEF StartTick, Loop
  <2>2. ASSUME NEW r \in Rows, r \notin loop'.due, Pending(r)
        PROVE  now - Due(r) <= Grace
    <3>1. Due(r) \in Int /\ ~(Due(r) <= now)
      BY <2>1, <2>2, DueType DEF Pending
    <3> QED BY <3>1, LabelerAssumption DEF IInv, TypeOK
  <2>3. \A r \in Rows : (Pending(r)' <=> Pending(r)) /\ Due(r)' = Due(r)
    BY <2>1 DEF Pending, InTable, Due
  <2> QED BY <2>1, <2>2, <2>3 DEF RowsSwept
<1>4. ASSUME NEW c \in Chains, NEW hits \in SUBSET loop.due, CloseFromScans(c, hits)
      PROVE  RowsSwept'
  <2>1. ASSUME NEW r \in hits PROVE ~Pending(r)'
    <3>1. r \in Rows /\ labels[r] \in Label
      BY <1>a DEF Pending, InTable, IInv, TypeOK
    <3>2. labels'[r] = MarkDone(labels[r], "scan_row")
      BY <1>4, <3>1 DEF CloseFromScans, Update
    <3>3. labels'[r].status = "done"
      BY <3>1, <3>2 DEF MarkDone, Label
    <3> QED BY <3>3 DEF Pending
  <2>2. loop.at = "closing" /\ hits \subseteq DueOn(c)
    BY <1>4 DEF CloseFromScans
  <2>3. CASE loop' = [loop EXCEPT !.at = "pricing", !.chain = c, !.due = @ \ hits]
    <3>1. loop'.at \in Ticking /\ loop'.ts = loop.ts /\ loop'.due = loop.due \ hits
      BY <1>a, <2>3 DEF Loop, Ticking
    <3> QED BY <2>1, <2>2, <3>1, SweepGoesOn DEF Ticking
  <2>4. CASE /\ loop' = [loop EXCEPT !.due = @ \ DueOn(c)]
             /\ DueOn(c) \ hits = {} \/ c \notin configured
    <3>1. loop'.at \in Ticking /\ loop'.ts = loop.ts /\ loop'.due = loop.due \ DueOn(c)
      BY <1>a, <2>2, <2>4 DEF Loop, Ticking
    <3>2. \A r \in loop.due \ loop'.due :
             Pending(r)' => ChainOf[r[1]] \notin configured
      BY <2>1, <2>4, <3>1 DEF DueOn
    <3> QED BY <2>2, <3>1, <3>2, SweepGoesOn DEF Ticking
  <2> QED BY <1>4, <2>3, <2>4 DEF CloseFromScans
<1>5. ASSUME NEW answered \in SUBSET Events, PricesArrive(answered)
      PROVE  RowsSwept'
  <2> DEFINE waiting == DueOn(loop.chain)
  <2>1. loop.at = "pricing" /\ loop'.at = "closing" /\ loop'.ts = loop.ts
        /\ loop'.due = loop.due \ waiting
    BY <1>5, <1>a DEF PricesArrive, SettleRows, Loop
  <2>2. ASSUME NEW r \in waiting, Pending(r)'
        PROVE  loop.ts - Due(r) <= Grace
    <3>1. r \in Rows /\ Pending(r) /\ labels[r] \in Label
      BY <1>a DEF Pending, InTable, IInv, TypeOK, DueOn
    <3>2. \/ labels'[r] = MarkDone(labels[r], "multi_price")
          \/ labels'[r] = Missed(r, labels[r])
      BY <1>5, <3>1 DEF PricesArrive, SettleRows
    <3>3. MarkDone(labels[r], "multi_price").status = "done"
      BY <3>1 DEF MarkDone, Label
    <3>4. GraceOver(r) => Missed(r, labels[r]).status = "failed"
      BY <3>1 DEF Missed, Label
    <3>5. ~GraceOver(r)
      BY <2>2, <3>2, <3>3, <3>4 DEF Pending
    <3>6. Due(r) \in Int /\ loop.ts \in Nat /\ Grace \in Nat
      BY <1>a, <3>1, DueType, LabelerAssumption DEF Pending, Loop
    <3> QED BY <3>5, <3>6 DEF GraceOver
  <2> HIDE DEF waiting
  <2> QED BY <2>1, <2>2, SweepGoesOn DEF Ticking
<1>6. CASE CloseEnds
  <2>1. /\ loop.at = "closing" /\ loop.due = {} /\ loop'.at = "pathing" /\ loop'.ts = loop.ts
    BY <1>6, <1>a DEF CloseEnds, Loop
  <2> QED BY <2>1, SweepGoesOn DEF Ticking
<1>7. ASSUME NEW e \in Events,
             SkipPath(e) \/ GiveUpPath(e) \/ PostponePath(e) \/ AskCandles(e)
      PROVE  RowsSwept'
  <2>1. loop.at = "pathing"
    BY <1>7 DEF SkipPath, GiveUpPath, PostponePath, AskCandles, Worthwhile, Next1st
  <2>2. \/ loop' = [loop EXCEPT !.paths = @ \ {e}]
        \/ loop' = [loop EXCEPT !.at = "candles", !.paths = @ \ {e}, !.current = e]
    BY <1>7 DEF SkipPath, GiveUpPath, PostponePath, AskCandles, SetPaths
  <2>3. loop'.at \in Ticking /\ loop'.ts = loop.ts
    BY <1>a, <2>1, <2>2 DEF Loop, Ticking
  <2> QED BY <1>a, <2>1, <2>3, SweepGoesOn DEF Ticking
<1>8. CASE CandlesArrive
  <2>1. loop.at = "candles" /\ loop' = CandlesDone
    BY <1>8 DEF CandlesArrive, NoCandles, ApplyPath
  <2>2. loop'.at = "pathing" /\ loop'.ts = loop.ts
    BY <1>a, <2>1 DEF CandlesDone, Loop
  <2> QED BY <1>a, <2>1, <2>2, SweepGoesOn DEF Ticking
<1> QED BY <1>1, <1>2, <1>3, <1>4, <1>5, <1>6, <1>7, <1>8, TickSteps

LEMMA PathsSweptSteps == ASSUME SInv, [Next]_vars PROVE PathsSwept'
<1> USE DEF SInv
<1>a. /\ loop \in Loop
      /\ \A e \in Events : <<e, Final>> \in Rows /\ <<e, Final>>[1] = e
  BY FinalIsHorizon DEF IInv, TypeOK, Rows
<1>1. CASE loop'.at \notin {"pathing", "candles"}
  BY <1>1 DEF PathsSwept
<1>2. CASE loop' = loop /\ loop'.at \in {"pathing", "candles"}
  BY <1>2, PathSweepGoesOn
<1>3. CASE StartTick \/ \E c \in Chains, hits \in SUBSET loop.due : CloseFromScans(c, hits)
  <2>1. loop'.at \in {"closing", "pricing"}
    BY <1>3, <1>a DEF StartTick, CloseFromScans, Loop
  <2> QED BY <1>1, <2>1
<1>4. CASE \E answered \in SUBSET Events : PricesArrive(answered)
  <2>1. loop'.at = "closing"
    BY <1>4, <1>a DEF PricesArrive, SettleRows, Loop
  <2> QED BY <1>1, <2>1
<1>5. CASE CloseEnds
  <2>1. /\ loop'.paths = {e \in Events : PathDue(e)} /\ loop'.ts = loop.ts
        /\ UNCHANGED <<labels, events>>
    BY <1>5, <1>a DEF CloseEnds, Loop
  <2>2. ASSUME NEW e \in Events, e \notin loop'.paths, PathPending(e), KindOf[e] \in PathKinds
        PROVE  loop.ts - Due(<<e, Final>>) <= PathDeadline
    <3> DEFINE d == Due(<<e, Final>>)
    <3>1. d \in Int
      BY <1>a, <2>2, DueType DEF PathPending
    <3>2. ~(d <= loop.ts)
      BY <2>1, <2>2 DEF PathDue
    <3> HIDE DEF d
    <3>3. loop.ts - d <= PathDeadline
      BY <1>a, <3>1, <3>2, LabelerAssumption DEF Loop
    <3> QED BY <3>3 DEF d
  <2>3. \A e \in Events : /\ PathPending(e)' <=> PathPending(e)
                          /\ Due(<<e, Final>>)' = Due(<<e, Final>>)
    BY <2>1 DEF PathPending, InTable, Due
  <2> QED BY <2>1, <2>2, <2>3 DEF PathsSwept
<1>6. ASSUME NEW e \in Events,
             SkipPath(e) \/ GiveUpPath(e) \/ PostponePath(e) \/ AskCandles(e)
      PROVE  PathsSwept'
  <2>1. loop.at = "pathing"
    BY <1>6 DEF SkipPath, GiveUpPath, PostponePath, AskCandles, Worthwhile, Next1st
  <2>2. \/ loop' = [loop EXCEPT !.paths = @ \ {e}]
        \/ loop' = [loop EXCEPT !.at = "candles", !.paths = @ \ {e}, !.current = e]
    BY <1>6 DEF SkipPath, GiveUpPath, PostponePath, AskCandles, SetPaths
  <2>3. /\ loop'.at \in {"pathing", "candles"} /\ loop'.ts = loop.ts
        /\ loop'.paths = loop.paths \ {e}
    BY <1>a, <2>1, <2>2 DEF Loop
  <2>4. ASSUME PathPending(e), labels'[<<e, Final>>].path = "pending"
        PROVE  ~Late(e)
    <3>1. CASE PostponePath(e) \/ AskCandles(e)
      BY <3>1 DEF PostponePath, AskCandles, Worthwhile
    <3>2. ASSUME NEW v \in {"failed", "skipped"}, SetPaths(e, v)
          PROVE  FALSE
      <4>1. <<e, Final>> \in RowsOf(e) /\ labels[<<e, Final>>] \in Label
        BY <1>a, <2>4 DEF RowsOf, PathPending, InTable, IInv, TypeOK
      <4>2. labels'[<<e, Final>>] = [labels[<<e, Final>>] EXCEPT !.path = v]
        BY <1>a, <3>2, <4>1 DEF SetPaths, Update
      <4>3. labels'[<<e, Final>>].path = v
        BY <4>1, <4>2 DEF Label
      <4> QED BY <2>4, <4>3
    <3> QED BY <1>6, <3>1, <3>2 DEF SkipPath, GiveUpPath
  <2> QED BY <2>1, <2>3, <2>4, PathSweepGoesOn
<1>7. CASE CandlesArrive
  <2>1. loop.at = "candles" /\ loop' = CandlesDone
    BY <1>7 DEF CandlesArrive, NoCandles, ApplyPath
  <2>2. loop'.at = "pathing" /\ loop'.ts = loop.ts /\ loop'.paths = loop.paths
    BY <1>a, <2>1 DEF CandlesDone, Loop
  <2> QED BY <2>1, <2>2, PathSweepGoesOn
<1>8. Ticking = {"closing", "pricing", "pathing", "candles"}
  BY DEF Ticking
<1> QED BY <1>1, <1>2, <1>3, <1>4, <1>5, <1>6, <1>7, <1>8, TickSteps

-----------------------------------------------------------------------------
\* Only a missed close and an empty answer count as attempts.
SameAttempts ==
    \A e \in Events :
        InTable(<<e, Final>>)' =>
            \/ InTable(<<e, Final>>)
               /\ labels'[<<e, Final>>].attempts = labels[<<e, Final>>].attempts
            \/ ~InTable(<<e, Final>>) /\ labels'[<<e, Final>>].attempts = 0

LEMMA RowsSameAttempts ==
    ASSUME IInv,
           \A r \in Rows :
              \/ labels'[r] = labels[r]
              \/ labels[r] = None /\ labels'[r] = NewLabel
              \/ /\ labels[r] # None
                 /\ \/ labels'[r] = MarkDone(labels[r], "scan_row")
                    \/ \E v \in {"failed", "skipped"} : labels'[r] = [labels[r] EXCEPT !.path = v]
                    \/ labels'[r] = Filled(labels[r])
                    \/ labels'[r] = Unfilled(labels[r])
    PROVE  SameAttempts
<1> SUFFICES ASSUME NEW e \in Events, InTable(<<e, Final>>)'
             PROVE  \/ InTable(<<e, Final>>)
                       /\ labels'[<<e, Final>>].attempts = labels[<<e, Final>>].attempts
                    \/ ~InTable(<<e, Final>>) /\ labels'[<<e, Final>>].attempts = 0
  BY DEF SameAttempts
<1> DEFINE r == <<e, Final>>
<1>1. r \in Rows
  BY FinalIsHorizon DEF Rows
<1> HIDE DEF r
<1>2. labels[r] # None => labels[r] \in Label
  BY <1>1 DEF IInv, TypeOK
<1>3. ASSUME NEW old \in Label
      PROVE  /\ MarkDone(old, "scan_row").attempts = old.attempts
             /\ \A v : [old EXCEPT !.path = v].attempts = old.attempts
             /\ Filled(old).attempts = old.attempts
             /\ Unfilled(old).attempts = old.attempts
  BY <1>3 DEF MarkDone, Filled, Unfilled, Label
<1>4. NewLabel.attempts = 0
  BY DEF NewLabel
<1>5. \/ labels[r] = None /\ (labels'[r] = None \/ labels'[r].attempts = 0)
      \/ labels[r] # None /\ labels'[r].attempts = labels[r].attempts
  <2>1. CASE labels[r] = None
    BY <1>1, <1>4, <2>1
  <2>2. CASE labels[r] # None
    <3>1. labels[r] \in Label
      BY <1>2, <2>2
    <3>2. labels'[r] = labels[r] \/ labels'[r] = MarkDone(labels[r], "scan_row")
          \/ (\E v \in {"failed", "skipped"} : labels'[r] = [labels[r] EXCEPT !.path = v])
          \/ labels'[r] = Filled(labels[r]) \/ labels'[r] = Unfilled(labels[r])
      BY <1>1, <2>2
    <3>3. /\ MarkDone(labels[r], "scan_row").attempts = labels[r].attempts
          /\ \A v : [labels[r] EXCEPT !.path = v].attempts = labels[r].attempts
          /\ Filled(labels[r]).attempts = labels[r].attempts
          /\ Unfilled(labels[r]).attempts = labels[r].attempts
      BY <1>3, <3>1
    <3>4. CASE \E v \in {"failed", "skipped"} : labels'[r] = [labels[r] EXCEPT !.path = v]
      BY <2>2, <3>3, <3>4
    <3> QED BY <2>2, <3>2, <3>3, <3>4
  <2> QED BY <2>1, <2>2
<1> QED BY <1>5 DEF InTable, r

LEMMA AttemptSteps ==
    ASSUME IInv, [Next]_vars
    PROVE  \/ SameAttempts /\ (tries' = tries \/ \E e \in Events : AskCandles(e))
           \/ \E answered \in SUBSET Events, S \in SUBSET DueOn(loop.chain) :
                 SettleRows(answered, S) /\ loop'.at \in {"closing", "down"}
           \/ NoCandles
<1> USE DEF history
<1>0. \A answered \in SUBSET Events :
         \/ PricesArrive(answered)
         \/ \E S \in SUBSET loop.due : PricesCrash(answered, S)
         => \E S \in SUBSET DueOn(loop.chain) :
               SettleRows(answered, S) /\ loop'.at \in {"closing", "down"}
  <2>1. loop \in Loop
    BY DEF IInv, TypeOK
  <2>2. ASSUME NEW answered, PricesArrive(answered) PROVE loop'.at = "closing"
    BY <2>1, <2>2 DEF PricesArrive, Loop
  <2>3. ASSUME NEW answered, NEW S, PricesCrash(answered, S) PROVE loop'.at = "down"
    BY <2>3 DEF PricesCrash, Waking
  <2> QED BY <2>2, <2>3 DEF PricesArrive, PricesCrash
<1>1. ASSUME UNCHANGED labels PROVE SameAttempts
  BY <1>1, RowsSameAttempts
<1>2. ASSUME NEW e \in Events, NEW S \in SUBSET Horizons, NEW sampled, Insert(e, S, sampled)
      PROVE  SameAttempts
  <2>1. ASSUME NEW r \in Rows
        PROVE  labels'[r] = labels[r] \/ (labels[r] = None /\ labels'[r] = NewLabel)
    <3>1. labels'[r] = IF r[1] = e /\ r[2] \in S THEN NewLabel ELSE labels[r]
      BY <1>2 DEF Insert
    <3>2. r[1] = e => labels[r] = None
      BY <1>2 DEF Insert, InTable, IInv
    <3> QED BY <3>1, <3>2
  <2> QED BY <2>1, RowsSameAttempts
<1>3. ASSUME NEW c \in Chains, NEW hits \in SUBSET loop.due, CloseFromScans(c, hits)
      PROVE  SameAttempts
  <2>1. \A r \in Rows : labels'[r] = IF r \in hits THEN MarkDone(labels[r], "scan_row")
                                                   ELSE labels[r]
    BY <1>3 DEF CloseFromScans, Update
  <2>2. \A r \in hits : labels[r] # None
    BY DEF IInv, Hands, Pending, InTable
  <2> QED BY <2>1, <2>2, RowsSameAttempts
<1>4. ASSUME NEW e, NEW v \in {"failed", "skipped"}, SetPaths(e, v)
      PROVE  SameAttempts
  <2>1. \A r \in Rows : labels'[r] = IF r \in RowsOf(e) THEN [labels[r] EXCEPT !.path = v]
                                                        ELSE labels[r]
    BY <1>4 DEF SetPaths, Update
  <2>2. \A r \in RowsOf(e) : labels[r] # None
    BY DEF RowsOf, InTable
  <2> QED BY <2>1, <2>2, RowsSameAttempts
<1>5. ASSUME NEW window, ApplyPath(window)
      PROVE  SameAttempts
  <2>1. \A r \in Rows : \/ labels'[r] = labels[r]
                        \/ /\ labels[r] # None
                           /\ labels'[r] = Filled(labels[r]) \/ labels'[r] = Unfilled(labels[r])
    BY <1>5 DEF ApplyPath, RowsOf, InTable
  <2> QED BY <2>1, RowsSameAttempts
<1>6. ASSUME NEW window, NEW h, ApplyUpTo(window, h)
      PROVE  SameAttempts
  <2>1. \A r \in Rows : \/ labels'[r] = labels[r]
                        \/ labels[r] # None /\ labels'[r] = Filled(labels[r])
    BY <1>6 DEF ApplyUpTo, Update, RowsOf, InTable
  <2> QED BY <2>1, RowsSameAttempts
<1>7. CASE UNCHANGED <<labels, tries>>
  BY <1>1, <1>7
<1>8. CASE ~UNCHANGED <<labels, tries>>
  <2>1. \/ \E e \in Events, S \in SUBSET Horizons, sampled \in BOOLEAN : 
              Insert(e, S, sampled) /\ tries' = tries
        \/ \E c \in Chains, hits \in SUBSET loop.due : CloseFromScans(c, hits)
        \/ \E answered \in SUBSET Events, S \in SUBSET DueOn(loop.chain) :
                 SettleRows(answered, S) /\ loop'.at \in {"closing", "down"}
        \/ NoCandles
        \/ \E e \in Events, v \in {"failed", "skipped"} : SetPaths(e, v)
        \/ \E e \in Events : AskCandles(e)
        \/ \E window \in Windows : ApplyPath(window)
        \/ \E window, h : ApplyUpTo(window, h)
    BY <1>0, <1>8 DEF Next, vars, ClosePass, PathPass, CandlesArrive, Raises, Interrupted,
                Clock, StartTick, CloseEnds, PostponePath, PricesRaise, TickEnds,
                Crash, Restart, Enqueue, EnqueueTorn, SkipPath, GiveUpPath, ApplyRaises,
                ApplyCrashes
  <2>2. CASE \E e \in Events : AskCandles(e)
    BY <1>1, <2>2 DEF AskCandles
  <2>3. \A c, hits : CloseFromScans(c, hits) => tries' = tries
    BY DEF CloseFromScans
  <2>4. \A e, v : SetPaths(e, v) => tries' = tries
    BY DEF SetPaths
  <2>5. \A window, h : ApplyPath(window) \/ ApplyUpTo(window, h) => tries' = tries
    BY DEF ApplyPath, ApplyUpTo
  <2> QED BY <2>1, <2>2, <2>3, <2>4, <2>5, <1>2, <1>3, <1>4, <1>5, <1>6
<1> QED BY <1>7, <1>8

LEMMA MoreMonotone ==
    ASSUME NEW m \in Tries, NEW n \in Tries, m <= n
    PROVE  More(m) <= More(n) /\ n <= More(n)
BY LabelerAssumption DEF More, Tries

LEMMA AttemptsMadeSteps == ASSUME SInv, [Next]_vars PROVE AttemptsMade'
<1> USE DEF SInv
<1>a. /\ loop \in Loop /\ MaxPathAttempts \in Nat /\ tries \in [Events -> Tries]
      /\ \A e \in Events : <<e, Final>> \in Rows
      /\ \A e \in Events : tries[e] \in Tries
      /\ \A e \in Events : InTable(<<e, Final>>) =>
            /\ labels[<<e, Final>>] \in Label /\ labels[<<e, Final>>].attempts \in Tries
            /\ labels[<<e, Final>>].attempts <= tries[e]
  <2>1. \A e \in Events : InTable(<<e, Final>>) => labels[<<e, Final>>] \in Label
    BY FinalIsHorizon DEF IInv, TypeOK, Rows, InTable
  <2> QED BY <2>1, FinalIsHorizon, LabelerAssumption
          DEF IInv, TypeOK, Rows, Tries, Label, AttemptsMade
<1>b. loop.at = "candles" =>
         /\ loop.current \in Events /\ InTable(<<loop.current, Final>>)
         /\ More(labels[<<loop.current, Final>>].attempts) <= tries[loop.current]
  BY DEF IInv, Hands, AttemptsMade
<1>c. \A e \in Events : InTable(<<e, Final>>) => InTable(<<e, Final>>)'
  BY <1>a, StepsMove, RowsStay
<1>1. ASSUME SameAttempts,
             \A e \in Events : tries'[e] = tries[e] \/ tries'[e] = More(tries[e])
      PROVE  \A e \in Events : InTable(<<e, Final>>)' =>
                                  labels'[<<e, Final>>].attempts <= tries'[e]
  <2> SUFFICES ASSUME NEW e \in Events, InTable(<<e, Final>>)'
               PROVE  labels'[<<e, Final>>].attempts <= tries'[e]
    OBVIOUS
  <2>1. tries[e] \in Tries /\ tries'[e] \in Tries /\ tries[e] <= tries'[e]
    BY <1>a, <1>1, MoreType, MoreMonotone DEF Tries
  <2>2. CASE InTable(<<e, Final>>)
    <3>1. labels'[<<e, Final>>].attempts = labels[<<e, Final>>].attempts
      BY <1>1, <2>2 DEF SameAttempts
    <3>2. labels[<<e, Final>>].attempts \in Tries /\ labels[<<e, Final>>].attempts <= tries[e]
      BY <1>a, <2>2
    <3> QED BY <2>1, <3>1, <3>2 DEF Tries
  <2>3. CASE ~InTable(<<e, Final>>)
    <3>1. labels'[<<e, Final>>].attempts = 0
      BY <1>1, <2>3 DEF SameAttempts
    <3> QED BY <2>1, <3>1 DEF Tries
  <2> QED BY <2>2, <2>3
<1>2. CASE SameAttempts /\ tries' = tries /\ loop'.at # "candles"
  BY <1>1, <1>2 DEF AttemptsMade
<1>3. CASE SameAttempts /\ tries' = tries /\ loop' = loop
  <2>1. ASSUME loop.at = "candles"
        PROVE  More(labels'[<<loop.current, Final>>].attempts) <= tries[loop.current]
    <3>1. labels'[<<loop.current, Final>>].attempts = labels[<<loop.current, Final>>].attempts
      BY <1>b, <1>c, <1>3, <2>1 DEF SameAttempts
    <3> QED BY <1>b, <2>1, <3>1
  <2> QED BY <1>1, <1>3, <2>1 DEF AttemptsMade, InTable
<1>4. ASSUME NEW e \in Events, AskCandles(e), SameAttempts
      PROVE  AttemptsMade'
  <2>1. /\ tries' = [tries EXCEPT ![e] = More(tries[e])] /\ labels' = labels
        /\ e \in loop.paths
        /\ loop' = [loop EXCEPT !.at = "candles", !.paths = @ \ {e}, !.current = e]
    BY <1>4 DEF AskCandles, Worthwhile, Next1st
  <2>2. loop'.current = e
    BY <1>a, <2>1 DEF Loop
  <2>3. InTable(<<e, Final>>)
    BY <2>1 DEF IInv, Hands
  <2>4. tries'[e] = More(tries[e])
    BY <1>a, <2>1
  <2>5. More(labels[<<e, Final>>].attempts) <= More(tries[e])
    BY <1>a, <2>3, MoreMonotone
  <2>6. \A f \in Events : tries'[f] = tries[f] \/ tries'[f] = More(tries[f])
    BY <1>a, <2>1
  <2>7. \A f \in Events : InTable(<<f, Final>>)' => labels'[<<f, Final>>].attempts <= tries'[f]
    BY <1>1, <1>4, <2>6
  <2> QED BY <2>1, <2>2, <2>4, <2>5, <2>7 DEF AttemptsMade, InTable
<1>5. ASSUME NEW answered \in SUBSET Events, NEW S \in SUBSET DueOn(loop.chain),
             SettleRows(answered, S), loop'.at \in {"closing", "down"}
      PROVE  AttemptsMade'
  <2>2. \A r \in S : r \in Rows /\ Pending(r)
    BY DEF IInv, Hands, DueOn, TypeOK, Loop
  <2>3. ASSUME NEW e \in Events, InTable(<<e, Final>>)'
        PROVE  labels'[<<e, Final>>].attempts <= tries'[e]
    <3> DEFINE r == <<e, Final>>
    <3>0. r \in Rows /\ r[1] = e /\ r[2] = Final
      BY <1>a
    <3>1. /\ labels'[r] = IF r \notin S THEN labels[r]
                          ELSE IF e \in answered THEN MarkDone(labels[r], "multi_price")
                          ELSE Missed(r, labels[r])
          /\ tries'[e] = IF r \in S /\ e \notin answered THEN More(tries[e]) ELSE tries[e]
      BY <1>5, <3>0 DEF SettleRows
    <3>2. InTable(r)
      BY <2>2, <2>3, <3>1 DEF InTable, Pending
    <3>3. /\ labels[r] \in Label /\ labels[r].attempts \in Tries /\ labels[r].attempts <= tries[e]
          /\ tries[e] \in Tries
      BY <1>a, <3>2
    <3>4. MarkDone(labels[r], "multi_price").attempts = labels[r].attempts
      BY <3>3 DEF MarkDone, Label
    <3>5. Missed(r, labels[r]).attempts = More(labels[r].attempts)
      BY <3>0, <3>3 DEF Missed, Label
    <3>6. More(labels[r].attempts) <= More(tries[e])
      BY <3>3, MoreMonotone
    <3> QED BY <3>1, <3>3, <3>4, <3>5, <3>6
  <2> QED BY <1>5, <2>3 DEF AttemptsMade
<1>6. CASE NoCandles
  <2>1. PICK f \in Events : f = loop.current /\ InTable(<<f, Final>>)
    BY <1>b, <1>6 DEF NoCandles
  <2>2. /\ tries' = tries /\ loop'.at = "pathing"
        /\ More(labels[<<f, Final>>].attempts) <= tries[f]
    BY <1>a, <1>b, <1>6, <2>1 DEF NoCandles, CandlesDone, history, Loop
  <2>3. labels' = [r \in Rows |-> IF r = <<f, Final>> THEN [labels[r] EXCEPT !.attempts = More(@)]
                                                      ELSE labels[r]]
    BY <1>6, <2>1 DEF NoCandles, Update
  <2>4. labels'[<<f, Final>>] = [labels[<<f, Final>>] EXCEPT !.attempts = More(@)]
    BY <1>a, <2>3
  <2>5. labels'[<<f, Final>>].attempts = More(labels[<<f, Final>>].attempts)
    BY <1>a, <2>1, <2>4 DEF Label
  <2>6. \A e \in Events : e # f => labels'[<<e, Final>>] = labels[<<e, Final>>]
    BY <1>a, <2>3
  <2>7. ASSUME NEW e \in Events, InTable(<<e, Final>>)'
        PROVE  labels'[<<e, Final>>].attempts <= tries[e]
    <3>1. CASE e = f
      BY <2>2, <2>5, <3>1
    <3>2. CASE e # f
      BY <1>a, <2>6, <2>7, <3>2 DEF InTable
    <3> QED BY <3>1, <3>2
  <2> QED BY <2>2, <2>7 DEF AttemptsMade
<1>7. SameAttempts /\ tries' = tries => AttemptsMade'
  <2>1. CASE loop' = loop
    BY <1>3, <2>1
  <2>2. CASE loop'.at \notin Ticking
    BY <1>2, <2>2 DEF Ticking
  <2>3. CASE StartTick \/ \E c \in Chains, hits \in SUBSET loop.due : CloseFromScans(c, hits)
    <3>1. loop'.at \in {"closing", "pricing"}
      BY <2>3, <1>a DEF StartTick, CloseFromScans, Loop
    <3> QED BY <1>2, <3>1
  <2>4. CASE \E answered \in SUBSET Events : PricesArrive(answered)
    <3>1. loop'.at = "closing"
      BY <2>4, <1>a DEF PricesArrive, Loop
    <3> QED BY <1>2, <3>1
  <2>5. CASE CloseEnds \/ CandlesArrive
    <3>1. loop'.at = "pathing"
      BY <2>5, <1>a DEF CloseEnds, CandlesArrive, NoCandles, ApplyPath, CandlesDone, Loop
    <3> QED BY <1>2, <3>1
  <2>6. ASSUME NEW e \in Events, SkipPath(e) \/ GiveUpPath(e) \/ PostponePath(e)
        PROVE  SameAttempts /\ tries' = tries => AttemptsMade'
    <3>1. loop'.at = "pathing"
      BY <2>6, <1>a DEF SkipPath, GiveUpPath, PostponePath, SetPaths, Worthwhile, Next1st, Loop
    <3> QED BY <1>2, <3>1
  <2> QED BY <1>4, <2>1, <2>2, <2>3, <2>4, <2>5, <2>6, TickSteps
<1> QED BY <1>4, <1>5, <1>6, <1>7, AttemptSteps

LEMMA InitSInv == Init => SInv
<1> SUFFICES ASSUME Init PROVE SInv
  OBVIOUS
<1>1. loop.at = "asleep" /\ loop.ts = 0 /\ now = 0
  BY DEF Init, Waking
<1>2. \A e \in Events : ~InTable(<<e, Final>>)
  BY FinalIsHorizon DEF Init, InTable, Rows
<1> QED BY <1>1, <1>2, InitIInv DEF SInv, RowsSwept, PathsSwept, AttemptsMade, Ticking

LEMMA StepSInv == ASSUME SInv, [Next]_vars PROVE SInv'
<1>1. IInv'
  BY StepIInv DEF SInv
<1>2. loop'.ts <= now'
  <2> USE DEF SInv
  <2>0. loop \in Loop /\ loop.ts \in Nat /\ now \in Nat /\ now' \in Nat /\ now <= now'
    BY EventsKept DEF IInv, TypeOK, Loop
  <2>1. loop'.ts \in {0, now, loop.ts}
    <3>1. CASE StartTick \/ CloseEnds \/ CandlesArrive
      BY <2>0, <3>1 DEF StartTick, CloseEnds, CandlesArrive, NoCandles, ApplyPath, CandlesDone,
                        Loop
    <3>3. CASE \E c \in Chains, hits \in SUBSET loop.due : CloseFromScans(c, hits)
      BY <2>0, <3>3 DEF CloseFromScans, Loop
    <3>4. CASE \E answered \in SUBSET Events : PricesArrive(answered)
      BY <2>0, <3>4 DEF PricesArrive, Loop
    <3>2. CASE \E e \in Events : SkipPath(e) \/ GiveUpPath(e) \/ PostponePath(e) \/ AskCandles(e)
      BY <2>0, <3>2 DEF SkipPath, GiveUpPath, PostponePath, AskCandles, SetPaths, Loop
    <3> QED BY <3>1, <3>2, <3>3, <3>4, TickSteps
  <2> QED BY <2>0, <2>1
<1> QED BY <1>1, <1>2, RowsSweptSteps, PathsSweptSteps, AttemptsMadeSteps DEF SInv

LEMMA SInvAlways == Spec => []SInv
BY InitSInv, StepSInv, PTL DEF Spec

\* When a tick ends, no row and no path it could have settled is overdue,
\* whatever the sources answered and the daily cap allowed.
THEOREM TickSettlesHolds == Spec => TickSettles
<1>1. SInv /\ [Next]_vars =>
        [TickEnds =>
          /\ \A r \in Rows : Pending(r) /\ ChainOf[r[1]] \in configured
                        => loop.ts - Due(r) <= Grace
          /\ \A e \in Events : PathPending(e) /\ KindOf[e] \in PathKinds
                        => loop.ts - Due(<<e, Final>>) <= PathDeadline]_vars
  <2> SUFFICES ASSUME SInv, TickEnds
               PROVE  /\ \A r \in Rows : Pending(r) /\ ChainOf[r[1]] \in configured
                                            => loop.ts - Due(r) <= Grace
                      /\ \A e \in Events : PathPending(e) /\ KindOf[e] \in PathKinds
                                            => loop.ts - Due(<<e, Final>>) <= PathDeadline
    OBVIOUS
  <2>1. loop.at = "pathing" /\ loop.paths = {} /\ loop.due = {}
    BY DEF TickEnds, SInv, IInv, Hands
  <2> QED BY <2>1 DEF SInv, RowsSwept, PathsSwept, Ticking
<1> QED BY <1>1, SInvAlways, PTL DEF Spec, TickSettles

\* No path is given up before its deadline without max_path_attempts failures,
\* across restarts and the column the two passes share.
THEOREM GivenUpAfterItsTriesHolds == Spec => GivenUpAfterItsTries
<1>1. SInv /\ [Next]_vars =>
        [\A e \in Events :
          /\ loop.at = "pathing"
          /\ PathPending(e) /\ labels'[<<e, Final>>].path = "failed"
          => tries[e] >= MaxPathAttempts \/ now - Due(<<e, Final>>) > PathDeadline]_vars
  <2> SUFFICES ASSUME SInv, [Next]_vars, NEW e \in Events, loop.at = "pathing",
                      PathPending(e), labels'[<<e, Final>>].path = "failed"
               PROVE  tries[e] >= MaxPathAttempts \/ now - Due(<<e, Final>>) > PathDeadline
    OBVIOUS
  <2> DEFINE r == <<e, Final>>
  <2>1. /\ r \in Rows /\ r[1] = e /\ InTable(r) /\ labels[r] \in Label
        /\ labels[r].path = "pending"
    BY FinalIsHorizon DEF PathPending, Rows, InTable, SInv, IInv, TypeOK
  <2>2. GiveUpPath(e)
    <3>1. CASE UNCHANGED labels
      BY <2>1, <3>1
    <3>2. ASSUME NEW f \in Events, NEW S, NEW sampled, Insert(f, S, sampled) PROVE FALSE
      <4>1. f # e
        BY <2>1, <3>2 DEF Insert, SInv, IInv
      <4>2. labels'[r] = labels[r]
        BY <2>1, <3>2, <4>1 DEF Insert
      <4> QED BY <2>1, <4>2
    <3>3. ASSUME NEW f \in Events, NEW v \in {"failed", "skipped"}, SetPaths(f, v)
          PROVE  f = e /\ v = "failed"
      <4>1. labels'[r] = IF r \in RowsOf(f) THEN [labels[r] EXCEPT !.path = v] ELSE labels[r]
        BY <2>1, <3>3 DEF SetPaths, Update
      <4>2. r \in RowsOf(f)
        BY <2>1, <4>1
      <4>3. labels'[r].path = v
        BY <2>1, <4>1, <4>2 DEF Label
      <4> QED BY <2>1, <4>2, <4>3 DEF RowsOf
    <3>4. CASE ~UNCHANGED labels
      <4>1. \/ \E f \in Events : \E S, sampled : Insert(f, S, sampled)
            \/ \E f \in Events : SkipPath(f) \/ GiveUpPath(f)
        BY <3>4 DEF Next, vars, history, ClosePass, PathPass, CandlesArrive, Raises, Interrupted,
                    Clock, StartTick, CloseEnds, CloseFromScans, PricesArrive, PostponePath,
                    AskCandles, PricesRaise, TickEnds, Crash, Restart, Enqueue, EnqueueTorn,
                    NoCandles, ApplyPath, ApplyRaises, ApplyCrashes, ApplyUpTo, PricesCrash,
                    SettleRows
      <4> QED BY <4>1, <3>2, <3>3 DEF SkipPath, GiveUpPath
    <3> QED BY <3>1, <3>4
  <2>3. Due(r) \in Int /\ loop.ts \in Nat /\ now \in Nat /\ loop.ts <= now
        /\ PathDeadline \in Nat
    BY <2>1, DueType, LabelerAssumption DEF SInv, IInv, TypeOK, Loop
  <2>4. CASE Late(e)
    BY <2>3, <2>4 DEF Late
  <2>5. CASE Exhausted(e)
    <3>1. labels[r].attempts <= tries[e] /\ tries[e] \in Nat /\ labels[r].attempts \in Nat
          /\ MaxPathAttempts \in Nat
      BY <2>1, LabelerAssumption DEF SInv, AttemptsMade, IInv, TypeOK, Label
    <3> QED BY <2>5, <3>1 DEF Exhausted
  <2> QED BY <2>2, <2>4, <2>5 DEF GiveUpPath
<1> QED BY <1>1, SInvAlways, PTL DEF Spec, GivenUpAfterItsTries

=============================================================================

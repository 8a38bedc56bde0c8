--------------------------- MODULE CandidatesProofs ---------------------------
(***************************************************************************)
(* The candidate manager keeps its promises for every set of tokens, every *)
(* cap, cooldown, stay and timestamp lag.  The argument reads each step as *)
(* one of a few moves of the rows and the active set (first section),      *)
(* proves an inductive invariant move by move, and derives the contract    *)
(* from it.  The last two sections carry this over to the tasks that share *)
(* the manager (module Pipeline): their steps are steps of the manager,    *)
(* and the timestamps they hold over an await cost a token at most MaxLag. *)
(***************************************************************************)
EXTENDS Pipeline, FiniteSetTheorems, TLAPS

-----------------------------------------------------------------------------
\* The moves: what a step does, whichever handler took it.
Updates(k, c) ==
    /\ mem[k] # None /\ c \in Candidate
    /\ Save(k, c)
    /\ UNCHANGED <<now, up, veto>>

Enters(k, c) ==
    /\ mem[k] = None /\ c \in Candidate
    /\ veto[k] <= now
    /\ Cardinality(ActiveOn(ChainOf[k])) < MaxPerChain
    /\ Save(k, c)
    /\ UNCHANGED <<now, up, veto>>

Swaps(w, k, c, t) ==
    /\ mem[k] = None /\ mem[w] # None /\ c \in Candidate /\ t \in Nat
    /\ veto[k] <= now
    /\ ChainOf[w] = ChainOf[k]
    /\ Full(ChainOf[w]) /\ Weakest(ChainOf[w], w) /\ mem[w].strength < c.strength
    /\ mem' = [mem EXCEPT ![w] = None, ![k] = c]
    /\ rows' = [rows EXCEPT ![w] = RetiredRow("evicted", t), ![k] = ActiveRow(c)]
    /\ UNCHANGED <<now, up, veto>>

IsVetoed(k, t) ==
    /\ mem[k] # None
    /\ t \in 0 .. now /\ now - t <= MaxLag
    /\ mem' = [mem EXCEPT ![k] = None]
    /\ rows' = [rows EXCEPT ![k] = RetiredRow("vetoed", t)]
    /\ veto' = [veto EXCEPT ![k] = t + VetoCooldown]
    /\ UNCHANGED <<now, up>>

Expires == Expire(now) /\ UNCHANGED <<now, up>>

CrashesEvicting(w, t) ==
    /\ mem[w] # None /\ t \in Nat
    /\ Full(ChainOf[w]) /\ Weakest(ChainOf[w], w)
    /\ rows' = [rows EXCEPT ![w] = RetiredRow("evicted", t)]
    /\ LoseMemory
    /\ UNCHANGED now

Crashes == Crash /\ UNCHANGED now

Move ==
    \/ Tick
    \/ up /\ \E k \in Tokens, c \in Candidate : Updates(k, c) \/ Enters(k, c)
    \/ up /\ \E w, k \in Tokens, c \in Candidate, t \in Nat : Swaps(w, k, c, t)
    \/ up /\ \E k \in Tokens, t \in Nat : IsVetoed(k, t)
    \/ up /\ Expires
    \/ up /\ \E w \in Tokens, t \in Nat : CrashesEvicting(w, t)
    \/ up /\ Crashes
    \/ Recover
    \/ UNCHANGED vars

\* A strength is a whole number of tenths.
LEMMA StrengthType ==
  ASSUME NEW rvol \in RVols \cup {None}, NEW ofi \in OFIs \cup {None}
  PROVE  StrengthOf(rvol, ofi) \in Int
<1> DEFINE r == IF rvol = None THEN 1 ELSE rvol
           f == 10 + (IF ofi = None THEN 0 ELSE IF ofi < -9 THEN -9 ELSE ofi)
<1>1. r \in Int
  <2>1. CASE rvol = None
    BY <2>1
  <2>2. CASE rvol \in RVols
    BY <2>2, CandidatesAssumption
  <2> QED
    BY <2>1, <2>2
<1>2. f \in Int
  <2>1. CASE ofi = None
    BY <2>1
  <2>2. CASE ofi \in OFIs
    BY <2>2, CandidatesAssumption
  <2> QED
    BY <2>1, <2>2
<1> HIDE DEF r, f
<1>3. r * f \in Int
  BY <1>1, <1>2
<1> QED
  BY <1>3 DEF StrengthOf, r, f

\* The timestamps a handler may carry lie in the past, at most MaxLag back.
LEMMA StampRange ==
  ASSUME now \in Nat, NEW t \in Stamps
  PROVE  t \in 0 .. now /\ now - t <= MaxLag
  BY CandidatesAssumption DEF Stamps

\* Each outcome of on_nomination is a move.
LEMMA NominationMoves ==
  ASSUME TypeOK, up, UNCHANGED <<now, up>>, NEW k \in Tokens, NEW t \in Stamps,
         NEW rvol \in RVols \cup {None}, OnNomination(k, rvol, t)
  PROVE  Move
<1>1. t \in 0 .. now /\ now - t <= MaxLag
  BY StampRange DEF TypeOK
<1>2. NewCandidate(rvol, t) \in Candidate
  <2>1. StrengthOf(rvol, None) \in Int
    BY StrengthType
  <2> QED
    BY <1>1, <2>1 DEF NewCandidate, Candidate
<1>3. ~Blocked(k, t) => veto[k] <= now
  BY <1>1 DEF Blocked, TypeOK
<1>4. CASE BlockedCooldown(k, t) \/ RejectedCap(k, rvol, t)
  BY <1>4 DEF BlockedCooldown, RejectedCap, Move, vars
<1>5. CASE Refreshed(k, rvol, t)
  <2> DEFINE s == StrengthOf(rvol, mem[k].ofi)
             d == [mem[k] EXCEPT !.last = t, !.rvol = rvol,
                      !.strength = IF mem[k].strength >= s THEN mem[k].strength ELSE s]
  <2>1. mem[k] \in Candidate
    BY <1>5 DEF Refreshed, TypeOK
  <2>2. s \in Int
    BY <2>1, StrengthType DEF Candidate
  <2>3. d \in Candidate
    <3> DEFINE m == IF mem[k].strength >= s THEN mem[k].strength ELSE s
    <3>1. m \in Int
      BY <2>1, <2>2 DEF Candidate
    <3> HIDE DEF m, s
    <3>2. t \in Nat
      BY <1>1
    <3>3. ASSUME NEW e \in Candidate
          PROVE  [e EXCEPT !.last = t, !.rvol = rvol, !.strength = m] \in Candidate
      BY <3>1, <3>2 DEF Candidate
    <3> QED
      BY <2>1, <3>3 DEF m
  <2>4. Updates(k, d)
    BY <1>5, <2>3 DEF Refreshed, Updates
  <2> QED
    BY <2>3, <2>4 DEF Move
<1>6. CASE Entered(k, rvol, t)
  <2>1. IsFiniteSet(ActiveOn(ChainOf[k]))
    BY CandidatesAssumption, FS_Subset DEF ActiveOn, Active
  <2>2. Cardinality(ActiveOn(ChainOf[k])) < MaxPerChain
    BY <1>6, <2>1, CandidatesAssumption, FS_CardinalityType DEF Entered, Full
  <2>3. Enters(k, NewCandidate(rvol, t))
    BY <1>2, <1>3, <1>6, <2>2 DEF Entered, Enters
  <2> QED
    BY <1>2, <2>3 DEF Move
<1>7. CASE EnteredEvicting(k, rvol, t)
  <2>1. PICK w \in Tokens :
           /\ Displaces(k, rvol, t, w)
           /\ mem' = [mem EXCEPT ![w] = None, ![k] = NewCandidate(rvol, t)]
           /\ rows' = [rows EXCEPT ![w] = RetiredRow("evicted", t),
                                   ![k] = ActiveRow(NewCandidate(rvol, t))]
           /\ UNCHANGED veto
    BY <1>7 DEF EnteredEvicting
  <2>2. /\ mem[k] = None /\ mem[w] # None /\ ChainOf[w] = ChainOf[k]
        /\ Full(ChainOf[w]) /\ Weakest(ChainOf[w], w) /\ ~Blocked(k, t)
    BY <2>1 DEF Displaces, ActiveOn, Active
  <2>4. mem[w].strength < NewCandidate(rvol, t).strength
    BY <2>1 DEF Displaces, Beats, NewCandidate
  <2>5. Swaps(w, k, NewCandidate(rvol, t), t)
    BY <1>1, <1>2, <1>3, <2>1, <2>2, <2>4 DEF Swaps
  <2>3. t \in Nat
    BY <1>1
  <2> QED
    BY <1>2, <2>5, <2>3 DEF Move
<1> QED
  BY <1>4, <1>5, <1>6, <1>7 DEF OnNomination

\* So is each outcome of a STAY check and of a stage-2 result.
LEMMA EvidenceMoves ==
  ASSUME TypeOK, up, UNCHANGED <<now, up>>, NEW k \in Tokens, NEW t \in Stamps,
         NEW rvol \in RVols \cup {None}, NEW ofi \in OFIs \cup {None},
         \/ OnStage1Row(k, rvol, t) \/ OnTapeInactive(k)
         \/ OnTapeVetoed(k, ofi, t) \/ OnTapeStays(k, ofi, t)
  PROVE  Move
<1>1. t \in 0 .. now /\ now - t <= MaxLag
  BY StampRange DEF TypeOK
<1>2. ASSUME mem[k] # None
      PROVE  /\ mem[k] \in Candidate
             /\ [mem[k] EXCEPT !.last = t] \in Candidate
             /\ Polled(mem[k], ofi) \in Candidate
             /\ [Polled(mem[k], ofi) EXCEPT !.last = t] \in Candidate
  <2>1. mem[k] \in Candidate
    BY <1>2 DEF TypeOK
  <2>2. StrengthOf(mem[k].rvol, ofi) \in Int
    BY <2>1, StrengthType DEF Candidate
  <2>3. Polled(mem[k], ofi) \in Candidate
    <3> DEFINE s == StrengthOf(mem[k].rvol, ofi)
    <3> HIDE DEF s
    <3>1. [mem[k] EXCEPT !.ofi = ofi, !.strength = s, !.polls = 1] \in Candidate
      BY <2>1, <2>2 DEF Candidate, s
    <3> QED
      BY <3>1 DEF Polled, s
  <2>4. ASSUME NEW d \in Candidate
        PROVE  [d EXCEPT !.last = t] \in Candidate
    BY <1>1 DEF Candidate
  <2> QED
    BY <2>1, <2>3, <2>4
<1>3. CASE OnStage1Row(k, rvol, t)
  <2> DEFINE d == IF Stays(rvol, StayRVol) THEN [mem[k] EXCEPT !.last = t] ELSE mem[k]
  <2>1. d \in Candidate /\ Updates(k, d)
    BY <1>2, <1>3 DEF OnStage1Row, Updates
  <2> QED
    BY <2>1 DEF Move
<1>4. CASE OnTapeInactive(k)
  BY <1>4 DEF OnTapeInactive, Move, vars
<1>5. CASE OnTapeVetoed(k, ofi, t)
  <2>1. IsVetoed(k, t)
    BY <1>1, <1>5 DEF OnTapeVetoed, IsVetoed
  <2>2. t \in Nat
    BY <1>1
  <2> QED
    BY <2>1, <2>2 DEF Move
<1>6. CASE OnTapeStays(k, ofi, t)
  <2> DEFINE d == IF Stays(ofi, StayOFI) THEN [Polled(mem[k], ofi) EXCEPT !.last = t]
                  ELSE Polled(mem[k], ofi)
  <2>1. d \in Candidate /\ Updates(k, d)
    BY <1>2, <1>6 DEF OnTapeStays, Updates
  <2> QED
    BY <2>1 DEF Move
<1> QED
  BY <1>3, <1>4, <1>5, <1>6

\* Every step of the manager is a move.
LEMMA StepsAreMoves ==
  ASSUME TypeOK, [Next]_vars
  PROVE  Move
<1>1. CASE Tick
  BY <1>1 DEF Move
<1>2. CASE Step
  <2>1. ASSUME NEW k \in Tokens, NEW t \in Stamps, Handle(k, t)
        PROVE  Move
    <3>0. \A rvol \in RVols \cup {None} : OnNomination(k, rvol, t) => Move
      BY <1>2, <2>1, NominationMoves DEF Step
    <3>1. \A rvol \in RVols \cup {None} : OnStage1Row(k, rvol, t) => Move
      BY <1>2, <2>1, EvidenceMoves DEF Step
    <3>2. \A ofi \in OFIs \cup {None} :
             OnTapeVetoed(k, ofi, t) \/ OnTapeStays(k, ofi, t) => Move
      BY <1>2, <2>1, EvidenceMoves DEF Step
    <3>3. OnTapeInactive(k) => Move
      BY <1>2, <2>1, EvidenceMoves DEF Step
    <3> QED
      BY <2>1, <3>0, <3>1, <3>2, <3>3 DEF Handle
  <2>2. CASE Expire(now)
    BY <1>2, <2>2 DEF Step, Expires, Move
  <2> QED
    BY <1>2, <2>1, <2>2 DEF Step
<1>3. CASE Fail
  <2>1. CASE Crash
    BY <1>3, <2>1 DEF Fail, Crashes, Move
  <2>2. ASSUME NEW k \in Tokens, NEW t \in Stamps, NEW rvol \in RVols \cup {None},
               CrashAfterEviction(k, rvol, t)
        PROVE  Move
    <3>1. PICK w \in Tokens :
             /\ Displaces(k, rvol, t, w)
             /\ rows' = [rows EXCEPT ![w] = RetiredRow("evicted", t)]
             /\ LoseMemory
      BY <2>2 DEF CrashAfterEviction
    <3>2. t \in Nat
      BY CandidatesAssumption, StampRange DEF TypeOK
    <3>3. CrashesEvicting(w, t)
      BY <1>3, <3>1, <3>2 DEF Fail, Displaces, ActiveOn, Active, CrashesEvicting
    <3> QED
      BY <1>3, <3>2, <3>3 DEF Fail, Move
  <2> QED
    BY <1>3, <2>1, <2>2 DEF Fail
<1>4. CASE Recover
  BY <1>4 DEF Move
<1>5. CASE UNCHANGED vars
  BY <1>5 DEF Move
<1> QED
  BY <1>1, <1>2, <1>3, <1>4, <1>5 DEF Next

-----------------------------------------------------------------------------
\* Rows written by _save and by _retire are rows.
LEMMA RowTypes ==
  /\ \A c \in Candidate : ActiveRow(c) \in Row
  /\ \A s \in {"evicted", "expired", "vetoed"}, t \in Nat : RetiredRow(s, t) \in Row
  BY DEF ActiveRow, RetiredRow, Row, Status

\* What the status of a row says about its other field.
LEMMA RowShape ==
  ASSUME NEW r \in Row
  PROVE  IF r.status = "active"
         THEN r.cand \in Candidate /\ r = ActiveRow(r.cand)
         ELSE r.last \in Nat /\ r.status \in {"evicted", "expired", "vetoed"}
  BY DEF Row, Status, ActiveRow

\* The state keeps its type in every move.
LEMMA MoveType ==
  ASSUME TypeOK, Move
  PROVE  TypeOK'
<1> USE CandidatesAssumption, RowTypes
<1>1. CASE Tick
  BY <1>1 DEF Tick, TypeOK
<1>2. ASSUME NEW k \in Tokens, NEW c \in Candidate, Updates(k, c) \/ Enters(k, c)
      PROVE  TypeOK'
  BY <1>2 DEF Updates, Enters, Save, TypeOK
<1>3. ASSUME NEW w \in Tokens, NEW k \in Tokens, NEW c \in Candidate, NEW t \in Nat,
             Swaps(w, k, c, t)
      PROVE  TypeOK'
  BY <1>3 DEF Swaps, TypeOK
<1>4. ASSUME NEW k \in Tokens, NEW t \in Nat, IsVetoed(k, t)
      PROVE  TypeOK'
  BY <1>4 DEF IsVetoed, TypeOK
<1>5. CASE Expires
  BY <1>5 DEF Expires, Expire, TypeOK
<1>6. ASSUME NEW w \in Tokens, NEW t \in Nat, CrashesEvicting(w, t)
      PROVE  TypeOK'
  BY <1>6 DEF CrashesEvicting, LoseMemory, TypeOK
<1>7. CASE Crashes
  BY <1>7 DEF Crashes, Crash, LoseMemory, TypeOK
<1>8. CASE Recover
  <2>1. \A k \in Tokens : HasStatus(k, "active") => rows[k].cand \in Candidate
    BY RowShape, NoneAssumption DEF HasStatus, TypeOK
  <2>2. \A k \in Tokens : HasStatus(k, "vetoed") => rows[k].last \in Nat
    BY RowShape, NoneAssumption DEF HasStatus, TypeOK
  <2>3. \A k \in Tokens : HasStatus(k, "active") => rows[k].cand.last \in Nat
    BY <2>1 DEF Candidate
  <2>4. mem' \in [Tokens -> Candidate \cup {None}]
    BY <1>8, <2>1 DEF Recover, Restart, Resumed, TypeOK
  <2>5. rows' \in [Tokens -> Row \cup {None}]
    BY <1>8, <2>3 DEF Recover, Restart, Stale, TypeOK
  <2>6. veto' \in [Tokens -> Nat]
    BY <1>8, <2>2 DEF Recover, Restart, RearmedVeto, TypeOK
  <2> QED
    BY <1>8, <2>4, <2>5, <2>6 DEF Recover, Restart, TypeOK
<1>9. CASE UNCHANGED vars
  BY <1>9 DEF vars, TypeOK
<1> QED
  BY <1>1, <1>2, <1>3, <1>4, <1>5, <1>6, <1>7, <1>8, <1>9 DEF Move

\* The type invariant of the candidate manager.
THEOREM TypeCorrect == Spec => []TypeOK
<1>1. Init => TypeOK
  BY DEF Init, TypeOK
<1>2. TypeOK /\ [Next]_vars => TypeOK'
  BY StepsAreMoves, MoveType
<1> QED
  BY <1>1, <1>2, PTL DEF Spec

-----------------------------------------------------------------------------
\* The rows follow the active set through every move.
LEMMA MoveMirror ==
  ASSUME TypeOK, RowsMirrorMemory, Move
  PROVE  RowsMirrorMemory'
<1> USE DEF RowsMirrorMemory, Active, HasStatus
<1>1. CASE Tick
  BY <1>1 DEF Tick
<1>2. ASSUME up, NEW k \in Tokens, NEW c \in Candidate, Updates(k, c) \/ Enters(k, c)
      PROVE  RowsMirrorMemory'
  BY <1>2, NoneAssumption DEF Updates, Enters, Save, TypeOK
<1>3. ASSUME up, NEW w \in Tokens, NEW k \in Tokens, NEW c \in Candidate, NEW t \in Nat,
             Swaps(w, k, c, t)
      PROVE  RowsMirrorMemory'
  BY <1>3, NoneAssumption DEF Swaps, RetiredRow, TypeOK
<1>4. ASSUME up, NEW k \in Tokens, NEW t \in Nat, IsVetoed(k, t)
      PROVE  RowsMirrorMemory'
  BY <1>4 DEF IsVetoed, RetiredRow, TypeOK
<1>5. ASSUME up, Expires
      PROVE  RowsMirrorMemory'
  BY <1>5 DEF Expires, Expire, RetiredRow, Silent, TypeOK
<1>6. ASSUME NEW w \in Tokens, NEW t \in Nat, CrashesEvicting(w, t)
      PROVE  RowsMirrorMemory'
  BY <1>6 DEF CrashesEvicting, LoseMemory
<1>7. CASE Crashes
  BY <1>7 DEF Crashes, Crash, LoseMemory
<1>8. CASE Recover
  <2>1. ASSUME NEW k \in Tokens, mem'[k] # None
        PROVE  rows'[k] = ActiveRow(mem'[k])
    <3>1. HasStatus(k, "active") /\ ~Stale(k) /\ mem'[k] = rows[k].cand
      BY <1>8, <2>1 DEF Recover, Restart, Resumed
    <3>2. rows'[k] = rows[k]
      BY <1>8, <3>1 DEF Recover, Restart
    <3>3. rows[k] \in Row
      BY <3>1 DEF TypeOK
    <3> QED
      BY <3>1, <3>2, <3>3, RowShape
  <2>2. ASSUME NEW k \in Tokens, mem'[k] = None
        PROVE  ~HasStatus(k, "active")'
    <3>1. CASE HasStatus(k, "active") /\ ~Stale(k)
      <4>1. mem'[k] = rows[k].cand
        BY <1>8, <3>1 DEF Recover, Restart, Resumed
      <4>2. rows[k] \in Row
        BY <3>1 DEF TypeOK
      <4> QED
        BY <2>2, <3>1, <4>1, <4>2, RowShape, NoneAssumption
    <3>2. CASE Stale(k)
      BY <1>8, <3>2 DEF Recover, Restart, RetiredRow
    <3>3. CASE ~HasStatus(k, "active")
      BY <1>8, <3>3 DEF Recover, Restart, Stale
    <3> QED
      BY <3>1, <3>2, <3>3
  <2> QED
    BY <2>1, <2>2
<1>9. CASE UNCHANGED vars
  BY <1>9 DEF vars
<1> QED
  BY <1>1, <1>2, <1>3, <1>4, <1>5, <1>6, <1>7, <1>8, <1>9 DEF Move

\* A veto in its cooldown stays armed through every move.
LEMMA MoveVetoesArmed ==
  ASSUME TypeOK, RowsMirrorMemory, VetoesArmed, Move
  PROVE  VetoesArmed'
<1> USE CandidatesAssumption DEF VetoesArmed, HasStatus
<1>1. CASE Tick
  <2>1. \A k \in Tokens : HasStatus(k, "vetoed") => rows[k].last \in Nat
    BY RowShape, NoneAssumption DEF TypeOK
  <2> QED
    BY <1>1, <2>1 DEF Tick, TypeOK
<1>2. ASSUME up, NEW k \in Tokens, NEW c \in Candidate, Updates(k, c) \/ Enters(k, c)
      PROVE  VetoesArmed'
  BY <1>2 DEF Updates, Enters, Save, ActiveRow, TypeOK
<1>3. ASSUME up, NEW w \in Tokens, NEW k \in Tokens, NEW c \in Candidate, NEW t \in Nat,
             Swaps(w, k, c, t)
      PROVE  VetoesArmed'
  BY <1>3 DEF Swaps, RetiredRow, ActiveRow, TypeOK
<1>4. ASSUME up, NEW k \in Tokens, NEW t \in Nat, IsVetoed(k, t)
      PROVE  VetoesArmed'
  BY <1>4 DEF IsVetoed, RetiredRow, TypeOK
<1>5. ASSUME up, Expires
      PROVE  VetoesArmed'
  BY <1>5 DEF Expires, Expire, RetiredRow, TypeOK
<1>6. ASSUME NEW w \in Tokens, NEW t \in Nat, CrashesEvicting(w, t)
      PROVE  VetoesArmed'
  BY <1>6 DEF CrashesEvicting, LoseMemory
<1>7. CASE Crashes
  BY <1>7 DEF Crashes, Crash, LoseMemory
<1>8. CASE Recover
  <2> SUFFICES ASSUME NEW k \in Tokens, HasStatus(k, "vetoed")',
                      rows'[k].last + VetoCooldown > now'
               PROVE  veto'[k] = rows'[k].last + VetoCooldown
    OBVIOUS
  <2>1. HasStatus(k, "vetoed") /\ rows'[k] = rows[k]
    BY <1>8 DEF Recover, Restart, RetiredRow
  <2>2. rows[k].last \in Nat
    BY <2>1, RowShape, NoneAssumption DEF TypeOK
  <2> QED
    BY <1>8, <2>1, <2>2 DEF Recover, Restart, RearmedVeto, TypeOK
<1>9. CASE UNCHANGED vars
  BY <1>9 DEF vars
<1> QED
  BY <1>1, <1>2, <1>3, <1>4, <1>5, <1>6, <1>7, <1>8, <1>9 DEF Move

\* While the process runs, a chain's active set is its set of active rows.
SameSets == \A ch \in Chains : ActiveOn(ch) = DurablyActive(ch)

\* While the process runs, the rows and the dict name the same candidates.
LEMMA SameActive == TypeOK /\ RowsMirrorMemory /\ up => SameSets
<1> SUFFICES ASSUME TypeOK, RowsMirrorMemory, up, NEW ch \in Chains
             PROVE  ActiveOn(ch) = DurablyActive(ch)
  BY DEF SameSets
<1>1. \A k \in Active : HasStatus(k, "active")
  <2> SUFFICES ASSUME NEW k \in Active
               PROVE  HasStatus(k, "active")
    OBVIOUS
  <2>1. mem[k] \in Candidate /\ rows[k] = ActiveRow(mem[k])
    BY DEF RowsMirrorMemory, Active, TypeOK
  <2>2. rows[k] # None
    BY <2>1, RowTypes, NoneAssumption
  <2> QED
    BY <2>1, <2>2 DEF HasStatus, ActiveRow
<1> QED
  BY <1>1 DEF RowsMirrorMemory, ActiveOn, Active, DurablyActive

\* One more element counts for at most one.
LEMMA OneMore ==
  ASSUME NEW S, IsFiniteSet(S), NEW x
  PROVE  /\ IsFiniteSet(S \cup {x})
         /\ Cardinality(S \cup {x}) <= Cardinality(S) + 1
         /\ Cardinality(S) \in Nat
<1>1. Cardinality(S) \in Nat
  BY FS_CardinalityType
<1>2. IsFiniteSet(S \cup {x})
  BY FS_AddElement
<1>3. CASE x \in S
  BY <1>1, <1>2, <1>3, FS_AddElement
<1>4. CASE x \notin S
  BY <1>1, <1>2, <1>4, FS_AddElement
<1> QED
  BY <1>3, <1>4

\* An element exchanged for another leaves no larger set.
LEMMA OneForOne ==
  ASSUME NEW S, IsFiniteSet(S), NEW w \in S, NEW x
  PROVE  /\ IsFiniteSet((S \ {w}) \cup {x})
         /\ Cardinality((S \ {w}) \cup {x}) <= Cardinality(S)
<1> DEFINE R == S \ {w}
<1>1. IsFiniteSet(R) /\ Cardinality(R) = Cardinality(S) - 1
  BY FS_RemoveElement
<1>2. Cardinality(S) \in Nat
  BY FS_CardinalityType
<1> HIDE DEF R
<1>3. IsFiniteSet(R \cup {x}) /\ Cardinality(R \cup {x}) <= Cardinality(R) + 1
  BY <1>1, OneMore
<1>4. Cardinality(R \cup {x}) \in Nat
  BY <1>3, FS_CardinalityType
<1>5. Cardinality(R \cup {x}) <= Cardinality(S)
  BY <1>1, <1>2, <1>3, <1>4
<1> QED
  BY <1>3, <1>5 DEF R

\* A chain has finitely many active rows.
LEMMA DurablyActiveFinite ==
  ASSUME NEW ch \in Chains
  PROVE  IsFiniteSet(DurablyActive(ch)) /\ Cardinality(DurablyActive(ch)) \in Nat
  BY CandidatesAssumption, FS_Subset, FS_CardinalityType DEF DurablyActive

\* No move takes a chain's rows past the cap: the moves that add a row either
\* saw room or gave up another row of the chain in the same step.
LEMMA MoveDurableCap ==
  ASSUME TypeOK, RowsMirrorMemory, CapRespected, Move, NEW ch \in Chains
  PROVE  Cardinality(DurablyActive(ch)') <= MaxPerChain
<1> DEFINE D == DurablyActive(ch)
<1>1. IsFiniteSet(D) /\ Cardinality(D) \in Nat /\ Cardinality(D) <= MaxPerChain
  BY DurablyActiveFinite DEF CapRespected
<1>2. ASSUME D' \subseteq D
      PROVE  Cardinality(D') <= MaxPerChain
  BY <1>1, <1>2, FS_Subset, FS_CardinalityType, CandidatesAssumption
<1> USE DEF DurablyActive, HasStatus
<1>3. CASE Tick \/ UNCHANGED vars
  BY <1>2, <1>3 DEF Tick, vars
<1>4. ASSUME NEW k \in Tokens, NEW c \in Candidate, Updates(k, c), up
      PROVE  Cardinality(D') <= MaxPerChain
  <2>1. HasStatus(k, "active")
    <3>1. k \in ActiveOn(ChainOf[k]) /\ ChainOf[k] \in Chains
      BY <1>4, CandidatesAssumption DEF Updates, ActiveOn, Active
    <3> QED
      BY <1>4, <3>1, SameActive DEF SameSets
  <2> QED
    BY <1>2, <1>4, <2>1 DEF Updates, Save, TypeOK
<1>5. ASSUME NEW k \in Tokens, NEW c \in Candidate, Enters(k, c), up
      PROVE  Cardinality(D') <= MaxPerChain
  <2>1. CASE ChainOf[k] = ch
    <3>1. Cardinality(D) < MaxPerChain
      BY <1>5, <2>1, SameActive DEF Enters, SameSets
    <3>2. D' \subseteq D \cup {k}
      BY <1>5 DEF Enters, Save, TypeOK
    <3> HIDE DEF D
    <3>3. Cardinality(D \cup {k}) <= Cardinality(D) + 1 /\ IsFiniteSet(D \cup {k})
      BY <1>1, OneMore
    <3>4. /\ Cardinality(D') <= Cardinality(D \cup {k})
          /\ Cardinality(D') \in Nat /\ Cardinality(D \cup {k}) \in Nat
      BY <3>2, <3>3, FS_Subset, FS_CardinalityType
    <3> QED
      BY <1>1, <3>1, <3>3, <3>4, CandidatesAssumption
  <2>2. CASE ChainOf[k] # ch
    BY <1>2, <1>5, <2>2 DEF Enters, Save, TypeOK
  <2> QED
    BY <2>1, <2>2
<1>6. ASSUME NEW w \in Tokens, NEW k \in Tokens, NEW c \in Candidate, NEW t \in Nat,
             Swaps(w, k, c, t), up
      PROVE  Cardinality(D') <= MaxPerChain
  <2>1. CASE ChainOf[k] = ch
    <3>1. w \in D
      BY <1>6, <2>1, SameActive DEF SameSets, Swaps, ActiveOn, Active
    <3>2. D' \subseteq (D \ {w}) \cup {k}
      BY <1>6 DEF Swaps, RetiredRow, TypeOK
    <3> HIDE DEF D
    <3>4. /\ IsFiniteSet((D \ {w}) \cup {k})
          /\ Cardinality((D \ {w}) \cup {k}) <= Cardinality(D)
      BY <1>1, <3>1, OneForOne
    <3>5. /\ Cardinality(D') <= Cardinality((D \ {w}) \cup {k})
          /\ Cardinality(D') \in Nat /\ Cardinality((D \ {w}) \cup {k}) \in Nat
      BY <3>2, <3>4, FS_Subset, FS_CardinalityType
    <3> QED
      BY <1>1, <3>4, <3>5, CandidatesAssumption
  <2>2. CASE ChainOf[k] # ch
    BY <1>2, <1>6, <2>2 DEF Swaps, RetiredRow, TypeOK
  <2> QED
    BY <2>1, <2>2
<1>7. ASSUME NEW k \in Tokens, NEW t \in Nat, IsVetoed(k, t) \/ CrashesEvicting(k, t)
      PROVE  Cardinality(D') <= MaxPerChain
  BY <1>2, <1>7 DEF IsVetoed, CrashesEvicting, RetiredRow, TypeOK
<1>8. CASE Expires \/ Crashes
  BY <1>2, <1>8 DEF Expires, Expire, Crashes, Crash, RetiredRow
<1>9. CASE Recover
  BY <1>2, <1>9 DEF Recover, Restart, RetiredRow
<1> HIDE DEF D
<1> QED
  BY <1>3, <1>4, <1>5, <1>6, <1>7, <1>8, <1>9 DEF Move, D

\* The active set of a process that is not running is empty.
DownIsEmpty == ~up => Active = {}

\* RowsMirrorMemory turns a test of the dict into one of the table, which is
\* what survives a crash; VetoesArmed does the same for the vetoes.
IInv == TypeOK /\ RowsMirrorMemory /\ VetoesArmed /\ CapRespected /\ DownIsEmpty

\* A crash empties the active set and only a start fills it again.
LEMMA MoveDown ==
  ASSUME DownIsEmpty, Move
  PROVE  DownIsEmpty'
  BY DEF DownIsEmpty, Active, Move, Tick, Updates, Enters, Swaps, IsVetoed, Expires,
     CrashesEvicting, Crashes, Crash, LoseMemory, Recover, Restart, vars

\* No move overfills a chain, neither its rows nor its active set.
LEMMA MoveCap ==
  ASSUME IInv, Move
  PROVE  CapRespected'
<1> SUFFICES ASSUME NEW ch \in Chains
             PROVE  /\ Cardinality(ActiveOn(ch)') <= MaxPerChain
                    /\ Cardinality(DurablyActive(ch)') <= MaxPerChain
  BY DEF CapRespected
<1>1. Cardinality(DurablyActive(ch)') <= MaxPerChain
  BY MoveDurableCap DEF IInv
<1>2. TypeOK' /\ RowsMirrorMemory' /\ DownIsEmpty'
  BY MoveType, MoveMirror, MoveDown DEF IInv
<1>3. CASE up'
  <2>1. (TypeOK /\ RowsMirrorMemory /\ up => SameSets)'
    BY SameActive, PTL
  <2>2. ActiveOn(ch)' = DurablyActive(ch)'
    BY <1>2, <1>3, <2>1 DEF SameSets
  <2> QED
    BY <1>1, <2>2
<1>4. CASE ~up'
  <2>1. ActiveOn(ch)' = {}
    BY <1>2, <1>4 DEF DownIsEmpty, ActiveOn
  <2> QED
    BY <1>1, <2>1, FS_EmptySet, CandidatesAssumption
<1> QED
  BY <1>3, <1>4

\* The empty manager satisfies the invariant.
LEMMA InitIInv == Init => IInv
<1> SUFFICES ASSUME Init
             PROVE  IInv
  OBVIOUS
<1> USE DEF Init
<1>1. TypeOK
  BY DEF TypeOK
<1>2. RowsMirrorMemory /\ VetoesArmed /\ DownIsEmpty
  BY DEF RowsMirrorMemory, VetoesArmed, DownIsEmpty, Active, HasStatus
<1>3. \A ch \in Chains : ActiveOn(ch) = {} /\ DurablyActive(ch) = {}
  BY DEF ActiveOn, Active, DurablyActive, HasStatus
<1>4. CapRespected
  BY <1>3, FS_EmptySet, CandidatesAssumption DEF CapRespected
<1> QED
  BY <1>1, <1>2, <1>4 DEF IInv

\* The inductive invariant of the candidate manager: its rows mirror its memory,
\* its vetoes are armed, and no chain is overfull, through crashes and restarts.
THEOREM Invariance == Spec => []IInv
<1>1. IInv /\ [Next]_vars => IInv'
  <2> SUFFICES ASSUME IInv, [Next]_vars
               PROVE  IInv'
    OBVIOUS
  <2>1. Move
    BY StepsAreMoves DEF IInv
  <2> QED
    BY <2>1, MoveType, MoveMirror, MoveVetoesArmed, MoveCap, MoveDown DEF IInv
<1> QED
  BY <1>1, InitIInv, PTL DEF Spec

\* No history of entries, evictions, crashes and restarts puts more than
\* max_per_chain candidates on a chain.
THEOREM CapHolds == Spec => []CapRespected
<1>1. IInv => CapRespected
  BY DEF IInv
<1> QED
  BY <1>1, Invariance, PTL

\* A crash at any point finds the active set in the table.
THEOREM MirrorHolds == Spec => []RowsMirrorMemory
<1>1. IInv => RowsMirrorMemory
  BY DEF IInv
<1> QED
  BY <1>1, Invariance, PTL

\* A restart re-arms exactly the vetoes still in their cooldown.
THEOREM VetoesArmedHolds == Spec => []VetoesArmed
<1>1. IInv => VetoesArmed
  BY DEF IInv
<1> QED
  BY <1>1, Invariance, PTL

-----------------------------------------------------------------------------
LEMMA StatusOfRow ==
  /\ \A c \in Candidate : ActiveRow(c) # None /\ ActiveRow(c).status = "active"
  /\ \A s \in {"evicted", "expired", "vetoed"}, t \in Nat :
        /\ RetiredRow(s, t) # None
        /\ RetiredRow(s, t).status = s /\ RetiredRow(s, t).last = t
<1>1. None \notin Row
  BY NoneAssumption
<1> QED
  BY <1>1, RowTypes DEF ActiveRow, RetiredRow

\* A token whose row says vetoed is not in the active set.
LEMMA VetoedRow ==
  ASSUME TypeOK, RowsMirrorMemory, up, NEW k \in Tokens, HasStatus(k, "vetoed")
  PROVE  mem[k] = None /\ rows[k] \in Row /\ rows[k].last \in Nat
<1>1. rows[k] \in Row /\ rows[k].last \in Nat
  BY RowShape DEF HasStatus, TypeOK
<1>2. ASSUME mem[k] # None
      PROVE  FALSE
  <2>1. mem[k] \in Candidate /\ rows[k] = ActiveRow(mem[k])
    BY <1>2 DEF RowsMirrorMemory, Active, TypeOK
  <2> QED
    BY <2>1, StatusOfRow DEF HasStatus
<1> QED
  BY <1>1, <1>2

\* A token that enters has served any veto its row still records.
LEMMA EntryAfterCooldown ==
  ASSUME IInv, up, NEW k \in Tokens, veto[k] <= now, HasStatus(k, "vetoed")
  PROVE  rows[k].last + VetoCooldown <= now
<1>1. rows[k].last \in Nat /\ now \in Nat /\ veto[k] \in Nat
  BY VetoedRow DEF IInv, TypeOK
<1>2. CASE rows[k].last + VetoCooldown > now
  BY <1>1, <1>2, CandidatesAssumption DEF IInv, VetoesArmed
<1> QED
  BY <1>1, <1>2, CandidatesAssumption

\* A veto outlasts its cooldown whatever else happens to the process.
THEOREM VetoOutlastsCooldownHolds == Spec => VetoOutlastsCooldown
<1> DEFINE Outlasts == \A k \in Tokens :
             HasStatus(k, "vetoed") /\ rows'[k] # rows[k]
               => /\ rows'[k].status = "active"
                  /\ rows[k].last + VetoCooldown <= now
<1>1. IInv /\ [Next]_vars => Outlasts
  <2> SUFFICES ASSUME IInv, Move, NEW k \in Tokens, HasStatus(k, "vetoed"),
                      rows'[k] # rows[k]
               PROVE  rows'[k].status = "active" /\ rows[k].last + VetoCooldown <= now
    BY StepsAreMoves DEF IInv
  <2>0. up => mem[k] = None
    BY VetoedRow DEF IInv
  <2>1. ASSUME up, NEW j \in Tokens, NEW c \in Candidate, Updates(j, c)
        PROVE  FALSE
    BY <2>0, <2>1 DEF Updates, Save, IInv, TypeOK
  <2>2. ASSUME up, NEW j \in Tokens, NEW c \in Candidate, Enters(j, c)
        PROVE  rows'[k].status = "active" /\ rows[k].last + VetoCooldown <= now
    <3>1. j = k
      BY <2>2 DEF Enters, Save, IInv, TypeOK
    <3>2. rows'[k].status = "active" /\ veto[k] <= now
      BY <2>2, <3>1 DEF Enters, Save, ActiveRow, IInv, TypeOK
    <3> QED
      BY <2>2, <3>2, EntryAfterCooldown
  <2>3. ASSUME up, NEW w \in Tokens, NEW j \in Tokens, NEW c \in Candidate, NEW t \in Nat,
               Swaps(w, j, c, t)
        PROVE  rows'[k].status = "active" /\ rows[k].last + VetoCooldown <= now
    <3>1. j = k
      BY <2>0, <2>3 DEF Swaps, IInv, TypeOK
    <3>2. rows'[k].status = "active" /\ veto[k] <= now
      BY <2>3, <3>1 DEF Swaps, ActiveRow, IInv, TypeOK
    <3> QED
      BY <2>3, <3>2, EntryAfterCooldown
  <2>4. ASSUME up, NEW j \in Tokens, NEW t \in Nat, IsVetoed(j, t) \/ CrashesEvicting(j, t)
        PROVE  FALSE
    BY <2>0, <2>4 DEF IsVetoed, CrashesEvicting, IInv, TypeOK
  <2>5. ASSUME up, Expires
        PROVE  FALSE
    BY <2>0, <2>5 DEF Expires, Expire, Silent
  <2>6. CASE Tick \/ Crashes \/ UNCHANGED vars
    BY <2>6 DEF Tick, Crashes, Crash, vars
  <2>7. CASE Recover
    BY <2>7 DEF Recover, Restart, Stale, HasStatus
  <2> QED
    BY <2>1, <2>2, <2>3, <2>4, <2>5, <2>6, <2>7 DEF Move
<1> QED
  BY <1>1, Invariance, PTL DEF Spec, VetoOutlastsCooldown

\* A full chain within its cap holds exactly max_per_chain candidates.
LEMMA FullIsExact ==
  ASSUME IInv, NEW ch \in Chains, Full(ch)
  PROVE  Cardinality(ActiveOn(ch)) = MaxPerChain
<1>1. IsFiniteSet(ActiveOn(ch))
  BY CandidatesAssumption, FS_Subset DEF ActiveOn, Active
<1>2. Cardinality(ActiveOn(ch)) \in Nat
  BY <1>1, FS_CardinalityType
<1>3. Cardinality(ActiveOn(ch)) <= MaxPerChain
  BY DEF IInv, CapRespected
<1> QED
  BY <1>2, <1>3, CandidatesAssumption DEF Full

\* Only the weakest of a full chain is evicted, and a stronger candidate takes
\* its place unless the process dies in between.
THEOREM EvictionKeepsTheStrongHolds == Spec => EvictionKeepsTheStrong
<1> DEFINE Lowest(k) == \A j \in ActiveOn(ChainOf[k]) \ {k} :
                \/ mem[k].strength < mem[j].strength
                \/ mem[k].strength = mem[j].strength /\ mem[k].first <= mem[j].first
           Replaced(k) == \E n \in ActiveOn(ChainOf[k])' \ ActiveOn(ChainOf[k]) :
                              mem'[n].strength > mem[k].strength
           Fair(k) == /\ Cardinality(ActiveOn(ChainOf[k])) = MaxPerChain
                      /\ Lowest(k)
                      /\ up' => Replaced(k)
<1>1. IInv /\ [Next]_vars => \A k \in Tokens : EvictedK(k) => Fair(k)
  <2> SUFFICES ASSUME IInv, Move, NEW k \in Tokens, HasStatus(k, "active"),
                      HasStatus(k, "evicted")'
               PROVE  Fair(k)
    BY StepsAreMoves DEF IInv, EvictedK
  <2>0. /\ TypeOK
        /\ rows'[k] # rows[k] /\ rows'[k] # None /\ rows'[k].status = "evicted"
    BY DEF IInv, HasStatus
  <2>1. ASSUME NEW j \in Tokens, NEW c \in Candidate, Updates(j, c) \/ Enters(j, c)
        PROVE  FALSE
    BY <2>0, <2>1 DEF Updates, Enters, Save, ActiveRow, TypeOK
  <2>2. ASSUME NEW w \in Tokens, NEW j \in Tokens, NEW c \in Candidate, NEW t \in Nat,
               Swaps(w, j, c, t)
        PROVE  Fair(k)
    <3>1. w = k /\ j # k
      BY <2>0, <2>2 DEF Swaps, ActiveRow, TypeOK
    <3>2. Full(ChainOf[k]) /\ Weakest(ChainOf[k], k)
      BY <2>2, <3>1 DEF Swaps
    <3>3. /\ mem[j] = None /\ mem'[j] = c /\ c # None /\ ChainOf[j] = ChainOf[k]
          /\ mem[k].strength < c.strength
      BY <2>0, <2>2, <3>1, NoneAssumption DEF Swaps, TypeOK
    <3>4. mem[k].strength \in Int /\ c.strength \in Int
      <4>1. mem[k] \in Candidate
        BY <2>0, <2>2, <3>1 DEF Swaps, TypeOK
      <4> QED
        BY <2>2, <4>1 DEF Candidate
    <3>5. j \in ActiveOn(ChainOf[k])' \ ActiveOn(ChainOf[k])
      BY <3>3 DEF ActiveOn, Active
    <3>6. mem'[j].strength > mem[k].strength
      BY <3>3, <3>4
    <3>7. ChainOf[k] \in Chains
      BY CandidatesAssumption
    <3>8. Cardinality(ActiveOn(ChainOf[k])) = MaxPerChain
      BY <3>2, <3>7, FullIsExact
    <3>9. Lowest(k)
      BY <3>2 DEF Weakest
    <3> QED
      BY <3>5, <3>6, <3>8, <3>9
  <2>3. ASSUME NEW j \in Tokens, NEW t \in Nat, IsVetoed(j, t)
        PROVE  FALSE
    BY <2>0, <2>3 DEF IsVetoed, RetiredRow, TypeOK
  <2>4. CASE Expires
    BY <2>0, <2>4 DEF Expires, Expire, RetiredRow
  <2>5. ASSUME NEW w \in Tokens, NEW t \in Nat, CrashesEvicting(w, t)
        PROVE  Fair(k)
    <3>1. w = k /\ ~up'
      BY <2>0, <2>5 DEF CrashesEvicting, LoseMemory, TypeOK
    <3>2. Full(ChainOf[k]) /\ Weakest(ChainOf[k], k) /\ ChainOf[k] \in Chains
      BY <2>5, <3>1, CandidatesAssumption DEF CrashesEvicting
    <3>3. Cardinality(ActiveOn(ChainOf[k])) = MaxPerChain
      BY <3>2, FullIsExact
    <3>4. Lowest(k)
      BY <3>2 DEF Weakest
    <3> QED
      BY <3>1, <3>3, <3>4
  <2>6. CASE Tick \/ Crashes \/ UNCHANGED vars
    BY <2>0, <2>6 DEF Tick, Crashes, Crash, vars
  <2>7. CASE Recover
    BY <2>0, <2>7 DEF Recover, Restart, RetiredRow
  <2> HIDE DEF Fair
  <2> QED
    BY <2>1, <2>2, <2>3, <2>4, <2>5, <2>6, <2>7 DEF Move
<1> QED
  BY <1>1, Invariance, PTL DEF Spec, EvictionKeepsTheStrong

-----------------------------------------------------------------------------
\* The members of a chain are its active rows.
LEMMA ContractOn ==
  ASSUME NEW ch \in Chains
  PROVE  Contract!On(ch, Members) = DurablyActive(ch)
  BY DEF Contract!On, Members, DurablyActive

\* An active candidate is a member in the eyes of the contract.
LEMMA ActiveIsMember ==
  ASSUME TypeOK, RowsMirrorMemory, NEW k \in Active, up
  PROVE  k \in Members
<1>1. mem[k] \in Candidate /\ rows[k] = ActiveRow(mem[k]) /\ k \in Tokens
  BY DEF RowsMirrorMemory, Active, TypeOK
<1> QED
  BY <1>1, StatusOfRow DEF Members, HasStatus

\* The manager's entry test implies the contract's.
LEMMA MayEnter ==
  ASSUME IInv, up, NEW k \in Tokens, mem[k] = None, veto[k] <= now
  PROVE  Contract!MayEnter(k)
<1>1. k \notin Members
  BY DEF IInv, RowsMirrorMemory, Members, Active
<1>2. Bars[k] <= now
  BY EntryAfterCooldown DEF Bars, IInv, TypeOK
<1> QED
  BY <1>1, <1>2 DEF Contract!MayEnter

\* The candidate manager implements the contract its callers rely on: crashes
\* are invisible, a restart at most loses members, and no veto is shortened.
THEOREM Refinement == Spec => KeepsContract
<1>1. Init => Contract!Init
  BY DEF Init, Contract!Init, Members, Bars, HasStatus
<1>2. IInv /\ [Next]_vars => [Contract!Next]_(Contract!vars)
  <2> SUFFICES ASSUME IInv, Move
               PROVE  [Contract!Next]_(Contract!vars)
    BY StepsAreMoves DEF IInv
  <2>0. TypeOK
    BY DEF IInv
  <2>1. CASE Tick
    <3>1. Contract!Tick
      BY <2>1 DEF Tick, Contract!Tick, Members, Bars, HasStatus
    <3> QED
      BY <3>1 DEF Contract!Next
  <2>2. ASSUME up, NEW k \in Tokens, NEW c \in Candidate, Updates(k, c)
        PROVE  UNCHANGED Contract!vars
    <3>1. k \in Members
      BY <2>0, <2>2, ActiveIsMember DEF Updates, Active, IInv
    <3>2. HasStatus(k, "active")' /\ \A j \in Tokens : j # k => rows'[j] = rows[j]
      BY <2>0, <2>2, StatusOfRow DEF Updates, Save, TypeOK, HasStatus
    <3>3. Members' = Members /\ Bars' = Bars
      BY <3>1, <3>2 DEF Members, Bars, HasStatus
    <3> QED
      BY <2>2, <3>3 DEF Updates, Contract!vars
  <2>3. ASSUME up, NEW k \in Tokens, NEW c \in Candidate, Enters(k, c)
        PROVE  Contract!Enter(k)
    <3>1. Contract!MayEnter(k)
      BY <2>3, MayEnter DEF Enters
    <3>2. Cardinality(Contract!On(ChainOf[k], Members)) < MaxPerChain
      BY <2>3, ContractOn, SameActive, CandidatesAssumption DEF Enters, SameSets, IInv
    <3>3. HasStatus(k, "active")' /\ \A j \in Tokens : j # k => rows'[j] = rows[j]
      BY <2>0, <2>3, StatusOfRow DEF Enters, Save, TypeOK, HasStatus
    <3>4. Members' = Members \cup {k} /\ Bars' = [Bars EXCEPT ![k] = 0]
      BY <3>3 DEF Members, Bars, HasStatus
    <3>5. now' = now
      BY <2>3 DEF Enters
    <3> QED
      BY <3>1, <3>2, <3>4, <3>5
      DEF Contract!Enter, Contract!Cardinality, Cardinality
  <2>4. ASSUME up, NEW w \in Tokens, NEW k \in Tokens, NEW c \in Candidate, NEW t \in Nat,
               Swaps(w, k, c, t)
        PROVE  Contract!Replace(w, k)
    <3>1. Contract!MayEnter(k)
      BY <2>4, MayEnter DEF Swaps
    <3>2. w \in Members /\ w # k
      BY <2>0, <2>4, ActiveIsMember DEF Swaps, Active, IInv
    <3>3. /\ HasStatus(k, "active")' /\ HasStatus(w, "evicted")'
          /\ \A j \in Tokens \ {k, w} : rows'[j] = rows[j]
      BY <2>0, <2>4, <3>2, StatusOfRow DEF Swaps, TypeOK, HasStatus
    <3>4. Members' = (Members \ {w}) \cup {k} /\ Bars' = [Bars EXCEPT ![k] = 0]
      BY <3>2, <3>3 DEF Members, Bars, HasStatus
    <3> QED
      BY <2>4, <3>1, <3>2, <3>4 DEF Contract!Replace, Swaps
  <2>5. ASSUME up, NEW k \in Tokens, NEW t \in Nat, IsVetoed(k, t)
        PROVE  Contract!Veto(k)
    <3>1. k \in Members
      BY <2>0, <2>5, ActiveIsMember DEF IsVetoed, Active, IInv
    <3>2. /\ HasStatus(k, "vetoed")' /\ rows'[k].last = t
          /\ \A j \in Tokens : j # k => rows'[j] = rows[j]
      BY <2>0, <2>5, StatusOfRow DEF IsVetoed, TypeOK, HasStatus
    <3>3. Members' = Members \ {k} /\ Bars' = [Bars EXCEPT ![k] = t + VetoCooldown]
      BY <3>1, <3>2 DEF Members, Bars, HasStatus
    <3> QED
      BY <2>5, <3>1, <3>3 DEF Contract!Veto, IsVetoed
  <2>6. ASSUME NEW S \in SUBSET Members, UNCHANGED now,
               \A k \in S : rows'[k].status \in {"evicted", "expired"},
               \A k \in Tokens \ S : rows'[k] = rows[k],
               None \notin {rows'[k] : k \in S}
        PROVE  [Contract!Next]_(Contract!vars)
    <3>1. Members' = Members \ S /\ Bars' = Bars
      BY <2>6 DEF Members, Bars, HasStatus
    <3>2. CASE S = {}
      BY <2>6, <3>1, <3>2 DEF Contract!vars
    <3>3. CASE S # {}
      BY <2>6, <3>1, <3>3 DEF Contract!Next, Contract!Leave
    <3> QED
      BY <3>2, <3>3
  <2>7. ASSUME up, Expires
        PROVE  [Contract!Next]_(Contract!vars)
    <3> DEFINE S == {k \in Tokens : Silent(k, now)}
    <3>1. S \in SUBSET Members
      BY <2>0, <2>7, ActiveIsMember DEF Silent, Active, IInv
    <3>2. /\ UNCHANGED now
          /\ \A k \in S : rows'[k] = RetiredRow("expired", now)
          /\ \A k \in Tokens \ S : rows'[k] = rows[k]
      BY <2>7 DEF Expires, Expire
    <3>3. \A k \in S : rows'[k].status = "expired" /\ rows'[k] # None
      BY <2>0, <3>2, StatusOfRow DEF TypeOK
    <3> HIDE DEF S
    <3> QED
      BY <2>6, <3>1, <3>2, <3>3
  <2>8. ASSUME up, NEW w \in Tokens, NEW t \in Nat, CrashesEvicting(w, t)
        PROVE  [Contract!Next]_(Contract!vars)
    <3>1. {w} \in SUBSET Members
      BY <2>0, <2>8, ActiveIsMember DEF CrashesEvicting, Active, IInv
    <3>2. /\ UNCHANGED now
          /\ rows'[w] = RetiredRow("evicted", t)
          /\ \A k \in Tokens \ {w} : rows'[k] = rows[k]
      BY <2>0, <2>8 DEF CrashesEvicting, TypeOK
    <3>3. \A k \in {w} : rows'[k].status = "evicted" /\ rows'[k] # None
      BY <3>2, StatusOfRow
    <3> QED
      BY <2>6, <3>1, <3>2, <3>3
  <2>9. CASE Crashes \/ UNCHANGED vars
    <3>1. now' = now /\ rows' = rows
      BY <2>9 DEF Crashes, Crash, vars
    <3> QED
      BY <3>1 DEF Contract!vars, Members, Bars, HasStatus
  <2>10. CASE Recover
    <3> DEFINE S == {k \in Tokens : Stale(k)}
    <3>1. S \in SUBSET Members
      BY DEF Stale, Members
    <3>2. /\ UNCHANGED now
          /\ \A k \in S : rows'[k] = RetiredRow("expired", rows[k].cand.last)
          /\ \A k \in Tokens \ S : rows'[k] = rows[k]
      BY <2>10 DEF Recover, Restart
    <3>3. \A k \in S : rows[k].cand.last \in Nat
      <4>1. \A k \in S : rows[k] \in Row /\ rows[k].status = "active"
        BY <2>0 DEF Stale, HasStatus, TypeOK
      <4> HIDE DEF S
      <4> QED
        BY <4>1, RowShape DEF Candidate
    <3>4. \A k \in S : rows'[k].status = "expired" /\ rows'[k] # None
      BY <3>2, <3>3, StatusOfRow
    <3> HIDE DEF S
    <3> QED
      BY <2>6, <3>1, <3>2, <3>4
  <2> QED
    BY <2>1, <2>2, <2>3, <2>4, <2>5, <2>7, <2>8, <2>9, <2>10
    DEF Move, Contract!Next
<1> QED
  BY <1>1, <1>2, Invariance, PTL DEF Spec, KeepsContract, Contract!Spec
-----------------------------------------------------------------------------
\* The tasks of the runner (module Pipeline).

\* A timestamp that a task holds over an await is never older than MaxLag
\* when it is used, and the queue holds jobs that have not begun.
Timely ==
    /\ now \in Nat
    /\ PipelineTypeOK
    /\ scan.at # "idle" => scan.ts \in Stamps
    /\ \A i \in 1 .. Len(waiting) : waiting[i].stage = "polling"
    /\ job # None /\ job.stage = "evaluating" => job.ts \in Stamps

LEMMA StampSet ==
  ASSUME now \in Nat, NEW t
  PROVE  t \in Stamps <=> t \in Nat /\ t <= now /\ now - t <= MaxLag
BY CandidatesAssumption DEF Stamps

\* Every step of a task is a step of the manager, or leaves it alone.
LEMMA TasksCallManager ==
  ASSUME Timely, [PipelineNext]_pipelineVars
  PROVE  [Next]_vars
<1> USE DEF Quiet
<1>1. CASE PipelineTick
  BY <1>1 DEF PipelineTick, Next
<1>2. CASE UNCHANGED vars
  BY <1>2
<1>3. ASSUME NEW k \in Tokens, NEW t \in Stamps, up, UNCHANGED <<now, up>>,
             \/ \E rvol \in RVols \cup {None} : OnNomination(k, rvol, t) \/ OnStage1Row(k, rvol, t)
             \/ OnTapeInactive(k)
             \/ \E ofi \in OFIs \cup {None} : OnTapeVetoed(k, ofi, t) \/ OnTapeStays(k, ofi, t)
      PROVE  Next
  <2>1. Handle(k, t)
    BY <1>3 DEF Handle
  <2> QED BY <1>3, <2>1 DEF Next, Step
<1>4. CASE ScanStep
  <2>1. CASE \E k \in Tokens, rvol \in RVols \cup {None} : HandNomination(k, rvol)
    <3>1. PICK k \in Tokens, rvol \in RVols \cup {None} : HandNomination(k, rvol)
      BY <2>1
    <3>2. scan.ts \in Stamps
      BY <3>1 DEF HandNomination, Timely
    <3> QED BY <3>1, <3>2, <1>3 DEF HandNomination
  <2>2. CASE ScanRequest \/ ScanFails \/ ScanDone \/ \E N \in SUBSET Tokens : ScanReturn(N)
    BY <2>2 DEF ScanRequest, ScanFails, ScanDone, ScanReturn
  <2> QED BY <1>4, <2>1, <2>2 DEF ScanStep
<1>5. CASE TapeTick
  BY <1>5 DEF TapeTick, Next, Step
<1>6. CASE JobStep
  <2>1. ASSUME NEW k \in Tokens, NEW ofi \in OFIs \cup {None},
               EvaluateVeto(k, ofi) \/ EvaluateStay(k, ofi)
        PROVE  Next
    <3>1. job.ts \in Stamps
      BY <2>1 DEF EvaluateVeto, EvaluateStay, Evaluating, Timely
    <3>2. /\ up /\ UNCHANGED <<now, up>>
          /\ OnTapeInactive(k) \/ OnTapeVetoed(k, ofi, job.ts) \/ OnTapeStays(k, ofi, job.ts)
      BY <2>1 DEF EvaluateVeto, EvaluateStay, Evaluating
    <3> QED BY <3>1, <3>2, <1>3
  <2>2. CASE \/ TakeLock \/ BeginEvaluation \/ JobEnds
             \/ \E k \in Tokens :
                   \/ PollSkip(k) \/ PollFetch(k) \/ EvaluateNothing(k)
                   \/ \E answer \in {"trades", "empty", "error"} : PollReturn(k, answer)
    BY <2>2 DEF TakeLock, BeginEvaluation, JobEnds, PollSkip, PollFetch, EvaluateNothing,
                PollReturn
  <2> QED BY <1>6, <2>1, <2>2 DEF JobStep
<1>7. CASE \E k \in Tokens, rvol \in RVols \cup {None} : HandStay(k, rvol)
  <2>1. PICK k \in Tokens, rvol \in RVols \cup {None} : HandStay(k, rvol)
    BY <1>7
  <2>2. scan.ts \in Stamps
    BY <2>1 DEF HandStay, Timely
  <2> QED BY <2>1, <2>2, <1>3 DEF HandStay
<1>8. CASE JobRaises
  BY <1>8 DEF JobRaises
<1>9. CASE PipelineCrash
  <2>1. up /\ now' = now
    BY <1>9 DEF PipelineCrash, ForgetTasks
  <2>2. CASE Crash
    BY <2>1, <2>2 DEF Next, Fail
  <2>3. ASSUME NEW k \in scan.noms, NEW rvol \in RVols \cup {None},
               scan.at = "handling", CrashAfterEviction(k, rvol, scan.ts)
        PROVE  Next
    <3>1. scan.ts \in Stamps /\ k \in Tokens
      BY <2>3 DEF Timely, PipelineTypeOK, Scan
    <3> QED BY <2>1, <2>3, <3>1 DEF Next, Fail
  <2> QED BY <1>9, <2>2, <2>3 DEF PipelineCrash
<1>10. CASE PipelineRestart
  BY <1>10 DEF PipelineRestart, Next
<1>11. CASE UNCHANGED pipelineVars
  BY <1>11 DEF pipelineVars
<1> QED BY <1>1, <1>4, <1>5, <1>6, <1>7, <1>8, <1>9, <1>10, <1>11 DEF PipelineNext

\* Each task's own state, step by step.
LEMMA ScanStepsType ==
  ASSUME Timely, ScanStep \/ \E k \in Tokens, rvol \in RVols \cup {None} : HandStay(k, rvol)
  PROVE  Timely'
<1> USE DEF Quiet
<1>0. /\ now \in Nat /\ scan \in Scan /\ nominated \in [Tokens -> Nat \cup {None}]
      /\ waiting \in Seq(Job) /\ job \in Job \cup {None}
      /\ tape \in [Tokens -> PollCount \cup {None}] /\ stored \in SUBSET Tokens
      /\ evidence \in [Tokens -> Nat]
      /\ scan.at # "idle" => scan.ts \in Stamps
      /\ \A i \in 1 .. Len(waiting) : waiting[i].stage = "polling"
      /\ job # None /\ job.stage = "evaluating" => job.ts \in Stamps
  BY DEF Timely, PipelineTypeOK
<1>1. ASSUME now' = now, UNCHANGED <<job, tape, stored>>,
             scan' \in Scan, scan'.at # "idle" => scan'.ts \in Stamps,
             nominated' \in [Tokens -> Nat \cup {None}], evidence' \in [Tokens -> Nat],
             waiting' \in Seq(Job), \A i \in 1 .. Len(waiting') : waiting'[i].stage = "polling"
      PROVE  Timely'
  BY <1>0, <1>1 DEF Timely, PipelineTypeOK, Stamps
<1>2. ASSUME NEW k \in Tokens, NEW t \in Nat, Witness(k, t)
      PROVE  evidence' \in [Tokens -> Nat]
  BY <1>0, <1>2 DEF Witness
<1>3. Idle \in Scan /\ Idle.at = "idle"
  BY DEF Idle, Scan
<1>4. CASE ScanRequest
  <2>1. now \in Stamps
    BY <1>0, CandidatesAssumption DEF Stamps
  <2>2. scan' \in Scan /\ scan'.ts = now
    BY <1>0, <1>4 DEF ScanRequest, Idle, Scan
  <2> QED BY <1>0, <1>1, <1>4, <2>1, <2>2 DEF ScanRequest, vars, history
<1>5. ASSUME NEW N \in SUBSET Tokens, ScanReturn(N)
      PROVE  Timely'
  <2>1. scan' \in Scan /\ scan'.ts = scan.ts /\ scan.at # "idle"
    BY <1>0, <1>5 DEF ScanReturn, Scan
  <2>2. nominated' \in [Tokens -> Nat \cup {None}]
    BY <1>0, <1>5 DEF ScanReturn, Scan
  <2> QED BY <1>0, <1>1, <1>5, <2>1, <2>2 DEF ScanReturn, vars, history
<1>6. CASE ScanFails
  BY <1>0, <1>1, <1>3, <1>6 DEF ScanFails, vars, history
<1>7. CASE ScanDone
  <2>1. NewJob(FirstContacts, FALSE) \in Job /\ NewJob(FirstContacts, FALSE).stage = "polling"
    <3>1. FirstContacts \in SUBSET Tokens
      BY <1>0, <1>7 DEF FirstContacts, Scan
    <3> QED BY <3>1 DEF NewJob, Job
  <2>2. /\ waiting' \in Seq(Job)
        /\ \A i \in 1 .. Len(waiting') : waiting'[i].stage = "polling"
    <3>1. CASE waiting' = waiting
      BY <1>0, <3>1
    <3>2. CASE waiting' = Append(waiting, NewJob(FirstContacts, FALSE))
      <4> DEFINE j == NewJob(FirstContacts, FALSE)
      <4> HIDE DEF j
      <4>1. j \in Job /\ j.stage = "polling" /\ waiting' = Append(waiting, j)
        BY <2>1, <3>2 DEF j
      <4> QED BY <1>0, <4>1
    <3> QED BY <1>7, <3>1, <3>2 DEF ScanDone
  <2> QED BY <1>0, <1>1, <1>3, <1>7, <2>2 DEF ScanDone, vars, history
<1>8. ASSUME NEW k \in Tokens, NEW rvol \in RVols \cup {None},
             HandNomination(k, rvol) \/ HandStay(k, rvol)
      PROVE  Timely'
  <2>1. scan' \in Scan /\ scan'.ts = scan.ts /\ scan.at # "idle" /\ scan.ts \in Nat
    <3>1. /\ scan.at = "handling"
          /\ scan' = [scan EXCEPT !.noms = @ \ {k}] \/ scan' = [scan EXCEPT !.seen = @ \cup {k}]
      BY <1>8 DEF HandNomination, HandStay
    <3>2. [scan EXCEPT !.noms = @ \ {k}] \in Scan /\ [scan EXCEPT !.noms = @ \ {k}].ts = scan.ts
      BY <1>0 DEF Scan
    <3>3. /\ [scan EXCEPT !.seen = @ \cup {k}] \in Scan
          /\ [scan EXCEPT !.seen = @ \cup {k}].ts = scan.ts
      BY <1>0 DEF Scan
    <3>4. scan.ts \in Nat
      BY <1>0 DEF Scan
    <3> QED BY <3>1, <3>2, <3>3, <3>4
  <2>2. evidence' \in [Tokens -> Nat]
    BY <1>0, <1>2, <1>8, <2>1 DEF HandNomination, HandStay
  <2> QED BY <1>0, <1>1, <1>8, <2>1, <2>2 DEF HandNomination, HandStay
<1> QED BY <1>4, <1>5, <1>6, <1>7, <1>8 DEF ScanStep

LEMMA PollCounts ==
  /\ 0 \in PollCount
  /\ \A n \in PollCount : NextPoll(n) \in PollCount
  /\ tape \in [Tokens -> PollCount \cup {None}] => \A k \in Tokens : PollsOf(k) \in PollCount
BY PipelineAssumption DEF PollCount, NextPoll, PollsOf

\* The job goes on in its stage.
SameRun(old, new) == new \in Job /\ new.stage = old.stage /\ new.ts = old.ts

LEMMA JobStepsType ==
  ASSUME Timely, JobStep \/ JobRaises \/ TapeTick
  PROVE  Timely'
<1> USE DEF Quiet
<1>0. /\ now \in Nat /\ scan \in Scan /\ nominated \in [Tokens -> Nat \cup {None}]
      /\ waiting \in Seq(Job) /\ job \in Job \cup {None}
      /\ tape \in [Tokens -> PollCount \cup {None}] /\ stored \in SUBSET Tokens
      /\ evidence \in [Tokens -> Nat]
      /\ scan.at # "idle" => scan.ts \in Stamps
      /\ \A i \in 1 .. Len(waiting) : waiting[i].stage = "polling"
      /\ job # None /\ job.stage = "evaluating" => job.ts \in Stamps
  BY DEF Timely, PipelineTypeOK
<1>1. ASSUME now' = now, UNCHANGED <<nominated, scan>>,
             job' \in Job \cup {None}, job' # None /\ job'.stage = "evaluating" => job'.ts \in Stamps,
             tape' \in [Tokens -> PollCount \cup {None}], stored' \in SUBSET Tokens,
             evidence' \in [Tokens -> Nat],
             waiting' \in Seq(Job), \A i \in 1 .. Len(waiting') : waiting'[i].stage = "polling"
      PROVE  Timely'
  BY <1>0, <1>1 DEF Timely, PipelineTypeOK, Stamps
<1>2. ASSUME NEW k \in Tokens, NEW n \in PollCount \cup {None}
      PROVE  [tape EXCEPT ![k] = n] \in [Tokens -> PollCount \cup {None}]
  BY <1>0, <1>2
<1>3. /\ 0 \in PollCount
      /\ \A n \in PollCount : NextPoll(n) \in PollCount
      /\ \A k \in Tokens : PollsOf(k) \in PollCount
      /\ \A k \in Tokens : tape[k] \in PollCount \cup {None}
  BY <1>0, PollCounts
<1>4. CASE TapeTick
  <2>1. tape' \in [Tokens -> PollCount \cup {None}]
    <3>1. \A k \in Tokens : tape'[k] = None \/ tape'[k] = tape[k]
      BY <1>4 DEF TapeTick, DropTapes
    <3> QED BY <1>3, <1>4, <3>1 DEF TapeTick, DropTapes
  <2> DEFINE S == {k \in Tokens : mem'[k] # None}
             j == NewJob(S, TRUE)
  <2>2. j \in Job /\ j.stage = "polling"
    BY DEF NewJob, Job
  <2>3. waiting' = waiting \/ waiting' = Append(waiting, j)
    BY <1>4 DEF TapeTick
  <2> HIDE DEF j
  <2>4. /\ waiting' \in Seq(Job)
        /\ \A i \in 1 .. Len(waiting') : waiting'[i].stage = "polling"
    <3>1. CASE waiting' = waiting
      BY <1>0, <3>1
    <3>2. CASE waiting' = Append(waiting, j)
      BY <1>0, <2>2, <3>2
    <3> QED BY <2>3, <3>1, <3>2
  <2> QED BY <1>0, <1>1, <1>4, <2>1, <2>4 DEF TapeTick, history
<1>5. CASE TakeLock
  <2>1. /\ Head(waiting) = waiting[1] /\ waiting[1] \in Job /\ waiting[1].stage = "polling"
        /\ waiting' \in Seq(Job)
        /\ \A i \in 1 .. Len(waiting') : waiting'[i].stage = "polling"
    <3>1. Len(waiting) \in Nat /\ Len(waiting) # 0
      BY <1>0, <1>5 DEF TakeLock
    <3>2. /\ Tail(waiting) \in Seq(Job) /\ Len(Tail(waiting)) = Len(waiting) - 1
          /\ \A i \in 1 .. Len(waiting) - 1 : Tail(waiting)[i] = waiting[i + 1]
      BY <1>0, <1>5 DEF TakeLock
    <3> QED BY <1>0, <1>5, <3>1, <3>2 DEF TakeLock
  <2> QED BY <1>0, <1>1, <1>5, <2>1 DEF TakeLock, vars, history
<1>6. ASSUME job # None, UNCHANGED <<now, nominated, scan, waiting>>,
             SameRun(job, job'),
             tape' \in [Tokens -> PollCount \cup {None}], stored' \in SUBSET Tokens,
             evidence' \in [Tokens -> Nat]
      PROVE  Timely'
  BY <1>0, <1>1, <1>6 DEF SameRun
<1>7. ASSUME NEW j \in Job, NEW T, NEW S \in SUBSET Tokens
      PROVE  /\ SameRun(j, [j EXCEPT !.todo = @ \ T])
             /\ SameRun(j, [j EXCEPT !.todo = @ \ T, !.fetching = S])
             /\ SameRun(j, [j EXCEPT !.fetching = {}])
  BY <1>7 DEF Job, SameRun
<1>8. ASSUME NEW k \in Tokens, PollSkip(k) \/ PollFetch(k) \/ EvaluateNothing(k)
      PROVE  Timely'
  <2>1. /\ job \in Job /\ job # None /\ SameRun(job, job')
    <3>1. job \in Job /\ job # None
      BY <1>0, <1>8 DEF PollSkip, PollFetch, EvaluateNothing, Polling, Evaluating
    <3>2. \/ job' = [job EXCEPT !.todo = @ \ {k}]
          \/ job' = [job EXCEPT !.todo = @ \ {k}, !.fetching = {k}]
      BY <1>8 DEF PollSkip, PollFetch, EvaluateNothing, Evaluating
    <3>3. /\ SameRun(job, [job EXCEPT !.todo = @ \ {k}])
          /\ SameRun(job, [job EXCEPT !.todo = @ \ {k}, !.fetching = {k}])
      <4>1. {k} \in SUBSET Tokens
        OBVIOUS
      <4> QED BY <3>1, <4>1, <1>7
    <3> QED BY <3>1, <3>2, <3>3
  <2>2. tape' \in [Tokens -> PollCount \cup {None}]
    BY <1>2, <1>3, <1>8 DEF PollSkip, PollFetch, EvaluateNothing
  <2> QED BY <1>0, <1>6, <1>8, <2>1, <2>2
          DEF PollSkip, PollFetch, EvaluateNothing, vars, history
<1>9. ASSUME NEW k \in Tokens, NEW answer, PollReturn(k, answer)
      PROVE  Timely'
  <2>1. /\ job \in Job /\ job # None /\ SameRun(job, job')
    BY <1>0, <1>7, <1>9 DEF PollReturn
  <2>2. tape' \in [Tokens -> PollCount \cup {None}]
    <3> DEFINE n == IF tape[k] # None THEN NextPoll(tape[k])
                    ELSE IF answer = "error" THEN None ELSE 0
    <3>1. n \in PollCount \cup {None} /\ tape' = [tape EXCEPT ![k] = n]
      BY <1>3, <1>9 DEF PollReturn
    <3> QED BY <1>2, <3>1
  <2>3. stored' \in SUBSET Tokens
    BY <1>0, <1>9 DEF PollReturn
  <2> QED BY <1>0, <1>6, <1>9, <2>1, <2>2, <2>3 DEF PollReturn, vars, history
<1>10. CASE BeginEvaluation
  <2>1. now \in Stamps
    BY <1>0, CandidatesAssumption DEF Stamps
  <2>2. job \in Job
    BY <1>0, <1>10 DEF BeginEvaluation
  <2>3. job' \in Job /\ job'.ts = now
    BY <1>0, <1>10, <2>2 DEF BeginEvaluation, Job
  <2> QED BY <1>0, <1>1, <1>10, <2>1, <2>3 DEF BeginEvaluation, vars, history
<1>11. ASSUME NEW k \in Tokens, NEW ofi, EvaluateVeto(k, ofi) \/ EvaluateStay(k, ofi)
      PROVE  Timely'
  <2>1. /\ job \in Job /\ job # None /\ SameRun(job, job')
    <3>1. job \in Job /\ job # None /\ job' = [job EXCEPT !.todo = @ \ {k}]
      BY <1>0, <1>11 DEF EvaluateVeto, EvaluateStay, Evaluating
    <3> QED BY <3>1, <1>7
  <2>2. tape' \in [Tokens -> PollCount \cup {None}]
    <3>1. \E n \in PollCount \cup {None} : tape' = [tape EXCEPT ![k] = n]
      BY <1>3, <1>11 DEF EvaluateVeto, EvaluateStay
    <3> QED BY <1>2, <3>1
  <2>3. evidence' \in [Tokens -> Nat]
    <3>1. job.ts \in Nat
      BY <2>1 DEF Job
    <3>2. evidence' = evidence \/ Witness(k, job.ts)
      BY <1>11 DEF EvaluateVeto, EvaluateStay
    <3> QED BY <1>0, <3>1, <3>2 DEF Witness
  <2> QED BY <1>0, <1>6, <1>11, <2>1, <2>2, <2>3 DEF EvaluateVeto, EvaluateStay
<1>12. CASE JobEnds \/ JobRaises
  BY <1>0, <1>1, <1>12 DEF JobEnds, JobRaises, vars, history
<1> QED BY <1>4, <1>5, <1>8, <1>9, <1>10, <1>11, <1>12 DEF JobStep

LEMMA TimelySteps ==
  ASSUME Timely, [PipelineNext]_pipelineVars
  PROVE  Timely'
<1>0. now \in Nat /\ PipelineTypeOK
  BY DEF Timely
<1>1. CASE PipelineTick
  <2>1. now' = now + 1 /\ UNCHANGED <<taskVars, history>>
    BY <1>1 DEF PipelineTick, Tick
  <2>2. ASSUME NEW t \in Stamps, now - t < MaxLag PROVE t \in Stamps'
    <3>1. t \in Nat /\ t <= now /\ now' - t <= MaxLag /\ now' \in Nat
      BY <1>0, <2>1, <2>2, StampSet, CandidatesAssumption
    <3> HIDE DEF Stamps
    <3>2. t \in (IF now' > MaxLag THEN now' - MaxLag ELSE 0) .. now'
      BY <1>0, <2>1, <3>1, CandidatesAssumption
    <3> QED BY <3>2 DEF Stamps
  <2>3. scan.at # "idle" => scan.ts \in Stamps'
    BY <1>1, <2>2 DEF PipelineTick, Timely, PipelineTypeOK, Scan
  <2>4. job # None /\ job.stage = "evaluating" => job.ts \in Stamps'
    BY <1>1, <2>2 DEF PipelineTick, Timely
  <2> QED BY <1>0, <2>1, <2>3, <2>4 DEF Timely, PipelineTypeOK, taskVars, history
<1>2. CASE PipelineCrash
  <2>1. ForgetTasks
    BY <1>2 DEF PipelineCrash
  <2>2. scan' \in Scan /\ scan'.at = "idle"
    BY <2>1 DEF ForgetTasks, Idle, Scan
  <2>3. waiting' \in Seq(Job) /\ Len(waiting') = 0 /\ job' = None
    BY <2>1 DEF ForgetTasks
  <2> QED BY <1>0, <2>1, <2>2, <2>3 DEF Timely, PipelineTypeOK, ForgetTasks, history
<1>3. CASE PipelineRestart
  BY <1>0, <1>3 DEF PipelineRestart, Recover, Timely, PipelineTypeOK, Stamps, taskVars, history
<1>4. CASE UNCHANGED pipelineVars
  BY <1>0, <1>4 DEF pipelineVars, vars, Timely, PipelineTypeOK, Stamps, taskVars, history
<1> QED BY <1>1, <1>2, <1>3, <1>4, ScanStepsType, JobStepsType DEF PipelineNext

LEMMA InitTimely == PipelineInit => Timely
<1> SUFFICES ASSUME PipelineInit PROVE Timely
  OBVIOUS
<1>1. Idle \in Scan /\ Idle.at = "idle"
  BY DEF Idle, Scan
<1>2. waiting \in Seq(Job) /\ Len(waiting) = 0
  BY DEF PipelineInit
<1> QED BY <1>1, <1>2 DEF PipelineInit, Init, Timely, PipelineTypeOK

LEMMA TimelyAlways == PipelineSpec => []Timely
BY InitTimely, TimelySteps, PTL DEF PipelineSpec

\* The state of the tasks, the poll counts and the history are well-formed.
THEOREM TasksTypeCorrect == PipelineSpec => []PipelineTypeOK
<1>1. Timely => PipelineTypeOK
  BY DEF Timely
<1> QED BY <1>1, TimelyAlways, PTL

\* The chain loop, the tape loop and the evaluation jobs use the manager as
\* module Candidates says, so all that is proved of it holds of the process.
THEOREM KeepsManagerHolds == PipelineSpec => PipelineKeepsManager
<1>1. PipelineInit => Init
  BY DEF PipelineInit
<1> QED BY <1>1, TimelyAlways, TasksCallManager, PTL DEF PipelineSpec, PipelineKeepsManager, Spec

-----------------------------------------------------------------------------
\* last_seen_ts is behind the evidence by the age of a timestamp at most, and
\* so behind a veto that was set before the token came back.
Lagging ==
    /\ \A k \in Tokens : evidence[k] <= now
    /\ \A k \in Tokens : HasStatus(k, "active") => evidence[k] - rows[k].cand.last <= MaxLag
    /\ \A k \in Active : veto[k] <= now /\ veto[k] - mem[k].last <= MaxLag

EInv == IInv /\ Timely /\ Lagging

LEMMA ActiveLast ==
  ASSUME TypeOK, NEW k \in Tokens
  PROVE  /\ mem[k] # None => mem[k].last \in Nat
         /\ HasStatus(k, "active") => rows[k].cand.last \in Nat
<1>1. HasStatus(k, "active") => rows[k].cand \in Candidate
  BY RowShape DEF HasStatus, TypeOK
<1> QED BY <1>1 DEF TypeOK, Candidate

\* A candidate that is saved with the timestamp t, or with the one it had.
LEMMA SavedLag ==
  ASSUME EInv, NEW k \in Tokens, NEW t \in Stamps, NEW c \in Candidate,
         UNCHANGED <<now, veto>>,
         mem'[k] = c, rows'[k] = ActiveRow(c),
         \A j \in Tokens \ {k} : /\ mem'[j] = mem[j] \/ mem'[j] = None
                                 /\ rows'[j] = rows[j] \/ ~HasStatus(j, "active")',
         \/ /\ c.last = t
            /\ Witness(k, t) \/ evidence' = evidence
            /\ mem[k] = None => veto[k] <= t
         \/ mem[k] # None /\ c.last = mem[k].last /\ evidence' = evidence,
         mem[k] # None => rows[k] = ActiveRow(mem[k])
  PROVE  Lagging'
<1>0. /\ TypeOK /\ evidence \in [Tokens -> Nat] /\ now \in Nat /\ MaxLag \in Nat
      /\ veto \in [Tokens -> Nat]
      /\ t \in Nat /\ t <= now /\ now - t <= MaxLag
  BY CandidatesAssumption, StampSet DEF EInv, IInv, TypeOK, Timely, PipelineTypeOK
<1>1. \A j \in Tokens : evidence'[j] = evidence[j] \/ (j = k /\ evidence'[j] = t)
  BY <1>0 DEF Witness
<1>2. \A j \in Tokens : evidence'[j] <= now
  BY <1>0, <1>1 DEF EInv, Lagging
<1>3. rows'[k].cand = c /\ c.last \in Nat
  BY DEF ActiveRow, Candidate
<1>4. evidence'[k] - c.last <= MaxLag
  <2>1. CASE c.last = t
    <3>1. evidence'[k] \in Nat /\ evidence'[k] <= now
      BY <1>0, <1>1, <1>2
    <3> QED BY <1>0, <2>1, <3>1
  <2>2. CASE mem[k] # None /\ c.last = mem[k].last /\ evidence' = evidence
    <3>1. rows[k] = ActiveRow(mem[k]) /\ mem[k] \in Candidate
      BY <1>0, <2>2 DEF TypeOK
    <3>2. HasStatus(k, "active") /\ rows[k].cand = mem[k]
      BY <3>1, StatusOfRow DEF HasStatus, ActiveRow
    <3> QED BY <2>2, <3>2 DEF EInv, Lagging
  <2> QED BY <2>1, <2>2
<1>5. veto[k] <= now /\ veto[k] - c.last <= MaxLag
  <2>1. mem[k] # None => veto[k] <= now /\ veto[k] - mem[k].last <= MaxLag
    BY DEF EInv, Lagging, Active
  <2>2. veto[k] <= now
    BY <1>0, <2>1
  <2>3. veto[k] \in Nat
    BY <1>0
  <2> QED BY <1>0, <2>1, <2>2, <2>3
<1>6. ASSUME NEW j \in Tokens, HasStatus(j, "active")'
      PROVE  evidence'[j] - rows'[j].cand.last <= MaxLag
  <2>1. CASE j = k
    BY <1>3, <1>4, <2>1
  <2>2. CASE j # k
    <3>1. rows'[j] = rows[j] /\ evidence'[j] = evidence[j]
      BY <1>1, <1>6, <2>2
    <3> QED BY <1>6, <3>1 DEF EInv, Lagging, HasStatus
  <2> QED BY <2>1, <2>2
<1>7. ASSUME NEW j \in Tokens, mem'[j] # None
      PROVE  veto'[j] <= now /\ veto'[j] - mem'[j].last <= MaxLag
  <2>1. CASE j = k
    BY <1>5, <2>1
  <2>2. CASE j # k
    BY <1>7, <2>2 DEF EInv, Lagging, Active
  <2> QED BY <2>1, <2>2
<1> QED BY <1>2, <1>6, <1>7 DEF Lagging, Active, HasStatus

\* A step that takes tokens out, or does nothing to the manager.
LEMMA LeavingLag ==
  ASSUME EInv, now' \in Nat, now <= now', evidence' = evidence,
         \A j \in Tokens : /\ mem'[j] = None \/ (mem'[j] = mem[j] /\ veto'[j] = veto[j])
                           /\ rows'[j] = rows[j] \/ ~HasStatus(j, "active")'
  PROVE  Lagging'
<1>0. /\ evidence \in [Tokens -> Nat] /\ now \in Nat /\ veto \in [Tokens -> Nat]
  BY DEF EInv, IInv, TypeOK, Timely, PipelineTypeOK
<1>1. \A j \in Tokens : evidence'[j] <= now'
  BY <1>0 DEF EInv, Lagging
<1>2. ASSUME NEW j \in Tokens, HasStatus(j, "active")'
      PROVE  evidence'[j] - rows'[j].cand.last <= MaxLag
  BY <1>2 DEF EInv, Lagging, HasStatus
<1>3. ASSUME NEW j \in Tokens, mem'[j] # None
      PROVE  veto'[j] <= now' /\ veto'[j] - mem'[j].last <= MaxLag
  <2>1. mem'[j] = mem[j] /\ veto'[j] = veto[j]
    BY <1>3
  <2>2. veto[j] <= now /\ veto[j] - mem[j].last <= MaxLag /\ veto[j] \in Nat
    BY <1>0, <1>3, <2>1 DEF EInv, Lagging, Active
  <2> QED BY <1>0, <2>1, <2>2
<1> QED BY <1>1, <1>2, <1>3 DEF Lagging, Active, HasStatus

LEMMA NominationLag ==
  ASSUME EInv, up, UNCHANGED <<now, up>>, NEW k \in Tokens, NEW t \in Stamps,
         NEW rvol \in RVols \cup {None}, OnNomination(k, rvol, t),
         IF mem'[k] # None THEN Witness(k, t) ELSE evidence' = evidence
  PROVE  Lagging'
<1>0. /\ TypeOK /\ RowsMirrorMemory /\ evidence \in [Tokens -> Nat] /\ now \in Nat
      /\ MaxLag \in Nat /\ veto \in [Tokens -> Nat]
      /\ t \in Nat /\ t <= now /\ now - t <= MaxLag
      /\ mem \in [Tokens -> Candidate \cup {None}] /\ rows \in [Tokens -> Row \cup {None}]
  BY CandidatesAssumption, StampSet DEF EInv, IInv, TypeOK, Timely, PipelineTypeOK
<1>1. mem[k] # None => mem[k] \in Candidate /\ rows[k] = ActiveRow(mem[k])
  BY <1>0 DEF RowsMirrorMemory, Active
<1>2. NewCandidate(rvol, t) \in Candidate /\ NewCandidate(rvol, t).last = t
  <2>1. StrengthOf(rvol, None) \in Int
    BY StrengthType
  <2> QED BY <1>0, <2>1 DEF NewCandidate, Candidate
<1>3. Witness(k, t) \/ evidence' = evidence
  OBVIOUS
<1>4. CASE BlockedCooldown(k, t)
  <2>1. UNCHANGED <<mem, veto, rows>> /\ t < veto[k]
    BY <1>0, <1>4 DEF BlockedCooldown, Blocked
  <2>2. CASE mem[k] = None
    BY <1>0, <2>1, <2>2, LeavingLag
  <2>3. CASE mem[k] # None
    <3>1. \A j \in Tokens : evidence'[j] = evidence[j] \/ (j = k /\ evidence'[j] = t)
      BY <1>0, <1>3 DEF Witness
    <3>2. \A j \in Tokens : evidence'[j] <= now
      BY <1>0, <3>1 DEF EInv, Lagging
    <3>3. t - rows[k].cand.last <= MaxLag
      <4>1. veto[k] - mem[k].last <= MaxLag /\ mem[k].last \in Nat /\ veto[k] \in Nat
        BY <1>0, <2>3, ActiveLast DEF EInv, Lagging, Active
      <4>2. rows[k].cand = mem[k]
        BY <1>1, <2>3 DEF ActiveRow
      <4> QED BY <1>0, <2>1, <4>1, <4>2
    <3>4. \A j \in Tokens : HasStatus(j, "active") =>
                               evidence'[j] - rows[j].cand.last <= MaxLag
      BY <3>1, <3>3 DEF EInv, Lagging
    <3> QED BY <2>1, <3>2, <3>4 DEF EInv, Lagging, Active, HasStatus
  <2> QED BY <2>2, <2>3
<1>5. CASE RejectedCap(k, rvol, t)
  <2>1. UNCHANGED <<mem, veto, rows>> /\ mem[k] = None
    BY <1>5 DEF RejectedCap
  <2> QED BY <1>0, <2>1, LeavingLag
<1>6. CASE Refreshed(k, rvol, t)
  <2> DEFINE s == StrengthOf(rvol, mem[k].ofi)
             m == IF mem[k].strength >= s THEN mem[k].strength ELSE s
             d == [mem[k] EXCEPT !.last = t, !.rvol = rvol, !.strength = m]
  <2>1. mem[k] # None /\ mem[k] \in Candidate /\ veto' = veto /\ Save(k, d)
    BY <1>1, <1>6 DEF Refreshed
  <2>2. m \in Int
    <3>1. s \in Int /\ mem[k].strength \in Int
      BY <2>1, StrengthType DEF Candidate
    <3> HIDE DEF s
    <3> QED BY <3>1
  <2>3. d \in Candidate /\ d.last = t
    <3> HIDE DEF m
    <3>1. ASSUME NEW e \in Candidate
          PROVE  LET f == [e EXCEPT !.last = t, !.rvol = rvol, !.strength = m]
                 IN  f \in Candidate /\ f.last = t
      BY <1>0, <2>2, <3>1 DEF Candidate
    <3> QED BY <2>1, <3>1
  <2> HIDE DEF d
  <2>4. mem'[k] = d /\ rows'[k] = ActiveRow(d)
    BY <1>0, <2>1 DEF Save
  <2>5. \A j \in Tokens \ {k} : mem'[j] = mem[j] /\ rows'[j] = rows[j]
    BY <1>0, <2>1 DEF Save
  <2> QED BY <1>1, <1>3, <2>1, <2>3, <2>4, <2>5, SavedLag
<1>7. CASE Entered(k, rvol, t)
  <2> DEFINE d == NewCandidate(rvol, t)
  <2>1. mem[k] = None /\ veto' = veto /\ Save(k, d) /\ veto[k] <= t
    BY <1>0, <1>7 DEF Entered, Blocked
  <2>2. d \in Candidate /\ d.last = t
    BY <1>2
  <2> HIDE DEF d
  <2>4. mem'[k] = d /\ rows'[k] = ActiveRow(d)
    BY <1>0, <2>1 DEF Save
  <2>5. \A j \in Tokens \ {k} : mem'[j] = mem[j] /\ rows'[j] = rows[j]
    BY <1>0, <2>1 DEF Save
  <2> QED BY <1>3, <2>1, <2>2, <2>4, <2>5, SavedLag
<1>8. CASE EnteredEvicting(k, rvol, t)
  <2> DEFINE d == NewCandidate(rvol, t)
  <2>1. PICK w \in Tokens :
           /\ Displaces(k, rvol, t, w)
           /\ mem' = [mem EXCEPT ![w] = None, ![k] = d]
           /\ rows' = [rows EXCEPT ![w] = RetiredRow("evicted", t), ![k] = ActiveRow(d)]
           /\ veto' = veto
    BY <1>8 DEF EnteredEvicting
  <2>2. d \in Candidate /\ d.last = t
    BY <1>2
  <2> HIDE DEF d
  <2>3. mem[k] = None /\ w # k /\ veto[k] <= t
    BY <1>0, <2>1 DEF Displaces, Blocked, ActiveOn, Active
  <2>4. mem'[k] = d /\ rows'[k] = ActiveRow(d)
    BY <1>0, <2>1, <2>3
  <2>5. \A j \in Tokens \ {k} : /\ mem'[j] = mem[j] \/ mem'[j] = None
                                /\ rows'[j] = rows[j] \/ ~HasStatus(j, "active")'
    <3>1. \A j \in Tokens \ {k, w} : mem'[j] = mem[j] /\ rows'[j] = rows[j]
      BY <1>0, <2>1
    <3>2. mem'[w] = None /\ rows'[w] = RetiredRow("evicted", t)
      BY <1>0, <2>1, <2>3
    <3>3. ~HasStatus(w, "active")'
      BY <1>0, <3>2, StatusOfRow DEF HasStatus
    <3> QED BY <3>1, <3>2, <3>3
  <2> QED BY <1>3, <2>1, <2>2, <2>3, <2>4, <2>5, SavedLag
<1> QED BY <1>4, <1>5, <1>6, <1>7, <1>8 DEF OnNomination

LEMMA EvidenceLag ==
  ASSUME EInv, up, UNCHANGED <<now, up>>, NEW k \in Tokens, NEW t \in Stamps,
         NEW rvol \in RVols \cup {None}, NEW ofi \in OFIs \cup {None},
         \/ /\ OnStage1Row(k, rvol, t)
            /\ IF Stays(rvol, StayRVol) THEN Witness(k, t) ELSE evidence' = evidence
         \/ OnTapeInactive(k) /\ evidence' = evidence
         \/ OnTapeVetoed(k, ofi, t) /\ evidence' = evidence
         \/ /\ OnTapeStays(k, ofi, t)
            /\ IF Stays(ofi, StayOFI) THEN Witness(k, t) ELSE evidence' = evidence
  PROVE  Lagging'
<1>0. /\ TypeOK /\ RowsMirrorMemory /\ evidence \in [Tokens -> Nat] /\ now \in Nat
      /\ t \in Nat
      /\ mem \in [Tokens -> Candidate \cup {None}] /\ rows \in [Tokens -> Row \cup {None}]
  BY CandidatesAssumption, StampSet DEF EInv, IInv, TypeOK, Timely, PipelineTypeOK
<1>1. mem[k] # None => mem[k] \in Candidate /\ rows[k] = ActiveRow(mem[k])
  BY <1>0 DEF RowsMirrorMemory, Active
<1>2. ASSUME mem[k] # None, NEW c \in Candidate, c.last = mem[k].last,
             NEW b \in BOOLEAN,
             Save(k, IF b THEN [c EXCEPT !.last = t] ELSE c), UNCHANGED veto,
             IF b THEN Witness(k, t) ELSE evidence' = evidence
      PROVE  Lagging'
  <2>1. [c EXCEPT !.last = t] \in Candidate /\ [c EXCEPT !.last = t].last = t
    BY <1>0, <1>2 DEF Candidate
  <2> DEFINE d == IF b THEN [c EXCEPT !.last = t] ELSE c
  <2>2. /\ d \in Candidate
        /\ \/ d.last = t /\ Witness(k, t)
           \/ d.last = mem[k].last /\ evidence' = evidence
    BY <1>2, <2>1
  <2>3. Save(k, d)
    BY <1>2
  <2> HIDE DEF d
  <2>4. /\ mem'[k] = d /\ rows'[k] = ActiveRow(d)
        /\ \A j \in Tokens \ {k} : mem'[j] = mem[j] /\ rows'[j] = rows[j]
    BY <1>0, <2>3 DEF Save
  <2> QED BY <1>1, <1>2, <2>2, <2>4, SavedLag
<1>3. Stays(rvol, StayRVol) \in BOOLEAN /\ Stays(ofi, StayOFI) \in BOOLEAN
  BY DEF Stays
<1>4. CASE /\ OnStage1Row(k, rvol, t)
           /\ IF Stays(rvol, StayRVol) THEN Witness(k, t) ELSE evidence' = evidence
  <2>1. mem[k] # None /\ mem[k] \in Candidate /\ veto' = veto
    BY <1>1, <1>4 DEF OnStage1Row
  <2>2. Save(k, IF Stays(rvol, StayRVol) THEN [mem[k] EXCEPT !.last = t] ELSE mem[k])
    BY <1>4 DEF OnStage1Row
  <2> QED BY <1>2, <1>3, <1>4, <2>1, <2>2
<1>5. CASE OnTapeInactive(k) /\ evidence' = evidence
  BY <1>0, <1>5, LeavingLag DEF OnTapeInactive
<1>6. CASE OnTapeVetoed(k, ofi, t) /\ evidence' = evidence
  <2>1. /\ mem'[k] = None /\ rows'[k] = RetiredRow("vetoed", t)
        /\ \A j \in Tokens \ {k} : mem'[j] = mem[j] /\ rows'[j] = rows[j] /\ veto'[j] = veto[j]
    BY <1>0, <1>6 DEF OnTapeVetoed, EInv, IInv, TypeOK
  <2>2. ~HasStatus(k, "active")'
    BY <1>0, <2>1, StatusOfRow DEF HasStatus
  <2> QED BY <1>0, <1>6, <2>1, <2>2, LeavingLag
<1>7. CASE /\ OnTapeStays(k, ofi, t)
           /\ IF Stays(ofi, StayOFI) THEN Witness(k, t) ELSE evidence' = evidence
  <2> DEFINE c == Polled(mem[k], ofi)
  <2>1. mem[k] # None /\ mem[k] \in Candidate /\ veto' = veto
    BY <1>1, <1>7 DEF OnTapeStays
  <2>2. Save(k, IF Stays(ofi, StayOFI) THEN [c EXCEPT !.last = t] ELSE c)
    BY <1>7 DEF OnTapeStays
  <2>3. c \in Candidate /\ c.last = mem[k].last
    <3> DEFINE s == StrengthOf(mem[k].rvol, ofi)
    <3>1. s \in Int
      BY <2>1, StrengthType DEF Candidate
    <3> HIDE DEF s
    <3>2. ASSUME NEW e \in Candidate
          PROVE  LET f == [e EXCEPT !.ofi = ofi, !.strength = s, !.polls = 1]
                 IN  f \in Candidate /\ f.last = e.last
      BY <3>1, <3>2 DEF Candidate
    <3> QED BY <2>1, <3>2 DEF Polled, s
  <2> HIDE DEF c
  <2> QED BY <1>2, <1>3, <1>7, <2>1, <2>2, <2>3
<1> QED BY <1>4, <1>5, <1>6, <1>7

LEMMA LagSteps ==
  ASSUME EInv, [PipelineNext]_pipelineVars
  PROVE  Lagging'
<1> USE DEF Quiet
<1>0. /\ TypeOK /\ RowsMirrorMemory /\ evidence \in [Tokens -> Nat] /\ now \in Nat
      /\ rows \in [Tokens -> Row \cup {None}]
  BY DEF EInv, IInv, TypeOK, Timely, PipelineTypeOK
<1>1. ASSUME UNCHANGED <<vars, history>> PROVE Lagging'
  BY <1>0, <1>1, LeavingLag DEF vars, history
<1>2. CASE PipelineTick
  <2>1. now' = now + 1 /\ UNCHANGED <<mem, veto, rows, evidence>>
    BY <1>2 DEF PipelineTick, Tick, history
  <2> QED BY <1>0, <2>1, LeavingLag
<1>3. CASE ScanStep
  <2>1. ASSUME NEW k \in Tokens, NEW rvol \in RVols \cup {None}, HandNomination(k, rvol)
        PROVE  Lagging'
    <3>1. scan.ts \in Stamps
      BY <2>1 DEF HandNomination, EInv, Timely
    <3>2. up /\ UNCHANGED <<now, up>> /\ OnNomination(k, rvol, scan.ts)
      BY <2>1 DEF HandNomination
    <3>3. IF mem'[k] # None THEN Witness(k, scan.ts) ELSE evidence' = evidence
      BY <2>1 DEF HandNomination
    <3> QED BY <3>1, <3>2, <3>3, NominationLag
  <2>2. CASE ScanRequest \/ ScanFails \/ ScanDone \/ \E N \in SUBSET Tokens : ScanReturn(N)
    BY <1>1, <2>2 DEF ScanRequest, ScanFails, ScanDone, ScanReturn
  <2> QED BY <1>3, <2>1, <2>2 DEF ScanStep
<1>4. CASE TapeTick
  <2>1. ASSUME NEW j \in Tokens
        PROVE  /\ mem'[j] = None \/ (mem'[j] = mem[j] /\ veto'[j] = veto[j])
               /\ rows'[j] = rows[j] \/ ~HasStatus(j, "active")'
    BY <1>0, <1>4, StatusOfRow DEF TapeTick, Expire, HasStatus
  <2> QED BY <1>0, <1>4, <2>1, LeavingLag DEF TapeTick, history
<1>5. CASE JobStep
  <2>1. ASSUME NEW k \in Tokens, NEW ofi \in OFIs \cup {None},
               EvaluateVeto(k, ofi) \/ EvaluateStay(k, ofi)
        PROVE  Lagging'
    <3>1. job.ts \in Stamps
      BY <2>1 DEF EvaluateVeto, EvaluateStay, Evaluating, EInv, Timely
    <3>2. up /\ UNCHANGED <<now, up>>
      BY <2>1 DEF EvaluateVeto, EvaluateStay, Evaluating
    <3>3. \/ OnTapeInactive(k) /\ evidence' = evidence
          \/ OnTapeVetoed(k, ofi, job.ts) /\ evidence' = evidence
          \/ /\ OnTapeStays(k, ofi, job.ts)
             /\ IF Stays(ofi, StayOFI) THEN Witness(k, job.ts) ELSE evidence' = evidence
      BY <2>1 DEF EvaluateVeto, EvaluateStay, OnTapeInactive, OnTapeStays
    <3> QED BY <3>1, <3>2, <3>3, EvidenceLag
  <2>2. CASE \/ TakeLock \/ BeginEvaluation \/ JobEnds
             \/ \E k \in Tokens :
                   \/ PollSkip(k) \/ PollFetch(k) \/ EvaluateNothing(k)
                   \/ \E answer \in {"trades", "empty", "error"} : PollReturn(k, answer)
    BY <1>1, <2>2 DEF TakeLock, BeginEvaluation, JobEnds, PollSkip, PollFetch, EvaluateNothing,
                PollReturn
  <2> QED BY <1>5, <2>1, <2>2 DEF JobStep
<1>6. ASSUME NEW k \in Tokens, NEW rvol \in RVols \cup {None}, HandStay(k, rvol)
      PROVE  Lagging'
  <2>1. scan.ts \in Stamps
    BY <1>6 DEF HandStay, EInv, Timely
  <2>2. /\ up /\ UNCHANGED <<now, up>> /\ OnStage1Row(k, rvol, scan.ts)
        /\ IF Stays(rvol, StayRVol) THEN Witness(k, scan.ts) ELSE evidence' = evidence
    BY <1>6 DEF HandStay
  <2>3. None \in OFIs \cup {None}
    OBVIOUS
  <2> QED BY <2>1, <2>2, <2>3, EvidenceLag
<1>7. CASE JobRaises
  BY <1>1, <1>7 DEF JobRaises
<1>8. CASE PipelineCrash
  <2>1. UNCHANGED <<now, evidence>> /\ mem' = [k \in Tokens |-> None]
    BY <1>8 DEF PipelineCrash, ForgetTasks, history, Crash, CrashAfterEviction, LoseMemory
  <2>2. \A j \in Tokens : rows'[j] = rows[j] \/ ~HasStatus(j, "active")'
    <3>1. CASE Crash
      BY <3>1 DEF Crash
    <3>2. ASSUME NEW k, NEW rvol, scan.at = "handling", CrashAfterEviction(k, rvol, scan.ts)
          PROVE  \A j \in Tokens : rows'[j] = rows[j] \/ ~HasStatus(j, "active")'
      <4>1. PICK w \in Tokens : rows' = [rows EXCEPT ![w] = RetiredRow("evicted", scan.ts)]
        BY <3>2 DEF CrashAfterEviction
      <4>2. scan.ts \in Nat
        BY DEF EInv, Timely, PipelineTypeOK, Scan
      <4> QED BY <1>0, <4>1, <4>2, StatusOfRow DEF HasStatus
    <3> QED BY <1>8, <3>1, <3>2 DEF PipelineCrash
  <2> QED BY <1>0, <2>1, <2>2, LeavingLag
<1>9. CASE PipelineRestart
  <2>1. Restart /\ UNCHANGED <<now, evidence>>
    BY <1>9 DEF PipelineRestart, Recover, history
  <2>2. \A j \in Tokens : HasStatus(j, "active") => rows[j].cand \in Candidate
    BY <1>0, RowShape DEF HasStatus
  <2>3. \A j \in Tokens : HasStatus(j, "active")' => rows'[j] = rows[j]
    <3>1. ASSUME NEW j \in Tokens, Stale(j) PROVE ~HasStatus(j, "active")'
      <4>1. rows[j].cand.last \in Nat
        BY <1>0, <3>1, ActiveLast DEF Stale
      <4>2. rows'[j] = RetiredRow("expired", rows[j].cand.last)
        BY <2>1, <3>1 DEF Restart
      <4> QED BY <4>1, <4>2, StatusOfRow DEF HasStatus
    <3> QED BY <2>1, <3>1 DEF Restart
  <2>4. ASSUME NEW j \in Tokens, mem'[j] # None
        PROVE  veto'[j] <= now /\ veto'[j] - mem'[j].last <= MaxLag
    <3>1. Resumed(j) /\ mem'[j] = rows[j].cand
      BY <2>1, <2>4 DEF Restart
    <3>2. veto'[j] = 0
      BY <2>1, <3>1 DEF Restart, RearmedVeto, Resumed, HasStatus
    <3>3. mem'[j].last \in Nat
      BY <1>0, <3>1, ActiveLast DEF Resumed
    <3> QED BY <1>0, <3>2, <3>3, CandidatesAssumption
  <2>5. ASSUME NEW j \in Tokens, HasStatus(j, "active")'
        PROVE  evidence'[j] - rows'[j].cand.last <= MaxLag
    BY <2>1, <2>3, <2>5 DEF EInv, Lagging, HasStatus
  <2>6. \A j \in Tokens : evidence'[j] <= now'
    BY <2>1 DEF EInv, Lagging
  <2> QED BY <2>1, <2>4, <2>5, <2>6 DEF Lagging, Active, HasStatus
<1>10. CASE UNCHANGED pipelineVars
  BY <1>1, <1>10 DEF pipelineVars
<1> QED BY <1>2, <1>3, <1>4, <1>5, <1>6, <1>7, <1>8, <1>9, <1>10 DEF PipelineNext

LEMMA EInvAlways == PipelineSpec => []EInv
<1>1. PipelineInit => Lagging
  BY DEF PipelineInit, Init, Lagging, Active, HasStatus
<1>2. EInv /\ [PipelineNext]_pipelineVars => Lagging'
  BY LagSteps
<1>3. EInv <=> IInv /\ Timely /\ Lagging
  BY DEF EInv
<1>4. PipelineSpec => []IInv
  BY KeepsManagerHolds, Invariance DEF PipelineKeepsManager
<1> QED BY <1>1, <1>2, <1>3, <1>4, TimelyAlways, PTL DEF PipelineSpec

\* Rows turn from active to expired in two steps only: the periodic sweep, for
\* a candidate in memory, and the load after a restart.
LEMMA ExpiryMove ==
  ASSUME IInv, Move, NEW k \in Tokens, ExpiresNow(k)
  PROVE  now - rows[k].cand.last > MaxStay
<1>0. /\ TypeOK /\ RowsMirrorMemory /\ rows \in [Tokens -> Row \cup {None}]
      /\ HasStatus(k, "active") /\ rows'[k].status = "expired"
  BY DEF IInv, TypeOK, ExpiresNow, HasStatus
<1>1. rows[k].status = "active"
  BY <1>0 DEF HasStatus
<1>2. ASSUME NEW j \in Tokens, NEW c \in Candidate, Updates(j, c) \/ Enters(j, c)
      PROVE  FALSE
  <2>1. rows' = [rows EXCEPT ![j] = ActiveRow(c)]
    BY <1>2 DEF Updates, Enters, Save
  <2> QED BY <1>0, <1>1, <2>1, StatusOfRow
<1>3. ASSUME NEW w \in Tokens, NEW j \in Tokens, NEW c \in Candidate, NEW t \in Nat,
             Swaps(w, j, c, t)
      PROVE  FALSE
  <2>1. \/ rows'[k] = rows[k] \/ rows'[k] = ActiveRow(c)
        \/ rows'[k] = RetiredRow("evicted", t)
    BY <1>0, <1>3 DEF Swaps
  <2> QED BY <1>0, <1>1, <2>1, StatusOfRow
<1>4. ASSUME NEW j \in Tokens, NEW t \in Nat, IsVetoed(j, t)
      PROVE  FALSE
  <2>1. rows'[k] = rows[k] \/ rows'[k] = RetiredRow("vetoed", t)
    BY <1>0, <1>4 DEF IsVetoed
  <2> QED BY <1>0, <1>1, <2>1, StatusOfRow
<1>5. CASE up /\ Expires
  <2>1. Silent(k, now)
    BY <1>0, <1>1, <1>5 DEF Expires, Expire
  <2>2. mem[k] # None /\ rows[k] = ActiveRow(mem[k])
    BY <1>0, <1>5, <2>1 DEF Silent, RowsMirrorMemory, Active
  <2> QED BY <2>1, <2>2 DEF Silent, ActiveRow
<1>6. ASSUME NEW w \in Tokens, NEW t \in Nat, CrashesEvicting(w, t)
      PROVE  FALSE
  <2>1. rows'[k] = rows[k] \/ rows'[k] = RetiredRow("evicted", t)
    BY <1>0, <1>6 DEF CrashesEvicting
  <2> QED BY <1>0, <1>1, <2>1, StatusOfRow
<1>7. CASE Recover
  <2>1. Stale(k)
    BY <1>0, <1>1, <1>7 DEF Recover, Restart
  <2> QED BY <2>1 DEF Stale
<1>8. CASE Tick \/ Crashes \/ UNCHANGED vars
  BY <1>0, <1>1, <1>8 DEF Tick, Crashes, Crash, vars
<1> QED BY <1>2, <1>3, <1>4, <1>5, <1>6, <1>7, <1>8 DEF Move

\* A token expires only after a silence of nearly max_stay: late timestamps and
\* restarts cost it at most the age a timestamp can have.
THEOREM ExpiresAfterNearlyMaxStayHolds == PipelineSpec => ExpiresAfterNearlyMaxStay
<1>1. EInv /\ [PipelineNext]_pipelineVars =>
        [\A k \in Tokens :
            ExpiresNow(k) => now - evidence[k] > MaxStay - MaxLag]_pipelineVars
  <2> SUFFICES ASSUME EInv, [PipelineNext]_pipelineVars, NEW k \in Tokens, ExpiresNow(k)
               PROVE  now - evidence[k] > MaxStay - MaxLag
    OBVIOUS
  <2>1. TypeOK /\ now \in Nat /\ evidence[k] \in Nat /\ MaxStay \in Nat /\ MaxLag \in Nat
    BY CandidatesAssumption DEF EInv, IInv, TypeOK, Timely, PipelineTypeOK
  <2>2. Move
    BY <2>1, TasksCallManager, StepsAreMoves DEF EInv
  <2>3. now - rows[k].cand.last > MaxStay
    BY <2>2, ExpiryMove DEF EInv
  <2>4. evidence[k] - rows[k].cand.last <= MaxLag
    BY DEF EInv, Lagging, ExpiresNow
  <2>5. rows[k].cand.last \in Nat
    BY <2>1, ActiveLast DEF ExpiresNow
  <2> QED BY <2>1, <2>3, <2>4, <2>5
<1> QED BY <1>1, EInvAlways, PTL DEF PipelineSpec, ExpiresAfterNearlyMaxStay

=============================================================================

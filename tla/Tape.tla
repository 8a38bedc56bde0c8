-------------------------------- MODULE Tape --------------------------------
(***************************************************************************)
(* The tape of one token: TokenTape, TapeStore, fetch_tape and             *)
(* TapePoller.poll of scanner/tape.py.  Swaps are numbered in the order    *)
(* the API lists them.  The ring in memory and the trades table are filled *)
(* page by page while new swaps arrive, the tape may be dropped under a    *)
(* running fetch, and the process may die.  A fetch that still holds a     *)
(* dropped tape goes on storing into the tape that took its place.         *)
(***************************************************************************)
EXTENDS Integers, FiniteSets

CONSTANTS
    TimeOf,      \* the block time of each swap
    SigOf,       \* the rank of each swap's signature
    PageSize,    \* page_size
    FirstPages,  \* pages_on_first_fetch
    MaxPages,    \* first_contact_max_pages
    Span,        \* first_contact_min_span_s
    RingSize,    \* ring_size
    Every,       \* refresh_every_n_polls
    EveryLate,   \* refresh_every_n_polls_late
    None,
    MaxSwaps,    \* bound: swaps of the token
    MaxPolls     \* bound: polls of one tape

ASSUME TapeAssumption ==
    /\ {PageSize, FirstPages, MaxPages, RingSize, Every, EveryLate} \subseteq Nat \ {0}
    /\ Every <= EveryLate
    /\ {Span, MaxSwaps, MaxPolls} \subseteq Nat
    /\ TimeOf \in [1 .. MaxSwaps -> Nat]
    /\ SigOf \in [1 .. MaxSwaps -> Nat]
    /\ \A s, t \in 1 .. MaxSwaps : s <= t => TimeOf[s] <= TimeOf[t]
    /\ \A s, t \in 1 .. MaxSwaps : SigOf[s] = SigOf[t] => s = t

VARIABLES
    swaps,       \* how many swaps the API knows
    trades,      \* the trades table
    tape,        \* the store's tape of the token, or None
    late,        \* late_after_s has passed since _first_seen
    job,         \* the poll that holds eval_lock, or None
    rolledBack,  \* history: swaps of transactions that failed
    burst,       \* history: swaps that slid past a page unseen
    skips        \* history: slots skipped in a row by the refresh policy

vars == <<swaps, trades, tape, late, job, rolledBack, burst, skips>>

-----------------------------------------------------------------------------
Swaps == 1 .. MaxSwaps
Tapes == [ring : SUBSET Swaps, polls : Nat]

\* mine is the ring poll() is left with when its tape is dropped; attached
\* tells whether the tape fetch_tape() counts on is still the store's.
Jobs == [first : BOOLEAN, deep : BOOLEAN, left : Nat, offset : Nat, pages : Nat,
         mine : (SUBSET Swaps) \cup {None}, attached : BOOLEAN]

ASSUME NoneAssumption ==
    /\ None \notin Tapes \cup Jobs
    /\ \A ring \in SUBSET Swaps : ring # None

TypeOK ==
    /\ swaps \in 0 .. MaxSwaps
    /\ trades \subseteq Swaps
    /\ tape \in Tapes \cup {None}
    /\ late \in BOOLEAN
    /\ job \in Jobs \cup {None}
    /\ rolledBack \subseteq Swaps
    /\ burst \subseteq Swaps
    /\ skips \in Nat

Earlier(s, t) == TimeOf[s] < TimeOf[t] \/ (TimeOf[s] = TimeOf[t] /\ SigOf[s] < SigOf[t])

Smaller(a, b) == IF a <= b THEN a ELSE b

\* ORDER BY ts DESC LIMIT: rows of one time may come in any order.
NewestByTime ==
    {S \in SUBSET trades :
        /\ Cardinality(S) = Smaller(RingSize, Cardinality(trades))
        /\ \A s \in S, t \in trades \ S : TimeOf[t] <= TimeOf[s]}

Page(offset) == {s \in 1 .. swaps : swaps - offset - PageSize < s /\ s <= swaps - offset}

SpanOf(ring) == TimeOf[CHOOSE s \in ring : \A t \in ring : ~Earlier(s, t)]
                - TimeOf[CHOOSE s \in ring : \A t \in ring : ~Earlier(t, s)]

Seen == trades \cup rolledBack

-----------------------------------------------------------------------------
\* Mutated forms of the definitions below.
StartsEmpty == IF tape = None THEN {[ring |-> {}, polls |-> 0]} ELSE {tape}

SkipsAPage(offset) == offset + PageSize + 1

ForgetsTheSlot(t) == t.polls

-----------------------------------------------------------------------------
Init ==
    /\ swaps = 0
    /\ trades = {}
    /\ tape = None
    /\ late = FALSE
    /\ job = None
    /\ rolledBack = {} /\ burst = {} /\ skips = 0

\* TapeStore.get: a tape made anew takes up the newest rows of the table.
Get == IF tape = None THEN {[ring |-> S, polls |-> 0] : S \in NewestByTime} ELSE {tape}

\* TokenTape.add: sorted by time and signature, the last RingSize are kept.
Add(ring, new) ==
    LET all == ring \cup new
    IN {s \in all : Cardinality({t \in all : Earlier(s, t)}) < RingSize}

\* The market trades on.
Swap ==
    /\ swaps < MaxSwaps
    /\ swaps' = swaps + 1
    /\ UNCHANGED <<trades, tape, late, job, rolledBack, burst, skips>>

\* late_after_s runs out.
GrowOld ==
    /\ ~late
    /\ late' = TRUE
    /\ UNCHANGED <<swaps, trades, tape, job, rolledBack, burst, skips>>

-----------------------------------------------------------------------------
(* TapePoller.poll, up to its first await *)

IsFirst(t) == t.polls = 0

Due(t) == IsFirst(t) \/ t.polls % (IF late THEN EveryLate ELSE Every) = 0

SlotAfter(t) == t.polls + 1

PollBegins(t) ==
    /\ job = None
    /\ t \in Get
    /\ t.polls < MaxPolls
    /\ late' = (late /\ ~IsFirst(t))

SkipRefresh ==
    \E t \in Get :
        /\ PollBegins(t)
        /\ ~Due(t)
        /\ tape' = [t EXCEPT !.polls = SlotAfter(t)]
        /\ skips' = skips + 1
        /\ UNCHANGED <<swaps, trades, job, rolledBack, burst>>

SkipBudget ==
    \E t \in Get :
        /\ PollBegins(t)
        /\ Due(t)
        /\ tape' = t
        /\ UNCHANGED <<swaps, trades, job, rolledBack, burst, skips>>

StartFetch ==
    \E t \in Get :
        /\ PollBegins(t)
        /\ Due(t)
        /\ tape' = t
        /\ job' = [first |-> IsFirst(t), deep |-> FALSE,
                   left |-> IF IsFirst(t) THEN FirstPages ELSE 1,
                   offset |-> 0, pages |-> 0, mine |-> None, attached |-> TRUE]
        /\ skips' = 0
        /\ UNCHANGED <<swaps, trades, rolledBack, burst>>

-----------------------------------------------------------------------------
(* fetch_tape, from one await to the next *)

NextOffset(offset) == offset + PageSize

\* What the end of a fetch_tape adds to the polls of the store's tape: the
\* fetch counts one on its own tape, a deep one is taken back from poll's.
Counted(j) ==
    IF j.deep THEN (IF j.attached THEN 1 ELSE 0) - (IF j.mine = None THEN 1 ELSE 0)
    ELSE IF j.attached THEN 1 ELSE 0

MyRing(j, t) == IF j.mine = None THEN t.ring ELSE j.mine

Exhausted(j, new, t) ==
    \/ Page(j.offset) = {}
    \/ swaps <= j.offset + PageSize
    \/ new = {} /\ ~j.deep /\ MyRing(j, t) # {}

\* The loop condition of the first contact, its budget check aside.
WantsDepth(j, t) ==
    /\ j.first
    /\ j.pages < MaxPages
    /\ MyRing(j, t) # {} /\ SpanOf(MyRing(j, t)) < Span

\* The swaps newer than all that is known and already older than the page.
SlidPast ==
    {s \in 1 .. swaps : /\ Seen # {} /\ \A t \in Seen : t < s
                        /\ s <= swaps - job.offset - PageSize}

\* The page with its swaps, stored in the tape t that get returns.
Ingested(t, new) ==
    /\ trades' = trades \cup new
    /\ burst' = burst \cup SlidPast
    /\ UNCHANGED <<swaps, late, rolledBack, skips>>

NextPage ==
    /\ job # None
    /\ \E t \in Get :
        LET new == Page(job.offset) \ t.ring
            t2  == [t EXCEPT !.ring = Add(@, new)] IN
        /\ Ingested(t, new)
        /\ ~Exhausted(job, new, t2)
        /\ job.left > 1
        /\ tape' = t2
        /\ job' = [job EXCEPT !.left = @ - 1, !.offset = NextOffset(@), !.pages = @ + 1]

LastPage ==
    /\ job # None
    /\ \E t \in Get :
        LET new  == Page(job.offset) \ t.ring
            t2   == [t EXCEPT !.ring = Add(@, new), !.polls = @ + Counted(job)]
            j2   == [job EXCEPT !.left = 1, !.offset = NextOffset(@), !.pages = @ + 1,
                                !.deep = TRUE, !.attached = TRUE]
            ends == Exhausted(job, new, t2) IN
        /\ Ingested(t, new)
        /\ ends \/ job.left = 1
        /\ tape' = t2
        /\ \/ job' = None
           \/ ~ends /\ WantsDepth(j2, t2) /\ job' = j2

\* BirdeyeError: the fetch ends and counts as a poll all the same.
PageFails ==
    /\ job # None
    /\ job' = None
    /\ tape' = IF tape = None THEN None ELSE [tape EXCEPT !.polls = @ + Counted(job)]
    /\ UNCHANGED <<swaps, trades, late, rolledBack, burst, skips>>

\* The transaction rolls back and the exception ends the poll: the ring has
\* the swaps, the table has not, and nothing is counted.
StoreFails ==
    /\ job # None
    /\ \E t \in Get :
        LET new == Page(job.offset) \ t.ring IN
        /\ new # {}
        /\ tape' = [t EXCEPT !.ring = Add(@, new)]
        /\ rolledBack' = rolledBack \cup new
    /\ burst' = burst \cup SlidPast
    /\ job' = None
    /\ UNCHANGED <<swaps, trades, late, skips>>

-----------------------------------------------------------------------------
\* TapeStore.drop, by tape_loop's expiry or after a veto.
Drop ==
    /\ tape # None
    /\ tape' = None
    /\ job' = IF job = None THEN None
              ELSE [job EXCEPT !.mine = IF @ = None THEN tape.ring ELSE @, !.attached = FALSE]
    /\ skips' = 0
    /\ UNCHANGED <<swaps, trades, late, rolledBack, burst>>

\* The process dies and starts again; only the table is left.
Restart ==
    /\ tape' = None /\ job' = None /\ late' = FALSE
    /\ skips' = 0
    /\ UNCHANGED <<swaps, trades, rolledBack, burst>>

Next ==
    \/ Swap \/ GrowOld
    \/ SkipRefresh \/ SkipBudget \/ StartFetch
    \/ NextPage \/ LastPage \/ PageFails \/ StoreFails
    \/ Drop \/ Restart

Spec == Init /\ [][Next]_vars

-----------------------------------------------------------------------------
\* What Stage 2 evaluates is the newest history there is: a stored swap that
\* is not in the ring is no newer than anything in it, and the ring is full.
\* Holds over drops, reloads, restarts, ties at the edge of the ring and
\* transactions that rolled back.
RingIsNewest ==
    tape # None =>
        \A t \in trades \ tape.ring :
            /\ Cardinality(tape.ring) = RingSize
            /\ \A s \in tape.ring : TimeOf[t] <= TimeOf[s]

\* Paging by offset over a list that grows leaves no hole: a swap missing
\* between two seen ones was in a transaction that failed, or more swaps
\* than a page arrived between two looks at the newest page.
HolesExplained ==
    \A s \in 1 .. swaps :
        /\ \E t \in Seen : t < s
        /\ \E t \in Seen : s < t
        => s \in trades \cup rolledBack \cup burst

\* Whatever turns late, is dropped or fails in between, the slots skipped in a
\* row stay fewer than the slower refresh rate has, or, when the two rates do
\* not fit together and the faster run is taken up by the slower one, than both
\* runs have (poll's cadence).
SkipsBounded ==
    /\ skips <= Every + EveryLate - 2
    /\ EveryLate % Every = 0 => skips < EveryLate
=============================================================================

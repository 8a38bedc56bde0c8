------------------------------- MODULE Pipeline -------------------------------
(***************************************************************************)
(* The tasks of scanner/runner.py that share the candidate manager: one    *)
(* chain's scan loop, the tape loop, and the poll-and-evaluate jobs both   *)
(* of them start, which take turns under eval_lock.                        *)
(*                                                                         *)
(* The process is one asyncio thread.  A task gives the thread up only at  *)
(* an await, so an action is what a task does between two awaits, except   *)
(* that the handling of a scanned page is cut at its database statements,  *)
(* where the process may die; no other task runs in between (Quiet).       *)
(* All tokens are of one chain, and the day's CU stays below the cap.      *)
(***************************************************************************)
EXTENDS Candidates, Sequences

CONSTANTS
    Renominate,    \* stage1.renominate_after_s
    RefreshEvery   \* tape.refresh_every_n_polls

ASSUME PipelineAssumption == Renominate \in Nat /\ RefreshEvery \in Nat \ {0}

VARIABLES
    nominated,  \* nominations table and last_nominated: latest time, or None
    scan,       \* the chain loop
    waiting,    \* jobs queued for eval_lock, first come first served
    job,        \* the job that holds eval_lock, or None
    tape,       \* TapeStore.tapes: poll count of each tape in memory, or None
    stored,     \* tokens with rows in the trades table
    evidence    \* history: the latest timestamp of evidence for each token

taskVars == <<nominated, scan, waiting, job, tape, stored>>
history == <<evidence>>
pipelineVars == <<vars, taskVars, history>>

-----------------------------------------------------------------------------
\* Poll counts matter only as zero and as a remainder modulo RefreshEvery;
\* RefreshEvery stands for its nonzero multiples.
PollCount == 0 .. RefreshEvery
NextPoll(n) == IF n = RefreshEvery THEN 1 ELSE n + 1
Refreshes(n) == n \in {0, RefreshEvery}

PollsOf(k) == IF tape[k] = None THEN 0 ELSE tape[k]

Idle == [at |-> "idle", ts |-> 0, noms |-> {}, fresh |-> {}, seen |-> {}]
Scan == [at : {"idle", "fetching", "handling"}, ts : Nat,
         noms : SUBSET Tokens, fresh : SUBSET Tokens, seen : SUBSET Tokens]

Job == [tick : BOOLEAN, stage : {"polling", "evaluating"}, tokens : SUBSET Tokens,
        todo : SUBSET Tokens, fetching : SUBSET Tokens, ts : Nat]
NewJob(S, tick) == [tick |-> tick, stage |-> "polling", tokens |-> S, todo |-> S,
                    fetching |-> {}, ts |-> 0]

TapeLoopBusy ==
    \/ job # None /\ job.tick
    \/ \E i \in 1 .. Len(waiting) : waiting[i].tick

Quiet == up /\ scan.at # "handling"

\* Evidence handed to the manager for token k, stamped t.
Witness(k, t) ==
    evidence' = [evidence EXCEPT ![k] = IF @ >= t THEN @ ELSE t]

-----------------------------------------------------------------------------
\* chain_loop -------------------------------------------------------------

\* Stage0.cycle stamps the cycle, then awaits the page.
ScanRequest ==
    /\ Quiet /\ scan.at = "idle"
    /\ scan' = [Idle EXCEPT !.at = "fetching", !.ts = now]
    /\ UNCHANGED <<vars, nominated, waiting, job, tape, stored, history>>

Renominable(k, t) == nominated[k] # None => t - nominated[k] >= Renominate

\* The page arrives; Stage1Engine.run_cycle commits the nominations N.
ScanReturn(N) ==
    /\ Quiet /\ scan.at = "fetching"
    /\ \A k \in N : Renominable(k, scan.ts)
    /\ nominated' = [k \in Tokens |-> IF k \in N THEN scan.ts ELSE nominated[k]]
    /\ scan' = [scan EXCEPT !.at = "handling", !.noms = N, !.fresh = N]
    /\ UNCHANGED <<vars, waiting, job, tape, stored, history>>

\* A budget skip, an API error or an empty page: the cycle ends there.
ScanFails ==
    /\ Quiet /\ scan.at = "fetching"
    /\ scan' = Idle
    /\ UNCHANGED <<vars, nominated, waiting, job, tape, stored, history>>

HandNomination(k, rvol) ==
    /\ up /\ scan.at = "handling" /\ k \in scan.noms
    /\ OnNomination(k, rvol, scan.ts)
    /\ scan' = [scan EXCEPT !.noms = @ \ {k}]
    /\ IF mem'[k] # None THEN Witness(k, scan.ts) ELSE UNCHANGED evidence
    /\ UNCHANGED <<now, up, nominated, waiting, job, tape, stored>>

\* The STAY check, once a page, of an active token that the page lists but
\* did not nominate.
HandStay(k, rvol) ==
    /\ up /\ scan.at = "handling" /\ scan.noms = {}
    /\ k \notin scan.fresh \cup scan.seen
    /\ OnStage1Row(k, rvol, scan.ts)
    /\ scan' = [scan EXCEPT !.seen = @ \cup {k}]
    /\ IF Stays(rvol, StayRVol) THEN Witness(k, scan.ts) ELSE UNCHANGED evidence
    /\ UNCHANGED <<now, up, nominated, waiting, job, tape, stored>>

\* Nominees never polled before get a job at once; the loop sleeps.
FirstContacts == {k \in scan.fresh : mem[k] # None /\ mem[k].polls = 0 /\ PollsOf(k) = 0}

ScanDone ==
    /\ up /\ scan.at = "handling" /\ scan.noms = {}
    /\ waiting' = IF FirstContacts = {} THEN waiting
                  ELSE Append(waiting, NewJob(FirstContacts, FALSE))
    /\ scan' = Idle
    /\ UNCHANGED <<vars, nominated, job, tape, stored, history>>

-----------------------------------------------------------------------------
\* tape_loop --------------------------------------------------------------

DropTapes(S) == tape' = [k \in Tokens |-> IF k \in S THEN None ELSE tape[k]]

TapeTick ==
    /\ Quiet /\ ~TapeLoopBusy
    /\ Expire(now)
    /\ DropTapes({k \in Tokens : Silent(k, now)})
    /\ LET S == {k \in Tokens : mem'[k] # None} IN
       waiting' = IF S = {} THEN waiting ELSE Append(waiting, NewJob(S, TRUE))
    /\ UNCHANGED <<now, up, nominated, scan, job, stored, history>>

-----------------------------------------------------------------------------
\* poll_and_evaluate ------------------------------------------------------

TakeLock ==
    /\ Quiet /\ job = None /\ waiting # <<>>
    /\ job' = Head(waiting)
    /\ waiting' = Tail(waiting)
    /\ UNCHANGED <<vars, nominated, scan, tape, stored, history>>

Polling(k) ==
    /\ Quiet /\ job # None
    /\ job.stage = "polling" /\ job.fetching = {} /\ k \in job.todo

\* A poll slot between two refreshes only counts.
PollSkip(k) ==
    /\ Polling(k)
    /\ ~Refreshes(PollsOf(k))
    /\ tape' = [tape EXCEPT ![k] = NextPoll(PollsOf(k))]
    /\ job' = [job EXCEPT !.todo = @ \ {k}]
    /\ UNCHANGED <<vars, nominated, scan, waiting, stored, history>>

\* The trades request goes out; TapeStore.get has made a tape if need be.
PollFetch(k) ==
    /\ Polling(k)
    /\ Refreshes(PollsOf(k))
    /\ tape' = [tape EXCEPT ![k] = PollsOf(k)]
    /\ job' = [job EXCEPT !.todo = @ \ {k}, !.fetching = {k}]
    /\ UNCHANGED <<vars, nominated, scan, waiting, stored, history>>

\* Mutated form of PollReturn: an error does not count as a poll.
ErrorUncounted(k, answer) ==
    /\ Quiet /\ job # None /\ k \in job.fetching
    /\ tape' = [tape EXCEPT ![k] = IF answer = "error" THEN @
                                   ELSE IF @ # None THEN NextPoll(@) ELSE 0]
    /\ stored' = IF answer = "trades" THEN stored \cup {k} ELSE stored
    /\ job' = [job EXCEPT !.fetching = {}]
    /\ UNCHANGED <<vars, nominated, scan, waiting, history>>

\* The answer counts as a poll, an error too.  When the tape was dropped
\* meanwhile, the count goes to the orphan and ingest makes a tape anew.
PollReturn(k, answer) ==
    /\ Quiet /\ job # None /\ k \in job.fetching
    /\ tape' = [tape EXCEPT ![k] = IF @ # None THEN NextPoll(@)
                                   ELSE IF answer = "error" THEN None ELSE 0]
    /\ stored' = IF answer = "trades" THEN stored \cup {k} ELSE stored
    /\ job' = [job EXCEPT !.fetching = {}]
    /\ UNCHANGED <<vars, nominated, scan, waiting, history>>

\* evaluate_candidates reads the clock once for the whole batch.
BeginEvaluation ==
    /\ Quiet /\ job # None
    /\ job.stage = "polling" /\ job.todo = {} /\ job.fetching = {}
    /\ job' = [job EXCEPT !.stage = "evaluating", !.todo = job.tokens, !.ts = now]
    /\ UNCHANGED <<vars, nominated, scan, waiting, tape, stored, history>>

Evaluating(k) ==
    /\ Quiet /\ job # None
    /\ job.stage = "evaluating" /\ k \in job.todo
    /\ job' = [job EXCEPT !.todo = @ \ {k}]

\* An empty tape is passed over.
EvaluateNothing(k) ==
    /\ Evaluating(k)
    /\ k \notin stored
    /\ tape' = [tape EXCEPT ![k] = PollsOf(k)]
    /\ UNCHANGED <<vars, nominated, scan, waiting, stored, history>>

\* Mutated form of EvaluateVeto: the token leaves the dict but not the table.
VetoUnsaved(k, ofi) ==
    /\ Evaluating(k)
    /\ k \in stored
    /\ mem' = [mem EXCEPT ![k] = None]
    /\ tape' = [tape EXCEPT ![k] = None]
    /\ UNCHANGED <<now, up, veto, rows, nominated, scan, waiting, stored, evidence>>

\* The enrichments and the safety check have been awaited: the decision is
\* persisted and the manager told.
EvaluateVeto(k, ofi) ==
    /\ Evaluating(k)
    /\ k \in stored
    /\ OnTapeInactive(k) \/ OnTapeVetoed(k, ofi, job.ts)
    /\ tape' = [tape EXCEPT ![k] = IF mem[k] # None THEN None ELSE PollsOf(k)]
    /\ UNCHANGED <<now, up, nominated, scan, waiting, stored, evidence>>

EvaluateStay(k, ofi) ==
    /\ Evaluating(k)
    /\ k \in stored
    /\ OnTapeInactive(k) \/ OnTapeStays(k, ofi, job.ts)
    /\ tape' = [tape EXCEPT ![k] = PollsOf(k)]
    /\ IF mem[k] # None /\ Stays(ofi, StayOFI) THEN Witness(k, job.ts)
       ELSE UNCHANGED evidence
    /\ UNCHANGED <<now, up, nominated, scan, waiting, stored>>

\* The batch is through, or an exception ends it early; the lock is free.
JobEnds ==
    /\ Quiet /\ job # None
    /\ job.stage = "evaluating" /\ job.todo = {}
    /\ job' = None
    /\ UNCHANGED <<vars, nominated, scan, waiting, tape, stored, history>>

JobRaises ==
    /\ Quiet /\ job # None /\ job.fetching = {}
    /\ job' = None
    /\ UNCHANGED <<vars, nominated, scan, waiting, tape, stored, history>>

-----------------------------------------------------------------------------
\* Time passes while a task awaits, at most MaxLag within one scan or one
\* evaluation.
PipelineTick ==
    /\ Tick
    /\ scan.at # "handling"
    /\ scan.at = "fetching" => now - scan.ts < MaxLag
    /\ job # None /\ job.stage = "evaluating" => now - job.ts < MaxLag
    /\ UNCHANGED <<taskVars, history>>

ForgetTasks ==
    /\ scan' = Idle
    /\ waiting' = <<>>
    /\ job' = None
    /\ tape' = [k \in Tokens |-> None]
    /\ UNCHANGED <<now, nominated, stored, history>>

PipelineCrash ==
    /\ up
    /\ \/ Crash
       \/ \E k \in scan.noms, rvol \in RVols \cup {None} :
              scan.at = "handling" /\ CrashAfterEviction(k, rvol, scan.ts)
    /\ ForgetTasks

PipelineRestart ==
    /\ Recover
    /\ UNCHANGED <<taskVars, history>>

PipelineInit ==
    /\ Init
    /\ nominated = [k \in Tokens |-> None]
    /\ scan = Idle
    /\ waiting = <<>>
    /\ job = None
    /\ tape = [k \in Tokens |-> None]
    /\ stored = {}
    /\ evidence = [k \in Tokens |-> 0]

JobStep ==
    \/ TakeLock \/ BeginEvaluation \/ JobEnds
    \/ \E k \in Tokens :
          \/ PollSkip(k) \/ PollFetch(k) \/ EvaluateNothing(k)
          \/ \E answer \in {"trades", "empty", "error"} : PollReturn(k, answer)
          \/ \E ofi \in OFIs \cup {None} : EvaluateVeto(k, ofi) \/ EvaluateStay(k, ofi)

ScanStep ==
    \/ ScanRequest \/ ScanFails \/ ScanDone
    \/ \E N \in SUBSET Tokens : ScanReturn(N)
    \/ \E k \in Tokens, rvol \in RVols \cup {None} : HandNomination(k, rvol)

PipelineNext ==
    \/ PipelineTick \/ ScanStep \/ TapeTick \/ JobStep
    \/ \E k \in Tokens, rvol \in RVols \cup {None} : HandStay(k, rvol)
    \/ JobRaises \/ PipelineCrash \/ PipelineRestart

PipelineSpec == PipelineInit /\ [][PipelineNext]_pipelineVars

\* asyncio runs ready tasks in the order they became ready and every await is
\* bounded by a timeout, so a task that keeps getting ready gets its turn, even
\* between the pages the chain loop handles; and not every batch raises.  The
\* process is assumed not to crash.
SteadyNext ==
    \/ PipelineTick \/ ScanStep \/ TapeTick \/ JobStep \/ JobRaises
    \/ \E k \in Tokens, rvol \in RVols \cup {None} : HandStay(k, rvol)

FairSpec ==
    /\ PipelineInit
    /\ [][SteadyNext]_pipelineVars
    /\ WF_pipelineVars(ScanStep)
    /\ SF_pipelineVars(TapeTick)
    /\ SF_pipelineVars(JobStep)
    /\ \A k \in Tokens : SF_pipelineVars(PollFetch(k) \/ PollSkip(k))

-----------------------------------------------------------------------------
PipelineTypeOK ==
    /\ nominated \in [Tokens -> Nat \cup {None}]
    /\ scan \in Scan
    /\ waiting \in Seq(Job)
    /\ job \in Job \cup {None}
    /\ tape \in [Tokens -> PollCount \cup {None}]
    /\ stored \in SUBSET Tokens
    /\ evidence \in [Tokens -> Nat]

\* However the tasks interleave, the manager inside them is the one of module
\* Candidates: no handler runs with a timestamp older than MaxLag, none runs
\* while the process is down, and nothing else touches its state.
PipelineKeepsManager == Spec

ExpiresNow(k) == HasStatus(k, "active") /\ HasStatus(k, "expired")'

\* Evaluations and scans hand the manager timestamps out of order, yet a token
\* expires only after a silence of max_stay less the age a timestamp can have
\* (Expire, _load).
ExpiresAfterNearlyMaxStay ==
    [][\A k \in Tokens :
          ExpiresNow(k) => now - evidence[k] > MaxStay - MaxLag]_pipelineVars

\* No active token is left without a look at its trades: it is polled, or it
\* leaves the set (tape_loop, eval_lock, the on-nomination jobs).
ActiveArePolled ==
    \A k \in Tokens : mem[k] # None ~> mem[k] = None \/ PollsOf(k) > 0
=============================================================================

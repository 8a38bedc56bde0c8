# Momentum ignition scanner: TLA+ models, checks and proofs

This directory holds TLA+ models of the scanner in `src/scanner/`, the TLC
configurations that check them on small instances, and proofs, checked by TLAPS, of
theorems that hold for every value of the constants. The models are written from the
code; `PROJECT.json` maps every definition to the lines it stands for.

## 1. The system

One Python process, one asyncio thread, one SQLite database in autocommit mode.
`runner.run` starts a **chain loop** per chain (scan a page, score it, nominate), one
**tape loop** (poll the trades of the active candidates and evaluate them) and one
**label loop** (label outcomes, re-check alerted tokens, deliver warnings). A task gives
the thread up only at an `await`; the handlers between two awaits are whole with respect
to other tasks, but not with respect to a crash, since every statement outside
`BEGIN .. COMMIT` commits by itself. Loops swallow exceptions and go on.

| Component (source) | State it keeps | Operations | Hard behaviour | What makes it correct |
|---|---|---|---|---|
| Candidate manager (`candidates.py`) | `active_set`, `veto_until` in memory; `candidates` table | `on_nomination`, `on_stage1_row`, `on_tape`, `expire`, `_load` | crash between statements, restart, cap with eviction, old timestamps | cap holds in memory and table; table is the mirror of memory; a veto outlasts restarts; only the weakest is evicted |
| Runner (`runner.py`) | tasks, `eval_lock` | `chain_loop`, `tape_loop`, `poll_and_evaluate`, `evaluate_candidates`, `label_loop` | state read before an await and used after it; queueing for one lock; a batch ended by an exception | tasks drive the manager only as it allows; every active token is looked at; a vetoed token leaves |
| Tape (`tape.py`) | poll counts and trade rings in memory; `trades` table | `poll`, `fetch_tape`, `ingest`, `drop` | paging by offset over a list that grows, failed polls that count, drops during a fetch, ring rebuilt from the table, rollback | the ring is the newest of what is stored; holes have a reason; no poll is put off for long |
| Alerts (`alerts.py`) | `AlertPolicy.last`, `sent_ts`; `alerts` table | `consider`, `send`, `load` | post first, record afterwards; timeouts, 429, rollback, crash | memory decides as the table would; only recorded alerts silence; only an unrecorded card is repeated |
| Rug watch (`rugwatch.py`, `deliver_rug_warnings`) | `rug_checks` table | `schedule`, `tick`, `pending_warnings`, `mark_delivered` | re-checks that fall due together after an outage; sources that fail; posts that fail | every finding warned of once; a warning leaves the queue when it was posted, or in a dry run; every re-check ends |
| CU budget (`ledger.py`, `_budget_ok` of every component, `birdeye._request`) | ledger table; `cu_today` counters in memory | check, await, charge | concurrent checks, midnight during an await, restart | the cap is passed by a bounded amount; counters never overstate |
| Stage 0 (`stage0.py`) | cycle id in `meta`; `scan_rows` | `cycle`, `_persist` | late answers, rollback, crash after the id was stored | rows only from answered pages, under an id of their own |
| Stage 1 (`stage1.py`) | `last_nominated`; `nominations` table | `compute_features`, `gates_for`, `run_cycle` | restart, rollback after the dict was set, one feature mode per page | nominations of a token are a cooldown apart; nothing else holds it back; a replay finds the same |
| Labeler (`labeler.py`) | `labels` table | `enqueue`, `on_cycle`, close pass, path pass | two passes over one row and one attempts column; an update of several statements; only the first 100 addresses per tick | every label ends; a price is never replaced; a path implies a close |
| Safety (`safety.py`, `evm_safety.py`) | `safety` table as a cache | `check`, `_check_evm`, `cached`, `_store` | two awaits between which the token changes; overlapping checks of one token; sources that fail | a CONFIRMED alert rests on facts since `checked_ts` |
| Scoring, near misses (`scoring.py`, `nearmiss.py`) | `decisions`, `near_misses` tables | `decide`, `classify`, `record` | stale `eval_ts`; insert that fails before `on_tape` | a near miss names the one cause; the log keeps its limits |
| Features, wash (`features.py`, `wash.py`), enrichment (`enrichment.py`) | a tape; cache table | `compute`, `find_anchor`, `make_bars`, `evaluate`, `sell_pressure` | windows at the edge of the ring, trades of one second in any order, missing wallets and prices | saved calls lose no veto; self-trading is vetoed; bars and anchor follow the tape |
| Schedule (`schedule.py`, `clock.py`) | none | `in_quiet`, `scan_interval`, `next_transition` | windows over midnight, daylight saving | the loop does not sleep into the active hours |
| Rate limiter (`ratelimit.py`), client (`birdeye.py`) | token bucket | `acquire`, `_request` | sleeping under a lock, retries | the rate holds over every window |
| Offline tools, config, schema, logging | none at run time | reports, parsing, DDL | | `replay` agrees with the live run; the rest is not modelled |

The chain loop hands nominations to the manager and starts a first-contact job; the tape
loop expires silent tokens and starts a job for the rest; jobs queue for `eval_lock`,
fetch trades, decide, tell the manager, and send alerts; an alert schedules re-checks and
labels in its transaction; the label loop re-checks and delivers. Every API call asks the
budget first.

## 2. Modules

| Module | Stands for | Notes |
|---|---|---|
| `CandidateSet` | the promise of `candidates.py`'s docstring | members, bars; no storage, no crash |
| `Candidates` | `CandidateManager` | one action per outcome of every handler, crash (also inside an eviction) and `_load` |
| `CandidatesProofs` | | EXTENDS `Pipeline`: the manager alone first, then the manager as the tasks use it |
| `Pipeline` | the chain loop of one chain, the tape loop and the jobs of `runner.py` | EXTENDS `Candidates` and calls its handlers |
| `AlertLog` | the policy as a rule about the list of recorded alerts | abstract specification of `AlertDelivery` |
| `AlertDelivery`, `AlertDeliveryProofs` | `AlertPolicy`, `Alerter.consider`, `DiscordWebhook.send` | |
| `RugWatch`, `RugWatchProofs` | `RugWatch`, `Alerter.deliver_rug_warnings` and their part of `label_loop` | |
| `Labeler`, `LabelerProofs` | `Labeler.enqueue`, `tick` with both passes, `apply_path`; `NearMissLog.record`'s inserts | |
| `CUBudget`, `CUBudgetProofs` | every component's budget check and charge | callers and components are constants |
| `Tape`, `TapeProofs` | `TokenTape`, `TapeStore`, `fetch_tape`, `TapePoller.poll` for one token | the deep pages of a first contact are actions of their own |
| `Absent` | Python's `None` | the constant that `Features` and `Scoring` share |
| `Features` | `features.compute` and what it calls | operators on a tape |
| `Wash` | `wash.evaluate`, `sell_pressure`, the gates of `Enricher` | EXTENDS `Features`; its variable is the ring while trades arrive; proved about in `DecisionsProofs` |
| `Scoring` | `scoring.decide`, `nearmiss.classify` | operators |
| `SafetyRules` | `evaluate_solana`, `simulate_paths`, `evaluate_evm`, `verdict_of` | operators, instantiated by `Decisions` |
| `Decisions`, `DecisionsProofs` | `evaluate_candidates` for one token, `SafetyChecker.check`, the rug watch's check beside it, `NearMissLog` | EXTENDS `Scoring` |
| `Ignition` | rows and filters of `stage0.py`; features, gates, ranks of `stage1.py` | operators |
| `Intake`, `IntakeProofs` | `chain_loop` with `Schedule`, `Stage0Scanner.cycle`, `Stage1.run_cycle`, the controls of `Labeler.on_cycle`, `replay` | EXTENDS `Ignition` |
| `MC...` | instances for TLC | model values, symmetry |

How state corresponds:

- `Candidates`: `mem[k]` is `active_set.get(k)`, `veto[k]` is `veto_until.get(k, 0)`,
  `rows[k]` the row of the token. A candidate record has the fields a later step reads;
  of the poll count only whether it is zero. Order flow is in tenths and relative volume
  in whole multiples, so `StrengthOf` is the code's formula times ten.
- `Pipeline`: `scan` is the chain loop's position and the page it handles, `waiting` the
  FIFO queue of the asyncio lock, `job` its holder. The handling of a page is cut at the
  statements at which the process may die; no other task runs in between (`Quiet`).
  `evidence` is a history variable that no action reads.
- `AlertDelivery`: `sending` is what `consider` holds while it awaits `send`; Discord's
  taking the card (`Deliver`) and the answer (`Recorded`, `SendFails`) are separate.
- `RugWatch`: `rows` is the `rug_checks` table, `loop` what one pass has fetched. A row
  keeps the columns as what they tell: `found` for `liq_change_pct` and `safety_now`,
  `baseline` for the findings that `liq_then` and `safety_then` leave possible. `enabled` is
  whether the process has a Discord webhook, which a new process reads anew; without one
  `send` answers 'dry-run' and the warning is marked delivered without a card (`DryRun`).
- `Labeler`: `labels` is the table, one row per event and horizon, `events` the `t0_ts` of an
  event and what `in_path_sample` says of it (a hash, so either is possible), `loop` what
  one tick holds while it awaits prices (`pricing`) or candles (`candles`). Prices are kept
  as where they came from (`source`). The updates of a close pass commit one by one:
  `PricesCrash` stops behind any of them. `tries` and `torn` are history variables.
- `CUBudget`: `total` is the ledger's sum for the day, `meter` the `cu_today`/`_day`
  pairs, `call` what a caller was granted and awaits.

- `Tape`: swaps are numbered in the order the API lists them and have a block time and the
  rank of their signature; `tape` is the store's `TokenTape`, `job` the poll that holds
  `eval_lock` with its page offset. A fetch whose tape was dropped stores into the tape
  that took its place, as the code does, which looks the tape up again for every page.
- `Wash`: `tape` is `TokenTape.ring`. Ratios are pairs, thresholds percentages, scores
  thousandths rounded down; the code's floats differ from them by rounding only.
- `Decisions`: `world` is what is true of the token, `row` its row of the table `safety`,
  `job` what `evaluate_candidates` holds, `rug` what the rug watch's forced check holds;
  `sound` is a history variable: when the facts of each source last met the hard checks.
- `Intake`: `loop` is where `chain_loop` is and what it holds, `table` is `scan_rows`,
  `last` is `last_nominated`, `cycle` the id in `meta`. `lost`, `born` and `live` are history.
  A shift moves the local time at one instant, by less or more than the quiet sleep.

Abstractions that a reader should know:

- Time is in abstract units. A handler's timestamp lies at most `MaxLag` before the clock.
- `AlertDelivery` is a process with a webhook. In a dry run `consider` decides and records the
  same, with the channel 'dry-run' (`alerts.py:341`), and no card is there to be repeated.
- Database statements do not fail in the models; they are interrupted by crashes. A
  rollback is modelled where the code handles it (`RolledBack`).
- `Pipeline` has one chain and one refresh cadence (the code slows it for old tokens);
  the day's CU stays below the cap, so `active()` never degrades; the commit of a decision
  and `on_tape` are one step; the pages of a first contact are one fetch; poll counts are
  kept as zero or modulo the refresh cadence.
- In `Pipeline` and `AlertDelivery` which tokens pass a gate is left open; the gates are
  in `Intake`, `Wash` and `Decisions`. What an API answers is left open everywhere, within
  the small sets of the MC modules.
- `Decisions` has one token; the waits for other tokens of the batch and for enrichments
  are the time between `eval_ts` and the safety check. A simulation answers with all its
  blocks or none; it and the call of `owner()` fail independently.
- `Intake` leaves out the cohort z-score, which no gate reads, and draws at most one control
  per cycle from any row (the code's draw is seeded by the cycle).
- `Labeler` gives every event an address of its own and handles the chains of a tick in any
  order. `attempts` is kept for the row of the final horizon, where the code reads it, and
  up to `MaxPathAttempts`. An answer about prices covers any part of the addresses asked
  for; none stands for an error, a reached cap and a plan without the endpoint. Windows of
  candles are nested, so candles cover all horizons from some first one on.
- `AlertDelivery` gives every recorded alert a number, so that two alerts with equal times
  are two entries of the hourly window, as they are in the code's list.

## 3. Runs

| Run | Specification | Shows |
|---|---|---|
| `candidates` | `Candidates` | type, cap, mirror, vetoes, eviction order, refinement of `CandidateSet` |
| `pipeline` | `Pipeline` | the tasks use the manager only as `Candidates` allows (`PipelineKeepsManager`); stale timestamps cost a token at most their age (`ExpiresAfterNearlyMaxStay`) |
| `pipeline_live` | `Pipeline`, fair | every active token is polled or leaves |
| `tape` | `Tape` | the ring is the newest of what is stored (`RingIsNewest`); a hole is a rolled-back page, a burst that slid past a page, or lies beyond the reach of a first contact (`HolesExplained`); polls are not put off longer than the two rates' runs together, and where one rate divides the other not longer than the slow one (`SkipsBounded`) |
| `signals` | `Wash` | the gates save no call that could veto (`GatesLoseNoVeto`); wallets trading among themselves are vetoed (`SelfTradingVetoed`); bars reach the newest trades (`BarsReachTheEnd`); an onset stays one and no earlier one appears while trades arrive in order, also when the full ring drops its oldest, as long as it reaches back beyond the trailing window (`OnsetKept`) |
| `decisions` | `Decisions` | CONFIRMED rests on facts since `checked_ts`, but for the holders of a Robinhood token when no answer names them (`ConfirmedRestsOnChecks`); a near miss names its cause (`NearMissNamesTheCause`) and the log its limits (`NearMissesSpaced`); a vetoed token leaves (`VetoedIsRemoved`) |
| `intake` | `Intake` | nominations are a cooldown apart (`NominationsSpaced`); nothing else holds a token back (`CooldownExplained`); a replay finds what was live (`ReplayAgrees`); no sleep into the active hours (`ScansResume`) |
| `alert_delivery` | `AlertDelivery` | refinement of `AlertLog`; nothing unrecorded silences; only an unrecorded card is repeated (`PingsExplained`) |
| `rugwatch` | `RugWatch` | one warning per finding, results final, and a process with a webhook marks delivered only what Discord has (`DeliveredReachedDiscord`) |
| `rugwatch_live` | `RugWatch`, fair | re-checks end, warnings leave the queue, posted where there is a webhook |
| `labeler` | `Labeler` | a path implies a close, first prices stay, paths settle together, no tick leaves anything overdue, no path is given up before its attempts |
| `cu_budget` | `CUBudget` | bounded overshoot; counters never overstate |

Every property has a mutant in `PROJECT.json`, a plausible bug that
breaks it; the mutated operators stand in the modules under "Mutated forms".

Bounds, and why they are enough:

- `candidates`: three tokens, two places: a full chain with a choice of whom to evict.
  The clock goes to 2 with a cooldown and a stay of 1, so that a veto and a stay run out
  and a token can be vetoed, wait, come back and be evicted. `MaxLag` is 0 here and 1 in
  `pipeline`; the proofs cover every lag.
- `pipeline`: two tokens, one place (a nomination evicts the token under evaluation),
  `MaxLag` 1. A job per loop and queue position is enough for every overlap of two tasks,
  because only one job runs and the chain loop starts at most one per page.
- `alert_delivery`: two tokens, two tiers of which one is uncapped, an hour longer than
  the cooldown so that both rules and their overlap come up, two posts per send, three
  cards that reach Discord (an alert, its repetition, a third that meets the cap).
- `rugwatch`: two alerts with two re-checks each; a grace of 1 lets a tick fall inside and
  outside of it. In `rugwatch_live` one alert is of a chain that is no longer configured, so the
  two re-checks of the other fall due beside each other, and an exception at one ends the tick
  for both; the grace is 0 there.
- `labeler`: two events of one chain with two horizons; one multi_price call asks for one
  address, so that one label is left out; two attempts, a grace of 0 and a deadline of 1
  bring every way to settle a row into five instants; one crash, after which the chain may
  not be configured any more.
- `cu_budget`: three tasks, of which two share a component, two midnights.
- `tape`: six swaps on four block times, two pairs of them in one block with signatures
  against the listing order; pages of two, a ring of three, up to three pages at a first
  contact, refreshes every second and later every third poll, seven polls, so that the
  change of the rate falls on every remainder of the poll count and the longest delay
  appears. A burst that slides past beneath a deep page of a first contact needs eight swaps
  and is left to the proof.
- `signals`: windows of two and three trades in a ring of five, six arrivals: every window
  is filled, slides, and loses its oldest trade; five kinds of trades, with the thresholds
  of `config.json`, except that a concentration looks at one wallet (`TopN`) instead of
  three, so that two wallets are already spread.
- `decisions`: one evaluation at a time on either chain, four tapes (above the confirmed
  bar, at the bar, below it within the margin, with a veto), a good and a bad state of each
  source, crossed so that what one source passes another fails, two events (a change, a check of the rug watch, a nomination) and a clock up to 2
  with days of 2, so that `eval_ts` and the insert may lie on two days.
- `intake`: days of ten minutes with a quiet window within the day, one over midnight and one
  of mode `slow`; a shift forward or back by two at minute 2; a cooldown of 3, a clock up to
  6, one fault (crash or rollback), one control. The proofs cover every other value.

Deadlock checking is on where the system goes on for ever. It is off in `signals` and
`decisions`, whose bounded inputs run out, and in `intake`, which ends at `MaxNow`.

Fairness:

- `pipeline_live`: asyncio's ready queue is first in first out and every await has a
  timeout, so `WF` of the chain loop's steps and `SF` of the tape loop and of jobs (which
  are disabled while a page is handled) hold. That not every batch raises before a given
  token is reached is an assumption (`SF` of its poll). No crash.
- `rugwatch_live`: the clock runs, the loop runs; a configured row that is checked again and
  again is not always the one that raises; neither Discord nor, in a dry run, the table
  refuses one warning for ever. No crash.

## 4. Observations

Places where the code differs from what a document of the repository says. The models do
what the code does, and the properties state what holds nevertheless.

- A veto decided for a token that left the active set during the evaluation arms nothing
  (`candidates.py:178`); `candidates.py:11` says "a hard veto from Stage 2 removes the token
  and blocks re-entry for veto_cooldown_min". `PipelineKeepsManager` shows that the manager
  ignores such a result altogether; `VetoedIsRemoved` covers the tokens still active.
- `last_seen_ts` goes back, because timestamps are read before awaits (`candidates.py:193`),
  so a token can expire up to the age of a timestamp early, though `candidates.py:7` says
  "silence does (max_stay_min since last evidence)": `ExpiresAfterNearlyMaxStay`.
- A card that reached Discord but was not recorded is repeated inside the cooldown
  (`alerts.py:332`); `SPEC.md:740` says "re-ping ONLY on a tier upgrade inside the cooldown".
  `PingsExplained` shows that this is the only way.
- Without a webhook a rug warning is marked delivered though nothing is posted
  (`alerts.py:125`, `SPEC.md:746` "No webhook -> dry run (persist only)"), and a later process
  with a webhook does not post it either, because it is no longer in the queue:
  `DeliveredReachedDiscord` speaks of processes with a webhook.
- A Robinhood token whose holders no answer names gets the soft flag `top10_unknown`, which caps
  nothing (`evm_safety.py:250`, where the comment says why), while `top10_proxy` is a hard check
  when there is an answer. So a token over `top10_max_pct` may be CONFIRMED:
  `ConfirmedRestsOnChecks` excepts this one fact, and no other source.
- A component's daily budget starts anew with the process (`tape.py:318`), though
  `SPEC.md:548` says "Daily tape budget 80k CU, enforced in the poller". The global cap is
  read from the ledger and holds over restarts: `OvershootBounded`.
- A re-check that no source answered is done, not retried (`rugwatch.py:128`), because the
  safety checker answers UNKNOWN; `SPEC.md:730` says "No data for 15 min after due ->
  failed".
- The path pass counts the closes missed by the close pass as its own attempts
  (`labeler.py:255` reads the column that `labeler.py:220` and `224` increase). A path can be
  given up after fewer requests than `max_path_attempts`, or after none when the cap is
  reached; `GivenUpAfterItsTries` counts both kinds.
- `apply_path` is cut short by a crash, or by a candle without a price: rows filled before
  may end as failed paths, or the others stay pending; `PathsTogether` excepts those events.
  Such a candle also ends the tick uncounted, every time, until the event's deadline.
- The feature mode of a page is that of its first row (`stage1.py:222`), not "chosen per row"
  (`stage1.py:3`). On Robinhood a page whose first row has 1-minute windows and another has none
  raises and ends the cycle; on Solana a page whose first row has no `vol_1m` does
  (`RunCycleRaises`).
- A row of the control sample holds its token back like a nomination, but only after a
  restart (`stage1.py:193` reads every tier): `CooldownExplained`.
- `next_transition` is wrong on a day with a shift of the local time; the sleep of at most 60 s
  in `chain_loop` makes up for it: `ScansResume`.
- `sell_pressure` divides by all sells, `distribution_check` by those that name a wallet
  (`wash.py:268`), so with sells without a wallet a call can be saved that would have brought
  a veto, which its docstring rules out; `GatesLoseNoVeto` excepts them.
- A chunk with too few prices ends all bars, wherever it is (`features.py:242`); the comment
  there speaks of a "partial last bar". `BarsReachTheEnd` excepts such tapes.
- A simulation with fewer blocks than asked for makes the missing paths failed ones and the
  verdict UNSAFE (`evm_safety.py:111`); the docstring says "Sim errors / RPC failures ->
  UNKNOWN, never SAFE".

## 5. Proofs

All proofs hold for any constants that meet the modules' assumptions; TLC evaluates those
assumptions on every instance.

- `CandidatesProofs`. The invariant `IInv` is type correctness, `RowsMirrorMemory`,
  `VetoesArmed`, `CapRespected` and "memory is empty while the process is down". None of
  these is inductive alone: the cap in the table after a restart needs the mirror, the
  mirror needs to know that a dead process has no memory, and the veto property needs the
  armed deadlines. Every step is first shown to be one of a few moves (update, enter, swap,
  veto, expire, crash, load); each conjunct is then proved move by move. From `IInv`
  follow `TypeCorrect`, `CapHolds`, `MirrorHolds`, `VetoesArmedHolds`,
  `VetoOutlastsCooldownHolds` and, by mapping every move to a step of `CandidateSet` or a
  stutter, `Refinement`. The cap argument counts finite sets; `Tokens` must be finite.
- `RugWatchProofs`. `IInv` adds to the properties that a row without a result has no
  finding (`RowsClean`) and that the rows the loop has in hand are as it fetched them
  (`LoopFresh`): nobody else finishes a pending row. Theorems: `TypeCorrect`,
  `WarnedOnceHolds`, `DeliveredHolds`, `FinalHolds`. For
  `DeliveredHolds`, what the loop takes as arrived has been posted (`LoopFresh`).
- `LabelerProofs`. `IInv` says of every row that a price or a path makes it done (`Settled`),
  and of the loop that the rows it holds in the close pass are still pending and those of
  the path pass exist (`Hands`); without the latter a late answer could overwrite a price.
  Every step moves a row in one of a few ways (`Moves`) and the paths of one event alike
  (`EventMoves`). Theorems: `TypeCorrect`, `FilledPathsHaveCloses`, `PathsSettleTogether`,
  `FirstPriceKept`. `Horizons` must have a largest element.
- `CUBudgetProofs`. The open grants are counted as a set of unit slots; a grant adds at
  most `Largest` slots and a charge moves slots into the total. A caller that is granted
  something had none, so every other caller holds at most `Largest`. Theorems:
  `BudgetTypeCorrect`, `OvershootHolds`. Assumes that no single grant exceeds the cap.

- `IntakeProofs`. `IInv` adds to the properties what makes them inductive: the memory holds
  the latest nomination of a token unless that one's cooldown was over when the process
  started (`MemoryHolds`, which is where `Renominate <= LookBack` is needed); cycle ids are
  new and what was evaluated is older than what will be stored (`PagesStored`); a sleeping
  loop has been in the window since some instant not longer ago than the quiet sleep
  (`QuietWait`). Features and gates are not expanded: the theorems hold whatever they
  compute. Theorems: `SpacedHolds`, `ExplainedHolds`, `ReplayHolds`, `ScansResumeHolds`.

- `AlertDeliveryProofs`. `IInv` says what the memory is worth: `last` and `sent_ts` are what the
  table holds of the alerts of this process and of the day it loaded (`LoadedOn`,
  `LastLoaded`), and a card under way was judged against a memory that has only grown since.
  `SilencedHolds` and `PingsHold` follow; `Refinement` maps every decision to the one `AlertLog`
  takes from the table anew.
- `CUBudgetProofs` also proves `NeverOverstatesHolds`: what is counted is at most what the server
  charged, on the same day (`PagesAssumption`: a call is charged for no page it did not ask for).
- `CandidatesProofs` also proves `EvictionKeepsTheStrongHolds`. That a chain is full when it
  evicts needs a count of finite sets (`FullIsExact`). Its second half is about `Pipeline`. The
  manager's own steps take a timestamp that is at most `MaxLag` old; a task takes its
  timestamp, awaits, and uses it later. `Timely` says that what the scan and the job under
  evaluation hold is still a legal timestamp when it is used (a clock tick is only possible
  before the oldest of them would be overdue, and a job takes its timestamp only when it gets
  the lock), so every step of a task is a step of the manager or a stutter:
  `KeepsManagerHolds`, and with it everything proved of `Candidates` holds of the process.
  For `ExpiresAfterNearlyMaxStayHolds` the invariant is `Lagging`: `last_seen_ts` is behind the
  latest evidence of life, and behind an earlier veto, by `MaxLag` at most, in memory and in the
  active rows a restart reads. Theorems: also `TasksTypeCorrect`.
- `LabelerProofs` also proves `TickSettlesHolds` and `GivenUpAfterItsTriesHolds`, from `SInv`:
  a row, and a path, that the tick under way no longer holds is settled, not yet overdue when
  the tick read the clock, or not served (`RowsSwept`, `PathsSwept`; rows that come in during the
  tick are due later than that clock reading), and the counter of a path is never ahead of the
  attempts really made, the one under way not counted (`AttemptsMade`), although both passes
  and every restart read it from the table.
- `TapeProofs`. For the ring: ranking the stored swaps by time and signature is an injection,
  hence on a finite set a bijection, so the newest `RingSize` of them are one list. For the
  holes: what a page adds adjoins what was seen before, unless the list slid past it. For the
  cadence: the remainders of the poll count before and after the change of the rate.
  Theorems: `TypeCorrect`, `RingHolds`, `HolesHold`, `SkipsHold`. Assumes that signatures differ.
- `DecisionsProofs`. `IInv` keeps `sound` in step with the clock and follows each source's answer
  into the row of the table and from there into the decision (`Asked`, `Measured`, `Meets`).
  Why a simulation that passes met the world: the three blocks of the plan cover every path,
  and a tax of 1 % shows as soon as an amount has 100 units (`WorldsAssumption`). For the near
  misses: a token at the bar that is not alertable has a veto and no other cause
  (`AlertableAtBar`), and the rows of one day are counted under the day they were inserted on.
  Theorems: `ConfirmedRestsOnChecksHolds`, `NearMissNamesTheCauseHolds`,
  `NearMissesSpacedHolds`, `VetoedIsRemovedHolds`.
- `DecisionsProofs` also holds what is proved of `Wash` and `Features`. Every score there is a sum
  over the trades of a window. A library theorem says that the strict subsets of a finite set
  are well-founded; from it a set of counterexamples has a minimal one (`MinimalSubset`), which
  does what induction over finite sets would: the sums exist, are natural numbers, add up over
  disjoint sets and over a partition (`SumOfSubsets`, `SumAdds`, `SumOfParts`). The invariant is
  `TapeHeld`: the ring is in the order of the timestamps. The rest is reading: the two gates compare
  one share with a smaller threshold; the wallets of a window partition its trades, so a
  window of few wallets that each buy and sell has two full shares, and the others weigh
  nothing negative; what makes an index an onset reads nothing newer than it and nothing older
  than the trailing window (`OnsetIsPast`, `TrailingMoves`), so it does not depend on where the
  ring begins: when a full ring drops its oldest trade every sum moves by one place (`SumMoved`). Theorems: `TapeIsHeld`, `GatesLoseNoVetoHolds`, `BarsReachTheEndHolds`,
  `OnsetKeptHolds`, `SelfTradingVetoedHolds`. Assumes that the gate's threshold is at most the
  veto's (`WashAssumption`) and, for the last, what `config.json` has: the two shares saturate
  below everything and their weights reach `wash_veto_score` (`SaturationAssumption`).

The attempts at these proofs found three statements that only held on instances that were too
small: `BarsReachTheEnd` with the last priced trade of the last bar in place of its `i_end` (it
held because the bars of `signals` are two trades long, both of which must have a price);
`SkipsBounded` with the slow rate alone as the bound (it fails where the slow rate is
no multiple of the fast one and the change of the rate falls between), and `HolesExplained`
with the burst possible at the first page only. All three now state what the code does, and the
instance of `tape` was enlarged for the second.

Only model-checked: the liveness properties `ActiveArePolled`, `ChecksFinish` and
`WarningsDelivered` (the prover treats neither liveness under fairness nor `ENABLED`). Every
other property a run checks is a theorem.

## 6. Plan

Done so far: `Candidates`, `Pipeline`, `AlertDelivery`, `CUBudget`, `RugWatch`, `Labeler`, `Tape`,
`Wash` with `Features`, `Decisions` with `Scoring` and `SafetyRules`, `Intake` with `Ignition`.
Next, in this order:

1. `Pipeline` with the budget degrade (`active()` empty at the cap).
2. The request loop of `birdeye.py` over the token bucket of `ratelimit.py`.

Not modelled: the retry loop and the token bucket (the models take a request as one await
that answers or fails), the cache of `enrichment.py`, the daily heartbeat, the layout of cards,
the statistics, the offline reports and command line (sequential, over recorded data), and
configuration, logging and schema (parsing and set-up before any task runs).

# cli-bridge: models, checks and proofs

TLA+ models of [cli-bridge](../src/README.md), an MCP server that lends other coding CLIs
("lanes") to a host: it spawns a delegate per question, fans questions out, runs builds in a
repository as background jobs, and keeps health, spending and conversations in a local sqlite
file. Paths below are relative to `src/src/cli_bridge/` unless they say otherwise.

`PROJECT.json` is the index: every run, the mutant each property is checked against, the source
lines of every definition, the findings, the hazards and the theorems.

## 1. The system

One Python process, one asyncio event loop, one sqlite file that other processes (a second
server, the human CLI) open too. Whatever lies between two `await`s is atomic with respect to
the other tasks of the process; nothing is atomic with respect to delegates, git and the other
processes.

| Part | State it keeps | Operations | Interacts with | What is hard | What makes it correct |
|---|---|---|---|---|---|
| Build loop, `buildloop.py` | `BuildState` per job (turn, steering queue, interrupt flag, event, turn task), never unregistered | `run_build`, `_loop`, `steer`, `snapshot`, `tail` | runs as a job, holds a zone lock, calls `_run_lane` per turn | an interrupt, a cancel, a timeout and the end of a turn in any order, all of them a `CancelledError` or a flag | interrupts keep the job, cancels end it, instructions are applied once and in order, the build ends |
| Jobs, `jobs.py` | `Job` per id, a row per job in sqlite, a result file | `start_job`, `_run`, `status`, `result`, `cancel`, sweep at startup | the tool dispatch; the CLI shares the rows | cancel against completion; a restart; another process's rows | one final status; never `running` for ever, never `interrupted` while alive |
| Zone contract, `worktrees.py` | `_ZONE_LOCKS`, the repository itself | `ask_build_direct`, `_zone_violations`, `_revert_zone`, `_zone_diff` | git, the host's own edits, delegates | two builds and a host in one working tree | one delegate per zone; only the delegate's own work is taken back |
| Isolated builds, `worktrees.py` | a temporary worktree and branch | `ask_build_isolated` | git, `_run_lane` | a cancel between add and remove | the real tree changes only through `apply` |
| Runner, `runner.py` | the process group, `_PACE_LAST` and its locks | `arun`, `_arun_streamed`, `_terminate`, `pace` | every spawn | timeout, stall, cancel and exit racing; two pipes | no delegate outlives its call; spawns of a lane are spaced |
| Dispatch and gates, `server.py` | caches | `call_tool`, `_run_lane`, `_spawn_with_retry` | all parts | limits are read before awaits and recorded after | limits hold, retries do not repeat what is not repeatable |
| Lane health, `telemetry.py` | `lane_state` row per lane | `record`, `_update_lane_state`, `cooldown_remaining`, `reset_lane` | dispatch writes, fan-outs read | overlapping runs of a lane finishing out of order | a dead lane is benched, a live one is not benched for ever |
| Batch, `orchestrate.py` | journal row per task, budget per invocation | `batch_run`, `estimate` | dispatch, telemetry | parallel tasks on one budget; a resume beside the first run | calls within budget, done tasks are replayed |
| Converge, `orchestrate.py` | author, arbiter, panel, the plan, its rounds | `converge` | dispatch | lanes failing in the middle of a round; verdicts on a plan that changes | nobody carries a plan alone, no issue vanishes |
| Council: `council.py`, `workflows.py`, `findings.py`, `router.py`, presets of `orchestrate.py` | none beyond a call | `ask_cascade`, `ask_best`, `ask_all`, debate, consensus, review, challenge, map_review, research_verify, refine_plan, fanout_compare | dispatch, lane health, config | partial answers in any order, several waves, one lane that concludes | nobody is called at a cost the host did not agree to; every answer reaches the report; it ends |
| Conversations, `server.py`, `conversations.py`, `telemetry.py` | turns per thread in sqlite | `_run_lane_maybe_convo`, `_maybe_compact_convo`, `convo_append`, pruning | dispatch | plan, summarise over an await, replace; two servers | no turn is lost but into a summary |
| Lane facts: `config.py`, `reports.py`, `cli.py` | one config file, the environment, `deep_probes` rows | `apply_file_config_to_env`, `update_config_file`, `doctor_deep` | the shell, every host's server | one file rewritten in place; rows read before an await, written after it and reported last | what was reported as persisted is there after a restart; drift is told |
| Human CLI, `cli.py` | none of its own; opens the database and the config file as a second process | `set-cost`, `review-diff`, `security-review`, `test-plan`, `premortem`, and commands that call the server's handlers | sqlite, the config file, the workflows | it calls the workflows directly, past the handlers and what they enforce | the same rules as for a host |
| Lanes, schemas, the other reports, prompts, resources, preamble, guards, `mcp_compat`, bridges | none | look-ups and formatting | all | - | - |

The hazards this gives rise to are listed at their lines in `PROJECT.json`.

## 2. How the project is laid out

The order is that of importance: what has most concurrency and most to lose first. Every module
has an `MC` module that names its instances and one `.cfg` for each run; what is proved of a module
is in the module of its name with `Proofs` at the end, but for `Conversations` and `Converge`, the
two parts of the round table, which share `RoundTableProofs`, and `ZoneBuild` and `Runner`, the
files and the processes a delegate may leave behind, which share `DelegateProofs`. Where two
modules share one, the names of the second begin with its own (`ConvergeSpec`, `RunnerSpec`).

1. **`BuildLoop`** with **`JobLifecycle`**, the abstract job it implements.
2. **`LaneDispatch`**, a lane's calls with their spend gates, pacing, retries and records, and the
   lane's health. Gates, pacing and health are one module because they meet in one handler and the
   same recorded row.
3. **`BatchRun`**: reservations, slots, the journal and its resumes. Its tasks are calls as
   `LaneDispatch` has them, seen from outside.
4. **`ZoneBuild`**: the files of a repository, git's index, the host's own edits, direct and
   isolated builds. The lock in front of it is `BuildLoop`'s.
5. **`JobStore`**: the jobs of `JobLifecycle` as rows, pids and result files, across processes.
6. **`Runner`**: one spawn, which `BuildLoop` and `LaneDispatch` see as one step.
7. **`Conversations`**, **`Converge`**, and **`Council`** over the pure rules of
   **`CouncilRules`**: what is built on calls.
8. **`LaneFacts`**: what is remembered of a lane, in the config file and in the probe rows.

Every safety invariant and action property of the passing runs is a theorem. What would be worth
having next: the journal under `Converge`, a second server on the rows of `LaneDispatch`, the
cancel of a job as `JobStore` has it (its host's request is `BuildLoop`'s, so that `JobStore` cannot
be shown to implement `JobLifecycle` as it is). Modules that are proved about declare no recursive
operator, name the assumptions of their constants and have one action per operation.

## 3. What is modelled

### `BuildLoop`

The whole life of a steerable direct build, for a set `Builds` of them in one server process.

*State.* `pc` says where the job task is suspended: not started, `created` (scheduled, not yet
run), `locking`, awaiting a `turn`, in the `grace` wait, `settled`. `status` is `Job.status`;
`turn`, `steerQ`, `interruptRequested`, `outcome` are `BuildState`'s fields, `consecutiveFails` a
local of `_loop`. `turnTask` is how far the turn's task got, `delegate` its process group,
`orphan` that a delegate of a past turn is still running. `mustCancel` is asyncio's: a
`CancelledError` that the job task gets at its next resume. `locked` and `waiters` are the
`asyncio.Lock`s, by the key `_zone_lock` uses. `work` says that the build's files are on disk.
The other variables only remember (what was posted, applied, asked, whether a turn `overran` its
timeout, ...): no action reads them, but for the bounds.

*Actions.* `LoopStep` has one disjunct per segment of the job task from one `await` to the next:
the refusals before the lock, the lock and its queue, what follows a turn's end (interrupt,
cancel, failure, zone violation, Definition of Done passed or failed, neither), what follows the
grace wait. `TurnStep` is `_run_lane` and `arun`: spawn, return, raise, timeout, the arrival of a
cancel, the end of `_terminate`. `HostStep` is the host: start, steer (with or without
interrupt), interrupt, cancel. `DelegateObeys` and `Write` are the delegate's.

*Two details the results hang on.* (1) `Task.cancel()` on a task that awaits another one is
passed on to that one; on a task about to run it is delivered at its next resume. `Cancel` and
`Signal` say so, and a cancel that arrives in the moment between the turn's result and the loop's
next step sets `mustCancel`. (2) `_terminate` catches `TimeoutError` and `ProcessLookupError`
only: a `CancelledError` there leaves before SIGKILL (`CancelArrives`, third disjunct).

*Abstractions.* An instruction is its number. Prompts, reports, the log and diffs are left out.
Whether a path lies in the zone is a free choice after each turn (`ZoneViolated` may always
happen), as are the Definition of Done's verdict and the refusals. `_revert_zone` takes back the
files of every build of that zone. A direct build that is not a job, and a spawn that
`create_subprocess_exec` is still making when a cancel comes, are not modelled.

### `JobLifecycle`

What a host that polls a job may rely on: it runs from the moment its id is known, it ends once,
and it ends cancelled only if the host asked. `BuildLoop` implements it, with the set of builds
that had a cancel answered for `asked`: checked by TLC (`JobLifecycleSpec` in run `solo`) and
proved (`BuildIsAJob`).

### `MCBuildLoop`

Names three builds and the target directories and zones of the instances below.

### `LaneDispatch`

The calls of the delegate lanes in one server process, from the tool handler to the row in the
telemetry database, for a set `Workers` of places for calls under way.

*State.* `pc` says what a call awaits: `selected` by a fan-out and not called yet, the host's
roots (`workspace`), its turn to spawn (`pacing`), its delegate (`running`), the pause before a
retry (`backoff`). `retriesLeft` is the loop of `_spawn_with_retry`. `paceQ` is the
`asyncio.Lock` of `pace`, holder first. `bench`, `timeouts` and `empties` are the columns of
`lane_state` that decide something; `runsToday` and `creditsToday` are what the two queries behind
the gates return. Points in time are kept as the ticks left: `bench` for `cooldown_until`,
`paceLeft` for `_PACE_LAST`. Of the four ghosts, `outcomes` remembers a lane's latest outcomes as
far back as they agree, and `sinceStart` the time since its last first spawn.

*Actions.* `Ask` is a call on one lane, `Select` and `CallSelected` a fan-out, which reads the
bench first and calls later. Both go through `Enter`: the gates, `cwd`, the cache, and on to the
first thing that suspends. `RootsKnown` and `Paced` resume it. `Answer` is the whole end of a
call: the delegate's result, the row, the lane's health. `FailTransiently` and `Retry` are the
retry loop, `ResetLane` the tool `reset_lane_state`, `Cancel` a cancelled request or job,
`Midnight` the UTC day.

*Abstractions.* A call may return without a spawn for reasons not in the model (a cached answer, a
`cwd` that is no directory, a refusal by the re-entry guard), so `Enter` and `RootsKnown` always
allow it. Failures that bench nothing are one kind, `failed`; whether it was worth a retry is a
free choice. Credits are natural numbers up to `MaxCost` a run, which is what rounding to four
digits makes of them. With telemetry off or broken the gates are open by design; that is left
out, and so are a second server on the same file and a restart, which forgets `_PACE_LAST`.

### `MCLaneDispatch`

Names two workers and a lane, and the limits and intervals of the instances below.

### `BatchRun`

One run id of `batch_run` and its `M` invocations: the first one and the resumes, which may come
after it ended, after it was cancelled or died with the server, or while it still runs.

*State.* Per invocation: `cached`, what `batch_get` told it; `maxCalls`, `maxCredits`, `calls` and
`credits`, its `_BudgetLedger`; `free`, its semaphore; for each task `pc` and `attempts`, the spawns
of its call of `run_lane`; and `reported`, the tasks whose result is ok. `journal` is the table, by
`_task_key`, which equal tasks share. Three ghosts: `overlap`, that two invocations ever ran at once,
`finished`, the tasks that were ever answered ok, and `refused`, the keys that sqlite once refused
to write or to read as done.

*Actions.* `BatchGet` and `BatchPut` may each fail and say nothing, as in the code: then no row is
read, or the row stays as it was. `Begin` reads the journal and schedules the tasks. A task's first
step is one of `Replay`, `NoLane`, `Skip` (over budget, not journalled) and `Reserve`, which goes on to the
semaphore; `GetSlot`, `Spawn` and `Answer` or `Raises` are the rest of it. `Collect` is the return
of `gather`, `Cancel` the cancelled job or request, `Restart` the death of the server.

*Abstractions.* The ledger's lock and the counter's are never contended, since nothing is awaited
inside them, and are left out. `run_lane` is seen from outside: it spawns up to `Retries` times
again and answers; its gates and pacing are `LaneDispatch`'s. A credit estimate is a constant of
the task, whereas the code's average may change between invocations. Tasks start and get their
slots in order, as `gather` and the semaphore have it. sqlite refuses a write or a read whole; a
journal that is off is one that refuses everything. What is left of an invocation that is over is
nothing (`Leave`): the delegates of a cancelled one, still dying, journal nothing.

### `MCBatchRun`

Names three keys, and the keys, costs and budgets of the instances below.

### `ZoneBuild`

Builds in one git repository that the host works in meanwhile.

*State.* The repository is `head`, `index` and `tree`, each a function from paths to contents. A
build's delegate writes one content only, its own, so that a content says who wrote it. A direct
build keeps `before`, the `git status` it began with; an isolated one `base` and `wt`, the commit
and the files of its worktree. `onDisk` are the worktrees that exist, `shown` the paths that the
report of a direct build shows. Ghosts: `mine` is the host's own version of each file, `wrote` what
a direct delegate wrote, `edited` and `staged` the paths whose file, or whose entry in the index or
in the commit, somebody else changed since a build began, `usedGit` the builds whose delegate ran
git itself.

*Actions.* `Enter`, `Refuse`, `Reject` and `Accept` are `ask_build_direct`: the dirty guard, the
snapshot, the delegate, then the comparison of two statuses and either the revert of the zone
(`git checkout` and `git clean`) or the diff with intent-to-add and the reset after it.
`AddWorktree`, `Planned`, `Report` and `Cancel` are `ask_build_isolated`; `Report` may apply the
diff. `DelegateWrites`, `DelegateUsesGit` and `HostActs` run while a build awaits its delegate.
`Porcelain` is the two-letter status of a path with `_porcelain`'s rule for a path listed twice.

*Abstractions.* No ignored files, no renames, no second worktree of the host's; one content per
writer; a build's git commands succeed, as one step, since nothing awaits between them. The lock
and its queue are in `BuildLoop`; here two direct builds have different zones. `git apply` succeeds
where the file is as in the worktree's base commit, which is sufficient for text but not necessary.

### `JobStore`

Background jobs across processes: `Servers` are incarnations, which boot once and die once, and
`Pids` may be given again.

*State.* In a server: how far a job is (`pc`), its `status`, whether the result is in memory
(`kept`) or in a file (`path`). In the database: `rowStatus`, `rowPid`, `rowPath`. `found` are the
rows a booting process read as running; `files` is the overflow directory, oldest first. Ghosts:
the rows sqlite refused (`stale`), the results pruned, and what was running or dead when a process
booted.

*Actions.* `Boot` reads the running rows and `Sweep` updates those whose pid is gone, by id alone,
later. `Start`, `BodyReturns` with its `Spill`, `Settle`, `Finish`, `FailOrCancel` are `start_job`
and the three writes at a job's end (file, status, row), between which other processes look and a
crash may come. `Emit` is an answer too long to return inline, which shares the directory and its
pruning. `Die` is a crash or the end of a host.

*Abstractions.* `_pid_alive` is exact. A row is written whole or not at all. What a job does, and
its cancel, are `BuildLoop`'s.

### `Runner`

One call of `arun` and its process group: `Lead`, which it spawned, and what that started.

*State.* `stage` says what the call awaits: the pipes and the exit (`reading`), the stall guard it
cancelled (`closing`), the end of `_terminate` (`killing`). `alive`, `reaped` and `code` are the
group, `written` and `got` count the lines of each stream on either side of its pipe, `guard` is the
stall guard's task, `clock` and `quiet` count ticks. Ghosts: `cancels` (how often the host
cancelled), `signalled` (SIGTERM went to the group), `cut` (a cancel cut `_terminate` short).

*Actions.* `Spawn` chooses a delegate: who is in the group, who is deaf to SIGTERM, who holds the
pipes. `Exits` and `Writes` are the delegate's, `Reap` and `Tick` the system's. `Reads`,
`ReadsTooLong`, `Done`, `Closed`, `Deadline`, `CutOff`, `Terminated`, `GuardWakes`, `GuardEnds` and
`CancelArrives` are the segments of `arun`, `_arun_streamed`, `_terminate` and `_stall_guard`
between awaits. `Finish` is the classification by exit code and by what the output was found to
say, in the code's order.

*Abstractions.* What is found in the output is any tone; text, redaction and the log are left out.
A process that left the group, and what a delegate does when nobody waits for it any more, are not
modelled. The buffered path is the same machine without a guard: `communicate` also ends only when
both pipes and the process do.

### `Conversations`

The turns of round-table threads in sqlite, with calls of several servers under way.

*State.* `store` are the rows of a thread; each has a number, a role, and the set of recorded turns
it stands for: one, or, for a summary, all those it was made of. `clock` is AUTOINCREMENT, `minted`
the ids in use, `failed` the threads a server will not fold for a while. `pc` of a call says what it
awaits or in which half of an append it is; `thread`, `number`, `upto`, `carried` are its locals.
Ghosts: `recorded`, `torn` (something came between the two halves of an exchange), `spoiled` (pruned
under a fold, or given a number that was not the next one).

*Actions.* `Ask` looks the history up, `Answer` begins the first append, `Number` and `Insert` are
the SELECT and the INSERT of `convo_append`, each its own transaction, `InsertFails` a locked
database. `PlansFold` and `GoFold` choose what to summarise (`Old`: what no longer fits in half the
budget, never the two newest rows), `Fold` replaces it by turn number after the await, `NoFold` is a
summary that failed or came back empty, `RetryFold` the end of the pause. `Prune`, at each insert, drops the least recently used threads. `MayRun` is the event loop:
while a call is between its two appends, no other call of its server runs. `Restart` is the
process's death.

*Abstractions.* A turn has a length in `Sizes` characters and no text; which lane spoke is left out.

### `Converge`

The governance loop: an author's plan, a blind verdict of an arbiter, reviews of peers, rulings.

*State.* `author`, `arbiter`, `panel` are chosen once; `plan` is the number of its version; `blind`,
`reply` and `ruling` hold what was said of it and *on which version*. `handed` are the issues given
to the author, `residual` and `unaddressed` those in the report.

*Actions.* `Convene` and `Refused` are the choice of the council (the host's lanes, else by
family), `Draft`, `Blind`, `Review`, `Rule`, `Revise`, `NextRound` the rounds, with their failures.
`Decision` is what `_parse_adjudications` makes of the rulings on an issue: the last one on its id
wins, a dismissal or deferral without a reason is an acceptance, and so is no ruling at all. `Id` and `Label` make an issue's id
from its lane's *last* label, as the code does.

*Abstractions.* A reply is what the parsers make of it: a stance and a number of issues. Without a
run id nothing is replayed from the journal.

### `CouncilRules` and `Council`

`CouncilRules` holds the pure rules: which lanes a tool may ask and in what order
(`_ask_all_targets`, `order_lanes`, `order_for_mode`, `include_paid_resolved`), who judges
(`_pick_judge`), how votes, rankings and findings are put together (`_vote_tally`,
`aggregate_rankings`, `merge_findings`, `filter_by_severity`, `verdict`). `Council` is one session
of any tool that asks several lanes.

*State.* `asking` is the call with its policy, the lanes in cooldown, and whether it comes from a
host's tool or from the `shell`, which for reviews, test plans and premortems hands its
`--include-paid` to the targets as it is (`Paid`); `seats` the lanes it chose,
`judge` the one that concludes; `stage`, `waiting`, `reply`, `positions`, `rnd` the waves; `report`
what comes out; the ghost `said` what every seat said last.

*Actions.* `Ask` opens a session. `Answer` is one seat's reply or its failure: of a wave (`Reply`),
in any order that `Running` allows (`ask_all` has a semaphore), or of a chain (`TryNext`), whose
lanes are asked one by one. `Gather` has one disjunct per tool for what follows a wave, up to the judge's call, which
`Close` ends.

*Abstractions.* An answer is the number of its version: that two answers are similar means that they
are the same one. What is parsed from a reply (findings, votes, a ranking) is any value in a small
set. Scores are ranks. Findings' titles are numbers and similar when adjacent, which like the code's
similarity is no equivalence, so the order of merging matters; the order a report lists them in does
not, and a report's findings are a set.

### `LaneFacts`

What is remembered of a lane outside the telemetry of its runs.

*State.* `file` is the config file: absent, broken (empty, half written or mistyped), or its cost
entries and whether the user's other settings are still there. Per process: `pc` (down, up, or a
shell's command), `env`, `presetKeys` (what its environment had set before the file); of an update
under way `step`, `fact`, `cfg`; of a probe `asked`, `prev`, `seen`, `saved`. `row` are the probe
rows. Ghosts: `told` and `vouched`, the costs reported as persisted and by whom without the warning;
`hurt`, that an update met another or began with an unreadable file; for the probes `heard`, what
who reads the reports knows, `crossed`, that two of them overlapped, and `blind`, the lanes of one
that could not read or replace the rows or ended between replacing and reporting.

*Actions.* `Start`, `SetLaneCost` (the tool's), `SetCost` (a shell's command, in a process that is
down), `Open` (which empties the file), `Save`, `SaveFails`, `Mistype` (the user breaks the file),
`Die`. `Load` is the reading of the file at the head of an update. A deep probe is `DeepStart`, which
reads the rows or, when sqlite refuses, finds none; `See`, a lane's answer; `DeepStore`, which
replaces the rows or is refused; `DeepTell`, its report leaving; `DeepCut`, its end anywhere else.

*Abstractions.* The file's order of keys, and lanes that are excluded by name, are left out.

## 4. What the runs show

| Run | Instance | Shows |
|---|---|---|
| `solo` | one build with or without a Definition of Done, 4 turns, 2 failures allowed, 2 instructions, 2 interrupts, 2 cancels | `CancelHonouredWithoutInterrupt`, `SteeringOnceInOrder`, `TurnsAnswerInstructions`; what is queued while the job runs is read by a turn unless the job ends for a reason of its own (`SteeringIsRead`); `JobLifecycle` is implemented |
| `queue` | three builds of one zone, one turn each, any of them cancelled; with fairness | `OneDelegatePerLock`; every build ends (`BuildsSettle`) |
| `dispatch` | one rated lane, two callers, 4 calls, limit 2, cap 1, interval 1, one retry, one reset; with fairness | no bench outlasts the configured waits (`TypeOK`); `RunsBounded`, `CreditsBounded`, `BenchFollowsOutcomes`, `SpawnsSpaced`; every call that has its workspace returns (`CallsReturn`) |
| `batch` | three tasks with different keys, one of them of two credits, one slot, two invocations, a budget of two calls or of two credits, no retries; cancels, restarts, and reads and writes that sqlite refuses anywhere | `CallsWithinBudget`, `CreditsWithinBudget`; `FinishedIsKept`, `FinishedNotCalledAgain`; `WaitersAreServed` |
| `zonebuild` | two builds, direct or isolated, of which one has a new source file for its zone and the other a committed image; two host steps, one write each | `HostWorkKept`, `EscapesCaught`, `AcceptedIsShown`, `WorktreesDiscarded` |
| `jobstore` | three processes on two pids, two jobs, one overflow file, two long answers | `RowsTellTheTruth`, `FinalRowsStay`, `ResultsCanBeFetched` |
| `runner` | a CLI and a child, each deaf to SIGTERM or not and at the pipes or not; two lines a stream, a pipe of one, deadline 3, stall 2, two cancels; with fairness | `NoStrays`, `ResultIsTrue`; every call ends (`CallEnds`) |
| `conversations` | two calls of one server and one of another, two threads of which one is kept, four asks, a limit of three characters | `NothingForgotten`, `ExchangesStayTogether`, `FoldKeepsNewest` |
| `converge` | four lanes of three families, panels chosen by the host or not, one lane twice among them, two rounds, one issue a peer | the panel and its labels (`ConvergeTypeOK`); `ConvergedIsCarried`, `NothingDroppedSilently` |
| `council` | two free lanes, a limited and a paid one, every tool, from a host or the shell, three policies, a cooldown, two debaters, two rounds; with fairness | whoever is to conclude is there (`TypeOK`); `CostCeiling`, `EveryVoiceHeard`; every session ends (`SessionsEnd`) |
| `facts` | a server with a preset cost and one without, the shell, two lanes, two cost reports, two events of the kinds probe and user's mistake, rows that sqlite refuses to read or to replace | `FactsSurviveRestart`, `DriftIsTold` |
| `cancel_lost` | one build, two turns, one interrupt, one cancel; with fairness | refutes `CancelHonoured`, section 6 |

*States.* `solo` has 68 489 distinct states, `queue` 87 233, `batch` 908 053, `zonebuild` 3 729 657,
`facts` 2 817 821, `council` 129 838; none takes more than three minutes on two workers.

*Bounds.* `MaxSteers`, `MaxInterrupts` and `MaxCancels` bound what the host sends; `MaxTurns` and
`MaxFailRetries` are the program's own parameters, made small. One build needs two interrupts and
two cancels: the second of each is the one that meets a flag, or a `_terminate`, left by the
first. Four turns are the first, the last and two between, and let two failures of the Definition
of Done be followed by a turn. Three builds are one inside the lock,
one at the head of the queue and one behind it, so that a cancelled waiter has somebody before
and after it. Across builds only the lock and the working tree are shared, so the runs with
several builds leave steering out.

In `dispatch`, two callers are what a check before an await and a record after it need to go
wrong, and what the pacing lock needs for a holder and a waiter, either of them cancelled. Four
calls let four empties in a row come in, with the threshold at two: the base wait, its double,
and a further one that the cap of two ticks cuts. A limit of two leaves a call below the limit
beside one at it. Lanes share only the credits, so one lane is enough for all but
`CreditsBounded`, which the theorem covers for any number of them.

In `batch`, three tasks on one slot are one that calls and two that wait, and a budget of two of
either unit is met with one task left over; of the credits, also by the one task of two beside one
of one. The second invocation is the resume; a third would read a journal with no row that the
second cannot already find (done, failed, none, for each task). The invariants for invocations that
follow one another are conditions on `overlap`; the run has both kinds. Invocations stop, and that
they end is not claimed: it is `CallsReturn`'s.

In `zonebuild`, two builds are one and somebody else; a path in a zone that is untracked and text,
and one that is committed and binary, between them reach every kind of status, and each is outside
the other's zone. Two host steps let it edit and then stage or commit, or stage while a build works
and commit after it.
In `jobstore`, three incarnations on two pids are one that died, one that has its pid and one that
looks; one overflow file is pruned by the next. In `runner`, one tick below the deadline is the
stall limit, so that either may come first; a pipe of one line makes a writer wait; two cancels are
one that terminates and one that meets `_terminate`. In `conversations`, two
exchanges are longer than the limit and make a fold of the first; four leave room for a fold to meet
a turn, another fold and, with the second thread, a pruning. In
`converge`, two rounds are a round with a next one and the last. In `council`, two rounds let votes
be equal to, or different from, those before. In `facts`, two reports are what an update needs to
meet another, two probes what a probe needs to be told something new, or one of them and a mistake
of the user's; the looks of a lane are only compared, so they are symmetric.

Deadlock is checked in `facts` only. In the other runs the system stops when every build, job, call,
task or session is over and the bounds keep the host from asking for more.

*Fairness.* `FairSpec` of `BuildLoop` assumes weak fairness of `LoopStep(b)` and of `TurnStep(b)`
for each build: the event loop runs every ready task, `wait_for` bounds a delegate by `timeout_s`,
`_terminate` waits 3 s and then kills, the grace wait lasts 90 s at most. Nothing is assumed of the
host (it may never start, steer or cancel) nor of a delegate (it may write or not, obey SIGTERM or
not). `FairSpec` of `LaneDispatch` assumes it of `Tick`, since time passes, and of `CallStep(w)` for
each call: the delegate ends by `arun`'s timeout, the sleeps by the clock, and the event loop does
the rest. It does not assume it of `RootsKnown`: nothing bounds how long the host takes to answer
`roots/list`, so `CallsReturn` speaks of the calls that have their workspace. `Runner` assumes it of
the clock, of the kernel reaping a dead process and of the segments of the call and its guard; of
no `Exits` and no `Writes`: `CallEnds` holds of a delegate that never ends. `Council` assumes it of
the answers of calls, which is `CallEnds` and `CallsReturn`, and of the segments that follow them.

*Sensitivity.* Some operators have a variant just before them with a mistake that is easily made at
that place; no specification uses them, and with one put in the place of the operator it follows,
TLC finds the corresponding property violated.

- `BuildLoop`: `LeakZone` and `ReleaseAnyway` (the lock kept or released on the wrong paths),
  `LoopTopStale` (the queue read before the last failure was appended), `SawResultFirst` (a cancel
  lost to a result), `CancelAtOnce`, `OnlyInterrupted` (the grace wait ends without a look at the
  queue), `WaitedLongEnough` (it ends in another turn, whatever came).
- `LaneDispatch`: `UnderDailyLimitLate` (one run too many), `UnderCreditCapPaidOnly` (rated lanes
  forgotten), `PacedUnstamped` (the spawn not remembered), `EmptyBackoffUncapped`, `BenchDropped` (a
  failure without a wait of its own clears the bench), `StayInLine` (a cancelled caller keeps its
  place).
- `BatchRun`: `CanReserveOneMore` and `CanReserveIfAnyLeft` (the cap compared without the task that
  asks), `HitAny` (a failed task taken for a done one), `HitOtherRun` (nothing found on a resume),
  `RaisesKeepingSlot`.
- `ZoneBuild`: `RevertAll` (the revert not confined to the zone), `ViolationsUntracked` and
  `ZoneDiffTracked` (only untracked files looked at, only tracked ones shown), `DiscardUncut` (no
  `finally`).
- `JobStore`: `FlippedAll` (pids not asked), `FoundAll` (rows read whatever their status),
  `SpillLost` (no fallback to memory).
- `Runner`: `SigtermToLead` (not the group), `CoreDoneOnExit` (the pipes not read to their end),
  `WaitEndsWithExit` (no SIGKILL).
- `Conversations`: `CompactedNext` (one turn more than was summarised),
  `MayRunAlways` (an await between the two appends), `OldAll` (the newest turns folded too).
- `Converge`: `PanelAsGiven` (the author and arbiter may review), `ConvergedAlone` (no peer needed),
  `DecisionOpen` (what nobody ruled on is dismissed).
- `CouncilRules` and `Council`: `PickJudgeFree`, `IncludePaidAsAsked` (the saver profile overruled),
  `MergedFirst` (the first severity stays), `RunningLeaky` (a failed call keeps its place).
- `LaneFacts`: `MergedAlone` (the file replaced by the update), `PutAll` (rows of lanes that were not
  compared replaced too).

## 5. What is proved

`BuildLoopProofs` proves, for any set of builds, any zones and target directories and any bounds
(`BuildLoopAssumption` is all it assumes: `max_turns` and `max_fail_retries` positive, the host's
bounds natural numbers):

- `Typing`: `TypeOK` always holds. Inductive together with `RetriesLeft`: a build that is not over
  has failed fewer times than it may, without which one more failure would pass the bound.
- `InterruptNeverCancels` (a cancelled job was asked to cancel), `CancelLandsWithoutInterrupt`:
  from `ControlInv`, which says for each build how `pc`, `status`, `turnTask` and `delegate` go
  together, and that a cancel request is at every moment either pending at the job task, on its way
  through the turn, or done. Neither is inductive by itself: each needs to know where the request is
  *between* the host's call and the end.
- `OneCutIsClean`: a delegate outlives its turn only if the turn may have been cut twice
  (`MayBeCutTwice`: two cuts, or one and a timeout), from `CutsInv`, which keeps for every stage of a
  turn's end the cuts and the timeout it took to get there.
- `ZoneLockSerialisesDelegates`: `OneDelegatePerLock`, from `LockInv` (whoever is inside the zone
  holds its lock and nobody else is inside) for the delegates of running turns, and from
  `CutsInv` for those left behind by a termination that was cut. The latter are the exception of the
  property: a build whose turn may have been cut twice is not promised to be alone. It speaks of
  builds with the same lock key; for builds of one zone it does not hold (section 6).
- `BuildIsAJob`: the refinement of `JobLifecycle`, initial states and steps.
- `SteeringIsExact`: `SteeringOnceInOrder`; every segment of the loop leaves applied followed by
  queued as it is, and every new instruction goes to the end of it.
- `NoUnaskedTurn`: `TurnsAnswerInstructions`, from `Asked`: a build that waits for its lock has taken
  no turn, and one that nobody interrupted goes to its next turn with a queue that is not empty, from
  each of the places where the loop continues.
- `OnlyViolationsRevert`: an action property.

The proofs go by the actor: `OthersUnchanged` (a step of one build leaves the others' state
alone), `LoopStepControl`, `OtherStepControl`, `LockStep`, `HistoryStep` treat one build, and the
theorems put them together.

`LaneDispatchProofs` proves, for any lanes, limits, costs, intervals and any finite set of callers
(`LaneDispatchAssumption`: limits are integers, the other numbers natural):

- `RunLimitOvershoot`, `CreditCapOvershoot`: how far concurrent calls can pass the two limits. The
  runs alone are not inductive, since a call that was admitted will be recorded whatever the count
  is by then; runs *and calls under way* together are. `StepKinds` splits every step of the
  module into three kinds: it lets calls go, admits one past the gates, or records one. Only the
  second adds to the sum, and there the gate has just read a count below the limit while the
  calls under way are at most the callers.
- `PacingSpacesSpawns`: from `Remembered`, the wait `_PACE_LAST` still imposes and the time since
  the last first spawn add up to the interval, which no cancel and no waiter disturbs.
- `CallsTyped`: `TypeOK`, of which two parts need more than a type. `Filed`: whoever waits to spawn
  again has a retry left. `Lined`: whoever waits for the pacing lock is in its line, which a
  cancelled caller leaves without moving anybody else (`LineWithoutOne`).
- `BenchesFollow`: `BenchFollowsOutcomes`, from `Told`: the two counters of a row are the streaks
  that the lane's outcomes end in, and what is remembered of a lane is of one kind (`Agreed`), so
  that a streak that is interrupted has nothing left to count. `WaitsDouble` shows that the power of
  two in the code and the doubling in the specification are the same wait, cap included.

`BatchRunProofs` proves, for any tasks, keys, costs, caps, slots and numbers of invocations
(`BatchRunAssumption`: natural numbers, at least one slot):

- `Typing`: with `Bounded`, free slots are not negative and no task spawns more than `Retries + 1`
  times.
- `BudgetIsKept`: `CallsWithinBudget`. Not inductive: a task that waits for the semaphore is not
  called yet and no longer asks. `BudgetInv` counts the tasks that hold a reservation, waiting or
  calling or called, against `calls`; `BudgetSteps` splits every step into four kinds, of which
  one reserves, and only below the cap.
- `CreditsAreKept`: `CreditsWithinBudget`. As with the calls, but what is counted is the sum of the
  costs over a set of tasks; `CreditInv` bounds it by the ledger, from three facts about such sums
  (`CreditsOfFirst`, `CreditsOfOneMore`, `CreditsOfFewer`).
- `WaitersServed`: `WaitersAreServed`, from `SlotInv`: free slots and calls add up to the width,
  because whatever ends a call (an answer, an exception, a cancel) ends its hold as well.
- `FinishedKept` and `NotCalledAgain`: from `KeptInv`, which says of the invocation that runs that
  what it was told of a task when it began still holds when the task starts, and that a task that
  waits or calls has not finished. This is where the journal, read once and used later, could be
  stale: it is not, as long as nobody else writes it (`OneAtOnce`) nor shares the key (`Unique`).
  What sqlite refuses makes it stale in one direction only, which is the exception both carry: a
  finished task may look unfinished (`refused`), an unfinished one never looks finished.

`DelegateProofs`, first of `ZoneBuild`, for any paths, zones, first commit, builds and bounds (`ZoneBuildAssumption`:
there is a path, and the contents are different):

- `EscapesAreCaught` and `AcceptedAreShown` rest on `Traces`: as long as a build's own delegate
  leaves git alone, a path that nobody else staged since the build began is in `head` and `index` as
  it was, and, if nobody else edited it either, in the tree either as it was or as the build made it
  (`Sound`). From it follows what `git status` and `git diff` say of the path, hence whether the
  comparison sees it and the report shows it. `Unseen` (the content of a build that has not begun is
  nowhere) makes the build's writing a change; `Aside` and `AsideIsSound` show that the steps of
  others spoil nothing. What the two theorems do not promise is listed in the properties: files
  others staged, or replaced by something git already has, deleted untracked files, and delegates
  that stage or commit themselves.
- `HostWorkIsKept`, `WorktreesAreDiscarded`, `Typing`: inductive as they stand, given the types.

Then of `Runner`, for any process group, pipe size, deadline, stall limit and number of cancels:
`RunnerTyping`, `NothingStrays` and `ResultsAreTrue`, from `Inv`: `Signals` (while the pipes are read
no cancel came, and only the stall guard may have signalled; whoever was signalled and is alive is
deaf) and `Ends` (a call that returns the delegate's result has read all of it, reaped it, and left
nobody at the pipes).

`JobStoreProofs`, for any processes, pids, jobs and directory size (`JobStoreAssumption`):

- `RowsAreTrue`: from `Owned` (a row's pid is its server's), `Current` (a live server's row says
  what the server says, unless sqlite refused it), `Left` and `Truth` for the jobs of dead ones:
  where a sweep that has read but not yet written could go wrong.
- `FinalRowsKept` and `ResultsFetchable`: from the same, with `Results`, which says where the
  result of a job is at each of the three writes and that only pruning takes it from the directory.

`LaneFactsProofs`, for any lanes, tiers, servers and presets: `FactsSurvive`, from `Busy` (what a
process holds while it updates the file is the file's content with one entry more, as long as
updates do not meet), and `DriftTold`, from `Drift`: the rows a probe replaced are what it saw, each
of them is news or was known, and whatever fails or is cut off on the way leaves its lanes in
`blind`. One probe at a time is what makes the rows it compared with those it replaces.

`RoundTableProofs`, first of `Conversations`, for any processes, threads, budgets and numbers of
calls:

- `ThreadsTyped`: `TypeOK`, which no run checks, with `Placed`: a turn that is about to be inserted has a number, and a fold
  under way goes up to one, so that no row is numbered 0.
- `TurnsAreKept`: `NothingForgotten`, from `Held` (a turn numbered no later than a row is in that row
  or in one before it) and `Planned`: a fold under way carries every turn up to the number it folds
  to (`Carries`), although turns and other folds came after it was planned. Not inductive without
  `Numbered`, that a thread has no two rows of one number.
- `NewestAreKept`: `FoldKeepsNewest`, from `Spares`: two rows lie behind the number a fold goes up to,
  from the plan to the end of it.
- `ExchangesPaired`: `ExchangesStayTogether`, from `Paired` and `Asked`: a thread nobody else writes
  ends in the question as long as the answer is on its way.

Then of `Converge`, for any lanes, families, panels, rounds and issues:

- `RoundsTyped`: `ConvergeTypeOK`, with `Seats`, `Rounds` and `Raised`: neither author nor arbiter
  sits in the panel, and what is handed or reported was raised.
- `NothingIsDropped`: `NothingDroppedSilently`, from `OwnLabel` and `OwnRuling` (in a panel without
  doubles each issue has an id and a ruling of its own), `Reviewed` (no reply is to an older plan
  once a round ended) and `Accounted`.
- `PlansAreCarried`: `ConvergedIsCarried`, from `Carried`: the test that let a plan converge still
  holds of the replies and the rulings on record when it is reported, and of the version reported.

`CouncilProofs`, for any lanes, costs, measures, policies, lists a host may name, findings and
bounds (`CouncilRulesAssumption`, `CouncilAssumption`: names are different, caps positive). First of
the pure rules, which need no session:

- `RouterOrders`: `order_lanes` and `order_for_mode` return every admitted lane once, in the order of
  the keys. Keys of one length whose last field is the lane's name are a strict order
  (`Lexicographic`), a finite set with such an order has a first (`FirstOfOrdered`), and taking the
  first again and again sorts (`SortingSorts`).
- `ReportIsFaithful`: `merge_findings`, `filter_by_severity` and `verdict` lose and invent nothing.
  Being similar is not transitive, so that two findings of a group need not be similar; the group is
  found through its opener (`OpenersOpen`).
- `WinnerHasMost`: nobody has more points than the Borda winner, however incomplete the rankings.

Then of the sessions, from `IInv`, one lemma per action:

- `CouncilTypes`: `TypeOK`. With `Typing` (replies are of the kind their wave asks for) and `Phases`.
- `CouncilVoices`: `EveryVoiceHeard`. That nothing is lost says something only at the end and is not
  inductive: `Latest` says, while a wave comes in as well, whether a seat's latest answer is its
  reply or what was held of it. The other parts follow at the step that reports, from the rules:
  a ranking that puts another answer ahead is worth more to it (`MorePoints`), so an answer that all
  who ranked put ahead would have more points than the winner.
- `CouncilCosts`: `CostCeiling`, whose `Widened` is a host's wish outside the saver profile or the
  shell's bare flag; from `Agreed` (whoever sits or concludes may be asked) and `Seated`:
  the seats are those the call chose, so that a cheaper lane has an earlier seat (`CheaperFirst`) and,
  when a later one runs, has failed.

The proof of `CouncilTypes` failed at first on the judge: a conjunct of `TypeOK` had been written so
that it held of no judge's type, only of its presence. It is two conjuncts now.

*Data.* The library's induction theorems take an operator as a parameter and cannot be used here.
What a recursive function computes (a power, a sum over a set, a sequence without some of its
members, the largest of a set) is proved by a least counterexample instead: `LeastNumber` follows
from `NatLessThanWellFounded` and `WFMin`, which take sets, and each lemma derives a contradiction
from the smallest number for which it fails. The functions are defined with `f[n \in S] == ...` for
that reason, never with RECURSIVE; that a function of that definition exists is proved as well
(`PowersExist`, `SumsExist`, and `Rows` for a function whose rows are computed from the row before).

Only model-checked: `SteeringIsRead`, `BuildsSettle`, `CallsReturn`, `CallEnds` and `SessionsEnd`,
since liveness under fairness is beyond the prover; and the refutation.

## 6. What the code does not keep

`cancel_lost` is a run whose trace ends in the state described, and is listed with its quotation in
`PROJECT.json`: a job answered "cancelling" is to end cancelled (`jobs.py:143`), but an interrupt
sent while no turn runs leaves its flag set (`buildloop.py:306`) and the next cancel is taken for it.

What follows was noted while modelling. Where a definition is named, the module states the promise,
and TLC refutes it when it is added to the `.cfg` of the module's run (for `BuildLoop`,
`LaneDispatch` and `BatchRun` with the instance in brackets; where there are none, with the run's
own). The first five are exceptions that a passing property has to make.

*What the passing properties except.*
- `OneDelegatePerZone` (`BuildLoop`, in `queue`): a cancel that lands while a turn that timed out is
  being terminated skips SIGKILL (`runner.py:250`); the lock is released, the delegate writes on, and
  the next build of the zone starts, against `worktrees.py:13`. `OneDelegatePerLock` excepts the
  builds whose turn may have been cut twice. The other way to two delegates in one zone (with
  `TargetDir <- TwoTargets`) is that the lock's key also holds the target directory
  (`worktrees.py:218`), so that one zone reached through two directories has two locks.
- `TurnsAreAskedFor` (`BuildLoop`, one interrupt, three turns): an interrupt in the grace wait leaves
  its flag set, and `_wait_for_steer` says that something arrived (`buildloop.py:361-368`) after every
  later turn, so a build that "finishes shortly" takes turns nobody asked for until `max_turns`.
  `TurnsAnswerInstructions` is for builds that nobody interrupts.
- `HostIndexKept` (`ZoneBuild`): `git reset -q` after the diff (`worktrees.py:261`) unstages what the
  host had staged in the zone, against the docstring (`worktrees.py:252-253`). Likewise a file of the
  delegate's that the host stages or commits while the delegate works is not in the diff, and the
  report says nothing of it: the exception of `AcceptedIsShown`.
- `SaverIsFreeOnly` (`Council`): the shell's `review-diff`, `security-review`, `test-plan` and
  `premortem` pass `--include-paid` on without a look at the profile (`cli.py:33`), against
  `config.py:400` and `config.py:408`. Where the flag goes through `include_paid_resolved` it is
  refused, which is part of `CostCeiling`.
- `EveryDriftIsTold` (`LaneFacts`, `MaxOthers` 3): the rows of a deep probe are replaced before its
  report leaves (`reports.py:117`). A change stored by a probe whose call is cancelled or whose server
  dies before the answer is sent is in the rows the next one compares with, which says that nothing
  changed; likewise when a lane is back to what rows say that could not be replaced
  (`telemetry.py:801-802`). Without rows it could read (`telemetry.py:782-783`), a probe has nothing
  to compare and replaces them all the same. All against `reports.py:91-94`; `DriftIsTold` says that
  nothing else loses a change.

*Builds.*
- `CancelledIsDead` (two cancels): a cancel during `_terminate` skips SIGKILL (`runner.py:250`),
  against `jobs.py:7-8`. `LaterTurnsWereBriefed` (one interrupt, two turns): only the first prompt
  holds the task, and a first turn may be cut before its delegate was spawned (`buildloop.py:185`).
- An instruction queued during the last turn is answered "applied on the next turn"
  (`buildloop.py:93`) and is neither applied nor reported: `SteeringIsRead` excepts jobs that end for a
  reason of their own. The loop never looks at `res.ok`, so a build whose delegate was never
  found ends as "built". Finished builds stay registered (`buildloop.py:77`), so steering one is
  answered "queued" where `server.py:772` means to say there is no live build. `_run_dod` blocks the
  event loop for up to its timeout. `run_build` has no counterpart of the check in
  `ask_build_direct` (`worktrees.py:377`) that the zone lies inside the target directory.
- `HonestBuildIsKept` (`ZoneBuild`): a write of the host or of another build outside the zone is held
  against the build, and its zone is reverted (`worktrees.py:7-8` speaks of the delegate's). What
  `EscapesCaught` excepts is real: an edit of an already dirty file is not seen, a delegate that
  stages or commits hides its escape, a deleted untracked file leaves no trace. Inside a
  zone that is reverted, git takes the files of the host and of other builds as well (the exception
  of `HostWorkKept`).

*Jobs and processes.*
- A reused pid keeps a dead job's row at running until that process ends too (the exception in
  `RowsTellTheTruth`); a row sqlite refused is not written again.
- `ChildrenDieToo` and `CancelPropagates` (`Runner`): a child that ignores SIGTERM survives when its
  parent heeds it (`runner.py:120`); a cancel that arrives while the call awaits its stall guard is
  swallowed (`runner.py:347`, against `runner.py:371-372`). A finished leader with a child at the
  pipe times out and its answer is dropped; a line over 64 KiB raises `ValueError` out of `arun`.

*Dispatch and batch.*
- `DailyLimitIsHard` (`MaxCalls` 2, limit 1): calls under way together all pass the gate
  (`server.py:501`), against `docs/HOSTS.md:70`; by how many is proved (`RunLimitOvershoot`).
  `ResetForgivesEmpties`: a reset keeps the count of empties (`telemetry.py:273`). A retry is spawned
  without passing `pace`, nor the gates.
- `MaxCallsIsExact` (one retry): a reservation covers a call of `run_lane`, which may spawn again
  (`orchestrate.py:96`, against `docs/BUDGET.md:83`). Two equal tasks share a journal key
  (`orchestrate.py:53`), so the one that failed is replayed as done; the same happens to a batch
  resumed beside its first invocation. A task whose journal row sqlite refused was paid for, answered
  and is run again on a resume (`telemetry.py:562`; the exception of `FinishedIsKept`). A run id
  the host did not choose is told only in the answer.

*Councils and plans.*
- `ArbiterIsIndependent` (`Converge`): with the author and one lane left, arbiter and author may be
  the same (`orchestrate.py:564`, against `docs/TOOLS.md:50`). A peer named twice shares its ids with
  itself; issues deferred in an earlier round are not in the report.
- `StoppedByAll`, `StoppedAsAnswersConverged`, `VerifiedByAnother` (`Council`): "everyone votes to
  stop" counts those whose vote was parsed (`workflows.py:471-472`), a round in which every revision
  failed counts as converged, and with one lane an answer is verified by its own
  (`orchestrate.py:288`). The verdict is taken after the severity filter and may say "ship" over
  findings that were filtered. A judge that fails takes the answers of a preset with it.

*Facts.*
- `OthersSettingsKept` (`LaneFacts`): the file is opened for writing, which empties it, before it is
  written (`config.py:121`); a crash or another process in between loses all settings, and a file
  with a user's mistake in it is replaced (`config.py:99-101`). A full disk empties it and is
  reported as "not writable". Overlapping deep probes may each report that nothing changed.
- In `Conversations`, a thread pruned during a fold and resumed after it keeps the summary of what
  was pruned, and two processes may give one turn number twice.

## 7. What is not modelled

Text: prompts, schemas, the preamble, the output guard, the parsing of delegates' output, reports
but for what a property speaks of, commit messages and changelogs, context packs, dry runs. Data:
the lane catalogue and the refresh of model lists. Time: in `BuildLoop` durations appear only as
"may happen now", in `LaneDispatch` and `Runner` as ticks that any number of steps may share. The
platform's process groups: `_kill_tree` reaches all of them. The response cache's contents, the
re-entry and read-only guards, mock mode. The totals of `lane_state`, which only reports read. A
second server on the rows of `LaneDispatch` and `BatchRun`, and a restart of the first, which
forgets `_PACE_LAST`. The journal under `Converge`. The benchmarks and the OpenAI bridge, a one-shot
client.

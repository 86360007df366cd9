# A TLA+ model of agent-builder

agent-builder runs goals that an operator gives it: it plans a goal into
sub-goals, asks a policy engine and possibly the operator, dispatches a contained
worker for each sub-goal, and reports. This directory models the parts of that
program that run concurrently, share state or survive a crash, checks them with TLC on small
instances, and proves the central safety properties with TLAPS for all instances.
Paths are relative to the repository's `internal/` unless they start with `docs/`.

## 1. The system

    operator -> message source -> control loop -> mailbox -> goal actor (2 goroutines)
                                                               |
                    status registry, plan store  <--  Orchestrator: clarify, plan, gate,
                                                        pause, dispatch, join
                                                               |  semaphore, run journal
                           worker transport (sealed envelopes, replay caches)
                                                               |
                      runtime.Run -> supervisor -> box -> retrying loop -> gate, publisher

| Part | State | What makes it hard | Module |
|---|---|---|---|
| Control loop and goal actors, `cli/orchestrate.go`, `cli/goal_actor.go` | mailboxes, admission channel, WaitGroup, two goroutines per goal | actors spawn actors while the loop joins; every shared access interleaves | `GoalActor` |
| Goal lifecycle, `orchestrator/orchestrator.go`, `registry.go` | status registry, pending infos, conversations | read-then-write across the registry and the plan store | `GoalActor` |
| Dispatch, `orchestrator/orchestrator.go`, `runstore.go`, `semaphore.go` | worker permits, attempts, pending approvals | crash between saves, late bookkeeping | `RunDispatch` |
| Run journal, `runstore/` | `journal.jsonl`, `snapshot.json`, index | torn appends, half a compaction | `RunJournalFile` |
| Plan store, `memoryguard/` | the same files, guarded | approvals and cancels race for one plan; tombstones and crashes | `PlanStore` |
| Replay cache, `envelope/replay.go` | nonce -> timestamp | eviction against the acceptance window, clock set back | `ReplayCache` |
| Policy, vault and transport, `policy/`, `vault/`, `channel/worker/`, `cli/orchestrate_seams.go` | daemons, sockets, allow sets, handles | one engine for many plans, sockets shared, daemons left behind | `BlockDaemons` |
| Worker runtime, supervisor, loop, gate, publisher, audit, task source | box, run record, chain, task file, branch | result, timeout and cancel race; one of many closing steps fails | `WorkerRun` |
| Router, registry, executors | quotas, state file, worktree, branches | workers share one worktree and one state file | `WorkerFleet` |
| Daemon, `cli/daemon.go`, `schedule.go` | lock file, scheduler, merged source | shutdown order, blocked reader, stale lock | `DaemonProcess` |
| Telegram, `channel/telegram/`, `armor/` | offset, goal-id cache, authorised set and its file | batches, restart, threading, pairing | `TelegramChannel` |

`PROJECT.json` lists every part with its status, and every hazard with the line
it is at.

What the system must guarantee: the control plane returns only after all its
goroutines; admission and worker bounds hold whatever fails; a cancel ends what
it addresses; an operator's info is applied once and reaches the operator with an
approval request; acknowledged records survive; completed work is not repeated
and a dispatched plan not offered again; a pending approval stops its plan; no box
starts without an allow; a run that reports success has published what the gate
verified; one daemon runs at a time and ends when told to; only admitted messages
are delivered, each once.

## 2. Modules

| Module | Models | Kind |
|---|---|---|
| `GoalActor`, `GoalActorProofs` | control loop, actors, goal lifecycle | specification, proofs |
| `RunDispatch`, `RunDispatchProofs` | dispatch, semaphore, approvals, rehydration | specification, proofs |
| `DurableMap` | what the file stores promise | abstract specification |
| `RunJournalFile` | the file store | specification, implements `DurableMap` |
| `PlanStore` | plan store, memory guard, Resume, ResumeWithFold, ConsumePlanOnCancel | composition over `RunJournalFile` |
| `PlanStoreProofs` | `RunJournalFile`, `PlanStore`, `DurableMap` | proofs |
| `ReplayCache` | `ReplayCache.Check`, `evict`, `Evict` | specification |
| `WorkerRun`, `WorkerRunProofs` | one worker from `runtime.Run` to the pull request | specification, proofs |
| `WorkerFleet`, `WorkerFleetProofs` | router, executors, worktree, publication of several workers | specification, proofs |
| `BlockDaemons`, `BlockDaemonsProofs` | policy and vault daemons of several goals, transport, reevaluation | specification, proofs |
| `DaemonProcess`, `DaemonProcessProofs` | daemon subcommand, lock, scheduler, merged source | specification, proofs |
| `TelegramChannel` | polling, authorisation, pairing, armor | specification |
| `InboundProofs` | `ReplayCache`, `TelegramChannel` | proofs |
| `MC...` | constants for TLC | instances |

Operators named `...Blind`, `...CatchesUp`, `...NoJoin` and so on, each under a
comment that starts with "Mutant", are wrong versions of the definition that
follows; `PROJECT.json` says which property finds each out.

### GoalActor

One action is one access to state that the goroutines share. `main[g]` and
`drain[g]` are the program counters of the two goroutines of goal `g`, `cmd[g]`
that of `handleCommand` inside the drain goroutine. `state`, `cancelFn` and
`pending` are the registry; `store` the goals that have a plan in the plan store;
`slots` the admission channel; `wg` the WaitGroup; `cancelled` and `owner` the
contexts (an amendment runs under its parent's); `spec` the actor's own copy of
the goal text, as the set of infos folded into it, and `planned` the copy that
`ConfirmAndPlan(ctx, a.goal)` took. A mailbox is a bounded sequence. The answers of
the language model, the policy engine, the plan store's guard and the workers are
choices; `Answers`, `Decisions` and `Tamper` say which are possible. `planFails`
stands for every way `ConfirmAndPlan` ends in Failed: the planner's error, an empty
plan, a failed policy configuration, a failed or negative decision.

A solicitation is the read of the queued infos (`view`) and a later report, in
either goroutine, with no lock between them; a report is delivered or fails.
`shown` is what the last delivered one had, `surfaced` what any had, `unsent` what
a failed one had. `SolicitationComplete` is about `surfaced` and `unsent`: an info that arrives
around the pause is in one of the two solicitations. The last one need
not have all of them (`LastSolicitationIsComplete`), for the main goroutine may
read the queue, be overtaken by the drain goroutine's solicitation, and report.

Status queries only read and are left out. `Resume` and `ResumeWithFold` have no
caller in the program; `PlanStore` has them. Goal names never collide here:
every routed goal gets an unused identity.

### RunDispatch

A goroutine is `<<"plan", t>>` (of `dispatchSubGoals`) or `<<"resume", t>>` (of
`ResumeApproval`); `pc` is where it is in `dispatchOne` and
`dispatchWithSemaphore`. One action is one critical section of `runStoreMu`, one
operation of the semaphore, or the worker. A goal's record is `status`, `att` and
`pend`; it survives `crash`, nothing else does. After a crash the daemon drives
each in-flight record with `ResumeFromRecord`, one after another, before the
control loop admits new goals. `completed` and `denied` are history variables.

`ResumeApproval` is modelled as the goal actor's `applyApproval` calls it: one call
at a time per goal, while the actor exists. (The control loop delivers no approval
to the actor today, see `ApprovalIsRouted`; the orchestrator's own behaviour is what is
checked here.) `ConfirmAndPlan` is the journalled part of the allow branch. Not in
the module: `SweepApprovalTimeouts` and failing saves (which the code ignores;
`RunJournalFile` has what they leave on disk). `join` is `wg.Wait`; `settle` is what
follows it, from the reevaluation of blocked spawns, whose bound and answers are in
`BlockDaemons`, to the final status. A new goal never has the identity
of a journalled one; `DaemonProcess` has what happens when it does.

### RunJournalFile and DurableMap

The journal is a sequence of lines and a tail after the last newline. A line
parses or does not: a record appended to an unterminated tail becomes one line
with it and does not. Every write may be cut short by a crash or by an I/O error,
before, inside, or just before the newline of the record. What a replay gives a goal
is its value in the last line that has one, or else in the snapshot (`ValueIn`);
`ReplaysInOrder` of `MCRunJournalFile` says that this is what applying the lines one
by one gives, and `RunJournalFile.cfg` checks it. `Compact` is the rename,
which commits, and the truncation. `DurableMap` says what survives: per goal the
last acknowledged value, or one of a later write that was not acknowledged; it may
also stay closed for ever, which is the code's fail-loud refusal.

### ReplayCache

Envelope times and the clock are small integers; `Tick` is the wall clock, which
may be set back, to at most `MaxSkew` behind the highest time it has shown. The
module assumes `MaxSkew <= Window`: with a larger set-back an evicted nonce is
inside the window again.

### PlanStore

`DurableStore` keeps its files as the run journal does, function by function, so
the file steps are those of `RunJournalFile` and this module adds the callers: one
followed goal with its `Resume`, `ResumeWithFold` and `ConsumePlanOnCancel`, each
a `Get` and a `TryDelete` with steps of others between them, and other goals whose
plans come and go. The memory-guard process is `guarded`: every call may be
allowed or refused. Two callers may both read a plan before either deletes it,
and both dispatch it (`ConsumedOnce`); what is checked to hold is that nothing
brings a dispatched plan back.

### WorkerRun

`main` is where `runtime.Run` and `Supervisor.Run` are, `loop` where the goroutine
of the retrying loop is; the two share the contexts and the result channel. The
steps of the deferred function (close the record, seal, checkpoint, tear down) are
separate actions, each of which may fail as its code does. The audit chain is the
sequence of its event kinds; the run record is its outcome; the task file may be
torn by a crash inside `WriteStatus`. What a deployment leaves unconfigured is
skipped by choice. Executor, git and gh may hang until their context is
cancelled. The gate's commands, the subprocesses of the audit trail (an append,
the verification before a checkpoint and the checkpoint) and the commands that two
of the executors run by themselves (`deaf`) have no context. A checkpoint is also
signed by a run that has a signer and no sink, so `SignedIsSuccess` asks for a
sealed chain only where there is a sink (`SignedIsSealed`).

### WorkerFleet

The worktree of the base configuration is one tree for all workers: a set of
edits, each the task and attempt that made it, and the branch named by
`.agent-branch`. `head`, `index` and `tip` are git's. The three kinds of executor
differ in who commits: the command-line tools by themselves or not at all,
Antigravity's adapter and the Ollama adapter with `git add -A`. Each worker loads
its own router from the state file and saves it at its end (a deployment with a
state path); the file may be torn, and the save may fail. `spent` counts the
dispatches of an entry's window, `unsaved` those that no file has yet, `lost` those
that a crash or a failed save lost. `SpentIsNotSelected` allows for `lost` and for
nothing else; that the budget is kept without it is `BudgetIsKept`, which the code does
not have.
`PublishedIsVerified` and `SpentIsNotSelected` are about one worker at a time:
with more (`AGENT_BUILDER_MAX_WORKERS` is 4 by default) the workers edit one tree
and save over each other's state, and neither holds; `UsageIsPersisted` is the
sentence of the code that this contradicts.

### BlockDaemons

A daemon is named by its kind, its goal and the process that started it. `sock`
says which daemon bound a path last, because a second daemon binds over the first
and a `Stop` removes the path whoever bound it. `FixedSockets` is a deployment
that configures the socket paths, otherwise they are named by process. `mu` and
`scoped` are `planScopedPolicy`; `by` is the engine that really answered, and `said`
what each question of a goal (plan, worker, gate) was answered before the client mapped
it. An engine may always fail to answer: the socket call then ends with its
deadline and an error, which the client maps to deny. A worker whose gate halts it is at
`halted` until its events are written.
`ResumeFromRecord` after a crash starts at the decision on the worker, without
`ConfigureForPlan`. A blocked spawn is reevaluated at most `MaxReplans` times.
The worker's box is one step here; `WorkerRun` has it in full.

### DaemonProcess

Several processes over one lock file and one journal. A process has its main
goroutine, its scheduler, the reader of its primary source, and the two channels
between them. Time is ticks, a day is `DayLen` of them. A firing has two times: when
it fell `due`, the time the check took at its start, and when it was `sent`, which is later
when the channel was full. A check of an empty
schedule changes nothing and is left out. `ctxAware` is a primary
source that ends with the context (Telegram) or does not (standard input). A
deployment also carries its bounds (ticks, lines, processes). `Waits` are the two
places where the main goroutine waits for goals, whose calls have no deadline. An
operator may remove the lock of a crashed process. What happens to a goal after
its admission is in `GoalActor` and `RunDispatch`.

### TelegramChannel

The bot's server keeps updates and forgets those below the offset of a poll. The
adapter takes a batch, advances its offset with each update and returns at the
first message it delivers; the rest is fetched again. `DecidePairing`, `Decide`
and `DecideContent` are the decisions of their packages; `goalIDCache` is keyed by
message number, as in the code. A crash empties everything but the store's file.

## 3. Runs

| Run | Checks | Instance |
|---|---|---|
| `MCReplayCache` | an envelope is accepted at most once; an accepted one is remembered while it is fresh | 2 nonces, times 0..7, window 2 |
| `GoalActorAuto` | type, join, admission, every queued info was solicited with | 3 goals, 1 slot, mailbox of 1, 2 new goals, 1 info, 1 cancel, 1 approve, signals |
| `GoalActorClarify` | infos are applied once; `CancelStops`, `ShutdownDrains`, `QueuedIsAdmitted` (liveness) | 2 goals, 1 slot, clarification, 1 message of each kind, signals |
| `RunDispatchCrash` | type, permits, completed work is not repeated, completed goals are complete, no dispatch is kept from its join but by a call (liveness) | plans of 2 and 1, 2 permits, 2 crashes, no task approvals |
| `RunDispatchPause` | with one worker a pending approval halts its plan | plan of 2, 1 permit, task approvals, 2 crashes |
| `PlanStore` | refinement of `DurableMap`; a dispatched plan does not come back | 2 goals, 2 plans, a caller of each kind, 2 puts, 3 writes, 2 crashes, I/O errors |
| `WorkerRun` | the loop is joined; nil means settled; only a success is signed; the hook means paused; a parked task is left alone; a timed run ends or is in a call without its context (liveness) | 2 gate steps, 2 attempts, 2 invocations |
| `WorkerFleet` | what is published is what was verified; escalation climbs; a spent entry is not selected | 2 tasks, 4 entries (one of each kind, one below the floor), 2 attempts, 1 crash |
| `BlockDaemons` | no box without an allow; the base narrows; daemons have owners; all goals end or are in a call (liveness) | 2 goals, 2 recipes of which the base has 1, fixed sockets, 1 replan, 1 crash |
| `DaemonProcess` | one instance; a delayed firing is not made up for; scheduled goals are read, a signal ends the process (liveness) | a daily and an interval entry, channel of 1, days of 2 ticks; 1 process for 3 ticks, 2 for 2, 2 that read a line for 1, and 2 without a schedule |
| `TelegramChannel` | only admitted messages, in order, once, none skipped; announced approvals are in the file; every update is handled (liveness) | 3 senders, 3 chats, all 5 modes, 3 updates, 1 crash |
| `VResumeDenied` | violated: a resumed sub-goal is blocked although no engine answered | 2 goals, 1 crash |

`RunJournalFile.cfg` checks the file store alone, with all its writes free; its
steps and its refinement are part of the run `PlanStore`. The type invariants of
`ReplayCache`, `RunJournalFile`, `WorkerRun`, `WorkerFleet`, `BlockDaemons`,
`DaemonProcess` and `TelegramChannel` hold on the same instances (add `TypeOK`, in
`ReplayCache` `CacheTypes`, to the configuration).

Bounds. One admission slot and one or two permits make every goroutine compete.
The last goal identity is the amendment, spawned by an actor while its parent holds
the slot (and, with three, while another goal queues). A mailbox of one makes the
full mailbox happen. Two crashes allow a crash during the recovery from a crash.
Three writes are a torn one, one after it, and one to another goal. Times to 7 with
a window of 2 let an entry be stored, evicted and offered again. Two attempts are a
last one and one before it. Two invocations let the second meet the file and branch
the first left. Three of the entries are a ladder of an unlimited and two limited ones,
each with another way to commit; a fourth is below the floor. Two goals make one
configure or stop the engine
the other is asking; one replan is the bound reached and not reached. A channel of
one is full after one firing, and the second entry waits; three ticks let one entry
fire three times with a wait between. Three updates are one
delivered with one behind it in the batch, and one after. Symmetry is used on
goals, tasks or workers in safety runs only.

Deadlock is checked in `MCReplayCache` and `GoalActorAuto`, where the loop's return
is the only end. It is not checked where the system may stop: with
clarification (a goal may wait for a confirm that the bounded operator never
sends), in the stores (the bounds run out, or a store refuses to open), in the
dispatch (all plans joined), and in the worker, daemon, block and channel modules,
whose processes end.

Fairness. The Go scheduler runs every goroutine, so its own steps are weakly fair,
and so are calls that end with a deadline: the HTTP client of Telegram, the policy
and vault sockets, `waitForReady`. A call without a deadline is not fair, it may
never return: the language model behind planner, analysis and clarification, the
memory guard and audit trail subprocesses, the commands of the gate, and the box.
The liveness properties say so themselves: what they promise
comes true, or one of those calls goes on for ever (`[]InCall`, `[]Held`,
`[]Waits`), of the goal itself or, where goals share something, of those that have it.
That a goal in such a call does not hold up another is then part of the property.

Strong fairness is assumed in four places. `admit`: goroutines blocked on a channel
are served first come, first served. `ownStep` of `BlockDaemons`: Go's mutex does
not starve a waiter, and nothing makes a daemon bind or answer. The scheduler's
exit: a select chooses among its ready arms at random. `getUpdates`: the server can
be reached again and again. The semaphore needs only weak fairness in the run, where
the workers are finitely many. In `WorkerRun` the timer fires, and executor, git and
gh return once their context is cancelled (CommandContext kills them), unless the executor is
`deaf`. Nothing is assumed of the operator, the source, signals or crashes.

### Where the code does not do what is written

Each of these properties states a sentence of a comment or of the documents, and
TLC finds a behaviour of the code that contradicts it. `VResumeDenied` is a run of
`PROJECT.json`, which quotes its sentence; the others are kept to be run by hand
with the `MC` module of the part. A configuration with several properties stops
at the first violated one.

| Property, configuration | Sentence | What happens |
|---|---|---|
| `ResumedIsDecided`, `VResumeDenied` | `docs/spec/behaviors.md:207` | a run resumed by the daemon is never configured, so `planScopedPolicy` denies it without an engine |
| `CancelledHasNoPlan`, `VPausedPlan` | `cli/goal_actor.go:291` | cancel consumes the store entry, then `pauseForApproval` stores the plan |
| `LastSolicitationIsComplete`, `VPausedPlan` | `orchestrator/orchestrator.go:797` | the pause reads the queue, an info is queued and solicited for, then the pause reports without it |
| `DoneKeepsCancelled`, `VDoneOverCancelled` | `docs/spec/behaviors.md:358` | a cancel between `ctx.Err() == nil` and `SetState(Done)` |
| `ExhaustionDrains`, `VClarify` | `cli/router.go:44` | end of input while a goal waits for its confirm: the loop never returns |
| `FoldedIsPlanned`, `VClarify` | `cli/goal_actor.go:125` | an info folded after the confirm is in no plan |
| `LiveWithinMaxGoals`, `VPausedPlan` | `cli/orchestrate.go:812` | on shutdown a paused goal's slot passes to the next while it stays AwaitingApproval |
| `SweptBeforeExit`, `VLateInfo` | `cli/goal_actor.go:208` | a cancelled context skips the final sweep |
| `TerminalInfoIsAmended`, `VLateInfo` | `docs/spec/behaviors.md:348` | an info to a goal whose actor has gone is never read |
| `ApprovalIsRouted`, `VPausedPlan` | `docs/spec/behaviors.md:231` | approve and deny match no case of the control loop |
| `CrashIsTolerated`, `VJournalTail` | `runstore/record.go:22` | append after a torn tail, restart: the journal is refused |
| `UnterminatedIsDropped`, `VJournalTail` | `runstore/filestore.go:98` | a final line that lacks only its newline is applied |
| `ApprovedIsDispatched`, `VTaskApprovals` | `docs/spec/behaviors.md:231` | a sibling's pause skips the approved sub-goal |
| `DeniedIsNotRun`, `VTaskApprovals` | `docs/spec/behaviors.md:231` | late bookkeeping hides a denial, and a restart runs the sub-goal |
| `CompletedIsNotRestarted`, `VTaskApprovals` | `orchestrator/runstore.go:354` | late bookkeeping overwrites completed, and a restart repeats it |
| `CompletedGoalIsDone`, `VTaskApprovals` | `docs/spec/behaviors.md:207` | a goal is completed while a sibling has no attempt yet |
| `UnapprovedIsNotRun`, `VUnapprovedRun` | `docs/spec/behaviors.md:394` | the journal calls a plan running while it waits for approval, and a restart takes it up |
| `AwaitingHasPending`, `VAwaitingNothing` | `orchestrator/runstore.go:180` | a crash inside a denial leaves a goal awaiting nothing |
| `ConsumedOnce`, `VPlanStore` | `docs/spec/behaviors.md:359` | both callers read the plan before either deletes it, and both go on |
| `FoldedIsNotHeld`, `VPlanStore` | `orchestrator/orchestrator.go:701` | the refined plan is put back and dispatched, and stays in the store |
| `ApprovalReachesHook`, `VWorkerRun` | `docs/spec/behaviors.md:223` | a failing status write returns before the hook |
| `NilMeansPublished`, `VWorkerRun` | `cli/orchestrate_seams.go:127` | a halted run returns nil, which the caller records as a success |
| `SignedIsSealed`, `VWorkerRun` | `supervisor/supervisor.go:538` | a run with a signer and no sink signs a chain that it did not seal |
| `TimeoutReturns`, `VWorkerRun` | `docs/spec/behaviors.md:117` | a gate command that hangs is never cancelled, so the join waits for ever |
| `BranchIsGateVerified`, `VWorkerFleet` | `docs/spec/SPEC.md:31` | a command-line executor that edits without committing has the gate see the edits and the branch lack them |
| `PublishedOnOwnBranch`, `VWorkerFleet` | `executor/ollamatoolset/toolset.go:454` | `.agent-branch` of an earlier task is read as this task's |
| `UsageIsPersisted`, `VWorkerFleet` | `runtime/run.go:937` | two workers save their own copies of the router's state over each other |
| `BudgetIsKept`, `VWorkerFleet` | `docs/architecture/decisions/043-executor-registry-router.md:200` | the dispatches of a run that crashed or could not save are forgotten, and those of concurrent workers saved over |
| `DecidedByOwnEngine`, `VSharedEngines` | `orchestrator/orchestrator.go:566` | another plan reconfigures the one engine between configuration and decision |
| `GateIsOwn`, `VSharedEngines` | `docs/spec/behaviors.md:277` | workers of one process share the socket path of their gates, and one answers for another |
| `SignalShutsDown`, `VDaemonStdin` | `docs/spec/interfaces.md:36` | without a schedule a daemon blocked on standard input does not see the signal |
| `IDsAreFresh`, `VDaemonStdin` | `docs/spec/behaviors.md:286` | after a restart goal identities start again at goal-1, over runs in flight |
| `EndOfInputExits`, `VDaemonSchedule` | `docs/spec/behaviors.md:284` | at the end of input the daemon waits for its scheduler, which only a signal ends |
| `MalformedIsIgnored`, `VDaemonSchedule` | `docs/spec/behaviors.md:287` | with a schedule, a malformed line ends the reader |
| `SentInTime`, `VDaemonSchedule` | `docs/tasks/test-specs/175-scheduled-goals-test-spec.md:40` | a firing that waited for room is sent late, and the next one of its entry at once |
| `ThreadsOwnChat`, `VTelegramChannel` | `channel/telegram/adapter.go:523` | message numbers are per chat, the cache is not: a reply finds another chat's goal |
| `FailedApprovalIsNone`, `VTelegramChannel` | `channel/telegram/pairing.go:39` | when persisting fails the sender stays approved in memory |
| `TaskApprovalIsDerived`, `VTelegramChannel` | `docs/spec/behaviors.md:230` | the owner's `approve` of a task is taken by the pairing grammar |

## 4. Proofs

Every safety property of every passing run is proved, with TLAPS, for every value
of the constants that satisfies the named assumptions of its module. What holds
only for some deployments says so in its statement, or in the hypothesis of its
theorem. Each inductive invariant below was checked with TLC on the instance of
its run before it was proved.

The leaves are Zenon's unless they name SMT: the SMT translation slows down with
the number of obligations in a module, and the late leaves of a long one would
run into its internal time limit.

The assumptions (`TimesAssumption`, `WindowAssumption`, `SkewAssumption`,
`TelegramAssumption`, `BoundsAssumption`, `FiniteAssumption`, `DispatchAssumption`,
`JournalAssumption`, `PlanAssumption`, `WorkerRunAssumption`, `FleetAssumption`,
`BlockAssumption`, `DaemonAssumption`) say that bounds are naturals, that goals,
tasks, workers and entries are finite where they are counted or chosen from, that
the value for "none" is no goal, worker or process, and that capacities are not
zero. Two say more: `SkewAssumption` bounds a clock set back by the window, and
`BlockAssumption` says that no recipe is called `"task"`, the model's name for the
request on a worker's own task.

* `InboundProofs`, replay cache: `AcceptedOnce`, `AcceptedRemembered`. That an
  envelope was accepted at most once is not inductive: it needs that an accepted
  nonce is still in the cache or too old to be accepted at any clock value that can
  still come. That is `CacheInv`, with `ClockNearHigh`, which bounds how far the
  clock is behind the highest time it has shown.
* `InboundProofs`, Telegram: `DeliveredAdmitted`, `InOrderOnce`,
  `ForgottenIsHandled`, `ApprovalDurable`, from `ChannelInv`. `PollInv` says that
  all below the offset, the server's mark and the batch was handled: a batch that
  is left at its first message leaves the offset there. `SeenInv` puts what was
  delivered below the offset and its envelope into the replay cache. `StoreInv` says
  the store and its file hold only configured or approved senders, which
  `DeliveredIsAdmitted` needs after a restart. `AnnouncedInv` says a sender announced
  as approved is also in the memory of the process that serves: the file is
  rewritten from memory, so one that was missing there would be lost.
* `GoalActorProofs`: `TypeCorrect`, `LoopJoinsActors`, `ActorsAreAdmitted`, from
  `IInv == TypeOK /\ Counted`. `Counted` says the WaitGroup equals the number of
  live actors, which needs that only a live actor handles commands: otherwise an
  amendment could be counted in after the loop saw zero. Each action of `Next` is
  shown to preserve it; the actions of a goroutine that only move its counter
  share a lemma.
* `GoalActorProofs`, infos: `SolicitsAll` from `SolInv`, by which a goal is
  `AwaitingApproval` only from its solicitation on, and a queued info that no
  solicitation has had is in the one the main goroutine is about to report, unless
  the drain goroutine is still routing it. `AppliedOnce` from
  `InfoInv`: an info is in one place only, once in a mailbox, and only infos that
  were read are anywhere. The last part makes a new info a new one. One lemma
  covers all steps that move no info.
* `RunDispatchProofs`: `TypeCorrect`, `PermitsNeverLeak`, `SingleWorkerPause`,
  `CompletedOnce`, `CompletedGoalsAreDone`. `IInv` adds `OneCaller` (a resume
  goroutine runs only inside its `ResumeApproval`). `PauseInv` ties the pending
  approvals to the awaiting status around the one permit. `JournalInv` ties
  `completed` to the recorded attempts. The last two theorems assume
  `~TaskApprovals`; `VTaskApprovals` shows that they do not hold without it.
* `PlanStoreProofs`: `StoreImplementsDurableMap` and `PlansImplementDurableMap`
  show, step by step, that the file store, alone and under the callers of the plan
  store, implements `DurableMap`. The invariant `JournalInv` says which values are
  acceptable (the last acknowledged one, and later ones in doubt) in the index, in a
  snapshot just renamed, and in a replay of the disk with and without its
  unterminated last line; both replays matter, because the next append decides
  which of them the file keeps. A replay takes the last line of a goal, so the
  proof needs that a bounded set of naturals has a greatest element
  (`GreatestNatural`, from the well-foundedness of the order) and how `ValueIn`
  changes when a line is appended (`ValueAppend`). `ResumedStaysConsumed` adds
  `PlanInv`: a dispatched plan is `Gone`, that is neither acknowledged nor in doubt,
  and a caller that has deleted the last plan put left the index without one.
* `WorkerRunProofs`: `Joined`, `NilSettled`, `SignedSuccess`, `HookPaused`, and the
  action property `ParkedLeft`, from `RunInv`. It describes the run stage by stage:
  the loop works only while `Run` waits (`LoopInv`); what gate, push and pull request
  have established for the steps after them (`LoopSuccess`); which of box, record,
  sink and decision can be set at each stage, and that an error-free closing stage
  has an error-free loop behind it (`StageInv`); and that a listed task under way is
  still ready (`ReadyInv`), which `ParkedIsLeft` needs.
* `WorkerFleetProofs`: `PublishedVerified`, `LadderIsClimbed`, `SelectedHasBudget`,
  from `FleetInv`. `SelectIsFirst` shows that `Select` takes the first eligible
  entry: the order of `less` is total and transitive, and every finite nonempty set
  has a first element in it. `LadderInv` says that the router is past exactly the
  entries tried; `BudgetInv` that an entry without a reset time has budget left, in
  memory and in the file. With one worker at a time, `SpentInv` says that the
  running worker's router knows of all that was spent but for what was lost, and the
  file of all but that and what the worker has still to save; and `CommitInv`
  follows the tree from the executor through index, branch and gate to the push.
* `BlockDaemonsProofs`: `BoxAllowed`, `BaseOnlyNarrows`, `NoOrphans`, from
  `BlockInv`. `LockInv` says that the goal which configures the engine holds the
  lock and that no engine is published meanwhile, so that none is overwritten
  without being stopped; `GateInv` that a goal is past each of its questions only
  with an engine's allow;
  `RecipeInv` that the recipe was within the base from the decision on the spawn to the
  box.
* `DaemonProcessProofs`: `OneDaemon`, inductive with types only, and
  `ScheduleInTime` from `DaemonInv`: the memory of an entry is not older than any of
  its firings (`Remembered`) and not younger than the check under way, whose time is
  not in the future (`Present`); and a check that has still to come to an entry began
  after that entry's firings were sent (`Handed`). The last makes the next firing
  fall due after the delayed one was sent, from which three firings are apart.

Two proofs did not go through on the first model. The ticker of a scheduler without
entries moved it to an entry that does not exist; `tickerFires` now needs one, as
the loop of `checkEntries` does. `DecidePairing` was a CASE with two guards that both
hold for an approval by the owner, which leaves its value open to the logic (TLC
takes the first); it is now written in the order of the code.

Only model-checked:

* the liveness properties `CancelStops`, `ShutdownDrains`, `QueuedIsAdmitted`,
  `DispatchEnds`, `TimedRunEnds`, `GoalsEnd`, `ScheduledIsRead`, `SignalEnds` and
  `UpdateIsHandled`: fairness and ENABLED are out of the prover's reach;
* `ReplaysInOrder`, that `ValueIn` is what a fold over the lines computes: it needs
  an induction over the journal, whose theorem takes an operator as a parameter;
* the properties of section 3 that the code does not have: TLC shows the behaviour.

## 5. Not modelled

* `SweepApprovalTimeouts` (`orchestrator/runstore.go`): it reads records without the
  lock and writes into slices that the store's index shares with its callers. It
  needs a heap of shared slices, which would be a model of Go's memory rather than
  of this program.
* `RunToCompletion` has no caller outside tests, and the executor harness is
  reached only through a method that nothing calls.
* The self-repository guard, the stdin grammar, the order of tasks with
  dependencies, and the text of reports and prompts are string functions. Where
  their answer matters it is a choice in the model.
* Analyzer, planner, clarifier and completers call a language model and parse what
  it answers; their answers are choices.
* Hashes, signatures and ciphers: an envelope verifies or does not, a chain is its
  events. Offline verification of a chain or a checkpoint is not modelled.
* The command lines of sandboxes and tools, recipes, skills, ingestion types,
  secret sources and the command line keep no state between calls.
* The journals and the catalog are read by one process at a time; edits by hand,
  other than the removal of a stale lock, are left out.

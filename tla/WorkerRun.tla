----------------------------- MODULE WorkerRun -----------------------------
(***************************************************************************)
(* One worker: runtime.Run (internal/runtime/run.go) assembles a run and   *)
(* hands it to Supervisor.Run (internal/supervisor/supervisor.go), which   *)
(* creates the box, starts the retrying loop (internal/loop) in a          *)
(* goroutine of its own and waits for its result, the caller's cancel or   *)
(* the wall-clock timer, whichever select picks.  The loop attempts the    *)
(* task, verifies it with the gate and pushes the branch.  The process may *)
(* crash between any two steps and be started again: the task file, the    *)
(* branch and the pull request outlive it.                                 *)
(*                                                                         *)
(* What is not configured and what fails are choices: a block that is      *)
(* absent is skipped, one that is present may fail.                        *)
(***************************************************************************)
EXTENDS Naturals, Sequences, Functions

CONSTANTS
    MaxAttempts,    \* AGENT_BUILDER_MAX_ATTEMPTS
    Steps,          \* the steps of the production gate
    MaxRuns         \* bound: invocations of the program

ASSUME WorkerRunAssumption == MaxAttempts \in Nat /\ MaxRuns \in Nat

VARIABLES
    main,       \* where runtime.Run and Supervisor.Run are
    err,        \* the error Run carries: "nil", "error", "cancelled", "timedOut"
    loop,       \* where the goroutine of RunInside is
    attempt,    \* attempt of RetryingLoop.RunOnce, 0 before the first
    gateOK,     \* the verdict of the last gate
    loopErr,    \* loopRunResult.err is not nil
    deaf,       \* the executor under way runs commands without its context
    ctxDone,    \* the caller's context is cancelled
    runDone,    \* runCtx is cancelled
    timer,      \* the wall-clock timer: "off" (RunTimeout <= 0), "armed", "fired"
    sink,       \* the audit sink: "none", "open", "sealed"
    chain,      \* the events this run appended to the audit chain
    lost,       \* an append failed, which emitAudit swallows
    box,        \* "none", "up", "down"
    record,     \* the run record: "none", "open", or the outcome it was closed with
    signed,     \* a checkpoint of the chain was signed
    decision,   \* outcome of the policy gate; "none" before it and without it
    hook,       \* OnRequireApproval was called
    dispatched, \* config.DispatchedTask is set, by the orchestrator
    listed,     \* the task has a file under TaskRoot
    status,     \* that file: "ready", "needs-human", or "torn" by a crash
    published,  \* "no", "pushed", "pr"
    usage,      \* executor attempts ever started for the task
    runs        \* invocations so far

mainVars  == <<main, err>>
loopVars  == <<loop, attempt, gateOK, loopErr, deaf>>
ctxVars   == <<ctxDone, runDone, timer>>
auditVars == <<sink, chain, lost>>
boxVars   == <<box, record, signed>>
gateVars  == <<decision, hook>>
task      == <<dispatched, listed>>
world     == <<status, published, usage>>
vars == <<mainVars, loopVars, ctxVars, auditVars, boxVars, gateVars, task, world, runs>>

Halting == {"deny", "approval", "transport", "badTier"}
Ended   == {"returned", "crashed"}

Init ==
    /\ main = "start" /\ err = "nil"
    /\ loop = "none" /\ attempt = 0 /\ gateOK = FALSE /\ loopErr = FALSE
    /\ deaf = FALSE
    /\ ctxDone = FALSE /\ runDone = FALSE /\ timer = "off"
    /\ sink = "none" /\ chain = <<>> /\ lost = FALSE
    /\ box = "none" /\ record = "none" /\ signed = FALSE
    /\ decision = "none" /\ hook = FALSE
    /\ dispatched \in BOOLEAN /\ listed \in (IF dispatched THEN BOOLEAN ELSE {TRUE})
    /\ status = "ready" /\ published = "no" /\ usage = 0 /\ runs = 1

-----------------------------------------------------------------------------
(* runtime.Run                                                             *)

Return(e) == main' = "returned" /\ err' = e

(* BlockSink.Append of each of the events in turn: one subprocess each,    *)
(* which may fail.  What reached the chain.                                *)
Appended(events) ==
    {SelectSeq(events, LAMBDA e : e \in kept) : kept \in SUBSET Range(events)}

(* emitAudit: without a sink nothing; a failed Append is swallowed.        *)
emitAudit(events) ==
    IF sink = "open"
    THEN \E got \in Appended(events) : chain' = chain \o got /\ lost' = (lost \/ got # events)
    ELSE UNCHANGED <<chain, lost>>

(* StatusWriter.WriteStatus of needs-human: a task without a file, as one  *)
(* seeded by the orchestrator may be, is an error.                         *)
WriteStatus(ok, failed) ==
    \/ /\ listed
       /\ status' = "needs-human"
       /\ ok
    \/ /\ failed        \* not found, unreadable or not writable
       /\ UNCHANGED status

(* Mutant: a task is picked whatever its status line says.                 *)
PickAny(ready, idle, bad) ==
    \/ (dispatched \/ status # "torn") /\ ready
    \/ ~dispatched /\ status = "torn" /\ bad

(* Source.Next: the task is ready and its dependencies are completed, or   *)
(* there is none to do; Candidates makes an error of an unparsable file.   *)
Pick(ready, idle, bad) ==
    \/ (dispatched \/ status = "ready") /\ ready
    \/ ~dispatched /\ status \in {"ready", "needs-human"} /\ idle
    \/ ~dispatched /\ status = "torn" /\ bad

(* The recipe must bind a gate that has steps to block on.                 *)
verifyGateExists == Steps # {}

(* Paths, recipe, gate, goal source, task, executor, vault: each error     *)
(* returns before a box is made.                                           *)
Assemble ==
    /\ main = "start"
    /\ \/ Return("error")
       \/ /\ verifyGateExists
          /\ Pick(main' = "audit" /\ UNCHANGED err, Return("nil"), Return("error"))
    /\ UNCHANGED <<loopVars, ctxVars, auditVars, boxVars, gateVars, task, world, runs>>

(* newBlockSink: the binary must resolve and the path be writable.         *)
newAuditSink ==
    /\ main = "audit"
    /\ \/ main' = "policy" /\ sink' \in {"none", "open"} /\ UNCHANGED err
       \/ Return("error") /\ UNCHANGED sink
    /\ UNCHANGED <<loopVars, ctxVars, chain, lost, boxVars, gateVars, task, world, runs>>

(* The answers of the policy client; an answer it does not know is deny.   *)
Answers == {"allow", "deny", "require_approval", "error"}

(* TierSelect: no tier_select obligation, a tier of the sandbox, another.  *)
Tiers == {"", "valid", "unknown"}

(* What the gate makes of an answer and the tier its obligations select:   *)
(* an allow of an unknown tier halts.                                      *)
gateOutcome(answer, tier) ==
    CASE answer = "error"            -> "transport"
      [] answer = "require_approval" -> "approval"
      [] answer = "allow"            -> IF tier = "unknown" THEN "badTier" ELSE "allow"
      [] OTHER                       -> "deny"

(* decideGate and maybeEmitPolicyDecision: a failed call is audited        *)
(* always, an answer only with the audit_emit obligation.  Without a       *)
(* policy binary there is no gate; an engine that does not start is an     *)
(* error.                                                                  *)
decideGate ==
    /\ main = "policy"
    /\ \/ \E d \in {"none"} \cup {gateOutcome(a, t) : a \in Answers, t \in Tiers} :
             /\ decision' = d
             /\ main' = IF d \in Halting THEN "halt" ELSE "signer"
             /\ \/ d # "none" /\ emitAudit(<<"decision">>)
                \/ d # "transport" /\ UNCHANGED <<chain, lost>>
             /\ UNCHANGED err
       \/ Return("error") /\ UNCHANGED <<decision, chain, lost>>
    /\ UNCHANGED <<loopVars, ctxVars, sink, boxVars, hook, task, world, runs>>

(* Mutant: the hook fires on every halt, not on require_approval only.     *)
HaltAnyHook ==
    /\ main = "halt"
    /\ WriteStatus(hook' \in BOOLEAN /\ Return("nil"), UNCHANGED hook /\ Return("error"))
    /\ UNCHANGED <<loopVars, ctxVars, auditVars, boxVars, decision, task, published, usage, runs>>

(* Mutant: a status that could not be written is only logged.              *)
HaltUnwritten ==
    /\ main = "halt"
    /\ WriteStatus(/\ hook' \in IF decision = "approval" THEN BOOLEAN ELSE {FALSE}
                   /\ Return("nil"),
                   UNCHANGED hook /\ Return("nil"))
    /\ UNCHANGED <<loopVars, ctxVars, auditVars, boxVars, decision, task, published, usage, runs>>

(* The gate did not allow: needs-human is written and, for                 *)
(* require_approval alone, the caller's hook (nil without a run store) is  *)
(* fired; a failed write returns before the hook.                          *)
Halt ==
    /\ main = "halt"
    /\ WriteStatus(/\ hook' \in IF decision = "approval" THEN BOOLEAN ELSE {FALSE}
                   /\ Return("nil"),
                   UNCHANGED hook /\ Return("error"))
    /\ UNCHANGED <<loopVars, ctxVars, auditVars, boxVars, decision, task, published, usage, runs>>

(* newCheckpointSigner: its errors return without sealing the sink.        *)
newCheckpointSigner ==
    /\ main = "signer"
    /\ \/ main' = "create" /\ UNCHANGED err
       \/ Return("error")
    /\ UNCHANGED <<loopVars, ctxVars, auditVars, boxVars, gateVars, task, world, runs>>

-----------------------------------------------------------------------------
(* Supervisor.Run                                                          *)

(* Runner.Run of the probe: the backend could not run it or was cut off,   *)
(* or it ran and exited with a code.                                       *)
ProbeResults == {"error", "exited 0", "exited 1"}

(* box.Create: the probe failed, or the box is up and from here on the     *)
(* deferred close, seal and teardown run on every path.                    *)
Create ==
    /\ main = "create"
    /\ \E probe \in ProbeResults :
          IF probe = "exited 0" THEN main' = "open" /\ box' = "up" /\ UNCHANGED err
                                ELSE main' = "save" /\ err' = "error" /\ UNCHANGED box
    /\ UNCHANGED <<loopVars, ctxVars, auditVars, record, signed, gateVars, task, world, runs>>

(* openRunRecord, the RunInside line, the context and the goroutine.       *)
openRunRecord ==
    /\ main = "open"
    /\ \/ /\ main' = "select" /\ loop' = "inside"
          /\ record' \in {"none", "open"}
          /\ timer' \in {"off", "armed"}
          /\ UNCHANGED err
       \/ /\ main' = "close" /\ err' = "error"
          /\ record' \in {"none", "open"}      \* not created, or the line not written
          /\ UNCHANGED <<loop, timer>>
    /\ UNCHANGED <<attempt, gateOK, loopErr, deaf, ctxDone, runDone, auditVars, box, signed,
                   gateVars, task, world, runs>>

(* case result := <-loopResult; Run's deferred cancelRun comes before the  *)
(* deferred close.                                                         *)
SelectResult ==
    /\ main = "select" /\ loop = "done"
    /\ main' = "close"
    /\ err' = IF loopErr THEN "error" ELSE "nil"
    /\ runDone' = TRUE
    /\ UNCHANGED <<loopVars, ctxDone, timer, auditVars, boxVars, gateVars, task, world, runs>>

(* Mutant: the cancel arm returns without reading loopResult.              *)
SelectCancelNoJoin ==
    /\ main = "select" /\ ctxDone
    /\ main' = "close" /\ err' = "cancelled"
    /\ UNCHANGED <<loopVars, ctxVars, auditVars, boxVars, gateVars, task, world, runs>>

(* case <-ctx.Done(): Kill, which does nothing, then the join.             *)
SelectCancel ==
    /\ main = "select" /\ ctxDone
    /\ main' = "join" /\ err' = "cancelled"
    /\ UNCHANGED <<loopVars, ctxVars, auditVars, boxVars, gateVars, task, world, runs>>

(* Mutant: the timeout arm does not cancel the context of the loop.        *)
SelectTimeoutNoCancel ==
    /\ main = "select" /\ timer = "fired"
    /\ main' = "join" /\ err' = "timedOut"
    /\ UNCHANGED <<loopVars, ctxVars, auditVars, boxVars, gateVars, task, world, runs>>

(* case <-timerC: cancelRun, Kill, then the join.                          *)
SelectTimeout ==
    /\ main = "select" /\ timer = "fired"
    /\ main' = "join" /\ err' = "timedOut"
    /\ runDone' = TRUE
    /\ UNCHANGED <<loopVars, ctxDone, timer, auditVars, boxVars, gateVars, task, world, runs>>

(* killAndJoin: <-loopResult on every path; the trigger's error stands.    *)
killAndJoin ==
    /\ main = "join" /\ loop = "done"
    /\ main' = "close" /\ runDone' = TRUE
    /\ UNCHANGED <<err, loopVars, ctxDone, timer, auditVars, boxVars, gateVars, task, world, runs>>

(* closeRunRecord: the outcome is completed only without an error.  The    *)
(* line or the close may fail.                                             *)
closeRunRecord ==
    /\ main = "close"
    /\ main' = "seal"
    /\ IF record = "open"
       THEN \/ /\ record' = CASE err = "nil"      -> "completed"
                              [] err = "timedOut" -> "timed-out"
                              [] OTHER            -> "failed"
               /\ UNCHANGED err
            \/ /\ err' = IF err = "nil" THEN "error" ELSE err
               /\ UNCHANGED record
       ELSE UNCHANGED <<err, record>>
    /\ UNCHANGED <<loopVars, ctxVars, auditVars, box, signed, gateVars, task, world, runs>>

(* Mutant: the checkpoint is attempted on the failure path too.            *)
sealAlwaysSigns ==
    /\ main = "seal"
    /\ main' = "teardown"
    /\ sink' = IF sink = "open" THEN "sealed" ELSE sink
    /\ signed' \in BOOLEAN
    /\ UNCHANGED <<err, loopVars, ctxVars, chain, lost, box, record, gateVars, task, world, runs>>

(* VerifyChain: the binary failed, or it found the chain whole or          *)
(* tampered with.                                                          *)
VerifyResults == {"error", "ok", "tampered"}

(* maybeCreateCheckpoint: without a signer nothing; a chain that does not  *)
(* verify is not signed, and a failure to sign is only logged.  The signer *)
(* needs a key, not a sink.                                                *)
Checkpoints == UNION {IF v = "ok" THEN BOOLEAN ELSE {FALSE} : v \in VerifyResults}

(* sealSink, then the checkpoint on the success path.                      *)
sealSink ==
    /\ main = "seal"
    /\ main' = "teardown"
    /\ sink' = IF sink = "open" THEN "sealed" ELSE sink
    /\ signed' \in IF err = "nil" THEN Checkpoints ELSE {FALSE}
    /\ UNCHANGED <<err, loopVars, ctxVars, chain, lost, box, record, gateVars, task, world, runs>>

Teardown ==
    /\ main = "teardown"
    /\ main' = "save" /\ box' = "down"
    /\ UNCHANGED <<err, loopVars, ctxVars, auditVars, record, signed, gateVars, task, world, runs>>

(* The router state is saved whatever the result; a failure makes an error *)
(* of a success.                                                           *)
SaveState ==
    /\ main = "save"
    /\ Return(err) \/ (err = "nil" /\ Return("error"))
    /\ UNCHANGED <<loopVars, ctxVars, auditVars, boxVars, gateVars, task, world, runs>>

-----------------------------------------------------------------------------
(* The goroutine of RunInside                                              *)

loopOnly == <<mainVars, ctxVars, boxVars, gateVars, task, runs>>

(* RunInside ends; runLoop sends the result on the buffered channel.       *)
Done(failed) == loop' = "done" /\ loopErr' = failed

(* An attempt starts.  The Ollama and Antigravity adapters run commands of *)
(* a tool call and git without their context, the others none.             *)
Attempt(n) ==
    /\ loop' = "execute" /\ attempt' = n /\ usage' = usage + 1
    /\ deaf' \in BOOLEAN

(* The events of the start; no attempt at all for MaxAttempts = 0.         *)
RunInside ==
    /\ loop = "inside"
    /\ emitAudit(<<"pick">>)
    /\ IF MaxAttempts = 0 THEN loop' = "mark" /\ UNCHANGED <<attempt, usage, deaf>>
                          ELSE Attempt(1)
    /\ UNCHANGED <<loopOnly, gateOK, loopErr, sink, status, published>>

(* Executor.Run returned: done, failed, or a panic the goroutine recovers. *)
ExecutorReturns ==
    /\ loop = "execute"
    /\ \/ loop' = "verify" /\ UNCHANGED loopErr
       \/ loop' = "failed" /\ UNCHANGED loopErr
       \/ Done(TRUE)
    /\ gateOK' = FALSE /\ deaf' = FALSE
    /\ UNCHANGED <<loopOnly, attempt, auditVars, world>>

(* Gate.Verify: the steps in order up to the first that fails.  Their      *)
(* commands are not given the context.                                     *)
Verify ==
    /\ loop = "verify"
    /\ \E ok \in [Steps -> BOOLEAN] : gateOK' = \A s \in Steps : ok[s]
    /\ loop' = IF gateOK' THEN "advance" ELSE "failed"
    /\ UNCHANGED <<loopOnly, attempt, loopErr, deaf, auditVars, world>>

(* A failed attempt of RetryingLoop.RunOnce: the last one goes to a human, *)
(* any other to the next executor of the escalation hook, which may fail.  *)
(* The context is not looked at.                                           *)
Retry ==
    /\ loop = "failed"
    /\ \/ /\ attempt = MaxAttempts
          /\ loop' = "mark" /\ UNCHANGED <<attempt, loopErr, usage, deaf>>
       \/ /\ attempt < MaxAttempts
          /\ Attempt(attempt + 1) /\ UNCHANGED loopErr
       \/ /\ attempt < MaxAttempts
          /\ Done(TRUE) /\ UNCHANGED <<attempt, usage, deaf>>
    /\ UNCHANGED <<loopOnly, gateOK, auditVars, status, published>>

(* markNeedsHuman, and the events of the end.                              *)
markNeedsHuman ==
    /\ loop = "mark"
    /\ WriteStatus(emitAudit(<<"escalate", "finish failed">>), UNCHANGED <<chain, lost>>)
    /\ Done(TRUE)
    /\ UNCHANGED <<loopOnly, attempt, gateOK, deaf, sink, published, usage>>

(* The event of the publication, before the push.                          *)
Advance ==
    /\ loop = "advance"
    /\ emitAudit(<<"publish">>)
    /\ loop' = "push"
    /\ UNCHANGED <<loopOnly, attempt, gateOK, loopErr, deaf, sink, world>>

(* git push: a command of a cancelled context is not started, and one      *)
(* under way may be killed before or after it has had its effect.          *)
Push ==
    /\ loop = "push"
    /\ \/ /\ ~runDone
          /\ published' = IF published = "no" THEN "pushed" ELSE published
          /\ (loop' = "pullRequest" /\ UNCHANGED loopErr) \/ (Done(TRUE))
       \/ Done(TRUE) /\ UNCHANGED published
    /\ UNCHANGED <<loopOnly, attempt, gateOK, deaf, auditVars, status, usage>>

(* gh pr view, then gh pr create when it fails.                            *)
PullRequest ==
    /\ loop = "pullRequest"
    /\ \/ /\ ~runDone
          /\ published' = "pr"
          /\ (loop' = "finish" /\ UNCHANGED loopErr) \/ (Done(TRUE))
       \/ Done(TRUE) /\ UNCHANGED published
    /\ UNCHANGED <<loopOnly, attempt, gateOK, deaf, auditVars, status, usage>>

Finish ==
    /\ loop = "finish"
    /\ emitAudit(<<"finish completed">>)
    /\ Done(FALSE)
    /\ UNCHANGED <<loopOnly, attempt, gateOK, deaf, sink, world>>

-----------------------------------------------------------------------------
(* The caller, the clock and the machine                                   *)

(* The goal's context is cancelled: runCtx is its child.                   *)
Cancel ==
    /\ ~ctxDone /\ main \notin Ended
    /\ ctxDone' = TRUE /\ runDone' = TRUE
    /\ UNCHANGED <<mainVars, loopVars, timer, auditVars, boxVars, gateVars, task, world, runs>>

Timer ==
    /\ timer = "armed" /\ main = "select"
    /\ timer' = "fired"
    /\ UNCHANGED <<mainVars, loopVars, ctxDone, runDone, auditVars, boxVars, gateVars, task, world, runs>>

(* The process dies.  WriteStatus rewrites the file in place: a crash in   *)
(* it leaves the old file, the new one or a truncated one.                 *)
Crash ==
    /\ main \notin Ended
    /\ main' = "crashed" /\ loop' = "none"
    /\ status' \in IF (main = "halt" \/ loop = "mark") /\ listed
                   THEN {status, "needs-human", "torn"} ELSE {status}
    /\ err' = "nil" /\ attempt' = 0 /\ gateOK' = FALSE /\ loopErr' = FALSE /\ deaf' = FALSE
    /\ ctxDone' = FALSE /\ runDone' = FALSE /\ timer' = "off"
    /\ UNCHANGED <<auditVars, boxVars, gateVars, task, published, usage, runs>>

(* The program is run again.                                               *)
Restart ==
    /\ main \in Ended /\ runs < MaxRuns
    /\ main' = "start" /\ err' = "nil"
    /\ loop' = "none" /\ attempt' = 0 /\ gateOK' = FALSE /\ loopErr' = FALSE /\ deaf' = FALSE
    /\ ctxDone' = FALSE /\ runDone' = FALSE /\ timer' = "off"
    /\ sink' = "none" /\ chain' = <<>> /\ lost' = FALSE
    /\ box' = "none" /\ record' = "none" /\ signed' = FALSE
    /\ decision' = "none" /\ hook' = FALSE
    /\ dispatched' \in BOOLEAN /\ listed' \in (IF dispatched' THEN BOOLEAN ELSE {TRUE})
    /\ runs' = runs + 1
    /\ UNCHANGED world

RunStep ==
    \/ Assemble \/ newAuditSink \/ decideGate \/ Halt \/ newCheckpointSigner
    \/ Create \/ openRunRecord \/ SelectResult \/ SelectCancel \/ SelectTimeout \/ killAndJoin
    \/ closeRunRecord \/ sealSink \/ Teardown \/ SaveState
LoopStep ==
    \/ RunInside \/ ExecutorReturns \/ Verify \/ Retry \/ markNeedsHuman
    \/ Advance \/ Push \/ PullRequest \/ Finish

Next == RunStep \/ LoopStep \/ Cancel \/ Timer \/ Crash \/ Restart

Spec == Init /\ [][Next]_vars

(* The goroutines run and the timer fires.  git push, gh and an executor   *)
(* may take for ever, until the context they are given is cancelled and    *)
(* CommandContext kills them.  What is not given a context may take for    *)
(* ever whatever happens: the commands a deaf executor runs, those of the  *)
(* gate, and the audit-trail subprocess of an append, of VerifyChain and   *)
(* of the checkpoint.                                                      *)
FairSpec ==
    /\ Spec
    /\ WF_vars(\/ SelectResult \/ SelectCancel \/ SelectTimeout \/ killAndJoin
               \/ closeRunRecord \/ Teardown \/ SaveState)
    /\ WF_vars(err # "nil" /\ sealSink)
    /\ WF_vars(Timer)
    /\ WF_vars(Retry)
    /\ WF_vars(sink # "open" /\ (RunInside \/ markNeedsHuman \/ Advance \/ Finish))
    /\ WF_vars(runDone /\ ~deaf /\ ExecutorReturns)
    /\ WF_vars(runDone /\ (Push \/ PullRequest))

-----------------------------------------------------------------------------
Records == {"none", "open", "completed", "failed", "timed-out"}

TypeOK ==
    /\ main \in {"start", "audit", "policy", "halt", "signer", "create", "open", "select",
                 "join", "close", "seal", "teardown", "save"} \cup Ended
    /\ err \in {"nil", "error", "cancelled", "timedOut"}
    /\ loop \in {"none", "inside", "execute", "verify", "failed", "mark", "advance", "push",
                 "pullRequest", "finish", "done"}
    /\ attempt \in 0..MaxAttempts
    /\ {gateOK, loopErr, deaf, ctxDone, runDone, lost, signed, hook, dispatched, listed} \subseteq BOOLEAN
    /\ timer \in {"off", "armed", "fired"}
    /\ sink \in {"none", "open", "sealed"}
    /\ chain \in Seq(STRING)
    /\ box \in {"none", "up", "down"}
    /\ record \in Records
    /\ decision \in Halting \cup {"none", "allow"}
    /\ status \in {"ready", "needs-human", "torn"}
    /\ published \in {"no", "pushed", "pr"}
    /\ usage \in Nat
    /\ runs \in 1..MaxRuns

(* The run record, the chain and the box are closed only after the loop's  *)
(* goroutine has ended, on the result, cancel and timeout arms alike, so   *)
(* nothing is written behind Run's back (killAndJoin: joining is           *)
(* load-bearing).                                                          *)
LoopJoined ==
    main \in {"close", "seal", "teardown", "save", "returned"} => loop \in {"none", "done"}

(* Run returns nil for three reasons only: nothing was ready, and nothing  *)
(* was asked or opened for it; the policy did not allow the task and a     *)
(* human has it; or the last attempt passed the gate, its pull request     *)
(* exists and the record and the chain say so.                             *)
NilMeansSettled ==
    main = "returned" /\ err = "nil" =>
        \/ box = "none" /\ ~dispatched /\ sink = "none" /\ decision = "none"
        \/ box = "none" /\ decision \in Halting /\ listed /\ status = "needs-human"
        \/ /\ box = "down" /\ gateOK /\ published = "pr"
           /\ record \in {"none", "completed"}
           /\ sink = "sealed" => lost \/ chain[Len(chain)] = "finish completed"

(* A checkpoint is signed only for a run that succeeded, and when nothing  *)
(* more will be appended: the pull request exists, the record was closed   *)
(* as completed, and the chain of a run that had a sink is sealed and ends *)
(* with the completion, unless an append was lost (maybeCreateCheckpoint:  *)
(* "only on the success path").                                            *)
SignedIsSuccess ==
    signed => /\ published = "pr"
              /\ record \in {"none", "completed"}
              /\ sink # "open"
              /\ sink = "sealed" => lost \/ chain[Len(chain)] = "finish completed"

(* The approval hook is fired only for require_approval, and then no box   *)
(* was made and the task file already says needs-human (run.go, task 170). *)
HookMeansPaused ==
    hook => decision = "approval" /\ box = "none" /\ status = "needs-human"

(* A task that was given to a human is not attempted again by any later    *)
(* run of the program, whatever crashed (Source.Next takes ready tasks     *)
(* only, and markNeedsHuman comes after the last attempt).                 *)
ParkedIsLeft ==
    [][~dispatched /\ status = "needs-human" => usage' = usage]_vars

(* Run or its loop is in a call no cancellation reaches.                   *)
InCall ==
    \/ loop = "execute" /\ deaf
    \/ loop = "verify"
    \/ sink = "open" /\ loop \in {"inside", "mark", "advance", "finish"}
    \/ main = "seal" /\ err = "nil"

(* A timed run returns although its executor, git or gh hang: the timeout  *)
(* cancels the context they watch, and the join lets Run go on.  The one   *)
(* exception is a call that is not given the context and never returns.    *)
TimedRunEnds ==
    (main = "select" /\ timer # "off") ~> (main \in Ended \/ []InCall)

(* What the documents say; see README.                                     *)

(* B-044: on require_approval Run fires the hook with the task and the     *)
(* halt reason.                                                            *)
ApprovalReachesHook ==
    [][main = "halt" /\ decision = "approval" /\ main' = "returned" => err' = "nil"]_vars

(* orchestrate_seams.go: a run that did nothing is never masked as a       *)
(* success: the worker of a dispatched task returns nil only for a         *)
(* published one.                                                          *)
NilMeansPublished ==
    main = "returned" /\ dispatched /\ err = "nil" => published = "pr"

(* maybeCreateCheckpoint is called only with the "sink sealed": a signed   *)
(* checkpoint attests a chain this run sealed.                             *)
SignedIsSealed == signed => sink = "sealed"

(* B-013: on the timeout the loop is joined and the run returns.           *)
TimeoutReturns == (main = "join" /\ err = "timedOut") ~> (main \in Ended)
============================================================================

---------------------------- MODULE RunDispatch ----------------------------
(***************************************************************************)
(* The dispatch of admitted plans and the durable run journal they are     *)
(* recorded in: dispatchSubGoals, dispatchOne and dispatchWithSemaphore    *)
(* (src/internal/orchestrator/orchestrator.go), the approval pause and its *)
(* resolution (src/internal/orchestrator/runstore.go), the worker          *)
(* semaphore, and the rehydration after a crash (src/internal/cli).        *)
(*                                                                         *)
(* A sub-goal is dispatched by a goroutine of its plan ("plan") or, once   *)
(* its approval was given, by ResumeApproval ("resume").  A step is one    *)
(* critical section of runStoreMu, one operation on the semaphore, or what *)
(* a worker does between.  The goal's Record is its status, the attempts   *)
(* of its tasks and its pending approvals; every Save is durable (what a   *)
(* Save can leave behind when it fails is the subject of RunJournalFile).  *)
(* ResumeApproval is called by the goal's actor, one call at a time.       *)
(***************************************************************************)
EXTENDS Integers, FiniteSets

CONSTANTS
    Goals,
    Tasks,           \* the sub-goals of all plans
    GoalOf,          \* the goal a task belongs to
    MaxWorkers,      \* AGENT_BUILDER_MAX_WORKERS: permits of the semaphore
    RequireApproval, \* an allowed plan waits for the operator before dispatch
    TaskApprovals,   \* a worker's run-task gate may answer require_approval
    MaxCrashes       \* bound: crashes of the process

ASSUME DispatchAssumption ==
    /\ GoalOf \in [Tasks -> Goals]
    /\ MaxWorkers \in Nat \ {0}
    /\ MaxCrashes \in Nat
    /\ RequireApproval \in BOOLEAN
    /\ TaskApprovals \in BOOLEAN
    /\ IsFiniteSet(Tasks)

VARIABLES
    status,    \* per goal: Record.Status, "none" without a Record
    att,       \* per task: the status of its attempt, "none" without one
    pend,      \* the tasks in Record.Pending, of all goals
    phase,     \* per goal: where its plan is
    pc,        \* per dispatching goroutine: its program counter
    permits,   \* permits taken from the semaphore
    resume,    \* per goal: what ResumeApproval is in the middle of
    cancelled, \* the goals whose context was cancelled
    halted,    \* the goroutines whose deny event the audit chain refused
    todo,      \* the rehydrated records not resumed yet
    crashes,   \* how many crashes there were
    completed, \* history: the tasks with an attempt recorded as completed
    denied     \* history: the tasks the operator denied

journal == <<status, att, pend>>
history == <<completed, denied>>
vars == <<journal, phase, pc, permits, resume, cancelled, halted, todo,
          crashes, history>>

Statuses == {"none", "running", "awaiting", "completed", "failed"}
Attempts == {"none", "running", "awaiting", "completed", "failed", "needs-human"}
Phases == {"idle", "paused", "dispatching", "redriving", "settling", "resettling",
           "joined", "redriven"}
PCs == {"off", "gate", "acquire", "check", "run", "hooked", "recordDone",
        "recordFailed", "recordAwaiting", "skipped", "end"}
Holding == {"check", "run", "hooked"}
Calls == {"gate", "run", "hooked"}   \* in a call that has no deadline
Idle == {"off", "skipped", "end"}
Threads == {"plan", "resume"} \X Tasks
NoTask == "none"

tasksOf(g) == {t \in Tasks : GoalOf[t] = g}
planOf(g)  == {"plan"} \X tasksOf(g)
pendingOf(g) == {t \in pend : GoalOf[t] = g}
Holders == {th \in Threads : pc[th] \in Holding}
NoResume == [at |-> "idle", task |-> NoTask]

Init ==
    /\ status = [g \in Goals |-> "none"]
    /\ att = [t \in Tasks |-> "none"]
    /\ pend = {}
    /\ phase = [g \in Goals |-> "idle"]
    /\ pc = [th \in Threads |-> "off"]
    /\ permits = 0
    /\ resume = [g \in Goals |-> NoResume]
    /\ cancelled = {}
    /\ halted = {}
    /\ todo = {}
    /\ crashes = 0
    /\ completed = {}
    /\ denied = {}

---------------------------------------------------------------------------
(* Admission and the join: ConfirmAndPlan, dispatchSubGoals.               *)

PlanFrame == <<permits, resume, crashes, history>>

Launch(g, tasks) ==
    pc' = [th \in Threads |-> IF th \in {"plan"} \X tasks THEN "gate" ELSE pc[th]]

Redriving(g) == phase[g] \in {"redriving", "resettling"}

(* persistPlanRecord, then the pause or the dispatch.  The control loop    *)
(* starts when every rehydrated goal has been driven to its join.          *)
ConfirmAndPlan(g) ==
    /\ status[g] = "none"
    /\ todo = {}
    /\ \A h \in Goals : ~Redriving(h)
    /\ status' = [status EXCEPT ![g] = "running"]
    /\ IF RequireApproval
       THEN phase' = [phase EXCEPT ![g] = "paused"] /\ UNCHANGED pc
       ELSE phase' = [phase EXCEPT ![g] = "dispatching"] /\ Launch(g, tasksOf(g))
    /\ UNCHANGED <<PlanFrame, att, pend, cancelled, halted, todo>>

(* Mutation: a plan is finished when the attempts it has are.              *)
FinalizeByAttempts(g) ==
    status' = IF status[g] # "awaiting" /\ \A t \in tasksOf(g) : att[t] \in {"none", "completed"}
              THEN [status EXCEPT ![g] = "completed"] ELSE status

(* finalizeGoalStatus: a pause is never downgraded.                        *)
finalizeGoalStatus(g) ==
    status' = IF status[g] # "awaiting" /\ \A t \in tasksOf(g) : att[t] = "completed"
              THEN [status EXCEPT ![g] = "completed"] ELSE status

(* Mutation: a goroutine whose deny event was refused skips its wg.Done.   *)
JoinMissingDone(g) ==
    /\ phase[g] \in {"dispatching", "redriving"}
    /\ \A th \in planOf(g) : pc[th] \in Idle /\ th \notin halted
    /\ phase' = [phase EXCEPT ![g] = IF @ = "dispatching" THEN "settling" ELSE "resettling"]
    /\ UNCHANGED <<PlanFrame, journal, pc, cancelled, halted, todo>>

(* wg.Wait.  A deny event the audit chain refused ends the dispatch here.  *)
join(g) ==
    /\ phase[g] \in {"dispatching", "redriving"}
    /\ \A th \in planOf(g) : pc[th] \in Idle
    /\ phase' = [phase EXCEPT ![g] =
           IF halted \cap planOf(g) # {}
           THEN (IF @ = "dispatching" THEN "joined" ELSE "redriven")
           ELSE (IF @ = "dispatching" THEN "settling" ELSE "resettling")]
    /\ UNCHANGED <<PlanFrame, journal, pc, cancelled, halted, todo>>

(* The planner is asked about the blocked spawns, the goal's status is     *)
(* finalized, the completion event appended and the result reported.       *)
settle(g) ==
    /\ phase[g] \in {"settling", "resettling"}
    /\ phase' = [phase EXCEPT ![g] = IF @ = "settling" THEN "joined" ELSE "redriven"]
    /\ finalizeGoalStatus(g)
    /\ UNCHANGED <<PlanFrame, att, pend, pc, cancelled, halted, todo>>

cancel(g) ==
    /\ phase[g] \in {"dispatching", "settling"}
    /\ g \notin cancelled
    /\ cancelled' = cancelled \cup {g}
    /\ UNCHANGED <<PlanFrame, journal, phase, pc, halted, todo>>
---------------------------------------------------------------------------
(* One sub-goal: dispatchOne and dispatchWithSemaphore.                    *)

ThreadFrame == <<phase, resume, cancelled, todo, crashes, denied>>

Goto(th, at) == pc' = [pc EXCEPT ![th] = at]

(* recordAttempt: the before and after of a dispatch share one entry.      *)
recordAttempt(t, s) ==
    /\ att' = [att EXCEPT ![t] = s]
    /\ completed' = IF s = "completed" THEN completed \cup {t} ELSE completed

(* An unknown recipe, a spawn-worker gate that does not allow, or a target *)
(* that is the own repository: an outcome without an attempt.  When the    *)
(* audit chain refuses the deny event the plan halts after the join.       *)
spawnDenied(th) ==
    /\ pc[th] = "gate"
    /\ Goto(th, "end")
    /\ halted' \in {halted, halted \cup {th}}
    /\ UNCHANGED <<ThreadFrame, journal, permits, completed>>

spawnAllowed(th) ==
    /\ pc[th] = "gate"
    /\ Goto(th, "acquire")
    /\ recordAttempt(th[2], "running")
    /\ UNCHANGED <<ThreadFrame, status, pend, permits, halted>>

(* Mutation: the permit is taken without waiting for a free one.           *)
AcquireUnbounded(th) ==
    /\ pc[th] = "acquire"
    /\ permits' = permits + 1
    /\ Goto(th, "check")
    /\ UNCHANGED <<ThreadFrame, journal, halted, completed>>

Acquire(th) ==
    /\ pc[th] = "acquire"
    /\ permits < MaxWorkers
    /\ permits' = permits + 1
    /\ Goto(th, "check")
    /\ UNCHANGED <<ThreadFrame, journal, halted, completed>>

acquireCancelled(th) ==
    /\ pc[th] = "acquire"
    /\ GoalOf[th[2]] \in cancelled
    /\ Goto(th, "recordFailed")
    /\ UNCHANGED <<ThreadFrame, journal, permits, halted, completed>>

Release == permits' = permits - 1

planAwaitingApproval(th) ==
    /\ pc[th] = "check"
    /\ IF status[GoalOf[th[2]]] = "awaiting"
       THEN Goto(th, "skipped") /\ Release
       ELSE Goto(th, "run") /\ UNCHANGED permits
    /\ UNCHANGED <<ThreadFrame, journal, halted, completed>>

(* Mutation: the approval is recorded and the plan is not paused.          *)
PendingOnly(th) ==
    /\ TaskApprovals
    /\ pc[th] = "run"
    /\ Goto(th, "hooked")
    /\ pend' = pend \cup {th[2]}
    /\ UNCHANGED <<ThreadFrame, status, att, permits, halted, completed>>

(* OnRequireApproval: the worker's run-task gate answered require_approval.*)
recordPendingApproval(th) ==
    /\ TaskApprovals
    /\ pc[th] = "run"
    /\ Goto(th, "hooked")
    /\ pend' = pend \cup {th[2]}
    /\ status' = [status EXCEPT ![GoalOf[th[2]]] = "awaiting"]
    /\ UNCHANGED <<ThreadFrame, att, permits, halted, completed>>

(* Mutation: a failed dispatch returns without its release.                *)
ReturnLeaking(th) ==
    /\ \/ pc[th] = "run" /\ Goto(th, "recordDone") /\ Release
       \/ pc[th] = "run" /\ Goto(th, "recordFailed") /\ UNCHANGED permits
       \/ pc[th] = "hooked" /\ Goto(th, "recordAwaiting") /\ Release
    /\ UNCHANGED <<ThreadFrame, journal, halted, completed>>

workerReturns(th) ==
    /\ \/ pc[th] = "run" /\ \E at \in {"recordDone", "recordFailed"} : Goto(th, at)
       \/ pc[th] = "hooked" /\ Goto(th, "recordAwaiting")
    /\ Release
    /\ UNCHANGED <<ThreadFrame, journal, halted, completed>>

Result == [recordDone |-> "completed", recordFailed |-> "failed",
           recordAwaiting |-> "awaiting"]

recordResult(th) ==
    /\ pc[th] \in {"recordDone", "recordFailed", "recordAwaiting"}
    /\ recordAttempt(th[2], Result[pc[th]])
    /\ Goto(th, "end")
    /\ UNCHANGED <<ThreadFrame, status, pend, permits, halted>>

---------------------------------------------------------------------------
(* The operator resolves a pending approval: ResumeApproval.               *)

ResumeFrame == <<phase, permits, cancelled, todo, crashes>>

ResumeApproval(g, t, approved) ==
    /\ phase[g] \in {"dispatching", "settling", "joined"}
    /\ resume[g].at = "idle"
    /\ t \in pendingOf(g)
    /\ pend' = pend \ {t}
    /\ IF approved
       THEN /\ status' = [status EXCEPT ![g] = "running"]
            /\ pc' = [pc EXCEPT ![<<"resume", t>>] = "gate"]
            /\ resume' = [resume EXCEPT ![g] = [at |-> "dispatch", task |-> t]]
            /\ halted' = halted \ {<<"resume", t>>}
            /\ UNCHANGED denied
       ELSE /\ resume' = [resume EXCEPT ![g] = [at |-> "deny", task |-> t]]
            /\ denied' = denied \cup {t}
            /\ UNCHANGED <<status, pc, halted>>
    /\ UNCHANGED <<ResumeFrame, att, completed>>

denyRecorded(g) ==
    /\ resume[g].at = "deny"
    /\ recordAttempt(resume[g].task, "needs-human")
    /\ resume' = [resume EXCEPT ![g].at = "finalize"]
    /\ UNCHANGED <<ResumeFrame, status, pend, pc, halted, denied>>

(* dispatchOne returned; its deny-audit error ends the call without a      *)
(* finalization.                                                           *)
redispatched(g) ==
    /\ resume[g].at = "dispatch"
    /\ pc[<<"resume", resume[g].task>>] \in Idle
    /\ resume' = [resume EXCEPT ![g] = IF <<"resume", @.task>> \in halted
                                       THEN NoResume ELSE [@ EXCEPT !.at = "finalize"]]
    /\ UNCHANGED <<ResumeFrame, journal, pc, halted, history>>

(* finalizeAfterApproval looks at the attempts there are, not at the plan. *)
finalizeAfterApproval(g) ==
    LET attempts == {att[t] : t \in tasksOf(g)} \ {"none"} IN
    /\ resume[g].at = "finalize"
    /\ resume' = [resume EXCEPT ![g] = NoResume]
    /\ status' = [status EXCEPT ![g] =
           CASE pendingOf(g) # {} -> "awaiting"
             [] pendingOf(g) = {} /\ attempts \cap {"needs-human", "failed"} # {} -> "failed"
             [] pendingOf(g) = {} /\ attempts = {"completed"} -> "completed"
             [] OTHER -> "running"]
    /\ UNCHANGED <<ResumeFrame, att, pend, pc, halted, history>>
---------------------------------------------------------------------------
(* A crash, and the daemon that starts again: RehydrateInFlight lists the  *)
(* records, ResumeFromRecord drives them one after another before the      *)
(* control loop runs.                                                      *)

RehydrateInFlight == {g \in Goals : status[g] \in {"running", "awaiting"}}

crash ==
    /\ crashes < MaxCrashes
    /\ crashes' = crashes + 1
    /\ phase' = [g \in Goals |-> "idle"]
    /\ pc' = [th \in Threads |-> "off"]
    /\ permits' = 0
    /\ resume' = [g \in Goals |-> NoResume]
    /\ cancelled' = {}
    /\ halted' = {}
    /\ todo' = RehydrateInFlight
    /\ UNCHANGED <<journal, history>>

(* Mutation: a resume spares the failed attempts, not the completed ones.  *)
RemainingAll(g) == {t \in tasksOf(g) : att[t] # "failed"}

remaining(g) == {t \in tasksOf(g) : att[t] # "completed"}

ResumeFromRecord(g) ==
    /\ g \in todo
    /\ \A h \in Goals : ~Redriving(h)
    /\ todo' = todo \ {g}
    /\ IF remaining(g) = {}
       THEN /\ finalizeGoalStatus(g)
            /\ phase' = [phase EXCEPT ![g] = "redriven"]
            /\ UNCHANGED pc
       ELSE /\ phase' = [phase EXCEPT ![g] = "redriving"]
            /\ Launch(g, remaining(g))
            /\ UNCHANGED status
    /\ UNCHANGED <<PlanFrame, att, pend, cancelled, halted>>

---------------------------------------------------------------------------
threadStep(th) ==
    \/ spawnDenied(th)
    \/ spawnAllowed(th)
    \/ Acquire(th)
    \/ acquireCancelled(th)
    \/ planAwaitingApproval(th)
    \/ recordPendingApproval(th)
    \/ workerReturns(th)
    \/ recordResult(th)

resumeStep(g) ==
    \/ denyRecorded(g)
    \/ redispatched(g)
    \/ finalizeAfterApproval(g)

Next ==
    \/ \E th \in Threads : threadStep(th)
    \/ \E g \in Goals :
        \/ ConfirmAndPlan(g)
        \/ join(g)
        \/ settle(g)
        \/ cancel(g)
        \/ \E t \in Tasks, approved \in BOOLEAN : ResumeApproval(g, t, approved)
        \/ resumeStep(g)
        \/ ResumeFromRecord(g)
    \/ crash

Spec == Init /\ [][Next]_vars

(* What a goroutine does by itself, between its calls.                     *)
ownStep(th) ==
    \/ Acquire(th)
    \/ acquireCancelled(th)
    \/ planAwaitingApproval(th)
    \/ recordResult(th)

(* Goroutines are scheduled.  The calls they make need not return: the     *)
(* events of the gate and of settle are appended by a subprocess without a *)
(* deadline, the planner is called without one, and a worker runs the      *)
(* commands of its verification gate without its context.  Nothing makes   *)
(* an operator, a goal or a crash arrive either.                           *)
Fairness ==
    /\ \A th \in Threads : WF_vars(ownStep(th))
    /\ \A g \in Goals : /\ WF_vars(join(g)) /\ WF_vars(ResumeFromRecord(g))
                        /\ WF_vars(resumeStep(g))

FairSpec == Spec /\ Fairness

---------------------------------------------------------------------------
(* Every variable has its type.                                            *)
TypeOK ==
    /\ status \in [Goals -> Statuses]
    /\ att \in [Tasks -> Attempts]
    /\ pend \subseteq Tasks
    /\ phase \in [Goals -> Phases]
    /\ pc \in [Threads -> PCs]
    /\ permits \in 0..MaxWorkers
    /\ resume \in [Goals -> [at : {"idle", "dispatch", "deny", "finalize"},
                             task : Tasks \cup {NoTask}]]
    /\ cancelled \subseteq Goals
    /\ halted \subseteq Threads
    /\ todo \subseteq Goals
    /\ crashes \in 0..MaxCrashes
    /\ completed \subseteq Tasks
    /\ denied \subseteq Tasks

(* Every permit taken from the fleet-wide semaphore belongs to a goroutine *)
(* between its Acquire and its deferred Release, over all goals, resumes   *)
(* and restarts: at most MaxWorkers workers run, and none leaks a permit   *)
(* (dispatchWithSemaphore, REQ-112-07).                                    *)
PermitsBalanced == permits = Cardinality(Holders) /\ Cardinality(Holders) <= MaxWorkers

(* A sub-goal with a completed attempt in the journal is never started     *)
(* again, whatever was resumed, cancelled or restarted since               *)
(* (ResumeFromRecord: "never DOUBLE-dispatch a COMPLETED attempt").        *)
CompletedIsNotRestarted ==
    \A th \in Threads : pc[th] = "run" => th[2] \notin completed

(* A goal recorded as completed, which no restart looks at again, has a    *)
(* completed attempt for every sub-goal of its plan and no worker left     *)
(* (finalizeGoalStatus, finalizeAfterApproval).                            *)
CompletedGoalIsDone ==
    \A g \in Goals : status[g] = "completed" =>
        \A t \in tasksOf(g) : t \in completed /\ pc[<<"plan", t>>] \notin Holding

(* With one worker the pause is exact: while an approval of the plan is    *)
(* pending no other sub-goal of that plan is at work (the check of         *)
(* dispatchWithSemaphore is made inside the held semaphore).               *)
PauseHaltsPlan ==
    MaxWorkers = 1 =>
        \A th \in Threads : pc[th] = "run" => pendingOf(GoalOf[th[2]]) = {}

(* What may keep a plan from its join: one of its goroutines is in a call, *)
(* or it is not cancelled and every permit is held by a worker in a call.  *)
Held(g) ==
    \/ \E th \in planOf(g) : pc[th] \in Calls
    \/ g \notin cancelled /\ permits = MaxWorkers /\ \A th \in Holders : pc[th] \in Calls

(* A dispatched or re-driven plan comes to its join, unless calls without  *)
(* a deadline hold it for ever: its own, or those of the workers that have *)
(* the permits it waits for.  Each rehydrated record has its turn, unless  *)
(* the re-drive of one before it never ends.  No permit, no wakeup and no  *)
(* wg.Done is lost on the way.                                             *)
DispatchEnds ==
    \A g \in Goals :
        /\ phase[g] \in {"dispatching", "redriving"} ~>
               (phase[g] \notin {"dispatching", "redriving"} \/ []Held(g))
        /\ g \in todo ~> (g \notin todo \/ [](\E h \in Goals : Redriving(h)))

(* What docs and comments say of the approvals; see README.                *)

(* B-045: on approve the named sub-goal is re-dispatched: its goroutine    *)
(* does not come back from dispatchWithSemaphore as paused.                *)
ApprovedIsDispatched == \A t \in Tasks : pc[<<"resume", t>>] # "skipped"

(* B-045: a sub-goal the operator denied is not dispatched.                *)
DeniedIsNotRun ==
    \A th \in Threads : pc[th] = "run" => th[2] \notin denied

(* B-035: with approval required, no sub-goal of a plan the operator has   *)
(* not approved runs.                                                      *)
UnapprovedIsNotRun == RequireApproval => \A th \in Threads : pc[th] # "run"

(* ResumeApproval: once no approval is pending the plan is finalized, so a *)
(* goal nobody is resolving awaits an approval only if there is one.       *)
AwaitingHasPending ==
    \A g \in Goals : status[g] = "awaiting" /\ resume[g].at = "idle" => pendingOf(g) # {}
============================================================================

----------------------------- MODULE GoalActor -----------------------------
(***************************************************************************)
(* The asynchronous control plane: the control loop that routes operator   *)
(* messages (src/internal/cli/orchestrate.go, runControlLoop), the actor   *)
(* of each goal (src/internal/cli/goal_actor.go) and the goal's lifecycle  *)
(* in the orchestrator up to the join of its workers                       *)
(* (src/internal/orchestrator/orchestrator.go).                            *)
(*                                                                         *)
(* Every goal has two goroutines.  The main one waits for an admission     *)
(* slot, runs BeginGoal and ConfirmAndPlan, and joins the other.  The      *)
(* drain one reads the goal's mailbox.  They share the status registry     *)
(* (state, pending, cancelFn), the PlanStore (store), the goal's context   *)
(* (cancelled) and the actor's copy of the goal text (spec).  Each action  *)
(* below is one access to shared state, so the model has the interleavings *)
(* the Go scheduler has.                                                   *)
(*                                                                         *)
(* An info message is an identity, a goal text is the set of the infos     *)
(* folded into it.  A plan is in the store or it is not.  What the brain,  *)
(* the policy engine, the store and the workers answer is a choice.        *)
(***************************************************************************)
EXTENDS Integers, Sequences, FiniteSets

CONSTANTS
    Goals,            \* identities for routed goals and amendments
    MaxGoals,         \* AGENT_BUILDER_MAX_GOALS: capacity of the admission channel
    MailboxBuffer,    \* mailboxBuffer: capacity of a goal's mailbox
    AutoIntake,       \* AGENT_BUILDER_INTAKE = auto
    RequireApproval,  \* the orchestrator's requireApproval option
    Answers,          \* what analysis and clarification may return
    Decisions,        \* what the policy engine may answer to spawn-plan
    Tamper,           \* the plan store's memory guard may refuse an operation
    Budget,           \* bound: how many messages of each kind the operator sends
    Signals           \* bound: whether the root context may be cancelled

Kinds == {"newGoal", "info", "cancel", "confirm", "approve"}

ASSUME BoundsAssumption ==
    /\ MaxGoals \in Nat \ {0}
    /\ MailboxBuffer \in Nat \ {0}
    /\ AutoIntake \in BOOLEAN
    /\ RequireApproval \in BOOLEAN
    /\ Tamper \in BOOLEAN
    /\ Signals \in BOOLEAN
    /\ Answers \subseteq {"error", "answer", "coding"}
    /\ Decisions \subseteq {"allow", "require_approval", "deny"}
    /\ Budget \in [Kinds -> Nat]
ASSUME FiniteAssumption == IsFiniteSet(Goals)

VARIABLES
    loop,        \* the control loop: reading the source, joining, returned
    sent,        \* how many messages of each kind were read from the source
    wg,          \* the control loop's WaitGroup counter
    rootDone,    \* the control loop's context is cancelled
    mailbox,     \* per goal: the buffered commands
    state,       \* registry: the goal's lifecycle state
    cancelFn,    \* registry: the goals with a registered CancelFunc
    pending,     \* registry: the goal's pending-info queue
    cancelled,   \* the goals whose own context was cancelled
    owner,       \* the goal whose context the actor runs under
    slots,       \* the goals holding an admission slot
    store,       \* PlanStore: the goals with a stored plan
    spec,        \* the infos folded into the actor's goal text
    planned,     \* the infos in the goal text ConfirmAndPlan was called with
    view,        \* the infos pauseForApproval read and has not reported yet
    shown,       \* the infos the last delivered approval solicitation carried
    surfaced,    \* history: the infos any delivered solicitation carried
    unsent,      \* history: the infos of the solicitations that failed
    main,        \* program counter of the main goroutine
    drain,       \* program counter of the drain goroutine
    cmd,         \* what handleCommand is in the middle of
    batch,       \* infos drained for amendments not spawned yet
    handleDone,  \* the goals whose handleDone channel is closed
    confirmed,   \* the goals whose confirmChan is closed
    ignored      \* history: messages the loop reported as of unknown kind

loopVars  == <<loop, sent, wg, rootDone, ignored>>
regVars   == <<state, cancelFn, pending>>
ctxVars   == <<cancelled, owner>>
shownVars == <<view, shown, surfaced, unsent>>
goalVars  == <<store, spec, planned, shownVars>>
drainVars == <<drain, cmd, batch>>
vars == <<loopVars, mailbox, regVars, ctxVars, slots, goalVars, main,
          drainVars, handleDone, confirmed>>

States == {"none", "Queued", "Clarifying", "Conversing", "Planning",
           "AwaitingApproval", "Dispatching", "Done", "Failed", "Cancelled"}
Terminal == {"Done", "Failed", "Cancelled"}

MainPCs == {"none", "admit", "begin", "clarify", "check", "waitConfirm",
            "plan", "planning", "put", "pause", "solicit", "report",
            "dispatch", "working", "joined", "setDone", "checkConversing", "converse",
            "close", "join", "done"}
DrainPCs == {"off", "loop", "held", "linger", "sweep", "exit"}
CmdPCs == {"idle", "consume", "project", "route", "reclarify", "followup",
           "solicit", "report", "amend"}

Infos == 1..Budget["info"]
NoInfo == 0
Commands == [kind : {"info"}, info : Infos]
            \cup [kind : {"cancel", "confirm"}, info : {NoInfo}]

Unused == {g \in Goals : main[g] = "none"}
Known  == Goals \ Unused
ctxDone(g) == rootDone \/ owner[g] \in cancelled
shutdown == loop # "reading"
SetState(g, s) == state' = [state EXCEPT ![g] = s]
Goto(g, pc) == main' = [main EXCEPT ![g] = pc]

Init ==
    /\ loop = "reading"
    /\ sent = [k \in Kinds |-> 0]
    /\ wg = 0
    /\ rootDone = FALSE
    /\ mailbox = [g \in Goals |-> <<>>]
    /\ state = [g \in Goals |-> "none"]
    /\ cancelFn = {}
    /\ pending = [g \in Goals |-> {}]
    /\ cancelled = {}
    /\ owner = [g \in Goals |-> g]
    /\ slots = {}
    /\ store = {}
    /\ spec = [g \in Goals |-> {}]
    /\ planned = [g \in Goals |-> {}]
    /\ view = [g \in Goals |-> {}]
    /\ shown = [g \in Goals |-> {}]
    /\ surfaced = [g \in Goals |-> {}]
    /\ unsent = [g \in Goals |-> {}]
    /\ main = [g \in Goals |-> "none"]
    /\ drain = [g \in Goals |-> "off"]
    /\ cmd = [g \in Goals |-> "idle"]
    /\ batch = [g \in Goals |-> {}]
    /\ handleDone = {}
    /\ confirmed = {}
    /\ ignored = 0

---------------------------------------------------------------------------
(* The control loop.  Only this goroutine reads the source.                *)

Read(kind) ==
    /\ loop = "reading"
    /\ sent[kind] < Budget[kind]
    /\ sent' = [sent EXCEPT ![kind] = @ + 1]

(* Mutant: the actor is not counted in.                                    *)
StartActorUncounted(g, ctxOwner) ==
    /\ UNCHANGED wg
    /\ Goto(g, "admit")
    /\ owner' = [owner EXCEPT ![g] = ctxOwner]
    /\ SetState(g, "Queued")

(* runGoalActor counts the actor in before it starts the goroutine.        *)
StartActor(g, ctxOwner) ==
    /\ wg' = wg + 1
    /\ Goto(g, "admit")
    /\ owner' = [owner EXCEPT ![g] = ctxOwner]
    /\ SetState(g, "Queued")

routeNewGoal(g) ==
    /\ Read("newGoal")
    /\ g \in Unused
    /\ StartActor(g, g)
    /\ cancelFn' = cancelFn \cup {g}
    /\ UNCHANGED <<loop, rootDone, ignored, mailbox, pending, cancelled,
                   slots, goalVars, drainVars, handleDone, confirmed>>

(* Mutant: the mailbox has no capacity.                                    *)
DeliverUnbounded(g, c) ==
    mailbox' = IF g \in Known THEN [mailbox EXCEPT ![g] = Append(@, c)]
               ELSE mailbox

(* routeCommand: deliver puts the message in the mailbox when the goal has *)
(* one with room, and drops it otherwise.  The goal's actor may be gone:   *)
(* its mailbox is never removed.                                           *)
deliver(g, c) ==
    mailbox' = IF g \in Known /\ Len(mailbox[g]) < MailboxBuffer
               THEN [mailbox EXCEPT ![g] = Append(@, c)]
               ELSE mailbox

routeCommand(g) ==
    /\ \/ Read("cancel") /\ deliver(g, [kind |-> "cancel", info |-> NoInfo])
       \/ Read("confirm") /\ deliver(g, [kind |-> "confirm", info |-> NoInfo])
       \/ Read("info") /\ deliver(g, [kind |-> "info", info |-> sent'["info"]])
    /\ UNCHANGED <<loop, wg, rootDone, ignored, regVars, ctxVars, slots,
                   goalVars, main, drainVars, handleDone, confirmed>>

(* MsgApprove and MsgDeny match no case of the loop's switch.              *)
ignoreUnknownKind ==
    /\ Read("approve")
    /\ ignored' = ignored + 1
    /\ UNCHANGED <<loop, wg, rootDone, mailbox, regVars, ctxVars, slots,
                   goalVars, main, drainVars, handleDone, confirmed>>

sourceExhausted ==
    /\ loop = "reading"
    /\ loop' = "joining"
    /\ UNCHANGED <<sent, wg, rootDone, ignored, mailbox, regVars, ctxVars,
                   slots, goalVars, main, drainVars, handleDone, confirmed>>

loopReturns ==
    /\ loop = "joining"
    /\ wg = 0
    /\ loop' = "returned"
    /\ UNCHANGED <<sent, wg, rootDone, ignored, mailbox, regVars, ctxVars,
                   slots, goalVars, main, drainVars, handleDone, confirmed>>

cancelRoot ==
    /\ Signals
    /\ ~ rootDone
    /\ rootDone' = TRUE
    /\ UNCHANGED <<loop, sent, wg, ignored, mailbox, regVars, ctxVars, slots,
                   goalVars, main, drainVars, handleDone, confirmed>>

---------------------------------------------------------------------------
(* The main goroutine: runGoalActor and run.                               *)

Frame == <<loop, sent, rootDone, ignored, mailbox, ctxVars>>

(* The select on the admission channel; a send on a channel with room and  *)
(* a cancelled context are both ready, and Go picks either.                *)
admit(g) ==
    /\ main[g] = "admit"
    /\ Cardinality(slots) < MaxGoals
    /\ slots' = slots \cup {g}
    /\ Goto(g, "begin")
    /\ drain' = [drain EXCEPT ![g] = "loop"]
    /\ UNCHANGED <<Frame, wg, regVars, goalVars, cmd, batch, handleDone,
                   confirmed>>

admitCancelled(g) ==
    /\ main[g] = "admit"
    /\ ctxDone(g)
    /\ SetState(g, "Failed")
    /\ Goto(g, "done")
    /\ wg' = wg - 1
    /\ UNCHANGED <<Frame, slots, cancelFn, pending, goalVars, drainVars,
                   handleDone, confirmed>>

(* A step of the main goroutine that moves from one label to another and   *)
(* changes only the registry's state and the goal's plan and text.         *)
Step(g, from, to) ==
    /\ main[g] = from
    /\ Goto(g, to)
    /\ UNCHANGED <<Frame, wg, slots, cancelFn, pending, drainVars, handleDone,
                   confirmed>>

(* Where ConfirmAndPlan returns to: BeginGoal in auto intake, run else.    *)
AfterPlan == IF AutoIntake THEN "check" ELSE "checkConversing"

(* The call ConfirmAndPlan(ctx, a.goal) copies the actor's goal text.      *)
CopyGoal(g) ==
    /\ planned' = [planned EXCEPT ![g] = spec[g]]
    /\ UNCHANGED <<store, spec, shownVars>>

BeginGoal(g) ==
    \/ /\ "error" \in Answers                    \* Analyze or Answer failed
       /\ Step(g, "begin", "check")
       /\ SetState(g, "Failed")
       /\ UNCHANGED goalVars
    \/ /\ "answer" \in Answers                   \* answerGoal
       /\ Step(g, "begin", "check")
       /\ SetState(g, "Conversing")
       /\ UNCHANGED goalVars
    \/ /\ "coding" \in Answers
       /\ IF AutoIntake
          THEN Step(g, "begin", "plan") /\ CopyGoal(g) /\ UNCHANGED state
          ELSE /\ Step(g, "begin", "clarify")
               /\ SetState(g, "Clarifying")
               /\ UNCHANGED goalVars

ClarifyAndReport(g) ==
    /\ Step(g, "clarify", "check")
    /\ \/ UNCHANGED state
       \/ "error" \in Answers /\ SetState(g, "Failed")
    /\ UNCHANGED goalVars

checkClarifying(g) ==
    /\ Step(g, "check", IF state[g] = "Clarifying" THEN "waitConfirm"
                        ELSE "checkConversing")
    /\ UNCHANGED <<state, goalVars>>

(* Mutant: the wait for a confirm does not watch the context.              *)
WaitConfirmDeaf(g) ==
    /\ g \in confirmed
    /\ Step(g, "waitConfirm", "plan")
    /\ CopyGoal(g)
    /\ UNCHANGED state

waitConfirm(g) ==
    /\ \/ g \in confirmed /\ Step(g, "waitConfirm", "plan") /\ CopyGoal(g)
       \/ /\ ctxDone(g)
          /\ Step(g, "waitConfirm", "checkConversing")
          /\ UNCHANGED goalVars
    /\ UNCHANGED state

---------------------------------------------------------------------------
(* ConfirmAndPlan, pauseForApproval and dispatchSubGoals.                  *)

ConfirmAndPlan(g) ==
    /\ Step(g, "plan", "planning")
    /\ SetState(g, "Planning")
    /\ UNCHANGED goalVars

(* The planner, ConfigureForPlan and the spawn-plan decision.              *)
planFails(g) ==
    /\ "deny" \in Decisions
    /\ Step(g, "planning", AfterPlan)
    /\ SetState(g, "Failed")
    /\ UNCHANGED goalVars

planDecided(g) ==
    /\ \/ /\ "allow" \in Decisions
          /\ Step(g, "planning", IF RequireApproval THEN "put" ELSE "dispatch")
       \/ "require_approval" \in Decisions /\ Step(g, "planning", "put")
    /\ UNCHANGED <<state, goalVars>>

pausePut(g) ==
    /\ Step(g, "put", "pause")
    /\ store' = store \cup {g}
    /\ UNCHANGED <<state, spec, planned, shownVars>>

pauseRejected(g) ==
    /\ Tamper                                     \* the store's write gate
    /\ Step(g, "put", AfterPlan)
    /\ SetState(g, "Failed")
    /\ UNCHANGED goalVars

pauseProject(g) ==
    /\ Step(g, "pause", "solicit")
    /\ SetState(g, "AwaitingApproval")
    /\ UNCHANGED goalVars

(* PendingInfo and Report are two accesses with no lock between them: the  *)
(* other goroutine's solicitation may fall in between.                     *)
pauseSolicit(g) ==
    /\ Step(g, "solicit", "report")
    /\ view' = [view EXCEPT ![g] = pending[g]]
    /\ UNCHANGED <<state, store, spec, planned, shown, surfaced, unsent>>

(* Report of a solicitation with the given infos: it is delivered, or it   *)
(* fails and the error is passed up, to be reported in its turn.           *)
Report(g, infos) ==
    \/ /\ shown' = [shown EXCEPT ![g] = infos]
       /\ surfaced' = [surfaced EXCEPT ![g] = @ \cup infos]
       /\ UNCHANGED unsent
    \/ /\ unsent' = [unsent EXCEPT ![g] = @ \cup infos]
       /\ UNCHANGED <<shown, surfaced>>

(* The goal stays AwaitingApproval when the report fails.                  *)
pauseReport(g) ==
    /\ Step(g, "report", AfterPlan)
    /\ Report(g, view[g])
    /\ view' = [view EXCEPT ![g] = {}]
    /\ UNCHANGED <<state, store, spec, planned>>

dispatchSubGoals(g) ==
    /\ Step(g, "dispatch", "working")
    /\ SetState(g, "Dispatching")
    /\ UNCHANGED goalVars

(* The join of the workers; a deny the audit chain refused halts the plan. *)
workersJoin(g) ==
    \/ /\ Step(g, "working", "joined")
       /\ UNCHANGED <<state, goalVars>>
    \/ /\ "deny" \in Decisions
       /\ Step(g, "working", AfterPlan)
       /\ SetState(g, "Failed")
       /\ UNCHANGED goalVars

(* if ctx.Err() == nil { SetState(Done) }: the test and the write are two  *)
(* accesses, with nothing that keeps a cancel from falling between them.   *)
checkCtxErr(g) ==
    /\ Step(g, "joined", IF ctxDone(g) THEN AfterPlan ELSE "setDone")
    /\ UNCHANGED <<state, goalVars>>

projectDone(g) ==
    /\ Step(g, "setDone", AfterPlan)
    /\ SetState(g, "Done")
    /\ UNCHANGED goalVars

---------------------------------------------------------------------------
(* The end of run and of the actor.                                        *)

checkConversing(g) ==
    /\ Step(g, "checkConversing", IF state[g] = "Conversing" THEN "converse"
                                  ELSE "close")
    /\ UNCHANGED <<state, goalVars>>

EndConversation(g) ==
    /\ ctxDone(g) \/ shutdown
    /\ Step(g, "converse", "close")
    /\ SetState(g, "Done")
    /\ UNCHANGED goalVars

(* Mutant: the slot is freed before the drain goroutine is joined.         *)
CloseReleasing(g) ==
    /\ main[g] = "close"
    /\ Goto(g, "join")
    /\ handleDone' = handleDone \cup {g}
    /\ slots' = slots \ {g}
    /\ UNCHANGED <<Frame, wg, regVars, goalVars, drainVars, confirmed>>

closeHandleDone(g) ==
    /\ main[g] = "close"
    /\ Goto(g, "join")
    /\ handleDone' = handleDone \cup {g}
    /\ UNCHANGED <<Frame, wg, regVars, slots, goalVars, drainVars, confirmed>>

(* Mutant: an actor leaves with its slot.                                  *)
ExitLeaking(g) ==
    /\ main[g] = "join"
    /\ drain[g] = "exit"
    /\ Goto(g, "done")
    /\ wg' = wg - 1
    /\ UNCHANGED <<Frame, slots, regVars, goalVars, drainVars, handleDone, confirmed>>

(* drainWG.Wait, then the deferred receive on admit, then wg.Done.         *)
actorExits(g) ==
    /\ main[g] = "join"
    /\ drain[g] = "exit"
    /\ Goto(g, "done")
    /\ slots' = slots \ {g}
    /\ wg' = wg - 1
    /\ UNCHANGED <<Frame, regVars, goalVars, drainVars, handleDone, confirmed>>

---------------------------------------------------------------------------
(* The drain goroutine: drainCommands, drainPostHandle and sweep.          *)

DrainTo(g, pc) == drain' = [drain EXCEPT ![g] = pc]
DrainFrame == <<loopVars, ctxVars, slots, main, handleDone>>

(* A command is received in any of the three loops; handleCommand's first  *)
(* access is part of the step.                                             *)
receiveCancel(g) ==                                 \* applyCancel, step 1
    /\ cancelFn' = cancelFn \ {g}
    /\ cancelled' = IF g \in cancelFn THEN cancelled \cup {g} ELSE cancelled
    /\ cmd' = [cmd EXCEPT ![g] = "consume"]
    /\ UNCHANGED <<state, pending, confirmed>>

(* applyConfirm: after handleDone there is no confirmChan to close.        *)
receiveConfirm(g) ==
    /\ confirmed' = IF state[g] = "Clarifying" /\ drain[g] = "loop"
                    THEN confirmed \cup {g} ELSE confirmed
    /\ UNCHANGED <<regVars, cancelled, cmd>>

receiveInfo(g, i) ==                                \* applyInfo, EnqueueInfo
    /\ pending' = [pending EXCEPT ![g] = @ \cup {i}]
    /\ cmd' = [cmd EXCEPT ![g] = "route"]
    /\ UNCHANGED <<state, cancelFn, cancelled, confirmed>>

handleCommand(g) ==
    /\ drain[g] \in {"loop", "linger", "sweep"}
    /\ cmd[g] = "idle"
    /\ mailbox[g] # <<>>
    /\ mailbox' = [mailbox EXCEPT ![g] = Tail(@)]
    /\ LET c == Head(mailbox[g]) IN
          \/ c.kind = "cancel" /\ receiveCancel(g)
          \/ c.kind = "confirm" /\ receiveConfirm(g)
          \/ c.kind = "info" /\ receiveInfo(g, c.info)
    /\ UNCHANGED <<loopVars, owner, slots, goalVars, main, drain, batch,
                   handleDone>>

(* The other cases of the three selects.                                   *)
drainCommands(g) ==
    /\ drain[g] = "loop"
    /\ cmd[g] = "idle"
    /\ \/ g \in handleDone /\ DrainTo(g, "held")
       \/ ctxDone(g) /\ DrainTo(g, "exit")
    /\ UNCHANGED <<DrainFrame, mailbox, regVars, goalVars, cmd, batch, confirmed>>

(* store.Get; a read the memory guard refuses finds no plan.               *)
HasPendingPlan(g) ==
    /\ drain[g] = "held"
    /\ \/ g \in store /\ DrainTo(g, "linger")
       \/ (g \notin store \/ Tamper) /\ DrainTo(g, "sweep")
    /\ UNCHANGED <<DrainFrame, mailbox, regVars, goalVars, cmd, batch, confirmed>>

(* Mutant: a paused goal lingers until it is cancelled.                    *)
LingerDeaf(g) ==
    /\ drain[g] = "linger"
    /\ cmd[g] = "idle"
    /\ ctxDone(g)
    /\ DrainTo(g, "sweep")
    /\ UNCHANGED <<DrainFrame, mailbox, regVars, goalVars, cmd, batch, confirmed>>

drainPostHandle(g) ==
    /\ drain[g] = "linger"
    /\ cmd[g] = "idle"
    /\ ctxDone(g) \/ shutdown
    /\ DrainTo(g, "sweep")
    /\ UNCHANGED <<DrainFrame, mailbox, regVars, goalVars, cmd, batch, confirmed>>

sweep(g) ==
    /\ drain[g] = "sweep"
    /\ cmd[g] = "idle"
    /\ mailbox[g] = <<>>
    /\ DrainTo(g, "exit")
    /\ UNCHANGED <<DrainFrame, mailbox, regVars, goalVars, cmd, batch, confirmed>>

---------------------------------------------------------------------------
(* The later accesses of applyCancel and applyInfo.                        *)

CmdStep(g, from, to) ==
    /\ cmd[g] = from
    /\ cmd' = [cmd EXCEPT ![g] = to]
    /\ UNCHANGED <<mailbox, cancelFn, cancelled, slots, drain, handleDone,
                   confirmed, loop, sent, rootDone, ignored>>

ConsumePlanOnCancel(g) ==
    /\ CmdStep(g, "consume", "project")
    /\ \/ store' = store \ {g}
       \/ Tamper /\ g \in store /\ UNCHANGED store    \* delete-verify refused
    /\ UNCHANGED <<state, pending, spec, planned, shownVars, batch, wg, owner, main>>

projectCancelled(g) ==
    /\ CmdStep(g, "project", "idle")
    /\ SetState(g, "Cancelled")
    /\ UNCHANGED <<pending, goalVars, batch, wg, owner, main>>

(* Mutant: the queue is read and not emptied.                              *)
PeekInfo(g) == UNCHANGED pending

DrainInfo(g) == pending' = [pending EXCEPT ![g] = {}]

(* The switch on the goal's current state.                                 *)
applyInfo(g) ==
    /\ \/ /\ state[g] = "Clarifying"               \* FoldGoalText
          /\ CmdStep(g, "route", "reclarify")
          /\ spec' = [spec EXCEPT ![g] = @ \cup pending[g]]
          /\ DrainInfo(g)
          /\ UNCHANGED batch
       \/ /\ state[g] = "Conversing"
          /\ CmdStep(g, "route", "followup")
          /\ DrainInfo(g)
          /\ UNCHANGED <<spec, batch>>
       \/ /\ state[g] = "AwaitingApproval"
          /\ CmdStep(g, "route", "solicit")
          /\ UNCHANGED <<pending, spec, batch>>
       \/ /\ state[g] \in {"Queued", "Planning"}
          /\ CmdStep(g, "route", "idle")
          /\ UNCHANGED <<pending, spec, batch>>
       \/ /\ state[g] \in {"Dispatching"} \cup Terminal
          /\ CmdStep(g, "route", "amend")           \* spawnAmendment
          /\ batch' = [batch EXCEPT ![g] = pending[g]]
          /\ DrainInfo(g)
          /\ UNCHANGED spec
    /\ UNCHANGED <<state, store, planned, shownVars, wg, owner, main>>

(* ClarifyAndReport, called by the drain goroutine.                        *)
reclarify(g) ==
    /\ CmdStep(g, "reclarify", "idle")
    /\ \/ UNCHANGED state
       \/ "error" \in Answers /\ SetState(g, "Failed")
    /\ UNCHANGED <<pending, goalVars, batch, wg, owner, main>>

(* The answer to a follow-up; nothing the model keeps depends on it.       *)
ContinueAnswer(g) ==
    /\ CmdStep(g, "followup", "idle")
    /\ UNCHANGED <<state, pending, goalVars, batch, wg, owner, main>>

(* Mutant: an info on a paused goal is queued and not solicited for.       *)
SolicitNothing(g) ==
    /\ CmdStep(g, "solicit", "idle")
    /\ UNCHANGED <<state, pending, goalVars, batch, wg, owner, main>>

(* SolicitApproval: Get finds the plan, or finds none because it is gone   *)
(* or the memory guard refuses the read.  Only this goroutine changes the  *)
(* goal's queue, so what PendingInfo returns still is the queue when       *)
(* Report is called.                                                       *)
SolicitApproval(g) ==
    /\ \/ g \in store /\ CmdStep(g, "solicit", "report") /\ UNCHANGED unsent
       \/ /\ g \notin store \/ Tamper
          /\ CmdStep(g, "solicit", "idle")
          /\ unsent' = [unsent EXCEPT ![g] = @ \cup pending[g]]
    /\ UNCHANGED <<state, pending, store, spec, planned, view, shown, surfaced,
                   batch, wg, owner, main>>

reportSolicitation(g) ==
    /\ CmdStep(g, "report", "idle")
    /\ Report(g, pending[g])
    /\ UNCHANGED <<state, pending, store, spec, planned, view, batch, wg, owner, main>>

(* One iteration of spawnAmendment.  The amendment has its own mailbox and *)
(* registry entry, runs under the parent's context and has no CancelFunc.  *)
spawnAmendment(g, h) ==
    \E i \in batch[g] :
        /\ h \in Unused
        /\ CmdStep(g, "amend", IF batch[g] = {i} THEN "idle" ELSE "amend")
        /\ batch' = [batch EXCEPT ![g] = @ \ {i}]
        /\ StartActor(h, owner[g])
        /\ spec' = [spec EXCEPT ![h] = {i}]
        /\ UNCHANGED <<pending, store, planned, shownVars>>

---------------------------------------------------------------------------
(* Calls with no deadline: the brain (its context is context.Background()),*)
(* the audit-trail and memory-guard processes, and the workers.            *)
mainCall(g) ==
    \/ BeginGoal(g) \/ ClarifyAndReport(g) \/ planFails(g) \/ planDecided(g)
    \/ pausePut(g) \/ pauseRejected(g) \/ workersJoin(g)

drainCall(g) ==
    \/ HasPendingPlan(g) \/ ConsumePlanOnCancel(g) \/ reclarify(g)
    \/ ContinueAnswer(g) \/ SolicitApproval(g)

(* The goroutines' own steps.                                              *)
mainStep(g) ==
    \/ admitCancelled(g) \/ checkClarifying(g) \/ waitConfirm(g)
    \/ ConfirmAndPlan(g) \/ pauseProject(g) \/ pauseSolicit(g) \/ pauseReport(g)
    \/ dispatchSubGoals(g) \/ checkCtxErr(g) \/ projectDone(g)
    \/ checkConversing(g) \/ EndConversation(g) \/ closeHandleDone(g)
    \/ actorExits(g)

drainStep(g) ==
    \/ handleCommand(g) \/ drainCommands(g) \/ drainPostHandle(g) \/ sweep(g)
    \/ projectCancelled(g) \/ applyInfo(g) \/ reportSolicitation(g)
    \/ \E h \in Goals : spawnAmendment(g, h)

terminated == loop = "returned" /\ UNCHANGED vars

Next ==
    \/ \E g \in Goals : routeNewGoal(g) \/ routeCommand(g)
    \/ ignoreUnknownKind \/ sourceExhausted \/ loopReturns \/ cancelRoot
    \/ \E g \in Goals : admit(g) \/ mainStep(g) \/ drainStep(g)
    \/ \E g \in Goals : mainCall(g) \/ drainCall(g)
    \/ terminated

Spec == Init /\ [][Next]_vars

(* The Go scheduler runs every goroutine, a report returns (the channel's  *)
(* HTTP client has a timeout), and goroutines waiting on the admission     *)
(* channel are served in the order they came.  Nothing is assumed of the   *)
(* operator, of the source, of signals, or of a call without a deadline:   *)
(* mainCall and drainCall may never happen.                                *)
Fairness ==
    /\ \A g \in Goals : SF_vars(admit(g)) /\ WF_vars(mainStep(g)) /\ WF_vars(drainStep(g))
    /\ WF_vars(loopReturns)

FairSpec == Spec /\ Fairness

---------------------------------------------------------------------------
(* Type correctness of the registry, the contexts, the mailboxes and the   *)
(* program counters.                                                       *)
TypeOK ==
    /\ loop \in {"reading", "joining", "returned"}
    /\ sent \in [Kinds -> Nat]
    /\ \A k \in Kinds : sent[k] <= Budget[k]
    /\ wg \in Nat
    /\ rootDone \in BOOLEAN
    /\ mailbox \in [Goals -> Seq(Commands)]
    /\ \A g \in Goals : Len(mailbox[g]) <= MailboxBuffer
    /\ state \in [Goals -> States]
    /\ owner \in [Goals -> Goals]
    /\ cancelFn \subseteq Goals /\ cancelled \subseteq Goals
    /\ slots \subseteq Goals /\ store \subseteq Goals
    /\ handleDone \subseteq Goals /\ confirmed \subseteq Goals
    /\ pending \in [Goals -> SUBSET Infos] /\ batch \in [Goals -> SUBSET Infos]
    /\ spec \in [Goals -> SUBSET Infos] /\ planned \in [Goals -> SUBSET Infos]
    /\ view \in [Goals -> SUBSET Infos] /\ shown \in [Goals -> SUBSET Infos]
    /\ surfaced \in [Goals -> SUBSET Infos] /\ unsent \in [Goals -> SUBSET Infos]
    /\ main \in [Goals -> MainPCs]
    /\ drain \in [Goals -> DrainPCs]
    /\ cmd \in [Goals -> CmdPCs]
    /\ ignored \in Nat

(* runControlLoop returns only when every goroutine it is responsible for  *)
(* has ended, amendments spawned after the source ended included: a second *)
(* wg.Add cannot come after wg.Wait has seen zero.                         *)
JoinedBeforeReturn ==
    loop = "returned" =>
        \A g \in Goals : main[g] \in {"none", "done"} /\ drain[g] \in {"off", "exit"}

(* The admission channel bounds the goals whose goroutines run: an actor   *)
(* past the select holds a slot until both its goroutines have ended.      *)
AdmissionBound ==
    /\ Cardinality(slots) <= MaxGoals
    /\ \A g \in Goals : (main[g] \notin {"none", "admit", "done"} \/ drain[g] \notin {"off", "exit"})
                          => g \in slots

(* The inductive invariant behind the two: the WaitGroup counts the live   *)
(* actors, exactly the admitted ones hold slots, a drain goroutine lives   *)
(* inside its actor, and a command is handled by a running drain goroutine *)
(* (so no amendment is spawned once the counter is zero).                  *)
Live == {g \in Goals : main[g] \notin {"none", "done"}}
Counted ==
    /\ wg = Cardinality(Live)
    /\ Cardinality(slots) <= MaxGoals
    /\ \A g \in Goals : g \in slots <=> main[g] \notin {"none", "admit", "done"}
    /\ \A g \in Goals : main[g] \in {"none", "admit", "done"} => drain[g] \in {"off", "exit"}
    /\ \A g \in Goals : cmd[g] # "idle" => drain[g] \in {"loop", "linger", "sweep"}
    /\ loop = "returned" => wg = 0
IInv == TypeOK /\ Counted

(* Every info queued for a plan that waits for approval was put before the *)
(* operator with a solicitation for it, whichever goroutine came first, or *)
(* the very solicitation that carried it failed: an info that arrives      *)
(* around the pause is in one of the two solicitations.                    *)
Paused(g) ==
    /\ state[g] = "AwaitingApproval"
    /\ g \in store
    /\ main[g] \notin {"pause", "solicit", "report"}
    /\ cmd[g] = "idle"
SolicitationComplete ==
    \A g \in Goals : Paused(g) => pending[g] \subseteq surfaced[g] \cup unsent[g]

(* An info is applied at most once: it is in one mailbox, one pending      *)
(* queue, one batch of amendments or one goal text, never in two (the      *)
(* reason DrainInfo empties the queue it returns).                         *)
Holds(g, p, i) ==
    \/ p = "mailbox" /\ \E k \in DOMAIN mailbox[g] : mailbox[g][k].info = i
    \/ p = "pending" /\ i \in pending[g]
    \/ p = "batch" /\ i \in batch[g]
    \/ p = "spec" /\ i \in spec[g]
Places == {"mailbox", "pending", "batch", "spec"}
InfoAppliedOnce ==
    \A i \in Infos :
        Cardinality({p \in Goals \X Places : Holds(p[1], p[2], i)}) <= 1

(* A goroutine of the goal is in a call without a deadline.                *)
InCall(g) ==
    \/ main[g] \in {"begin", "clarify", "planning", "put", "working"}
    \/ drain[g] = "held"
    \/ cmd[g] \in {"consume", "reclarify", "followup", "solicit"}

(* A cancel ends the goal and the amendments that run under its context:   *)
(* both goroutines of each come to their end and free the slot, unless one *)
(* of them is in a call that never returns.                                *)
CancelStops ==
    \A g \in Goals :
        (main[g] # "none" /\ owner[g] \in cancelled)
            ~> ((main[g] = "done" /\ g \notin slots) \/ []InCall(g))

(* The control plane drains and exits once the source is exhausted, unless *)
(* a goal waits for good for a confirm, which only a cancel or a signal    *)
(* could still end, or is in a call that never returns.                    *)
ShutdownDrains ==
    loop = "joining" ~> (\/ loop = "returned"
                         \/ \E g \in Goals : [](main[g] = "waitConfirm" \/ InCall(g)))

(* A queued goal is admitted (or fails) in the end, unless every slot is   *)
(* held for good by a goal that waits for the operator (a confirm, a       *)
(* follow-up question or an approval) or is in a call that never returns.  *)
(* No slot is lost to a goal that has ended.                               *)
Parked(g) ==
    \/ main[g] \in {"waitConfirm", "converse"}
    \/ main[g] = "join" /\ drain[g] = "linger"
QueuedIsAdmitted ==
    \A g \in Goals :
        main[g] = "admit"
            ~> (\/ main[g] # "admit"
                \/ [](Cardinality({h \in slots : Parked(h) \/ InCall(h)}) = MaxGoals))

(* The last solicitation the operator was sent has every info queued for   *)
(* the goal, when none failed: it is sent again so that the operator sees  *)
(* the amended context before approving (the comment of SolicitApproval).  *)
LastSolicitationIsComplete ==
    \A g \in Goals : Paused(g) /\ unsent[g] = {} => pending[g] \subseteq shown[g]

(* The control plane drains and exits when there is no more input, whatever *)
(* the goals wait for (behaviors.md, B-040), when their calls return.      *)
ExhaustionDrains == loop = "joining" ~> (loop = "returned" \/ [](\E g \in Goals : InCall(g)))

(* A cancelled goal has no plan in the store for a later approval to       *)
(* dispatch (goal_actor.go, applyCancel, step 2).                          *)
CancelledHasNoPlan ==
    \A g \in Goals : state[g] = "Cancelled" /\ cmd[g] = "idle" => g \notin store

(* dispatchPlan does not write Done over the Cancelled of the cancel       *)
(* handler.                                                                *)
DoneKeepsCancelled ==
    [][\A g \in Goals : main[g] = "setDone" /\ state[g] = "Cancelled"
                            => state'[g] # "Done"]_vars

(* At most maxGoals actors are ever non-Queued and non-terminal            *)
(* (LiveNonQueuedCount).                                                   *)
LiveWithinMaxGoals ==
    Cardinality({g \in Goals : state[g] \notin {"none", "Queued"} \cup Terminal}) <= MaxGoals

(* The drain goroutine applies what is buffered before it stops, on a      *)
(* terminal goal, on shutdown and on cancellation (the comment of sweep).  *)
SweptBeforeExit ==
    [][\A g \in Goals : drain[g] # "exit" /\ drain'[g] = "exit"
           => \A k \in DOMAIN mailbox[g] : mailbox[g][k].kind # "info"]_vars

(* An info on a terminal goal that was not cancelled becomes an amendment; *)
(* it does not stay unread.                                                *)
TerminalInfoIsAmended ==
    \A g \in Goals :
        (state[g] = "Done" /\ mailbox[g] # <<>>) ~> (mailbox[g] = <<>> \/ ctxDone(g) \/ []InCall(g))

(* ConfirmAndPlan runs on the augmented goal: what was folded while the    *)
(* goal was Clarifying is in the text that is planned.                     *)
FoldedIsPlanned ==
    \A g \in Goals :
        main[g] \in {"planning", "put", "pause", "solicit", "report", "dispatch", "working"}
            => spec[g] \subseteq planned[g]

(* Every approve or deny the source delivers is routed to the goal's       *)
(* actor.                                                                  *)
ApprovalIsRouted == ignored = 0
============================================================================

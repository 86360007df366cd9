-------------------------- MODULE RunDispatchProofs --------------------------
(***************************************************************************)
(* Theorems about RunDispatch, for any finite set of tasks, any plans, any *)
(* number of workers and of crashes.                                       *)
(***************************************************************************)
EXTENDS RunDispatch, FiniteSetTheorems, TLAPS

(* What makes the permit count inductive: a goroutine is only (re)started  *)
(* where the one before it is gone, because a plan is dispatched by one    *)
(* caller at a time and ResumeApproval runs once per goal.                 *)
OneCaller ==
    /\ \A g \in Goals : phase[g] \notin {"dispatching", "redriving"} =>
           \A th \in planOf(g) : pc[th] \in Idle
    /\ \A t \in Tasks : pc[<<"resume", t>>] \notin Idle =>
           resume[GoalOf[t]].at = "dispatch" /\ resume[GoalOf[t]].task = t
    /\ \A g \in Goals : g \in todo \/ status[g] = "none" => phase[g] = "idle"
    /\ \A g \in Goals : g \in todo => status[g] # "none"

IInv == TypeOK /\ OneCaller /\ PermitsBalanced

(* The leaves are Zenon's, but for the ones that say otherwise.            *)
USE ZenonT(30)

(* There are finitely many goroutines.                                     *)
LEMMA HoldersFinite == IsFiniteSet(Holders)
<1>1. IsFiniteSet({"plan", "resume"})
  <2>1. IsFiniteSet({"plan"})
    BY FS_Singleton
  <2>2. {"plan", "resume"} = {"plan"} \cup {"resume"}
    OBVIOUS
  <2> QED
    BY <2>1, <2>2, FS_AddElement
<1>2. IsFiniteSet(Threads)
  BY <1>1, FS_Product, DispatchAssumption DEF Threads
<1> QED
  BY <1>2, FS_Subset DEF Holders

(* What a step of one goroutine does to the permits: it is inside the      *)
(* semaphore before and after or neither, enters taking one, or leaves     *)
(* giving one back.                                                        *)
LEMMA GotoBalances ==
  ASSUME TypeOK, PermitsBalanced, NEW th \in Threads, NEW at \in PCs,
         Goto(th, at),
         \/ (pc[th] \in Holding <=> at \in Holding) /\ permits' = permits
         \/ /\ pc[th] \notin Holding /\ at \in Holding
            /\ permits < MaxWorkers /\ permits' = permits + 1
         \/ pc[th] \in Holding /\ at \notin Holding /\ permits' = permits - 1
  PROVE  PermitsBalanced' /\ permits' \in 0..MaxWorkers /\ pc' \in [Threads -> PCs]
<1>1. pc' \in [Threads -> PCs] /\ \A x \in Threads : pc'[x] = IF x = th THEN at ELSE pc[x]
  BY DEF TypeOK, Goto
<1>2. /\ IsFiniteSet(Holders) /\ Cardinality(Holders) \in Nat
      /\ permits = Cardinality(Holders) /\ permits \in 0..MaxWorkers /\ MaxWorkers \in Nat
  BY HoldersFinite, FS_CardinalityType, DispatchAssumption DEF TypeOK, PermitsBalanced
<1>3. CASE (pc[th] \in Holding <=> at \in Holding) /\ permits' = permits
  <2>1. Holders' = Holders
    BY <1>1, <1>3 DEF Holders
  <2> QED
    BY <1>1, <1>2, <1>3, <2>1 DEF PermitsBalanced
<1>4. CASE /\ pc[th] \notin Holding /\ at \in Holding
           /\ permits < MaxWorkers /\ permits' = permits + 1
  <2>1. Holders' = Holders \cup {th} /\ th \notin Holders
    BY <1>1, <1>4 DEF Holders
  <2>2. Cardinality(Holders') = Cardinality(Holders) + 1
    BY <1>2, <2>1, FS_AddElement
  <2> QED
    BY SMT, <1>1, <1>2, <1>4, <2>2 DEF PermitsBalanced
<1>5. CASE pc[th] \in Holding /\ at \notin Holding /\ permits' = permits - 1
  <2>1. Holders' = Holders \ {th} /\ th \in Holders
    BY <1>1, <1>5 DEF Holders
  <2>2. Cardinality(Holders') = Cardinality(Holders) - 1
    BY <1>2, <2>1, FS_RemoveElement
  <2>3. Cardinality(Holders') \in Nat
    BY <1>2, <2>1, FS_RemoveElement, FS_CardinalityType
  <2> QED
    BY SMT, <1>1, <1>2, <1>5, <2>2, <2>3 DEF PermitsBalanced
<1> QED
  BY <1>3, <1>4, <1>5

(* Starting the goroutines of a plan none of whose goroutines runs leaves  *)
(* the semaphore alone.                                                    *)
LEMMA LaunchBalances ==
  ASSUME TypeOK, PermitsBalanced, NEW g \in Goals, NEW tasks \in SUBSET tasksOf(g),
         \A th \in planOf(g) : pc[th] \in Idle, Launch(g, tasks), permits' = permits
  PROVE  /\ PermitsBalanced' /\ pc' \in [Threads -> PCs]
         /\ \A th \in Threads : th \notin planOf(g) => pc'[th] = pc[th]
<1>1. /\ pc' \in [Threads -> PCs]
      /\ \A th \in Threads : pc'[th] = IF th \in {"plan"} \X tasks THEN "gate" ELSE pc[th]
  BY DEF Launch, TypeOK, PCs
<1>2. {"plan"} \X tasks \subseteq planOf(g)
  BY DEF planOf
<1>3. Holders' = Holders
  BY <1>1, <1>2 DEF Holders, Holding, Idle
<1> QED
  BY <1>1, <1>2, <1>3 DEF PermitsBalanced

(* A goroutine at work stays the one its caller waits for.                 *)
LEMMA GotoKeepsCaller ==
  ASSUME TypeOK, OneCaller, NEW th \in Threads, NEW at \in PCs,
         Goto(th, at), pc[th] \notin Idle,
         \A g \in Goals : status'[g] = "none" => status[g] = "none",
         UNCHANGED <<phase, resume, todo>>
  PROVE  OneCaller'
<1>1. \A x \in Threads : pc'[x] = IF x = th THEN at ELSE pc[x]
  BY DEF TypeOK, Goto
<1>2. \A g \in Goals : phase[g] \notin {"dispatching", "redriving"} => th \notin planOf(g)
  BY DEF OneCaller
<1>3. \A g \in Goals : planOf(g) \subseteq Threads
  BY DEF planOf, tasksOf, Threads
<1>4. \A t \in Tasks : <<"resume", t>> \in Threads
  BY DEF Threads
<1>5. \A g \in Goals : phase'[g] \notin {"dispatching", "redriving"} =>
          \A x \in planOf(g)' : pc'[x] \in Idle
  BY SMT, <1>1, <1>2, <1>3 DEF OneCaller, planOf, tasksOf
<1>6. \A t \in Tasks : pc'[<<"resume", t>>] \notin Idle =>
          resume'[GoalOf[t]].at = "dispatch" /\ resume'[GoalOf[t]].task = t
  BY <1>1, <1>4 DEF OneCaller
<1> QED
  BY <1>5, <1>6 DEF OneCaller, TypeOK

(* Every step of dispatchOne keeps the invariant.                          *)
LEMMA ThreadKeeps ==
  ASSUME IInv, NEW th \in Threads, threadStep(th)
  PROVE  IInv'
<1>0. /\ th[2] \in Tasks /\ GoalOf[th[2]] \in Goals /\ permits \in 0..MaxWorkers
      /\ MaxWorkers \in Nat \ {0}
  BY DispatchAssumption DEF IInv, TypeOK, Threads
<1> USE DEF IInv
<1>1. CASE spawnDenied(th)
  <2>1. Goto(th, "end") /\ "end" \in PCs /\ pc[th] = "gate" /\ permits' = permits
    BY <1>1 DEF spawnDenied, PCs
  <2>2. OneCaller'
    BY <1>1, <2>1, GotoKeepsCaller DEF spawnDenied, ThreadFrame, journal, Idle
  <2>3. PermitsBalanced' /\ permits' \in 0..MaxWorkers /\ pc' \in [Threads -> PCs]
    BY <2>1, GotoBalances DEF Holding
  <2> QED
    BY <1>1, <2>2, <2>3 DEF spawnDenied, ThreadFrame, journal, TypeOK
<1>2. CASE spawnAllowed(th)
  <2>1. Goto(th, "acquire") /\ "acquire" \in PCs /\ pc[th] = "gate" /\ permits' = permits
    BY <1>2 DEF spawnAllowed, PCs
  <2>2. OneCaller'
    BY <1>2, <2>1, GotoKeepsCaller DEF spawnAllowed, ThreadFrame, Idle
  <2>3. PermitsBalanced' /\ permits' \in 0..MaxWorkers /\ pc' \in [Threads -> PCs]
    BY <2>1, GotoBalances DEF Holding
  <2>4. att' \in [Tasks -> Attempts] /\ completed' \subseteq Tasks
    BY <1>2, <1>0 DEF spawnAllowed, recordAttempt, TypeOK, Attempts
  <2> QED
    BY <1>2, <2>2, <2>3, <2>4 DEF spawnAllowed, ThreadFrame, TypeOK
<1>3. CASE Acquire(th)
  <2>1. Goto(th, "check") /\ "check" \in PCs /\ pc[th] = "acquire"
    BY <1>3 DEF Acquire, PCs
  <2>2. OneCaller'
    BY <1>3, <2>1, GotoKeepsCaller DEF Acquire, ThreadFrame, journal, Idle
  <2>3. PermitsBalanced' /\ permits' \in 0..MaxWorkers /\ pc' \in [Threads -> PCs]
    BY <1>3, <2>1, GotoBalances DEF Acquire, Holding
  <2> QED
    BY <1>3, <2>2, <2>3 DEF Acquire, ThreadFrame, journal, TypeOK
<1>4. CASE acquireCancelled(th)
  <2>1. Goto(th, "recordFailed") /\ "recordFailed" \in PCs /\ pc[th] = "acquire" /\ permits' = permits
    BY <1>4 DEF acquireCancelled, PCs
  <2>2. OneCaller'
    BY <1>4, <2>1, GotoKeepsCaller DEF acquireCancelled, ThreadFrame, journal, Idle
  <2>3. PermitsBalanced' /\ permits' \in 0..MaxWorkers /\ pc' \in [Threads -> PCs]
    BY <2>1, GotoBalances DEF Holding
  <2> QED
    BY <1>4, <2>2, <2>3 DEF acquireCancelled, ThreadFrame, journal, TypeOK
<1>5. CASE planAwaitingApproval(th)
  <2>1. PICK at \in {"skipped", "run"} :
          /\ Goto(th, at) /\ pc[th] = "check"
          /\ at = "skipped" => permits' = permits - 1
          /\ at = "run" => permits' = permits
    BY <1>5 DEF planAwaitingApproval, Release
  <2>2. at \in PCs
    BY DEF PCs
  <2>3. OneCaller'
    BY <1>5, <2>1, <2>2, GotoKeepsCaller DEF planAwaitingApproval, ThreadFrame, journal, Idle
  <2>4. PermitsBalanced' /\ permits' \in 0..MaxWorkers /\ pc' \in [Threads -> PCs]
    BY <2>1, <2>2, GotoBalances DEF Holding
  <2> QED
    BY <1>5, <2>3, <2>4 DEF planAwaitingApproval, ThreadFrame, journal, TypeOK
<1>6. CASE recordPendingApproval(th)
  <2>1. Goto(th, "hooked") /\ "hooked" \in PCs /\ pc[th] = "run" /\ permits' = permits
    BY <1>6 DEF recordPendingApproval, PCs
  <2>2. status' \in [Goals -> Statuses] /\ pend' \subseteq Tasks
    BY <1>0, <1>6 DEF recordPendingApproval, TypeOK, Statuses
  <2>3. \A g \in Goals : status'[g] = "none" => status[g] = "none"
    BY <1>0, <1>6 DEF recordPendingApproval, TypeOK
  <2>4. OneCaller'
    BY <1>6, <2>1, <2>3, GotoKeepsCaller DEF recordPendingApproval, ThreadFrame, Idle
  <2>5. PermitsBalanced' /\ permits' \in 0..MaxWorkers /\ pc' \in [Threads -> PCs]
    BY <2>1, GotoBalances DEF Holding
  <2> QED
    BY <1>6, <2>2, <2>4, <2>5 DEF recordPendingApproval, ThreadFrame, TypeOK
<1>7. CASE workerReturns(th)
  <2>1. PICK at \in {"recordDone", "recordFailed", "recordAwaiting"} :
          Goto(th, at) /\ pc[th] \in {"run", "hooked"} /\ permits' = permits - 1
    BY <1>7 DEF workerReturns, Release
  <2>2. at \in PCs
    BY DEF PCs
  <2>3. OneCaller'
    BY <1>7, <2>1, <2>2, GotoKeepsCaller DEF workerReturns, ThreadFrame, journal, Idle
  <2>4. PermitsBalanced' /\ permits' \in 0..MaxWorkers /\ pc' \in [Threads -> PCs]
    BY <2>1, <2>2, GotoBalances DEF Holding
  <2> QED
    BY <1>7, <2>3, <2>4 DEF workerReturns, ThreadFrame, journal, TypeOK
<1>8. CASE recordResult(th)
  <2>1. /\ Goto(th, "end") /\ "end" \in PCs /\ permits' = permits
        /\ pc[th] \in {"recordDone", "recordFailed", "recordAwaiting"}
    BY <1>8 DEF recordResult, PCs
  <2>2. OneCaller'
    BY <1>8, <2>1, GotoKeepsCaller DEF recordResult, ThreadFrame, Idle
  <2>3. PermitsBalanced' /\ permits' \in 0..MaxWorkers /\ pc' \in [Threads -> PCs]
    BY <2>1, GotoBalances DEF Holding
  <2>4. Result[pc[th]] \in Attempts
    BY SMT, <2>1 DEF Result, Attempts
  <2>5. att' \in [Tasks -> Attempts] /\ completed' \subseteq Tasks
    BY <1>0, <1>8, <2>4 DEF recordResult, recordAttempt, TypeOK
  <2> QED
    BY <1>8, <2>2, <2>3, <2>5 DEF recordResult, ThreadFrame, TypeOK
<1> QED
  BY <1>1, <1>2, <1>3, <1>4, <1>5, <1>6, <1>7, <1>8 DEF threadStep

(* finalizeGoalStatus only ever moves a goal to completed.                 *)
LEMMA FinalizeTypes ==
  ASSUME TypeOK, NEW g \in Goals, finalizeGoalStatus(g)
  PROVE  /\ status' \in [Goals -> Statuses]
         /\ \A x \in Goals : status'[x] = "none" => status[x] = "none"
BY DEF finalizeGoalStatus, TypeOK, Statuses

(* Admission, join and cancellation of a plan keep the invariant.          *)
LEMMA PlanKeeps ==
  ASSUME IInv, NEW g \in Goals, ConfirmAndPlan(g) \/ join(g) \/ settle(g) \/ cancel(g)
  PROVE  IInv'
<1> USE DEF IInv
<1>0. /\ \A x \in Goals : planOf(x)' = planOf(x) /\ planOf(x) \subseteq Threads
      /\ \A t \in Tasks : <<"resume", t>> \in Threads /\ GoalOf[t] \in Goals
      /\ \A t \in Tasks, x \in Goals : <<"resume", t>> \notin planOf(x)
      /\ \A x, y \in Goals : x # y => planOf(x) \cap planOf(y) = {}
  BY DispatchAssumption DEF planOf, tasksOf, Threads
<1>1. CASE ConfirmAndPlan(g)
  <2>1. phase[g] = "idle" /\ \A th \in planOf(g) : pc[th] \in Idle
    BY <1>1 DEF ConfirmAndPlan, OneCaller
  <2>2. /\ status' \in [Goals -> Statuses] /\ phase' \in [Goals -> Phases]
        /\ \A x \in Goals : x # g => phase'[x] = phase[x] /\ status'[x] = status[x]
        /\ status'[g] = "running"
    BY <1>1 DEF ConfirmAndPlan, TypeOK, Statuses, Phases
  <2>3. /\ PermitsBalanced' /\ pc' \in [Threads -> PCs]
        /\ \A th \in Threads : th \notin planOf(g) => pc'[th] = pc[th]
        /\ phase'[g] = "dispatching" \/ pc' = pc
    <3>1. CASE RequireApproval
      BY <1>1, <3>1 DEF ConfirmAndPlan, PlanFrame, PermitsBalanced, Holders, TypeOK
    <3>2. CASE ~RequireApproval
      <4>1. Launch(g, tasksOf(g)) /\ permits' = permits /\ phase'[g] = "dispatching"
        BY <1>1, <3>2 DEF ConfirmAndPlan, PlanFrame, TypeOK
      <4> QED
        BY <2>1, <4>1, LaunchBalances
    <3> QED
      BY <3>1, <3>2
  <2>4. OneCaller'
    BY SMT, <1>0, <1>1, <2>1, <2>2, <2>3 DEF OneCaller, ConfirmAndPlan, PlanFrame
  <2> QED
    BY <1>1, <2>2, <2>3, <2>4 DEF ConfirmAndPlan, PlanFrame, history, TypeOK
<1>2. CASE join(g)
  <2>1. /\ phase' \in [Goals -> Phases] /\ \A x \in Goals : x # g => phase'[x] = phase[x]
        /\ phase[g] # "idle"
    BY <1>2 DEF join, TypeOK, Phases
  <2>2. OneCaller'
    BY <1>0, <1>2, <2>1 DEF join, OneCaller, PlanFrame, journal
  <2>3. PermitsBalanced'
    BY <1>2 DEF join, PlanFrame, PermitsBalanced, Holders
  <2> QED
    BY <1>2, <2>1, <2>2, <2>3 DEF join, PlanFrame, journal, history, TypeOK
<1>4. CASE settle(g)
  <2>1. /\ status' \in [Goals -> Statuses]
        /\ \A x \in Goals : status'[x] = "none" => status[x] = "none"
    BY <1>4, FinalizeTypes DEF settle
  <2>2. /\ phase' \in [Goals -> Phases] /\ \A x \in Goals : x # g => phase'[x] = phase[x]
        /\ phase[g] \notin {"idle", "dispatching", "redriving"}
    BY <1>4 DEF settle, TypeOK, Phases
  <2>3. OneCaller'
    BY <1>0, <1>4, <2>1, <2>2 DEF settle, OneCaller, PlanFrame
  <2>4. PermitsBalanced'
    BY <1>4 DEF settle, PlanFrame, PermitsBalanced, Holders
  <2> QED
    BY <1>4, <2>1, <2>2, <2>3, <2>4 DEF settle, PlanFrame, history, TypeOK
<1>3. CASE cancel(g)
  BY <1>0, <1>3 DEF cancel, PlanFrame, journal, history, TypeOK, OneCaller, PermitsBalanced, Holders
<1> QED
  BY <1>1, <1>2, <1>3, <1>4

(* The first critical section of ResumeApproval keeps the invariant: the   *)
(* goroutine it starts is the only one it has.                             *)
LEMMA ApprovalKeeps ==
  ASSUME IInv, NEW g \in Goals, NEW t \in Tasks, NEW approved \in BOOLEAN,
         ResumeApproval(g, t, approved)
  PROVE  IInv'
<1> USE DEF IInv
<1>0. /\ \A x \in Goals : planOf(x)' = planOf(x) /\ planOf(x) \subseteq Threads
      /\ \A u \in Tasks : <<"resume", u>> \in Threads /\ GoalOf[u] \in Goals
      /\ \A u \in Tasks, x \in Goals : <<"resume", u>> \notin planOf(x)
  BY DispatchAssumption DEF planOf, tasksOf, Threads
<1>1. GoalOf[t] = g /\ resume[g].at = "idle" /\ pend' \subseteq Tasks
  BY DEF ResumeApproval, pendingOf, TypeOK
<1>2. \A u \in Tasks : GoalOf[u] = g => pc[<<"resume", u>>] \in Idle
  BY <1>1 DEF OneCaller
<1>3. CASE approved
  <2>1. Goto(<<"resume", t>>, "gate") /\ permits' = permits /\ "gate" \in PCs
    BY <1>3 DEF ResumeApproval, ResumeFrame, Goto, PCs
  <2>2. PermitsBalanced' /\ permits' \in 0..MaxWorkers /\ pc' \in [Threads -> PCs]
    BY <1>0, <1>1, <1>2, <2>1, GotoBalances DEF Holding, Idle
  <2>3. \A x \in Threads : pc'[x] = IF x = <<"resume", t>> THEN "gate" ELSE pc[x]
    BY <2>1 DEF Goto, TypeOK
  <2>4. /\ resume' \in [Goals -> [at : {"idle", "dispatch", "deny", "finalize"},
                                  task : Tasks \cup {NoTask}]]
        /\ \A x \in Goals : x # g => resume'[x] = resume[x]
        /\ resume'[g].at = "dispatch" /\ resume'[g].task = t
    BY SMT, <1>3 DEF ResumeApproval, TypeOK
  <2>5. /\ status' \in [Goals -> Statuses]
        /\ \A x \in Goals : status'[x] = "none" => status[x] = "none"
    BY <1>3 DEF ResumeApproval, TypeOK, Statuses
  <2>6. \A u \in Tasks : pc'[<<"resume", u>>] \notin Idle =>
           resume'[GoalOf[u]].at = "dispatch" /\ resume'[GoalOf[u]].task = u
    <3> TAKE u \in Tasks
    <3>1. CASE u = t
      BY <1>1, <2>4, <3>1
    <3>2. CASE u # t
      BY <1>0, <1>2, <2>3, <2>4, <3>2 DEF OneCaller
    <3> QED
      BY <3>1, <3>2
  <2>7. OneCaller'
    BY SMT, <1>0, <2>3, <2>5, <2>6 DEF OneCaller, ResumeApproval, ResumeFrame
  <2> QED
    BY <1>1, <1>3, <2>2, <2>4, <2>5, <2>7 DEF ResumeApproval, ResumeFrame, TypeOK
<1>4. CASE ~approved
  <2>1. /\ resume' \in [Goals -> [at : {"idle", "dispatch", "deny", "finalize"},
                                  task : Tasks \cup {NoTask}]]
        /\ \A x \in Goals : x # g => resume'[x] = resume[x]
    BY SMT, <1>4 DEF ResumeApproval, TypeOK
  <2>2. UNCHANGED <<status, pc, phase, permits, todo>>
    BY <1>4 DEF ResumeApproval, ResumeFrame
  <2>3. OneCaller'
    BY <1>0, <1>2, <2>1, <2>2 DEF OneCaller
  <2> QED
    BY SMT, <1>1, <1>4, <2>1, <2>2, <2>3
    DEF ResumeApproval, ResumeFrame, TypeOK, PermitsBalanced, Holders
<1> QED
  BY <1>3, <1>4

(* The rest of ResumeApproval keeps the invariant.                         *)
LEMMA ResumeKeeps ==
  ASSUME IInv, NEW g \in Goals, resumeStep(g)
  PROVE  IInv'
<1> USE DEF IInv
<1>0. /\ \A x \in Goals : planOf(x)' = planOf(x)
      /\ \A u \in Tasks : GoalOf[u] \in Goals
  BY DispatchAssumption DEF planOf, tasksOf
<1>1. UNCHANGED <<phase, permits, todo, pc, cancelled, crashes, pend, halted, denied>>
  BY DEF resumeStep, denyRecorded, redispatched, finalizeAfterApproval, ResumeFrame, journal, history
<1>2. PermitsBalanced'
  BY <1>1 DEF PermitsBalanced, Holders
<1>3. CASE denyRecorded(g)
  <2>1. resume[g].task \in Tasks \cup {NoTask}
    BY DEF TypeOK
  <2>2. /\ resume' \in [Goals -> [at : {"idle", "dispatch", "deny", "finalize"},
                                  task : Tasks \cup {NoTask}]]
        /\ \A x \in Goals : x # g => resume'[x] = resume[x]
    BY <1>3 DEF denyRecorded, TypeOK
  <2>3. att' \in [Tasks -> Attempts] /\ completed' \subseteq Tasks
    BY <1>3 DEF denyRecorded, recordAttempt, TypeOK, Attempts
  <2>4. OneCaller'
    BY <1>0, <1>1, <1>3, <2>2 DEF OneCaller, denyRecorded
  <2> QED
    BY <1>1, <1>2, <1>3, <2>2, <2>3, <2>4 DEF denyRecorded, TypeOK
<1>4. CASE redispatched(g)
  <2>1. /\ resume' \in [Goals -> [at : {"idle", "dispatch", "deny", "finalize"},
                                  task : Tasks \cup {NoTask}]]
        /\ \A x \in Goals : x # g => resume'[x] = resume[x]
    BY <1>4 DEF redispatched, TypeOK, NoResume
  <2>2. \A u \in Tasks : GoalOf[u] = g => pc[<<"resume", u>>] \in Idle
    BY <1>4 DEF redispatched, OneCaller
  <2>3. OneCaller'
    BY <1>0, <1>1, <1>4, <2>1, <2>2 DEF OneCaller, redispatched, journal
  <2> QED
    BY <1>1, <1>2, <1>4, <2>1, <2>3 DEF redispatched, journal, history, TypeOK
<1>5. CASE finalizeAfterApproval(g)
  <2>1. /\ resume' \in [Goals -> [at : {"idle", "dispatch", "deny", "finalize"},
                                  task : Tasks \cup {NoTask}]]
        /\ \A x \in Goals : x # g => resume'[x] = resume[x]
    BY <1>5 DEF finalizeAfterApproval, TypeOK, NoResume
  <2>2. \E s \in {"awaiting", "failed", "completed", "running"} :
            status' = [status EXCEPT ![g] = s]
    BY <1>5 DEF finalizeAfterApproval
  <2>3. /\ status' \in [Goals -> Statuses]
        /\ \A x \in Goals : status'[x] = "none" => status[x] = "none"
    BY <2>2 DEF TypeOK, Statuses
  <2>4. OneCaller'
    BY <1>0, <1>1, <1>5, <2>1, <2>3 DEF OneCaller, finalizeAfterApproval
  <2> QED
    BY <1>1, <1>2, <1>5, <2>1, <2>3, <2>4 DEF finalizeAfterApproval, history, TypeOK
<1> QED
  BY <1>3, <1>4, <1>5 DEF resumeStep

(* ResumeFromRecord and a crash keep the invariant.                        *)
LEMMA RestartKeeps ==
  ASSUME IInv, (\E g \in Goals : ResumeFromRecord(g)) \/ crash
  PROVE  IInv'
<1> USE DEF IInv
<1>0. /\ \A x \in Goals : planOf(x)' = planOf(x) /\ planOf(x) \subseteq Threads
      /\ \A t \in Tasks : <<"resume", t>> \in Threads /\ GoalOf[t] \in Goals
      /\ \A t \in Tasks, x \in Goals : <<"resume", t>> \notin planOf(x)
      /\ \A x, y \in Goals : x # y => planOf(x) \cap planOf(y) = {}
  BY DispatchAssumption DEF planOf, tasksOf, Threads
<1>1. ASSUME NEW g \in Goals, ResumeFromRecord(g) PROVE IInv'
  <2>1. phase[g] = "idle" /\ \A th \in planOf(g) : pc[th] \in Idle
    BY <1>1 DEF ResumeFromRecord, OneCaller
  <2>2. remaining(g) \in SUBSET tasksOf(g)
    BY DEF remaining
  <2>3. /\ status' \in [Goals -> Statuses]
        /\ \A x \in Goals : status'[x] = "none" => status[x] = "none"
    <3>1. UNCHANGED status \/ finalizeGoalStatus(g)
      BY <1>1 DEF ResumeFromRecord
    <3> QED
      BY <3>1, FinalizeTypes DEF TypeOK
  <2>4. /\ phase' \in [Goals -> Phases] /\ todo' \subseteq todo /\ g \notin todo'
        /\ \A x \in Goals : x # g => phase'[x] = phase[x]
    BY <1>1 DEF ResumeFromRecord, TypeOK, Phases
  <2>5. /\ PermitsBalanced' /\ pc' \in [Threads -> PCs]
        /\ \A th \in Threads : th \notin planOf(g) => pc'[th] = pc[th]
        /\ phase'[g] = "redriving" \/ pc' = pc
    <3>1. CASE remaining(g) = {}
      BY <1>1, <3>1 DEF ResumeFromRecord, PlanFrame, PermitsBalanced, Holders, TypeOK
    <3>2. CASE remaining(g) # {}
      <4>1. Launch(g, remaining(g)) /\ permits' = permits /\ phase'[g] = "redriving"
        BY <1>1, <3>2 DEF ResumeFromRecord, PlanFrame, TypeOK
      <4> QED
        BY <2>1, <2>2, <4>1, LaunchBalances
    <3> QED
      BY <3>1, <3>2
  <2>6. status[g] # "none"
    BY <1>1 DEF ResumeFromRecord, OneCaller
  <2>7. OneCaller'
    BY <1>0, <1>1, <2>1, <2>3, <2>4, <2>5, <2>6 DEF OneCaller, ResumeFromRecord, PlanFrame
  <2> QED
    BY <1>1, <2>3, <2>4, <2>5, <2>7 DEF ResumeFromRecord, PlanFrame, history, TypeOK
<1>2. CASE crash
  <2>1. Holders' = {}
    BY <1>2 DEF crash, Holders, Holding
  <2>2. PermitsBalanced' /\ permits' \in 0..MaxWorkers
    BY SMT, <1>2, <2>1, FS_EmptySet, DispatchAssumption DEF crash, PermitsBalanced
  <2>3. OneCaller'
    BY <1>0, <1>2 DEF crash, OneCaller, Idle, RehydrateInFlight, journal
  <2>4. /\ phase' \in [Goals -> Phases] /\ pc' \in [Threads -> PCs]
        /\ resume' \in [Goals -> [at : {"idle", "dispatch", "deny", "finalize"},
                                  task : Tasks \cup {NoTask}]]
        /\ todo' \subseteq Goals /\ crashes' \in 0..MaxCrashes
    BY SMT, <1>2, DispatchAssumption DEF crash, TypeOK, Phases, PCs, NoResume, RehydrateInFlight
  <2> QED
    BY <1>2, <2>2, <2>3, <2>4 DEF crash, journal, history, TypeOK
<1> QED
  BY <1>1, <1>2

(* The invariant holds at the start.                                       *)
LEMMA InitIInv == Init => IInv
<1> SUFFICES ASSUME Init PROVE IInv
  OBVIOUS
<1>1. Holders = {}
  BY DEF Init, Holders, Holding
<1>2. PermitsBalanced /\ permits \in 0..MaxWorkers
  BY SMT, <1>1, FS_EmptySet, DispatchAssumption DEF Init, PermitsBalanced
<1>3. OneCaller
  <2>1. \A g \in Goals : planOf(g) \subseteq Threads
    BY DEF planOf, tasksOf, Threads
  <2>2. \A t \in Tasks : <<"resume", t>> \in Threads
    BY DEF Threads
  <2> QED
    BY <2>1, <2>2 DEF Init, OneCaller, Idle
<1>4. TypeOK
  BY SMT, <1>2, DispatchAssumption
  DEF Init, TypeOK, Statuses, Attempts, Phases, PCs, NoResume
<1> QED
  BY <1>2, <1>3, <1>4 DEF IInv

(* Every step of dispatch, approval, crash and restart keeps it.           *)
LEMMA NextIInv == IInv /\ [Next]_vars => IInv'
<1> SUFFICES ASSUME IInv, [Next]_vars PROVE IInv'
  OBVIOUS
<1>1. CASE UNCHANGED vars
  BY <1>1 DEF vars, journal, history, IInv, TypeOK, OneCaller, PermitsBalanced, Holders, planOf, tasksOf
<1>2. CASE Next
  BY <1>2, ThreadKeeps, PlanKeeps, ApprovalKeeps, ResumeKeeps, RestartKeeps DEF Next
<1> QED
  BY <1>1, <1>2

(* So it holds in every state.                                             *)
LEMMA AlwaysIInv == Spec => []IInv
BY InitIInv, NextIInv, PTL DEF Spec

(* Every variable of the dispatch keeps its type.                          *)
THEOREM TypeCorrect == Spec => []TypeOK
<1>1. IInv => TypeOK
  BY DEF IInv
<1> QED
  BY <1>1, AlwaysIInv, PTL

(* dispatchWithSemaphore gives back each permit it takes, on every return  *)
(* path and across goals, approvals and restarts, so at most MaxWorkers    *)
(* workers of the whole fleet are ever at work.                            *)
THEOREM PermitsNeverLeak == Spec => []PermitsBalanced
<1>1. IInv => PermitsBalanced
  BY DEF IInv
<1> QED
  BY <1>1, AlwaysIInv, PTL

---------------------------------------------------------------------------
(* The pause with a single worker.  PauseHaltsPlan is not inductive: that  *)
(* the check sees the pause takes that a pending approval always shows in  *)
(* the goal's status, which an approve resets, and that it may reset it    *)
(* because it was the only one pending.                                    *)
PauseInv ==
    MaxWorkers = 1 =>
        /\ \A t \in pend : status[GoalOf[t]] = "awaiting"
        /\ \A t, u \in pend : GoalOf[t] = GoalOf[u] => t = u
        /\ \A th \in Threads : pc[th] = "run" => \A t \in pend : GoalOf[t] # GoalOf[th[2]]

(* With one permit at most one goroutine is inside the semaphore.          *)
LEMMA SoleHolder ==
  ASSUME PermitsBalanced, MaxWorkers = 1, NEW x \in Holders, NEW y \in Holders
  PROVE  x = y
<1>1. IsFiniteSet(Holders) /\ Cardinality(Holders) \in Nat /\ Cardinality(Holders) <= 1
  BY HoldersFinite, FS_CardinalityType DEF PermitsBalanced
<1>2. Cardinality(Holders) # 0
  BY <1>1, FS_EmptySet
<1>3. Cardinality(Holders) = 1
  BY SMT, <1>1, <1>2
<1>4. PICK z : Holders = {z}
  BY <1>1, <1>3, FS_Singleton
<1> QED
  BY <1>4

(* Every step keeps the pause exact.                                       *)
LEMMA NextPauseInv == IInv /\ PauseInv /\ [Next]_vars => PauseInv'
<1> SUFFICES ASSUME IInv, PauseInv, [Next]_vars, MaxWorkers = 1 PROVE PauseInv'
  BY DEF PauseInv
<1>0. /\ TypeOK /\ PermitsBalanced /\ pend \subseteq Tasks
      /\ \A t \in Tasks : GoalOf[t] \in Goals
      /\ \A th \in Threads : th[2] \in Tasks
  BY DispatchAssumption DEF IInv, TypeOK, Threads
<1>1. ASSUME pend' \subseteq pend,
             \A t \in pend' : status'[GoalOf[t]] = "awaiting",
             \A th \in Threads : pc'[th] = "run" => pc[th] = "run"
      PROVE  PauseInv'
  BY <1>1 DEF PauseInv
<1>2. ASSUME NEW th \in Threads, NEW at, Goto(th, at), at # "run", UNCHANGED <<status, pend>>
      PROVE  PauseInv'
  BY <1>0, <1>1, <1>2 DEF PauseInv, Goto, TypeOK
<1>3. ASSUME NEW th \in Threads, threadStep(th) PROVE PauseInv'
  <2>1. CASE planAwaitingApproval(th)
    <3>1. /\ \A x \in Threads : pc'[x] = "run" => pc[x] = "run" \/ x = th
          /\ pc'[th] = "run" => status[GoalOf[th[2]]] # "awaiting"
          /\ UNCHANGED <<status, pend>>
      BY <1>0, <2>1 DEF planAwaitingApproval, Goto, journal, TypeOK
    <3> QED
      BY SMT, <3>1 DEF PauseInv
  <2>2. CASE recordPendingApproval(th)
    <3>1. pc[th] = "run" /\ pend' = pend \cup {th[2]} /\ pc' = [pc EXCEPT ![th] = "hooked"]
      BY <2>2 DEF recordPendingApproval, Goto
    <3>2. \A x \in Threads : pc'[x] # "run"
      BY SMT, <1>0, <3>1, SoleHolder DEF Holders, Holding, TypeOK
    <3>3. \A g \in Goals : status[g] = "awaiting" => status'[g] = "awaiting"
      BY <1>0, <2>2 DEF recordPendingApproval, TypeOK
    <3>4. status'[GoalOf[th[2]]] = "awaiting"
      BY <1>0, <2>2 DEF recordPendingApproval, TypeOK
    <3> QED
      BY SMT, <1>0, <3>1, <3>2, <3>3, <3>4 DEF PauseInv
  <2>3. CASE spawnDenied(th) \/ spawnAllowed(th) \/ Acquire(th) \/ acquireCancelled(th)
             \/ workerReturns(th) \/ recordResult(th)
    BY <1>2, <2>3 DEF spawnDenied, spawnAllowed, Acquire, acquireCancelled, workerReturns,
       recordResult, journal
  <2> QED
    BY <1>3, <2>1, <2>2, <2>3 DEF threadStep
<1>4. ASSUME NEW g \in Goals, ConfirmAndPlan(g) \/ join(g) \/ settle(g) \/ cancel(g) \/ ResumeFromRecord(g)
      PROVE  PauseInv'
  <2>1. \A x \in Goals : status[x] = "awaiting" => status'[x] = "awaiting"
    BY <1>0, <1>4 DEF ConfirmAndPlan, join, settle, cancel, ResumeFromRecord, finalizeGoalStatus, journal, TypeOK
  <2>2. \A x \in Threads : pc'[x] = "run" => pc[x] = "run"
    BY SMT, <1>0, <1>4 DEF ConfirmAndPlan, join, settle, cancel, ResumeFromRecord, Launch, TypeOK
  <2>3. pend' = pend
    BY <1>4 DEF ConfirmAndPlan, join, settle, cancel, ResumeFromRecord, journal
  <2> QED
    BY <1>0, <1>1, <2>1, <2>2, <2>3 DEF PauseInv
<1>5. ASSUME NEW g \in Goals, NEW t \in Tasks, NEW approved \in BOOLEAN, ResumeApproval(g, t, approved)
      PROVE  PauseInv'
  <2>1. t \in pend /\ GoalOf[t] = g /\ pend' = pend \ {t}
    BY <1>5 DEF ResumeApproval, pendingOf
  <2>2. \A u \in pend' : GoalOf[u] # g
    BY <2>1 DEF PauseInv
  <2>3. \A x \in Goals : x # g => status'[x] = status[x]
    BY <1>0, <1>5 DEF ResumeApproval, TypeOK
  <2>4. \A x \in Threads : pc'[x] = "run" => pc[x] = "run"
    BY <1>0, <1>5 DEF ResumeApproval, TypeOK
  <2> QED
    BY <1>0, <1>1, <2>1, <2>2, <2>3, <2>4 DEF PauseInv
<1>6. ASSUME NEW g \in Goals, resumeStep(g) PROVE PauseInv'
  <2>1. UNCHANGED <<pend, pc>>
    BY <1>6 DEF resumeStep, denyRecorded, redispatched, finalizeAfterApproval, journal
  <2>2. CASE denyRecorded(g) \/ redispatched(g)
    BY <1>1, <2>1, <2>2 DEF denyRecorded, redispatched, journal, PauseInv
  <2>3. CASE finalizeAfterApproval(g)
    <3>1. \A x \in Goals : x # g => status'[x] = status[x]
      BY <1>0, <2>3 DEF finalizeAfterApproval, TypeOK
    <3>2. pendingOf(g) # {} => status'[g] = "awaiting"
      BY <1>0, <2>3 DEF finalizeAfterApproval, TypeOK
    <3>3. \A t \in pend : status'[GoalOf[t]] = "awaiting"
      BY <1>0, <3>1, <3>2 DEF PauseInv, pendingOf
    <3> QED
      BY <1>1, <2>1, <3>3
  <2> QED
    BY <1>6, <2>2, <2>3 DEF resumeStep
<1>7. CASE crash
  BY <1>0, <1>1, <1>7 DEF crash, journal, PauseInv
<1>8. CASE UNCHANGED vars
  BY <1>8 DEF vars, journal, PauseInv
<1> QED
  BY <1>3, <1>4, <1>5, <1>6, <1>7, <1>8 DEF Next

(* With a single worker a plan is halted from the moment one of its        *)
(* sub-goals asks for approval until that approval is resolved: what the   *)
(* comment of dispatchWithSemaphore calls deterministic.                   *)
THEOREM SingleWorkerPause == Spec => []PauseHaltsPlan
<1>1. Init => PauseInv
  BY DEF Init, PauseInv
<1>2. PauseInv => PauseHaltsPlan
  BY DEF PauseInv, PauseHaltsPlan, pendingOf
<1> QED
  BY <1>1, <1>2, AlwaysIInv, NextPauseInv, PTL DEF Spec

---------------------------------------------------------------------------
(* The journal where no worker asks for approval: the attempts of the      *)
(* journal are exactly what happened, a goroutine at work is at work on    *)
(* something not completed, and a completed goal has nothing left.         *)
JournalInv ==
    /\ pend = {}
    /\ \A g \in Goals : resume[g].at = "idle"
    /\ \A t \in Tasks : att[t] = "completed" <=> t \in completed
    /\ \A th \in Threads : pc[th] \notin Idle => th[2] \notin completed
    /\ \A t \in completed : status[GoalOf[t]] # "none"
    /\ \A g \in Goals : status[g] = "completed" => tasksOf(g) \subseteq completed

(* Every step keeps the journal true when no worker asks for approval.     *)
LEMMA NextJournalInv ==
  ASSUME ~TaskApprovals, IInv, JournalInv, [Next]_vars
  PROVE  JournalInv'
<1>0. /\ TypeOK /\ OneCaller /\ completed \subseteq Tasks
      /\ \A t \in Tasks : GoalOf[t] \in Goals
      /\ \A th \in Threads : th[2] \in Tasks
  BY DispatchAssumption DEF IInv, TypeOK, Threads
<1>1. \A th \in Threads : pc[th] \notin Idle => th = <<"plan", th[2]>> /\ status[GoalOf[th[2]]] # "none"
  <2> SUFFICES ASSUME NEW th \in Threads, pc[th] \notin Idle
               PROVE  th = <<"plan", th[2]>> /\ status[GoalOf[th[2]]] # "none"
    OBVIOUS
  <2>1. th = <<"plan", th[2]>> \/ th = <<"resume", th[2]>>
    BY SMT DEF Threads
  <2>2. th # <<"resume", th[2]>>
    BY SMT, <1>0 DEF OneCaller, JournalInv
  <2>3. th \in planOf(GoalOf[th[2]])
    BY SMT, <1>0, <2>1, <2>2 DEF planOf, tasksOf
  <2> QED
    BY <1>0, <2>1, <2>2, <2>3 DEF OneCaller
<1>2. ASSUME NEW th \in Threads, NEW at, Goto(th, at), pc[th] \notin Idle,
             UNCHANGED <<journal, resume, completed>>
      PROVE  JournalInv'
  <2>1. \A x \in Threads : pc'[x] \notin Idle => pc[x] \notin Idle
    BY <1>0, <1>2 DEF Goto, TypeOK
  <2> QED
    BY <1>2, <2>1 DEF JournalInv, journal, tasksOf
<1>3. ASSUME NEW th \in Threads, NEW at, NEW s, Goto(th, at), pc[th] \notin Idle,
             recordAttempt(th[2], s), at \in Idle \/ s # "completed",
             UNCHANGED <<status, pend, resume>>
      PROVE  JournalInv'
  <2>1. /\ \A x \in Threads : pc'[x] \notin Idle => pc[x] \notin Idle
        /\ s = "completed" => pc'[th] \in Idle
    BY <1>0, <1>3 DEF Goto, TypeOK
  <2>2. /\ completed' = IF s = "completed" THEN completed \cup {th[2]} ELSE completed
        /\ \A t \in Tasks : att'[t] = IF t = th[2] THEN s ELSE att[t]
    BY <1>0, <1>3 DEF recordAttempt, TypeOK
  <2>3. th[2] \notin completed /\ status[GoalOf[th[2]]] # "none"
    BY <1>1, <1>3 DEF JournalInv
  <2>4. \A t \in Tasks : att'[t] = "completed" <=> t \in completed'
    BY <2>2, <2>3 DEF JournalInv
  <2>5. \A x \in Threads : pc'[x] \notin Idle => x[2] \notin completed'
    <3> SUFFICES ASSUME NEW x \in Threads, pc'[x] \notin Idle, x[2] \in completed' PROVE FALSE
      OBVIOUS
    <3>1. pc[x] \notin Idle /\ x[2] \notin completed
      BY <2>1 DEF JournalInv
    <3>2. x[2] = th[2] /\ s = "completed"
      BY <2>2, <3>1
    <3>3. x = th
      BY <1>1, <1>3, <3>1, <3>2
    <3> QED
      BY <2>1, <3>2, <3>3
  <2> QED
    BY <1>3, <2>2, <2>3, <2>4, <2>5 DEF JournalInv, tasksOf
<1>4. ASSUME NEW th \in Threads, threadStep(th) PROVE JournalInv'
  <2>1. CASE spawnAllowed(th)
    BY <1>3, <2>1 DEF spawnAllowed, ThreadFrame, Idle
  <2>2. CASE recordResult(th)
    BY <1>3, <2>2 DEF recordResult, ThreadFrame, Idle
  <2>3. CASE spawnDenied(th) \/ Acquire(th) \/ acquireCancelled(th) \/ planAwaitingApproval(th)
             \/ workerReturns(th)
    BY <1>2, <2>3 DEF spawnDenied, Acquire, acquireCancelled, planAwaitingApproval,
       workerReturns, ThreadFrame, Idle
  <2>4. CASE recordPendingApproval(th)
    BY <2>4 DEF recordPendingApproval
  <2> QED
    BY <1>4, <2>1, <2>2, <2>3, <2>4 DEF threadStep
<1>5. ASSUME NEW g \in Goals, finalizeGoalStatus(g) \/ UNCHANGED status,
             UNCHANGED <<att, pend, resume, completed>>,
             \A th \in Threads : pc'[th] \notin Idle => th[2] \notin completed
      PROVE  JournalInv'
  <2>1. \A x \in Goals : status'[x] # status[x] => x = g /\ tasksOf(g) \subseteq completed
    BY <1>0, <1>5 DEF finalizeGoalStatus, TypeOK, tasksOf, JournalInv
  <2>2. \A x \in Goals : status[x] # "none" => status'[x] # "none"
    BY <1>0, <1>5 DEF finalizeGoalStatus, TypeOK
  <2> QED
    BY <1>0, <1>5, <2>1, <2>2 DEF JournalInv, tasksOf
<1>6. ASSUME NEW g \in Goals, ConfirmAndPlan(g) \/ join(g) \/ settle(g) \/ cancel(g) \/ ResumeFromRecord(g)
      PROVE  JournalInv'
  <2>1. CASE ConfirmAndPlan(g)
    <3>1. \A t \in tasksOf(g) : t \notin completed
      BY <2>1 DEF ConfirmAndPlan, JournalInv, tasksOf
    <3>2. \A th \in Threads : pc'[th] = pc[th] \/ th[2] \in tasksOf(g)
      BY <2>1 DEF ConfirmAndPlan, Launch
    <3>3. \A x \in Goals : status'[x] = status[x] \/ status'[x] = "running"
      BY <1>0, <2>1 DEF ConfirmAndPlan, TypeOK
    <3>4. UNCHANGED <<att, pend, resume, completed>>
      BY <2>1 DEF ConfirmAndPlan, PlanFrame, history
    <3> QED
      BY <1>0, <3>1, <3>2, <3>3, <3>4 DEF JournalInv, tasksOf
  <2>2. CASE join(g)
    BY <1>5, <2>2 DEF join, PlanFrame, journal, history, JournalInv
  <2>5. CASE settle(g)
    BY <1>5, <2>5 DEF settle, PlanFrame, history, JournalInv
  <2>3. CASE cancel(g)
    BY <1>5, <2>3 DEF cancel, PlanFrame, journal, history, JournalInv
  <2>4. CASE ResumeFromRecord(g)
    <3>1. finalizeGoalStatus(g) \/ UNCHANGED status
      BY <2>4 DEF ResumeFromRecord
    <3>2. \A th \in Threads : pc'[th] = pc[th] \/ th[2] \in remaining(g)
      BY <2>4 DEF ResumeFromRecord, Launch
    <3>3. \A t \in remaining(g) : t \notin completed
      BY DEF remaining, JournalInv, tasksOf
    <3>4. \A th \in Threads : pc'[th] \notin Idle => th[2] \notin completed
      BY <3>2, <3>3 DEF JournalInv
    <3> QED
      BY <1>5, <2>4, <3>1, <3>4 DEF ResumeFromRecord, PlanFrame, history
  <2> QED
    BY <1>6, <2>1, <2>2, <2>3, <2>4, <2>5
<1>7. ASSUME NEW g \in Goals,
             resumeStep(g) \/ \E t \in Tasks, approved \in BOOLEAN : ResumeApproval(g, t, approved)
      PROVE  FALSE
  BY <1>7 DEF JournalInv, resumeStep, denyRecorded, redispatched, finalizeAfterApproval,
     ResumeApproval, pendingOf
<1>8. CASE crash
  BY <1>0, <1>8 DEF crash, journal, history, JournalInv, NoResume, Idle, tasksOf
<1>9. CASE UNCHANGED vars
  BY <1>9 DEF vars, journal, history, JournalInv, tasksOf
<1> QED
  BY <1>4, <1>6, <1>7, <1>8, <1>9 DEF Next

(* Where no worker asks for approval, a completed sub-goal is never        *)
(* started again (the rule of ResumeFromRecord), however often the process *)
(* crashes and whatever is cancelled or fails meanwhile.                   *)
THEOREM CompletedOnce ==
  ASSUME ~TaskApprovals
  PROVE  Spec => []CompletedIsNotRestarted
<1>1. Init => JournalInv
  BY SMT, DispatchAssumption DEF Init, JournalInv, NoResume, Idle
<1>2. IInv /\ JournalInv /\ [Next]_vars => JournalInv'
  BY NextJournalInv
<1>3. JournalInv => CompletedIsNotRestarted
  BY DEF JournalInv, CompletedIsNotRestarted, Idle
<1> QED
  BY <1>1, <1>2, <1>3, AlwaysIInv, PTL DEF Spec

(* Where no worker asks for approval, a goal the journal calls completed,  *)
(* which no restart rehydrates, has all its sub-goals completed and none   *)
(* of them at work.                                                        *)
THEOREM CompletedGoalsAreDone ==
  ASSUME ~TaskApprovals
  PROVE  Spec => []CompletedGoalIsDone
<1>1. Init => JournalInv
  BY SMT, DispatchAssumption DEF Init, JournalInv, NoResume, Idle
<1>2. IInv /\ JournalInv /\ [Next]_vars => JournalInv'
  BY NextJournalInv
<1>3. JournalInv => CompletedGoalIsDone
  <2> SUFFICES ASSUME JournalInv, NEW g \in Goals, status[g] = "completed", NEW t \in tasksOf(g)
               PROVE  t \in completed /\ pc[<<"plan", t>>] \notin Holding
    BY DEF CompletedGoalIsDone
  <2>1. t \in completed /\ <<"plan", t>> \in Threads /\ <<"plan", t>>[2] = t
    BY DEF JournalInv, tasksOf, Threads
  <2>2. pc[<<"plan", t>>] \in Idle
    BY <2>1 DEF JournalInv
  <2> QED
    BY <2>1, <2>2 DEF Idle, Holding
<1> QED
  BY <1>1, <1>2, <1>3, AlwaysIInv, PTL DEF Spec
==============================================================================

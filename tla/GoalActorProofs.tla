-------------------------- MODULE GoalActorProofs --------------------------
(* Proofs about GoalActor: for any finite set of goals, any admission cap, *)
(* any mailbox capacity and any number of messages, the control loop joins *)
(* what it started and the admission channel bounds the running actors.    *)
EXTENDS GoalActor, FiniteSetTheorems, TLAPS

Running == MainPCs \ {"none", "admit", "done"}

(* What a step must leave well typed in the goal's text, plan and state.   *)
GoalTyped ==
    /\ state \in [Goals -> States]
    /\ store \subseteq Goals
    /\ spec \in [Goals -> SUBSET Infos]
    /\ planned \in [Goals -> SUBSET Infos]
    /\ view \in [Goals -> SUBSET Infos]
    /\ shown \in [Goals -> SUBSET Infos]
    /\ surfaced \in [Goals -> SUBSET Infos]
    /\ unsent \in [Goals -> SUBSET Infos]

(* The set of live actors is finite, so its cardinality is a number.       *)
LEMMA LiveFinite == IsFiniteSet(Live) /\ Cardinality(Live) \in Nat
<1>1. Live \subseteq Goals
  BY DEF Live
<1>2. IsFiniteSet(Live)
  BY <1>1, FiniteAssumption, FS_Subset
<1> QED
  BY <1>2, FS_CardinalityType

(* Starting an actor adds one live actor.                                  *)
LEMMA StartCounts ==
    ASSUME TypeOK, NEW g \in Unused, Goto(g, "admit")
    PROVE  Cardinality(Live') = Cardinality(Live) + 1
<1>1. g \notin Live
  BY DEF Unused, Live
<1>2. Live' = Live \cup {g}
  BY DEF Live, Goto, TypeOK, Unused
<1> QED
  BY <1>1, <1>2, LiveFinite, FS_AddElement

(* The end of an actor removes one live actor.                             *)
LEMMA EndCounts ==
    ASSUME TypeOK, NEW g \in Live, Goto(g, "done")
    PROVE  /\ Cardinality(Live') = Cardinality(Live) - 1
           /\ Cardinality(Live') \in Nat
<1>1. Live' = Live \ {g}
  BY DEF Live, Goto, TypeOK
<1>2. Cardinality(Live \ {g}) = Cardinality(Live) - 1
  BY LiveFinite, FS_RemoveElement
<1>3. IsFiniteSet(Live \ {g})
  BY LiveFinite, FS_Subset, Live \ {g} \subseteq Live
<1> QED
  BY <1>1, <1>2, <1>3, FS_CardinalityType

(* A step of an admitted actor from label to label keeps the invariant.    *)
LEMMA StepKeeps ==
    ASSUME IInv, NEW g \in Goals, NEW from \in Running, NEW to \in Running,
           Step(g, from, to), GoalTyped'
    PROVE  IInv'
<1> USE DEF IInv, Running
<1>1. Live' = Live
  BY DEF Live, Step, Goto, TypeOK, MainPCs
<1>2. TypeOK'
  BY ZenonT(30) DEF TypeOK, Step, Goto, Frame, ctxVars, drainVars, GoalTyped
<1>3. Counted'
  <2>1. \A h \in Goals : main'[h] = (IF h = g THEN to ELSE main[h])
    BY DEF Step, Goto, TypeOK
  <2>2. main[g] = from
    BY DEF Step
  <2> QED
    BY <1>1, <2>1, <2>2 DEF Counted, Step, Frame, drainVars, MainPCs
<1> QED
  BY <1>2, <1>3

(* A step of handleCommand that starts no actor keeps the invariant.       *)
LEMMA CmdKeeps ==
    ASSUME IInv, NEW g \in Goals, NEW from \in CmdPCs \ {"idle"}, NEW to \in CmdPCs,
           CmdStep(g, from, to), UNCHANGED <<wg, owner, main>>, GoalTyped',
           pending' \in [Goals -> SUBSET Infos], batch' \in [Goals -> SUBSET Infos]
    PROVE  IInv'
<1> USE DEF IInv
<1>1. Live' = Live
  BY DEF Live
<1>2. TypeOK'
  BY ZenonT(30) DEF TypeOK, CmdStep, GoalTyped
<1>3. Counted'
  <2>1. \A h \in Goals : h # g => cmd'[h] = cmd[h]
    BY DEF CmdStep, TypeOK
  <2>2. cmd[g] # "idle"
    BY DEF CmdStep
  <2> QED
    BY <1>1, <2>1, <2>2 DEF Counted, CmdStep
<1> QED
  BY <1>2, <1>3

(* A report leaves what the operator was shown well typed.                 *)
LEMMA ReportTyped ==
    ASSUME GoalTyped, NEW g \in Goals, NEW infos \in SUBSET Infos, Report(g, infos)
    PROVE  /\ shown' \in [Goals -> SUBSET Infos] /\ surfaced' \in [Goals -> SUBSET Infos]
           /\ unsent' \in [Goals -> SUBSET Infos]
<1>1. shown \in [Goals -> SUBSET Infos] /\ surfaced \in [Goals -> SUBSET Infos]
      /\ unsent \in [Goals -> SUBSET Infos]
  BY DEF GoalTyped
<1>2. CASE shown' = [shown EXCEPT ![g] = infos]
           /\ surfaced' = [surfaced EXCEPT ![g] = @ \cup infos] /\ UNCHANGED unsent
  BY <1>1, <1>2, ZenonT(30)
<1>3. CASE unsent' = [unsent EXCEPT ![g] = @ \cup infos] /\ UNCHANGED <<shown, surfaced>>
  BY <1>1, <1>3, ZenonT(30)
<1> QED
  BY <1>2, <1>3, ZenonT(30) DEF Report

(* The leaves are Zenon's, but for the ones that say otherwise.            *)
USE ZenonT(30)

---------------------------------------------------------------------------
(* The invariant holds initially.                                          *)
LEMMA InitIInv == Init => IInv
<1> SUFFICES ASSUME Init PROVE IInv
  OBVIOUS
<1>1. Live = {} /\ slots = {}
  BY DEF Init, Live
<1>2. Cardinality(Live) = 0 /\ Cardinality(slots) = 0
  BY <1>1, FS_EmptySet
<1>3. TypeOK
  <2>1. mailbox \in [Goals -> Seq(Commands)] /\ \A g \in Goals : Len(mailbox[g]) <= MailboxBuffer
    BY SMT, BoundsAssumption DEF Init
  <2>2. sent \in [Kinds -> Nat] /\ \A k \in Kinds : sent[k] <= Budget[k]
    BY SMT, BoundsAssumption DEF Init
  <2> QED
    BY <2>1, <2>2 DEF Init, TypeOK, States, MainPCs, DrainPCs, CmdPCs
<1>4. Counted
  BY SMT, <1>1, <1>2, BoundsAssumption DEF Init, Counted
<1> QED
  BY <1>3, <1>4 DEF IInv

(* Reading a message keeps the message counts within the budget.           *)
LEMMA ReadKeeps ==
    ASSUME TypeOK, NEW k \in Kinds, Read(k)
    PROVE  /\ sent' \in [Kinds -> Nat]
           /\ \A j \in Kinds : sent'[j] <= Budget[j]
           /\ sent'[k] \in 1..Budget[k]
<1>1. sent \in [Kinds -> Nat] /\ Budget \in [Kinds -> Nat] /\ \A j \in Kinds : sent[j] <= Budget[j]
  BY BoundsAssumption DEF TypeOK
<1>2. sent' = [sent EXCEPT ![k] = sent[k] + 1] /\ sent[k] < Budget[k]
  BY DEF Read
<1>3. sent' \in [Kinds -> Nat]
  BY SMT, <1>1, <1>2
<1>4. \A j \in Kinds : sent'[j] = (IF j = k THEN sent[k] + 1 ELSE sent[j])
  BY <1>1, <1>2
<1> QED
  BY SMT, <1>1, <1>2, <1>3, <1>4

(* The control loop's actions keep the invariant.                          *)
LEMMA LoopKeeps ==
    ASSUME IInv,
           \/ \E g \in Goals : routeNewGoal(g) \/ routeCommand(g)
           \/ ignoreUnknownKind \/ sourceExhausted \/ loopReturns \/ cancelRoot
    PROVE  IInv'
<1> USE DEF IInv
<1>1. ASSUME NEW g \in Goals, routeNewGoal(g) PROVE IInv'
  <2> USE <1>1 DEF routeNewGoal
  <2>1. Cardinality(Live') = Cardinality(Live) + 1
    BY StartCounts DEF StartActor
  <2>2. TypeOK'
    <3>1. /\ sent' \in [Kinds -> Nat]
          /\ \A j \in Kinds : sent'[j] <= Budget[j]
      BY ReadKeeps DEF Kinds
    <3>2. /\ main' \in [Goals -> MainPCs]
          /\ state' \in [Goals -> States]
          /\ owner' \in [Goals -> Goals]
      BY DEF TypeOK, StartActor, Goto, SetState, States, MainPCs
    <3>3. wg' \in Nat /\ cancelFn' \subseteq Goals
      BY SMT DEF TypeOK, StartActor
    <3> QED
      BY <3>1, <3>2, <3>3 DEF TypeOK, goalVars, shownVars, drainVars
  <2>3. Counted'
    <3>1. main[g] = "none" /\ loop = "reading"
      BY DEF Unused, Read
    <3>2. \A h \in Goals : main'[h] = (IF h = g THEN "admit" ELSE main[h])
      BY DEF StartActor, Goto, TypeOK
    <3> QED
      BY <2>1, <3>1, <3>2 DEF Counted, StartActor, drainVars
  <2> QED
    BY <2>2, <2>3
<1>2. ASSUME NEW g \in Goals, routeCommand(g) PROVE IInv'
  <2> USE <1>2 DEF routeCommand
  <2>1. PICK c \in Commands : deliver(g, c)
    BY ReadKeeps DEF Commands, Kinds, Infos, NoInfo
  <2>2. mailbox' \in [Goals -> Seq(Commands)] /\ \A h \in Goals : Len(mailbox'[h]) <= MailboxBuffer
    BY SMT, <2>1, BoundsAssumption DEF deliver, TypeOK
  <2>3. /\ sent' \in [Kinds -> Nat]
        /\ \A j \in Kinds : sent'[j] <= Budget[j]
    BY ReadKeeps DEF Kinds
  <2>4. TypeOK'
    BY <2>2, <2>3 DEF TypeOK, regVars, ctxVars, goalVars, shownVars, drainVars
  <2>5. Live' = Live
    BY DEF Live
  <2> QED
    BY <2>4, <2>5 DEF Counted, drainVars
<1>3. ASSUME ignoreUnknownKind PROVE IInv'
  <2> USE <1>3 DEF ignoreUnknownKind
  <2>1. TypeOK'
    BY SMT, ReadKeeps DEF TypeOK, Kinds, regVars, ctxVars, goalVars, shownVars, drainVars
  <2>2. Live' = Live
    BY DEF Live
  <2> QED
    BY <2>1, <2>2 DEF Counted, drainVars
<1>4. ASSUME sourceExhausted \/ loopReturns \/ cancelRoot PROVE IInv'
  <2> USE <1>4 DEF sourceExhausted, loopReturns, cancelRoot
  <2>1. TypeOK'
    BY DEF TypeOK, regVars, ctxVars, goalVars, shownVars, drainVars
  <2>2. Live' = Live
    BY DEF Live
  <2> QED
    BY <2>1, <2>2 DEF Counted, drainVars
<1> QED
  BY <1>1, <1>2, <1>3, <1>4

---------------------------------------------------------------------------
(* Admission and the two ways an actor ends keep the invariant.            *)
LEMMA AdmitKeeps ==
    ASSUME IInv, NEW g \in Goals, admit(g)
    PROVE  IInv'
<1> USE DEF IInv, admit
<1>1. TypeOK'
  BY DEF TypeOK, Goto, Frame, ctxVars, regVars, goalVars, shownVars, MainPCs, DrainPCs
<1>2. Live' = Live
  BY DEF Live, Goto, TypeOK
<1>3. Cardinality(slots') <= MaxGoals
  <2>1. IsFiniteSet(slots)
    BY FiniteAssumption, FS_Subset DEF TypeOK
  <2>2. g \notin slots
    BY DEF Counted
  <2>3. Cardinality(slots') = Cardinality(slots) + 1
    BY <2>1, <2>2, FS_AddElement
  <2>4. Cardinality(slots) \in Nat
    BY <2>1, FS_CardinalityType
  <2> QED
    BY SMT, <2>3, <2>4, BoundsAssumption
<1>4. \A h \in Goals : main'[h] = (IF h = g THEN "begin" ELSE main[h])
  BY DEF Goto, TypeOK
<1>5. \A h \in Goals : drain'[h] = (IF h = g THEN "loop" ELSE drain[h])
  BY DEF TypeOK
<1>6. cmd[g] = "idle"
  BY DEF Counted
<1> QED
  BY SMT, <1>1, <1>2, <1>3, <1>4, <1>5, <1>6 DEF Counted, Frame

(* The end of an actor keeps the invariant: its count and its admission    *)
(* slot go together.                                                       *)
LEMMA EndKeeps ==
    ASSUME IInv, NEW g \in Goals, admitCancelled(g) \/ actorExits(g)
    PROVE  IInv'
<1> USE DEF IInv, admitCancelled, actorExits
<1>1. Cardinality(Live') = Cardinality(Live) - 1 /\ Cardinality(Live') \in Nat
  BY EndCounts DEF Live
<1>2. wg' = Cardinality(Live')
  BY <1>1 DEF Counted
<1>3. TypeOK'
  BY <1>1, <1>2
  DEF TypeOK, Goto, SetState, Frame, ctxVars, regVars, goalVars, shownVars, drainVars, MainPCs, States
<1>4. Cardinality(slots') <= MaxGoals
  <2>1. IsFiniteSet(slots)
    BY FiniteAssumption, FS_Subset DEF TypeOK
  <2>2. slots' \subseteq slots
    OBVIOUS
  <2>3. Cardinality(slots') <= Cardinality(slots)
    BY <2>1, <2>2, FS_Subset
  <2>4. Cardinality(slots) \in Nat /\ Cardinality(slots') \in Nat
    BY <2>1, <2>2, FS_Subset, FS_CardinalityType
  <2>5. Cardinality(slots) <= MaxGoals
    BY DEF Counted
  <2> HIDE DEF IInv, admitCancelled, actorExits
  <2> QED
    BY SMT, <2>3, <2>4, <2>5, BoundsAssumption
<1>5. \A h \in Goals : main'[h] = (IF h = g THEN "done" ELSE main[h])
  BY DEF Goto, TypeOK
<1>6. \A h \in Goals : h \in slots' <=> main'[h] \notin {"none", "admit", "done"}
  BY <1>5 DEF Counted
<1>7. \A h \in Goals : main'[h] \in {"none", "admit", "done"} => drain'[h] \in {"off", "exit"}
  BY <1>5 DEF Counted, drainVars
<1>8. loop' # "returned"
  <2>1. g \in Live
    BY DEF Live
  <2>2. Cardinality(Live) # 0
    BY SMT, <1>1, LiveFinite
  <2> QED
    BY <2>2 DEF Counted, Frame
<1> QED
  BY <1>2, <1>3, <1>4, <1>6, <1>7, <1>8 DEF Counted, drainVars

---------------------------------------------------------------------------
(* The main goroutine keeps the invariant.                                 *)
LEMMA MainKeeps ==
    ASSUME IInv, NEW g \in Goals, mainStep(g) \/ mainCall(g)
    PROVE  IInv'
<1> USE DEF IInv
<1>t. GoalTyped /\ pending \in [Goals -> SUBSET Infos]
  BY DEF TypeOK, GoalTyped
<1>s. ASSUME NEW s \in States, SetState(g, s) PROVE state' \in [Goals -> States]
  BY <1>s DEF SetState, TypeOK
<1>a. AfterPlan \in Running
  BY DEF AfterPlan, Running, MainPCs
<1> USE DEF GoalTyped, goalVars, shownVars
<1>1. CASE BeginGoal(g)
  <2>1. GoalTyped'
    BY <1>1, <1>t, <1>s DEF BeginGoal, CopyGoal, States
  <2>2. \E to \in Running : Step(g, "begin", to)
    BY <1>1 DEF BeginGoal, Running, MainPCs
  <2> QED
    BY <2>1, <2>2, StepKeeps DEF Running, MainPCs
<1>2. CASE ClarifyAndReport(g)
  <2>1. GoalTyped'
    BY <1>2, <1>t, <1>s DEF ClarifyAndReport, CopyGoal, States
  <2>2. \E to \in Running : Step(g, "clarify", to)
    BY <1>2, <1>a DEF ClarifyAndReport, Running, MainPCs
  <2> QED
    BY <2>1, <2>2, StepKeeps DEF Running, MainPCs
<1>3. CASE checkClarifying(g)
  <2>1. GoalTyped'
    BY <1>3, <1>t, <1>s DEF checkClarifying, CopyGoal, States
  <2>2. \E to \in Running : Step(g, "check", to)
    BY <1>3, <1>a DEF checkClarifying, Running, MainPCs
  <2> QED
    BY <2>1, <2>2, StepKeeps DEF Running, MainPCs
<1>4. CASE waitConfirm(g)
  <2>1. GoalTyped'
    BY <1>4, <1>t, <1>s DEF waitConfirm, CopyGoal, States
  <2>2. \E to \in Running : Step(g, "waitConfirm", to)
    BY <1>4, <1>a DEF waitConfirm, Running, MainPCs
  <2> QED
    BY <2>1, <2>2, StepKeeps DEF Running, MainPCs
<1>5. CASE ConfirmAndPlan(g)
  <2>1. GoalTyped'
    BY <1>5, <1>t, <1>s DEF ConfirmAndPlan, CopyGoal, States
  <2>2. \E to \in Running : Step(g, "plan", to)
    BY <1>5, <1>a DEF ConfirmAndPlan, Running, MainPCs
  <2> QED
    BY <2>1, <2>2, StepKeeps DEF Running, MainPCs
<1>6. CASE planFails(g)
  <2>1. GoalTyped'
    BY <1>6, <1>t, <1>s DEF planFails, CopyGoal, States
  <2>2. \E to \in Running : Step(g, "planning", to)
    BY <1>6, <1>a DEF planFails, Running, MainPCs
  <2> QED
    BY <2>1, <2>2, StepKeeps DEF Running, MainPCs
<1>7. CASE planDecided(g)
  <2>1. GoalTyped'
    BY <1>7, <1>t, <1>s DEF planDecided, CopyGoal, States
  <2>2. \E to \in Running : Step(g, "planning", to)
    BY <1>7, <1>a DEF planDecided, Running, MainPCs
  <2> QED
    BY <2>1, <2>2, StepKeeps DEF Running, MainPCs
<1>8. CASE pausePut(g)
  <2>1. GoalTyped'
    BY <1>8, <1>t, <1>s DEF pausePut, CopyGoal, States
  <2>2. \E to \in Running : Step(g, "put", to)
    BY <1>8, <1>a DEF pausePut, Running, MainPCs
  <2> QED
    BY <2>1, <2>2, StepKeeps DEF Running, MainPCs
<1>9. CASE pauseRejected(g)
  <2>1. GoalTyped'
    BY <1>9, <1>t, <1>s DEF pauseRejected, CopyGoal, States
  <2>2. \E to \in Running : Step(g, "put", to)
    BY <1>9, <1>a DEF pauseRejected, Running, MainPCs
  <2> QED
    BY <2>1, <2>2, StepKeeps DEF Running, MainPCs
<1>10. CASE pauseProject(g)
  <2>1. GoalTyped'
    BY <1>10, <1>t, <1>s DEF pauseProject, CopyGoal, States
  <2>2. \E to \in Running : Step(g, "pause", to)
    BY <1>10, <1>a DEF pauseProject, Running, MainPCs
  <2> QED
    BY <2>1, <2>2, StepKeeps DEF Running, MainPCs
<1>11. CASE pauseSolicit(g)
  <2>1. GoalTyped'
    BY <1>11, <1>t, <1>s DEF pauseSolicit, CopyGoal, States
  <2>2. \E to \in Running : Step(g, "solicit", to)
    BY <1>11, <1>a DEF pauseSolicit, Running, MainPCs
  <2> QED
    BY <2>1, <2>2, StepKeeps DEF Running, MainPCs
<1>r. CASE pauseReport(g)
  <2>1. GoalTyped'
    BY <1>r, <1>t, ReportTyped DEF pauseReport
  <2>2. \E to \in Running : Step(g, "report", to)
    BY <1>r, <1>a DEF pauseReport, Running, MainPCs
  <2> QED
    BY <2>1, <2>2, StepKeeps DEF Running, MainPCs
<1>12. CASE dispatchSubGoals(g)
  <2>1. GoalTyped'
    BY <1>12, <1>t, <1>s DEF dispatchSubGoals, CopyGoal, States
  <2>2. \E to \in Running : Step(g, "dispatch", to)
    BY <1>12, <1>a DEF dispatchSubGoals, Running, MainPCs
  <2> QED
    BY <2>1, <2>2, StepKeeps DEF Running, MainPCs
<1>13. CASE workersJoin(g)
  <2>1. GoalTyped'
    BY <1>13, <1>t, <1>s DEF workersJoin, CopyGoal, States
  <2>2. \E to \in Running : Step(g, "working", to)
    BY <1>13, <1>a DEF workersJoin, Running, MainPCs
  <2> QED
    BY <2>1, <2>2, StepKeeps DEF Running, MainPCs
<1>14. CASE checkCtxErr(g)
  <2>1. GoalTyped'
    BY <1>14, <1>t, <1>s DEF checkCtxErr, CopyGoal, States
  <2>2. \E to \in Running : Step(g, "joined", to)
    BY <1>14, <1>a DEF checkCtxErr, Running, MainPCs
  <2> QED
    BY <2>1, <2>2, StepKeeps DEF Running, MainPCs
<1>15. CASE projectDone(g)
  <2>1. GoalTyped'
    BY <1>15, <1>t, <1>s DEF projectDone, CopyGoal, States
  <2>2. \E to \in Running : Step(g, "setDone", to)
    BY <1>15, <1>a DEF projectDone, Running, MainPCs
  <2> QED
    BY <2>1, <2>2, StepKeeps DEF Running, MainPCs
<1>16. CASE checkConversing(g)
  <2>1. GoalTyped'
    BY <1>16, <1>t, <1>s DEF checkConversing, CopyGoal, States
  <2>2. \E to \in Running : Step(g, "checkConversing", to)
    BY <1>16, <1>a DEF checkConversing, Running, MainPCs
  <2> QED
    BY <2>1, <2>2, StepKeeps DEF Running, MainPCs
<1>17. CASE EndConversation(g)
  <2>1. GoalTyped'
    BY <1>17, <1>t, <1>s DEF EndConversation, CopyGoal, States
  <2>2. \E to \in Running : Step(g, "converse", to)
    BY <1>17, <1>a DEF EndConversation, Running, MainPCs
  <2> QED
    BY <2>1, <2>2, StepKeeps DEF Running, MainPCs
<1>18. CASE closeHandleDone(g)
  <2> USE <1>18 DEF closeHandleDone
  <2>1. TypeOK'
    BY DEF TypeOK, Goto, Frame, ctxVars, regVars, drainVars, MainPCs
  <2>2. Live' = Live
    BY DEF Live, Goto, TypeOK
  <2>3. \A h \in Goals : main'[h] = (IF h = g THEN "join" ELSE main[h])
    BY DEF Goto, TypeOK
  <2> QED
    BY <2>1, <2>2, <2>3 DEF Counted, Frame, drainVars
<1>19. CASE admitCancelled(g) \/ actorExits(g)
  BY <1>19, EndKeeps
<1> QED
  BY <1>1, <1>2, <1>3, <1>4, <1>5, <1>6, <1>7, <1>8, <1>9, <1>10, <1>11, <1>12, <1>13, <1>14, <1>15, <1>16, <1>17, <1>18, <1>19, <1>r DEF mainStep, mainCall

---------------------------------------------------------------------------
(* The drain goroutine keeps the invariant.                                *)

(* The first access of a command, and a move between the three loops.      *)
LEMMA ReceiveKeeps ==
    ASSUME IInv, NEW g \in Goals, handleCommand(g)
    PROVE  IInv'
<1> USE DEF IInv, handleCommand
<1> DEFINE c == Head(mailbox[g])
<1>1. mailbox[g] \in Seq(Commands) /\ mailbox[g] # <<>> /\ Len(mailbox[g]) <= MailboxBuffer
  BY DEF TypeOK
<1>2. c \in Commands
  BY SMT, <1>1
<1>3. c.kind = "info" => c.info \in Infos
  BY <1>2 DEF Commands
<1>4. Tail(mailbox[g]) \in Seq(Commands) /\ Len(Tail(mailbox[g])) <= MailboxBuffer
  BY SMT, <1>1, BoundsAssumption
<1>5. mailbox' \in [Goals -> Seq(Commands)] /\ \A h \in Goals : Len(mailbox'[h]) <= MailboxBuffer
  BY <1>4 DEF TypeOK
<1>6. /\ state' = state
      /\ cancelFn' \subseteq Goals /\ cancelled' \subseteq Goals /\ confirmed' \subseteq Goals
      /\ pending' \in [Goals -> SUBSET Infos]
      /\ cmd' \in [Goals -> CmdPCs]
      /\ \A h \in Goals : h # g => cmd'[h] = cmd[h]
  <2>1. CASE receiveCancel(g)
    BY <2>1 DEF receiveCancel, TypeOK, CmdPCs
  <2>2. CASE receiveConfirm(g)
    BY <2>2 DEF receiveConfirm, TypeOK, regVars
  <2>3. CASE c.kind = "info" /\ receiveInfo(g, c.info)
    <3>1. c.info \in Infos
      BY <1>3, <2>3
    <3> QED
      BY SMT, <2>3, <3>1 DEF receiveInfo, TypeOK, CmdPCs
  <2> QED
    BY <2>1, <2>2, <2>3
<1>7. TypeOK'
  BY <1>5, <1>6 DEF TypeOK, loopVars, goalVars, shownVars
<1>8. Live' = Live
  BY DEF Live
<1> QED
  BY <1>6, <1>7, <1>8 DEF Counted, loopVars

(* The drain goroutine's own moves keep the invariant.                     *)
LEMMA DrainMoveKeeps ==
    ASSUME IInv, NEW g \in Goals,
           drainCommands(g) \/ HasPendingPlan(g) \/ drainPostHandle(g) \/ sweep(g)
    PROVE  IInv'
<1> USE DEF IInv, drainCommands, HasPendingPlan, drainPostHandle, sweep, DrainTo
<1>1. PICK pc \in {"held", "linger", "sweep", "exit"} : drain' = [drain EXCEPT ![g] = pc]
  OBVIOUS
<1>2. UNCHANGED <<DrainFrame, mailbox, regVars, goalVars, cmd, batch, confirmed>>
  OBVIOUS
<1>3. drain[g] \in {"loop", "held", "linger", "sweep"} /\ cmd[g] = "idle"
  BY DEF Counted
<1>4. TypeOK'
  BY <1>1, <1>2 DEF TypeOK, DrainFrame, loopVars, ctxVars, regVars, goalVars, shownVars, DrainPCs
<1>5. Live' = Live
  BY <1>2 DEF Live, DrainFrame
<1>6. \A h \in Goals : drain'[h] = (IF h = g THEN pc ELSE drain[h])
  BY <1>1 DEF TypeOK
<1> QED
  BY <1>2, <1>3, <1>4, <1>5, <1>6 DEF Counted, DrainFrame, loopVars

(* Spawning an amendment: the parent is live, so the loop has not          *)
(* returned.                                                               *)
LEMMA AmendKeeps ==
    ASSUME IInv, NEW g \in Goals, NEW h \in Goals, spawnAmendment(g, h)
    PROVE  IInv'
<1> USE DEF IInv
<1>1. PICK i \in batch[g] :
        /\ h \in Unused
        /\ CmdStep(g, "amend", IF batch[g] = {i} THEN "idle" ELSE "amend")
        /\ batch' = [batch EXCEPT ![g] = @ \ {i}]
        /\ StartActor(h, owner[g])
        /\ spec' = [spec EXCEPT ![h] = {i}]
        /\ UNCHANGED <<pending, store, planned, shownVars>>
  BY DEF spawnAmendment
<1>2. Cardinality(Live') = Cardinality(Live) + 1
  BY <1>1, StartCounts DEF StartActor
<1>3. i \in Infos
  BY DEF TypeOK
<1>4. cmd' \in [Goals -> CmdPCs] /\ \A k \in Goals : k # g => cmd'[k] = cmd[k]
  BY <1>1 DEF CmdStep, TypeOK, CmdPCs
<1>5. TypeOK'
  <2>1. wg' \in Nat /\ main' \in [Goals -> MainPCs] /\ owner' \in [Goals -> Goals]
        /\ state' \in [Goals -> States]
    BY SMT, <1>1 DEF StartActor, Goto, SetState, TypeOK, MainPCs, States
  <2>2. batch' \in [Goals -> SUBSET Infos] /\ spec' \in [Goals -> SUBSET Infos]
    BY <1>1, <1>3 DEF TypeOK
  <2> QED
    BY <1>1, <1>4, <2>1, <2>2 DEF TypeOK, CmdStep, shownVars
<1>6. loop # "returned"
  <2>1. cmd[g] # "idle"
    BY <1>1 DEF CmdStep
  <2>2. g \in Live
    BY <2>1 DEF Counted, Live
  <2>3. Cardinality(Live) # 0
    BY <2>2, LiveFinite, FS_EmptySet
  <2> QED
    BY <2>3 DEF Counted
<1>7. main[h] = "none"
  BY <1>1 DEF Unused
<1>8. \A k \in Goals : main'[k] = (IF k = h THEN "admit" ELSE main[k])
  BY <1>1 DEF StartActor, Goto, TypeOK
<1>9. Counted'
  <2>1. cmd[g] # "idle" /\ UNCHANGED <<loop, slots, drain>>
    BY <1>1 DEF CmdStep
  <2>2. wg' = Cardinality(Live')
    BY <1>1, <1>2 DEF StartActor, Counted
  <2> QED
    BY <1>4, <1>6, <1>7, <1>8, <2>1, <2>2 DEF Counted
<1> QED
  BY <1>5, <1>9

(* Every step of the drain goroutine keeps the invariant.                  *)
LEMMA DrainKeeps ==
    ASSUME IInv, NEW g \in Goals, drainStep(g) \/ drainCall(g)
    PROVE  IInv'
<1> USE DEF IInv
<1>t. /\ GoalTyped
      /\ pending \in [Goals -> SUBSET Infos] /\ batch \in [Goals -> SUBSET Infos]
  BY DEF TypeOK, GoalTyped
<1>1. CASE ConsumePlanOnCancel(g)
  <2>1. GoalTyped'
    BY <1>1, <1>t DEF ConsumePlanOnCancel, GoalTyped, shownVars
  <2> QED
    BY <1>1, <1>t, <2>1, CmdKeeps DEF ConsumePlanOnCancel, CmdPCs
<1>2. CASE projectCancelled(g)
  <2>1. GoalTyped'
    BY <1>2, <1>t DEF projectCancelled, GoalTyped, goalVars, shownVars, SetState, States
  <2> QED
    BY <1>2, <1>t, <2>1, CmdKeeps DEF projectCancelled, CmdPCs
<1>3. CASE reclarify(g)
  <2>1. GoalTyped'
    BY <1>3, <1>t DEF reclarify, GoalTyped, goalVars, shownVars, SetState, States
  <2> QED
    BY <1>3, <1>t, <2>1, CmdKeeps DEF reclarify, CmdPCs
<1>4. CASE applyInfo(g)
  <2>1. /\ GoalTyped'
        /\ pending' \in [Goals -> SUBSET Infos] /\ batch' \in [Goals -> SUBSET Infos]
    BY <1>4, <1>t DEF applyInfo, GoalTyped, DrainInfo, shownVars
  <2>2. \E to \in CmdPCs : CmdStep(g, "route", to)
    BY <1>4 DEF applyInfo, CmdPCs
  <2>3. UNCHANGED <<wg, owner, main>>
    BY <1>4 DEF applyInfo
  <2> QED
    BY <2>1, <2>2, <2>3, CmdKeeps DEF CmdPCs
<1>5. CASE ContinueAnswer(g)
  <2>1. GoalTyped'
    BY <1>5, <1>t DEF ContinueAnswer, GoalTyped, goalVars, shownVars
  <2> QED
    BY <1>5, <1>t, <2>1, CmdKeeps DEF ContinueAnswer, CmdPCs
<1>6. CASE SolicitApproval(g)
  <2>1. GoalTyped'
    BY <1>6, <1>t DEF SolicitApproval, GoalTyped
  <2>2. \E to \in CmdPCs : CmdStep(g, "solicit", to)
    BY <1>6 DEF SolicitApproval, CmdPCs
  <2>3. UNCHANGED <<pending, batch>> /\ UNCHANGED <<wg, owner, main>>
    BY <1>6 DEF SolicitApproval
  <2> QED
    BY <1>t, <2>1, <2>2, <2>3, CmdKeeps DEF CmdPCs
<1>7. CASE reportSolicitation(g)
  <2>1. GoalTyped'
    BY <1>7, <1>t, ReportTyped DEF reportSolicitation, GoalTyped
  <2> QED
    BY <1>7, <1>t, <2>1, CmdKeeps DEF reportSolicitation, CmdPCs
<1> QED
  BY <1>1, <1>2, <1>3, <1>4, <1>5, <1>6, <1>7, ReceiveKeeps, DrainMoveKeeps, AmendKeeps DEF drainStep, drainCall

---------------------------------------------------------------------------
(* Every step keeps the invariant.                                         *)
LEMMA NextIInv == IInv /\ [Next]_vars => IInv'
<1> SUFFICES ASSUME IInv, [Next]_vars PROVE IInv'
  OBVIOUS
<1>1. CASE UNCHANGED vars
  <2>1. TypeOK'
    <3>1. TypeOK
      BY DEF IInv
    <3> QED
      BY <1>1, <3>1 DEF vars, loopVars, regVars, ctxVars, goalVars, shownVars, drainVars, TypeOK
  <2>2. Live' = Live
    BY <1>1 DEF vars, Live
  <2> QED
    BY <1>1, <2>1, <2>2 DEF vars, loopVars, drainVars, IInv, Counted
<1>2. CASE Next
  BY <1>1, <1>2, LoopKeeps, AdmitKeeps, MainKeeps, DrainKeeps DEF Next, terminated
<1> QED
  BY <1>1, <1>2

(* The inductive invariant is an invariant.                                *)
LEMMA AlwaysIInv == Spec => []IInv
  BY InitIInv, NextIInv, PTL DEF Spec

(* The registry, the contexts, the mailboxes (never past their capacity)   *)
(* and the program counters keep their types.                              *)
THEOREM TypeCorrect == Spec => []TypeOK
<1>1. IInv => TypeOK
  BY DEF IInv
<1> QED
  BY <1>1, AlwaysIInv, PTL

(* runControlLoop returns only when both goroutines of every goal it or an *)
(* actor started have ended.                                               *)
THEOREM LoopJoinsActors == Spec => []JoinedBeforeReturn
<1>1. IInv => JoinedBeforeReturn
  <2> SUFFICES ASSUME IInv, loop = "returned", NEW g \in Goals
               PROVE  main[g] \in {"none", "done"} /\ drain[g] \in {"off", "exit"}
    BY DEF JoinedBeforeReturn
  <2>1. Cardinality(Live) = 0
    BY DEF IInv, Counted
  <2>2. Live = {}
    BY <2>1, LiveFinite, FS_EmptySet
  <2>3. main[g] \in {"none", "done"}
    BY <2>2 DEF Live
  <2> QED
    BY <2>3 DEF IInv, Counted
<1> QED
  BY <1>1, AlwaysIInv, PTL

(* The admission channel bounds the actors whose goroutines run.           *)
THEOREM ActorsAreAdmitted == Spec => []AdmissionBound
<1>1. IInv => AdmissionBound
  BY DEF IInv, Counted, AdmissionBound, TypeOK, DrainPCs
<1> QED
  BY <1>1, AlwaysIInv, PTL

---------------------------------------------------------------------------
(* The two solicitations of an approval.                                   *)

(* A goal is AwaitingApproval only from its solicitation on.  All that is  *)
(* queued then went out with a solicitation, failed with one or is in the  *)
(* one the main goroutine is about to send, save while the drain goroutine *)
(* routes an info and solicits for it.                                     *)
Solicited == {"solicit", "report", "check", "checkConversing", "converse",
              "close", "join", "done"}
SolAt(g) ==
    state[g] = "AwaitingApproval" =>
        /\ main[g] \in Solicited
        /\ main[g] # "solicit" /\ cmd[g] \notin {"route", "solicit", "report"} =>
              \A i \in pending[g] : \/ i \in surfaced[g] \/ i \in unsent[g]
                                    \/ main[g] = "report" /\ i \in view[g]
SolInv == \A g \in Goals : SolAt(g)

(* What it speaks of are functions on the goals.                           *)
SolTypes ==
    /\ state \in [Goals -> States] /\ main \in [Goals -> MainPCs] /\ cmd \in [Goals -> CmdPCs]
    /\ pending \in [Goals -> SUBSET Infos] /\ view \in [Goals -> SUBSET Infos]
    /\ surfaced \in [Goals -> SUBSET Infos] /\ unsent \in [Goals -> SUBSET Infos]

(* The control loop and the admission solicit nothing.                     *)
LEMMA LoopSolicits ==
    ASSUME IInv, SolInv,
           \/ \E g \in Goals : routeNewGoal(g) \/ routeCommand(g) \/ admit(g)
           \/ ignoreUnknownKind \/ sourceExhausted \/ loopReturns \/ cancelRoot
           \/ UNCHANGED vars
    PROVE  SolInv'
<1> SUFFICES ASSUME NEW h \in Goals PROVE SolAt(h)'
  BY DEF SolInv
<1>0. SolAt(h) /\ SolTypes
  BY DEF SolInv, IInv, TypeOK, SolTypes
<1> USE DEF SolAt, Solicited
<1>1. ASSUME NEW g \in Goals, routeNewGoal(g) PROVE SolAt(h)'
  BY <1>0, <1>1 DEF routeNewGoal, StartActor, Goto, SetState, Unused, goalVars, shownVars, drainVars, SolTypes
<1>2. ASSUME NEW g \in Goals, routeCommand(g) PROVE SolAt(h)'
  BY <1>0, <1>2 DEF routeCommand, regVars, goalVars, shownVars, drainVars
<1>3. ASSUME NEW g \in Goals, admit(g) PROVE SolAt(h)'
  BY <1>0, <1>3 DEF admit, Goto, regVars, goalVars, shownVars, SolTypes
<1>4. CASE ignoreUnknownKind \/ sourceExhausted \/ loopReturns \/ cancelRoot
  BY <1>0, <1>4 DEF ignoreUnknownKind, sourceExhausted, loopReturns, cancelRoot, regVars, goalVars, shownVars, drainVars
<1>5. CASE UNCHANGED vars
  BY <1>0, <1>5 DEF vars, regVars, goalVars, shownVars, drainVars
<1> QED
  BY <1>1, <1>2, <1>3, <1>4, <1>5

(* The main goroutine shows what is queued when it pauses for approval.    *)
LEMMA MainSolicits ==
    ASSUME IInv, SolInv, NEW g \in Goals, mainStep(g) \/ mainCall(g)
    PROVE  SolInv'
<1> SUFFICES ASSUME NEW h \in Goals PROVE SolAt(h)'
  BY DEF SolInv
<1>0. SolAt(h) /\ SolTypes
  BY DEF SolInv, IInv, TypeOK, SolTypes
<1> USE DEF SolAt, Solicited, Step, Goto, SetState, CopyGoal, AfterPlan, goalVars, shownVars, drainVars, regVars
<1>1. CASE admitCancelled(g)
  BY <1>0, <1>1 DEF admitCancelled, SolTypes
<1>2. CASE BeginGoal(g)
  BY <1>0, <1>2 DEF BeginGoal, SolTypes
<1>3. CASE ClarifyAndReport(g)
  BY <1>0, <1>3 DEF ClarifyAndReport, SolTypes
<1>4. CASE checkClarifying(g)
  BY <1>0, <1>4 DEF checkClarifying, SolTypes
<1>5. CASE waitConfirm(g)
  BY <1>0, <1>5 DEF waitConfirm, SolTypes
<1>6. CASE ConfirmAndPlan(g)
  BY <1>0, <1>6 DEF ConfirmAndPlan, SolTypes
<1>7. CASE planFails(g)
  BY <1>0, <1>7 DEF planFails, SolTypes
<1>8. CASE planDecided(g)
  BY <1>0, <1>8 DEF planDecided, SolTypes
<1>9. CASE pausePut(g)
  BY <1>0, <1>9 DEF pausePut, SolTypes
<1>10. CASE pauseRejected(g)
  BY <1>0, <1>10 DEF pauseRejected, SolTypes
<1>11. CASE pauseProject(g)
  BY <1>0, <1>11 DEF pauseProject, SolTypes
<1>12. CASE pauseSolicit(g)
  BY <1>0, <1>12 DEF pauseSolicit, SolTypes
<1>r. CASE pauseReport(g)
  BY <1>0, <1>r DEF pauseReport, Report, SolTypes
<1>13. CASE dispatchSubGoals(g)
  BY <1>0, <1>13 DEF dispatchSubGoals, SolTypes
<1>14. CASE workersJoin(g)
  BY <1>0, <1>14 DEF workersJoin, SolTypes
<1>15. CASE checkCtxErr(g)
  BY <1>0, <1>15 DEF checkCtxErr, SolTypes
<1>16. CASE projectDone(g)
  BY <1>0, <1>16 DEF projectDone, SolTypes
<1>17. CASE checkConversing(g)
  BY <1>0, <1>17 DEF checkConversing, SolTypes
<1>18. CASE EndConversation(g)
  BY <1>0, <1>18 DEF EndConversation, SolTypes
<1>19. CASE closeHandleDone(g)
  BY <1>0, <1>19 DEF closeHandleDone, SolTypes
<1>20. CASE actorExits(g)
  BY <1>0, <1>20 DEF actorExits, SolTypes
<1> QED
  BY <1>1, <1>2, <1>3, <1>4, <1>5, <1>6, <1>7, <1>8, <1>9, <1>10, <1>11, <1>12, <1>13, <1>14, <1>15, <1>16, <1>17, <1>18, <1>19, <1>20, <1>r DEF mainStep, mainCall

(* The drain goroutine shows again what is queued when an info comes.      *)
LEMMA DrainSolicits ==
    ASSUME IInv, SolInv, NEW g \in Goals, drainStep(g) \/ drainCall(g)
    PROVE  SolInv'
<1> SUFFICES ASSUME NEW h \in Goals PROVE SolAt(h)'
  BY DEF SolInv
<1>0. SolAt(h) /\ SolTypes
  BY DEF SolInv, IInv, TypeOK, SolTypes
<1> USE DEF SolAt, Solicited, CmdStep, SetState, goalVars, shownVars, drainVars, regVars, DrainFrame
<1>1. CASE handleCommand(g)
  BY <1>0, <1>1 DEF handleCommand, receiveCancel, receiveConfirm, receiveInfo, SolTypes
<1>2. CASE drainCommands(g) \/ HasPendingPlan(g) \/ drainPostHandle(g) \/ sweep(g)
  BY <1>0, <1>2 DEF drainCommands, HasPendingPlan, drainPostHandle, sweep
<1>3. CASE ConsumePlanOnCancel(g)
  BY <1>0, <1>3 DEF ConsumePlanOnCancel, SolTypes
<1>4. CASE projectCancelled(g)
  BY <1>0, <1>4 DEF projectCancelled, SolTypes
<1>5. CASE applyInfo(g)
  BY <1>0, <1>5 DEF applyInfo, DrainInfo, Terminal, SolTypes
<1>6. CASE reclarify(g)
  BY <1>0, <1>6 DEF reclarify, SolTypes
<1>7. ASSUME NEW k \in Goals, spawnAmendment(g, k) PROVE SolAt(h)'
  BY <1>0, <1>7 DEF spawnAmendment, StartActor, Goto, SolTypes
<1>8. CASE ContinueAnswer(g)
  BY <1>0, <1>8 DEF ContinueAnswer, SolTypes
<1>9. CASE SolicitApproval(g)
  BY <1>0, <1>9 DEF SolicitApproval, SolTypes
<1>10. CASE reportSolicitation(g)
  BY <1>0, <1>10 DEF reportSolicitation, Report, SolTypes
<1> QED
  BY <1>1, <1>2, <1>3, <1>4, <1>5, <1>6, <1>7, <1>8, <1>9, <1>10 DEF drainStep, drainCall

(* Every info queued for a plan that waits for approval was put before the *)
(* operator with a solicitation, whichever goroutine came first, or the    *)
(* solicitation that carried it failed (pauseForApproval, SolicitApproval  *)
(* and applyInfo).                                                         *)
THEOREM SolicitsAll == Spec => []SolicitationComplete
<1>1. Init => SolInv
  BY DEF Init, SolInv, SolAt
<1>2. IInv /\ SolInv /\ [Next]_vars => SolInv'
  BY LoopSolicits, MainSolicits, DrainSolicits DEF Next, terminated
<1>3. SolInv => SolicitationComplete
  BY DEF SolInv, SolAt, SolicitationComplete, Paused
<1> QED
  BY <1>1, <1>2, <1>3, AlwaysIInv, PTL DEF Spec

---------------------------------------------------------------------------
(* Where an info is.                                                       *)

(* At most one place holds it, once, and only when it was read.            *)
NoDuplicates(s) ==
    \A k, l \in DOMAIN s : s[k].info # NoInfo /\ s[k].info = s[l].info => k = l
OnePlace(i) ==
    \A g, h \in Goals, p, q \in Places : Holds(g, p, i) /\ Holds(h, q, i) => g = h /\ p = q
WasRead(i) == \A g \in Goals, p \in Places : Holds(g, p, i) => i <= sent["info"]
InfoInv ==
    /\ \A g \in Goals : NoDuplicates(mailbox[g])
    /\ \A i \in Infos : OnePlace(i) /\ WasRead(i)

(* A command put at the end of a mailbox is the one command it gains.      *)
LEMMA AppendHolds ==
    ASSUME NEW s \in Seq(Commands), NEW c \in Commands
    PROVE  /\ DOMAIN s = 1..Len(s) /\ Len(s) \in Nat
           /\ DOMAIN Append(s, c) = 1..(Len(s) + 1)
           /\ \A k \in DOMAIN s : Append(s, c)[k] = s[k]
           /\ Append(s, c)[Len(s) + 1] = c
BY SMT

(* The command taken from a mailbox is the one it loses.                   *)
LEMMA TailHolds ==
    ASSUME NEW s \in Seq(Commands), s # <<>>
    PROVE  /\ DOMAIN s = 1..Len(s) /\ Len(s) \in Nat \ {0} /\ 1 \in DOMAIN s
           /\ Head(s) = s[1]
           /\ DOMAIN Tail(s) = 1..(Len(s) - 1)
           /\ \A k \in DOMAIN Tail(s) : k + 1 \in DOMAIN s /\ k + 1 # 1 /\ Tail(s)[k] = s[k + 1]
           /\ \A k, l \in DOMAIN Tail(s) : k + 1 = l + 1 => k = l
<1>1. /\ DOMAIN s = 1..Len(s) /\ Len(s) \in Nat \ {0} /\ 1 \in DOMAIN s
      /\ Head(s) = s[1]
  BY SMT
<1>2. /\ DOMAIN Tail(s) = 1..(Len(s) - 1)
      /\ \A k \in 1..(Len(s) - 1) : Tail(s)[k] = s[k + 1]
  BY SMT
<1>3. /\ \A k \in 1..(Len(s) - 1) : k + 1 \in 1..Len(s) /\ k + 1 # 1
      /\ \A k, l \in 1..(Len(s) - 1) : k + 1 = l + 1 => k = l
  BY SMT, <1>1
<1> QED
  BY <1>1, <1>2, <1>3

(* A step that leaves an info where it is, or moves it from its one place  *)
(* to another, or brings in one that was nowhere, leaves it in one place.  *)
LEMMA OnePlaceKept ==
    ASSUME NEW i \in Infos, OnePlace(i),
           \/ \A g \in Goals, p \in Places : Holds(g, p, i)' => Holds(g, p, i)
           \/ \E h \in Goals, q \in Places : \A g \in Goals, p \in Places : Holds(g, p, i)' => g = h /\ p = q
    PROVE  OnePlace(i)'
BY DEF OnePlace

(* The types of what holds infos.                                          *)
LEMMA InfoTypes ==
    ASSUME IInv
    PROVE  /\ sent \in [Kinds -> Nat] /\ sent["info"] \in Nat
           /\ mailbox \in [Goals -> Seq(Commands)] /\ pending \in [Goals -> SUBSET Infos]
<1>1. /\ sent \in [Kinds -> Nat]
      /\ mailbox \in [Goals -> Seq(Commands)] /\ pending \in [Goals -> SUBSET Infos]
  BY DEF IInv, TypeOK
<1> QED
  BY <1>1 DEF Kinds

(* After a step the number of infos read is still a number.                *)
LEMMA SentNext ==
    ASSUME IInv'
    PROVE  sent'["info"] \in Nat
<1>1. sent' \in [Kinds -> Nat]
  BY DEF IInv, TypeOK
<1> QED
  BY <1>1 DEF Kinds

(* Infos are numbered from one.                                            *)
LEMMA InfosAreNumbers == \A i \in Infos : i \in Nat \ {0}
BY SMT DEF Infos

(* The steps but four leave every info where it is.                        *)
LEMMA InfosStay ==
    ASSUME IInv, IInv', InfoInv, UNCHANGED <<mailbox, pending, batch, spec>>,
           sent'["info"] >= sent["info"]
    PROVE  InfoInv'
<1>1. sent["info"] \in Nat /\ sent'["info"] \in Nat /\ \A i \in Infos : i \in Nat
  BY InfoTypes, SentNext, InfosAreNumbers
<1>2. \A g \in Goals, p \in Places, i \in Infos : Holds(g, p, i)' <=> Holds(g, p, i)
  BY SMT DEF Holds
<1> QED
  BY SMT, <1>1, <1>2 DEF InfoInv, OnePlace, WasRead

(* routeCommand: the number of an info is new, so nothing holds it yet.    *)
LEMMA InfoRouted ==
    ASSUME IInv, IInv', InfoInv, NEW g \in Goals, routeCommand(g)
    PROVE  InfoInv'
<1>1. /\ UNCHANGED <<pending, batch, spec>>
      /\ sent \in [Kinds -> Nat] /\ mailbox \in [Goals -> Seq(Commands)]
      /\ \A i \in Infos : i \in Nat \ {0}
  <2>1. UNCHANGED <<pending, batch, spec>>
    BY DEF routeCommand, regVars, goalVars, shownVars, drainVars
  <2> QED
    BY <2>1, InfoTypes, InfosAreNumbers
<1>2. PICK c \in Commands :
         /\ deliver(g, c)
         /\ sent'["info"] \in Nat /\ sent'["info"] >= sent["info"]
         /\ c.info = NoInfo \/ (c.info = sent'["info"] /\ sent'["info"] = sent["info"] + 1)
  <2>1. sent'["info"] \in Nat
    BY SentNext
  <2>2. Read("info") => sent'["info"] = sent["info"] + 1 /\ sent'["info"] \in Infos
    BY <1>1, ReadKeeps DEF Read, Kinds, Infos, IInv
  <2>3. Read("cancel") \/ Read("confirm") => sent'["info"] = sent["info"]
    BY <1>1 DEF Read, Kinds
  <2> QED
    BY SMT, <1>1, <2>1, <2>2, <2>3 DEF routeCommand, Commands, Kinds
<1>3. CASE UNCHANGED mailbox
  BY <1>1, <1>2, <1>3, InfosStay
<1>4. CASE mailbox' = [mailbox EXCEPT ![g] = Append(@, c)]
  <2> DEFINE n == Len(mailbox[g]) + 1
  <2>1. /\ mailbox[g] \in Seq(Commands) /\ mailbox'[g] = Append(mailbox[g], c)
        /\ \A h \in Goals : h # g => mailbox'[h] = mailbox[h]
    BY <1>1, <1>4
  <2>2. /\ DOMAIN mailbox[g] = 1..Len(mailbox[g]) /\ Len(mailbox[g]) \in Nat
        /\ DOMAIN mailbox'[g] = 1..n
        /\ \A k \in DOMAIN mailbox[g] : mailbox'[g][k] = mailbox[g][k]
        /\ mailbox'[g][n] = c
    BY SMT, <2>1, AppendHolds
  <2>3. \A k \in DOMAIN mailbox'[g] : k \in DOMAIN mailbox[g] \/ k = n
    BY SMT, <2>2
  <2>4. DOMAIN mailbox[g] \subseteq DOMAIN mailbox'[g] /\ n \in DOMAIN mailbox'[g]
    BY SMT, <2>2
  <2>5. \A k \in DOMAIN mailbox[g] : mailbox[g][k].info \in Infos \cup {NoInfo}
    BY SMT, <2>1 DEF Commands, NoInfo
  <2>6. \A k \in DOMAIN mailbox[g] : mailbox[g][k].info \in Infos => mailbox[g][k].info <= sent["info"]
    BY DEF InfoInv, WasRead, Holds, Places
  <2>7. \A i \in Infos : i = c.info => i = sent["info"] + 1
    BY <1>1, <1>2 DEF NoInfo
  <2> HIDE DEF n
  <2>8. \A k \in DOMAIN mailbox[g] : c.info # NoInfo => mailbox[g][k].info # c.info
    BY SMT, <1>1, <1>2, <2>5, <2>6 DEF NoInfo, Kinds
  <2>9. \A h \in Goals : NoDuplicates(mailbox'[h])
    <3>1. \A h \in Goals : NoDuplicates(mailbox[h])
      BY DEF InfoInv
    <3>2. ASSUME NEW k \in DOMAIN mailbox'[g], NEW l \in DOMAIN mailbox'[g],
                 mailbox'[g][k].info # NoInfo, mailbox'[g][k].info = mailbox'[g][l].info
          PROVE  k = l
      <4>1. CASE k \in DOMAIN mailbox[g] /\ l \in DOMAIN mailbox[g]
        BY <2>2, <3>1, <3>2, <4>1 DEF NoDuplicates
      <4>2. CASE k = n \/ l = n
        BY <2>2, <2>3, <2>8, <3>2, <4>2
      <4> QED
        BY <2>3, <4>1, <4>2
    <3> QED
      BY <2>1, <3>1, <3>2 DEF NoDuplicates
  <2>10. ASSUME NEW i \in Infos PROVE OnePlace(i)' /\ WasRead(i)'
    <3>1. OnePlace(i) /\ WasRead(i)
      BY DEF InfoInv
    <3>2. \A h \in Goals, p \in Places : Holds(h, p, i)' => Holds(h, p, i) \/ (h = g /\ p = "mailbox" /\ c.info = i)
      <4> SUFFICES ASSUME NEW h \in Goals, NEW p \in Places, Holds(h, p, i)'
                   PROVE  Holds(h, p, i) \/ (h = g /\ p = "mailbox" /\ c.info = i)
        OBVIOUS
      <4>1. CASE p = "mailbox"
        BY <2>1, <2>2, <2>3, <4>1 DEF Holds
      <4>2. CASE p # "mailbox"
        BY <1>1, <4>2 DEF Holds
      <4> QED
        BY <4>1, <4>2
    <3>3. CASE c.info = i
      <4>1. i = sent["info"] + 1 /\ sent["info"] \in Nat
        BY <1>1, <2>7, <3>3 DEF Kinds
      <4>2. \A h \in Goals, p \in Places : ~ Holds(h, p, i)
        BY SMT, <3>1, <4>1 DEF WasRead
      <4>3. OnePlace(i)'
        BY SMT, <3>1, <3>2, <4>2, OnePlaceKept DEF Places
      <4>4. i <= sent'["info"]
        BY SMT, <1>1, <1>2, <3>3 DEF NoInfo
      <4> QED
        BY <4>3, <4>4 DEF WasRead
    <3>4. CASE c.info # i
      <4>1. OnePlace(i)'
        BY <3>1, <3>2, <3>4, OnePlaceKept
      <4>2. sent["info"] \in Nat /\ i \in Nat
        BY <1>1 DEF Kinds
      <4> QED
        BY SMT, <1>2, <3>1, <3>2, <3>4, <4>1, <4>2 DEF WasRead
    <3> QED
      BY <3>3, <3>4
  <2> QED
    BY <2>9, <2>10 DEF InfoInv
<1> QED
  BY <1>2, <1>3, <1>4 DEF deliver

(* handleCommand: an info leaves its mailbox for the pending queue.        *)
LEMMA InfoReceived ==
    ASSUME IInv, IInv', InfoInv, NEW g \in Goals, handleCommand(g)
    PROVE  InfoInv'
<1> DEFINE c == Head(mailbox[g])
<1>1. /\ UNCHANGED <<sent, batch, spec>> /\ mailbox[g] # <<>>
      /\ mailbox' = [mailbox EXCEPT ![g] = Tail(@)]
      /\ mailbox \in [Goals -> Seq(Commands)] /\ pending \in [Goals -> SUBSET Infos]
  BY InfoTypes DEF handleCommand, loopVars, goalVars, shownVars
<1>2. UNCHANGED pending \/ pending' = [pending EXCEPT ![g] = @ \cup {c.info}]
  BY DEF handleCommand, receiveCancel, receiveConfirm, receiveInfo, regVars
<1>3. /\ mailbox[g] \in Seq(Commands) /\ mailbox'[g] = Tail(mailbox[g])
      /\ \A h \in Goals : h # g => mailbox'[h] = mailbox[h]
  BY <1>1
<1>4. /\ 1 \in DOMAIN mailbox[g] /\ c = mailbox[g][1]
      /\ \A k \in DOMAIN mailbox'[g] : k + 1 \in DOMAIN mailbox[g] /\ mailbox'[g][k] = mailbox[g][k + 1]
  BY SMT, <1>1, <1>3, TailHolds
<1>5. /\ \A k \in DOMAIN mailbox'[g] : k + 1 # 1
      /\ \A k, l \in DOMAIN mailbox'[g] : k + 1 = l + 1 => k = l
  BY SMT, <1>1, <1>3, TailHolds
<1> HIDE DEF c
<1>6. NoDuplicates(mailbox[g])
  BY DEF InfoInv
<1>7. NoDuplicates(mailbox'[g])
  <2> SUFFICES ASSUME NEW k \in DOMAIN mailbox'[g], NEW l \in DOMAIN mailbox'[g],
                      mailbox'[g][k].info # NoInfo, mailbox'[g][k].info = mailbox'[g][l].info
               PROVE  k = l
    BY DEF NoDuplicates
  <2>1. k + 1 = l + 1
    BY SMT, <1>4, <1>6 DEF NoDuplicates
  <2> QED
    BY <1>5, <2>1
<1>8. ASSUME NEW i \in Infos PROVE OnePlace(i)' /\ WasRead(i)'
  <2>1. OnePlace(i) /\ WasRead(i)
    BY DEF InfoInv
  <2>2. i # NoInfo
    BY SMT DEF Infos, NoInfo
  <2>3. \A h \in Goals : Holds(h, "mailbox", i)' => Holds(h, "mailbox", i)
    <3>1. ASSUME NEW k \in DOMAIN mailbox'[g], mailbox'[g][k].info = i
          PROVE  \E l \in DOMAIN mailbox[g] : mailbox[g][l].info = i
      BY <1>4, <3>1
    <3> QED
      BY <1>3, <3>1 DEF Holds
  <2>4. \A h \in Goals : (Holds(h, "batch", i)' => Holds(h, "batch", i)) /\ (Holds(h, "spec", i)' => Holds(h, "spec", i))
    BY <1>1 DEF Holds
  <2>5. CASE UNCHANGED pending
    <3>1. \A h \in Goals, p \in Places : Holds(h, p, i)' => Holds(h, p, i)
      BY <2>3, <2>4, <2>5 DEF Holds, Places
    <3> QED
      BY <1>1, <2>1, <3>1, OnePlaceKept DEF WasRead
  <2>6. CASE pending' = [pending EXCEPT ![g] = @ \cup {c.info}]
    <3>1. \A h \in Goals : Holds(h, "pending", i)' => Holds(h, "pending", i) \/ (h = g /\ i = c.info)
      BY <1>1, <2>6 DEF Holds
    <3>2. CASE i = c.info
      <4>1. Holds(g, "mailbox", i)
        BY <1>4, <3>2 DEF Holds
      <4>2. \A h \in Goals, p \in Places : Holds(h, p, i) => h = g /\ p = "mailbox"
        BY <2>1, <4>1 DEF OnePlace, Places
      <4>3. ~ Holds(g, "mailbox", i)'
        <5> SUFFICES ASSUME NEW k \in DOMAIN mailbox'[g], mailbox'[g][k].info = i PROVE FALSE
          BY DEF Holds
        <5>1. k + 1 = 1
          BY <1>4, <1>6, <2>2, <3>2 DEF NoDuplicates
        <5> QED
          BY <1>5, <5>1
      <4>4. \A h \in Goals, p \in Places : Holds(h, p, i)' => h = g /\ p = "pending"
        BY <2>3, <2>4, <3>1, <4>2, <4>3 DEF Places
      <4>5. OnePlace(i)'
        BY <2>1, <4>4, OnePlaceKept DEF Places
      <4>6. i <= sent["info"]
        BY <2>1, <4>1 DEF WasRead, Places
      <4> QED
        BY <1>1, <4>5, <4>6 DEF WasRead
    <3>3. CASE i # c.info
      <4>1. \A h \in Goals, p \in Places : Holds(h, p, i)' => Holds(h, p, i)
        BY <2>3, <2>4, <3>1, <3>3 DEF Places
      <4> QED
        BY <1>1, <2>1, <4>1, OnePlaceKept DEF WasRead
    <3> QED
      BY <3>2, <3>3
  <2> QED
    BY <1>2, <2>5, <2>6
<1> QED
  BY <1>3, <1>7, <1>8 DEF InfoInv

(* applyInfo: what is queued is folded, answered, handed to amendments or  *)
(* left in the queue.                                                      *)
LEMMA InfoApplied ==
    ASSUME IInv, IInv', InfoInv, NEW g \in Goals, applyInfo(g)
    PROVE  InfoInv'
<1>1. /\ UNCHANGED <<sent, mailbox>>
      /\ \/ UNCHANGED <<pending, spec, batch>>
         \/ /\ pending' = [pending EXCEPT ![g] = {}]
            /\ \/ spec' = [spec EXCEPT ![g] = @ \cup pending[g]] /\ UNCHANGED batch
               \/ UNCHANGED <<spec, batch>>
               \/ batch' = [batch EXCEPT ![g] = pending[g]] /\ UNCHANGED spec
  BY DEF applyInfo, CmdStep, DrainInfo
<1>2. /\ pending \in [Goals -> SUBSET Infos] /\ batch \in [Goals -> SUBSET Infos]
      /\ spec \in [Goals -> SUBSET Infos]
  BY DEF IInv, TypeOK
<1>3. ASSUME NEW i \in Infos PROVE OnePlace(i)' /\ WasRead(i)'
  <2>1. OnePlace(i) /\ WasRead(i)
    BY DEF InfoInv
  <2>2. \A h \in Goals : Holds(h, "mailbox", i)' => Holds(h, "mailbox", i)
    BY <1>1 DEF Holds
  <2>3. \A h \in Goals : Holds(h, "pending", i)' => Holds(h, "pending", i)
    BY <1>1, <1>2 DEF Holds
  <2>4. \A h \in Goals : Holds(h, "spec", i)' => Holds(h, "spec", i) \/ (h = g /\ Holds(g, "pending", i))
    BY SMT, <1>1, <1>2 DEF Holds
  <2>5. \A h \in Goals : Holds(h, "batch", i)' => Holds(h, "batch", i) \/ (h = g /\ Holds(g, "pending", i))
    BY <1>1, <1>2 DEF Holds
  <2>6. \/ \A h \in Goals : Holds(h, "spec", i)' => Holds(h, "spec", i)
        \/ \A h \in Goals : Holds(h, "batch", i)' => Holds(h, "batch", i)
    BY <1>1 DEF Holds
  <2>7. \/ \A h \in Goals, p \in {"spec", "batch"} : Holds(h, p, i)' => Holds(h, p, i)
        \/ ~ Holds(g, "pending", i)'
    BY <1>1, <1>2 DEF Holds
  <2>8. WasRead(i)'
    BY <1>1, <2>1, <2>2, <2>3, <2>4, <2>5 DEF WasRead, Places
  <2>9. OnePlace(i)'
    <3>1. CASE Holds(g, "pending", i)
      <4>1. \A h \in Goals, p \in Places : Holds(h, p, i) => h = g /\ p = "pending"
        BY <2>1, <3>1 DEF OnePlace, Places
      <4>2. \E q \in Places : \A h \in Goals, p \in Places : Holds(h, p, i)' => h = g /\ p = q
        BY <2>2, <2>3, <2>4, <2>5, <2>6, <2>7, <4>1 DEF Places
      <4> QED
        BY <2>1, <4>2, OnePlaceKept
    <3>2. CASE ~ Holds(g, "pending", i)
      BY <2>1, <2>2, <2>3, <2>4, <2>5, <3>2, OnePlaceKept DEF Places
    <3> QED
      BY <3>1, <3>2
  <2> QED
    BY <2>8, <2>9
<1> QED
  BY <1>1, <1>3 DEF InfoInv

(* spawnAmendment: an info leaves the batch for the text of a new goal.    *)
LEMMA InfoAmended ==
    ASSUME IInv, IInv', InfoInv, NEW g \in Goals, NEW h \in Goals, spawnAmendment(g, h)
    PROVE  InfoInv'
<1>1. PICK j \in batch[g] :
        /\ batch' = [batch EXCEPT ![g] = @ \ {j}]
        /\ spec' = [spec EXCEPT ![h] = {j}]
        /\ UNCHANGED <<sent, mailbox, pending>>
  BY DEF spawnAmendment, CmdStep
<1>2. batch \in [Goals -> SUBSET Infos] /\ spec \in [Goals -> SUBSET Infos]
  BY DEF IInv, TypeOK
<1>3. ASSUME NEW i \in Infos PROVE OnePlace(i)' /\ WasRead(i)'
  <2>1. OnePlace(i) /\ WasRead(i)
    BY DEF InfoInv
  <2>2. \A k \in Goals, p \in {"mailbox", "pending"} : Holds(k, p, i)' => Holds(k, p, i)
    BY <1>1 DEF Holds
  <2>3. \A k \in Goals : Holds(k, "batch", i)' => Holds(k, "batch", i) /\ (k = g => i # j)
    BY <1>1, <1>2 DEF Holds
  <2>4. \A k \in Goals : Holds(k, "spec", i)' => Holds(k, "spec", i) \/ (k = h /\ i = j)
    BY <1>1, <1>2 DEF Holds
  <2>5. CASE i = j
    <3>1. Holds(g, "batch", i)
      BY <2>5 DEF Holds
    <3>2. \A k \in Goals, p \in Places : Holds(k, p, i) => k = g /\ p = "batch"
      BY <2>1, <3>1 DEF OnePlace, Places
    <3>3. \A k \in Goals, p \in Places : Holds(k, p, i)' => k = h /\ p = "spec"
      BY <2>2, <2>3, <2>4, <2>5, <3>2 DEF Places
    <3>4. i <= sent["info"]
      BY <2>1, <3>1 DEF WasRead, Places
    <3> QED
      BY <1>1, <2>1, <3>3, <3>4, OnePlaceKept DEF WasRead, Places
  <2>6. CASE i # j
    <3>1. \A k \in Goals, p \in Places : Holds(k, p, i)' => Holds(k, p, i)
      BY <2>2, <2>3, <2>4, <2>6 DEF Places
    <3> QED
      BY <1>1, <2>1, <3>1, OnePlaceKept DEF WasRead
  <2> QED
    BY <2>5, <2>6
<1> QED
  BY <1>1, <1>3 DEF InfoInv

(* The main goroutine moves no info: ConfirmAndPlan copies the text.       *)
LEMMA MainMovesNone ==
    ASSUME NEW g \in Goals, mainStep(g) \/ mainCall(g) \/ admit(g)
    PROVE  UNCHANGED <<sent, mailbox, pending, batch, spec>>
<1> USE DEF Step, Frame, goalVars, shownVars, drainVars, regVars, CopyGoal
<1>1. CASE admitCancelled(g)
  BY <1>1 DEF admitCancelled
<1>2. CASE BeginGoal(g)
  BY <1>2 DEF BeginGoal
<1>3. CASE ClarifyAndReport(g)
  BY <1>3 DEF ClarifyAndReport
<1>4. CASE checkClarifying(g)
  BY <1>4 DEF checkClarifying
<1>5. CASE waitConfirm(g)
  BY <1>5 DEF waitConfirm
<1>6. CASE ConfirmAndPlan(g)
  BY <1>6 DEF ConfirmAndPlan
<1>7. CASE planFails(g)
  BY <1>7 DEF planFails
<1>8. CASE planDecided(g)
  BY <1>8 DEF planDecided
<1>9. CASE pausePut(g)
  BY <1>9 DEF pausePut
<1>10. CASE pauseRejected(g)
  BY <1>10 DEF pauseRejected
<1>11. CASE pauseProject(g)
  BY <1>11 DEF pauseProject
<1>12. CASE pauseSolicit(g)
  BY <1>12 DEF pauseSolicit
<1>r. CASE pauseReport(g)
  BY <1>r DEF pauseReport
<1>13. CASE dispatchSubGoals(g)
  BY <1>13 DEF dispatchSubGoals
<1>14. CASE workersJoin(g)
  BY <1>14 DEF workersJoin
<1>15. CASE checkCtxErr(g)
  BY <1>15 DEF checkCtxErr
<1>16. CASE projectDone(g)
  BY <1>16 DEF projectDone
<1>17. CASE checkConversing(g)
  BY <1>17 DEF checkConversing
<1>18. CASE EndConversation(g)
  BY <1>18 DEF EndConversation
<1>19. CASE closeHandleDone(g)
  BY <1>19 DEF closeHandleDone
<1>20. CASE actorExits(g)
  BY <1>20 DEF actorExits
<1>21. CASE admit(g)
  BY <1>21 DEF admit
<1> QED
  BY <1>1, <1>2, <1>3, <1>4, <1>5, <1>6, <1>7, <1>8, <1>9, <1>10, <1>11, <1>12, <1>13, <1>14, <1>15, <1>16, <1>17, <1>18, <1>19, <1>20, <1>21, <1>r DEF mainStep, mainCall

(* Every step keeps every info in at most one place.                       *)
LEMMA InfoStep == IInv /\ IInv' /\ InfoInv /\ [Next]_vars => InfoInv'
<1> SUFFICES ASSUME IInv, IInv', InfoInv, [Next]_vars PROVE InfoInv'
  OBVIOUS
<1>0. sent \in [Kinds -> Nat] /\ sent["info"] \in Nat
  BY InfoTypes
<1>1. ASSUME NEW g \in Goals, routeNewGoal(g) PROVE InfoInv'
  <2>1. sent'["info"] = sent["info"]
    BY <1>0, <1>1 DEF routeNewGoal, Read, Kinds
  <2> QED
    BY SMT, <1>0, <1>1, <2>1, InfosStay DEF routeNewGoal, goalVars, shownVars, drainVars
<1>2. CASE ignoreUnknownKind
  <2>1. sent'["info"] = sent["info"]
    BY <1>0, <1>2 DEF ignoreUnknownKind, Read, Kinds
  <2> QED
    BY SMT, <1>0, <1>2, <2>1, InfosStay DEF ignoreUnknownKind, goalVars, shownVars, drainVars, regVars
<1>3. CASE sourceExhausted \/ loopReturns \/ cancelRoot
  BY SMT, <1>0, <1>3, InfosStay DEF sourceExhausted, loopReturns, cancelRoot, goalVars, shownVars, drainVars, regVars
<1>4. CASE UNCHANGED vars
  BY SMT, <1>0, <1>4, InfosStay DEF vars, loopVars, goalVars, shownVars, drainVars, regVars
<1>5. ASSUME NEW g \in Goals, admit(g) \/ mainStep(g) \/ mainCall(g) PROVE InfoInv'
  <2>1. UNCHANGED <<sent, mailbox, pending, batch, spec>>
    BY <1>5, MainMovesNone
  <2>2. sent'["info"] >= sent["info"]
    BY SMT, <1>0, <2>1
  <2> QED
    BY <2>1, <2>2, InfosStay
<1>6. ASSUME NEW g \in Goals, drainStep(g) \/ drainCall(g) PROVE InfoInv'
  <2>1. CASE drainCommands(g) \/ HasPendingPlan(g) \/ drainPostHandle(g) \/ sweep(g)
    BY SMT, <1>0, <2>1, InfosStay
    DEF drainCommands, HasPendingPlan, drainPostHandle, sweep, DrainFrame, loopVars, goalVars, shownVars, regVars
  <2>2. CASE ConsumePlanOnCancel(g) \/ projectCancelled(g) \/ reclarify(g)
    BY SMT, <1>0, <2>2, InfosStay DEF ConsumePlanOnCancel, projectCancelled, reclarify, CmdStep, goalVars, shownVars
  <2>3. CASE ContinueAnswer(g) \/ SolicitApproval(g) \/ reportSolicitation(g)
    BY SMT, <1>0, <2>3, InfosStay
    DEF ContinueAnswer, SolicitApproval, reportSolicitation, CmdStep, goalVars, shownVars
  <2> QED
    BY <1>6, <2>1, <2>2, <2>3, InfoReceived, InfoApplied, InfoAmended DEF drainStep, drainCall
<1> QED
  BY <1>1, <1>2, <1>3, <1>4, <1>5, <1>6, InfoRouted DEF Next, terminated

(* An info is applied at most once: one mailbox, one queue, one batch of   *)
(* amendments or one goal text holds it (EnqueueInfo, DrainInfo,           *)
(* FoldGoalText and spawnAmendment).                                       *)
THEOREM AppliedOnce == Spec => []InfoAppliedOnce
<1>1. Init => InfoInv
  <2> SUFFICES ASSUME Init PROVE InfoInv
    OBVIOUS
  <2>1. \A g \in Goals : mailbox[g] = <<>> /\ pending[g] = {} /\ batch[g] = {} /\ spec[g] = {}
    BY DEF Init
  <2>2. \A g \in Goals : DOMAIN mailbox[g] = {}
    BY SMT, <2>1
  <2>3. \A g \in Goals, p \in Places, i \in Infos : ~ Holds(g, p, i)
    BY <2>1, <2>2 DEF Holds
  <2> QED
    BY <2>2, <2>3 DEF InfoInv, NoDuplicates, OnePlace, WasRead
<1>2. InfoInv => InfoAppliedOnce
  <2> SUFFICES ASSUME InfoInv, NEW i \in Infos
               PROVE  Cardinality({p \in Goals \X Places : Holds(p[1], p[2], i)}) <= 1
    BY DEF InfoAppliedOnce
  <2> DEFINE S == {p \in Goals \X Places : Holds(p[1], p[2], i)}
  <2>1. \A p, q \in S : p = q
    BY SMT DEF InfoInv, OnePlace
  <2>2. S = {} \/ \E p \in S : S = {p}
    BY SMT, <2>1
  <2> HIDE DEF S
  <2>3. Cardinality(S) = 0 \/ Cardinality(S) = 1
    BY <2>2, FS_EmptySet, FS_Singleton
  <2>4. Cardinality(S) <= 1
    BY SMT, <2>3
  <2> QED
    BY <2>4 DEF S
<1> QED
  BY <1>1, <1>2, InfoStep, AlwaysIInv, PTL DEF Spec
============================================================================

-------------------------- MODULE WorkerRunProofs ---------------------------
(***************************************************************************)
(* For every number of attempts and of runs of the program and every set   *)
(* of gate steps: what a worker has closed, what its result means, and     *)
(* that a task given to a human is left alone.                             *)
(***************************************************************************)
EXTENDS WorkerRun, TLAPS

Starting == {"start", "audit", "policy", "halt", "signer", "create", "open"}
Waiting  == {"select", "join"}
Closing  == {"close", "seal", "teardown", "save"}
Working  == {"inside", "execute", "verify", "failed", "mark", "advance", "push",
             "pullRequest", "finish"}

(* The types the proof needs.                                              *)
Types ==
    /\ main \in Starting \cup Waiting \cup Closing \cup Ended
    /\ loop \in Working \cup {"none", "done"}
    /\ sink \in {"none", "open", "sealed"}
    /\ record \in Records

(* The chain is one of events while no append was lost.                    *)
Events == {"decision", "pick", "publish", "escalate", "finish failed", "finish completed"}
ChainInv == lost \in BOOLEAN /\ (~ lost => chain \in Seq(Events))

(***************************************************************************)
(* The inductive invariant, stage by stage.  The goroutine of the loop     *)
(* works only while Run waits for it.                                      *)
(***************************************************************************)
LoopInv ==
    /\ main \in Starting => loop = "none"
    /\ main \notin Waiting => loop \in {"none", "done"}

(* What the gate, the push and the pull request have established for the   *)
(* steps after them, and what all of it is worth once the loop has ended   *)
(* without an error.                                                       *)
Succeeded ==
    /\ gateOK /\ published = "pr"
    /\ sink # "none" /\ ~ lost => chain # <<>> /\ chain[Len(chain)] = "finish completed"

LoopSuccess ==
    /\ loop \in {"advance", "push", "pullRequest", "finish"} => gateOK
    /\ loop = "finish" => published = "pr"
    /\ loop = "done" /\ ~ loopErr => Succeeded

(* The box, the record, the sink, the policy's decision and the signature  *)
(* at each stage.                                                          *)
StageInv ==
    /\ main \in Starting \ {"open"} => box = "none"
    /\ main \in Starting \cup Waiting \cup {"close", "seal"} => sink # "sealed"
    /\ main \in {"start", "audit"} => sink = "none"
    /\ main \in {"start", "audit", "policy"} => decision = "none"
    /\ main = "halt" => decision \in Halting
    /\ main \in Starting => record = "none"
    /\ main \in Waiting \cup {"close"} => record \in {"none", "open"}
    /\ main = "join" => err # "nil"
    /\ main \in Closing /\ err = "nil" => loop = "done" /\ ~ loopErr
    /\ main \in {"seal", "teardown", "save"} /\ err = "nil" => record \in {"none", "completed"}
    /\ main = "save" /\ err = "nil" => box = "down"
    /\ signed => /\ main \in {"teardown", "save"} \cup Ended
                 /\ SignedIsSuccess
    /\ hook => main = "returned" /\ HookMeansPaused

(* A listed task that was picked is ready until it is given to a human,    *)
(* which ends the run.                                                     *)
ReadyInv ==
    ~ dispatched /\ (main \in Starting \ {"start"} \/ loop \in Working) => status = "ready"

RunInv == Types /\ ChainInv /\ LoopInv /\ LoopSuccess /\ StageInv /\ ReadyInv /\ NilMeansSettled

(* The leaves are Zenon's, but for the ones that say otherwise.            *)
USE ZenonT(30)

(* An append to the audit chain: without a sink nothing; with one, what    *)
(* was appended is at the end of the chain unless something was lost.      *)
LEMMA Emitted ==
    ASSUME NEW events \in Seq(Events), events # <<>>, lost \in BOOLEAN,
           ~ lost => chain \in Seq(Events), emitAudit(events)
    PROVE  /\ lost' \in BOOLEAN
           /\ ~ lost' => chain' \in Seq(Events)
           /\ sink = "open" /\ ~ lost' => chain' # <<>> /\ chain'[Len(chain')] = events[Len(events)]
<1>1. CASE sink = "open"
  <2>1. PICK got : chain' = chain \o got /\ lost' = (lost \/ got # events)
    BY <1>1 DEF emitAudit
  <2>2. lost' \in BOOLEAN /\ (~ lost' => got = events /\ ~ lost)
    BY <2>1
  <2>3. ASSUME ~ lost'
        PROVE  chain' \in Seq(Events) /\ chain' # <<>> /\ chain'[Len(chain')] = events[Len(events)]
    <3>1. chain' = chain \o events /\ chain \in Seq(Events)
      BY <2>1, <2>2, <2>3
    <3> QED
      BY SMT, <3>1
  <2> QED
    BY <2>2, <2>3
<1>2. CASE sink # "open"
  BY <1>2 DEF emitAudit
<1> QED
  BY <1>1, <1>2

(* A sequence of one event.                                               *)
LEMMA Single ==
    ASSUME NEW e \in Events
    PROVE  <<e>> \in Seq(Events) /\ <<e>> # <<>>
  BY SMT

(* The last event of a run that published is the last of its chain.       *)
LEMMA FinishEmitted ==
    ASSUME ChainInv, emitAudit(<<"finish completed">>)
    PROVE  sink = "open" /\ ~ lost' => chain' # <<>> /\ chain'[Len(chain')] = "finish completed"
<1> DEFINE events == <<"finish completed">>
<1>1. events \in Seq(Events) /\ events # <<>>
  BY Single DEF Events
<1>2. Len(events) = 1
  OBVIOUS
<1>3. events[1] = "finish completed"
  OBVIOUS
<1>4. emitAudit(events)
  OBVIOUS
<1> HIDE DEF events
<1> QED
  BY <1>1, <1>2, <1>3, <1>4, Emitted DEF ChainInv

(* What reaches the chain is events.                                      *)
LEMMA ChainStep ==
    ASSUME ChainInv, [Next]_vars
    PROVE  ChainInv'
<1>1. ASSUME NEW events \in Seq(Events), events # <<>>, emitAudit(events)
      PROVE  ChainInv'
  BY <1>1, Emitted DEF ChainInv
<1>2. ASSUME UNCHANGED <<chain, lost>>
      PROVE  ChainInv'
  BY <1>2 DEF ChainInv
<1>3. /\ \A e \in Events : <<e>> \in Seq(Events) /\ <<e>> # <<>>
      /\ <<"escalate", "finish failed">> \in Seq(Events) /\ <<"escalate", "finish failed">> # <<>>
  BY SMT DEF Events
<1>4. CASE decideGate
  <2>1. emitAudit(<<"decision">>) \/ UNCHANGED <<chain, lost>>
    BY SMT, <1>4 DEF decideGate
  <2> QED
    BY <1>1, <1>2, <1>3, <2>1 DEF Events
<1>5. CASE RunInside \/ Advance \/ Finish
  <2>1. \E e \in Events : emitAudit(<<e>>)
    BY <1>5 DEF RunInside, Advance, Finish, Events
  <2> QED
    BY <1>1, <1>3, <2>1
<1>6. CASE markNeedsHuman
  <2>1. emitAudit(<<"escalate", "finish failed">>) \/ UNCHANGED <<chain, lost>>
    BY <1>6 DEF markNeedsHuman, WriteStatus
  <2> QED
    BY <1>1, <1>2, <1>3, <2>1
<1>7. CASE Restart
  <2>1. chain' = <<>> /\ lost' \in BOOLEAN
    BY <1>7 DEF Restart
  <2>2. chain' \in Seq(Events)
    BY SMT, <2>1
  <2> QED
    BY <2>1, <2>2 DEF ChainInv
<1>8. CASE Assemble \/ newAuditSink \/ Halt \/ newCheckpointSigner \/ Create \/ openRunRecord
           \/ SelectResult \/ SelectCancel \/ SelectTimeout \/ killAndJoin \/ closeRunRecord
           \/ sealSink \/ Teardown \/ SaveState \/ ExecutorReturns \/ Verify \/ Retry \/ Push
           \/ PullRequest \/ Cancel \/ Timer \/ Crash \/ UNCHANGED vars
  <2>1. UNCHANGED <<chain, lost>>
    BY <1>8 DEF Assemble, newAuditSink, Halt, newCheckpointSigner, Create, openRunRecord,
       SelectResult, SelectCancel, SelectTimeout, killAndJoin, closeRunRecord, sealSink, Teardown,
       SaveState, ExecutorReturns, Verify, Retry, Push, PullRequest, Cancel, Timer, Crash, vars, auditVars
  <2> QED
    BY <1>2, <2>1
<1> QED
  BY <1>4, <1>5, <1>6, <1>7, <1>8 DEF Next, RunStep, LoopStep

(* The types are kept.                                                     *)
LEMMA TypesStep ==
    ASSUME Types, LoopInv, [Next]_vars
    PROVE  Types'
<1> USE DEF Types, LoopInv, Records, Starting, Waiting, Closing, Working, Ended
<1> USE DEF mainVars, loopVars, ctxVars, auditVars, boxVars, gateVars, task, world, loopOnly
<1>1. CASE Assemble
  BY <1>1 DEF Assemble, Pick, Return
<1>2. CASE newAuditSink \/ newCheckpointSigner
  BY <1>2 DEF newAuditSink, newCheckpointSigner, Return
<1>3. CASE decideGate
  BY SMT, <1>3 DEF decideGate, Return
<1>4. CASE Halt
  BY <1>4 DEF Halt, WriteStatus, Return
<1>5. CASE Create \/ openRunRecord
  BY <1>5 DEF Create, openRunRecord
<1>6. CASE SelectResult \/ SelectCancel \/ SelectTimeout \/ killAndJoin
  BY <1>6 DEF SelectResult, SelectCancel, SelectTimeout, killAndJoin
<1>7. CASE closeRunRecord
  BY <1>7 DEF closeRunRecord
<1>8. CASE sealSink
  BY <1>8 DEF sealSink
<1>9. CASE Teardown \/ SaveState
  BY <1>9 DEF Teardown, SaveState, Return
<1>10. CASE RunInside \/ ExecutorReturns \/ Verify \/ Retry
  BY <1>10 DEF RunInside, ExecutorReturns, Verify, Retry, Attempt, Done
<1>11. CASE markNeedsHuman
  BY <1>11 DEF markNeedsHuman, WriteStatus, Done
<1>12. CASE Advance \/ Push \/ PullRequest
  BY <1>12 DEF Advance, Push, PullRequest, Done
<1>13. CASE Finish
  BY <1>13 DEF Finish, Done
<1>14. CASE Cancel \/ Timer
  BY SMT, <1>14 DEF Cancel, Timer
<1>15. CASE Crash
  BY <1>15 DEF Crash
<1>16. CASE Restart
  BY <1>16 DEF Restart
<1>17. CASE UNCHANGED vars
  BY <1>17 DEF vars
<1> QED
  BY <1>1, <1>2, <1>3, <1>4, <1>5, <1>6, <1>7, <1>8, <1>9, <1>10, <1>11, <1>12, <1>13, <1>14, <1>15, <1>16, <1>17 DEF Next, RunStep, LoopStep

(* The loop's goroutine is started by Run and joined by it.                *)
LEMMA LoopStepInv ==
    ASSUME Types, LoopInv, [Next]_vars
    PROVE  LoopInv'
<1> USE DEF Types, LoopInv, Starting, Waiting, Closing, Working, Ended
<1> USE DEF mainVars, loopVars, ctxVars, auditVars, boxVars, gateVars, task, world, loopOnly
<1>1. CASE Assemble
  BY <1>1 DEF Assemble, Pick, Return
<1>2. CASE newAuditSink \/ newCheckpointSigner
  BY <1>2 DEF newAuditSink, newCheckpointSigner, Return
<1>3. CASE decideGate
  BY <1>3 DEF decideGate, Return
<1>4. CASE Halt
  BY <1>4 DEF Halt, WriteStatus, Return
<1>5. CASE Create \/ openRunRecord
  BY <1>5 DEF Create, openRunRecord
<1>6. CASE SelectResult \/ SelectCancel \/ SelectTimeout \/ killAndJoin
  BY <1>6 DEF SelectResult, SelectCancel, SelectTimeout, killAndJoin
<1>7. CASE closeRunRecord
  BY <1>7 DEF closeRunRecord
<1>8. CASE sealSink
  BY <1>8 DEF sealSink
<1>9. CASE Teardown \/ SaveState
  BY <1>9 DEF Teardown, SaveState, Return
<1>10. CASE RunInside \/ ExecutorReturns \/ Verify \/ Retry
  BY <1>10 DEF RunInside, ExecutorReturns, Verify, Retry, Attempt, Done
<1>11. CASE markNeedsHuman
  BY <1>11 DEF markNeedsHuman, WriteStatus, Done
<1>12. CASE Advance \/ Push \/ PullRequest
  BY <1>12 DEF Advance, Push, PullRequest, Done
<1>13. CASE Finish
  BY <1>13 DEF Finish, Done
<1>14. CASE Cancel \/ Timer
  BY <1>14 DEF Cancel, Timer
<1>15. CASE Crash
  BY <1>15 DEF Crash
<1>16. CASE Restart
  BY <1>16 DEF Restart
<1>17. CASE UNCHANGED vars
  BY <1>17 DEF vars
<1> QED
  BY <1>1, <1>2, <1>3, <1>4, <1>5, <1>6, <1>7, <1>8, <1>9, <1>10, <1>11, <1>12, <1>13, <1>14, <1>15, <1>16, <1>17 DEF Next, RunStep, LoopStep

(* A loop that ends without an error has published what the gate passed.   *)
LEMMA SuccessStep ==
    ASSUME Types, ChainInv, LoopInv, LoopSuccess, StageInv, [Next]_vars
    PROVE  LoopSuccess'
<1> USE DEF Types, LoopInv, LoopSuccess, Succeeded, StageInv, Starting, Waiting, Closing, Working, Ended
<1> USE DEF mainVars, loopVars, ctxVars, auditVars, boxVars, gateVars, task, world, loopOnly
<1>1. CASE Assemble
  BY <1>1 DEF Assemble, Pick, Return
<1>2. CASE newAuditSink \/ newCheckpointSigner
  BY <1>2 DEF newAuditSink, newCheckpointSigner, Return
<1>3. CASE decideGate
  BY <1>3 DEF decideGate, Return
<1>4. CASE Halt
  BY <1>4 DEF Halt, WriteStatus, Return
<1>5. CASE Create \/ openRunRecord
  BY <1>5 DEF Create, openRunRecord
<1>6. CASE SelectResult \/ SelectCancel \/ SelectTimeout \/ killAndJoin
  BY <1>6 DEF SelectResult, SelectCancel, SelectTimeout, killAndJoin
<1>7. CASE closeRunRecord
  BY <1>7 DEF closeRunRecord
<1>8. CASE sealSink
  BY <1>8 DEF sealSink
<1>9. CASE Teardown \/ SaveState
  BY <1>9 DEF Teardown, SaveState, Return
<1>10. CASE RunInside \/ ExecutorReturns \/ Verify \/ Retry
  BY <1>10 DEF RunInside, ExecutorReturns, Verify, Retry, Attempt, Done
<1>11. CASE markNeedsHuman
  BY <1>11 DEF markNeedsHuman, WriteStatus, Done
<1>12. CASE Advance \/ Push \/ PullRequest
  BY <1>12 DEF Advance, Push, PullRequest, Done
<1>13. CASE Finish
  <2>1. emitAudit(<<"finish completed">>) /\ sink # "sealed"
    BY <1>13 DEF Finish, StageInv, LoopInv
  <2>2. sink # "none" /\ ~ lost' => chain' # <<>> /\ chain'[Len(chain')] = "finish completed"
    BY <2>1, FinishEmitted
  <2> QED
    BY <1>13, <2>2 DEF Finish, Done
<1>14. CASE Cancel \/ Timer
  BY <1>14 DEF Cancel, Timer
<1>15. CASE Crash
  BY <1>15 DEF Crash
<1>16. CASE Restart
  BY <1>16 DEF Restart
<1>17. CASE UNCHANGED vars
  BY <1>17 DEF vars
<1> QED
  BY <1>1, <1>2, <1>3, <1>4, <1>5, <1>6, <1>7, <1>8, <1>9, <1>10, <1>11, <1>12, <1>13, <1>14, <1>15, <1>16, <1>17 DEF Next, RunStep, LoopStep

(* The stages of Run follow each other.                                    *)
LEMMA StageStep ==
    ASSUME Types, LoopInv, LoopSuccess, StageInv, [Next]_vars
    PROVE  StageInv'
<1> USE DEF Types, StageInv, LoopInv, LoopSuccess, Succeeded, SignedIsSuccess, HookMeansPaused, Halting, Records,
            Starting, Waiting, Closing, Working, Ended
<1> USE DEF mainVars, loopVars, ctxVars, auditVars, boxVars, gateVars, task, world, loopOnly
<1>1. CASE Assemble
  BY <1>1 DEF Assemble, Pick, Return
<1>2. CASE newAuditSink
  BY <1>2 DEF newAuditSink, Return
<1>3. CASE newCheckpointSigner
  BY <1>3 DEF newCheckpointSigner, Return
<1>4. CASE decideGate
  <2>1. /\ main = "policy" /\ ~ signed /\ ~ hook
        /\ UNCHANGED <<loopVars, sink, boxVars, hook, published>>
    BY <1>4 DEF decideGate
  <2>2. \/ main' = "halt" /\ decision' \in Halting
        \/ main' = "signer"
        \/ main' = "returned" /\ err' = "error"
    BY ONLY <1>4, SMT DEF decideGate, Return
  <2> QED
    BY <2>1, <2>2
<1>5. CASE Halt
  <2>1. CASE UNCHANGED <<hook, status>> /\ Return("error")
    BY <1>5, <2>1 DEF Halt, Return
  <2>2. CASE /\ status' = "needs-human" /\ Return("nil")
             /\ hook' \in IF decision = "approval" THEN BOOLEAN ELSE {FALSE}
    <3>1. hook' => decision = "approval"
      BY <2>2
    <3> QED
      BY <1>5, <2>2, <3>1 DEF Halt, Return
  <2> QED
    BY <1>5, <2>1, <2>2 DEF Halt, WriteStatus
<1>6. CASE Create
  BY <1>6 DEF Create
<1>7. CASE openRunRecord
  BY <1>7 DEF openRunRecord
<1>8. CASE SelectResult
  BY <1>8 DEF SelectResult
<1>9. CASE SelectCancel
  BY <1>9 DEF SelectCancel
<1>10. CASE SelectTimeout
  BY <1>10 DEF SelectTimeout
<1>11. CASE killAndJoin
  <2>1. /\ main = "join" /\ main' = "close" /\ err' = err /\ loop = "done" /\ err # "nil"
        /\ UNCHANGED <<loopVars, auditVars, boxVars, gateVars, task, world>>
    BY <1>11 DEF killAndJoin
  <2> QED
    BY <2>1
<1>12. CASE closeRunRecord
  <2>1. /\ main = "close" /\ main' = "seal" /\ ~ signed /\ ~ hook
        /\ UNCHANGED <<loopVars, auditVars, box, signed, gateVars, task, world>>
        /\ err' = "nil" => err = "nil"
    BY <1>12 DEF closeRunRecord
  <2>2. err' = "nil" => record' \in {"none", "completed"}
    BY <1>12 DEF closeRunRecord
  <2> QED
    BY <2>1, <2>2
<1>13. CASE sealSink
  BY <1>13 DEF sealSink
<1>14. CASE Teardown
  BY <1>14 DEF Teardown
<1>15. CASE SaveState
  BY <1>15 DEF SaveState, Return
<1>16. CASE RunInside
  BY <1>16 DEF RunInside
<1>17. CASE ExecutorReturns
  BY <1>17 DEF ExecutorReturns, Done
<1>18. CASE Verify
  BY <1>18 DEF Verify
<1>19. CASE Retry
  BY <1>19 DEF Retry, Done
<1>20. CASE markNeedsHuman
  BY <1>20 DEF markNeedsHuman, WriteStatus, Done
<1>21. CASE Advance
  BY <1>21 DEF Advance
<1>22. CASE Push
  BY <1>22 DEF Push, Done
<1>23. CASE PullRequest
  BY <1>23 DEF PullRequest, Done
<1>24. CASE Finish
  BY <1>24 DEF Finish, Done
<1>25. CASE Cancel
  BY <1>25 DEF Cancel
<1>26. CASE Timer
  BY <1>26 DEF Timer
<1>27. CASE Crash
  BY <1>27 DEF Crash
<1>28. CASE Restart
  BY <1>28 DEF Restart
<1>29. CASE UNCHANGED vars
  BY <1>29 DEF vars
<1> QED
  BY <1>1, <1>2, <1>3, <1>4, <1>5, <1>6, <1>7, <1>8, <1>9, <1>10, <1>11, <1>12, <1>13, <1>14, <1>15, <1>16, <1>17, <1>18, <1>19, <1>20, <1>21, <1>22, <1>23, <1>24, <1>25, <1>26, <1>27, <1>28, <1>29 DEF Next, RunStep, LoopStep

(* A picked task stays ready until the run gives it to a human.            *)
LEMMA ReadyStep ==
    ASSUME Types, LoopInv, ReadyInv, [Next]_vars
    PROVE  ReadyInv'
<1> USE DEF Types, ReadyInv, LoopInv, Starting, Waiting, Closing, Working, Ended
<1> USE DEF mainVars, loopVars, ctxVars, auditVars, boxVars, gateVars, task, world, loopOnly
<1>1. CASE Assemble
  BY <1>1 DEF Assemble, Pick, Return
<1>2. CASE newAuditSink \/ newCheckpointSigner
  BY <1>2 DEF newAuditSink, newCheckpointSigner, Return
<1>3. CASE decideGate
  BY <1>3 DEF decideGate, Return
<1>4. CASE Halt
  BY <1>4 DEF Halt, WriteStatus, Return
<1>5. CASE Create \/ openRunRecord
  BY <1>5 DEF Create, openRunRecord
<1>6. CASE SelectResult \/ SelectCancel \/ SelectTimeout \/ killAndJoin
  BY <1>6 DEF SelectResult, SelectCancel, SelectTimeout, killAndJoin
<1>7. CASE closeRunRecord
  BY <1>7 DEF closeRunRecord
<1>8. CASE sealSink
  BY <1>8 DEF sealSink
<1>9. CASE Teardown \/ SaveState
  BY <1>9 DEF Teardown, SaveState, Return
<1>10. CASE RunInside \/ ExecutorReturns \/ Verify \/ Retry
  BY <1>10 DEF RunInside, ExecutorReturns, Verify, Retry, Attempt, Done
<1>11. CASE markNeedsHuman
  BY <1>11 DEF markNeedsHuman, WriteStatus, Done
<1>12. CASE Advance \/ Push \/ PullRequest
  BY <1>12 DEF Advance, Push, PullRequest, Done
<1>13. CASE Finish
  BY <1>13 DEF Finish, Done
<1>14. CASE Cancel \/ Timer
  BY <1>14 DEF Cancel, Timer
<1>15. CASE Crash
  BY <1>15 DEF Crash
<1>16. CASE Restart
  BY <1>16 DEF Restart
<1>17. CASE UNCHANGED vars
  BY <1>17 DEF vars
<1> QED
  BY <1>1, <1>2, <1>3, <1>4, <1>5, <1>6, <1>7, <1>8, <1>9, <1>10, <1>11, <1>12, <1>13, <1>14, <1>15, <1>16, <1>17 DEF Next, RunStep, LoopStep

(* Run returns nil for its three reasons only.                             *)
LEMMA NilStep ==
    ASSUME Types, LoopInv, LoopSuccess, StageInv, NilMeansSettled, [Next]_vars
    PROVE  NilMeansSettled'
<1> USE DEF Types, StageInv, LoopInv, LoopSuccess, Succeeded, NilMeansSettled, Starting, Waiting, Closing, Working, Ended
<1> USE DEF mainVars, loopVars, ctxVars, auditVars, boxVars, gateVars, task, world, loopOnly
<1>1. CASE Assemble
  BY <1>1 DEF Assemble, Pick, Return
<1>2. CASE newAuditSink \/ newCheckpointSigner
  BY <1>2 DEF newAuditSink, newCheckpointSigner, Return
<1>3. CASE decideGate
  BY SMT, <1>3 DEF decideGate, Return
<1>4. CASE Halt
  BY <1>4 DEF Halt, WriteStatus, Return
<1>5. CASE Create \/ openRunRecord
  BY <1>5 DEF Create, openRunRecord
<1>6. CASE SelectResult \/ SelectCancel \/ SelectTimeout \/ killAndJoin
  BY <1>6 DEF SelectResult, SelectCancel, SelectTimeout, killAndJoin
<1>7. CASE closeRunRecord
  BY <1>7 DEF closeRunRecord
<1>8. CASE sealSink
  BY <1>8 DEF sealSink
<1>9. CASE Teardown \/ SaveState
  BY <1>9 DEF Teardown, SaveState, Return
<1>10. CASE RunInside \/ ExecutorReturns \/ Verify \/ Retry
  BY <1>10 DEF RunInside, ExecutorReturns, Verify, Retry, Attempt, Done
<1>11. CASE markNeedsHuman
  BY <1>11 DEF markNeedsHuman, WriteStatus, Done
<1>12. CASE Advance \/ Push \/ PullRequest
  BY <1>12 DEF Advance, Push, PullRequest, Done
<1>13. CASE Finish
  BY <1>13 DEF Finish, Done
<1>14. CASE Cancel \/ Timer
  BY <1>14 DEF Cancel, Timer
<1>15. CASE Crash
  BY <1>15 DEF Crash
<1>16. CASE Restart
  BY <1>16 DEF Restart
<1>17. CASE UNCHANGED vars
  BY <1>17 DEF vars
<1> QED
  BY <1>1, <1>2, <1>3, <1>4, <1>5, <1>6, <1>7, <1>8, <1>9, <1>10, <1>11, <1>12, <1>13, <1>14, <1>15, <1>16, <1>17 DEF Next, RunStep, LoopStep

(* The invariant holds from the start and is kept.                         *)
LEMMA RunInvStart ==
    ASSUME Init
    PROVE  RunInv
<1>1. ChainInv
  <2>1. <<>> \in Seq(Events)
    BY SMT
  <2> QED
    BY <2>1 DEF Init, ChainInv
<1> QED
  BY <1>1 DEF Init, RunInv, Types, LoopInv, LoopSuccess, StageInv, ReadyInv, NilMeansSettled,
     Starting, Waiting, Closing, Working, Ended, Records

(* Every step of the run, its loop and its hooks keeps the invariant.      *)
LEMMA RunInvStep ==
    ASSUME RunInv, [Next]_vars
    PROVE  RunInv'
BY ChainStep, TypesStep, LoopStepInv, SuccessStep, StageStep, ReadyStep, NilStep DEF RunInv

-----------------------------------------------------------------------------
(* The record, the chain and the box are closed only after the goroutine   *)
(* of the loop has ended.                                                  *)
THEOREM Joined == Spec => []LoopJoined
<1>1. RunInv => LoopJoined
  BY DEF RunInv, LoopInv, LoopJoined, Waiting
<1> QED
  BY <1>1, RunInvStart, RunInvStep, PTL DEF Spec

(* A nil result of Run is one of its three kinds.                          *)
THEOREM NilSettled == Spec => []NilMeansSettled
<1>1. RunInv => NilMeansSettled
  BY DEF RunInv
<1> QED
  BY <1>1, RunInvStart, RunInvStep, PTL DEF Spec

(* A signed checkpoint is one of a run that succeeded: the pull request    *)
(* exists, the record and the chain, where there is one, say completed.    *)
THEOREM SignedSuccess == Spec => []SignedIsSuccess
<1>1. RunInv => SignedIsSuccess
  BY DEF RunInv, StageInv, SignedIsSuccess
<1> QED
  BY <1>1, RunInvStart, RunInvStep, PTL DEF Spec

(* The approval hook was fired for a task that a human already has.        *)
THEOREM HookPaused == Spec => []HookMeansPaused
<1>1. RunInv => HookMeansPaused
  BY DEF RunInv, StageInv, HookMeansPaused
<1> QED
  BY <1>1, RunInvStart, RunInvStep, PTL DEF Spec

(* A task that was given to a human is not attempted again.                *)
THEOREM ParkedLeft == Spec => ParkedIsLeft
<1>1. ASSUME RunInv, [Next]_vars, ~ dispatched, status = "needs-human"
      PROVE  usage' = usage
  <2>1. loop \notin Working
    BY <1>1 DEF RunInv, ReadyInv
  <2>2. ~ LoopStep
    BY <2>1 DEF LoopStep, RunInside, ExecutorReturns, Verify, Retry, markNeedsHuman, Advance, Push,
       PullRequest, Finish, Working
  <2>3. CASE RunStep
    <3> USE DEF world
    <3>1. CASE Assemble \/ newAuditSink \/ Halt \/ newCheckpointSigner
      BY <3>1 DEF Assemble, newAuditSink, Halt, newCheckpointSigner
    <3>4. CASE decideGate
      BY <3>4 DEF decideGate
    <3>2. CASE Create \/ openRunRecord \/ SelectResult \/ SelectCancel \/ SelectTimeout
      BY <3>2 DEF Create, openRunRecord, SelectResult, SelectCancel, SelectTimeout
    <3>3. CASE killAndJoin \/ closeRunRecord \/ sealSink \/ Teardown \/ SaveState
      BY <3>3 DEF killAndJoin, closeRunRecord, sealSink, Teardown, SaveState
    <3> QED
      BY <2>3, <3>1, <3>2, <3>3, <3>4 DEF RunStep
  <2>4. CASE Cancel \/ Timer \/ Crash \/ Restart \/ UNCHANGED vars
    BY <2>4 DEF Cancel, Timer, Crash, Restart, vars, world
  <2> QED
    BY <1>1, <2>2, <2>3, <2>4 DEF Next
<1>2. RunInv /\ [Next]_vars => [~ dispatched /\ status = "needs-human" => usage' = usage]_vars
  BY <1>1
<1> QED
  BY <1>2, RunInvStart, RunInvStep, PTL DEF Spec, ParkedIsLeft
=============================================================================

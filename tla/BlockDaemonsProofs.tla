------------------------- MODULE BlockDaemonsProofs -------------------------
(***************************************************************************)
(* Proofs of the safety invariants of BlockDaemons, for any number of      *)
(* goals, recipes and crashes, with configured sockets or with sockets of  *)
(* the process, and whichever daemon binds, loses or leaves its path when. *)
(***************************************************************************)
EXTENDS BlockDaemons, TLAPS

Labels == Ended \cup {"plan", "cfgExec", "cfgReady", "spawnPlan", "askPlan", "spawnWorker",
             "askWorker", "blocked", "seal", "vaultExec", "vaultReady", "put", "resolve",
             "gateExec", "gateReady", "decide", "gateStop", "box", "halted", "vaultStop",
             "result"}

Types ==
    /\ recipe \in [Goals -> Recipes] /\ pc \in [Goals -> Labels]
    /\ mu \in Goals \cup {None} /\ scoped \in Goals \cup {None}
    /\ alive \subseteq Daemons
    /\ crashes \in 0..MaxCrashes
    /\ DOMAIN by = Goals /\ DOMAIN halt = Goals
    /\ DOMAIN said = Goals /\ \A g \in Goals : DOMAIN said[g] = Questions

(* The goal that configures the engine holds the lock, under which no      *)
(* engine is published; the daemons are of this process or an earlier one. *)
LockInv ==
    /\ \A g \in Goals : pc[g] \in {"cfgExec", "cfgReady"} => mu = g
    /\ mu # None => scoped = None
    /\ \A d \in alive : d[3] <= crashes

(* From the decision on the spawn to the run of the box.                   *)
Dispatched == {"seal", "vaultExec", "vaultReady", "put", "resolve", "gateExec", "gateReady",
               "decide", "gateStop", "box"}

(* What was decided stays decided: a goal is past each of its questions    *)
(* with an engine's "allow" only.                                          *)
GateAt(g) ==
    /\ pc[g] \in Dispatched \cup {"spawnWorker", "askWorker"} =>
          g \in resumed \/ said[g]["plan"] = "allow"
    /\ pc[g] \in Dispatched => said[g]["worker"] = "allow"
    /\ pc[g] = "gateStop" /\ halt[g] = "none" => said[g]["gate"] = "allow"
    /\ pc[g] = "box" => said[g]["gate"] = "allow"

GateInv == \A g \in Goals : GateAt(g)

RecipeInv == Base # {} => \A g \in Goals : pc[g] \in Dispatched => recipe[g] \in Base

BlockInv == Types /\ LockInv /\ GateInv /\ RecipeInv /\ DaemonsAreOwned

(* The leaves are Zenon's, but for the ones that say otherwise.            *)
USE ZenonT(30) DEF heard

(* The parts of a daemon's name.                                           *)
LEMMA DaemonParts ==
    ASSUME NEW d \in Daemons
    PROVE  d[1] \in Kinds /\ d[2] \in Goals /\ d[3] \in 0..MaxCrashes /\ d = <<d[1], d[2], d[3]>>
  BY SMT DEF Daemons

(* A daemon this process starts is named by its kind, its goal and it.     *)
LEMMA MineParts ==
    ASSUME Types, NEW k \in Kinds, NEW g \in Goals
    PROVE  Mine(k, g) \in Daemons /\ Mine(k, g)[1] = k /\ Mine(k, g)[2] = g /\ Mine(k, g)[3] = crashes
  BY DEF Mine, Daemons, Types

(* Decide is fail-closed: it allows what an engine said "allow" to, which  *)
(* for a recipe is one of a plan that allows it.                           *)
LEMMA AllowIsAnswered ==
    ASSUME NEW k, NEW r, NEW d \in Decide(k, r)
    PROVE  /\ d.answer # "none"
           /\ d.answer = "allow" => d.raw = "allow"
           /\ d.answer = "allow" => r = "task" \/ r \in effectiveAllow(Serving(k)[2])
<1>1. CASE d = [by |-> None, raw |-> "error", answer |-> IF "error" = "unknown" THEN "deny" ELSE "error"]
  BY SMT, <1>1
<1>2. ASSUME NEW a \in Answers(Serving(k), r),
             d = [by |-> Serving(k), raw |-> a, answer |-> IF a = "unknown" THEN "deny" ELSE a]
      PROVE  /\ d.answer # "none"
             /\ d.answer = "allow" => d.raw = "allow"
             /\ d.answer = "allow" => r = "task" \/ r \in effectiveAllow(Serving(k)[2])
  <2>1. a \in {"allow", "deny", "require", "unknown"}
    BY <1>2 DEF Answers
  <2>2. a = "allow" => r = "task" \/ r \in effectiveAllow(Serving(k)[2])
    BY <1>2 DEF Answers
  <2> QED
    BY <1>2, <2>1, <2>2
<1> QED
  BY <1>1, <1>2 DEF Decide

(* An answer is heard by the goal that asked.                              *)
LEMMA HearSays ==
    ASSUME Types, NEW g \in Goals, NEW q \in Questions, NEW d, Hear(g, q, d)
    PROVE  /\ said'[g][q] = IF d.raw = "allow" THEN "allow" ELSE "no"
           /\ \A p \in Questions \ {q} : said'[g][p] = said[g][p]
           /\ \A h \in Goals \ {g} : said'[h] = said[h]
           /\ DOMAIN by' = Goals
           /\ DOMAIN said' = Goals /\ \A h \in Goals : DOMAIN said'[h] = Questions
  BY DEF Hear, Types

(* Every step keeps the types.                                             *)
LEMMA TypesStep ==
    ASSUME Types, [Next]_vars
    PROVE  Types'
<1>0. \A g \in Goals : Mine("plan", g) \in Daemons /\ Mine("gate", g) \in Daemons /\ Mine("vault", g) \in Daemons
  BY MineParts DEF Kinds
<1> USE BlockAssumption DEF Go, Rest, Fixed, Types, Labels, Ended
<1>1. ASSUME NEW g \in Goals, ConfigureForPlan(g) PROVE Types'
  BY <1>1, <1>0 DEF ConfigureForPlan, Stop, policy, procs
<1>2. ASSUME NEW g \in Goals, startPolicyDaemon(g) PROVE Types'
  BY <1>2, <1>0 DEF startPolicyDaemon, Exec, procs
<1>3. ASSUME NEW g \in Goals, Configured(g) PROVE Types'
  BY <1>3, <1>0 DEF Configured, waitForReady, Stop, procs
<1>4. ASSUME NEW g \in Goals, readClient(g) PROVE Types'
  BY <1>4, <1>0 DEF readClient, policy, procs
<1>5. ASSUME NEW g \in Goals, decideSpawn(g) PROVE Types'
  <2>1. "plan" \in Questions /\ \E d : Hear(g, "plan", d)
    BY <1>5 DEF decideSpawn, Questions
  <2>2. /\ DOMAIN by' = Goals
        /\ DOMAIN said' = Goals /\ \A h \in Goals : DOMAIN said'[h] = Questions
    BY <2>1, HearSays
  <2> QED
    BY <1>5, <1>0, <2>2 DEF decideSpawn, policy, procs
<1>6. ASSUME NEW g \in Goals, decideSpawnWorker(g) PROVE Types'
  <2>1. "worker" \in Questions /\ \E d : Hear(g, "worker", d)
    BY <1>6 DEF decideSpawnWorker, Questions
  <2>2. /\ DOMAIN by' = Goals
        /\ DOMAIN said' = Goals /\ \A h \in Goals : DOMAIN said'[h] = Questions
    BY <2>1, HearSays
  <2> QED
    BY <1>6, <1>0, <2>2 DEF decideSpawnWorker, policy, procs
<1>7. ASSUME NEW g \in Goals, ReevaluateBlocked(g) PROVE Types'
  BY <1>7, <1>0 DEF ReevaluateBlocked, policy, procs, replan, WriteStatus
<1>8. ASSUME NEW g \in Goals, DispatchWorkItem(g) PROVE Types'
  BY <1>8, <1>0 DEF DispatchWorkItem, policy, procs, sealAndOpen
<1>9. ASSUME NEW g \in Goals, startVault(g) PROVE Types'
  BY <1>9, <1>0 DEF startVault, policy, Exec, waitForReady, Stop, procs
<1>10. ASSUME NEW g \in Goals, Put(g) PROVE Types'
  BY <1>10, <1>0 DEF Put, policy, procs
<1>11. ASSUME NEW g \in Goals, Resolve(g) PROVE Types'
  BY <1>11, <1>0 DEF Resolve, policy, procs
<1>12. ASSUME NEW g \in Goals, startGate(g) PROVE Types'
  BY <1>12, <1>0 DEF startGate, policy, Exec, waitForReady, Stop, procs
<1>13. ASSUME NEW g \in Goals, decideGate(g) PROVE Types'
  <2>1. "gate" \in Questions /\ \E d : Hear(g, "gate", d)
    BY <1>13 DEF decideGate, Questions
  <2>2. /\ DOMAIN by' = Goals
        /\ DOMAIN said' = Goals /\ \A h \in Goals : DOMAIN said'[h] = Questions
    BY <2>1, HearSays
  <2> QED
    BY <1>13, <1>0, <2>2 DEF decideGate, policy, procs
<1>14. ASSUME NEW g \in Goals, gateStop(g) PROVE Types'
  BY <1>14, <1>0 DEF gateStop, policy, Stop
<1>15. ASSUME NEW g \in Goals, BoxReturns(g) PROVE Types'
  BY <1>15, <1>0 DEF BoxReturns, policy, procs
<1>16. ASSUME NEW g \in Goals, vaultStop(g) PROVE Types'
  BY <1>16, <1>0 DEF vaultStop, policy, Stop
<1>17. ASSUME NEW g \in Goals, DispatchResult(g) PROVE Types'
  BY <1>17, <1>0 DEF DispatchResult, policy, procs, sealAndOpen
<1>18. ASSUME NEW d \in Daemons, Bind(d) PROVE Types'
  BY <1>18, <1>0 DEF Bind, policy
<1>19. ASSUME cleanup PROVE Types'
  BY <1>19, <1>0 DEF cleanup, Stop, procs
<1>20. ASSUME Crash PROVE Types'
  <2>1. pc' \in [Goals -> Labels]
    BY <1>20 DEF Crash
  <2>2. crashes' \in 0..MaxCrashes
    BY ONLY SMT, <1>20, crashes \in 0..MaxCrashes, BlockAssumption DEF Crash
  <2>3. DOMAIN said' = Goals /\ \A g \in Goals : DOMAIN said'[g] = Questions
    BY <1>20 DEF Crash, Unasked
  <2> QED
    BY <1>20, <2>1, <2>2, <2>3 DEF Crash
<1>21. ASSUME UNCHANGED vars PROVE Types'
  BY <1>21 DEF vars, policy, procs
<1> QED
  BY <1>1, <1>2, <1>3, <1>4, <1>5, <1>6, <1>7, <1>8, <1>9, <1>10, <1>11, <1>12, <1>13, <1>14, <1>15, <1>16, <1>17, <1>18, <1>19, <1>20, <1>21 DEF Next, callStep, ownStep

(* The lock of planScopedPolicy is held from the stop of one engine to the *)
(* start of the next.                                                      *)
LEMMA LockStep ==
    ASSUME Types, LockInv, [Next]_vars
    PROVE  LockInv'
<1>0. \A g \in Goals : /\ Mine("plan", g)[3] = crashes /\ Mine("gate", g)[3] = crashes
                        /\ Mine("vault", g)[3] = crashes
  BY MineParts DEF Kinds
<1> USE BlockAssumption DEF Go, Rest, Fixed, Types, LockInv, Labels, Ended
<1>1. ASSUME NEW g \in Goals, ConfigureForPlan(g) PROVE LockInv'
  BY <1>1, <1>0 DEF ConfigureForPlan, Stop, policy, procs
<1>2. ASSUME NEW g \in Goals, startPolicyDaemon(g) PROVE LockInv'
  BY SMT, <1>2, <1>0 DEF startPolicyDaemon, Exec, procs
<1>3. ASSUME NEW g \in Goals, Configured(g) PROVE LockInv'
  BY <1>3, <1>0 DEF Configured, waitForReady, Stop, procs
<1>4. ASSUME NEW g \in Goals, readClient(g) PROVE LockInv'
  BY <1>4, <1>0 DEF readClient, policy, procs
<1>5. ASSUME NEW g \in Goals, decideSpawn(g) PROVE LockInv'
  BY <1>5, <1>0 DEF decideSpawn, policy, procs
<1>6. ASSUME NEW g \in Goals, decideSpawnWorker(g) PROVE LockInv'
  BY <1>6, <1>0 DEF decideSpawnWorker, policy, procs
<1>7. ASSUME NEW g \in Goals, ReevaluateBlocked(g) PROVE LockInv'
  BY <1>7, <1>0 DEF ReevaluateBlocked, policy, procs, replan, WriteStatus
<1>8. ASSUME NEW g \in Goals, DispatchWorkItem(g) PROVE LockInv'
  BY <1>8, <1>0 DEF DispatchWorkItem, policy, procs, sealAndOpen
<1>9. ASSUME NEW g \in Goals, startVault(g) PROVE LockInv'
  BY SMT, <1>9, <1>0 DEF startVault, policy, Exec, waitForReady, Stop, procs
<1>10. ASSUME NEW g \in Goals, Put(g) PROVE LockInv'
  BY <1>10, <1>0 DEF Put, policy, procs
<1>11. ASSUME NEW g \in Goals, Resolve(g) PROVE LockInv'
  BY <1>11, <1>0 DEF Resolve, policy, procs
<1>12. ASSUME NEW g \in Goals, startGate(g) PROVE LockInv'
  BY SMT, <1>12, <1>0 DEF startGate, policy, Exec, waitForReady, Stop, procs
<1>13. ASSUME NEW g \in Goals, decideGate(g) PROVE LockInv'
  BY <1>13, <1>0 DEF decideGate, policy, procs
<1>14. ASSUME NEW g \in Goals, gateStop(g) PROVE LockInv'
  BY <1>14, <1>0 DEF gateStop, policy, Stop
<1>15. ASSUME NEW g \in Goals, BoxReturns(g) PROVE LockInv'
  BY <1>15, <1>0 DEF BoxReturns, policy, procs
<1>16. ASSUME NEW g \in Goals, vaultStop(g) PROVE LockInv'
  BY <1>16, <1>0 DEF vaultStop, policy, Stop
<1>17. ASSUME NEW g \in Goals, DispatchResult(g) PROVE LockInv'
  BY <1>17, <1>0 DEF DispatchResult, policy, procs, sealAndOpen
<1>18. ASSUME NEW d \in Daemons, Bind(d) PROVE LockInv'
  BY <1>18, <1>0 DEF Bind, policy
<1>19. ASSUME cleanup PROVE LockInv'
  BY SMT, <1>19, <1>0 DEF cleanup, Stop, procs
<1>20. ASSUME Crash PROVE LockInv'
  <2>1. \A d \in alive : d[3] \in Int
    BY SMT, DaemonParts
  <2> QED
    BY SMT, <1>20, <2>1 DEF Crash, InFlight
<1>21. ASSUME UNCHANGED vars PROVE LockInv'
  BY <1>21 DEF vars, policy, procs
<1> QED
  BY <1>1, <1>2, <1>3, <1>4, <1>5, <1>6, <1>7, <1>8, <1>9, <1>10, <1>11, <1>12, <1>13, <1>14, <1>15, <1>16, <1>17, <1>18, <1>19, <1>20, <1>21 DEF Next, callStep, ownStep

(* A step of a goal that asks nothing passes no question.                  *)
LEMMA GateKept ==
    ASSUME Types, GateInv, NEW g \in Goals, NEW l, Go(g, l), UNCHANGED <<said, halt, resumed>>,
           l \in Dispatched => pc[g] \in Dispatched,
           l # "gateStop", l = "box" => pc[g] = "gateStop" /\ halt[g] = "none",
           l \in {"spawnWorker", "askWorker"} => pc[g] \in {"spawnWorker", "askWorker"}
    PROVE  GateInv'
<1>1. \A h \in Goals \ {g} : pc'[h] = pc[h]
  BY DEF Go, Types
<1>2. pc'[g] = l
  BY DEF Go, Types
<1>3. \A h \in Goals \ {g} : GateAt(h)'
  BY <1>1 DEF GateInv, GateAt
<1>4. GateAt(g)'
  BY <1>2 DEF GateInv, GateAt, Dispatched
<1> QED
  BY <1>3, <1>4 DEF GateInv

(* A deny, an error or no answer ends the goal or halts its worker.        *)
LEMMA GateStep ==
    ASSUME Types, GateInv, [Next]_vars
    PROVE  GateInv'
<1>s. ASSUME UNCHANGED <<pc, said, halt, resumed>> PROVE GateInv'
  BY <1>s DEF GateInv, GateAt
<1> USE DEF Rest, Fixed
<1>1. ASSUME NEW g \in Goals, ConfigureForPlan(g) PROVE GateInv'
  <2>1. Go(g, "spawnPlan") \/ Go(g, "cfgExec")
    BY <1>1 DEF ConfigureForPlan
  <2> QED
    BY <1>1, <2>1, GateKept DEF ConfigureForPlan, Dispatched
<1>2. ASSUME NEW g \in Goals, startPolicyDaemon(g) PROVE GateInv'
  <2>1. Go(g, "cfgReady") \/ Go(g, "failed")
    BY <1>2 DEF startPolicyDaemon, Exec
  <2> QED
    BY <1>2, <2>1, GateKept DEF startPolicyDaemon, Dispatched
<1>3. ASSUME NEW g \in Goals, Configured(g) PROVE GateInv'
  <2>1. Go(g, "spawnPlan") \/ Go(g, "failed")
    BY <1>3 DEF Configured, waitForReady
  <2> QED
    BY <1>3, <2>1, GateKept DEF Configured, Dispatched
<1>4. ASSUME NEW g \in Goals, readClient(g) PROVE GateInv'
  <2>1. \/ Go(g, "askPlan") \/ Go(g, "denied") \/ Go(g, "blocked")
        \/ pc[g] = "spawnWorker" /\ Go(g, "askWorker")
    BY <1>4 DEF readClient
  <2> QED
    BY <1>4, <2>1, GateKept DEF readClient, Dispatched
<1>5. ASSUME NEW g \in Goals, decideSpawn(g) PROVE GateInv'
  <2>1. PICK d \in Decide("plan", g) :
          /\ Hear(g, "plan", d)
          /\ Go(g, CASE d.answer = "allow"   -> "spawnWorker"
                     [] d.answer = "require" -> "paused"
                     [] OTHER                -> "denied")
    BY <1>5 DEF decideSpawn
  <2>2. d.answer = "allow" => d.raw = "allow"
    BY AllowIsAnswered
  <2>3. /\ said'[g]["plan"] = IF d.raw = "allow" THEN "allow" ELSE "no"
        /\ \A h \in Goals \ {g} : said'[h] = said[h]
    BY <2>1, HearSays DEF Questions
  <2>4. \/ pc'[g] = "spawnWorker" /\ said'[g]["plan"] = "allow"
        \/ pc'[g] \in {"paused", "denied"}
    BY <2>1, <2>2, <2>3 DEF Go, Types
  <2>5. /\ \A h \in Goals \ {g} : pc'[h] = pc[h]
        /\ UNCHANGED <<halt, resumed>>
    BY <1>5, <2>1 DEF decideSpawn, Go, Types
  <2>6. GateAt(g)'
    BY <2>4 DEF GateAt, Dispatched
  <2> QED
    BY <2>3, <2>5, <2>6 DEF GateInv, GateAt
<1>6. ASSUME NEW g \in Goals, decideSpawnWorker(g) PROVE GateInv'
  <2>1. PICK d \in Decide("plan", recipe[g]) :
          Hear(g, "worker", d) /\ Go(g, IF d.answer = "allow" THEN "seal" ELSE "blocked")
    BY <1>6 DEF decideSpawnWorker
  <2>2. d.answer = "allow" => d.raw = "allow"
    BY AllowIsAnswered
  <2>3. /\ said'[g]["worker"] = IF d.raw = "allow" THEN "allow" ELSE "no"
        /\ said'[g]["plan"] = said[g]["plan"]
        /\ \A h \in Goals \ {g} : said'[h] = said[h]
    BY <2>1, HearSays DEF Questions
  <2>4. pc[g] = "askWorker" /\ UNCHANGED <<halt, resumed>>
    BY <1>6 DEF decideSpawnWorker
  <2>5. /\ (pc'[g] = "seal" /\ said'[g]["worker"] = "allow") \/ pc'[g] = "blocked"
        /\ \A h \in Goals \ {g} : pc'[h] = pc[h]
    BY <2>1, <2>2, <2>3 DEF Go, Types
  <2>6. GateAt(g)'
    BY <2>3, <2>4, <2>5 DEF GateInv, GateAt, Dispatched
  <2> QED
    BY <2>3, <2>4, <2>5, <2>6 DEF GateInv, GateAt
<1>7. ASSUME NEW g \in Goals, ReevaluateBlocked(g) PROVE GateInv'
  <2>1. UNCHANGED pc \/ Go(g, "resolved") \/ Go(g, "denied") \/ Go(g, "escalated")
    BY <1>7 DEF ReevaluateBlocked, replan, WriteStatus
  <2> QED
    BY <1>7, <1>s, <2>1, GateKept DEF ReevaluateBlocked, Dispatched
<1>8. ASSUME NEW g \in Goals, DispatchWorkItem(g) PROVE GateInv'
  <2>1. pc[g] = "seal" /\ (Go(g, "paused") \/ Go(g, "vaultExec") \/ Go(g, "failed"))
    BY <1>8 DEF DispatchWorkItem, sealAndOpen
  <2> QED
    BY <1>8, <2>1, GateKept DEF DispatchWorkItem, Dispatched
<1>9. ASSUME NEW g \in Goals, startVault(g) PROVE GateInv'
  <2>1. /\ pc[g] \in {"vaultExec", "vaultReady"}
        /\ Go(g, "vaultReady") \/ Go(g, "put") \/ Go(g, "result")
    BY <1>9 DEF startVault, Exec, waitForReady
  <2> QED
    BY <1>9, <2>1, GateKept DEF startVault, Dispatched
<1>10. ASSUME NEW g \in Goals, Put(g) PROVE GateInv'
  <2>1. pc[g] = "put" /\ (Go(g, "resolve") \/ Go(g, "vaultStop"))
    BY <1>10 DEF Put
  <2> QED
    BY <1>10, <2>1, GateKept DEF Put, Dispatched
<1>11. ASSUME NEW g \in Goals, Resolve(g) PROVE GateInv'
  <2>1. pc[g] = "resolve" /\ (Go(g, "gateExec") \/ Go(g, "vaultStop"))
    BY <1>11 DEF Resolve
  <2> QED
    BY <1>11, <2>1, GateKept DEF Resolve, Dispatched
<1>12. ASSUME NEW g \in Goals, startGate(g) PROVE GateInv'
  <2>1. /\ pc[g] \in {"gateExec", "gateReady"}
        /\ Go(g, "gateReady") \/ Go(g, "decide") \/ Go(g, "vaultStop")
    BY <1>12 DEF startGate, Exec, waitForReady
  <2> QED
    BY <1>12, <2>1, GateKept DEF startGate, Dispatched
<1>13. ASSUME NEW g \in Goals, decideGate(g) PROVE GateInv'
  <2>1. PICK d \in Decide("gate", "task") :
          /\ Hear(g, "gate", d)
          /\ \E h \in IF d.answer = "allow" THEN {"none", "deny"} ELSE {d.answer} :
                halt' = [halt EXCEPT ![g] = h]
    BY <1>13 DEF decideGate
  <2>2. d.answer # "none" /\ (d.answer = "allow" => d.raw = "allow")
    BY AllowIsAnswered
  <2>3. /\ said'[g]["gate"] = IF d.raw = "allow" THEN "allow" ELSE "no"
        /\ said'[g]["plan"] = said[g]["plan"] /\ said'[g]["worker"] = said[g]["worker"]
        /\ \A h \in Goals \ {g} : said'[h] = said[h]
    BY <2>1, HearSays DEF Questions
  <2>4. halt'[g] = "none" => d.answer = "allow"
    BY <2>1, <2>2 DEF Types
  <2>5. \A h \in Goals \ {g} : halt'[h] = halt[h]
    BY <2>1 DEF Types
  <2>6. /\ pc[g] = "decide" /\ pc'[g] = "gateStop" /\ UNCHANGED resumed
        /\ \A h \in Goals \ {g} : pc'[h] = pc[h]
    BY <1>13 DEF decideGate, Go, Types
  <2>7. GateAt(g)'
    BY <2>2, <2>3, <2>4, <2>6 DEF GateInv, GateAt, Dispatched
  <2> QED
    BY <2>3, <2>5, <2>6, <2>7 DEF GateInv, GateAt
<1>14. ASSUME NEW g \in Goals, gateStop(g) PROVE GateInv'
  <2>1. pc[g] = "gateStop" /\ ((Go(g, "box") /\ halt[g] = "none") \/ Go(g, "halted"))
    BY <1>14 DEF gateStop
  <2> QED
    BY <1>14, <2>1, GateKept DEF gateStop, Dispatched
<1>15. ASSUME NEW g \in Goals, BoxReturns(g) PROVE GateInv'
  BY <1>15, GateKept DEF BoxReturns, Dispatched
<1>16. ASSUME NEW g \in Goals, vaultStop(g) PROVE GateInv'
  BY <1>16, GateKept DEF vaultStop, Dispatched
<1>17. ASSUME NEW g \in Goals, DispatchResult(g) PROVE GateInv'
  <2>1. Go(g, "paused") \/ Go(g, "done") \/ Go(g, "failed")
    BY <1>17 DEF DispatchResult, sealAndOpen
  <2> QED
    BY <1>17, <2>1, GateKept DEF DispatchResult, Dispatched
<1>18. ASSUME NEW d \in Daemons, Bind(d) PROVE GateInv'
  BY <1>s, <1>18 DEF Bind
<1>19. ASSUME cleanup PROVE GateInv'
  BY <1>s, <1>19 DEF cleanup
<1>20. ASSUME Crash PROVE GateInv'
  <2>1. \A g \in Goals : \/ pc'[g] = "spawnWorker" /\ g \in resumed'
                         \/ pc'[g] \in Ended
    BY <1>20 DEF Crash, Ended
  <2> QED
    BY <2>1 DEF GateInv, GateAt, Dispatched, Ended
<1>21. ASSUME UNCHANGED vars PROVE GateInv'
  BY <1>s, <1>21 DEF vars
<1> QED
  BY <1>1, <1>2, <1>3, <1>4, <1>5, <1>6, <1>7, <1>8, <1>9, <1>10, <1>11, <1>12, <1>13, <1>14, <1>15, <1>16, <1>17, <1>18, <1>19, <1>20, <1>21 DEF Next, callStep, ownStep

(* An engine, whoever it was started for, allows no recipe outside the     *)
(* base.                                                                   *)
LEMMA RecipeStep ==
    ASSUME Types, RecipeInv, [Next]_vars
    PROVE  RecipeInv'
<1> USE BlockAssumption DEF Go, Rest, Fixed, Types, RecipeInv, Dispatched, Labels, Ended
<1>1. ASSUME NEW g \in Goals, ConfigureForPlan(g) PROVE RecipeInv'
  BY <1>1 DEF ConfigureForPlan, Stop, policy, procs
<1>2. ASSUME NEW g \in Goals, startPolicyDaemon(g) PROVE RecipeInv'
  BY <1>2 DEF startPolicyDaemon, Exec, procs
<1>3. ASSUME NEW g \in Goals, Configured(g) PROVE RecipeInv'
  BY SMT, <1>3 DEF Configured, waitForReady, Stop, procs
<1>4. ASSUME NEW g \in Goals, readClient(g) PROVE RecipeInv'
  BY SMT, <1>4 DEF readClient, policy, procs
<1>5. ASSUME NEW g \in Goals, decideSpawn(g) PROVE RecipeInv'
  BY <1>5 DEF decideSpawn, policy, procs
<1>6. ASSUME NEW g \in Goals, decideSpawnWorker(g) PROVE RecipeInv'
  <2>1. PICK d \in Decide("plan", recipe[g]) : Go(g, IF d.answer = "allow" THEN "seal" ELSE "blocked")
    BY <1>6 DEF decideSpawnWorker
  <2>2. Base # {} /\ d.answer = "allow" => recipe[g] \in Base
    BY SMT, AllowIsAnswered DEF effectiveAllow
  <2> QED
    BY <1>6, <2>1, <2>2 DEF decideSpawnWorker
<1>7. ASSUME NEW g \in Goals, ReevaluateBlocked(g) PROVE RecipeInv'
  BY SMT, <1>7 DEF ReevaluateBlocked, policy, procs, replan, WriteStatus
<1>8. ASSUME NEW g \in Goals, DispatchWorkItem(g) PROVE RecipeInv'
  BY <1>8 DEF DispatchWorkItem, policy, procs, sealAndOpen
<1>9. ASSUME NEW g \in Goals, startVault(g) PROVE RecipeInv'
  BY <1>9 DEF startVault, policy, Exec, waitForReady, Stop, procs
<1>10. ASSUME NEW g \in Goals, Put(g) PROVE RecipeInv'
  BY <1>10 DEF Put, policy, procs
<1>11. ASSUME NEW g \in Goals, Resolve(g) PROVE RecipeInv'
  BY <1>11 DEF Resolve, policy, procs
<1>12. ASSUME NEW g \in Goals, startGate(g) PROVE RecipeInv'
  BY <1>12 DEF startGate, policy, Exec, waitForReady, Stop, procs
<1>13. ASSUME NEW g \in Goals, decideGate(g) PROVE RecipeInv'
  BY <1>13 DEF decideGate, policy, procs
<1>14. ASSUME NEW g \in Goals, gateStop(g) PROVE RecipeInv'
  BY <1>14 DEF gateStop, policy, Stop
<1>15. ASSUME NEW g \in Goals, BoxReturns(g) PROVE RecipeInv'
  BY <1>15 DEF BoxReturns, policy, procs
<1>16. ASSUME NEW g \in Goals, vaultStop(g) PROVE RecipeInv'
  BY <1>16 DEF vaultStop, policy, Stop
<1>17. ASSUME NEW g \in Goals, DispatchResult(g) PROVE RecipeInv'
  BY <1>17 DEF DispatchResult, policy, procs, sealAndOpen
<1>18. ASSUME NEW d \in Daemons, Bind(d) PROVE RecipeInv'
  BY <1>18 DEF Bind, policy
<1>19. ASSUME cleanup PROVE RecipeInv'
  BY <1>19 DEF cleanup, Stop, Mine, procs
<1>20. ASSUME Crash PROVE RecipeInv'
  BY <1>20 DEF Crash, InFlight
<1>21. ASSUME UNCHANGED vars PROVE RecipeInv'
  BY <1>21 DEF vars, policy, procs
<1> QED
  BY <1>1, <1>2, <1>3, <1>4, <1>5, <1>6, <1>7, <1>8, <1>9, <1>10, <1>11, <1>12, <1>13, <1>14, <1>15, <1>16, <1>17, <1>18, <1>19, <1>20, <1>21 DEF Next, callStep, ownStep


(* A daemon by its name.                                                   *)
Named(k, g, n) == <<k, g, n>>

(* DaemonsAreOwned, kind by kind.                                          *)
OwnInv ==
    \A g \in Goals :
        /\ Named("plan", g, crashes) \in alive => scoped = g \/ (mu = g /\ pc[g] = "cfgReady")
        /\ Named("gate", g, crashes) \in alive => pc[g] \in {"gateReady", "decide", "gateStop"}
        /\ Named("vault", g, crashes) \in alive =>
              pc[g] \in {"vaultReady", "put", "resolve", "gateExec", "gateReady", "decide",
                         "gateStop", "box", "halted", "vaultStop"}

(* Names are distinct.                                                     *)
LEMMA NamesDiffer ==
    \A k, j, g, h, n : /\ Named(k, g, n) = Named(j, h, n) => k = j /\ g = h
                       /\ Named(k, g, n)[3] = n
  BY DEF Named

(* The two ways of saying that the daemons have owners agree.              *)
LEMMA OwnedByKind ==
    ASSUME Types
    PROVE  OwnInv <=> DaemonsAreOwned
<1>1. ASSUME OwnInv, NEW d \in alive, d[3] = crashes
      PROVE  Owned(d)
  <2>1. d \in Daemons /\ d[1] \in Kinds /\ d[2] \in Goals /\ d = Named(d[1], d[2], crashes)
    BY <1>1, DaemonParts DEF Types, Named
  <2>2. CASE d[1] = "plan"
    BY <1>1, <2>1, <2>2 DEF OwnInv, Owned
  <2>3. CASE d[1] = "gate"
    BY <1>1, <2>1, <2>3 DEF OwnInv, Owned
  <2>4. CASE d[1] = "vault"
    BY <1>1, <2>1, <2>4 DEF OwnInv, Owned
  <2> QED
    BY <2>1, <2>2, <2>3, <2>4 DEF Kinds
<1>2. ASSUME DaemonsAreOwned
      PROVE  OwnInv
  <2>1. ASSUME NEW k \in Kinds, NEW g \in Goals, Named(k, g, crashes) \in alive
        PROVE  Owned(Named(k, g, crashes))
    BY <1>2, <2>1 DEF DaemonsAreOwned, Named
  <2>2. ASSUME NEW g \in Goals, Owned(Named("plan", g, crashes))
        PROVE  scoped = g \/ (mu = g /\ pc[g] = "cfgReady")
    BY <2>2 DEF Owned, Named
  <2>3. ASSUME NEW g \in Goals, Owned(Named("gate", g, crashes))
        PROVE  pc[g] \in {"gateReady", "decide", "gateStop"}
    BY <2>3 DEF Owned, Named
  <2>4. ASSUME NEW g \in Goals, Owned(Named("vault", g, crashes))
        PROVE  pc[g] \in {"vaultReady", "put", "resolve", "gateExec", "gateReady", "decide",
                          "gateStop", "box", "halted", "vaultStop"}
    BY <2>4 DEF Owned, Named
  <2> QED
    BY <2>1, <2>2, <2>3, <2>4 DEF OwnInv, Kinds
<1> QED
  BY <1>1, <1>2 DEF DaemonsAreOwned

(* What is started is stopped by the one that started it.                  *)
LEMMA OwnedStep ==
    ASSUME Types, LockInv, OwnInv, [Next]_vars
    PROVE  OwnInv'
<1>0. \A k, g : Mine(k, g) = Named(k, g, crashes)
  BY DEF Mine, Named
<1> USE BlockAssumption DEF Go, Rest, Fixed, Types, LockInv, Labels, Ended, OwnInv
<1>1. ASSUME NEW g \in Goals, ConfigureForPlan(g) PROVE OwnInv'
  BY SMT, <1>1, <1>0, NamesDiffer DEF ConfigureForPlan, Stop, policy, procs
<1>2. ASSUME NEW g \in Goals, startPolicyDaemon(g) PROVE OwnInv'
  BY SMT, <1>2, <1>0, NamesDiffer DEF startPolicyDaemon, Exec, procs
<1>3. ASSUME NEW g \in Goals, Configured(g) PROVE OwnInv'
  BY SMT, <1>3, <1>0, NamesDiffer DEF Configured, waitForReady, Stop, procs
<1>4. ASSUME NEW g \in Goals, readClient(g) PROVE OwnInv'
  BY SMT, <1>4, <1>0, NamesDiffer DEF readClient, policy, procs
<1>5. ASSUME NEW g \in Goals, decideSpawn(g) PROVE OwnInv'
  BY SMT, <1>5, <1>0, NamesDiffer DEF decideSpawn, policy, procs
<1>6. ASSUME NEW g \in Goals, decideSpawnWorker(g) PROVE OwnInv'
  BY SMT, <1>6, <1>0, NamesDiffer DEF decideSpawnWorker, policy, procs
<1>7. ASSUME NEW g \in Goals, ReevaluateBlocked(g) PROVE OwnInv'
  BY SMT, <1>7, <1>0, NamesDiffer DEF ReevaluateBlocked, policy, procs, replan, WriteStatus
<1>8. ASSUME NEW g \in Goals, DispatchWorkItem(g) PROVE OwnInv'
  BY SMT, <1>8, <1>0, NamesDiffer DEF DispatchWorkItem, policy, procs, sealAndOpen
<1>9. ASSUME NEW g \in Goals, startVault(g) PROVE OwnInv'
  BY SMT, <1>9, <1>0, NamesDiffer DEF startVault, policy, Exec, waitForReady, Stop, procs
<1>10. ASSUME NEW g \in Goals, Put(g) PROVE OwnInv'
  BY SMT, <1>10, <1>0, NamesDiffer DEF Put, policy, procs
<1>11. ASSUME NEW g \in Goals, Resolve(g) PROVE OwnInv'
  BY SMT, <1>11, <1>0, NamesDiffer DEF Resolve, policy, procs
<1>12. ASSUME NEW g \in Goals, startGate(g) PROVE OwnInv'
  BY SMT, <1>12, <1>0, NamesDiffer DEF startGate, policy, Exec, waitForReady, Stop, procs
<1>13. ASSUME NEW g \in Goals, decideGate(g) PROVE OwnInv'
  BY <1>13, <1>0, NamesDiffer DEF decideGate, policy, procs
<1>14. ASSUME NEW g \in Goals, gateStop(g) PROVE OwnInv'
  BY <1>14, <1>0, NamesDiffer DEF gateStop, policy, Stop
<1>15. ASSUME NEW g \in Goals, BoxReturns(g) PROVE OwnInv'
  BY <1>15, <1>0, NamesDiffer DEF BoxReturns, policy, procs
<1>16. ASSUME NEW g \in Goals, vaultStop(g) PROVE OwnInv'
  BY <1>16, <1>0, NamesDiffer DEF vaultStop, policy, Stop
<1>17. ASSUME NEW g \in Goals, DispatchResult(g) PROVE OwnInv'
  BY SMT, <1>17, <1>0, NamesDiffer DEF DispatchResult, policy, procs, sealAndOpen
<1>18. ASSUME NEW d \in Daemons, Bind(d) PROVE OwnInv'
  BY <1>18, <1>0, NamesDiffer DEF Bind, policy
<1>19. ASSUME cleanup PROVE OwnInv'
  BY SMT, <1>19, <1>0, NamesDiffer DEF cleanup, Stop, procs
<1>20. ASSUME Crash PROVE OwnInv'
  <2>1. \A g \in Goals : /\ Named("plan", g, crashes') \notin alive
                         /\ Named("gate", g, crashes') \notin alive
                         /\ Named("vault", g, crashes') \notin alive
    BY SMT, <1>20, NamesDiffer DEF Crash
  <2> QED
    BY <1>20, <2>1 DEF Crash
<1>21. ASSUME UNCHANGED vars PROVE OwnInv'
  BY <1>21 DEF vars, policy, procs
<1> QED
  BY <1>1, <1>2, <1>3, <1>4, <1>5, <1>6, <1>7, <1>8, <1>9, <1>10, <1>11, <1>12, <1>13, <1>14, <1>15, <1>16, <1>17, <1>18, <1>19, <1>20, <1>21 DEF Next, callStep, ownStep


(* The invariant holds initially.                                          *)
LEMMA BlockStart ==
    ASSUME Init
    PROVE  BlockInv
  BY SMT, BlockAssumption DEF Init, BlockInv, Types, LockInv, GateInv, GateAt, RecipeInv, Dispatched, Labels, Ended,
     DaemonsAreOwned, Unasked

(* Every step keeps it.                                                    *)
LEMMA BlockStep ==
    ASSUME BlockInv, [Next]_vars
    PROVE  BlockInv'
<1>1. Types' /\ LockInv' /\ GateInv' /\ RecipeInv'
  BY TypesStep, LockStep, GateStep, RecipeStep DEF BlockInv
<1>2. OwnInv'
  BY OwnedByKind, OwnedStep DEF BlockInv
<1>3. DaemonsAreOwned'
  BY <1>1, <1>2, OwnedByKind, PTL
<1> QED
  BY <1>1, <1>3 DEF BlockInv

(* No box runs unless an engine said "allow" to its gate, to the worker    *)
(* and, but for a resumed goal, to the plan: Decide is fail-closed,        *)
(* whoever bound, lost or removed the socket or was mute in between.       *)
THEOREM BoxAllowed == Spec => []BoxWasAllowed
<1>1. BlockInv => BoxWasAllowed
  BY DEF BlockInv, GateInv, GateAt, Dispatched, BoxWasAllowed
<1> QED
  BY <1>1, BlockStart, BlockStep, PTL DEF Spec

(* With a deployment base no worker is dispatched with a recipe outside    *)
(* it, by whichever plan's engine its spawn was decided (effectiveAllow).  *)
THEOREM BaseOnlyNarrows == Spec => []BaseNarrows
<1>1. BlockInv => BaseNarrows
  BY DEF BlockInv, RecipeInv, Dispatched, BaseNarrows
<1> QED
  BY <1>1, BlockStart, BlockStep, PTL DEF Spec

(* Every daemon that runs and was started by this process has an owner     *)
(* that will stop it (Start, Stop and ConfigureForPlan).                   *)
THEOREM NoOrphans == Spec => []DaemonsAreOwned
<1>1. BlockInv => DaemonsAreOwned
  BY DEF BlockInv
<1> QED
  BY <1>1, BlockStart, BlockStep, PTL DEF Spec
=============================================================================

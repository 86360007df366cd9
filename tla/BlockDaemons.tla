---------------------------- MODULE BlockDaemons ----------------------------
(***************************************************************************)
(* The daemons the orchestrator starts and talks to over Unix sockets: the *)
(* policy engine of planScopedPolicy, which every goal configures for its  *)
(* own plan (internal/cli/orchestrate.go), and the vault and the policy    *)
(* engine each worker starts for itself (internal/vault, internal/policy,  *)
(* internal/secrets, internal/runtime/run.go), called from the dispatch    *)
(* closure of the worker transport (internal/cli/orchestrate_seams.go,     *)
(* internal/channel/worker).                                               *)
(*                                                                         *)
(* A daemon is <<kind, goal, process>>, started for a goal by one process  *)
(* of the orchestrator; it binds the path of its socket on its own, and    *)
(* nothing but a Stop ends it.  A socket path names whoever bound it last. *)
(* Every goal has one sub-goal.                                            *)
(***************************************************************************)
EXTENDS Integers, FiniteSets

CONSTANTS
    Goals,
    Recipes,
    Base,           \* AGENT_BUILDER_POLICY_ALLOW; {}: no narrowing
    FixedSockets,   \* the sockets are configured; else named by kind and process
    MaxReplans,     \* the bound of the reevaluation of a blocked spawn
    MaxCrashes,     \* bound: crashes of the orchestrator
    None

(* "task" is the request on a worker's own task, never one on a recipe.    *)
ASSUME BlockAssumption ==
    /\ FixedSockets \in BOOLEAN /\ {MaxReplans, MaxCrashes} \subseteq Nat
    /\ None \notin Goals /\ "task" \notin Recipes

VARIABLES
    recipe,     \* per goal: the recipe the planner gave its sub-goal
    pc,         \* per goal
    mu,         \* planScopedPolicy.mu: the goal that holds it, or None
    scoped,     \* the goal for whose plan the serving daemon was started, or None
    alive,      \* the daemons that run
    unbound,    \* those that have not bound their socket yet
    sock,       \* per socket path: the daemon that bound it, or None
    stored,     \* the vaults that hold the tokens
    handle,     \* per goal: the vault that issued its handle, or None
    by,         \* per goal: the engine that took its last decision, or None
    said,       \* history, per goal and question: whether an engine said "allow", or "no"
    halt,       \* per goal: why the gate halted its worker, or "none"
    replans,    \* per goal: reevaluations of its blocked spawn
    journal,    \* per goal: its run record: "none", "running", "awaiting", "completed"
    resumed,    \* the goals resumed from the journal by this process
    crashes, stopped

policy == <<mu, scoped>>
procs  == <<alive, unbound, sock>>
heard  == <<by, said>>
vars   == <<recipe, pc, policy, procs, stored, handle, heard, halt, replans, journal, resumed,
            crashes, stopped>>

Kinds   == {"plan", "gate", "vault"}
Daemons == Kinds \X Goals \X (0..MaxCrashes)
Path(k) == IF FixedSockets /\ k = "plan" THEN "gate" ELSE k
Mine(k, g) == <<k, g, crashes>>
Questions == {"plan", "worker", "gate"}
Unasked == [q \in Questions |-> "none"]
Ended   == {"done", "failed", "denied", "resolved", "escalated", "paused", "lost"}
Go(g, l) == pc' = [pc EXCEPT ![g] = l]

Init ==
    /\ recipe \in [Goals -> Recipes]
    /\ pc = [g \in Goals |-> "plan"]
    /\ mu = None /\ scoped = None
    /\ alive = {} /\ unbound = {} /\ sock = [p \in Kinds |-> None]
    /\ stored = {} /\ handle = [g \in Goals |-> None]
    /\ by = [g \in Goals |-> None] /\ said = [g \in Goals |-> Unasked]
    /\ halt = [g \in Goals |-> "none"]
    /\ replans = [g \in Goals |-> 0] /\ journal = [g \in Goals |-> "none"]
    /\ resumed = {} /\ crashes = 0 /\ stopped = FALSE

-----------------------------------------------------------------------------
(* The lifecycle of a daemon                                               *)

(* Start: exec, which may fail; then waitForReady.                         *)
Exec(d, ready, failed) ==
    \/ /\ alive' = alive \cup {d} /\ unbound' = unbound \cup {d}
       /\ UNCHANGED sock /\ ready
    \/ UNCHANGED procs /\ failed

(* The daemon binds its path, over another's, or exits as it is taken.     *)
Bind(d) ==
    /\ d \in unbound /\ unbound' = unbound \ {d}
    /\ \/ sock' = [sock EXCEPT ![Path(d[1])] = d] /\ UNCHANGED alive
       \/ sock[Path(d[1])] # None /\ alive' = alive \ {d} /\ UNCHANGED sock
    /\ UNCHANGED <<pc, policy, stored, handle, heard, halt, replans, journal, resumed, crashes,
                   stopped, recipe>>

(* do: a request reaches the daemon behind the path, when there is one.    *)
Serving(k) == IF sock[Path(k)] \in alive THEN sock[Path(k)] ELSE None

(* Stop: the own process is killed, the path removed whoever bound it.     *)
Stop(d) ==
    /\ alive' = alive \ {d} /\ unbound' = unbound \ {d}
    /\ sock' = [sock EXCEPT ![Path(d[1])] = None]

(* Mutant: a daemon that is not reachable in time is left running.         *)
waitForReadyLeaves(d, ok, timedOut) ==
    \/ Serving(d[1]) # None /\ UNCHANGED procs /\ ok
    \/ UNCHANGED procs /\ timedOut

(* Mutant: no deadline.                                                    *)
waitForReadyForever(d, ok, timedOut) ==
    Serving(d[1]) # None /\ UNCHANGED procs /\ ok

(* waitForReady: a Ping is answered; or not until the deadline, by whoever *)
(* is behind the path, and the half-started daemon is stopped.             *)
waitForReady(d, ok, timedOut) ==
    \/ Serving(d[1]) # None /\ UNCHANGED procs /\ ok
    \/ Stop(d) /\ timedOut

-----------------------------------------------------------------------------
(* The policy engine                                                       *)

Derived(g) == {g, recipe[g]}

(* Mutant: the deployment base is added to what the plan declares.         *)
effectiveAllowWide(g) == Derived(g) \cup Base

(* effectiveAllow: the base narrows what the plan declares.                *)
effectiveAllow(g) == IF Base = {} THEN Derived(g) ELSE Derived(g) \cap Base

(* What an engine may answer: one of a plan denies what is not in its      *)
(* --allow, one of a worker, whose --allow is empty, all but its own       *)
(* run-task request; "unknown" is a decision this client does not know.    *)
Answers(d, r) ==
    IF r = "task" \/ (d[1] = "plan" /\ r \in effectiveAllow(d[2]))
    THEN {"allow", "deny", "require", "unknown"} ELSE {"deny"}

(* Decide: fail-closed.  No engine, one that does not answer in time, or   *)
(* an answer that is malformed, an error or without a decision is a deny   *)
(* with an error; an unknown decision is a deny without one.               *)
Decide(k, r) ==
    LET Heard(d, a) == [by |-> d, raw |-> a, answer |-> IF a = "unknown" THEN "deny" ELSE a]
    IN  {Heard(None, "error")} \cup
        IF Serving(k) = None THEN {}
        ELSE {Heard(Serving(k), a) : a \in Answers(Serving(k), r)}

Hear(g, q, d) ==
    /\ by' = [by EXCEPT ![g] = d.by]
    /\ said' = [said EXCEPT ![g][q] = IF d.raw = "allow" THEN "allow" ELSE "no"]

Fixed == <<resumed, crashes, stopped, recipe>>
Rest  == <<stored, handle, halt, replans, journal, Fixed>>

Serves(g) == scoped # None /\ effectiveAllow(scoped) = effectiveAllow(g)

(* ConfigureForPlan, under the lock: the daemon that serves the same set   *)
(* is kept; another one is stopped.                                        *)
ConfigureForPlan(g) ==
    /\ pc[g] = "plan" /\ mu = None
    /\ \/ /\ Serves(g)
          /\ Go(g, "spawnPlan") /\ UNCHANGED <<policy, procs>>
       \/ /\ ~Serves(g)
          /\ mu' = g /\ scoped' = None /\ Go(g, "cfgExec")
          /\ IF scoped # None THEN Stop(Mine("plan", scoped)) ELSE UNCHANGED procs
    /\ UNCHANGED <<Rest, heard>>

(* newDaemon: exec.                                                        *)
startPolicyDaemon(g) ==
    /\ pc[g] = "cfgExec"
    /\ Exec(Mine("plan", g), Go(g, "cfgReady") /\ UNCHANGED mu, Go(g, "failed") /\ mu' = None)
    /\ UNCHANGED <<Rest, scoped, heard>>

Configured(g) ==
    /\ pc[g] = "cfgReady" /\ mu' = None
    /\ waitForReady(Mine("plan", g), scoped' = g /\ Go(g, "spawnPlan"),
                                     UNCHANGED scoped /\ Go(g, "failed"))
    /\ UNCHANGED <<Rest, heard>>

(* The records are resumed one after the other.                            *)
Turn(g) == g \in resumed => \A h \in resumed \ {g} : pc[h] \in Ended \cup {"spawnWorker"}

(* planScopedPolicy.Decide: the client is read under the lock and used     *)
(* after it; without one the answer is deny.                               *)
readClient(g) ==
    /\ pc[g] \in {"spawnPlan", "spawnWorker"} /\ mu = None /\ Turn(g)
    /\ \/ /\ scoped # None
          /\ Go(g, IF pc[g] = "spawnPlan" THEN "askPlan" ELSE "askWorker") /\ UNCHANGED by
       \/ /\ scoped = None
          /\ Go(g, IF pc[g] = "spawnPlan" THEN "denied" ELSE "blocked")
          /\ by' = [by EXCEPT ![g] = None]
    /\ UNCHANGED <<Rest, policy, procs, said>>

(* decideSpawn on the goal, routed on the decision, never on the error: an *)
(* allowed plan is journalled, one that requires approval pauses.          *)
decideSpawn(g) ==
    /\ pc[g] = "askPlan"
    /\ \E d \in Decide("plan", g) :
          /\ Hear(g, "plan", d)
          /\ Go(g, CASE d.answer = "allow"   -> "spawnWorker"
                     [] d.answer = "require" -> "paused"
                     [] OTHER                -> "denied")
          /\ journal' = IF d.answer = "allow" THEN [journal EXCEPT ![g] = "running"] ELSE journal
    /\ UNCHANGED <<stored, handle, halt, replans, Fixed, policy, procs>>

(* decideSpawnWorker on the recipe: anything but allow is a denied outcome *)
(* with the blocked action.                                                *)
decideSpawnWorker(g) ==
    /\ pc[g] = "askWorker"
    /\ \E d \in Decide("plan", recipe[g]) :
          /\ Hear(g, "worker", d)
          /\ Go(g, IF d.answer = "allow" THEN "seal" ELSE "blocked")
    /\ UNCHANGED <<Rest, policy, procs>>

(* The ReplanFunc: the planner is run on the goal again, and the spawn is  *)
(* still blocked when the new plan has the denied recipe; it may fail.     *)
replan(g, still, around, failed) ==
    \/ \E r \in Recipes : IF r = recipe[g] THEN still ELSE around
    \/ failed

(* reporterStatusWriter: the escalation is a report, which may fail.       *)
WriteStatus(ok, failed) == ok \/ failed

(* ReevaluateBlocked, after the join: at most MaxReplans replans, none of  *)
(* which is dispatched, then a human.  An error ends it.                   *)
ReevaluateBlocked(g) ==
    /\ pc[g] = "blocked"
    /\ \/ /\ replans[g] < MaxReplans
          /\ replans' = [replans EXCEPT ![g] = @ + 1]
          /\ replan(g, UNCHANGED pc, Go(g, "resolved"), Go(g, "denied"))
       \/ /\ replans[g] = MaxReplans /\ UNCHANGED replans
          /\ WriteStatus(Go(g, "escalated"), Go(g, "denied"))
    /\ UNCHANGED <<stored, handle, halt, journal, Fixed, policy, procs, heard>>

-----------------------------------------------------------------------------
(* The dispatch closure and the worker                                     *)

(* An envelope is sealed and signed, and verified, checked for replay and  *)
(* opened by the other end, which audits what it refuses.                  *)
sealAndOpen(opened, refused) == opened \/ refused

(* A plan that awaits an approval starts no worker; another's work item    *)
(* goes through the transport.                                             *)
DispatchWorkItem(g) ==
    /\ pc[g] = "seal"
    /\ IF journal[g] = "awaiting" THEN Go(g, "paused")
                                  ELSE sealAndOpen(Go(g, "vaultExec"), Go(g, "failed"))
    /\ UNCHANGED <<Rest, policy, procs, heard>>

(* startVault: exec, wait, and the tokens: put, then resolve; a failure    *)
(* stops the daemon.                                                       *)
startVault(g) ==
    /\ \/ pc[g] = "vaultExec" /\ Exec(Mine("vault", g), Go(g, "vaultReady"), Go(g, "result"))
       \/ pc[g] = "vaultReady" /\ waitForReady(Mine("vault", g), Go(g, "put"), Go(g, "result"))
    /\ UNCHANGED <<Rest, policy, heard>>

Put(g) ==
    /\ pc[g] = "put"
    /\ \/ Serving("vault") # None /\ stored' = stored \cup {Serving("vault")}
          /\ Go(g, "resolve")
       \/ UNCHANGED stored /\ Go(g, "vaultStop")
    /\ UNCHANGED <<handle, halt, replans, journal, Fixed, policy, procs, heard>>

Resolve(g) ==
    /\ pc[g] = "resolve"
    /\ \/ Serving("vault") \in stored
          /\ handle' = [handle EXCEPT ![g] = Serving("vault")] /\ Go(g, "gateExec")
       \/ UNCHANGED handle /\ Go(g, "vaultStop")
    /\ UNCHANGED <<stored, halt, replans, journal, Fixed, policy, procs, heard>>

(* decideGate: the worker's own engine is started, ...                     *)
startGate(g) ==
    /\ \/ pc[g] = "gateExec" /\ Exec(Mine("gate", g), Go(g, "gateReady"), Go(g, "vaultStop"))
       \/ pc[g] = "gateReady" /\ waitForReady(Mine("gate", g), Go(g, "decide"), Go(g, "vaultStop"))
    /\ UNCHANGED <<Rest, policy, heard>>

(* Mutant: only a deny the engine sent halts the run.                      *)
decideGateOpen(g) ==
    /\ pc[g] = "decide"
    /\ \E d \in Decide("gate", "task") :
          /\ Hear(g, "gate", d)
          /\ halt' = [halt EXCEPT ![g] = IF d.answer \in {"allow", "error"} THEN "none" ELSE d.answer]
    /\ Go(g, "gateStop")
    /\ UNCHANGED <<stored, handle, replans, journal, Fixed, policy, procs>>

(* ... asked, where an allow that selects an unknown tier halts the run    *)
(* too, ...                                                                *)
decideGate(g) ==
    /\ pc[g] = "decide"
    /\ \E d \in Decide("gate", "task") :
          /\ Hear(g, "gate", d)
          /\ \E h \in IF d.answer = "allow" THEN {"none", "deny"} ELSE {d.answer} :
                halt' = [halt EXCEPT ![g] = h]
    /\ Go(g, "gateStop")
    /\ UNCHANGED <<stored, handle, replans, journal, Fixed, policy, procs>>

(* ... and stopped in all paths; a decision other than allow ends the run. *)
gateStop(g) ==
    /\ pc[g] = "gateStop"
    /\ Stop(Mine("gate", g))
    /\ Go(g, IF halt[g] = "none" THEN "box" ELSE "halted")
    /\ UNCHANGED <<Rest, policy, heard>>

(* The box runs with the handle and the socket of the vault; a decision    *)
(* that halts the run is audited and parks its task.                       *)
BoxReturns(g) ==
    /\ pc[g] \in {"box", "halted"} /\ Go(g, "vaultStop")
    /\ UNCHANGED <<Rest, policy, procs, heard>>

(* The deferred Stop of the vault.                                         *)
vaultStop(g) ==
    /\ pc[g] = "vaultStop"
    /\ Stop(Mine("vault", g)) /\ stored' = stored \ {Mine("vault", g)}
    /\ handle' = [handle EXCEPT ![g] = None]
    /\ Go(g, "result")
    /\ UNCHANGED <<halt, replans, journal, Fixed, policy, heard>>

(* The result, through the transport; a run that did not fail is           *)
(* completed, or awaits the approval its gate requires.                    *)
DispatchResult(g) ==
    /\ pc[g] = "result"
    /\ LET asks == halt[g] = "require" IN
       sealAndOpen(/\ Go(g, IF asks THEN "paused" ELSE "done")
                   /\ journal' = [journal EXCEPT ![g] = IF asks THEN "awaiting" ELSE "completed"],
                   Go(g, "failed") /\ UNCHANGED journal)
    /\ UNCHANGED <<stored, handle, halt, replans, Fixed, policy, procs, heard>>

-----------------------------------------------------------------------------
(* The process                                                             *)

(* cleanup, after the control loop has joined every goal.                  *)
cleanup ==
    /\ ~stopped /\ \A g \in Goals : pc[g] \in Ended
    /\ stopped' = TRUE /\ scoped' = None
    /\ IF scoped # None THEN Stop(Mine("plan", scoped)) ELSE UNCHANGED procs
    /\ UNCHANGED <<recipe, pc, mu, stored, handle, heard, halt, replans, journal, resumed, crashes>>

InFlight(g) == journal[g] \in {"running", "awaiting"}

(* A crash leaves the daemons running; the new process has new paths       *)
(* unless they are configured, and resumes every record that is not        *)
(* completed (ResumeFromRecord), which starts with the decision on the     *)
(* worker.                                                                 *)
Crash ==
    /\ ~stopped /\ crashes < MaxCrashes
    /\ crashes' = crashes + 1
    /\ pc' = [g \in Goals |-> IF InFlight(g) THEN "spawnWorker"
                              ELSE IF pc[g] \in Ended THEN pc[g] ELSE "lost"]
    /\ resumed' = {g \in Goals : InFlight(g)}
    /\ mu' = None /\ scoped' = None
    /\ sock' = IF FixedSockets THEN sock ELSE [p \in Kinds |-> None]
    /\ unbound' = {}
    /\ handle' = [g \in Goals |-> None] /\ halt' = [g \in Goals |-> "none"]
    /\ by' = [g \in Goals |-> None] /\ said' = [g \in Goals |-> Unasked]
    /\ replans' = [g \in Goals |-> 0]
    /\ UNCHANGED <<recipe, alive, stored, journal, stopped>>

(* Steps that call what has no deadline: the sub-processes of the audit    *)
(* trail, the planner and the box.                                         *)
Calls == {"askPlan", "askWorker", "blocked", "seal", "box", "halted", "result"}
callStep(g) ==
    \/ decideSpawn(g) \/ decideSpawnWorker(g) \/ ReevaluateBlocked(g)
    \/ DispatchWorkItem(g) \/ BoxReturns(g) \/ DispatchResult(g)

(* The others end with the deadline of a socket or of waitForReady.        *)
ownStep(g) ==
    \/ ConfigureForPlan(g) \/ startPolicyDaemon(g) \/ Configured(g) \/ readClient(g)
    \/ startVault(g) \/ Put(g) \/ Resolve(g) \/ vaultStop(g)
    \/ startGate(g) \/ decideGate(g) \/ gateStop(g)

Next ==
    \/ \E g \in Goals : callStep(g) \/ ownStep(g)
    \/ \E d \in Daemons : Bind(d)
    \/ cleanup \/ Crash

Spec == Init /\ [][Next]_vars

(* A lock that is released again and again is acquired: Go's mutex does    *)
(* not starve a waiter.                                                    *)
FairSpec == Spec /\ WF_vars(cleanup) /\ \A g \in Goals : SF_vars(ownStep(g))

-----------------------------------------------------------------------------
TypeOK ==
    /\ recipe \in [Goals -> Recipes]
    /\ pc \in [Goals -> Ended \cup {"plan", "cfgExec", "cfgReady", "spawnPlan", "askPlan",
                  "spawnWorker", "askWorker", "blocked", "seal", "vaultExec", "vaultReady", "put", "resolve",
                  "gateExec", "gateReady", "decide", "gateStop", "box", "halted", "vaultStop", "result"}]
    /\ mu \in Goals \cup {None} /\ scoped \in Goals \cup {None}
    /\ unbound \subseteq alive /\ alive \subseteq Daemons
    /\ sock \in [Kinds -> Daemons \cup {None}]
    /\ stored \subseteq Daemons
    /\ handle \in [Goals -> Daemons \cup {None}] /\ by \in [Goals -> Daemons \cup {None}]
    /\ said \in [Goals -> [Questions -> {"none", "allow", "no"}]]
    /\ halt \in [Goals -> {"none", "deny", "require", "error"}]
    /\ replans \in [Goals -> 0..MaxReplans]
    /\ journal \in [Goals -> {"none", "running", "awaiting", "completed"}]
    /\ resumed \subseteq Goals
    /\ crashes \in 0..MaxCrashes /\ stopped \in BOOLEAN

(* No box without the engines' word: whatever daemons were stopped, bound  *)
(* over, left by a crash or mute while they were asked, a worker whose box *)
(* runs heard "allow" from its gate, its goal heard it for the worker and, *)
(* unless it was resumed, for the plan (Decide is fail-closed, and every   *)
(* caller routes on its decision).                                         *)
BoxWasAllowed ==
    \A g \in Goals : pc[g] = "box" =>
        /\ said[g]["gate"] = "allow" /\ said[g]["worker"] = "allow"
        /\ g \in resumed \/ said[g]["plan"] = "allow"

(* The deployment base only narrows: whichever plan's engine, of this or   *)
(* an earlier process, answers for a goal, a worker is dispatched only     *)
(* with a recipe of the base (effectiveAllow).                             *)
BaseNarrows ==
    Base # {} => \A g \in Goals : pc[g] \in {"seal", "put", "decide", "box"} => recipe[g] \in Base

(* Every daemon of this process has an owner that will stop it: a worker   *)
(* between Start and the deferred Stop, or planScopedPolicy; when the      *)
(* process has cleaned up, none is left (Start stops what is not           *)
(* reachable, ConfigureForPlan and stop the daemon they replace).          *)
Owned(d) ==
    LET g == d[2] IN
    CASE d[1] = "plan"  -> scoped = g \/ (mu = g /\ pc[g] = "cfgReady")
      [] d[1] = "gate"  -> pc[g] \in {"gateReady", "decide", "gateStop"}
      [] d[1] = "vault" -> pc[g] \in {"vaultReady", "put", "resolve", "gateExec", "gateReady",
                                      "decide", "gateStop", "box", "halted", "vaultStop"}

DaemonsAreOwned == \A d \in alive : d[3] = crashes => Owned(d)

(* A goal comes to its end or stays in a call of its own that does not     *)
(* return, whichever daemon never binds its socket, loses it to another's  *)
(* Stop, is mute or exits, and whatever other goal is stuck in a call      *)
(* (waitForReady has a deadline; ConfigureForPlan releases its lock on     *)
(* every path, and no call is made under it).  Only a resumed goal waits   *)
(* for the ones resumed before it.  When every call returns, the process   *)
(* cleans up.                                                              *)
Held(g) == pc[g] \in Calls \/ \E h \in resumed : g \in resumed /\ pc[h] \in Calls

GoalsEnd ==
    /\ \A g \in Goals : <>[](pc[g] \in Ended \/ Held(g))
    /\ <>stopped \/ <>[](\E g \in Goals : Held(g))

(* What the documents say; see README.                                     *)

(* orchestrator.go: the engine is configured with this plan's allow set    *)
(* before any of its decisions: an engine that decides on a goal is one    *)
(* that serves its plan's set.                                             *)
DecidedByOwnEngine ==
    \A g \in Goals : pc[g] \in {"denied", "blocked", "spawnWorker", "seal"} /\ by[g] # None =>
        by[g][1] = "plan" /\ effectiveAllow(by[g][2]) = effectiveAllow(g)

(* B-042: a resumed sub-goal without a completed attempt is dispatched     *)
(* again: only the answer to a question keeps it from being.               *)
ResumedIsDecided ==
    \A g \in resumed : pc[g] = "blocked" => said[g]["worker"] # "none"

(* B-027: the policy gates run per sub-goal unchanged regardless of        *)
(* concurrency: the worker's own engine takes its decision.                *)
GateIsOwn ==
    \A g \in Goals : pc[g] = "gateStop" /\ by[g] # None => by[g] = Mine("gate", g)
=============================================================================

---------------------------- MODULE WorkerFleet ----------------------------
(***************************************************************************)
(* What the workers of one orchestrator share: the worktree of the base    *)
(* configuration, in which every executor edits, the gate verifies and the *)
(* publisher pushes (internal/executor, internal/publisher), and the       *)
(* router state file, from which each run loads its own router and to      *)
(* which it saves it at the end (internal/router, internal/runtime/run.go).*)
(* At most Concurrency workers run at once.  A crash of the process leaves *)
(* the worktree and the file as they are; the tasks it was working on are  *)
(* dispatched again.                                                       *)
(*                                                                         *)
(* A tree is the edits in it, each <<task, attempt>>, and the branch named *)
(* by the file .agent-branch.                                              *)
(***************************************************************************)
EXTENDS Integers, Sequences, FiniteSets

CONSTANTS
    Workers,        \* the dispatched tasks; the branch of a task has its name
    Entries,        \* the catalog: natural numbers, ordered as the entry IDs
    Harness,        \* per entry: "cli" (claude, codex, gemini), "agy", "ollama"
    Cost,           \* per entry: CostWeight
    Limit,          \* per entry: Budget.Limit, 0 for an unlimited one
    Tier,           \* per entry: CapabilityTier
    Secret,         \* the entries with a SecretRef
    MinCapability,  \* the recipe's routing: its floor
    Sensitive,      \* and its hint
    Window,         \* Budget.Window, in ticks
    MaxAttempts,
    MaxIterations,  \* the iteration cap of the agentic loop
    Concurrency,    \* AGENT_BUILDER_MAX_WORKERS
    MaxClock,       \* bound: ticks of the clock
    MaxCrashes,     \* bound: crashes of the process
    None

ASSUME FleetAssumption ==
    /\ IsFiniteSet(Workers) /\ None \notin Workers
    /\ IsFiniteSet(Entries) /\ Entries \subseteq Nat
    /\ {MaxAttempts, Concurrency} \subseteq Nat \ {0} /\ Window \in Nat
    /\ Sensitive \in BOOLEAN /\ MinCapability \in Int
    /\ \A e \in Entries : /\ Limit[e] \in Nat /\ {Cost[e], Tier[e]} \subseteq Int
                          /\ Harness[e] \in {"cli", "agy", "ollama"}

VARIABLES
    pc,         \* per worker
    cur,        \* per worker: currentEntryID
    tried,      \* per worker: the entries of its attempts, in order
    escalated,  \* per worker: the entries its router is past
    mem,        \* per worker: Usage and ResetAt of its router's entries
    branch,     \* per worker: Result.Branch
    verified,   \* per worker: the tree its gate passed last
    pushed,     \* per worker: the commit its publisher pushed
    iter,       \* per worker: iterations of the agentic loop
    res,        \* per worker: what Run returned: "none", "ok", "error"
    file,       \* the router state file: kind "none", "empty", "bad" or "saved", and its state
    head,       \* the branch checked out in the worktree
    tree,       \* the files of the worktree
    index,      \* what Antigravity's git add -A staged and has not committed
    tip,        \* per branch: its commit, or None
    clock, crashes,
    spent,      \* history: per entry, the dispatches of its window
    unsaved,    \* history: those of them made since the file was last saved
    lost        \* history: those of them that a crash or a failed save forgot

router   == <<cur, tried, escalated, mem>>
worktree == <<head, tree, index, tip>>
outcome  == <<branch, verified, pushed>>
history  == <<spent, unsaved, lost>>
vars == <<pc, router, outcome, iter, res, file, worktree, clock, crashes, history>>

Branches == Workers \cup {"main"}
Empty    == [edits |-> {}, name |-> None]
Fresh    == [e \in Entries |-> [usage |-> 0, reset |-> 0]]   \* reset 0: available
Active   == {w \in Workers : pc[w] \notin {"idle", "done"}}
File(kind, m) == [kind |-> kind, state |-> m]
NoState(kind) == File(kind, Fresh)
Set(f, w, v) == [f EXCEPT ![w] = v]
Go(w, l) == pc' = Set(pc, w, l)

Init ==
    /\ pc = [w \in Workers |-> "idle"]
    /\ cur = [w \in Workers |-> None] /\ tried = [w \in Workers |-> <<>>]
    /\ escalated = [w \in Workers |-> {}] /\ mem = [w \in Workers |-> Fresh]
    /\ branch = [w \in Workers |-> None] /\ verified = [w \in Workers |-> Empty]
    /\ pushed = [w \in Workers |-> Empty] /\ iter = [w \in Workers |-> 0]
    /\ res = [w \in Workers |-> "none"]
    /\ file = NoState("none")
    /\ head = "main" /\ tree = Empty /\ index = Empty
    /\ tip = [b \in Branches |-> IF b = "main" THEN Empty ELSE None]
    /\ clock = 1 /\ crashes = 0
    /\ spent = [e \in Entries |-> 0] /\ unsaved = spent /\ lost = spent

-----------------------------------------------------------------------------
(* The router                                                              *)

isUnlimited(e) == Limit[e] = 0

isLocal(e) == e \notin Secret /\ isUnlimited(e)

(* The cheapest first, then a local one under a sensitive hint, then by ID. *)
less(a, b) ==
    IF Cost[a] # Cost[b] THEN Cost[a] < Cost[b]
    ELSE IF Sensitive /\ isLocal(a) # isLocal(b) THEN isLocal(a)
    ELSE a < b

(* An exhausted entry is available again strictly after its ResetAt.       *)
recovered(m) == {e \in Entries : m[e].reset # 0 /\ clock > m[e].reset}

tryAutoRecover(m) ==
    [e \in Entries |-> IF e \in recovered(m) THEN [usage |-> 0, reset |-> 0] ELSE m[e]]

eligible(m, past) == {e \in Entries \ past : Tier[e] >= MinCapability /\ m[e].reset = 0}

(* Select: the router recovers what it can, and the least eligible entry   *)
(* is chosen, when there is one.                                           *)
Recover(w, m) ==
    LET Zero(f) == [e \in Entries |-> IF e \in recovered(m) THEN 0 ELSE f[e]] IN
    /\ mem' = Set(mem, w, tryAutoRecover(m))
    /\ spent' = Zero(spent) /\ unsaved' = Zero(unsaved) /\ lost' = Zero(lost)

Select(m, past) ==
    LET es == eligible(tryAutoRecover(m), past)
    IN  {e \in es : \A f \in es \ {e} : less(e, f)}

(* Mutant: an entry is exhausted by the dispatch after its last one.       *)
RecordDispatchLate(m, e) ==
    IF isUnlimited(e) THEN m
    ELSE [m EXCEPT ![e] = [usage |-> @.usage + 1,
                           reset |-> IF @.usage + 1 > Limit[e] THEN clock + Window ELSE @.reset]]

RecordDispatch(m, e) ==
    IF isUnlimited(e) THEN m
    ELSE [m EXCEPT ![e] = [usage |-> @.usage + 1,
                           reset |-> IF @.usage + 1 >= Limit[e] THEN clock + Window ELSE @.reset]]

(* LoadState: a missing file is tolerated by resolveExecutor; one that     *)
(* cannot be read has no state to load, which ends the run.                *)
LoadState == IF file.kind \in {"none", "saved"} THEN {file.state} ELSE {}

-----------------------------------------------------------------------------
(* The run: resolveExecutor, the attempts, the publication                 *)

(* A router and a loop end with their run.                                 *)
Forget(W) ==
    /\ tried' = [w \in Workers |-> IF w \in W THEN <<>> ELSE tried[w]]
    /\ escalated' = [w \in Workers |-> IF w \in W THEN {} ELSE escalated[w]]
    /\ mem' = [w \in Workers |-> IF w \in W THEN Fresh ELSE mem[w]]
    /\ iter' = [w \in Workers |-> IF w \in W THEN 0 ELSE iter[w]]

End(w, r) == Go(w, "done") /\ res' = Set(res, w, r)

(* LoadFromEnv under buildCatalog: the environment describes the catalog,  *)
(* or one of its variables is missing, malformed or repeated.              *)
LoadFromEnv(loaded, malformed) == loaded \/ malformed

(* buildExecutorForEntry: only the agentic loop can fail to be built, for  *)
(* its worktree, endpoint or model.                                        *)
buildExecutorForEntry(e, built, refused) == built \/ (Harness[e] = "ollama" /\ refused)

(* Dispatch of an idle task: catalog, state, entry, executor; each failure *)
(* ends the run before the router is saved.                                *)
resolveExecutor(w) ==
    /\ pc[w] = "idle" /\ Cardinality(Active) < Concurrency
    /\ LET fail == UNCHANGED cur /\ End(w, "error")
           failUnloaded == fail /\ UNCHANGED <<mem, history>> IN
       LoadFromEnv(
         \/ LoadState = {} /\ failUnloaded
         \/ \E m \in LoadState :
               /\ Recover(w, m)
               /\ \/ Select(m, {}) = {} /\ fail
                  \/ \E e \in Select(m, {}) : buildExecutorForEntry(e,
                         cur' = Set(cur, w, e) /\ Go(w, "execute") /\ UNCHANGED res, fail),
         failUnloaded)
    /\ UNCHANGED <<tried, escalated, outcome, iter, file, worktree, clock, crashes>>

(* dispatchRecordingExecutor.Run: the attempt is counted before it starts. *)
RunExecutor(w) ==
    /\ pc[w] = "execute"
    /\ mem' = Set(mem, w, RecordDispatch(mem[w], cur[w]))
    /\ IF isUnlimited(cur[w]) THEN UNCHANGED <<spent, unsaved>>
       ELSE /\ spent' = [spent EXCEPT ![cur[w]] = @ + 1]
            /\ unsaved' = [unsaved EXCEPT ![cur[w]] = @ + 1]
    /\ tried' = Set(tried, w, Append(tried[w], cur[w]))
    /\ iter' = Set(iter, w, 0)
    /\ Go(w, Harness[cur[w]])
    /\ UNCHANGED <<cur, escalated, outcome, res, file, worktree, clock, crashes, lost>>

Frame == <<router, pushed, res, file, clock, crashes, history>>

Edited(w) == [tree EXCEPT !.edits = @ \cup {<<w, Len(tried[w])>>}]

(* What a tool does with the git of the worktree it was given: nothing, or *)
(* it commits all of it on the task's branch, which it leaves checked out. *)
runGit(w) ==
    \/ head' = w /\ tip' = Set(tip, w, tree') /\ index' = Empty
    \/ UNCHANGED <<head, tip, index>>

(* The Claude, Codex and Gemini adapters: the tool edits, commits, and     *)
(* reports the branch in its file or its BRANCH line; without a report, or *)
(* when the tool or its token fails, the attempt failed.                   *)
runCLI(w) ==
    /\ pc[w] = "cli"
    /\ tree' \in {tree, Edited(w)} /\ runGit(w)
    /\ \/ branch' = Set(branch, w, w) /\ Go(w, "gate")
       \/ UNCHANGED branch /\ Go(w, "failed")
    /\ UNCHANGED <<Frame, verified, iter>>

(* The Antigravity adapter: the tool edits, and may commit; git add -A and *)
(* git status tell whether there is anything left to commit.               *)
runAgy(w) ==
    /\ pc[w] = "agy"
    /\ tree' \in {tree, Edited(w)}
    /\ \/ /\ UNCHANGED <<head, tip>> /\ tree' # tip[head] /\ index' = tree'
          /\ branch' = Set(branch, w, w) /\ Go(w, "checkout")
       \/ runGit(w) /\ UNCHANGED branch /\ Go(w, "failed")   \* no changes; agy or git failed
    /\ UNCHANGED <<Frame, verified, iter>>

(* The tools of the agentic loop, by what they leave in the tree: a file   *)
(* inside the worktree is written; a command may rewrite files; a path or  *)
(* command that is not allowed, or fails, changes nothing and is answered  *)
(* to the model.                                                           *)
writeFile(w) == {tree, Edited(w)}

(* finish_branch writes the name into the file .agent-branch.              *)
finishBranch(w, t) == {t, [t EXCEPT !.name = w]}

(* An answer of the model with tool calls, in its order; run_command may   *)
(* be git.  The cap ends the attempt.                                      *)
Dispatch(w) ==
    /\ pc[w] = "ollama"
    /\ \E t \in writeFile(w) : tree' \in finishBranch(w, t)
    /\ runGit(w)
    /\ iter' = Set(iter, w, iter[w] + 1)
    /\ IF iter[w] + 1 = MaxIterations THEN Go(w, "failed") ELSE UNCHANGED pc
    /\ UNCHANGED <<Frame, branch, verified>>

(* ExtractBranch: the name in the file, whoever wrote it, if there is one. *)
ExtractBranch == {tree.name} \ {None}

(* The answer without tool calls; or no branch was named, or the chat      *)
(* failed or was cancelled.                                                *)
OllamaReturns(w) ==
    /\ pc[w] = "ollama"
    /\ \/ \E b \in ExtractBranch : branch' = Set(branch, w, b) /\ Go(w, "checkout")
       \/ UNCHANGED branch /\ Go(w, "failed")
    /\ UNCHANGED <<Frame, worktree, verified, iter>>

(* commitWorktree: git checkout -B.                                        *)
Checkout(w) ==
    /\ pc[w] = "checkout"
    /\ \/ head' = branch[w] /\ tip' = Set(tip, branch[w], tip[head]) /\ Go(w, "commit")
       \/ UNCHANGED <<head, tip>> /\ Go(w, "failed")
    /\ UNCHANGED <<Frame, outcome, iter, tree, index>>

(* Mutant: the agentic loop leaves out git add -A and git's error.         *)
CommitStaged(w) ==
    /\ pc[w] = "commit"
    /\ IF index # Empty THEN tip' = Set(tip, head, index) ELSE UNCHANGED tip
    /\ index' = Empty /\ Go(w, "gate")
    /\ UNCHANGED <<Frame, outcome, iter, tree, head>>

(* commitWorktree: the commit, of everything for the agentic loop, of what *)
(* was staged for Antigravity.  git fails when there is nothing to commit, *)
(* or for a reason of its own, which leaves the index staged.              *)
Commit(w) ==
    /\ pc[w] = "commit"
    /\ LET new == IF Harness[cur[w]] = "ollama" THEN tree ELSE index IN
       \/ new # tip[head] /\ tip' = Set(tip, head, new) /\ index' = Empty /\ Go(w, "gate")
       \/ /\ UNCHANGED tip /\ Go(w, "failed")
          /\ index' = IF new # tip[head] THEN new ELSE Empty
    /\ UNCHANGED <<Frame, outcome, iter, tree, head>>

(* Gate.Verify reads the worktree, whatever branch it is on.               *)
Gate(w) ==
    /\ pc[w] = "gate"
    /\ \/ verified' = Set(verified, w, tree) /\ Go(w, "publish")
       \/ UNCHANGED verified /\ Go(w, "failed")
    /\ UNCHANGED <<Frame, worktree, branch, iter>>

(* The last attempt of RetryingLoop.RunOnce failed.                        *)
GiveUp(w) ==
    /\ res' = Set(res, w, "error") /\ Go(w, "save")
    /\ UNCHANGED <<cur, escalated, mem, history>>

(* The rest of the hook: the next cheapest entry, whose executor may not   *)
(* be built, which ends the run; without one the current executor goes on. *)
Reselect(w, past) ==
    /\ Recover(w, mem[w])
    /\ \/ \E e \in Select(mem[w], past) : buildExecutorForEntry(e,
             cur' = Set(cur, w, e) /\ Go(w, "execute") /\ UNCHANGED res,
             UNCHANGED cur /\ Go(w, "save") /\ res' = Set(res, w, "error"))
       \/ Select(mem[w], past) = {} /\ Go(w, "execute") /\ UNCHANGED <<cur, res>>

(* Mutant: the entry that failed is not marked.                            *)
EscalateUnmarked(w) ==
    /\ pc[w] = "failed"
    /\ \/ Len(tried[w]) = MaxAttempts /\ GiveUp(w)
       \/ Len(tried[w]) < MaxAttempts /\ UNCHANGED escalated /\ Reselect(w, escalated[w])
    /\ UNCHANGED <<tried, outcome, iter, file, worktree, clock, crashes>>

(* The escalation hook: the failed entry is marked, OnGateFailure, and the *)
(* next one taken.                                                         *)
Escalate(w) ==
    /\ pc[w] = "failed"
    /\ \/ Len(tried[w]) = MaxAttempts /\ GiveUp(w)
       \/ /\ Len(tried[w]) < MaxAttempts
          /\ escalated' = Set(escalated, w, escalated[w] \cup {cur[w]})
          /\ Reselect(w, escalated'[w])
    /\ UNCHANGED <<tried, outcome, iter, file, worktree, clock, crashes>>

(* Publish: git push of the branch by its name, then the pull request.     *)
Publish(w) ==
    /\ pc[w] = "publish"
    /\ \/ tip[branch[w]] # None
          /\ pushed' = Set(pushed, w, tip[branch[w]]) /\ res' = Set(res, w, "ok")
       \/ UNCHANGED pushed /\ res' = Set(res, w, "error")
    /\ Go(w, "save")
    /\ UNCHANGED <<router, branch, verified, iter, file, worktree, clock, crashes, history>>

(* What no file has is lost with the routers.                              *)
Lose ==
    /\ lost' = [e \in Entries |-> lost[e] + unsaved[e]]
    /\ unsaved' = [e \in Entries |-> 0]

(* SaveState: os.WriteFile truncates, then writes.  A file that cannot be  *)
(* opened is left as it is, and the run ends with the error.               *)
SaveState(w) ==
    /\ pc[w] = "save"
    /\ \/ /\ file' = NoState("empty") /\ Go(w, "write")
          /\ UNCHANGED <<tried, escalated, mem, iter, res, unsaved, lost>>
       \/ UNCHANGED file /\ End(w, "error") /\ Forget({w}) /\ Lose
    /\ UNCHANGED <<cur, outcome, worktree, clock, crashes, spent>>

(* The write starts at offset 0: what another worker wrote since the       *)
(* truncation may stick out behind it.  It may also fail, with nothing or  *)
(* a part written, or only its close may.                                  *)
WriteState(w) ==
    /\ pc[w] = "write"
    /\ \/ /\ file' \in IF file.kind = "empty" THEN {File("saved", mem[w])}
                       ELSE {File("saved", mem[w]), NoState("bad")}
          /\ res' \in {res, Set(res, w, "error")}
          /\ unsaved' = [e \in Entries |-> 0] /\ UNCHANGED lost
       \/ file' \in {file, NoState("bad")} /\ res' = Set(res, w, "error") /\ Lose
    /\ Go(w, "done")
    /\ Forget({w})
    /\ UNCHANGED <<cur, outcome, worktree, clock, crashes, spent>>

-----------------------------------------------------------------------------
Tick ==
    /\ clock < MaxClock
    /\ clock' = clock + 1
    /\ UNCHANGED <<pc, router, outcome, iter, res, file, worktree, crashes, history>>

(* The process dies and is started again: what the routers in memory knew  *)
(* is lost, and a write may be cut short.                                  *)
Crash ==
    /\ Active # {} /\ crashes < MaxCrashes
    /\ crashes' = crashes + 1
    /\ pc' = [w \in Workers |-> IF w \in Active THEN "idle" ELSE pc[w]]
    /\ res' = [w \in Workers |-> IF w \in Active THEN "none" ELSE res[w]]
    /\ file' \in IF \E w \in Workers : pc[w] = "write" THEN {file, NoState("bad")} ELSE {file}
    /\ Forget(Active) /\ Lose
    /\ UNCHANGED <<cur, outcome, worktree, clock, spent>>

Next ==
    \/ \E w \in Workers :
          \/ resolveExecutor(w) \/ RunExecutor(w) \/ runCLI(w) \/ runAgy(w)
          \/ Dispatch(w) \/ OllamaReturns(w) \/ Checkout(w) \/ Commit(w)
          \/ Gate(w) \/ Escalate(w) \/ Publish(w) \/ SaveState(w) \/ WriteState(w)
    \/ Tick \/ Crash

Spec == Init /\ [][Next]_vars

-----------------------------------------------------------------------------
Trees == [edits : SUBSET (Workers \X (1..MaxAttempts)), name : Workers \cup {None}]
States == [Entries -> [usage : Nat, reset : Nat]]

TypeOK ==
    /\ pc \in [Workers -> {"idle", "execute", "cli", "agy", "ollama", "checkout", "commit",
                           "gate", "failed", "publish", "save", "write", "done"}]
    /\ cur \in [Workers -> Entries \cup {None}]
    /\ \A w \in Workers : tried[w] \in Seq(Entries) /\ Len(tried[w]) <= MaxAttempts
    /\ escalated \in [Workers -> SUBSET Entries]
    /\ mem \in [Workers -> States]
    /\ branch \in [Workers -> Branches \cup {None}]
    /\ \A w \in Workers : {verified[w], pushed[w]} \subseteq Trees
    /\ iter \in [Workers -> 0..MaxIterations]
    /\ res \in [Workers -> {"none", "ok", "error"}]
    /\ file \in [kind : {"none", "empty", "bad", "saved"}, state : States]
    /\ head \in Branches /\ {tree, index} \subseteq Trees
    /\ \A b \in Branches : tip[b] = None \/ tip[b] \in Trees
    /\ clock \in 1..MaxClock /\ crashes \in 0..MaxCrashes
    /\ \A f \in {spent, unsaved, lost} : f \in [Entries -> Nat]

CommitsItself(w) == cur[w] # None /\ Harness[cur[w]] \in {"agy", "ollama"}

(* With one worker at a time, a task done by an executor whose adapter     *)
(* makes the commit itself has pushed exactly the tree the gate verified,  *)
(* whatever earlier attempts, tasks and crashes left in the worktree       *)
(* (commitWorktree: the published branch deterministically contains the    *)
(* work).                                                                  *)
PublishedIsVerified ==
    Concurrency = 1 =>
        \A w \in Workers : res[w] = "ok" /\ CommitsItself(w) => pushed[w] = verified[w]

(* The entries of the attempts of a run, in order: none is used a second   *)
(* time while an unlimited one of the recipe's capability is untried.      *)
Climbs(s) ==
    \A j \in DOMAIN s :
        (\E i \in 1..(j - 1) : s[i] = s[j]) =>
            \A e \in Entries :
                isUnlimited(e) /\ Tier[e] >= MinCapability => \E i \in 1..(j - 1) : s[i] = e

(* An executor is used a second time by a dispatch only when no unlimited  *)
(* entry of the recipe's capability is left untried: the quality ladder is *)
(* climbed to its end before the hook degrades to the current executor     *)
(* (newRouterEscalationHook).                                              *)
EscalationClimbs == \A w \in Workers : Climbs(tried[w])

(* With one worker at a time, an entry that is selected has budget left,   *)
(* counting every dispatch of every run of every process in its window,    *)
(* but for those a crash or a failed save made the router forget: one that *)
(* was saved is never forgotten (LoadState before the first Select,        *)
(* SaveState after the last RecordDispatch).                               *)
SpentIsNotSelected ==
    Concurrency = 1 =>
        \A w \in Workers :
            pc[w] = "execute" /\ cur[w] \notin escalated[w] /\ ~isUnlimited(cur[w]) =>
                spent[cur[w]] < Limit[cur[w]] + lost[cur[w]]

(* What the documents say; see README.                                     *)

(* SPEC.md: every executor harness returns a gate-verified branch.         *)
BranchIsGateVerified ==
    \A w \in Workers : res[w] = "ok" => pushed[w] = verified[w]

(* ExtractBranch returns what this task's finish_branch recorded: a task   *)
(* is published on its own branch.                                         *)
PublishedOnOwnBranch ==
    \A w \in Workers : res[w] = "ok" => branch[w] = w

(* run.go: usage is never silently dropped: when no worker is between load *)
(* and save, the file has the usage of every dispatch, but for those of a  *)
(* save that failed and said so.                                           *)
UsageIsPersisted ==
    Active = {} /\ file.kind = "saved" =>
        \A e \in Entries : file.state[e].usage + lost[e] = spent[e]

(* ADR 043: usage must persist across dispatches and across the whole      *)
(* fleet, so that the router does not over-spend a provider: an entry is   *)
(* not selected once the dispatches of its window have reached its limit.  *)
BudgetIsKept ==
    \A w \in Workers :
        pc[w] = "execute" /\ cur[w] \notin escalated[w] /\ ~isUnlimited(cur[w]) =>
            spent[cur[w]] < Limit[cur[w]]
=============================================================================

------------------------- MODULE WorkerFleetProofs -------------------------
(***************************************************************************)
(* Proofs of the safety invariants of WorkerFleet, for any catalog, any    *)
(* number of tasks, attempts, crashes and ticks of the clock; the ones on  *)
(* the shared worktree and the shared state file for one worker at a time. *)
(***************************************************************************)
EXTENDS WorkerFleet, FiniteSetTheorems, WellFoundedInduction, TLAPS

Running == {"execute", "cli", "agy", "ollama", "checkout", "commit", "gate", "failed",
            "publish", "save", "write"}

(* Between the start of an attempt and its end.                            *)
Attempt == {"cli", "agy", "ollama", "checkout", "commit", "gate", "failed", "publish"}

Types ==
    /\ pc \in [Workers -> Running \cup {"idle", "done"}]
    /\ cur \in [Workers -> Entries \cup {None}]
    /\ \A w \in Workers : pc[w] \in Running => cur[w] \in Entries
    /\ DOMAIN tried = Workers /\ \A w \in Workers : tried[w] \in Seq(Entries)
    /\ escalated \in [Workers -> SUBSET Entries]

BudgetTypes ==
    /\ mem \in [Workers -> States] /\ file.state \in States
    /\ clock \in Nat \ {0}
    /\ spent \in [Entries -> Nat] /\ unsaved \in [Entries -> Nat] /\ lost \in [Entries -> Nat]

(* What a router knows of its entries: an unlimited one is never           *)
(* exhausted, and a limited one is as soon as its budget is used up.       *)
Budgeted(m) ==
    \A e \in Entries : IF isUnlimited(e) THEN m[e].reset = 0
                       ELSE m[e].reset = 0 => m[e].usage < Limit[e]

BudgetInv == Budgeted(file.state) /\ \A w \in Workers : Budgeted(mem[w])

(* The router is past the entries that were tried, but for the current one *)
(* during its attempt; one it takes again leaves no unlimited one.         *)
Elems(s) == {s[i] : i \in 1..Len(s)}

LadderAt(w) ==
    /\ pc[w] = "idle" => Elems(tried[w]) = {} /\ escalated[w] = {}
    /\ pc[w] = "execute" => Elems(tried[w]) = escalated[w]
    /\ pc[w] \in Attempt => Elems(tried[w]) = escalated[w] \cup {cur[w]}
    /\ pc[w] = "execute" /\ cur[w] \in escalated[w] =>
          \A e \in Entries : isUnlimited(e) /\ Tier[e] >= MinCapability => e \in escalated[w]
    /\ pc[w] = "execute" /\ cur[w] \notin escalated[w] => mem[w][cur[w]].reset = 0

LadderInv == \A w \in Workers : LadderAt(w)

(* One worker at a time.                                                   *)
AloneInv == \A v, w \in Workers : pc[v] \in Running /\ pc[w] \in Running => v = w

(* The file counts what was spent, but for what was lost and what the      *)
(* worker that runs has still to save.                                     *)
Known(e) == spent[e] <= file.state[e].usage + lost[e] + unsaved[e]

(* The router of the worker that runs counts what was spent but for what   *)
(* was lost.                                                               *)
Counts(m, e) == spent[e] <= m[e].usage + lost[e]

SpentInv ==
    /\ \A w \in Workers : pc[w] \in Running => \A e \in Entries : Counts(mem[w], e)
    /\ file.kind \in {"none", "saved"} => \A e \in Entries : Known(e)
    /\ (\A w \in Workers : pc[w] \notin Running) => \A e \in Entries : unsaved[e] = 0

(* What an adapter that makes the commit itself leads to.                  *)
TreeTypes ==
    /\ DOMAIN tree = {"edits", "name"} /\ tree.name \in Workers \cup {None}
    /\ DOMAIN tip = Branches /\ head \in Branches
    /\ branch \in [Workers -> Branches \cup {None}]
    /\ DOMAIN verified = Workers /\ DOMAIN pushed = Workers /\ DOMAIN res = Workers

BranchInv == \A w \in Workers : pc[w] \in {"checkout", "commit"} => branch[w] \in Branches

CommitAt(w) ==
    /\ pc[w] \in {"cli", "agy", "ollama"} => Harness[cur[w]] = pc[w]
    /\ pc[w] \in {"checkout", "commit"} => /\ Harness[cur[w]] \in {"agy", "ollama"}
                                           /\ Harness[cur[w]] = "agy" => index = tree
    /\ pc[w] = "commit" => head = branch[w]
    /\ pc[w] = "gate" /\ CommitsItself(w) => tip[branch[w]] = tree
    /\ pc[w] = "publish" /\ CommitsItself(w) => tip[branch[w]] = verified[w]
    /\ res[w] = "ok" => pc[w] \in {"save", "write", "done"}
    /\ res[w] = "ok" /\ CommitsItself(w) => pushed[w] = verified[w]

CommitInv == \A w \in Workers : CommitAt(w)

FleetInv ==
    /\ Types /\ BudgetTypes /\ TreeTypes /\ BranchInv /\ BudgetInv /\ LadderInv /\ EscalationClimbs
    /\ Concurrency = 1 => AloneInv /\ SpentInv /\ CommitInv

-----------------------------------------------------------------------------
(* The leaves are Zenon's, but for the ones that say otherwise.            *)
USE ZenonT(30) DEF history

(* The router's choice                                                     *)

(* The order of Select is total and transitive: cost, then locality under  *)
(* a sensitive hint, then the ID.                                          *)
LEMMA LessIsOrder ==
    /\ \A a, b \in Entries : a = b \/ less(a, b) \/ less(b, a)
    /\ \A a, b, c \in Entries : less(a, b) /\ less(b, c) => less(a, c)
    /\ \A a, b \in Entries : less(a, b) => ~ less(b, a)
<1> DEFINE L(e) == isLocal(e)
<1>1. \A e \in Entries : e \in Int /\ Cost[e] \in Int
  BY SMT, FleetAssumption
<1>2. \A a, b : less(a, b) <=> \/ Cost[a] # Cost[b] /\ Cost[a] < Cost[b]
                               \/ Cost[a] = Cost[b] /\ Sensitive /\ L(a) # L(b) /\ L(a)
                               \/ Cost[a] = Cost[b] /\ ~ (Sensitive /\ L(a) # L(b)) /\ a < b
  BY DEF less
<1>3. \A e : L(e) \in BOOLEAN
  BY DEF isLocal
<1> HIDE DEF L
<1> QED
  BY SMT, <1>1, <1>2, <1>3

(* Where there is an entry there is a first one: by the well-foundedness   *)
(* of the finite sets of entries under inclusion.                          *)
LEMMA FirstEntry ==
    ASSUME NEW es \in SUBSET Entries, es # {}
    PROVE  \E e \in es : \A f \in es \ {e} : less(e, f)
<1> DEFINE First(X, e) == \A f \in X \ {e} : less(e, f)
           R   == StrictSubsetOrdering(Entries)
           FE  == FiniteSubsetsOf(Entries)
           Bad == {X \in FE : X # {} /\ \A e \in X : ~ First(X, e)}
<1>1. IsWellFoundedOn(R, FE)
  BY FS_StrictSubsetOrderingWellFounded
<1>2. \A X \in SUBSET Entries : X \in FE
  BY FleetAssumption, FS_Subset DEF FiniteSubsetsOf
<1>3. \A X, Y \in SUBSET Entries : X \subseteq Y /\ X # Y => <<X, Y>> \in R
  BY DEF StrictSubsetOrdering
<1>4. Bad \subseteq FE /\ FE \subseteq SUBSET Entries
  BY DEF FiniteSubsetsOf
<1> HIDE DEF R, FE
<1>5. ASSUME NEW X \in Bad
      PROVE  \E Y \in Bad : <<Y, X>> \in R
  <2>1. PICK x \in X : x \in Entries
    BY <1>4
  <2>2. X \ {x} # {}
    <3>1. X \ {x} = {} => First(X, x)
      OBVIOUS
    <3> QED
      BY <3>1
  <2>3. X \ {x} \in SUBSET Entries /\ <<X \ {x}, X>> \in R
    BY <1>3, <1>4, <2>1
  <2>4. ASSUME NEW y \in X \ {x}, First(X \ {x}, y)
        PROVE  FALSE
    <3>1. x \in Entries /\ y \in Entries /\ x # y /\ X \subseteq Entries
      BY <1>4
    <3>2. CASE less(y, x)
      <4>1. First(X, y)
        BY <2>4, <3>2
      <4> QED
        BY <4>1
    <3>3. CASE less(x, y)
      <4>1. ASSUME NEW f \in X \ {x}
            PROVE  less(x, f)
        <5>1. CASE f = y
          BY <3>3, <5>1
        <5>2. CASE f # y
          <6>1. less(y, f) /\ f \in Entries
            BY SMT, <2>4, <3>1, <5>2
          <6> QED
            BY <3>1, <3>3, <6>1, LessIsOrder
        <5> QED
          BY <5>1, <5>2
      <4>2. First(X, x)
        BY <4>1
      <4> QED
        BY <4>2
    <3> QED
      BY <3>1, <3>2, <3>3, LessIsOrder
  <2>5. X \ {x} \in Bad
    BY <1>2, <2>2, <2>3, <2>4
  <2> QED
    BY <2>3, <2>5
<1>6. Bad = {}
  <2> HIDE DEF Bad
  <2> QED
    BY <1>1, <1>4, <1>5, WFMin
<1> QED
  BY <1>2, <1>6

(* What Select returns is eligible, and a single entry; it returns one     *)
(* whenever one is eligible after the recovery.                            *)
LEMMA SelectIsFirst ==
    ASSUME NEW m, NEW past
    PROVE  /\ \A e \in Select(m, past) : /\ e \in Entries /\ e \notin past
                                         /\ Tier[e] >= MinCapability
                                         /\ tryAutoRecover(m)[e].reset = 0
           /\ \A e, f \in Select(m, past) : e = f
           /\ Select(m, past) = {} => eligible(tryAutoRecover(m), past) = {}
<1> DEFINE es == eligible(tryAutoRecover(m), past)
<1>1. es \in SUBSET Entries
  BY DEF eligible
<1>2. Select(m, past) = {e \in es : \A f \in es \ {e} : less(e, f)}
  BY DEF Select
<1>3. \A e \in es : /\ e \in Entries /\ e \notin past /\ Tier[e] >= MinCapability
                    /\ tryAutoRecover(m)[e].reset = 0
  BY DEF eligible
<1> HIDE DEF es
<1>4. es # {} => Select(m, past) # {}
  BY <1>1, <1>2, FirstEntry
<1>5. \A e, f \in Select(m, past) : e = f
  BY <1>1, <1>2, LessIsOrder
<1> QED
  BY <1>2, <1>3, <1>4, <1>5 DEF es

(* The recovery and the count of a dispatch keep the form of the state.    *)
LEMMA RecoverType ==
    ASSUME NEW m \in States
    PROVE  tryAutoRecover(m) \in States
  BY DEF tryAutoRecover, States

(* RecordDispatch keeps the form of a router's state.                      *)
LEMMA RecordType ==
    ASSUME NEW m \in States, NEW e \in Entries, clock \in Nat
    PROVE  RecordDispatch(m, e) \in States
  BY SMT, FleetAssumption DEF RecordDispatch, States

(* They keep the budgets: an entry whose last dispatch is counted is       *)
(* exhausted from then on, as the clock is never 0.                        *)
LEMMA RecoverBudget ==
    ASSUME NEW m \in States, Budgeted(m)
    PROVE  Budgeted(tryAutoRecover(m))
  BY SMT, FleetAssumption DEF tryAutoRecover, Budgeted, isUnlimited, States

(* RecordDispatch keeps the budgets.                                       *)
LEMMA RecordBudget ==
    ASSUME NEW m \in States, NEW e \in Entries, clock \in Nat \ {0}, Budgeted(m)
    PROVE  Budgeted(RecordDispatch(m, e))
  BY SMT, FleetAssumption DEF RecordDispatch, Budgeted, isUnlimited, States

(* An unlimited entry that is not eligible is behind the router, or below  *)
(* the recipe's floor.                                                     *)
LEMMA UnlimitedStays ==
    ASSUME NEW m \in States, Budgeted(m), NEW past, Select(m, past) = {},
           NEW e \in Entries, isUnlimited(e), Tier[e] >= MinCapability
    PROVE  e \in past
<1>1. tryAutoRecover(m)[e].reset = 0
  BY RecoverBudget DEF Budgeted
<1> QED
  BY <1>1, SelectIsFirst DEF eligible

(* The two places that select.                                             *)
LEMMA ResolveCases ==
    ASSUME NEW w \in Workers, resolveExecutor(w)
    PROVE  /\ pc[w] = "idle" /\ Cardinality(Active) < Concurrency
           /\ UNCHANGED <<tried, escalated, outcome, iter, file, worktree, clock, crashes>>
           /\ \/ UNCHANGED <<cur, mem, history>> /\ End(w, "error")
              \/ \E m \in LoadState :
                    /\ Recover(w, m)
                    /\ \/ UNCHANGED cur /\ End(w, "error")
                       \/ /\ \E e \in Select(m, {}) : cur' = Set(cur, w, e)
                          /\ Go(w, "execute") /\ UNCHANGED res
  BY DEF resolveExecutor, LoadFromEnv, buildExecutorForEntry

(* Escalate ends the worker, or selects among what was not tried.          *)
LEMMA EscalateCases ==
    ASSUME Types, NEW w \in Workers, Escalate(w)
    PROVE  LET past == escalated[w] \cup {cur[w]} IN
           /\ pc[w] = "failed"
           /\ UNCHANGED <<tried, outcome, iter, file, worktree, clock, crashes>>
           /\ \/ GiveUp(w)
              \/ /\ escalated' = Set(escalated, w, past)
                 /\ Recover(w, mem[w])
                 /\ \/ UNCHANGED cur /\ Go(w, "save") /\ res' = Set(res, w, "error")
                    \/ /\ \E e \in Select(mem[w], past) : cur' = Set(cur, w, e)
                       /\ Go(w, "execute") /\ UNCHANGED res
                    \/ /\ Select(mem[w], past) = {}
                       /\ Go(w, "execute") /\ UNCHANGED <<cur, res>>
<1> DEFINE past == escalated[w] \cup {cur[w]}
<1>1. escalated' = Set(escalated, w, past) => escalated'[w] = past
  BY DEF Types, Set
<1> QED
  BY <1>1 DEF Escalate, Reselect, buildExecutorForEntry

(* The harness of an entry is one of the adapters' three.                  *)
LEMMA HarnessKinds == \A e \in Entries : Harness[e] \in {"cli", "agy", "ollama"}
  BY FleetAssumption

(* A router without a state file starts with every budget.                 *)
LEMMA FreshState == Fresh \in States /\ Budgeted(Fresh)
  BY SMT, FleetAssumption DEF Fresh, States, Budgeted, isUnlimited

(* What the state file holds after a save or a truncation.                 *)
LEMMA FileHolds ==
    /\ \A k, m : File(k, m).kind = k /\ File(k, m).state = m
    /\ \A k : NoState(k).kind = k /\ NoState(k).state = Fresh
  BY SMT DEF File, NoState

(* A router's state counts dispatches and remembers a reset.               *)
LEMMA StateCounts ==
    ASSUME NEW m \in States, NEW e \in Entries
    PROVE  m[e].usage \in Nat /\ m[e].reset \in Nat
  BY SMT DEF States

(* What a save does to the worker and the file.                            *)
LEMMA SaveCases ==
    ASSUME NEW w \in Workers, SaveState(w)
    PROVE  /\ pc[w] = "save" /\ UNCHANGED <<cur, outcome, worktree, clock, spent>>
           /\ \/ /\ file' = NoState("empty") /\ Go(w, "write")
                 /\ UNCHANGED <<tried, escalated, mem, iter, res, unsaved, lost>>
              \/ /\ UNCHANGED file /\ Go(w, "done") /\ Forget({w}) /\ Lose
                 /\ res' = Set(res, w, "error")
  BY DEF SaveState, End

(* A write leaves the worker's state in the file, or nothing new.          *)
LEMMA WriteCases ==
    ASSUME NEW w \in Workers, WriteState(w)
    PROVE  /\ pc[w] = "write" /\ Go(w, "done") /\ Forget({w})
           /\ UNCHANGED <<cur, outcome, worktree, clock, spent>>
           /\ res' \in {res, Set(res, w, "error")}
           /\ \/ /\ file' \in {File("saved", mem[w]), NoState("bad")}
                 /\ unsaved' = [e \in Entries |-> 0] /\ UNCHANGED lost
              \/ file' \in {file, NoState("bad")} /\ Lose
  BY DEF WriteState

(* Every step keeps the types of what a worker is at, ...                  *)
LEMMA TypesStep ==
    ASSUME Types, [Next]_vars
    PROVE  Types'
<1> USE DEF Go, Set, Types, Running
<1>1. ASSUME NEW w \in Workers, resolveExecutor(w) PROVE Types'
  <2>0. \A m : \A e \in Select(m, {}) : e \in Entries
    BY SelectIsFirst
  <2>1. /\ pc[w] = "idle" /\ UNCHANGED <<tried, escalated, file, clock>>
        /\ UNCHANGED outcome /\ UNCHANGED worktree
    BY <1>1, ResolveCases
  <2>2. CASE UNCHANGED <<cur, mem, history>> /\ End(w, "error")
    BY <2>1, <2>2 DEF End
  <2>3. CASE \E m \in LoadState : Recover(w, m) /\ UNCHANGED cur /\ End(w, "error")
    BY <2>0, <2>1, <2>3 DEF End
  <2>4. ASSUME NEW m \in LoadState, Recover(w, m), NEW e \in Select(m, {}), cur' = Set(cur, w, e),
               Go(w, "execute"), UNCHANGED res
        PROVE  Types'
    BY SMT, <2>0, <2>1, <2>4
  <2> QED
    BY <1>1, <2>2, <2>3, <2>4, ResolveCases
<1>2. ASSUME NEW w \in Workers, RunExecutor(w) PROVE Types'
  <2>1. cur[w] \in Entries /\ Harness[cur[w]] \in {"cli", "agy", "ollama"}
    BY <1>2, HarnessKinds DEF RunExecutor
  <2>2. tried' = Set(tried, w, Append(tried[w], cur[w])) /\ Go(w, Harness[cur[w]]) /\ UNCHANGED <<cur, escalated>>
    BY <1>2 DEF RunExecutor
  <2>3. Append(tried[w], cur[w]) \in Seq(Entries)
    BY SMT, <2>1
  <2> QED
    BY <2>1, <2>2, <2>3
<1>3. ASSUME NEW w \in Workers, runCLI(w) PROVE Types'
  BY <1>3 DEF runCLI, runGit, Frame, router
<1>4. ASSUME NEW w \in Workers, runAgy(w) PROVE Types'
  BY <1>4 DEF runAgy, runGit, Frame, router
<1>5. ASSUME NEW w \in Workers, Dispatch(w) PROVE Types'
  BY <1>5 DEF Dispatch, runGit, writeFile, finishBranch, Frame, router
<1>6. ASSUME NEW w \in Workers, OllamaReturns(w) PROVE Types'
  BY <1>6 DEF OllamaReturns, ExtractBranch, Frame, router, worktree
<1>7. ASSUME NEW w \in Workers, Checkout(w) PROVE Types'
  BY <1>7 DEF Checkout, Frame, router, outcome
<1>8. ASSUME NEW w \in Workers, Commit(w) PROVE Types'
  BY <1>8 DEF Commit, Frame, router, outcome
<1>9. ASSUME NEW w \in Workers, Gate(w) PROVE Types'
  BY <1>9 DEF Gate, Frame, router, worktree
<1>10. ASSUME NEW w \in Workers, Escalate(w) PROVE Types'
  <2>0. \A m, past : \A e \in Select(m, past) : e \in Entries
    BY SelectIsFirst
  <2> DEFINE past == escalated[w] \cup {cur[w]}
  <2>1. /\ pc[w] = "failed" /\ UNCHANGED <<tried, file, clock>> /\ UNCHANGED outcome /\ UNCHANGED worktree
    BY <1>10, EscalateCases
  <2>2. CASE GiveUp(w)
    BY <2>1, <2>2 DEF GiveUp
  <2>3. CASE /\ escalated' = Set(escalated, w, past) /\ Recover(w, mem[w])
             /\ UNCHANGED cur /\ Go(w, "save") /\ res' = Set(res, w, "error")
    BY <2>0, <2>1, <2>3
  <2>4. ASSUME escalated' = Set(escalated, w, past), Recover(w, mem[w]),
               NEW e \in Select(mem[w], past), cur' = Set(cur, w, e), Go(w, "execute"), UNCHANGED res
        PROVE  Types'
    BY SMT, <2>0, <2>1, <2>4
  <2>5. CASE /\ escalated' = Set(escalated, w, past) /\ Recover(w, mem[w])
             /\ Go(w, "execute") /\ UNCHANGED <<cur, res>> /\ Select(mem[w], past) = {}
    BY <2>0, <2>1, <2>5
  <2> HIDE DEF Types
  <2> QED
    BY <1>10, <2>2, <2>3, <2>4, <2>5, EscalateCases
<1>11. ASSUME NEW w \in Workers, Publish(w) PROVE Types'
  BY <1>11 DEF Publish, router, worktree
<1>12. ASSUME NEW w \in Workers, SaveState(w) PROVE Types'
  <2>1. CASE Go(w, "write") /\ UNCHANGED <<tried, escalated>>
    BY <1>12, <2>1, SaveCases
  <2>2. CASE Go(w, "done") /\ Forget({w})
    <3>1. UNCHANGED cur
      BY <1>12, SaveCases
    <3> QED
      BY SMT, <2>2, <3>1 DEF Forget
  <2> QED
    BY <1>12, <2>1, <2>2, SaveCases
<1>13. ASSUME NEW w \in Workers, WriteState(w) PROVE Types'
  BY SMT, <1>13 DEF WriteState, Forget, Lose, outcome, worktree, NoState, File
<1>14. ASSUME Tick PROVE Types'
  BY <1>14 DEF Tick, router, outcome, worktree
<1>15. ASSUME Crash PROVE Types'
  BY SMT, <1>15 DEF Crash, Forget, Active, outcome, worktree, NoState, File
<1>16. ASSUME UNCHANGED vars PROVE Types'
  BY <1>16 DEF vars, router, outcome, worktree
<1> QED
  BY <1>1, <1>2, <1>3, <1>4, <1>5, <1>6, <1>7, <1>8, <1>9, <1>10, <1>11, <1>12, <1>13, <1>14, <1>15, <1>16 DEF Next

(* ... and of what the routers and the file know.                          *)
LEMMA BudgetTypesStep ==
    ASSUME Types, BudgetTypes, [Next]_vars
    PROVE  BudgetTypes'
<1> USE DEF Go, Set, BudgetTypes
<1>1. ASSUME NEW w \in Workers, resolveExecutor(w) PROVE BudgetTypes'
  <2>0. Recover(w, file.state) => /\ mem' \in [Workers -> States] /\ spent' \in [Entries -> Nat]
                                  /\ unsaved' \in [Entries -> Nat] /\ lost' \in [Entries -> Nat]
    BY SMT, RecoverType DEF Recover
  <2>1. /\ pc[w] = "idle" /\ UNCHANGED <<tried, escalated, file, clock>>
        /\ UNCHANGED outcome /\ UNCHANGED worktree
    BY <1>1, ResolveCases
  <2>2. CASE UNCHANGED <<cur, mem, history>> /\ End(w, "error")
    BY <2>1, <2>2 DEF End, LoadState
  <2>3. CASE \E m \in LoadState : Recover(w, m) /\ UNCHANGED cur /\ End(w, "error")
    BY <2>0, <2>1, <2>3 DEF End, LoadState
  <2>4. ASSUME NEW m \in LoadState, Recover(w, m), NEW e \in Select(m, {}), cur' = Set(cur, w, e),
               Go(w, "execute"), UNCHANGED res
        PROVE  BudgetTypes'
    BY <2>0, <2>1, <2>4 DEF LoadState
  <2> QED
    BY <1>1, <2>2, <2>3, <2>4, ResolveCases
<1>2. ASSUME NEW w \in Workers, RunExecutor(w) PROVE BudgetTypes'
  <2>0. cur[w] \in Entries
    BY <1>2 DEF RunExecutor, Types, Running
  <2>1. mem' \in [Workers -> States]
    BY <1>2, <2>0, RecordType DEF RunExecutor
  <2>2. spent' \in [Entries -> Nat] /\ unsaved' \in [Entries -> Nat]
    <3>1. \/ UNCHANGED <<spent, unsaved>>
          \/ /\ spent' = [spent EXCEPT ![cur[w]] = @ + 1]
             /\ unsaved' = [unsaved EXCEPT ![cur[w]] = @ + 1]
      BY <1>2 DEF RunExecutor
    <3>2. spent[cur[w]] \in Nat /\ unsaved[cur[w]] \in Nat
      BY <2>0
    <3> QED
      BY SMT, <2>0, <3>1, <3>2
  <2> QED
    BY <1>2, <2>1, <2>2 DEF RunExecutor
<1>3. ASSUME NEW w \in Workers, runCLI(w) PROVE BudgetTypes'
  BY <1>3 DEF runCLI, runGit, Frame, router
<1>4. ASSUME NEW w \in Workers, runAgy(w) PROVE BudgetTypes'
  BY <1>4 DEF runAgy, runGit, Frame, router
<1>5. ASSUME NEW w \in Workers, Dispatch(w) PROVE BudgetTypes'
  BY <1>5 DEF Dispatch, runGit, writeFile, finishBranch, Frame, router
<1>6. ASSUME NEW w \in Workers, OllamaReturns(w) PROVE BudgetTypes'
  BY <1>6 DEF OllamaReturns, ExtractBranch, Frame, router, worktree
<1>7. ASSUME NEW w \in Workers, Checkout(w) PROVE BudgetTypes'
  BY <1>7 DEF Checkout, Frame, router, outcome
<1>8. ASSUME NEW w \in Workers, Commit(w) PROVE BudgetTypes'
  BY <1>8 DEF Commit, Frame, router, outcome
<1>9. ASSUME NEW w \in Workers, Gate(w) PROVE BudgetTypes'
  BY <1>9 DEF Gate, Frame, router, worktree
<1>10. ASSUME NEW w \in Workers, Escalate(w) PROVE BudgetTypes'
  <2>0. Recover(w, mem[w]) => /\ mem' \in [Workers -> States] /\ spent' \in [Entries -> Nat]
                              /\ unsaved' \in [Entries -> Nat] /\ lost' \in [Entries -> Nat]
    BY SMT, RecoverType DEF Recover
  <2> DEFINE past == escalated[w] \cup {cur[w]}
  <2>1. /\ pc[w] = "failed" /\ UNCHANGED <<tried, file, clock>> /\ UNCHANGED outcome /\ UNCHANGED worktree
    BY <1>10, EscalateCases
  <2>2. CASE GiveUp(w)
    BY <2>1, <2>2 DEF GiveUp
  <2>3. CASE /\ escalated' = Set(escalated, w, past) /\ Recover(w, mem[w])
             /\ UNCHANGED cur /\ Go(w, "save") /\ res' = Set(res, w, "error")
    BY <2>0, <2>1, <2>3
  <2>4. ASSUME escalated' = Set(escalated, w, past), Recover(w, mem[w]),
               NEW e \in Select(mem[w], past), cur' = Set(cur, w, e), Go(w, "execute"), UNCHANGED res
        PROVE  BudgetTypes'
    BY <2>0, <2>1, <2>4
  <2>5. CASE /\ escalated' = Set(escalated, w, past) /\ Recover(w, mem[w])
             /\ Go(w, "execute") /\ UNCHANGED <<cur, res>> /\ Select(mem[w], past) = {}
    BY <2>0, <2>1, <2>5
  <2> HIDE DEF Types
  <2> QED
    BY <1>10, <2>2, <2>3, <2>4, <2>5, EscalateCases
<1>11. ASSUME NEW w \in Workers, Publish(w) PROVE BudgetTypes'
  BY <1>11 DEF Publish, router, worktree
<1>l. Lose => unsaved' \in [Entries -> Nat] /\ lost' \in [Entries -> Nat]
  BY SMT DEF Lose
<1>t. \A W : Forget(W) => mem' \in [Workers -> States]
  BY FreshState DEF Forget
<1>12. ASSUME NEW w \in Workers, SaveState(w) PROVE BudgetTypes'
  <2>1. file'.state \in States
    BY <1>12, SaveCases, FileHolds, FreshState
  <2> QED
    BY <1>12, <1>l, <1>t, <2>1, SaveCases
<1>13. ASSUME NEW w \in Workers, WriteState(w) PROVE BudgetTypes'
  <2>1. file'.state \in States
    <3>1. file' \in {File("saved", mem[w]), NoState("bad"), file}
      BY <1>13, WriteCases
    <3>2. mem[w] \in States /\ file.state \in States
      OBVIOUS
    <3> HIDE DEF BudgetTypes
    <3>3. CASE file' = File("saved", mem[w])
      BY <3>2, <3>3, FileHolds
    <3>4. CASE file' = NoState("bad")
      BY <3>4, FileHolds, FreshState
    <3> QED
      BY <3>1, <3>2, <3>3, <3>4
  <2>2. unsaved' \in [Entries -> Nat] /\ lost' \in [Entries -> Nat]
    <3>1. CASE unsaved' = [e \in Entries |-> 0] /\ UNCHANGED lost
      BY SMT, <3>1
    <3>2. CASE Lose
      BY <1>l, <3>2
    <3> QED
      BY <1>13, <3>1, <3>2, WriteCases
  <2> QED
    BY <1>13, <1>t, <2>1, <2>2, WriteCases
<1>14. ASSUME Tick PROVE BudgetTypes'
  BY SMT, <1>14 DEF Tick, router, outcome, worktree
<1>15. ASSUME Crash PROVE BudgetTypes'
  <2>1. file'.state \in States
    BY <1>15, FileHolds, FreshState DEF Crash
  <2> QED
    BY <1>15, <1>l, <1>t, <2>1 DEF Crash
<1>16. ASSUME UNCHANGED vars PROVE BudgetTypes'
  BY <1>16 DEF vars, router, outcome, worktree
<1> QED
  BY <1>1, <1>2, <1>3, <1>4, <1>5, <1>6, <1>7, <1>8, <1>9, <1>10, <1>11, <1>12, <1>13, <1>14, <1>15, <1>16 DEF Next

(* An edit or a finish_branch leaves the file with the branch's name, or   *)
(* the name of the task in it.                                             *)
LEMMA EditedTree ==
    ASSUME TreeTypes, NEW w \in Workers
    PROVE  \A t \in {tree, Edited(w)} : \A u \in finishBranch(w, t) \cup {t} :
               DOMAIN u = {"edits", "name"} /\ u.name \in Workers \cup {None}
<1>1. \A t \in {tree, Edited(w)} : DOMAIN t = {"edits", "name"} /\ t.name = tree.name
  BY DEF TreeTypes, Edited
<1>2. \A t : DOMAIN t = {"edits", "name"} =>
               LET u == [t EXCEPT !.name = w] IN DOMAIN u = {"edits", "name"} /\ u.name = w
  OBVIOUS
<1> QED
  BY <1>1, <1>2 DEF finishBranch, TreeTypes

(* The worktree and its branches have their types.                         *)
LEMMA TreeTypesStep ==
    ASSUME Types, TreeTypes, BranchInv, [Next]_vars
    PROVE  TreeTypes'
<1> USE DEF Go, Set, TreeTypes, Branches
<1>1. ASSUME NEW w \in Workers, resolveExecutor(w) PROVE TreeTypes'
  BY <1>1, ResolveCases DEF outcome, worktree, End
<1>2. ASSUME NEW w \in Workers, RunExecutor(w) PROVE TreeTypes'
  BY <1>2 DEF RunExecutor, worktree, outcome
<1>3. ASSUME NEW w \in Workers, runCLI(w) PROVE TreeTypes'
  <2> HIDE DEF TreeTypes
  <2>1. DOMAIN tree' = {"edits", "name"} /\ tree'.name \in Workers \cup {None}
    BY <1>3, EditedTree DEF runCLI
  <2> USE DEF TreeTypes
  <2> QED
    BY <1>3, <2>1 DEF runCLI, runGit, Frame, router
<1>4. ASSUME NEW w \in Workers, runAgy(w) PROVE TreeTypes'
  <2> HIDE DEF TreeTypes
  <2>1. DOMAIN tree' = {"edits", "name"} /\ tree'.name \in Workers \cup {None}
    BY <1>4, EditedTree DEF runAgy
  <2> USE DEF TreeTypes
  <2> QED
    BY <1>4, <2>1 DEF runAgy, runGit, Frame, router
<1>5. ASSUME NEW w \in Workers, Dispatch(w) PROVE TreeTypes'
  <2> HIDE DEF TreeTypes
  <2>1. DOMAIN tree' = {"edits", "name"} /\ tree'.name \in Workers \cup {None}
    BY <1>5, EditedTree DEF Dispatch, writeFile
  <2> USE DEF TreeTypes
  <2> QED
    BY <1>5, <2>1 DEF Dispatch, runGit, Frame, router
<1>6. ASSUME NEW w \in Workers, OllamaReturns(w) PROVE TreeTypes'
  BY <1>6 DEF OllamaReturns, ExtractBranch, Frame, router, worktree
<1>7. ASSUME NEW w \in Workers, Checkout(w) PROVE TreeTypes'
  BY <1>7 DEF Checkout, Frame, router, outcome, BranchInv
<1>8. ASSUME NEW w \in Workers, Commit(w) PROVE TreeTypes'
  BY <1>8 DEF Commit, Frame, router, outcome
<1>9. ASSUME NEW w \in Workers, Gate(w) PROVE TreeTypes'
  BY <1>9 DEF Gate, Frame, router, worktree
<1>10. ASSUME NEW w \in Workers, Escalate(w) PROVE TreeTypes'
  BY <1>10, EscalateCases DEF outcome, worktree, GiveUp
<1>11. ASSUME NEW w \in Workers, Publish(w) PROVE TreeTypes'
  BY <1>11 DEF Publish, router, worktree
<1>12. ASSUME NEW w \in Workers, SaveState(w) PROVE TreeTypes'
  BY <1>12 DEF SaveState, End, Forget, Lose, outcome, worktree, NoState, File
<1>13. ASSUME NEW w \in Workers, WriteState(w) PROVE TreeTypes'
  BY <1>13 DEF WriteState, Forget, Lose, outcome, worktree, NoState, File
<1>14. ASSUME Tick PROVE TreeTypes'
  BY <1>14 DEF Tick, router, outcome, worktree
<1>15. ASSUME Crash PROVE TreeTypes'
  BY <1>15 DEF Crash, Forget, Active, outcome, worktree, NoState, File
<1>16. ASSUME UNCHANGED vars PROVE TreeTypes'
  BY <1>16 DEF vars, router, outcome, worktree
<1> QED
  BY <1>1, <1>2, <1>3, <1>4, <1>5, <1>6, <1>7, <1>8, <1>9, <1>10, <1>11, <1>12, <1>13, <1>14, <1>15, <1>16 DEF Next

(* A checkout has a branch to check out.                                   *)
LEMMA BranchStep ==
    ASSUME Types, TreeTypes, BranchInv, [Next]_vars
    PROVE  BranchInv'
<1> USE DEF Go, Set, Types, Running, BranchInv
<1>1. ASSUME NEW w \in Workers, resolveExecutor(w) PROVE BranchInv'
  BY <1>1, ResolveCases DEF outcome, End
<1>2. ASSUME NEW w \in Workers, RunExecutor(w) PROVE BranchInv'
  <2>1. Harness[cur[w]] \in {"cli", "agy", "ollama"}
    BY <1>2, HarnessKinds DEF RunExecutor
  <2> QED
    BY <1>2, <2>1 DEF RunExecutor, outcome
<1>3. ASSUME NEW w \in Workers, runCLI(w) PROVE BranchInv'
  <2>1. \/ \E b \in Workers : branch' = Set(branch, w, b) /\ Go(w, "gate")
        \/ UNCHANGED branch /\ Go(w, "failed")
    BY <1>3 DEF runCLI
  <2>2. branch \in [Workers -> Branches \cup {None}] /\ Workers \subseteq Branches
    BY DEF TreeTypes, Branches
  <2> QED
    BY <2>1, <2>2
<1>4. ASSUME NEW w \in Workers, runAgy(w) PROVE BranchInv'
  <2>1. \/ \E b \in Workers : branch' = Set(branch, w, b) /\ Go(w, "checkout")
        \/ UNCHANGED branch /\ Go(w, "failed")
    BY <1>4 DEF runAgy
  <2>2. branch \in [Workers -> Branches \cup {None}] /\ Workers \subseteq Branches
    BY DEF TreeTypes, Branches
  <2> QED
    BY SMT, <2>1, <2>2
<1>5. ASSUME NEW w \in Workers, Dispatch(w) PROVE BranchInv'
  BY <1>5 DEF Dispatch, runGit, writeFile, finishBranch, Frame, router
<1>6. ASSUME NEW w \in Workers, OllamaReturns(w) PROVE BranchInv'
  <2>1. \/ \E b \in Workers : branch' = Set(branch, w, b) /\ Go(w, "checkout")
        \/ UNCHANGED branch /\ Go(w, "failed")
    BY <1>6 DEF OllamaReturns, ExtractBranch, TreeTypes
  <2>2. branch \in [Workers -> Branches \cup {None}] /\ Workers \subseteq Branches
    BY DEF TreeTypes, Branches
  <2> QED
    BY SMT, <2>1, <2>2
<1>7. ASSUME NEW w \in Workers, Checkout(w) PROVE BranchInv'
  BY <1>7 DEF Checkout, Frame, router, outcome
<1>8. ASSUME NEW w \in Workers, Commit(w) PROVE BranchInv'
  BY <1>8 DEF Commit, Frame, router, outcome
<1>9. ASSUME NEW w \in Workers, Gate(w) PROVE BranchInv'
  BY <1>9 DEF Gate, Frame, router, worktree
<1>10. ASSUME NEW w \in Workers, Escalate(w) PROVE BranchInv'
  <2> HIDE DEF Types
  <2>1. pc' \in {Set(pc, w, "execute"), Set(pc, w, "save")} /\ UNCHANGED branch
    BY <1>10, EscalateCases DEF outcome, GiveUp
  <2> USE DEF Types
  <2> QED
    BY <2>1
<1>11. ASSUME NEW w \in Workers, Publish(w) PROVE BranchInv'
  BY <1>11 DEF Publish, router, worktree
<1>12. ASSUME NEW w \in Workers, SaveState(w) PROVE BranchInv'
  BY <1>12 DEF SaveState, End, Forget, Lose, outcome, worktree, NoState, File
<1>13. ASSUME NEW w \in Workers, WriteState(w) PROVE BranchInv'
  BY <1>13 DEF WriteState, Forget, Lose, outcome, worktree, NoState, File
<1>14. ASSUME Tick PROVE BranchInv'
  BY <1>14 DEF Tick, router, outcome, worktree
<1>15. ASSUME Crash PROVE BranchInv'
  BY <1>15 DEF Crash, Forget, Active, outcome, worktree, NoState, File
<1>16. ASSUME UNCHANGED vars PROVE BranchInv'
  BY <1>16 DEF vars, router, outcome, worktree
<1> QED
  BY <1>1, <1>2, <1>3, <1>4, <1>5, <1>6, <1>7, <1>8, <1>9, <1>10, <1>11, <1>12, <1>13, <1>14, <1>15, <1>16 DEF Next

(* Every router, and the file, knows of an exhausted entry that it is.     *)
LEMMA BudgetStep ==
    ASSUME Types, BudgetTypes, BudgetInv, [Next]_vars
    PROVE  BudgetInv'
<1> USE DEF Go, Set, BudgetTypes, BudgetInv
<1>1. ASSUME NEW w \in Workers, resolveExecutor(w) PROVE BudgetInv'
  <2>1. \A m \in LoadState : m = file.state
    BY DEF LoadState
  <2>2. UNCHANGED file /\ (UNCHANGED mem \/ mem' = Set(mem, w, tryAutoRecover(file.state)))
    BY <1>1, <2>1, ResolveCases DEF Recover
  <2> QED
    BY <2>2, RecoverBudget
<1>2. ASSUME NEW w \in Workers, RunExecutor(w) PROVE BudgetInv'
  <2>1. cur[w] \in Entries
    BY <1>2 DEF RunExecutor, Types, Running
  <2>2. UNCHANGED file /\ mem' = Set(mem, w, RecordDispatch(mem[w], cur[w]))
    BY <1>2 DEF RunExecutor
  <2> QED
    BY <2>1, <2>2, RecordBudget
<1>3. ASSUME NEW w \in Workers, runCLI(w) PROVE BudgetInv'
  BY <1>3 DEF runCLI, runGit, Frame, router
<1>4. ASSUME NEW w \in Workers, runAgy(w) PROVE BudgetInv'
  BY <1>4 DEF runAgy, runGit, Frame, router
<1>5. ASSUME NEW w \in Workers, Dispatch(w) PROVE BudgetInv'
  BY <1>5 DEF Dispatch, runGit, writeFile, finishBranch, Frame, router
<1>6. ASSUME NEW w \in Workers, OllamaReturns(w) PROVE BudgetInv'
  BY <1>6 DEF OllamaReturns, ExtractBranch, Frame, router, worktree
<1>7. ASSUME NEW w \in Workers, Checkout(w) PROVE BudgetInv'
  BY <1>7 DEF Checkout, Frame, router, outcome
<1>8. ASSUME NEW w \in Workers, Commit(w) PROVE BudgetInv'
  BY <1>8 DEF Commit, Frame, router, outcome
<1>9. ASSUME NEW w \in Workers, Gate(w) PROVE BudgetInv'
  BY <1>9 DEF Gate, Frame, router, worktree
<1>10. ASSUME NEW w \in Workers, Escalate(w) PROVE BudgetInv'
  <2>1. UNCHANGED file /\ (UNCHANGED mem \/ mem' = Set(mem, w, tryAutoRecover(mem[w])))
    BY <1>10, EscalateCases DEF Recover, GiveUp
  <2> QED
    BY <2>1, RecoverBudget
<1>11. ASSUME NEW w \in Workers, Publish(w) PROVE BudgetInv'
  BY <1>11 DEF Publish, router, worktree
<1>12. ASSUME NEW w \in Workers, SaveState(w) PROVE BudgetInv'
  <2>1. file'.state = file.state \/ file'.state = Fresh
    BY <1>12, SaveCases, FileHolds
  <2>2. \A v \in Workers : mem'[v] = mem[v] \/ mem'[v] = Fresh
    BY <1>12, SaveCases DEF Forget
  <2> QED
    BY <2>1, <2>2, BudgetInv, FreshState DEF BudgetInv
<1>13. ASSUME NEW w \in Workers, WriteState(w) PROVE BudgetInv'
  BY SMT, <1>13, FreshState DEF WriteState, Forget, Lose, outcome, worktree, NoState, File
<1>14. ASSUME Tick PROVE BudgetInv'
  BY <1>14 DEF Tick, router, outcome, worktree
<1>15. ASSUME Crash PROVE BudgetInv'
  <2>1. file'.state = file.state \/ file'.state = Fresh
    BY SMT, <1>15 DEF Crash, NoState, File
  <2>2. \A v \in Workers : mem'[v] = mem[v] \/ mem'[v] = Fresh
    BY <1>15 DEF Crash, Forget
  <2> QED
    BY <2>1, <2>2, BudgetInv, FreshState DEF BudgetInv
<1>16. ASSUME UNCHANGED vars PROVE BudgetInv'
  BY <1>16 DEF vars, router, outcome, worktree
<1> QED
  BY <1>1, <1>2, <1>3, <1>4, <1>5, <1>6, <1>7, <1>8, <1>9, <1>10, <1>11, <1>12, <1>13, <1>14, <1>15, <1>16 DEF Next

(* The entries of one more attempt.                                        *)
LEMMA ElemsAppend ==
    ASSUME NEW s \in Seq(Entries), NEW e \in Entries
    PROVE  Elems(Append(s, e)) = Elems(s) \cup {e} /\ Elems(<<>>) = {}
  BY SMT DEF Elems

(* One more attempt keeps the order of the ladder when an entry is only    *)
(* repeated with every unlimited one tried.                                *)
LEMMA ClimbsAppend ==
    ASSUME NEW s \in Seq(Entries), NEW c \in Entries, Climbs(s),
           c \in Elems(s) =>
               \A e \in Entries : isUnlimited(e) /\ Tier[e] >= MinCapability => e \in Elems(s)
    PROVE  Climbs(Append(s, c))
<1> DEFINE t == Append(s, c)
<1>1. /\ Len(s) \in Nat /\ DOMAIN s = 1..Len(s) /\ DOMAIN t = 1..(Len(s) + 1)
      /\ \A k \in 1..Len(s) : t[k] = s[k]
      /\ t[Len(s) + 1] = c
  BY SMT
<1> HIDE DEF t
<1>2. SUFFICES ASSUME NEW j \in DOMAIN t, NEW i \in 1..(j - 1), t[i] = t[j],
                      NEW e \in Entries, isUnlimited(e), Tier[e] >= MinCapability
               PROVE  \E k \in 1..(j - 1) : t[k] = e
  BY DEF Climbs, t
<1>3. CASE j <= Len(s)
  <2>1. j \in DOMAIN s /\ s[i] = s[j]
    BY SMT, <1>1, <1>2, <1>3
  <2>2. \E k \in 1..(j - 1) : s[k] = e
    BY <1>2, <2>1 DEF Climbs
  <2> QED
    BY SMT, <1>1, <1>3, <2>2
<1>4. CASE j = Len(s) + 1
  <2>1. c \in Elems(s)
    BY SMT, <1>1, <1>2, <1>4 DEF Elems
  <2>2. e \in Elems(s)
    BY <1>2, <2>1
  <2> QED
    BY SMT, <1>1, <1>4, <2>2 DEF Elems
<1> QED
  BY SMT, <1>1, <1>3, <1>4

(* A step of an attempt: one worker goes on, and the routers, the file and *)
(* the clock stay.                                                         *)
Works(w) ==
    /\ pc[w] \in Attempt /\ pc'[w] \in Attempt
    /\ \A v \in Workers \ {w} : pc'[v] = pc[v]
    /\ UNCHANGED <<cur, tried, escalated, mem, file, clock, history, res>>

(* Every step of an attempt is such a step.                                *)
LEMMA AttemptWorks ==
    ASSUME Types, NEW w \in Workers,
           \/ runCLI(w) \/ runAgy(w) \/ Dispatch(w) \/ OllamaReturns(w)
           \/ Checkout(w) \/ Commit(w) \/ Gate(w)
    PROVE  Works(w)
<1>1. UNCHANGED <<cur, tried, escalated, mem, file, clock, history, res>>
  BY DEF runCLI, runAgy, Dispatch, OllamaReturns, Checkout, Commit, Gate, Frame, router
<1>2. /\ pc[w] \in {"cli", "agy", "ollama", "checkout", "commit", "gate"}
      /\ \/ Go(w, "gate") \/ Go(w, "failed") \/ Go(w, "checkout") \/ Go(w, "commit")
         \/ Go(w, "publish") \/ UNCHANGED pc
  <2>1. CASE runCLI(w)
    BY <2>1 DEF runCLI
  <2>2. CASE runAgy(w)
    BY <2>2 DEF runAgy
  <2>3. CASE Dispatch(w)
    BY <2>3 DEF Dispatch
  <2>4. CASE OllamaReturns(w)
    BY <2>4 DEF OllamaReturns
  <2>5. CASE Checkout(w)
    BY <2>5 DEF Checkout
  <2>6. CASE Commit(w)
    BY <2>6 DEF Commit
  <2>7. CASE Gate(w)
    BY <2>7 DEF Gate
  <2> QED
    BY <2>1, <2>2, <2>3, <2>4, <2>5, <2>6, <2>7
<1> QED
  BY <1>1, <1>2 DEF Works, Go, Set, Types, Attempt

(* What one worker's step leaves of another worker's run.                  *)
Same(v) ==
    /\ pc'[v] = pc[v] /\ cur'[v] = cur[v] /\ tried'[v] = tried[v]
    /\ escalated'[v] = escalated[v] /\ mem'[v] = mem[v]

(* Then the other workers are where they were on their ladders.            *)
LEMMA LadderOthers ==
    ASSUME LadderInv, NEW w \in Workers, LadderAt(w)', \A v \in Workers \ {w} : Same(v)
    PROVE  LadderInv'
<1>1. ASSUME NEW v \in Workers \ {w}
      PROVE  LadderAt(v)'
  <2>1. Same(v) /\ LadderAt(v)
    BY DEF LadderInv
  <2> QED
    BY <2>1 DEF LadderAt, Same
<1> QED
  BY <1>1 DEF LadderInv

(* The router goes past what was tried and takes an entry again only when  *)
(* no unlimited one is left.                                               *)
LEMMA LadderStep ==
    ASSUME Types, BudgetTypes, BudgetInv, LadderInv, [Next]_vars
    PROVE  LadderInv'
<1> USE DEF Go, Set
<1>0. /\ DOMAIN pc = Workers /\ DOMAIN cur = Workers /\ DOMAIN tried = Workers
      /\ DOMAIN escalated = Workers /\ DOMAIN mem = Workers
  BY DEF Types, BudgetTypes
<1>w. ASSUME NEW w \in Workers, Works(w) PROVE LadderInv'
  <2>1. LadderAt(w)
    BY DEF LadderInv
  <2>2. LadderAt(w)'
    BY <1>w, <2>1 DEF LadderAt, Works, Attempt
  <2>3. \A v \in Workers \ {w} : Same(v)
    BY <1>w DEF Works, Same
  <2> QED
    BY LadderInv, <2>2, <2>3, LadderOthers
<1>s. ASSUME UNCHANGED <<pc, cur, tried, escalated, mem>> PROVE LadderInv'
  BY <1>s, LadderInv DEF LadderInv, LadderAt
<1>1. ASSUME NEW w \in Workers, resolveExecutor(w) PROVE LadderInv'
  <2>1. pc[w] = "idle" /\ UNCHANGED <<tried, escalated>>
    BY <1>1, ResolveCases
  <2>2. ASSUME UNCHANGED mem \/ \E m : Recover(w, m), Go(w, "done"), UNCHANGED cur
        PROVE  LadderInv'
    <3>1. LadderAt(w)'
      BY <1>0, <2>2 DEF LadderAt, Attempt, Go, Set
    <3>2. \A v \in Workers \ {w} : Same(v)
      BY <1>0, <2>1, <2>2 DEF Recover, Same, Go, Set
    <3> QED
      BY LadderInv, <3>1, <3>2, LadderOthers
  <2>3. ASSUME NEW m \in LoadState, Recover(w, m), NEW e \in Select(m, {}), cur' = Set(cur, w, e),
               Go(w, "execute")
        PROVE  LadderInv'
    <3>1. tryAutoRecover(m)[e].reset = 0
      BY <2>3, SelectIsFirst
    <3>2. /\ pc'[w] = "execute" /\ tried'[w] = tried[w] /\ escalated'[w] = escalated[w]
          /\ cur'[w] = e /\ mem'[w] = tryAutoRecover(m)
      BY <1>0, <2>1, <2>3 DEF Recover, Go, Set
    <3>3. Elems(tried[w]) = {} /\ escalated[w] = {}
      BY <2>1 DEF LadderInv, LadderAt
    <3>4. LadderAt(w)'
      BY <3>1, <3>2, <3>3 DEF LadderAt, Attempt
    <3>5. \A v \in Workers \ {w} : Same(v)
      BY <1>0, <2>1, <2>3 DEF Recover, Same, Go, Set
    <3> QED
      BY LadderInv, <3>4, <3>5, LadderOthers
  <2> QED
    BY <1>1, <2>2, <2>3, ResolveCases DEF End
<1>2. ASSUME NEW w \in Workers, RunExecutor(w) PROVE LadderInv'
  <2>1. pc[w] = "execute" /\ UNCHANGED <<cur, escalated>> /\ cur[w] \in Entries /\ tried[w] \in Seq(Entries)
    BY <1>2 DEF RunExecutor, Types, Running
  <2>2. Harness[cur[w]] \in {"cli", "agy", "ollama"}
    BY <2>1, HarnessKinds
  <2>3. pc'[w] = Harness[cur[w]] /\ tried'[w] = Append(tried[w], cur[w])
    BY <1>0, <1>2 DEF RunExecutor
  <2>4. Elems(tried[w]) = escalated[w]
    BY <2>1 DEF LadderInv, LadderAt
  <2>5. Elems(Append(tried[w], cur[w])) = escalated[w] \cup {cur[w]}
    BY <2>1, <2>4, ElemsAppend
  <2>6. LadderAt(w)'
    BY <2>1, <2>2, <2>3, <2>5 DEF LadderAt, Attempt
  <2>7. \A v \in Workers \ {w} : Same(v)
    BY <1>0, <1>2 DEF RunExecutor, Same, Go, Set
  <2> QED
    BY LadderInv, <2>6, <2>7, LadderOthers
<1>3. ASSUME NEW w \in Workers, \/ runCLI(w) \/ runAgy(w) \/ Dispatch(w) \/ OllamaReturns(w)
                                \/ Checkout(w) \/ Commit(w) \/ Gate(w)
      PROVE  LadderInv'
  BY Types, <1>w, <1>3, AttemptWorks
<1>10. ASSUME NEW w \in Workers, Escalate(w) PROVE LadderInv'
  <2> DEFINE past == escalated[w] \cup {cur[w]}
             Past == /\ escalated' = Set(escalated, w, past)
                     /\ mem' = Set(mem, w, tryAutoRecover(mem[w]))
  <2>1. pc[w] = "failed" /\ UNCHANGED tried
    BY <1>10, EscalateCases
  <2>2. Elems(tried[w]) = past
    BY <2>1 DEF LadderInv, LadderAt, Attempt
  <2>3. ASSUME Go(w, "save"), UNCHANGED cur, Past \/ UNCHANGED <<escalated, mem>>
        PROVE  LadderInv'
    <3>1. LadderAt(w)'
      BY <1>0, <2>3 DEF LadderAt, Attempt, Go, Set
    <3>2. \A v \in Workers \ {w} : Same(v)
      BY <1>0, <2>1, <2>3 DEF Same, Go, Set
    <3> QED
      BY LadderInv, <3>1, <3>2, LadderOthers
  <2>4. ASSUME Past, NEW e \in Select(mem[w], past), cur' = Set(cur, w, e), Go(w, "execute")
        PROVE  LadderInv'
    <3>1. e \notin past /\ tryAutoRecover(mem[w])[e].reset = 0
      BY ONLY SMT, <2>4, SelectIsFirst
    <3>2. /\ pc'[w] = "execute" /\ tried'[w] = tried[w] /\ escalated'[w] = past
          /\ cur'[w] = e /\ mem'[w] = tryAutoRecover(mem[w])
      BY <1>0, <2>1, <2>4 DEF Go, Set
    <3>3. LadderAt(w)'
      <4> HIDE DEF past
      <4> QED
        BY <2>2, <3>1, <3>2 DEF LadderAt, Attempt
    <3>4. \A v \in Workers \ {w} : Same(v)
      BY <1>0, <2>1, <2>4 DEF Same, Go, Set
    <3> QED
      BY LadderInv, <3>3, <3>4, LadderOthers
  <2>5. ASSUME Past, Select(mem[w], past) = {}, Go(w, "execute"), UNCHANGED cur
        PROVE  LadderInv'
    <3>1. \A e \in Entries : isUnlimited(e) /\ Tier[e] >= MinCapability => e \in past
      <4>1. mem[w] \in States /\ Budgeted(mem[w])
        BY DEF BudgetInv, BudgetTypes
      <4> QED
        BY <2>5, <4>1, UnlimitedStays
    <3>2. /\ pc'[w] = "execute" /\ tried'[w] = tried[w] /\ escalated'[w] = past /\ cur'[w] = cur[w]
      BY <1>0, <2>1, <2>5 DEF Go, Set
    <3>3. cur[w] \in past
      OBVIOUS
    <3>4. LadderAt(w)'
      <4> HIDE DEF past
      <4> QED
        BY ONLY SMT, <2>2, <3>1, <3>2, <3>3 DEF LadderAt, Attempt
    <3>5. \A v \in Workers \ {w} : Same(v)
      BY <1>0, <2>1, <2>5 DEF Same, Go, Set
    <3> QED
      BY LadderInv, <3>4, <3>5, LadderOthers
  <2> QED
    BY <1>10, <2>3, <2>4, <2>5, EscalateCases DEF GiveUp, Recover
<1>11. ASSUME NEW w \in Workers, Publish(w) \/ SaveState(w) PROVE LadderInv'
  <2>1. pc'[w] \in {"save", "write", "done"} /\ \A v \in Workers \ {w} : Same(v)
    <3>1. CASE Publish(w)
      BY <1>0, <3>1 DEF Publish, router, Same
    <3>2. CASE SaveState(w)
      BY <1>0, <3>2, SaveCases DEF Forget, Same
    <3> QED
      BY <1>11, <3>1, <3>2
  <2>2. LadderAt(w)'
    BY <2>1 DEF LadderAt, Attempt
  <2> QED
    BY LadderInv, <2>1, <2>2, LadderOthers
<1>13. ASSUME NEW w \in Workers, WriteState(w) PROVE LadderInv'
  <2>1. pc'[w] = "done" /\ \A v \in Workers \ {w} : Same(v)
    BY <1>0, <1>13 DEF WriteState, Forget, Same
  <2>2. LadderAt(w)'
    BY <2>1 DEF LadderAt, Attempt
  <2> QED
    BY LadderInv, <2>1, <2>2, LadderOthers
<1>14. ASSUME Tick PROVE LadderInv'
  BY <1>s, <1>14 DEF Tick, router
<1>15. ASSUME Crash PROVE LadderInv'
  <2>1. \A v \in Workers : pc'[v] \in {"idle", "done"}
    BY <1>15 DEF Crash, Active
  <2>2. \A v \in Workers : pc'[v] = "idle" /\ pc[v] # "idle" => tried'[v] = <<>> /\ escalated'[v] = {}
    BY <1>15 DEF Crash, Forget, Active
  <2>3. \A v \in Workers : pc[v] = "idle" => tried'[v] = tried[v] /\ escalated'[v] = escalated[v]
    BY <1>15 DEF Crash, Forget, Active
  <2>4. Elems(<<>>) = {}
    BY SMT DEF Elems
  <2> QED
    BY LadderInv, <2>1, <2>2, <2>3, <2>4 DEF LadderInv, LadderAt, Attempt
<1>16. ASSUME UNCHANGED vars PROVE LadderInv'
  BY <1>s, <1>16 DEF vars, router
<1> QED
  BY <1>1, <1>2, <1>3, <1>10, <1>11, <1>13, <1>14, <1>15, <1>16 DEF Next

(* No attempt repeats an entry before the ladder is climbed.               *)
LEMMA ClimbStep ==
    ASSUME Types, LadderInv, EscalationClimbs, [Next]_vars
    PROVE  EscalationClimbs'
<1> USE DEF Go, Set
<1>0. ASSUME UNCHANGED tried PROVE EscalationClimbs'
  BY <1>0 DEF EscalationClimbs
<1>1. ASSUME NEW w \in Workers, resolveExecutor(w) PROVE EscalationClimbs'
  BY <1>0, <1>1, ResolveCases
<1>2. ASSUME NEW w \in Workers, RunExecutor(w) PROVE EscalationClimbs'
  <2>1. /\ pc[w] = "execute" /\ cur[w] \in Entries /\ tried[w] \in Seq(Entries)
        /\ tried' = Set(tried, w, Append(tried[w], cur[w]))
    BY <1>2 DEF RunExecutor, Types, Running
  <2>2. Climbs(Append(tried[w], cur[w]))
    <3>1. Climbs(tried[w])
      BY DEF EscalationClimbs
    <3>2. cur[w] \in Elems(tried[w]) =>
              \A e \in Entries : isUnlimited(e) /\ Tier[e] >= MinCapability => e \in Elems(tried[w])
      BY <2>1 DEF LadderInv, LadderAt
    <3> QED
      BY <2>1, <3>1, <3>2, ClimbsAppend
  <2> QED
    BY <2>1, <2>2 DEF EscalationClimbs, Types
<1>3. ASSUME NEW w \in Workers, runCLI(w) PROVE EscalationClimbs'
  BY <1>0, <1>3 DEF runCLI, Frame, router
<1>4. ASSUME NEW w \in Workers, runAgy(w) PROVE EscalationClimbs'
  BY <1>0, <1>4 DEF runAgy, Frame, router
<1>5. ASSUME NEW w \in Workers, Dispatch(w) PROVE EscalationClimbs'
  BY <1>0, <1>5 DEF Dispatch, Frame, router
<1>6. ASSUME NEW w \in Workers, OllamaReturns(w) PROVE EscalationClimbs'
  BY <1>0, <1>6 DEF OllamaReturns, Frame, router
<1>7. ASSUME NEW w \in Workers, Checkout(w) PROVE EscalationClimbs'
  BY <1>0, <1>7 DEF Checkout, Frame, router
<1>8. ASSUME NEW w \in Workers, Commit(w) PROVE EscalationClimbs'
  BY <1>0, <1>8 DEF Commit, Frame, router
<1>9. ASSUME NEW w \in Workers, Gate(w) PROVE EscalationClimbs'
  BY <1>0, <1>9 DEF Gate, Frame, router
<1>10. ASSUME NEW w \in Workers, Escalate(w) PROVE EscalationClimbs'
  BY <1>0, <1>10, EscalateCases
<1>11. ASSUME NEW w \in Workers, Publish(w) PROVE EscalationClimbs'
  BY <1>0, <1>11 DEF Publish, router
<1>12. ASSUME NEW w \in Workers, SaveState(w) PROVE EscalationClimbs'
  <2>1. \A v \in Workers : tried'[v] = tried[v] \/ tried'[v] = <<>>
    BY <1>12, SaveCases DEF Forget
  <2>2. Climbs(<<>>)
    BY SMT DEF Climbs
  <2> QED
    BY <2>1, <2>2 DEF EscalationClimbs
<1>13. ASSUME NEW w \in Workers, WriteState(w) PROVE EscalationClimbs'
  <2>1. \A v \in Workers : tried'[v] = tried[v] \/ tried'[v] = <<>>
    BY <1>13 DEF WriteState, Forget
  <2>2. Climbs(<<>>)
    BY SMT DEF Climbs
  <2> QED
    BY <2>1, <2>2 DEF EscalationClimbs
<1>14. ASSUME Tick PROVE EscalationClimbs'
  BY <1>0, <1>14 DEF Tick, router
<1>15. ASSUME Crash PROVE EscalationClimbs'
  <2>1. \A v \in Workers : tried'[v] = tried[v] \/ tried'[v] = <<>>
    BY <1>15 DEF Crash, Forget
  <2>2. Climbs(<<>>)
    BY SMT DEF Climbs
  <2> QED
    BY <2>1, <2>2 DEF EscalationClimbs
<1>16. ASSUME UNCHANGED vars PROVE EscalationClimbs'
  BY <1>0, <1>16 DEF vars, router
<1> QED
  BY <1>1, <1>2, <1>3, <1>4, <1>5, <1>6, <1>7, <1>8, <1>9, <1>10, <1>11, <1>12, <1>13, <1>14, <1>15, <1>16 DEF Next

(* A slot of one is free when no worker runs.                              *)
LEMMA NoneRuns ==
    ASSUME Types, Concurrency = 1, Cardinality(Active) < Concurrency
    PROVE  \A v \in Workers : pc[v] \notin Running
<1>1. Active \in SUBSET Workers
  BY DEF Active
<1>2. IsFiniteSet(Active)
  BY <1>1, FleetAssumption, FS_Subset
<1>3. Cardinality(Active) = 0
  BY SMT, <1>2, FS_CardinalityType
<1>4. Active = {}
  BY <1>2, <1>3, FS_EmptySet
<1> QED
  BY <1>4 DEF Active, Running

(* With one slot, one worker runs at a time.                               *)
LEMMA AloneStep ==
    ASSUME Types, Concurrency = 1, AloneInv, [Next]_vars
    PROVE  AloneInv'
<1>0. DOMAIN pc = Workers
  BY DEF Types
<1>k. ASSUME \A v \in Workers : pc'[v] \in Running => pc[v] \in Running PROVE AloneInv'
  BY <1>k, AloneInv DEF AloneInv
<1>1. ASSUME NEW w \in Workers, resolveExecutor(w) PROVE AloneInv'
  <2>1. Cardinality(Active) < Concurrency
    BY <1>1, ResolveCases
  <2>2. \A v \in Workers : pc[v] \notin Running
    BY <2>1, Types, Concurrency = 1, NoneRuns
  <2>3. Go(w, "done") \/ Go(w, "execute")
    BY <1>1, ResolveCases DEF End
  <2>4. \A v \in Workers \ {w} : pc'[v] \notin Running
    BY <1>0, <2>2, <2>3 DEF Go, Set
  <2> QED
    BY <2>4 DEF AloneInv
<1>2. ASSUME NEW w \in Workers, RunExecutor(w) PROVE AloneInv'
  BY <1>0, <1>2, <1>k DEF RunExecutor, Go, Set, Running
<1>3. ASSUME NEW w \in Workers, \/ runCLI(w) \/ runAgy(w) \/ Dispatch(w) \/ OllamaReturns(w)
                                \/ Checkout(w) \/ Commit(w) \/ Gate(w)
      PROVE  AloneInv'
  <2>1. Works(w)
    BY Types, <1>3, AttemptWorks
  <2>2. \A v \in Workers : pc'[v] \in Running => pc[v] \in Running
    BY <2>1 DEF Works, Attempt, Running
  <2> QED
    BY <1>k, <2>2
<1>10. ASSUME NEW w \in Workers, Escalate(w) PROVE AloneInv'
  <2>1. pc[w] = "failed" /\ (Go(w, "execute") \/ Go(w, "save"))
    BY <1>10, EscalateCases DEF GiveUp
  <2> QED
    BY <1>0, <1>k, <2>1 DEF Go, Set, Running
<1>11. ASSUME NEW w \in Workers, Publish(w) \/ SaveState(w) \/ WriteState(w) PROVE AloneInv'
  <2>1. pc[w] \in {"publish", "save", "write"} /\ \E l : Go(w, l)
    BY <1>11, SaveCases DEF Publish, WriteState
  <2> QED
    BY <1>0, <1>k, <2>1 DEF Go, Set, Running
<1>14. ASSUME Tick PROVE AloneInv'
  BY <1>14, <1>k DEF Tick
<1>15. ASSUME Crash PROVE AloneInv'
  <2>1. \A v \in Workers : pc'[v] \notin Running
    BY <1>15 DEF Crash, Active, Running
  <2> QED
    BY <1>k, <2>1
<1>16. ASSUME UNCHANGED vars PROVE AloneInv'
  BY <1>16, <1>k DEF vars
<1> QED
  BY <1>1, <1>2, <1>3, <1>10, <1>11, <1>14, <1>15, <1>16 DEF Next

(* A recovery resets the usage of the entries it makes available, and what *)
(* is counted against them.                                                *)
LEMMA RecoverCounts ==
    ASSUME BudgetTypes, NEW w \in Workers, NEW m \in States, Recover(w, m),
           \A e \in Entries : Counts(m, e)
    PROVE  /\ mem'[w] = tryAutoRecover(m)
           /\ \A e \in Entries : spent'[e] <= tryAutoRecover(m)[e].usage + lost'[e]
           /\ \A e \in Entries :
                 \/ spent'[e] = 0 /\ lost'[e] = 0 /\ unsaved'[e] = 0
                 \/ spent'[e] = spent[e] /\ lost'[e] = lost[e] /\ unsaved'[e] = unsaved[e]
<1>1. mem'[w] = tryAutoRecover(m)
  BY DEF Recover, Set, BudgetTypes
<1>2. \A e \in Entries :
         IF e \in recovered(m)
         THEN /\ tryAutoRecover(m)[e].usage = 0
              /\ spent'[e] = 0 /\ lost'[e] = 0 /\ unsaved'[e] = 0
         ELSE /\ tryAutoRecover(m)[e] = m[e]
              /\ spent'[e] = spent[e] /\ lost'[e] = lost[e] /\ unsaved'[e] = unsaved[e]
  BY DEF Recover, tryAutoRecover
<1>3. \A e \in Entries : spent'[e] <= tryAutoRecover(m)[e].usage + lost'[e]
  <2> SUFFICES ASSUME NEW e \in Entries PROVE spent'[e] <= tryAutoRecover(m)[e].usage + lost'[e]
    OBVIOUS
  <2>1. CASE e \in recovered(m)
    BY <1>2, <2>1, SMT
  <2>2. CASE e \notin recovered(m)
    BY <1>2, <2>2 DEF Counts
  <2> QED
    BY <2>1, <2>2
<1> QED
  BY <1>1, <1>2, <1>3

(* A dispatch is counted by the router, and against the entry.             *)
LEMMA DispatchCounts ==
    ASSUME Types, BudgetTypes, NEW w \in Workers, RunExecutor(w), cur[w] \in Entries,
           \A e \in Entries : Counts(mem[w], e)
    PROVE  /\ \A e \in Entries : Counts(mem[w], e)' /\ (Known(e) => Known(e)')
<1>1. /\ mem'[w] = RecordDispatch(mem[w], cur[w]) /\ UNCHANGED <<file, clock, lost>>
      /\ IF isUnlimited(cur[w]) THEN UNCHANGED <<spent, unsaved>>
         ELSE /\ spent' = [spent EXCEPT ![cur[w]] = @ + 1]
              /\ unsaved' = [unsaved EXCEPT ![cur[w]] = @ + 1]
  BY DEF RunExecutor, Set, BudgetTypes
<1>2. mem[w] \in States
  BY DEF BudgetTypes
<1> SUFFICES ASSUME NEW e \in Entries PROVE Counts(mem[w], e)' /\ (Known(e) => Known(e)')
  OBVIOUS
<1>3. CASE isUnlimited(cur[w])
  BY <1>1, <1>3 DEF RecordDispatch, Counts, Known
<1>4. CASE ~ isUnlimited(cur[w]) /\ e # cur[w]
  <2>1. mem'[w][e] = mem[w][e] /\ spent'[e] = spent[e] /\ unsaved'[e] = unsaved[e]
    BY <1>1, <1>2, <1>4 DEF RecordDispatch, States, BudgetTypes
  <2> QED
    BY <1>1, <2>1 DEF Counts, Known
<1>5. CASE ~ isUnlimited(cur[w]) /\ e = cur[w]
  <2>1. mem'[w][e].usage = mem[w][e].usage + 1 /\ spent'[e] = spent[e] + 1 /\ unsaved'[e] = unsaved[e] + 1
    <3>1. mem'[w] = [mem[w] EXCEPT ![e] = [usage |-> @.usage + 1,
                        reset |-> IF @.usage + 1 >= Limit[e] THEN clock + Window ELSE @.reset]]
      BY <1>1, <1>5 DEF RecordDispatch
    <3>2. DOMAIN mem[w] = Entries /\ DOMAIN spent = Entries /\ DOMAIN unsaved = Entries
      BY <1>2 DEF States, BudgetTypes
    <3> QED
      BY ONLY SMT, <1>1, <1>5, <3>1, <3>2, e \in Entries
  <2>2. /\ mem[w][e].usage \in Nat /\ spent[e] \in Nat /\ unsaved[e] \in Nat
        /\ lost[e] \in Nat /\ file.state[e].usage \in Nat
        /\ lost' = lost /\ file' = file /\ clock' = clock
    BY <1>1, <1>2, StateCounts DEF BudgetTypes
  <2>3. Counts(mem[w], e)'
    BY ONLY SMT, <2>1, <2>2, Counts(mem[w], e) DEF Counts
  <2>4. Known(e) => Known(e)'
    BY ONLY SMT, <2>1, <2>2 DEF Known
  <2> QED
    BY <2>3, <2>4
<1> QED
  BY <1>3, <1>4, <1>5

(* What is lost was not saved, and the file is not worse for it.           *)
LEMMA LoseKnown ==
    ASSUME BudgetTypes, Lose, UNCHANGED <<file, clock, spent>>
    PROVE  \A e \in Entries : unsaved'[e] = 0 /\ (Known(e) => Known(e)')
<1> SUFFICES ASSUME NEW e \in Entries PROVE unsaved'[e] = 0 /\ (Known(e) => Known(e)')
  OBVIOUS
<1>1. lost'[e] = lost[e] + unsaved[e] /\ unsaved'[e] = 0
  BY DEF Lose
<1>2. {spent[e], unsaved[e], lost[e], file.state[e].usage} \subseteq Nat
  BY StateCounts DEF BudgetTypes
<1> QED
  BY SMT, <1>1, <1>2 DEF Known

(* The worker that runs, and else the file, counts what was spent.         *)
LEMMA SpentStep ==
    ASSUME Types, BudgetTypes, Concurrency = 1, AloneInv, SpentInv, [Next]_vars
    PROVE  SpentInv'
<1>0. DOMAIN pc = Workers /\ DOMAIN mem = Workers
  BY DEF Types, BudgetTypes
<1>m. \A w \in Workers : pc[w] \in Running => \A e \in Entries : Counts(mem[w], e)
  BY DEF SpentInv
<1>f. file.kind \in {"none", "saved"} => \A e \in Entries : Known(e)
  BY DEF SpentInv
<1>u. (\A w \in Workers : pc[w] \notin Running) => \A e \in Entries : unsaved[e] = 0
  BY DEF SpentInv
<1>a. \A w \in Workers : pc[w] \in Running => \A v \in Workers \ {w} : pc[v] \notin Running
  BY DEF AloneInv
<1>s. ASSUME \A v \in Workers : pc'[v] \in Running <=> pc[v] \in Running,
             UNCHANGED <<mem, file, clock, history>>
      PROVE  SpentInv'
  BY <1>s, <1>m, <1>f, <1>u DEF SpentInv, Known, Counts
(* A worker that runs goes on, and counts what is spent now.               *)
<1>r. ASSUME NEW w \in Workers, pc'[w] \in Running,
             \A v \in Workers \ {w} : pc'[v] \notin Running,
             \A e \in Entries : Counts(mem[w], e)',
             file'.kind \in {"none", "saved"} => \A e \in Entries : Known(e)'
      PROVE  SpentInv'
  BY <1>r DEF SpentInv, Counts
(* No worker runs, and the file counts what is spent.                      *)
<1>n. ASSUME \A v \in Workers : pc'[v] \notin Running,
             file'.kind \in {"none", "saved"} => \A e \in Entries : Known(e)',
             \A e \in Entries : unsaved'[e] = 0
      PROVE  SpentInv'
  BY <1>n DEF SpentInv
<1>1. ASSUME NEW w \in Workers, resolveExecutor(w) PROVE SpentInv'
  <2>1. Cardinality(Active) < Concurrency /\ pc[w] = "idle" /\ UNCHANGED <<file, clock>>
    BY <1>1, ResolveCases
  <2>2. \A v \in Workers : pc[v] \notin Running
    BY <2>1, Types, Concurrency = 1, NoneRuns
  <2>3. Go(w, "done") => \A v \in Workers : pc'[v] \notin Running
    BY <1>0, <2>2 DEF Go, Set, Running
  <2>4. ASSUME UNCHANGED <<mem, history>>, Go(w, "done") PROVE SpentInv'
    BY <1>s, <2>1, <2>2, <2>3, <2>4
  <2>5. ASSUME NEW m \in LoadState, Recover(w, m)
        PROVE  /\ Go(w, "done") => SpentInv'
               /\ Go(w, "execute") => SpentInv'
    <3>1. m = file.state /\ file.kind \in {"none", "saved"} /\ m \in States
      BY DEF LoadState, BudgetTypes
    <3>2. \A e \in Entries : Counts(m, e)
      <4> SUFFICES ASSUME NEW e \in Entries PROVE Counts(m, e)
        OBVIOUS
      <4>1. Known(e) /\ unsaved[e] = 0
        BY <1>f, <1>u, <2>2, <3>1
      <4>2. {spent[e], lost[e], m[e].usage} \subseteq Nat
        BY <3>1, StateCounts DEF BudgetTypes
      <4> QED
        BY ONLY SMT, <3>1, <4>1, <4>2 DEF Known, Counts
    <3>3. /\ mem'[w] = tryAutoRecover(m)
          /\ \A e \in Entries : spent'[e] <= tryAutoRecover(m)[e].usage + lost'[e]
          /\ \A e \in Entries :
                \/ spent'[e] = 0 /\ lost'[e] = 0 /\ unsaved'[e] = 0
                \/ spent'[e] = spent[e] /\ lost'[e] = lost[e] /\ unsaved'[e] = unsaved[e]
      BY <2>5, <3>1, <3>2, RecoverCounts
    <3>4. \A e \in Entries : Known(e)'
      <4> SUFFICES ASSUME NEW e \in Entries PROVE Known(e)'
        OBVIOUS
      <4>1. Known(e) /\ file.state[e].usage \in Nat
        BY <1>f, <3>1, StateCounts
      <4> QED
        BY ONLY SMT, <2>1, <3>3, <4>1 DEF Known
    <3>5. \A e \in Entries : unsaved'[e] = 0
      BY <1>u, <2>2, <3>3
    <3>6. ASSUME Go(w, "execute") PROVE SpentInv'
      <4>1. pc'[w] \in Running /\ \A v \in Workers \ {w} : pc'[v] \notin Running
        BY <1>0, <2>2, <3>6 DEF Go, Set, Running
      <4>2. \A e \in Entries : Counts(mem[w], e)'
        BY <3>3 DEF Counts
      <4> QED
        BY <1>r, <3>4, <4>1, <4>2
    <3>7. ASSUME Go(w, "done") PROVE SpentInv'
      BY <1>n, <2>3, <3>4, <3>5, <3>7
    <3> QED
      BY <3>6, <3>7
  <2> QED
    BY <1>1, <2>4, <2>5, ResolveCases DEF End
<1>2. ASSUME NEW w \in Workers, RunExecutor(w) PROVE SpentInv'
  <2>1. pc[w] = "execute" /\ cur[w] \in Entries /\ UNCHANGED file
    BY <1>2 DEF RunExecutor, Types, Running
  <2>2. Harness[cur[w]] \in {"cli", "agy", "ollama"}
    BY <2>1, HarnessKinds
  <2>3. pc[w] \in Running
    BY <2>1 DEF Running
  <2>4. \A e \in Entries : Counts(mem[w], e)' /\ (Known(e) => Known(e)')
    BY <1>2, <1>m, <2>1, <2>3, DispatchCounts
  <2>5. pc'[w] \in Running /\ \A v \in Workers \ {w} : pc'[v] = pc[v]
    BY <1>0, <1>2, <2>2 DEF RunExecutor, Go, Set, Running
  <2> QED
    BY <1>a, <1>f, <1>r, <2>1, <2>3, <2>4, <2>5
<1>3. ASSUME NEW w \in Workers, \/ runCLI(w) \/ runAgy(w) \/ Dispatch(w) \/ OllamaReturns(w)
                                \/ Checkout(w) \/ Commit(w) \/ Gate(w)
      PROVE  SpentInv'
  <2>1. Works(w)
    BY Types, <1>3, AttemptWorks
  <2>2. \A v \in Workers : pc'[v] \in Running <=> pc[v] \in Running
    BY <2>1 DEF Works, Attempt, Running
  <2>3. UNCHANGED <<mem, file, clock, history>>
    BY <2>1 DEF Works
  <2> QED
    BY <1>s, <2>2, <2>3
<1>10. ASSUME NEW w \in Workers, Escalate(w) PROVE SpentInv'
  <2>1. /\ pc[w] = "failed" /\ UNCHANGED <<file, clock>>
        /\ Go(w, "execute") \/ Go(w, "save")
        /\ UNCHANGED <<mem, history>> \/ Recover(w, mem[w])
    BY <1>10, EscalateCases DEF GiveUp
  <2>2. \A e \in Entries : Counts(mem[w], e)
    BY <1>m, <2>1 DEF Running
  <2>3. \A e \in Entries : Counts(mem[w], e)' /\ (Known(e) => Known(e)')
    <3>1. CASE UNCHANGED <<mem, history>>
      BY <2>1, <2>2, <3>1 DEF Counts, Known
    <3>2. CASE Recover(w, mem[w])
      <4>1. mem[w] \in States /\ \A e \in Entries : file.state[e].usage \in Nat
        BY StateCounts DEF BudgetTypes
      <4>2. /\ mem'[w] = tryAutoRecover(mem[w])
            /\ \A e \in Entries : spent'[e] <= tryAutoRecover(mem[w])[e].usage + lost'[e]
            /\ \A e \in Entries :
                  \/ spent'[e] = 0 /\ lost'[e] = 0 /\ unsaved'[e] = 0
                  \/ spent'[e] = spent[e] /\ lost'[e] = lost[e] /\ unsaved'[e] = unsaved[e]
        BY <2>2, <3>2, <4>1, RecoverCounts
      <4>3. \A e \in Entries : Counts(mem[w], e)'
        BY <4>2 DEF Counts
      <4>4. \A e \in Entries : Known(e) => Known(e)'
        BY ONLY SMT, <2>1, <4>1, <4>2 DEF Known
      <4> QED
        BY <4>3, <4>4
    <3> QED
      BY <2>1, <3>1, <3>2
  <2>4. /\ pc[w] \in Running /\ pc'[w] \in Running
        /\ \A v \in Workers \ {w} : pc'[v] = pc[v]
    BY <1>0, <2>1 DEF Go, Set, Running
  <2> QED
    BY <1>a, <1>f, <1>r, <2>1, <2>3, <2>4
<1>11. ASSUME NEW w \in Workers, Publish(w) PROVE SpentInv'
  <2>1. /\ \A v \in Workers : pc'[v] \in Running <=> pc[v] \in Running
        /\ UNCHANGED <<mem, file, clock, history>>
    BY <1>0, <1>11 DEF Publish, router, Go, Set, Running
  <2> QED
    BY <1>s, <2>1
<1>12. ASSUME NEW w \in Workers, SaveState(w) PROVE SpentInv'
  <2>1. pc[w] \in Running /\ UNCHANGED <<clock, spent>>
    BY <1>12, SaveCases DEF Running
  <2>2. CASE file' = NoState("empty") /\ Go(w, "write") /\ UNCHANGED <<mem, unsaved, lost>>
    <3>1. pc'[w] \in Running /\ \A v \in Workers \ {w} : pc'[v] = pc[v]
      BY <1>0, <2>2 DEF Go, Set, Running
    <3>2. file'.kind \notin {"none", "saved"}
      BY ONLY SMT, <2>2 DEF NoState, File
    <3>3. \A e \in Entries : Counts(mem[w], e)'
      BY <1>m, <2>1, <2>2 DEF Counts
    <3> QED
      BY <1>a, <1>r, <2>1, <3>1, <3>2, <3>3
  <2>3. CASE UNCHANGED file /\ Go(w, "done") /\ Lose
    <3>1. \A v \in Workers : pc'[v] \notin Running
      BY <1>0, <1>a, <2>1, <2>3 DEF Go, Set, Running
    <3>2. \A e \in Entries : unsaved'[e] = 0 /\ (Known(e) => Known(e)')
      BY <2>1, <2>3, LoseKnown
    <3> QED
      BY <1>f, <1>n, <2>3, <3>1, <3>2
  <2> QED
    BY <1>12, <2>2, <2>3, SaveCases
<1>13. ASSUME NEW w \in Workers, WriteState(w) PROVE SpentInv'
  <2>1. pc[w] \in Running /\ Go(w, "done") /\ UNCHANGED <<clock, spent>>
    BY <1>13, WriteCases DEF Running
  <2>2. \A v \in Workers : pc'[v] \notin Running
    BY <1>0, <1>a, <2>1 DEF Go, Set, Running
  <2>3. CASE /\ file' \in {File("saved", mem[w]), NoState("bad")}
             /\ unsaved' = [e \in Entries |-> 0] /\ UNCHANGED lost
    <3>1. file'.kind \in {"none", "saved"} => file'.state = mem[w]
      BY ONLY SMT, <2>3 DEF NoState, File
    <3>2. \A e \in Entries : unsaved'[e] = 0
      BY <2>3
    <3>3. ASSUME file'.state = mem[w], NEW e \in Entries PROVE Known(e)'
      <4>1. Counts(mem[w], e)
        BY <1>m, <2>1
      <4>2. {spent[e], lost[e], mem[w][e].usage} \subseteq Nat
        BY StateCounts DEF BudgetTypes
      <4> QED
        BY ONLY SMT, <2>1, <2>3, <3>2, <3>3, <4>1, <4>2 DEF Known, Counts
    <3> QED
      BY <1>n, <2>2, <3>1, <3>2, <3>3
  <2>4. CASE file' \in {file, NoState("bad")} /\ Lose
    <3>1. file'.kind \in {"none", "saved"} => file' = file
      BY ONLY SMT, <2>4 DEF NoState, File
    <3>2. file' = file => \A e \in Entries : Known(e) => Known(e)'
      BY <2>1, <2>4, LoseKnown
    <3>3. \A e \in Entries : unsaved'[e] = 0
      BY <2>4 DEF Lose
    <3> QED
      BY <1>f, <1>n, <2>2, <3>1, <3>2, <3>3
  <2> QED
    BY <1>13, <2>3, <2>4, WriteCases
<1>14. ASSUME Tick PROVE SpentInv'
  <2>1. clock' = clock + 1 /\ UNCHANGED <<pc, mem, file, spent, unsaved, lost>>
    BY <1>14 DEF Tick, router
  <2>3. \A e \in Entries : Known(e) => Known(e)'
    BY <2>1 DEF Known
  <2> QED
    BY <1>m, <1>f, <1>u, <2>1, <2>3 DEF SpentInv, Counts
<1>15. ASSUME Crash PROVE SpentInv'
  <2>1. \A v \in Workers : pc'[v] \notin Running
    BY <1>15 DEF Crash, Active, Running
  <2>2. file'.kind \in {"none", "saved"} => file' = file
    BY ONLY SMT, <1>15 DEF Crash, NoState, File
  <2>3. Lose /\ UNCHANGED <<clock, spent>>
    BY <1>15 DEF Crash
  <2>4. file' = file => \A e \in Entries : Known(e) => Known(e)'
    BY <2>3, LoseKnown
  <2>5. \A e \in Entries : unsaved'[e] = 0
    BY <2>3 DEF Lose
  <2> QED
    BY <1>f, <1>n, <2>1, <2>2, <2>4, <2>5
<1>16. ASSUME UNCHANGED vars PROVE SpentInv'
  <2>1. UNCHANGED <<pc, mem, file, clock, history>>
    BY <1>16 DEF vars, router
  <2> QED
    BY <1>s, <2>1
<1> QED
  BY <1>1, <1>2, <1>3, <1>10, <1>11, <1>12, <1>13, <1>14, <1>15, <1>16 DEF Next

(* What one worker's step leaves of another's commit.                      *)
Kept(v) ==
    /\ pc'[v] = pc[v] /\ cur'[v] = cur[v] /\ res'[v] = res[v]
    /\ pushed'[v] = pushed[v] /\ verified'[v] = verified[v]

(* While one worker steps, no other is between its edits and its push;     *)
(* then what the others committed still holds for them.                    *)
LEMMA OthersKeep ==
    ASSUME CommitInv, NEW w \in Workers, CommitAt(w)',
           \A v \in Workers \ {w} : pc[v] \notin Running,
           \A v \in Workers \ {w} : Kept(v)
    PROVE  CommitInv'
<1>1. ASSUME NEW v \in Workers \ {w}
      PROVE  CommitAt(v)'
  <2>1. pc[v] \notin Running /\ Kept(v) /\ CommitAt(v)
    BY DEF CommitInv
  <2> QED
    BY <2>1 DEF CommitAt, CommitsItself, Kept, Running
<1> QED
  BY <1>1 DEF CommitInv

(* The tree is committed, verified and pushed by one worker alone.         *)
LEMMA CommitStep ==
    ASSUME Types, TreeTypes, BranchInv, Concurrency = 1, AloneInv, CommitInv, [Next]_vars
    PROVE  CommitInv'
<1>0. /\ DOMAIN pc = Workers /\ DOMAIN cur = Workers /\ DOMAIN res = Workers
      /\ DOMAIN branch = Workers /\ DOMAIN verified = Workers /\ DOMAIN pushed = Workers
  BY DEF Types, TreeTypes
<1>a. \A w \in Workers : pc[w] \in Running => \A v \in Workers \ {w} : pc[v] \notin Running
  BY DEF AloneInv
<1>1. ASSUME NEW w \in Workers, resolveExecutor(w) PROVE CommitInv'
  <2>1. /\ Cardinality(Active) < Concurrency /\ pc[w] = "idle" /\ UNCHANGED outcome
        /\ \/ Go(w, "done") /\ UNCHANGED cur /\ res' = Set(res, w, "error")
           \/ (\E e : cur' = Set(cur, w, e)) /\ Go(w, "execute") /\ UNCHANGED res
    BY <1>1, ResolveCases DEF End
  <2>2. \A v \in Workers : pc[v] \notin Running
    BY <2>1, Types, Concurrency = 1, NoneRuns
  <2>3. CommitAt(w)
    BY DEF CommitInv
  <2>4. CommitAt(w)'
    BY <1>0, <2>1, <2>3 DEF CommitAt, CommitsItself, Go, Set
  <2>5. \A v \in Workers \ {w} : Kept(v)
    BY <1>0, <2>1 DEF outcome, Kept, Go, Set
  <2> QED
    BY CommitInv, <2>2, <2>4, <2>5, OthersKeep
<1>2. ASSUME NEW w \in Workers, RunExecutor(w) PROVE CommitInv'
  <2>1. pc[w] = "execute" /\ cur[w] \in Entries
    BY <1>2 DEF RunExecutor, Types, Running
  <2>2. Harness[cur[w]] \in {"cli", "agy", "ollama"}
    BY <2>1, HarnessKinds
  <2>3. CommitAt(w)
    BY DEF CommitInv
  <2>4. pc'[w] = Harness[cur[w]] /\ UNCHANGED <<cur, res>>
    BY <1>0, <1>2 DEF RunExecutor, Go, Set
  <2>5. CommitAt(w)'
    BY <2>1, <2>2, <2>3, <2>4 DEF CommitAt, CommitsItself
  <2>6. \A v \in Workers \ {w} : Kept(v)
    BY <1>0, <1>2 DEF RunExecutor, outcome, Kept, Go, Set
  <2>7. \A v \in Workers \ {w} : pc[v] \notin Running
    BY <1>a, <2>1 DEF Running
  <2> QED
    BY CommitInv, <2>5, <2>6, <2>7, OthersKeep
<1>3. ASSUME NEW w \in Workers, runCLI(w) PROVE CommitInv'
  <2>1. pc[w] \in Running
    BY <1>3 DEF runCLI, Running
  <2>2. CommitAt(w)
    BY DEF CommitInv
  <2>3. CommitAt(w)'
    BY <1>0, <1>3, <2>2 DEF runCLI, Frame, router, CommitAt, CommitsItself, Go, Set
  <2>4. \A v \in Workers \ {w} : Kept(v)
    BY <1>0, <1>3 DEF runCLI, Frame, router, Kept, Go, Set
  <2> QED
    BY CommitInv, <1>a, <2>1, <2>3, <2>4, OthersKeep
<1>4. ASSUME NEW w \in Workers, runAgy(w) PROVE CommitInv'
  <2>1. pc[w] \in Running
    BY <1>4 DEF runAgy, Running
  <2>2. CommitAt(w)
    BY DEF CommitInv
  <2>3. CommitAt(w)'
    BY <1>0, <1>4, <2>2 DEF runAgy, Frame, router, CommitAt, CommitsItself, Go, Set
  <2>4. \A v \in Workers \ {w} : Kept(v)
    BY <1>0, <1>4 DEF runAgy, Frame, router, Kept, Go, Set
  <2> QED
    BY CommitInv, <1>a, <2>1, <2>3, <2>4, OthersKeep
<1>5. ASSUME NEW w \in Workers, Dispatch(w) PROVE CommitInv'
  <2>1. pc[w] \in Running
    BY <1>5 DEF Dispatch, Running
  <2>2. CommitAt(w)
    BY DEF CommitInv
  <2>3. pc[w] = "ollama" /\ pc'[w] \in {"ollama", "failed"} /\ UNCHANGED <<cur, res>>
    BY <1>0, <1>5 DEF Dispatch, Frame, router, Go, Set
  <2>4. CommitAt(w)'
    BY <2>2, <2>3 DEF CommitAt, CommitsItself
  <2>5. \A v \in Workers \ {w} : Kept(v)
    BY <1>0, <1>5 DEF Dispatch, Frame, router, Kept, Go, Set
  <2> QED
    BY CommitInv, <1>a, <2>1, <2>4, <2>5, OthersKeep
<1>6. ASSUME NEW w \in Workers, OllamaReturns(w) PROVE CommitInv'
  <2>1. pc[w] \in Running
    BY <1>6 DEF OllamaReturns, Running
  <2>2. CommitAt(w)
    BY DEF CommitInv
  <2>3. pc[w] = "ollama" /\ pc'[w] \in {"checkout", "failed"} /\ UNCHANGED <<cur, res>>
    BY <1>0, <1>6 DEF OllamaReturns, Frame, router, Go, Set
  <2>4. CommitAt(w)'
    BY <2>2, <2>3 DEF CommitAt, CommitsItself
  <2>5. \A v \in Workers \ {w} : Kept(v)
    BY <1>0, <1>6 DEF OllamaReturns, Frame, router, Kept, Go, Set
  <2> QED
    BY CommitInv, <1>a, <2>1, <2>4, <2>5, OthersKeep
<1>7. ASSUME NEW w \in Workers, Checkout(w) PROVE CommitInv'
  <2>1. pc[w] \in Running
    BY <1>7 DEF Checkout, Running
  <2>2. CommitAt(w)
    BY DEF CommitInv
  <2>3. CommitAt(w)'
    BY <1>0, <1>7, <2>2 DEF Checkout, Frame, router, outcome, CommitAt, CommitsItself, Go, Set
  <2>4. \A v \in Workers \ {w} : Kept(v)
    BY <1>0, <1>7 DEF Checkout, Frame, router, outcome, Kept, Go, Set
  <2> QED
    BY CommitInv, <1>a, <2>1, <2>3, <2>4, OthersKeep
<1>8. ASSUME NEW w \in Workers, Commit(w) PROVE CommitInv'
  <2>1. pc[w] = "commit" /\ head = branch[w] /\ branch[w] \in DOMAIN tip /\ res[w] # "ok"
    BY <1>8 DEF Commit, CommitInv, CommitAt, BranchInv, TreeTypes
  <2>2. tree = IF Harness[cur[w]] = "ollama" THEN tree ELSE index
    BY <2>1 DEF CommitInv, CommitAt
  <2>3. /\ (pc'[w] = "gate" /\ tip'[branch[w]] = tree) \/ pc'[w] = "failed"
        /\ UNCHANGED <<cur, res, branch, tree>>
    BY <1>0, <1>8, <2>1, <2>2 DEF Commit, Frame, router, outcome, Go, Set
  <2>4. CommitAt(w)'
    BY <2>1, <2>3 DEF CommitAt, CommitsItself
  <2>5. \A v \in Workers \ {w} : Kept(v)
    BY <1>0, <1>8 DEF Commit, Frame, router, outcome, Kept, Go, Set
  <2>6. \A v \in Workers \ {w} : pc[v] \notin Running
    BY <1>a, <2>1 DEF Running
  <2> QED
    BY CommitInv, <2>4, <2>5, <2>6, OthersKeep
<1>9. ASSUME NEW w \in Workers, Gate(w) PROVE CommitInv'
  <2>1. pc[w] \in Running
    BY <1>9 DEF Gate, Running
  <2>2. CommitAt(w)
    BY DEF CommitInv
  <2>3. CommitAt(w)'
    BY <1>0, <1>9, <2>2 DEF Gate, Frame, router, worktree, CommitAt, CommitsItself, Go, Set
  <2>4. \A v \in Workers \ {w} : Kept(v)
    BY <1>0, <1>9 DEF Gate, Frame, router, worktree, Kept, Go, Set
  <2> QED
    BY CommitInv, <1>a, <2>1, <2>3, <2>4, OthersKeep
<1>10. ASSUME NEW w \in Workers, Escalate(w) PROVE CommitInv'
  <2>1. /\ pc[w] = "failed" /\ UNCHANGED outcome
        /\ \/ Go(w, "save") /\ UNCHANGED cur /\ res' = Set(res, w, "error")
           \/ Go(w, "execute") /\ UNCHANGED res /\ (UNCHANGED cur \/ \E e : cur' = Set(cur, w, e))
    BY <1>10, EscalateCases DEF GiveUp
  <2>2. CommitAt(w)
    BY DEF CommitInv
  <2>3. CommitAt(w)'
    BY <1>0, <2>1, <2>2 DEF CommitAt, CommitsItself, Go, Set
  <2>4. \A v \in Workers \ {w} : Kept(v)
    BY <1>0, <2>1 DEF outcome, Kept, Go, Set
  <2>5. \A v \in Workers \ {w} : pc[v] \notin Running
    BY <1>a, <2>1 DEF Running
  <2> QED
    BY CommitInv, <2>3, <2>4, <2>5, OthersKeep
<1>11. ASSUME NEW w \in Workers, Publish(w) PROVE CommitInv'
  <2>1. pc[w] \in Running
    BY <1>11 DEF Publish, Running
  <2>2. CommitAt(w)
    BY DEF CommitInv
  <2>3. CommitAt(w)'
    BY <1>0, <1>11, <2>2 DEF Publish, router, worktree, CommitAt, CommitsItself, Go, Set
  <2>4. \A v \in Workers \ {w} : Kept(v)
    BY <1>0, <1>11 DEF Publish, router, worktree, Kept, Go, Set
  <2> QED
    BY CommitInv, <1>a, <2>1, <2>3, <2>4, OthersKeep
<1>12. ASSUME NEW w \in Workers, SaveState(w) PROVE CommitInv'
  <2>1. pc[w] \in Running
    BY <1>12, SaveCases DEF Running
  <2>2. CommitAt(w)
    BY DEF CommitInv
  <2>3. CommitAt(w)'
    BY <1>0, <1>12, <2>2 DEF SaveState, End, outcome, CommitAt, CommitsItself, Go, Set
  <2>4. \A v \in Workers \ {w} : Kept(v)
    BY <1>0, <1>12 DEF SaveState, End, outcome, Kept, Go, Set
  <2> QED
    BY CommitInv, <1>a, <2>1, <2>3, <2>4, OthersKeep
<1>13. ASSUME NEW w \in Workers, WriteState(w) PROVE CommitInv'
  <2>1. pc[w] \in Running
    BY <1>13, WriteCases DEF Running
  <2>2. CommitAt(w)
    BY DEF CommitInv
  <2>3. CommitAt(w)'
    BY <1>0, <1>13, <2>2 DEF WriteState, outcome, CommitAt, CommitsItself, Go, Set
  <2>4. \A v \in Workers \ {w} : Kept(v)
    BY <1>0, <1>13 DEF WriteState, outcome, Kept, Go, Set
  <2> QED
    BY CommitInv, <1>a, <2>1, <2>3, <2>4, OthersKeep
<1>14. ASSUME Tick PROVE CommitInv'
  BY CommitInv, <1>14 DEF Tick, router, outcome, worktree, CommitInv, CommitAt, CommitsItself
<1>15. ASSUME Crash PROVE CommitInv'
  <2>1. /\ \A v \in Workers : pc'[v] \in {"idle", "done"}
        /\ UNCHANGED <<cur, pushed, verified>>
    BY <1>15 DEF Crash, Active, outcome
  <2>2. \A v \in Workers : res'[v] = "ok" => pc[v] = "done" /\ pc'[v] = "done" /\ res[v] = "ok"
    BY <1>15 DEF Crash, Active, CommitInv, CommitAt
  <2> QED
    BY CommitInv, <2>1, <2>2 DEF CommitInv, CommitAt, CommitsItself
<1>16. ASSUME UNCHANGED vars PROVE CommitInv'
  BY CommitInv, <1>16 DEF vars, router, outcome, worktree, CommitInv, CommitAt, CommitsItself
<1> QED
  BY <1>1, <1>2, <1>3, <1>4, <1>5, <1>6, <1>7, <1>8, <1>9, <1>10, <1>11, <1>12, <1>13, <1>14, <1>15, <1>16 DEF Next

-----------------------------------------------------------------------------
(* The invariant and the theorems                                          *)

(* The invariant holds initially.                                          *)
LEMMA FleetStart ==
    ASSUME Init
    PROVE  FleetInv
<1>1. Types
  BY ONLY SMT, Init DEF Init, Types, Running
<1>2. BudgetTypes
  BY ONLY SMT, Init, FreshState DEF Init, BudgetTypes, NoState, File
<1>3. TreeTypes /\ BranchInv
  BY ONLY SMT, Init DEF Init, TreeTypes, BranchInv, Branches, Empty
<1>4. BudgetInv
  BY ONLY SMT, Init, FreshState DEF Init, BudgetInv, NoState, File
<1>5. LadderInv /\ EscalationClimbs
  BY ONLY SMT, Init DEF Init, LadderInv, LadderAt, EscalationClimbs, Climbs, Elems, Attempt
<1>6. AloneInv /\ CommitInv
  BY Init DEF Init, AloneInv, CommitInv, CommitAt, CommitsItself, Running
<1>7. SpentInv
  BY ONLY SMT, Init DEF Init, SpentInv, Known, Running, NoState, File, Fresh
<1> QED
  BY <1>1, <1>2, <1>3, <1>4, <1>5, <1>6, <1>7 DEF FleetInv

(* Every step keeps it.                                                    *)
LEMMA FleetStep ==
    ASSUME FleetInv, [Next]_vars
    PROVE  FleetInv'
<1>1. Types' /\ BudgetTypes' /\ TreeTypes' /\ BranchInv' /\ BudgetInv' /\ LadderInv' /\ EscalationClimbs'
  BY TypesStep, BudgetTypesStep, TreeTypesStep, BranchStep, BudgetStep, LadderStep, ClimbStep DEF FleetInv
<1>2. Concurrency = 1 => AloneInv' /\ SpentInv' /\ CommitInv'
  BY AloneStep, SpentStep, CommitStep DEF FleetInv
<1> QED
  BY <1>1, <1>2 DEF FleetInv

(* With one worker at a time, what an adapter that commits itself has      *)
(* pushed is the tree its gate verified (commitWorktree), whatever the     *)
(* attempts, tasks and crashes before it left behind.                      *)
THEOREM PublishedVerified == Spec => []PublishedIsVerified
<1>1. FleetInv => PublishedIsVerified
  BY DEF FleetInv, CommitInv, CommitAt, PublishedIsVerified
<1> QED
  BY <1>1, FleetStart, FleetStep, PTL DEF Spec

(* For any number of workers and any catalog, the escalation hook tries    *)
(* every unlimited entry of the capability before it repeats one.          *)
THEOREM LadderIsClimbed == Spec => []EscalationClimbs
<1>1. FleetInv => EscalationClimbs
  BY DEF FleetInv
<1> QED
  BY <1>1, FleetStart, FleetStep, PTL DEF Spec

(* With one worker at a time, a limited entry that is selected has budget  *)
(* left, counting every dispatch of its window but those a crash or a      *)
(* failed save lost (LoadState, RecordDispatch, SaveState).                *)
THEOREM SelectedHasBudget == Spec => []SpentIsNotSelected
<1>1. FleetInv => SpentIsNotSelected
  <2> SUFFICES ASSUME FleetInv, Concurrency = 1, NEW w \in Workers, pc[w] = "execute",
                      cur[w] \notin escalated[w], ~ isUnlimited(cur[w])
               PROVE  spent[cur[w]] < Limit[cur[w]] + lost[cur[w]]
    BY DEF SpentIsNotSelected
  <2>1. cur[w] \in Entries /\ mem[w][cur[w]].reset = 0
    BY DEF FleetInv, Types, Running, LadderInv, LadderAt
  <2>2. mem[w][cur[w]].usage < Limit[cur[w]]
    BY <2>1 DEF FleetInv, BudgetInv, Budgeted
  <2>3. spent[cur[w]] <= mem[w][cur[w]].usage + lost[cur[w]]
    BY <2>1 DEF FleetInv, SpentInv, Running, Counts
  <2>4. /\ spent[cur[w]] \in Nat /\ lost[cur[w]] \in Nat /\ mem[w][cur[w]].usage \in Nat
        /\ Limit[cur[w]] \in Nat
    BY <2>1, FleetAssumption, StateCounts DEF FleetInv, BudgetTypes
  <2> QED
    BY ONLY SMT, <2>2, <2>3, <2>4
<1> QED
  BY <1>1, FleetStart, FleetStep, PTL DEF Spec
=============================================================================

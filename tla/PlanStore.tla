----------------------------- MODULE PlanStore ------------------------------
(***************************************************************************)
(* The plans that await approval: the durable, memory-guarded plan store   *)
(* (internal/memoryguard/durable_store.go behind orchestrator/memoryguard  *)
(* .go) and the operations of the orchestrator that put, read and consume  *)
(* a plan.  The store keeps its files as the run journal does, function by *)
(* function, so the file steps are those of RunJournalFile.  The callers   *)
(* of Key run at once; the plans of other goals come and go.               *)
(***************************************************************************)
EXTENDS RunJournalFile, FiniteSets

CONSTANTS
    Key,        \* the goal whose plan is followed
    First,      \* the plan it is first given
    Refined,    \* the plan ResumeWithFold makes of it
    Resumers,   \* the callers of Resume
    Folders,    \* the callers of ResumeWithFold
    Cancellers, \* the callers of ConsumePlanOnCancel
    MaxPuts     \* bound: plans put by ConfirmAndPlan

ASSUME PlanAssumption == Key \in Goals /\ {First, Refined} \subseteq Values

VARIABLES
    at,         \* per caller: where it is
    held,       \* per caller: the plan it read
    puts,       \* plans put
    fresh,      \* history: the callers whose plan is the last one put
    consumed,   \* history: a plan was resumed and none was put since
    gave        \* history: the callers that consumed or dispatched a plan

Callers == Resumers \cup Folders \cup Cancellers
callVars == <<at, held, puts, fresh, consumed, gave>>
planVars == <<vars, callVars>>

PlanInit ==
    /\ Init
    /\ at = [c \in Callers |-> "idle"]
    /\ held = [c \in Callers |-> None]
    /\ puts = 0
    /\ fresh = {}
    /\ consumed = FALSE
    /\ gave = {}

Rec(v) == [g |-> Key, v |-> v]
Move(c, l) == at' = [at EXCEPT ![c] = l]

-----------------------------------------------------------------------------
(* The store.                                                              *)

(* The memory-guard process, asked before a write, after a read and after  *)
(* a delete: it allows, or it denies, finds tamper, fails or answers       *)
(* nonsense, which are all the same to its client.                         *)
guarded(allowed, refused) == allowed \/ refused

(* DurableStore.Put after an allowing write gate: the line is on disk, or  *)
(* an error leaves the index as it was.                                    *)
Put(v) == SaveOrDelete(Rec(v)) \/ appendFails(Rec(v))

(* ConfirmAndPlan on require_approval: TryPut.  A denying gate writes      *)
(* nothing.                                                                *)
TryPut ==
    /\ pc = "open" /\ puts < MaxPuts
    /\ puts' = puts + 1
    /\ guarded(Put(First) /\ consumed' = FALSE /\ fresh' = {}, UNCHANGED <<vars, fresh, consumed>>)
    /\ UNCHANGED <<at, held, gave>>

(* DurableStore.Get: the index is read under the lock and the read gate    *)
(* asked after it; a denial is as good as no plan.                         *)
Get(c) ==
    /\ pc = "open" /\ at[c] = "idle"
    /\ LET none == Move(c, "returned") /\ UNCHANGED <<held, fresh>> IN
       IF index[Key] = None THEN none
       ELSE guarded(/\ held' = [held EXCEPT ![c] = index[Key]] /\ Move(c, "got")
                    /\ fresh' = fresh \cup {c}, none)
    /\ UNCHANGED <<vars, puts, consumed, gave>>

(* Mutant: the error of the tombstone's append is dropped.                 *)
TryDeleteBlind(c) ==
    /\ pc = "open" /\ at[c] = "got"
    /\ \/ /\ index[Key] # None
          /\ \/ SaveOrDelete(Rec(None)) /\ guarded(Move(c, "deleted"), Move(c, "returned"))
             \/ appendFails(Rec(None)) /\ Move(c, "deleted")
       \/ index[Key] = None /\ Move(c, "deleted") /\ UNCHANGED vars
    /\ UNCHANGED <<held, puts, fresh, consumed, gave>>

(* DurableStore.Delete through TryDelete: a plan that is there is          *)
(* tombstoned, then VerifyDelete passes or reports tamper, which ends the  *)
(* call; a plan that is gone is deleted without error.                     *)
TryDelete(c) ==
    /\ pc = "open" /\ at[c] = "got"
    /\ \/ /\ index[Key] # None
          /\ \/ SaveOrDelete(Rec(None)) /\ guarded(Move(c, "deleted"), Move(c, "returned"))
             \/ appendFails(Rec(None)) /\ Move(c, "returned")
       \/ index[Key] = None /\ Move(c, "deleted") /\ UNCHANGED vars
    /\ UNCHANGED <<held, puts, fresh, consumed, gave>>

-----------------------------------------------------------------------------
(* The callers, after their Get and TryDelete.                             *)

(* Resume: a rejection is reported; an approved plan is dispatched.        *)
Resume(c) ==
    /\ c \in Resumers /\ pc = "open" /\ at[c] = "deleted"
    /\ \/ Move(c, "returned") /\ UNCHANGED <<gave, consumed>>
       \/ Move(c, "dispatched") /\ gave' = gave \cup {c} /\ consumed' = (consumed \/ c \in fresh)
    /\ UNCHANGED <<vars, held, puts, fresh>>

(* ResumeWithFold: a rejection; a planner that fails; or the new plan is   *)
(* put, its error ignored, and dispatched.                                 *)
ResumeWithFold(c) ==
    /\ c \in Folders /\ pc = "open" /\ at[c] = "deleted"
    /\ \/ Move(c, "returned") /\ UNCHANGED <<vars, held, fresh, consumed, gave>>
       \/ /\ guarded(Put(Refined), UNCHANGED vars)
          /\ held' = [held EXCEPT ![c] = Refined]
          /\ Move(c, "dispatched") /\ gave' = gave \cup {c}
          /\ consumed' = FALSE /\ fresh' = {}
    /\ UNCHANGED puts

(* ConsumePlanOnCancel: the plan was there.                                *)
ConsumePlanOnCancel(c) ==
    /\ c \in Cancellers /\ pc = "open" /\ at[c] = "deleted"
    /\ Move(c, "returned") /\ gave' = gave \cup {c}
    /\ UNCHANGED <<vars, held, puts, fresh, consumed>>

-----------------------------------------------------------------------------
(* Other goals, compaction, crashes and the next start.                    *)
Others ==
    /\ \E rec \in Records : rec.g # Key /\ rec.v # Refined /\ (SaveOrDelete(rec) \/ appendFails(rec))
    /\ UNCHANGED callVars

Compact == (compactRename \/ compactTruncate) /\ UNCHANGED callVars

(* What some call may be writing.                                          *)
Writing(rec) ==
    \/ rec.g # Key /\ rec.v # Refined
    \/ rec = Rec(First) /\ puts < MaxPuts
    \/ rec = Rec(None) /\ index[Key] # None /\ \E c \in Callers : at[c] = "got"
    \/ rec = Rec(Refined) /\ \E c \in Folders : at[c] = "deleted"

(* The calls in progress end with the process; the one that was writing    *)
(* leaves what it wrote.                                                   *)
CrashAll ==
    /\ \/ crash /\ UNCHANGED consumed
       \/ \E rec \in Records :
             Writing(rec) /\ crashInAppend(rec) /\ consumed' = (consumed /\ rec.g # Key)
    /\ at' = [c \in Callers |-> IF at[c] = "idle" THEN "idle" ELSE "returned"]
    /\ held' = [c \in Callers |-> None]
    /\ fresh' = {}
    /\ UNCHANGED <<puts, gave>>

Open == NewFileStore /\ UNCHANGED callVars

PlanNext ==
    \/ TryPut \/ Others \/ Compact \/ CrashAll \/ Open
    \/ \E c \in Callers : Get(c) \/ TryDelete(c) \/ Resume(c) \/ ResumeWithFold(c) \/ ConsumePlanOnCancel(c)

PlanSpec == PlanInit /\ [][PlanNext]_planVars

-----------------------------------------------------------------------------
(* A plan that Resume has dispatched is in the store no more, and no crash *)
(* and restart, compaction or failing write brings it back: a second       *)
(* approval of the goal finds nothing (Resume: "so a stale                 *)
(* approval/rejection cannot be replayed against the same goal ID").       *)
DispatchedIsNotHeld == consumed /\ pc = "open" => index[Key] = None

(* What the documents say; see README.                                     *)

(* ConsumePlanOnCancel: a cancel that races a Resume consumes the plan     *)
(* exactly once; the loser finds no plan.                                  *)
ConsumedOnce == puts <= 1 => Cardinality(gave) <= 1

(* ResumeWithFold consumes the plan, so that a stale approval cannot be    *)
(* replayed: none is held for a goal that was dispatched.                  *)
FoldedIsNotHeld ==
    pc = "open" /\ puts <= 1 /\ (\E c \in Folders : at[c] = "dispatched") => index[Key] = None
=============================================================================

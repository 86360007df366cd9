---------------------------- MODULE DaemonProcess ---------------------------
(***************************************************************************)
(* The daemon subcommand (internal/cli/daemon.go): the lock file, the      *)
(* assembly of the control plane (orchestrate.go), the scheduler and the   *)
(* merged message source (schedule.go), the environment source (router.go),*)
(* the resumption of the journal's runs, the control loop's intake, and    *)
(* the way out, for several processes started one after the other or at    *)
(* once.  What happens to a goal after its admission is in GoalActor and   *)
(* RunDispatch.                                                            *)
(***************************************************************************)
EXTENDS Integers, Sequences, FiniteSets

CONSTANTS
    Procs,      \* the processes that may be started
    Deployments,\* a set of [scheduled, ctxAware, ticks, lines, procs]: the schedule path
                \* is set; the primary source ends with the context (Telegram), or not
                \* (stdin); and the bounds: the ticks of the clock, the lines each
                \* process reads, the processes started
    Entries,    \* the schedule: a sequence of [isAt, n]: daily at tick n, or every n ticks
    DayLen,     \* the ticks of a day
    QCap,       \* the buffer of the schedule channel
    None

ASSUME DaemonAssumption ==
    /\ Deployments \subseteq [scheduled : BOOLEAN, ctxAware : BOOLEAN, ticks : Nat, lines : Nat,
                              procs : SUBSET Procs]
    /\ {DayLen, QCap} \subseteq Nat \ {0}
    /\ Entries \in Seq([isAt : BOOLEAN, n : Nat])
    /\ \A i \in DOMAIN Entries : Entries[i].isAt \/ Entries[i].n > 0
    /\ None \notin Procs

VARIABLES
    deployed,   \* the environment's deployment
    pc,         \* per process: the main goroutine
    done,       \* the processes whose context has ended
    lock,       \* the lock file: the process that created it, or None
    sched,      \* per process: the scheduler's goroutine
    next, now,  \* per process: the entry under check, the time the check began
    last,       \* per process and entry: lastEvery, lastAtDay; -1: not yet
    schedCh,    \* per process: the entries fired and not yet read
    reader,     \* per process: the goroutine that reads the primary source
    primCh,     \* per process: its results not yet read
    autoSeq,    \* per process: the goals named so far
    lines,      \* per process: the lines read
    todo,       \* per process: the records still to be resumed
    journal,    \* per ID of a run in flight: the process that admitted the goal; the
                \* goals of the schedule, whose IDs carry the time, are left out
    clock,
    fired,      \* history: the firings of the processes that run, see Firing
    clash       \* history: an admitted goal took the ID of a run in flight

scheduler == <<sched, next, now, last, schedCh, fired>>
source    == <<reader, primCh, lines>>
vars == <<deployed, pc, done, lock, scheduler, source, autoSeq, todo, journal, clock, clash>>

Running == {"assembleSeams", "assembleControl", "schedule", "rehydrate", "resume", "loop",
            "join", "schedDone", "release"}
Held(p) == pc[p] \in Running
Set(f, p, v) == [f EXCEPT ![p] = v]
Go(p, l) == pc' = Set(pc, p, l)

Scheduled == deployed.scheduled
CtxAware == deployed.ctxAware
MaxClock == deployed.ticks
MaxLines == deployed.lines

Init ==
    /\ deployed \in Deployments
    /\ pc = [p \in Procs |-> "off"] /\ done = {} /\ lock = None
    /\ sched = [p \in Procs |-> "off"]
    /\ next = [p \in Procs |-> 1] /\ now = [p \in Procs |-> 0]
    /\ last = [p \in Procs |-> [i \in DOMAIN Entries |-> -1]]
    /\ schedCh = [p \in Procs |-> <<>>] /\ primCh = [p \in Procs |-> <<>>]
    /\ reader = [p \in Procs |-> "off"] /\ lines = [p \in Procs |-> 0]
    /\ autoSeq = [p \in Procs |-> 0] /\ todo = [p \in Procs |-> {}]
    /\ journal = <<>> /\ clock = 0 /\ fired = {} /\ clash = FALSE

-----------------------------------------------------------------------------
(* The lock and the assembly                                               *)

(* Mutant: the deferred release is registered before the error is checked. *)
acquireLockReleases(p) ==
    /\ pc[p] = "off" /\ p \in deployed.procs
    /\ IF lock = None THEN lock' = p /\ Go(p, "assembleSeams")
                      ELSE lock' = None /\ Go(p, "exited")
    /\ UNCHANGED <<done, scheduler, source, autoSeq, todo, journal, clock, clash>>

(* acquireLock: O_CREATE|O_EXCL; a process that finds the file exits.      *)
acquireLock(p) ==
    /\ pc[p] = "off" /\ p \in deployed.procs
    /\ IF lock = None THEN lock' = p /\ Go(p, "assembleSeams")
                      ELSE UNCHANGED lock /\ Go(p, "exited")
    /\ UNCHANGED <<done, scheduler, source, autoSeq, todo, journal, clock, clash>>

Still == <<done, lock, scheduler, source, autoSeq, todo, journal, clock, clash>>

(* assembleOrchestrate: the signing key first, then the stores, the        *)
(* planner, the audit sink, the policy client, the worker configuration    *)
(* and the transport; each may fail, and nothing was started yet.          *)
assembleSeams(p) ==
    /\ pc[p] = "assembleSeams" /\ (Go(p, "assembleControl") \/ Go(p, "release"))
    /\ UNCHANGED Still

(* The bounds, the language-model seams, the clarifier, the run journal,   *)
(* the orchestrator and the inbound channel.                               *)
assembleControl(p) ==
    /\ pc[p] = "assembleControl" /\ (Go(p, "schedule") \/ Go(p, "release"))
    /\ UNCHANGED Still

(* NewScheduler, or a schedule file that does not parse: the first "every" *)
(* firing is one interval from now.                                        *)
NewScheduler(p) ==
    /\ pc[p] = "schedule"
    /\ \/ /\ Scheduled
          /\ sched' = Set(sched, p, "wait")
          /\ last' = Set(last, p, [i \in DOMAIN Entries |-> IF Entries[i].isAt THEN -1 ELSE clock])
          /\ Go(p, "rehydrate")
       \/ ~Scheduled /\ Go(p, "rehydrate") /\ UNCHANGED <<sched, last>>
       \/ Scheduled /\ Go(p, "release") /\ UNCHANGED <<sched, last>>
    /\ UNCHANGED <<done, lock, next, now, schedCh, fired, source, autoSeq, todo, journal, clock, clash>>

(* RehydrateInFlight: an error of the journal resumes nothing.             *)
RehydrateInFlight(p) ==
    /\ pc[p] = "rehydrate" /\ Go(p, "resume")
    /\ todo' \in {todo, Set(todo, p, DOMAIN journal)}
    /\ UNCHANGED <<done, lock, scheduler, source, autoSeq, journal, clock, clash>>

Without(f, id) == [x \in DOMAIN f \ {id} |-> f[x]]

(* The in-flight runs are resumed one by one before the loop; a run may be *)
(* in flight still when ResumeFromRecord returns.                          *)
ResumeFromRecord(p) ==
    /\ pc[p] = "resume"
    /\ \/ /\ todo[p] = {} /\ Go(p, "loop") /\ UNCHANGED <<todo, journal>>
       \/ \E id \in todo[p] :
             /\ todo' = Set(todo, p, todo[p] \ {id})
             /\ journal' \in {journal, Without(journal, id)}
             /\ UNCHANGED pc
    /\ UNCHANGED <<done, lock, scheduler, source, autoSeq, clock, clash>>

-----------------------------------------------------------------------------
(* The scheduler                                                           *)

DayOf(t) == t \div DayLen

Due(p, i) ==
    IF Entries[i].isAt
    THEN now[p] % DayLen >= Entries[i].n /\ last[p][i] # DayOf(now[p])
    ELSE now[p] - last[p][i] >= Entries[i].n

Mark(p, i) == Set(last, p, Set(last[p], i, IF Entries[i].isAt THEN DayOf(now[p]) ELSE now[p]))

(* Run: the ticker's arm of the select; the check of a schedule without    *)
(* entries does nothing.                                                   *)
tickerFires(p) ==
    /\ sched[p] = "wait" /\ Entries # <<>>
    /\ sched' = Set(sched, p, "check") /\ now' = Set(now, p, clock)
    /\ UNCHANGED <<next, last, schedCh, fired, pc, done, lock, source, autoSeq, todo, journal, clock, clash>>

(* Run: the context's arm.                                                 *)
schedulerExits(p) ==
    /\ sched[p] = "wait" /\ p \in done
    /\ sched' = Set(sched, p, "exited")
    /\ UNCHANGED <<next, now, last, schedCh, fired, pc, done, lock, source, autoSeq, todo, journal, clock, clash>>

(* A firing: the time of the check that found it due, which the goal's ID  *)
(* carries, and the time at which the channel took it.                     *)
Firing(p, i) == [proc |-> p, entry |-> i, due |-> now[p], sent |-> clock,
                 nth |-> Cardinality({f \in fired : f.proc = p})]

(* Mutant: a firing blocks on the full channel whatever the context says.  *)
fireBlocks(p, i) ==
    /\ Len(schedCh[p]) < QCap
    /\ schedCh' = Set(schedCh, p, Append(schedCh[p], i))
    /\ fired' = fired \cup {Firing(p, i)}

(* fire: the goal is sent, which waits for room, or dropped when the       *)
(* context ends.  The clock may tick while the send waits.                 *)
fire(p, i) ==
    \/ /\ Len(schedCh[p]) < QCap
       /\ schedCh' = Set(schedCh, p, Append(schedCh[p], i))
       /\ fired' = fired \cup {Firing(p, i)}
    \/ p \in done /\ UNCHANGED <<schedCh, fired>>

(* Mutant: an interval entry is moved on by one interval, and so catches   *)
(* up after a wait.                                                        *)
checkEntriesCatchesUp(p) ==
    /\ sched[p] = "check"
    /\ \/ Due(p, next[p]) /\ fire(p, next[p])
          /\ last' = IF Entries[next[p]].isAt THEN Mark(p, next[p])
                     ELSE [last EXCEPT ![p][next[p]] = @ + Entries[next[p]].n]
       \/ ~Due(p, next[p]) /\ UNCHANGED <<schedCh, fired, last>>
    /\ IF next[p] = Len(Entries)
       THEN sched' = Set(sched, p, "wait") /\ next' = Set(next, p, 1) /\ now' = Set(now, p, 0)
       ELSE next' = Set(next, p, next[p] + 1) /\ UNCHANGED <<sched, now>>
    /\ UNCHANGED <<pc, done, lock, source, autoSeq, todo, journal, clock, clash>>

(* checkEntries, one entry: what is due is fired, then recorded, both by   *)
(* the time at which the check began.                                      *)
checkEntries(p) ==
    /\ sched[p] = "check"
    /\ \/ Due(p, next[p]) /\ fire(p, next[p]) /\ last' = Mark(p, next[p])
       \/ ~Due(p, next[p]) /\ UNCHANGED <<schedCh, fired, last>>
    /\ IF next[p] = Len(Entries)
       THEN sched' = Set(sched, p, "wait") /\ next' = Set(next, p, 1) /\ now' = Set(now, p, 0)
       ELSE next' = Set(next, p, next[p] + 1) /\ UNCHANGED <<sched, now>>
    /\ UNCHANGED <<pc, done, lock, source, autoSeq, todo, journal, clock, clash>>

-----------------------------------------------------------------------------
(* The message sources and the control loop                                *)

(* envMessageSource.Next and parseMessageLine: a goal, a control line that *)
(* does not parse, or the end of the input, which a read error is too; the *)
(* source knows nothing of the context.  A control line that parses        *)
(* changes nothing here: GoalActor has its handlers.                       *)
Lines == {"goal", "malformed"}
Results(p) == {"eof"} \cup IF lines[p] < MaxLines THEN Lines ELSE {}

Read(p, r) == lines' = Set(lines, p, IF r \in Lines THEN lines[p] + 1 ELSE lines[p])

(* The reader goroutine of the merged source, started by the first Next:   *)
(* it ends after a result that is no message.  One result waits in the     *)
(* channel and one in the reader's hand.                                   *)
primaryNext(p) ==
    /\ Scheduled /\ pc[p] \in Running /\ reader[p] = "reading" /\ Len(primCh[p]) < 2
    /\ \E r \in Results(p) :
          /\ primCh' = Set(primCh, p, Append(primCh[p], r)) /\ Read(p, r)
          /\ reader' = Set(reader, p, IF r = "goal" THEN "reading" ELSE r)
    /\ UNCHANGED <<pc, done, lock, scheduler, autoSeq, todo, journal, clock, clash>>

(* parseMessageLine names the goals of a process goal-1, goal-2, ...       *)
NewID(p) == <<"goal", autoSeq[p] + 1>>

(* routeNewGoal; the plan's record replaces one of the same ID.            *)
routeNewGoal(p, id) ==
    /\ journal' = [x \in DOMAIN journal \cup {id} |-> IF x = id THEN p ELSE journal[x]]
    /\ clash' = (clash \/ (id \in DOMAIN journal /\ journal[id] # p))

Take(p, r) ==
    CASE r = "goal" -> /\ routeNewGoal(p, NewID(p)) /\ autoSeq' = Set(autoSeq, p, autoSeq[p] + 1)
                       /\ UNCHANGED pc
      [] r = "malformed" -> UNCHANGED <<pc, journal, clash, autoSeq>>
      [] OTHER -> Go(p, "join") /\ UNCHANGED <<journal, clash, autoSeq>>

(* The control loop on the primary source alone.                           *)
readPrimary(p) ==
    /\ ~Scheduled /\ pc[p] = "loop"
    /\ \E r \in Results(p) : Read(p, r) /\ Take(p, r)
    /\ UNCHANGED <<done, lock, scheduler, reader, primCh, todo, clock>>

(* A source that observes the context ends with it.                        *)
primaryEnds(p) ==
    /\ ~Scheduled /\ CtxAware /\ pc[p] = "loop" /\ p \in done
    /\ Go(p, "join") /\ UNCHANGED Still

(* mergedMessageSource.Next: the first call starts the reader; then        *)
(* whichever arm is ready.                                                 *)
startReader(p) ==
    /\ Scheduled /\ pc[p] = "loop" /\ reader[p] = "off"
    /\ reader' = Set(reader, p, "reading")
    /\ UNCHANGED <<pc, done, lock, scheduler, primCh, lines, autoSeq, todo, journal, clock, clash>>

nextPrimary(p) ==
    /\ Scheduled /\ pc[p] = "loop" /\ primCh[p] # <<>>
    /\ primCh' = Set(primCh, p, Tail(primCh[p])) /\ Take(p, Head(primCh[p]))
    /\ UNCHANGED <<done, lock, scheduler, reader, lines, todo, clock>>

(* Mutant: the primary source is asked first.                              *)
nextScheduledAfter(p) ==
    /\ Scheduled /\ pc[p] = "loop" /\ reader[p] \notin {"off", "reading"} /\ schedCh[p] # <<>>
    /\ schedCh' = Set(schedCh, p, Tail(schedCh[p])) 
    /\ UNCHANGED <<pc, done, lock, sched, next, now, last, fired, source, autoSeq, todo, journal, clock, clash>>

nextScheduled(p) ==
    /\ Scheduled /\ pc[p] = "loop" /\ reader[p] # "off" /\ schedCh[p] # <<>>
    /\ schedCh' = Set(schedCh, p, Tail(schedCh[p])) 
    /\ UNCHANGED <<pc, done, lock, sched, next, now, last, fired, source, autoSeq, todo, journal, clock, clash>>

nextDone(p) ==
    /\ Scheduled /\ pc[p] = "loop" /\ reader[p] # "off" /\ p \in done
    /\ Go(p, "join") /\ UNCHANGED Still

-----------------------------------------------------------------------------
(* The way out: the goals are joined, then the deferred calls              *)

(* wg.Wait: each goal of the process has completed or is in flight still.  *)
join(p) ==
    /\ pc[p] = "join" /\ Go(p, IF Scheduled THEN "schedDone" ELSE "release")
    /\ \E S \in SUBSET {id \in DOMAIN journal : journal[id] = p} :
          journal' = [x \in DOMAIN journal \ S |-> journal[x]]
    /\ UNCHANGED <<done, lock, scheduler, source, autoSeq, todo, clock, clash>>

(* <-scheduler.Done()                                                      *)
schedulerDone(p) ==
    /\ pc[p] = "schedDone" /\ sched[p] = "exited"
    /\ Go(p, "release") /\ UNCHANGED Still

(* The memory of a process ends with it.                                   *)
Gone(p) ==
    /\ done' = done \ {p} /\ sched' = Set(sched, p, "off")
    /\ next' = Set(next, p, 1) /\ now' = Set(now, p, 0)
    /\ last' = Set(last, p, [i \in DOMAIN Entries |-> -1])
    /\ schedCh' = Set(schedCh, p, <<>>) /\ primCh' = Set(primCh, p, <<>>)
    /\ reader' = Set(reader, p, "off") /\ lines' = Set(lines, p, 0)
    /\ autoSeq' = Set(autoSeq, p, 0) /\ todo' = Set(todo, p, {})
    /\ fired' = {f \in fired : f.proc # p}
    /\ UNCHANGED <<journal, clock, clash>>

(* cleanup, releaseLock: the file is removed; the process exits.           *)
releaseLock(p) ==
    /\ pc[p] = "release" /\ lock' = None /\ Go(p, "exited") /\ Gone(p)

(* SIGINT or SIGTERM.                                                      *)
Signal(p) ==
    /\ Held(p) /\ p \notin done
    /\ done' = done \cup {p}
    /\ UNCHANGED <<pc, lock, scheduler, source, autoSeq, todo, journal, clock, clash>>

Crash(p) ==
    /\ Held(p) /\ Go(p, "crashed") /\ Gone(p) /\ UNCHANGED lock

(* The operator removes the lock a crash has left.                         *)
clearStaleLock ==
    /\ lock # None /\ pc[lock] = "crashed" /\ lock' = None
    /\ UNCHANGED <<pc, done, scheduler, source, autoSeq, todo, journal, clock, clash>>

Tick ==
    /\ clock < MaxClock /\ clock' = clock + 1
    /\ UNCHANGED <<pc, done, lock, scheduler, source, autoSeq, todo, journal, clash>>

Main(p) ==
    \/ assembleSeams(p) \/ assembleControl(p) \/ NewScheduler(p) \/ RehydrateInFlight(p)
    \/ todo[p] = {} /\ ResumeFromRecord(p)
    \/ startReader(p) \/ nextPrimary(p) \/ primaryEnds(p)
    \/ schedulerDone(p) \/ releaseLock(p)

(* The main goroutine waits for goals, resumed or admitted, whose calls of *)
(* a planner, a model or a box have no deadline.                           *)
Waits(p) == pc[p] = "join" \/ (pc[p] = "resume" /\ todo[p] # {})

Next ==
    /\ UNCHANGED deployed
    /\ \/ \E p \in Procs :
             \/ acquireLock(p) \/ Main(p) \/ ResumeFromRecord(p) \/ join(p)
             \/ readPrimary(p) \/ primaryNext(p)
             \/ nextScheduled(p) \/ nextDone(p)
             \/ tickerFires(p) \/ schedulerExits(p) \/ checkEntries(p)
             \/ Signal(p) \/ Crash(p)
       \/ clearStaleLock \/ Tick

Spec == Init /\ [][Next]_vars

(* The goroutines run; a select chooses among its ready arms at random, so *)
(* none of them is passed over for ever.  Nothing is assumed of the input, *)
(* of signals, of crashes, of the operator, nor of the goals the process   *)
(* Waits for.  By SingleInstance one process at a time has these steps to  *)
(* take.                                                                   *)
FairSpec ==
    /\ Spec
    /\ WF_vars(UNCHANGED deployed /\ \E p \in Procs : Main(p))
    /\ WF_vars(UNCHANGED deployed /\ \E p \in Procs : nextScheduled(p))
    /\ WF_vars(UNCHANGED deployed /\ \E p \in Procs : nextDone(p))
    /\ WF_vars(UNCHANGED deployed /\ \E p \in Procs : checkEntries(p))
    /\ SF_vars(UNCHANGED deployed /\ \E p \in Procs : schedulerExits(p))

-----------------------------------------------------------------------------
TypeOK ==
    /\ deployed \in Deployments
    /\ pc \in [Procs -> Running \cup {"off", "exited", "crashed"}]
    /\ done \subseteq Procs /\ lock \in Procs \cup {None}
    /\ sched \in [Procs -> {"off", "wait", "check", "exited"}]
    /\ next \in [Procs -> Nat] /\ now \in [Procs -> 0..MaxClock]
    /\ last \in [Procs -> [DOMAIN Entries -> -1..MaxClock]]
    /\ \A p \in Procs : Len(schedCh[p]) <= QCap /\ Len(primCh[p]) <= 2
    /\ reader \in [Procs -> {"off", "reading", "malformed", "eof"}]
    /\ lines \in [Procs -> 0..MaxLines] /\ autoSeq \in [Procs -> 0..MaxLines]
    /\ \A p \in Procs : todo[p] \subseteq DOMAIN journal
    /\ clock \in 0..MaxClock /\ clash \in BOOLEAN

(* One daemon at a time: whatever processes are started, refused, crash or *)
(* leave, the one that runs holds the lock file (acquireLock; a refused    *)
(* process leaves the file alone; releaseLock is the last deferred call).  *)
SingleInstance == \A p \in Procs : Held(p) => lock = p

(* Two instants of different days, or at least an interval apart.          *)
Apart(i, s, t) == IF Entries[i].isAt THEN DayOf(s) < DayOf(t) ELSE t - s >= Entries[i].n

(* However long a firing waits for room in the channel, it is not made up  *)
(* for: the next one of its entry falls due on another day, or an interval *)
(* later, and not before the first was sent; so of three firings of an     *)
(* entry the first and the last are sent on different days, or at least an *)
(* interval apart (checkEntries takes the time once, before it fires, and  *)
(* remembers that time after fire returns).                                *)
FiredInTime ==
    \A f, g \in fired :
        f # g /\ f.proc = g.proc /\ f.entry = g.entry /\ f.due <= g.due =>
            /\ Apart(f.entry, f.due, g.due)
            /\ f.sent <= g.due
            /\ \A h \in fired :
                  h # g /\ h.proc = g.proc /\ h.entry = g.entry /\ g.due <= h.due
                      => Apart(f.entry, f.sent, h.sent)

(* A scheduled goal is never starved by a blocking primary source: with    *)
(* the loop running it is read, or the loop ends (mergedMessageSource).    *)
ScheduledIsRead ==
    lock # None /\ (\E p \in {lock} : pc[p] = "loop" /\ Len(schedCh[p]) = QCap)
        ~> \A p \in {lock} \ {None} : pc[p] # "loop" \/ Len(schedCh[p]) < QCap

(* A daemon with a schedule, or on a source that ends with the context,    *)
(* that is signalled ends and removes its lock, whatever its scheduler and *)
(* its reader are waiting for, unless it waits for a goal for ever         *)
(* (mergedMessageSource.Next, Scheduler.Run, the dispatch's select).       *)
SignalEnds ==
    (Scheduled \/ CtxAware) /\ lock \in done
        ~> (lock \notin done \/ [](lock # None /\ Waits(lock)))

(* What the documents say; see README.                                     *)

(* interfaces.md: graceful shutdown on SIGINT and SIGTERM.                 *)
SignalShutsDown ==
    lock \in done ~> (lock \notin done \/ [](lock # None /\ Waits(lock)))

(* B-028: at the end of the input the control plane drains and exits; here *)
(* from the moment its goals are drained.                                  *)
EndOfInputExits == \A p \in Procs : pc[p] = "schedDone" ~> pc[p] \in {"exited", "crashed"}

(* REQ-175-02 and 03: an entry fires at its interval; a daily one not      *)
(* again until the next day.  After a firing that waited the next one may  *)
(* be sent at once.                                                        *)
SentInTime ==
    \A f, g \in fired :
        f # g /\ f.proc = g.proc /\ f.entry = g.entry /\ f.due <= g.due
            => Apart(f.entry, f.sent, g.sent)

(* B-028: a malformed control line is reported, and the loop continues.    *)
MalformedIsIgnored == \A p \in Procs : reader[p] # "malformed"

(* B-028: the IDs of the goals are collision-free.                         *)
IDsAreFresh == ~clash
=============================================================================

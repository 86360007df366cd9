------------------------ MODULE DaemonProcessProofs -------------------------
(***************************************************************************)
(* For every number of processes, every schedule and every length of the   *)
(* day: one daemon at a time, and no scheduled goal before its time.       *)
(***************************************************************************)
EXTENDS DaemonProcess, TLAPS

(* The types the proofs need.                                              *)
Types ==
    /\ pc \in [Procs -> Running \cup {"off", "exited", "crashed"}]
    /\ sched \in [Procs -> {"off", "wait", "check", "exited"}]
    /\ next \in [Procs -> Nat] /\ now \in [Procs -> Nat]
    /\ last \in [Procs -> [DOMAIN Entries -> Int]]
    /\ clock \in Nat
    /\ \A f \in fired : f.proc \in Procs /\ f.entry \in DOMAIN Entries /\ f.due \in Nat /\ f.sent \in Nat

(* What a firing at time t leaves in the memory of entry i.                *)
Mem(i, t) == IF Entries[i].isAt THEN DayOf(t) ELSE t

(***************************************************************************)
(* The inductive invariant of the scheduler.  A process that has not made  *)
(* its scheduler has fired nothing; the memory of an entry is not older    *)
(* than any of its firings and not younger than the check under way, whose *)
(* time is not in the future; and the firings of the entries which a check *)
(* has still to look at were sent before it began.                         *)
(***************************************************************************)
Early == {"off", "assembleSeams", "assembleControl", "schedule"}

Unmade == \A p \in Procs : pc[p] \in Early => sched[p] = "off"

Remembered == \A f \in fired : sched[f.proc] # "off" /\ Mem(f.entry, f.due) <= last[f.proc][f.entry]

Present ==
    \A p \in Procs :
        /\ sched[p] = "wait" => next[p] = 1 /\ \A i \in DOMAIN Entries : last[p][i] <= Mem(i, clock)
        /\ sched[p] = "check" => /\ next[p] \in DOMAIN Entries /\ now[p] <= clock
                                 /\ \A i \in DOMAIN Entries : last[p][i] <= Mem(i, now[p])
        /\ sched[p] = "off" => next[p] = 1

Handed ==
    \A f \in fired :
        /\ f.due <= f.sent /\ f.sent <= clock
        /\ sched[f.proc] = "check" /\ next[f.proc] <= f.entry => f.sent <= now[f.proc]

SchedInv == Unmade /\ Remembered /\ Present /\ Handed /\ FiredInTime

DaemonInv == Types /\ SingleInstance /\ SchedInv

(* The leaves are Zenon's, but for the ones that say otherwise.            *)
USE ZenonT(30)

-----------------------------------------------------------------------------
(* The main goroutine moves on, within the places it has.                  *)
LEMMA Moves ==
    ASSUME Types, NEW p \in Procs, NEW l, Go(p, l)
    PROVE  pc' = [pc EXCEPT ![p] = l] /\ pc'[p] = l /\ \A q \in Procs : q # p => pc'[q] = pc[q]
BY DEF Types, Go, Set

(* Every control step leaves the lock, the scheduler and the clock alone.  *)
LEMMA MainQuiet ==
    ASSUME NEW p \in Procs,
           \/ assembleSeams(p) \/ assembleControl(p) \/ RehydrateInFlight(p) \/ ResumeFromRecord(p)
           \/ startReader(p) \/ nextPrimary(p) \/ primaryEnds(p) \/ join(p) \/ schedulerDone(p)
           \/ readPrimary(p) \/ primaryNext(p) \/ nextScheduled(p) \/ nextDone(p)
    PROVE  /\ UNCHANGED <<lock, sched, next, now, last, fired, clock>>
           /\ pc[p] \in Running
           /\ \/ UNCHANGED pc
              \/ pc[p] = "assembleSeams" /\ Go(p, "assembleControl")
              \/ pc[p] = "assembleControl" /\ Go(p, "schedule")
              \/ \E l \in Running \ Early : Go(p, l)
<1> USE DEF Running, Early, scheduler, Still
<1>1. CASE assembleSeams(p) \/ assembleControl(p)
  BY <1>1 DEF assembleSeams, assembleControl
<1>2. CASE RehydrateInFlight(p)
  BY <1>2 DEF RehydrateInFlight
<1>3. CASE ResumeFromRecord(p)
  BY <1>3 DEF ResumeFromRecord
<1>4. CASE startReader(p)
  BY <1>4 DEF startReader
<1>5. ASSUME NEW r, Take(p, r)
      PROVE  UNCHANGED pc \/ Go(p, "join")
  BY <1>5 DEF Take
<1>6. CASE nextPrimary(p)
  BY <1>5, <1>6 DEF nextPrimary
<1>7. CASE readPrimary(p)
  BY <1>5, <1>7 DEF readPrimary
<1>8. CASE primaryEnds(p) \/ nextDone(p)
  BY <1>8 DEF primaryEnds, nextDone
<1>9. CASE join(p)
  BY <1>9 DEF join
<1>10. CASE schedulerDone(p)
  BY <1>10 DEF schedulerDone
<1>11. CASE primaryNext(p) \/ nextScheduled(p)
  BY <1>11 DEF primaryNext, nextScheduled
<1> QED
  BY <1>1, <1>2, <1>3, <1>4, <1>6, <1>7, <1>8, <1>9, <1>10, <1>11

(* The steps of a process, those of the machine, and no step at all.       *)
Quiet(p) ==
    \/ assembleSeams(p) \/ assembleControl(p) \/ RehydrateInFlight(p) \/ ResumeFromRecord(p)
    \/ startReader(p) \/ nextPrimary(p) \/ primaryEnds(p) \/ join(p) \/ schedulerDone(p)
    \/ readPrimary(p) \/ primaryNext(p) \/ nextScheduled(p) \/ nextDone(p)

(* What a step may be: those the daemon's own invariants must look at are  *)
(* named, the others are quiet.                                            *)
LEMMA StepCases ==
    ASSUME [Next]_vars
    PROVE  \/ \E p \in Procs :
                 \/ Quiet(p) \/ acquireLock(p) \/ NewScheduler(p) \/ releaseLock(p) \/ Crash(p)
                 \/ tickerFires(p) \/ schedulerExits(p) \/ checkEntries(p) \/ Signal(p)
           \/ clearStaleLock \/ Tick \/ UNCHANGED vars
BY DEF Next, Main, Quiet

(* The day of an instant, and that days do not run backwards.              *)
LEMMA DayType ==
    ASSUME NEW t \in Nat
    PROVE  DayOf(t) \in Nat
<1>1. DayLen \in Nat \ {0}
  BY DaemonAssumption
<1> QED
  BY ONLY SMT, <1>1, t \in Nat DEF DayOf

(* A later instant is of the same day or a later one (DayOf).              *)
LEMMA DayMonotone ==
    ASSUME NEW s \in Nat, NEW t \in Nat, s <= t
    PROVE  DayOf(s) <= DayOf(t)
<1>1. DayLen \in Nat \ {0}
  BY DaemonAssumption
<1> QED
  BY ONLY SMT, <1>1, s \in Nat, t \in Nat, s <= t DEF DayOf

(* So what fireEntry remembers of an entry does not run backwards.         *)
LEMMA MemMonotone ==
    ASSUME NEW i, NEW s \in Nat, NEW t \in Nat, s <= t
    PROVE  Mem(i, s) \in Nat /\ Mem(i, t) \in Nat /\ Mem(i, s) <= Mem(i, t)
BY DayType, DayMonotone DEF Mem

(* Every entry of the schedule is a daily or an interval one.              *)
LEMMA EntryType ==
    ASSUME NEW i \in DOMAIN Entries
    PROVE  Entries[i] \in [isAt : BOOLEAN, n : Nat]
<1> DEFINE E == [isAt : BOOLEAN, n : Nat]
<1>1. Entries \in Seq(E)
  BY DaemonAssumption
<1> HIDE DEF E
<1>2. Entries[i] \in E
  BY SMT, <1>1
<1> QED
  BY <1>2 DEF E

(* Days and intervals: who comes earlier, or goes later, is still apart.   *)
LEMMA ApartWidens ==
    ASSUME NEW i \in DOMAIN Entries, NEW s \in Nat, NEW t \in Nat, NEW u \in Nat, NEW v \in Nat,
           s <= t, Apart(i, t, u), u <= v
    PROVE  Apart(i, s, v)
<1>1. Entries[i].n \in Nat
  BY EntryType
<1>2. CASE Entries[i].isAt
  <2>1. DayOf(s) <= DayOf(t) /\ DayOf(t) < DayOf(u) /\ DayOf(u) <= DayOf(v)
    BY <1>2, DayMonotone DEF Apart
  <2>2. DayOf(s) \in Nat /\ DayOf(t) \in Nat /\ DayOf(u) \in Nat /\ DayOf(v) \in Nat
    BY DayType
  <2>3. DayOf(s) < DayOf(v)
    BY SMT, <2>1, <2>2
  <2> QED
    BY <1>2, <2>3 DEF Apart
<1>3. CASE ~ Entries[i].isAt
  BY SMT, <1>1, <1>3 DEF Apart
<1> QED
  BY <1>2, <1>3

(* Without firings, or with fewer of them, nothing is out of time.         *)
LEMMA FewerFired ==
    ASSUME FiredInTime, fired' \subseteq fired
    PROVE  FiredInTime'
BY DEF FiredInTime, Apart, DayOf

(* What the record of a firing holds (fire).                               *)
LEMMA FiringFields ==
    ASSUME NEW p, NEW i
    PROVE  /\ Firing(p, i).proc = p /\ Firing(p, i).entry = i
           /\ Firing(p, i).due = now[p] /\ Firing(p, i).sent = clock
BY DEF Firing

(* Every step keeps the types of the scheduler's memory.                   *)
LEMMA TypesStep ==
    ASSUME Types, Present, [Next]_vars
    PROVE  Types'
<1> USE DaemonAssumption DEF Types
<1>1. ASSUME NEW p \in Procs, NEW l \in Running \cup {"off", "exited", "crashed"}, Go(p, l)
      PROVE  pc' \in [Procs -> Running \cup {"off", "exited", "crashed"}]
  BY <1>1 DEF Go, Set
<1>2. ASSUME NEW p \in Procs, Quiet(p)
      PROVE  Types'
  <2>1. /\ UNCHANGED <<sched, next, now, last, fired, clock>>
        /\ UNCHANGED pc \/ \E l \in Running : Go(p, l)
    BY <1>2, MainQuiet DEF Quiet, Running
  <2> QED
    BY <1>1, <2>1
<1>3. ASSUME NEW p \in Procs, acquireLock(p)
      PROVE  Types'
  BY <1>1, <1>3 DEF acquireLock, scheduler, Running
<1>4. ASSUME NEW p \in Procs, NewScheduler(p)
      PROVE  Types'
  <2>1. [i \in DOMAIN Entries |-> IF Entries[i].isAt THEN -1 ELSE clock] \in [DOMAIN Entries -> Int]
    BY SMT
  <2> QED
    BY <1>1, <1>4, <2>1 DEF NewScheduler, Running, Set
<1>5. ASSUME NEW p \in Procs, Gone(p)
      PROVE  /\ sched' \in [Procs -> {"off", "wait", "check", "exited"}]
             /\ next' \in [Procs -> Nat] /\ now' \in [Procs -> Nat]
             /\ last' \in [Procs -> [DOMAIN Entries -> Int]]
             /\ clock' = clock /\ fired' \subseteq fired
  <2>1. [i \in DOMAIN Entries |-> -1] \in [DOMAIN Entries -> Int]
    BY SMT
  <2> QED
    BY <1>5, <2>1 DEF Gone, Set
<1>6. ASSUME NEW p \in Procs, releaseLock(p) \/ Crash(p)
      PROVE  Types'
  BY <1>1, <1>5, <1>6 DEF releaseLock, Crash
<1>7. ASSUME NEW p \in Procs, tickerFires(p) \/ schedulerExits(p)
      PROVE  Types'
  BY <1>7 DEF tickerFires, schedulerExits, Set
<1>8. ASSUME NEW p \in Procs, checkEntries(p)
      PROVE  Types'
  <2>1. next[p] \in DOMAIN Entries /\ now[p] \in Nat
    BY <1>8 DEF checkEntries, Present
  <2>2. Mark(p, next[p]) \in [Procs -> [DOMAIN Entries -> Int]]
    <3>1. ASSUME NEW v \in Int
          PROVE  Set(last, p, Set(last[p], next[p], v)) \in [Procs -> [DOMAIN Entries -> Int]]
      <4>1. Set(last[p], next[p], v) \in [DOMAIN Entries -> Int]
        BY DEF Set
      <4> QED
        BY <4>1 DEF Set
    <3>2. DayOf(now[p]) \in Int /\ now[p] \in Int
      BY SMT, <2>1, DayType
    <3> QED
      BY <3>1, <3>2 DEF Mark
  <2>3. last' \in [Procs -> [DOMAIN Entries -> Int]]
    BY <1>8, <2>2 DEF checkEntries
  <2>4. /\ \A f \in fired' : /\ f.proc \in Procs /\ f.entry \in DOMAIN Entries
                            /\ f.due \in Nat /\ f.sent \in Nat
    <3>1. fired' = fired \/ fired' = fired \cup {Firing(p, next[p])}
      BY <1>8 DEF checkEntries, fire
    <3>2. LET e == Firing(p, next[p]) IN
             /\ e.proc \in Procs /\ e.entry \in DOMAIN Entries /\ e.due \in Nat /\ e.sent \in Nat
      BY ONLY <2>1, FiringFields, Types, p \in Procs DEF Types
    <3>3. \A f \in fired : /\ f.proc \in Procs /\ f.entry \in DOMAIN Entries
                           /\ f.due \in Nat /\ f.sent \in Nat
      BY ONLY Types DEF Types
    <3> QED
      BY ONLY <3>1, <3>2, <3>3
  <2>5. /\ sched' \in [Procs -> {"off", "wait", "check", "exited"}]
        /\ next' \in [Procs -> Nat] /\ now' \in [Procs -> Nat]
        /\ UNCHANGED <<pc, clock>>
    <3>1. CASE next[p] = Len(Entries)
      <4>1. sched' = Set(sched, p, "wait") /\ next' = Set(next, p, 1) /\ now' = Set(now, p, 0)
        BY <1>8, <3>1 DEF checkEntries
      <4>2. UNCHANGED <<pc, clock>>
        BY <1>8 DEF checkEntries
      <4> QED
        BY <4>1, <4>2 DEF Set
    <3>2. CASE next[p] # Len(Entries)
      <4>1. next[p] + 1 \in Nat
        BY SMT
      <4> QED
        BY <1>8, <3>2, <4>1 DEF checkEntries, Set
    <3> QED
      BY <3>1, <3>2
  <2> QED
    BY <2>3, <2>4, <2>5
<1>9. ASSUME NEW p \in Procs, Signal(p)
      PROVE  Types'
  BY <1>9 DEF Signal, scheduler
<1>10. CASE clearStaleLock \/ Tick
  <2>1. /\ UNCHANGED <<pc, scheduler>> /\ clock' \in {clock, clock + 1}
    BY <1>10 DEF clearStaleLock, Tick
  <2>2. clock + 1 \in Nat
    BY SMT
  <2> QED
    BY <2>1, <2>2 DEF scheduler
<1>11. CASE UNCHANGED vars
  BY <1>11 DEF vars, scheduler
<1> HIDE DEF Types
<1> QED
  BY <1>2, <1>3, <1>4, <1>6, <1>7, <1>8, <1>9, <1>10, <1>11, StepCases

(* Whoever takes the lock finds it free, and whoever removes it holds it   *)
(* or finds its holder dead.                                               *)
LEMMA LockStep ==
    ASSUME Types, SingleInstance, [Next]_vars
    PROVE  SingleInstance'
<1> USE DEF SingleInstance, Held
<1>1. ASSUME NEW p \in Procs, Quiet(p)
      PROVE  SingleInstance'
  <2>1. UNCHANGED lock /\ pc[p] \in Running /\ (UNCHANGED pc \/ \E l \in Running : Go(p, l))
    BY <1>1, MainQuiet DEF Quiet, Running
  <2> QED
    BY <2>1, Moves
<1>2. ASSUME NEW p \in Procs, acquireLock(p)
      PROVE  SingleInstance'
  <2>1. CASE lock = None
    BY <1>2, <2>1, Moves, DaemonAssumption DEF acquireLock
  <2>2. CASE lock # None
    BY SMT, <1>2, <2>2, Moves DEF acquireLock, Running
  <2> QED
    BY <2>1, <2>2
<1>3. ASSUME NEW p \in Procs, NewScheduler(p)
      PROVE  SingleInstance'
  <2>1. UNCHANGED lock /\ pc[p] \in Running /\ \E l \in Running : Go(p, l)
    BY <1>3 DEF NewScheduler, Running
  <2> QED
    BY <2>1, Moves
<1>4. ASSUME NEW p \in Procs, releaseLock(p)
      PROVE  SingleInstance'
  <2>1. pc[p] \in Running /\ Go(p, "exited") /\ "exited" \notin Running
    BY <1>4 DEF releaseLock, Running
  <2> QED
    BY <2>1, Moves
<1>5. ASSUME NEW p \in Procs, Crash(p)
      PROVE  SingleInstance'
  <2>1. UNCHANGED lock /\ Go(p, "crashed") /\ "crashed" \notin Running
    BY <1>5 DEF Crash, Running
  <2> QED
    BY <2>1, Moves
<1>6. ASSUME NEW p \in Procs, tickerFires(p) \/ schedulerExits(p) \/ checkEntries(p) \/ Signal(p)
      PROVE  SingleInstance'
  BY <1>6 DEF tickerFires, schedulerExits, checkEntries, Signal
<1>7. CASE clearStaleLock
  BY <1>7 DEF clearStaleLock, Running
<1>8. CASE Tick \/ UNCHANGED vars
  BY <1>8 DEF Tick, vars
<1> HIDE DEF SingleInstance
<1> QED
  BY <1>1, <1>2, <1>3, <1>4, <1>5, <1>6, <1>7, <1>8, StepCases

(* The scheduler: what is due is later than what its memory holds, and the *)
(* memory is brought up to date behind every firing.                       *)
LEMMA CheckStep ==
    ASSUME Types, Types', SchedInv, NEW p \in Procs, checkEntries(p)
    PROVE  SchedInv'
<1> DEFINE i == next[p]
           t == now[p]
           e == Firing(p, i)
<1> USE DEF SchedInv
<1>1. /\ i \in DOMAIN Entries /\ i \in 1..Len(Entries) /\ t \in Nat /\ clock \in Nat /\ t <= clock
      /\ sched[p] = "check" /\ clock' = clock /\ pc' = pc
      /\ \A j \in DOMAIN Entries : last[p][j] \in Int /\ last[p][j] <= Mem(j, t)
  <2>1. sched[p] = "check" /\ clock' = clock /\ pc' = pc
    BY DEF checkEntries
  <2>2. /\ next[p] \in DOMAIN Entries /\ now[p] <= clock
        /\ \A j \in DOMAIN Entries : last[p][j] <= Mem(j, now[p])
    BY <2>1 DEF Present
  <2>3. now[p] \in Nat /\ clock \in Nat /\ \A j \in DOMAIN Entries : last[p][j] \in Int
    BY DEF Types
  <2>4. DOMAIN Entries = 1..Len(Entries)
    BY SMT, DaemonAssumption
  <2> QED
    BY <2>1, <2>2, <2>3, <2>4
<1>2. Mem(i, t) \in Nat
  BY <1>1, MemMonotone
<1>3. /\ \A j \in DOMAIN Entries : last[p][j] <= last'[p][j] /\ last'[p][j] <= Mem(j, t)
      /\ \A q \in Procs : q # p => last'[q] = last[q]
  <2>1. CASE last' = last
    BY SMT, <1>1, <2>1
  <2>2. CASE last' = Mark(p, i)
    <3>1. last' = [last EXCEPT ![p] = [last[p] EXCEPT ![i] = Mem(i, t)]]
      BY <2>2 DEF Mark, Set, Mem
    <3> QED
      BY SMT, <1>1, <1>2, <3>1 DEF Types
  <2> QED
    BY <2>1, <2>2 DEF checkEntries
<1>4. fired' = fired \/ (fired' = fired \cup {e} /\ Due(p, i) /\ last'[p][i] = Mem(i, t))
  <2>1. CASE ~ Due(p, i) /\ fired' = fired
    BY <2>1
  <2>2. CASE Due(p, i) /\ fire(p, i) /\ last' = Mark(p, i)
    <3>1. last'[p][i] = Mem(i, t)
      BY <1>1, <2>2 DEF Mark, Set, Mem, Types
    <3> QED
      BY <2>2, <3>1 DEF fire
  <2> QED
    BY <2>1, <2>2 DEF checkEntries
<1>5. /\ \A q \in Procs : q # p => sched'[q] = sched[q] /\ next'[q] = next[q] /\ now'[q] = now[q]
      /\ \/ sched'[p] = "wait" /\ next'[p] = 1
         \/ sched'[p] = "check" /\ next'[p] = i + 1 /\ i # Len(Entries) /\ now'[p] = t
  <2>1. CASE i = Len(Entries)
    <3>1. sched' = Set(sched, p, "wait") /\ next' = Set(next, p, 1) /\ now' = Set(now, p, 0)
      BY <2>1 DEF checkEntries
    <3> QED
      BY <3>1 DEF Set, Types
  <2>2. CASE i # Len(Entries)
    <3>1. next' = Set(next, p, i + 1) /\ sched' = sched /\ now' = now
      BY <2>2 DEF checkEntries
    <3> QED
      BY <1>1, <2>2, <3>1 DEF Set, Types
  <2> QED
    BY <2>1, <2>2
<1>12. e.proc = p /\ e.entry = i /\ e.due = t /\ e.sent = clock
  BY FiringFields
<1> HIDE DEF i, t, e
<1>6. \A f \in fired : /\ f.proc \in Procs /\ f.entry \in DOMAIN Entries /\ f.due \in Nat
                       /\ f.sent \in Nat /\ sched[f.proc] # "off" /\ Mem(f.entry, f.due) \in Nat
                       /\ Mem(f.entry, f.due) <= last[f.proc][f.entry]
  BY SMT, MemMonotone DEF Types, Remembered
<1>7. \A q \in Procs : \A j \in DOMAIN Entries : last[q][j] \in Int /\ last'[q][j] \in Int
  BY DEF Types
<1>8. Unmade'
  BY <1>1, <1>5 DEF Unmade
<1>9. Remembered'
  <2>1. ASSUME NEW f \in fired
        PROVE  sched'[f.proc] # "off" /\ Mem(f.entry, f.due) <= last'[f.proc][f.entry]
    <3>1. last[f.proc][f.entry] <= last'[f.proc][f.entry]
      BY SMT, <1>3, <1>6, <1>7
    <3>2. sched'[f.proc] # "off"
      BY <1>5, <1>6
    <3> QED
      BY SMT, <1>6, <1>7, <3>1, <3>2
  <2>2. ASSUME last'[p][i] = Mem(i, t)
        PROVE  sched'[p] # "off" /\ Mem(i, t) <= last'[p][i]
    BY SMT, <1>2, <1>5, <2>2
  <2>3. CASE fired' = fired
    BY <2>1, <2>3 DEF Remembered, Mem, DayOf
  <2>4. CASE fired' = fired \cup {e} /\ last'[p][i] = Mem(i, t)
    BY <1>12, <2>1, <2>2, <2>4 DEF Remembered, Mem, DayOf
  <2> QED
    BY <1>4, <2>3, <2>4
<1>10. Present'
  <2>1. \A j \in DOMAIN Entries : last'[p][j] <= Mem(j, clock)
    <3>1. ASSUME NEW j \in DOMAIN Entries
          PROVE  last'[p][j] <= Mem(j, clock)
      <4>1. Mem(j, t) \in Nat /\ Mem(j, clock) \in Nat /\ Mem(j, t) <= Mem(j, clock)
        BY <1>1, MemMonotone
      <4> QED
        BY SMT, <1>3, <1>7, <4>1
    <3> QED
      BY <3>1
  <2>2. i # Len(Entries) => i + 1 \in DOMAIN Entries
    BY SMT, <1>1, DaemonAssumption
  <2> QED
    BY <1>1, <1>3, <1>5, <2>1, <2>2 DEF Present, Mem, DayOf
<1>11. Handed'
  <2>1. ASSUME NEW f \in fired
        PROVE  /\ f.due <= f.sent /\ f.sent <= clock'
               /\ sched'[f.proc] = "check" /\ next'[f.proc] <= f.entry => f.sent <= now'[f.proc]
    <3>1. f.due <= f.sent /\ f.sent <= clock' /\ f.proc \in Procs /\ f.entry \in Nat
      BY SMT, <1>1, <1>6 DEF Handed
    <3>2. CASE f.proc # p
      BY <1>5, <3>1, <3>2 DEF Handed
    <3>3. CASE f.proc = p
      <4>1. ASSUME sched'[p] = "check", next'[p] <= f.entry
            PROVE  f.sent <= now'[p]
        <5>1. next'[p] = i + 1 /\ now'[p] = t
          BY SMT, <1>5, <4>1
        <5>2. i <= f.entry
          BY SMT, <1>1, <3>1, <4>1, <5>1
        <5> QED
          BY <1>1, <3>3, <5>1, <5>2 DEF Handed, i, t
      <4> QED
        BY <3>1, <3>3, <4>1
    <3> QED
      BY <3>2, <3>3
  <2>2. /\ e.due <= e.sent /\ e.sent <= clock'
        /\ sched'[e.proc] = "check" /\ next'[e.proc] <= e.entry => e.sent <= now'[e.proc]
    <3>1. e.due <= e.sent /\ e.sent <= clock'
      BY SMT, <1>1, <1>12
    <3>2. sched'[p] = "check" => ~ (next'[p] <= i)
      BY SMT, <1>1, <1>5
    <3> QED
      BY <1>12, <3>1, <3>2
  <2> QED
    BY <1>4, <2>1, <2>2 DEF Handed
<1>13. FiredInTime'
  <2>1. CASE fired' = fired
    BY <2>1, FewerFired
  <2>2. CASE fired' = fired \cup {e} /\ Due(p, i)
    <3>1. ASSUME NEW f \in fired, f.proc = p, f.entry = i
          PROVE  f.due < t /\ Apart(i, f.due, t) /\ f.sent <= t
      <4>1. f.due \in Nat /\ Mem(i, f.due) \in Nat /\ Mem(i, f.due) <= last[p][i] /\ last[p][i] \in Int
        BY <1>6, <1>7, <3>1
      <4>2. f.sent <= t
        <5>1. next[p] <= f.entry
          BY SMT, <1>1, <3>1 DEF i
        <5> QED
          BY <1>1, <3>1, <5>1 DEF Handed, t
      <4>3. CASE Entries[i].isAt
        <5>1. last[p][i] # DayOf(t) /\ last[p][i] <= DayOf(t) /\ DayOf(t) \in Nat
          BY <1>1, <1>2, <2>2, <4>3 DEF Due, Mem, i, t
        <5>2. DayOf(f.due) < DayOf(t)
          BY SMT, <4>1, <4>3, <5>1 DEF Mem
        <5>3. t <= f.due => DayOf(t) <= DayOf(f.due)
          BY <1>1, <4>1, DayMonotone
        <5>4. DayOf(f.due) \in Nat
          BY <4>1, DayType
        <5>5. f.due < t
          BY SMT, <1>1, <4>1, <5>1, <5>2, <5>3, <5>4
        <5> QED
          BY <4>2, <4>3, <5>2, <5>5 DEF Apart
      <4>4. CASE ~ Entries[i].isAt
        <5>1. t - last[p][i] >= Entries[i].n /\ Entries[i].n \in Nat /\ Entries[i].n > 0
          <6>1. Entries[i] \in [isAt : BOOLEAN, n : Nat] /\ Entries[i].n > 0
            BY <1>1, <4>4, EntryType, DaemonAssumption
          <6> QED
            BY <2>2, <4>4, <6>1 DEF Due, i, t
        <5>2. f.due < t /\ t - f.due >= Entries[i].n
          BY SMT, <1>1, <4>1, <4>4, <5>1 DEF Mem
        <5> QED
          BY <4>2, <4>4, <5>2 DEF Apart
      <4> QED
        BY <4>3, <4>4
    <3>2. ASSUME NEW f \in fired, f.proc = p, f.entry = i
          PROVE  ~ (t <= f.due)
      <4>1. f.due < t /\ f.due \in Nat /\ t \in Nat
        BY <1>1, <1>6, <3>1, <3>2
      <4> QED
        BY SMT, <4>1
    <3>3. ASSUME NEW f \in fired, NEW g \in fired, f # g, f.proc = p, f.entry = i,
                 g.proc = p, g.entry = i, f.due <= g.due
          PROVE  Apart(i, f.sent, e.sent)
      <4>1. f.sent <= g.due /\ Apart(i, g.due, t) /\ t <= e.sent
        BY <1>1, <1>12, <3>1, <3>3 DEF FiredInTime
      <4>2. f.sent \in Nat /\ g.due \in Nat /\ t \in Nat /\ e.sent \in Nat
        BY <1>1, <1>6, <1>12
      <4> QED
        BY <1>1, <4>1, <4>2, ApartWidens
    <3>4. ASSUME NEW f \in fired', NEW g \in fired', f # g, f.proc = g.proc, f.entry = g.entry,
                 f.due <= g.due
          PROVE  f \in fired /\ (g \in fired \/ (g = e /\ f.proc = p /\ f.entry = i))
      BY <1>12, <2>2, <3>2, <3>4
    <3>5. ASSUME NEW f \in fired', NEW g \in fired', f # g, f.proc = g.proc, f.entry = g.entry,
                 f.due <= g.due
          PROVE  Apart(f.entry, f.due, g.due) /\ f.sent <= g.due
      <4>1. CASE g \in fired
        BY <3>4, <3>5, <4>1 DEF FiredInTime
      <4>2. CASE g = e /\ f.proc = p /\ f.entry = i
        BY <1>12, <3>1, <3>4, <3>5, <4>2
      <4> QED
        BY <3>4, <3>5, <4>1, <4>2
    <3>6. ASSUME NEW f \in fired', NEW g \in fired', f # g, f.proc = g.proc, f.entry = g.entry,
                 f.due <= g.due,
                 NEW h \in fired', h # g, h.proc = g.proc, h.entry = g.entry, g.due <= h.due
          PROVE  Apart(f.entry, f.sent, h.sent)
      <4>1. f \in fired /\ g \in fired
        <5>1. f \in fired
          BY <3>4, <3>6
        <5> QED
          BY <3>4, <3>6, <5>1
      <4>2. CASE h \in fired
        BY <3>6, <4>1, <4>2 DEF FiredInTime
      <4>3. CASE h = e
        BY <1>12, <3>3, <3>6, <4>1, <4>3
      <4> QED
        BY <2>2, <3>6, <4>2, <4>3
    <3> QED
      BY <3>5, <3>6 DEF FiredInTime, Apart, DayOf
  <2> QED
    BY <1>4, <2>1, <2>2
<1> QED
  BY <1>8, <1>9, <1>10, <1>11, <1>13

(* The other steps of the scheduler, of its process and of the clock.      *)
LEMMA SchedStep ==
    ASSUME Types, Types', SchedInv, [Next]_vars
    PROVE  SchedInv'
<1> DEFINE Goal == SchedInv'
<1> USE DEF SchedInv
<1>1. ASSUME UNCHANGED <<sched, next, now, last, fired, clock>>,
             \A q \in Procs : pc'[q] \in Early => pc[q] \in Early
      PROVE  Goal
  <2>1. FiredInTime'
    BY <1>1, FewerFired
  <2> QED
    BY <1>1, <2>1 DEF Unmade, Remembered, Present, Handed, Mem, DayOf
<1>2. ASSUME NEW p \in Procs, Quiet(p)
      PROVE  Goal
  <2>1. /\ UNCHANGED <<sched, next, now, last, fired, clock>>
        /\ \/ UNCHANGED pc
           \/ pc[p] \in Early /\ Go(p, "assembleControl")
           \/ pc[p] \in Early /\ Go(p, "schedule")
           \/ \E l \in Running \ Early : Go(p, l)
    BY <1>2, MainQuiet DEF Quiet, Early
  <2>2. \A q \in Procs : pc'[q] \in Early => pc[q] \in Early
    BY <2>1, Moves
  <2> QED
    BY <1>1, <2>1, <2>2
<1>3. ASSUME NEW p \in Procs, acquireLock(p)
      PROVE  Goal
  <2>1. UNCHANGED <<sched, next, now, last, fired, clock>> /\ pc[p] \in Early
    BY <1>3 DEF acquireLock, scheduler, Early
  <2>2. Go(p, "assembleSeams") \/ Go(p, "exited")
    BY <1>3 DEF acquireLock
  <2>3. \A q \in Procs : pc'[q] \in Early => pc[q] \in Early
    BY <2>1, <2>2, Moves
  <2> QED
    BY <1>1, <2>1, <2>3
<1>4. ASSUME NEW p \in Procs, NewScheduler(p)
      PROVE  Goal
  <2>1. UNCHANGED <<next, now, fired, clock>> /\ pc[p] = "schedule" /\ sched[p] = "off"
    BY <1>4 DEF NewScheduler, Unmade, Early
  <2>2. CASE UNCHANGED <<sched, last>>
    <3>1. Go(p, "rehydrate") \/ Go(p, "release")
      BY <1>4 DEF NewScheduler
    <3>2. \A q \in Procs : pc'[q] \in Early => pc[q] \in Early
      BY <3>1, Moves DEF Early
    <3> QED
      BY <1>1, <2>1, <2>2, <3>2
  <2>3. CASE /\ sched' = Set(sched, p, "wait") /\ Go(p, "rehydrate")
             /\ last' = Set(last, p, [i \in DOMAIN Entries |-> IF Entries[i].isAt THEN -1 ELSE clock])
    <3>1. /\ sched'[p] = "wait" /\ next[p] = 1 /\ pc'[p] \notin Early
          /\ \A i \in DOMAIN Entries : last'[p][i] <= Mem(i, clock)
      <4>1. \A i \in DOMAIN Entries : last'[p][i] = IF Entries[i].isAt THEN -1 ELSE clock
        BY <2>3 DEF Set, Types
      <4>2. \A i \in DOMAIN Entries : Mem(i, clock) \in Nat
        BY SMT, MemMonotone DEF Types
      <4>3. \A i \in DOMAIN Entries : last'[p][i] <= Mem(i, clock)
        BY SMT, <4>1, <4>2 DEF Mem, Types
      <4> QED
        BY SMT, <2>1, <2>3, <4>3, Moves DEF Set, Types, Present, Early
    <3>2. \A q \in Procs : q # p => sched'[q] = sched[q] /\ last'[q] = last[q] /\ pc'[q] = pc[q]
      BY SMT, <2>3, Moves DEF Set, Types
    <3>3. \A f \in fired : f.proc # p /\ f.proc \in Procs
      BY <2>1 DEF Remembered, Types
    <3>4. Unmade' /\ Remembered' /\ Handed'
      BY <2>1, <3>1, <3>2, <3>3 DEF Unmade, Remembered, Handed, Mem, DayOf
    <3>5. Present'
      BY <2>1, <3>1, <3>2 DEF Present, Mem, DayOf
    <3>6. FiredInTime'
      BY <2>1, FewerFired
    <3> QED
      BY <3>4, <3>5, <3>6
  <2> QED
    BY <1>4, <2>2, <2>3 DEF NewScheduler
<1>5. ASSUME NEW p \in Procs, releaseLock(p) \/ Crash(p)
      PROVE  Goal
  <2>1. Gone(p) /\ (Go(p, "exited") \/ Go(p, "crashed"))
    BY <1>5 DEF releaseLock, Crash
  <2>2. /\ sched'[p] = "off" /\ next'[p] = 1 /\ clock' = clock /\ pc'[p] \notin Early
        /\ \A q \in Procs : q # p => /\ sched'[q] = sched[q] /\ last'[q] = last[q]
                                     /\ next'[q] = next[q] /\ now'[q] = now[q] /\ pc'[q] = pc[q]
    <3>1. pc'[p] \in {"exited", "crashed"} /\ \A q \in Procs : q # p => pc'[q] = pc[q]
      BY <2>1, Moves
    <3>2. /\ sched' = Set(sched, p, "off") /\ next' = Set(next, p, 1) /\ now' = Set(now, p, 0)
          /\ last' = Set(last, p, [i \in DOMAIN Entries |-> -1]) /\ clock' = clock
      BY <2>1 DEF Gone
    <3>3. sched'[p] = "off" /\ next'[p] = 1 /\ pc'[p] \notin Early
      BY <3>1, <3>2 DEF Set, Types, Early
    <3>4. \A q \in Procs : q # p => /\ sched'[q] = sched[q] /\ last'[q] = last[q]
                                    /\ next'[q] = next[q] /\ now'[q] = now[q]
      BY <3>2 DEF Set, Types
    <3> QED
      BY <3>1, <3>2, <3>3, <3>4
  <2>3. fired' = {f \in fired : f.proc # p} /\ \A f \in fired : f.proc \in Procs
    BY <2>1 DEF Gone, Types
  <2>4. FiredInTime'
    BY <2>3, FewerFired
  <2>5. Unmade' /\ Present'
    BY SMT, <2>2 DEF Unmade, Present, Mem, DayOf
  <2>6. Remembered' /\ Handed'
    BY <2>2, <2>3 DEF Remembered, Handed, Mem, DayOf
  <2> QED
    BY <2>4, <2>5, <2>6
<1>6. ASSUME NEW p \in Procs, tickerFires(p)
      PROVE  Goal
  <2>1. /\ sched[p] = "wait" /\ sched'[p] = "check" /\ now'[p] = clock
        /\ UNCHANGED <<next, last, fired, clock, pc>>
        /\ \A q \in Procs : q # p => sched'[q] = sched[q] /\ now'[q] = now[q]
    BY <1>6 DEF tickerFires, Set, Types
  <2>2. 1 \in DOMAIN Entries
    BY SMT, <1>6, DaemonAssumption DEF tickerFires
  <2>3. Unmade' /\ Remembered' /\ FiredInTime' /\ Handed'
    <3>1. FiredInTime'
      BY <2>1, FewerFired
    <3>2. Unmade'
      BY <2>1 DEF Unmade
    <3>3. \A f \in fired : f.proc \in Procs
      BY DEF Types
    <3>4. Remembered' /\ Handed'
      BY <2>1, <3>3 DEF Remembered, Handed, Mem, DayOf
    <3> QED
      BY <3>1, <3>2, <3>4
  <2>4. Present'
    BY SMT, <2>1, <2>2 DEF Present, Mem, DayOf, Types
  <2> QED
    BY <2>3, <2>4
<1>7. ASSUME NEW p \in Procs, schedulerExits(p)
      PROVE  Goal
  <2>1. /\ sched[p] = "wait" /\ sched'[p] = "exited" /\ UNCHANGED <<next, now, last, fired, clock, pc>>
        /\ \A q \in Procs : q # p => sched'[q] = sched[q]
    BY <1>7 DEF schedulerExits, Set, Types
  <2>2. FiredInTime' /\ \A f \in fired : f.proc \in Procs
    BY <2>1, FewerFired DEF Types
  <2>3. Unmade' /\ Present'
    BY SMT, <2>1 DEF Unmade, Present, Mem, DayOf, Types
  <2>4. Remembered' /\ Handed'
    BY <2>1, <2>2 DEF Remembered, Handed, Mem, DayOf
  <2> QED
    BY <2>2, <2>3, <2>4
<1>8. ASSUME NEW p \in Procs, checkEntries(p)
      PROVE  Goal
  BY <1>8, CheckStep
<1>9. CASE Tick
  <2>1. /\ UNCHANGED <<sched, next, now, last, fired, pc>>
        /\ clock' = clock + 1 /\ clock \in Nat /\ clock' \in Nat
    BY <1>9 DEF Tick, scheduler, Types
  <2>2. \A i \in DOMAIN Entries : Mem(i, clock) \in Nat /\ Mem(i, clock') \in Nat /\ Mem(i, clock) <= Mem(i, clock')
    <3>1. clock <= clock'
      BY SMT, <2>1
    <3> QED
      BY <2>1, <3>1, MemMonotone
  <2>3. \A p \in Procs : \A i \in DOMAIN Entries : last[p][i] \in Int /\ now[p] \in Nat
    BY DEF Types
  <2>4. Unmade' /\ Remembered' /\ FiredInTime' /\ Handed'
    <3>1. FiredInTime'
      BY <2>1, FewerFired
    <3>2. \A f \in fired : f.sent <= clock'
      BY SMT, <2>1 DEF Handed, Types
    <3> QED
      BY <2>1, <3>1, <3>2 DEF Unmade, Remembered, Handed, Mem, DayOf
  <2>5. Present'
    <3> SUFFICES ASSUME NEW p \in Procs
                 PROVE  /\ sched[p] = "wait" => /\ next[p] = 1
                                                /\ \A i \in DOMAIN Entries : last[p][i] <= Mem(i, clock')
                        /\ sched[p] = "check" => /\ next[p] \in DOMAIN Entries /\ now[p] <= clock'
                                                 /\ \A i \in DOMAIN Entries : last[p][i] <= Mem(i, now[p])
                        /\ sched[p] = "off" => next[p] = 1
      BY <2>1 DEF Present, Mem, DayOf
    <3> QED
      BY SMT, <2>1, <2>2, <2>3 DEF Present
  <2> QED
    BY <2>4, <2>5
<1>10. ASSUME UNCHANGED <<sched, next, now, last, fired, clock, pc>>
       PROVE  Goal
  BY <1>1, <1>10
<1>11. CASE clearStaleLock \/ UNCHANGED vars \/ \E p \in Procs : Signal(p)
  BY <1>10, <1>11 DEF clearStaleLock, vars, scheduler, Signal
<1>12. ASSUME NEW p \in Procs,
              \/ Quiet(p) \/ acquireLock(p) \/ NewScheduler(p) \/ releaseLock(p) \/ Crash(p)
              \/ tickerFires(p) \/ schedulerExits(p) \/ checkEntries(p) \/ Signal(p)
       PROVE  Goal
  BY <1>2, <1>3, <1>4, <1>5, <1>6, <1>7, <1>8, <1>11, <1>12
<1> QED
  BY <1>9, <1>11, <1>12, StepCases

(* A machine that has started no daemon yet satisfies the invariant.       *)
LEMMA DaemonStart ==
    ASSUME Init
    PROVE  DaemonInv
<1>1. Types
  BY SMT DEF Init, Types
<1> QED
  BY <1>1, DaemonAssumption DEF Init, DaemonInv, SchedInv, SingleInstance, Held, Running, Unmade,
     Remembered, Present, Handed, FiredInTime

(* Every step of the processes and of the machine keeps the invariant.     *)
LEMMA DaemonStep ==
    ASSUME DaemonInv, [Next]_vars
    PROVE  DaemonInv'
BY TypesStep, LockStep, SchedStep DEF DaemonInv, SchedInv

(* One daemon at a time, for every set of processes.                       *)
THEOREM OneDaemon == Spec => []SingleInstance
<1>1. DaemonInv => SingleInstance
  BY DEF DaemonInv
<1> QED
  BY <1>1, DaemonStart, DaemonStep, PTL DEF Spec

(* A firing that waited is not made up for: whatever the schedule, the     *)
(* length of the day and the waits for the channel, the firings of an      *)
(* entry fall due and are sent in their time.                              *)
THEOREM ScheduleInTime == Spec => []FiredInTime
<1>1. DaemonInv => FiredInTime
  BY DEF DaemonInv, SchedInv
<1> QED
  BY <1>1, DaemonStart, DaemonStep, PTL DEF Spec
=============================================================================

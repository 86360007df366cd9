-------------------------- MODULE PlanStoreProofs ---------------------------
(***************************************************************************)
(* For every set of goals and values, every number of callers, writes,     *)
(* crashes and I/O errors: the file store (the run journal and the plan    *)
(* store alike) implements the durable map, and a plan that was resumed    *)
(* stays consumed.                                                         *)
(***************************************************************************)
EXTENDS PlanStore, WellFoundedInduction, TLAPS

(***************************************************************************)
(* The inductive invariant of the files.  A value is acceptable for a goal *)
(* when it is the one last acknowledged or one of a later write that was   *)
(* not: every source a value can be read from, the index, the snapshot     *)
(* once Compact has renamed it, and the replay with and without the last,  *)
(* unterminated line, gives acceptable values only.                        *)
(***************************************************************************)
Accepts(a, d, g, v) == v \in {a[g]} \cup d[g]
Acceptable(g, v) == Accepts(acked, doubt, g, v)
AllParse == \A k \in DOMAIN lines : lines[k].parses
Up == pc \in {"open", "renamed"}

IndexAccepted == Up => \A g \in Goals : Acceptable(g, index[g])
SnapshotAccepted == pc = "renamed" => \A g \in Goals : Acceptable(g, snapshot[g])
DiskAccepted ==
    AllParse => \A g \in Goals : Acceptable(g, ValueIn(snapshot, lines, g)) /\ Acceptable(g, ValueIn(snapshot, Parsed, g))

JournalInv == TypeOK /\ IndexAccepted /\ SnapshotAccepted /\ DiskAccepted

(***************************************************************************)
(* The invariant of the plan of Key: it is gone for good when none of the  *)
(* values the files may give back is a plan.                               *)
(***************************************************************************)
Gone == acked[Key] = None /\ doubt[Key] \subseteq {None}

Places == {"idle", "got", "deleted", "dispatched", "returned"}

FreshInv ==
    /\ fresh \subseteq Callers
    /\ fresh # {} => Up
    /\ \A c \in fresh : at[c] = "deleted" => index[Key] = None
    /\ fresh # {} /\ index[Key] = None => Gone

PlanInv ==
    /\ JournalInv
    /\ at \in [Callers -> Places]
    /\ FreshInv
    /\ consumed => Gone

-----------------------------------------------------------------------------
(* Lemmas about the replay.                                                *)

(* The leaves are Zenon's, but for the ones that say otherwise.            *)
USE ZenonT(30)

(* A nonempty set of naturals has a least element.                         *)
LEMMA LeastNatural ==
    ASSUME NEW T, T \subseteq Nat, T # {}
    PROVE  \E x \in T : \A y \in T : x <= y
<1> DEFINE R == OpToRel(<, Nat)
<1>1. \A x, y \in Nat : <<x, y>> \in R <=> x < y
  BY DEF OpToRel
<1>2. IsWellFoundedOn(R, Nat)
  BY NatLessThanWellFounded
<1> HIDE DEF R
<1>3. PICK x \in T : \A y \in T : ~ (<<y, x>> \in R)
  BY <1>2, WFMin
<1>4. \A y \in T : x \in Nat /\ y \in Nat /\ ~ (y < x)
  BY <1>1, <1>3
<1>5. \A y \in T : x <= y
  BY SMT, <1>4
<1> QED
  BY <1>5

(* A bounded one has a greatest element, the last position of a goal in a  *)
(* journal being the case in point: it is the least of the bounds.         *)
LEMMA GreatestNatural ==
    ASSUME NEW T, T \subseteq Nat, T # {}, NEW n \in Nat, \A k \in T : k <= n
    PROVE  Max(T) \in T /\ \A k \in T : k <= Max(T)
<1> DEFINE U == {m \in Nat : \A k \in T : k <= m}
<1>1. n \in U
  OBVIOUS
<1>2. PICK m \in U : \A y \in U : m <= y
  <2> HIDE DEF U
  <2>1. U \subseteq Nat
    BY DEF U
  <2> QED
    BY <1>1, <2>1, LeastNatural
<1>3. m \in T
  <2> SUFFICES ASSUME m \notin T PROVE FALSE
    OBVIOUS
  <2>1. \A k \in T : k <= m - 1
    BY SMT
  <2>2. m - 1 \in Nat
    <3>1. PICK k \in T : TRUE
      OBVIOUS
    <3> QED
      BY SMT, <3>1, <2>1
  <2>3. m - 1 \in U
    BY <2>1, <2>2
  <2> QED
    BY SMT, <2>3, <1>2
<1> QED
  BY <1>2, <1>3 DEF Max

(* A record at the end of a journal gives its goal its value and leaves    *)
(* the others alone: a step of the loop in replayJournal.                  *)
LEMMA ValueAppend ==
    ASSUME NEW s \in Seq(Lines), NEW l \in Lines, NEW g \in Goals, NEW snap
    PROVE  ValueIn(snap, Append(s, l), g) = IF l.rec.g = g THEN l.rec.v ELSE ValueIn(snap, s, g)
<1> DEFINE t == Append(s, l)
<1>1. /\ t \in Seq(Lines) /\ Len(t) = Len(s) + 1 /\ t[Len(s) + 1] = l
      /\ \A k \in 1..Len(s) : t[k] = s[k]
      /\ DOMAIN t = 1..(Len(s) + 1) /\ DOMAIN s = 1..Len(s) /\ Len(s) \in Nat
  BY SMT
<1> HIDE DEF t
<1>2. CASE l.rec.g = g
  <2>1. Len(s) + 1 \in Positions(t, g) /\ \A k \in Positions(t, g) : Len(s) + 1 >= k /\ k \in Int
    BY SMT, <1>1, <1>2 DEF Positions
  <2>2. Max(Positions(t, g)) = Len(s) + 1
    BY SMT, <2>1, <1>1 DEF Max
  <2> QED
    BY <1>1, <1>2, <2>1, <2>2 DEF ValueIn, t
<1>3. CASE l.rec.g # g
  <2>1. Positions(t, g) = Positions(s, g)
    BY SMT, <1>1, <1>3 DEF Positions
  <2>2. CASE Positions(s, g) = {}
    BY <1>3, <2>1, <2>2 DEF ValueIn, t
  <2>3. CASE Positions(s, g) # {}
    <3>1. Positions(s, g) \subseteq Nat /\ \A k \in Positions(s, g) : k <= Len(s) /\ k >= 1
      BY SMT, <1>1 DEF Positions
    <3>2. Max(Positions(s, g)) \in 1..Len(s)
      BY SMT, <1>1, <2>3, <3>1, GreatestNatural
    <3> QED
      BY <1>1, <1>3, <2>1, <2>3, <3>2 DEF ValueIn, t
  <2> QED
    BY <1>3, <2>1, <2>2, <2>3 DEF ValueIn, t
<1> QED
  BY <1>2, <1>3

(* The replay reads the complete lines, or these and the unterminated one. *)
LEMMA ParsedCases ==
    ASSUME TypeOK
    PROVE  \/ Parsed = lines
           \/ tail # NoTail /\ tail[1] \in Lines /\ Parsed = Append(lines, tail[1])
<1>1. CASE tail # NoTail /\ tail[1].parses
  <2>1. PICK l \in Lines : tail = <<l>>
    BY <1>1 DEF TypeOK, Tails
  <2>2. lines \o <<l>> = Append(lines, l)
    BY SMT DEF TypeOK
  <2> QED
    BY <1>1, <2>1, <2>2 DEF Parsed
<1>2. CASE ~ (tail # NoTail /\ tail[1].parses)
  BY SMT, <1>2 DEF Parsed, TypeOK
<1> QED
  BY <1>1, <1>2

(* Every value the replay gives is one that some line or the snapshot      *)
(* holds.                                                                  *)
LEMMA ValueType ==
    ASSUME NEW s \in Seq(Lines), NEW g \in Goals, NEW snap \in Maps
    PROVE  ValueIn(snap, s, g) \in Values \cup {None}
<1>1. CASE Positions(s, g) = {}
  BY <1>1 DEF ValueIn, Maps
<1>2. CASE Positions(s, g) # {}
  <2>1. Positions(s, g) \subseteq Nat /\ \A k \in Positions(s, g) : k <= Len(s) /\ k >= 1
    BY SMT DEF Positions
  <2>2. Max(Positions(s, g)) \in 1..Len(s)
    BY SMT, <1>2, <2>1, GreatestNatural
  <2>3. s[Max(Positions(s, g))] \in Lines
    BY SMT, <2>2
  <2> QED
    BY <1>2, <2>3 DEF ValueIn, Lines, Records
<1> QED
  BY <1>1, <1>2

-----------------------------------------------------------------------------
(* The files.                                                              *)

(* Type correctness is kept by every step of the store.                    *)
LEMMA JournalTypes ==
    ASSUME TypeOK, Next
    PROVE  TypeOK'
<1> USE JournalAssumption DEF TypeOK, Maps
<1>1. ASSUME NEW rec \in Records, Write(rec), Complete(rec) \/ CutShort(rec)
      PROVE  lines' \in Seq(Lines) /\ tail' \in Tails
  <2>1. Line(rec) \in Lines /\ [parses |-> FALSE, rec |-> rec] \in Lines
    BY DEF Line, Lines
  <2>2. NoTail \in Tails /\ \A l \in Lines : <<l>> \in Tails
    BY DEF Tails
  <2>3. CASE Complete(rec)
    BY SMT, <2>1, <2>2, <2>3 DEF Complete
  <2>4. CASE CutShort(rec)
    BY <2>1, <2>2, <2>4 DEF CutShort
  <2> QED
    BY <1>1, <2>3, <2>4
<1>2. ASSUME NEW rec \in Records
      PROVE  rec.g \in Goals /\ rec.v \in Values \cup {None}
  BY DEF Records
<1>3. Empty \in Maps
  BY DEF Empty
<1>4. ASSUME NEW rec \in Records, SaveOrDelete(rec)
      PROVE  TypeOK'
  BY SMT, <1>1, <1>2, <1>4 DEF SaveOrDelete, Write, apply
<1>5. ASSUME NEW rec \in Records, appendFails(rec)
      PROVE  TypeOK'
  BY SMT, <1>1, <1>2, <1>5 DEF appendFails, Write
<1>6. ASSUME NEW rec \in Records, crashInAppend(rec)
      PROVE  TypeOK'
  BY SMT, <1>1, <1>2, <1>3, <1>6 DEF crashInAppend, Write
<1>7. CASE compactRename
  BY <1>7 DEF compactRename
<1>8. CASE compactTruncate
  <2>1. <<>> \in Seq(Lines) /\ NoTail \in Tails
    BY SMT DEF Tails
  <2> QED
    BY <1>8, <2>1 DEF compactTruncate
<1>9. CASE crash
  BY SMT, <1>3, <1>9 DEF crash, diskVars
<1>10. CASE NewFileStore
  <2>1. Parsed \in Seq(Lines)
    <3> HIDE DEF TypeOK
    <3>1. lines \in Seq(Lines)
      BY DEF TypeOK
    <3> QED
      BY SMT, <3>1, ParsedCases
  <2>2. Replayed \in Maps
    BY <2>1, ValueType DEF Replayed
  <2> QED
    BY <1>10, <2>2 DEF NewFileStore, diskVars
<1> QED
  BY <1>4, <1>5, <1>6, <1>7, <1>8, <1>9, <1>10 DEF Next

(* A record that reaches the disk, whole or cut short, keeps the replay    *)
(* acceptable when its own value is: behind a tail it makes a line that    *)
(* does not parse, and the store will not open.                            *)
LEMMA WriteKeepsDisk ==
    ASSUME TypeOK, TypeOK', DiskAccepted, NEW rec \in Records,
           Complete(rec) \/ CutShort(rec), snapshot' = snapshot,
           Accepts(acked', doubt', rec.g, rec.v),
           \A g \in Goals, v \in Values \cup {None} :
               g # rec.g \/ CutShort(rec) =>
                   (Accepts(acked, doubt, g, v) => Accepts(acked', doubt', g, v))
    PROVE  DiskAccepted'
<1> DEFINE V(s, g) == ValueIn(snapshot, s, g)
           l(b) == [parses |-> b, rec |-> rec]
<1> SUFFICES ASSUME AllParse', NEW g \in Goals
             PROVE  Accepts(acked', doubt', g, V(lines', g)) /\ Accepts(acked', doubt', g, V(Parsed', g))
  BY DEF DiskAccepted, Acceptable
<1>1. /\ lines \in Seq(Lines) /\ rec.g \in Goals /\ \A b \in BOOLEAN : l(b) \in Lines
      /\ snapshot \in Maps /\ Line(rec) = l(tail = NoTail)
  BY DEF TypeOK, Lines, Records, Line
<1>2. V(lines, g) \in Values \cup {None} /\ V(Parsed, g) \in Values \cup {None}
  <2>1. Parsed \in Seq(Lines)
    BY SMT, <1>1, ParsedCases
  <2> QED
    BY <1>1, <2>1, ValueType
<1>3. \A b \in BOOLEAN : V(Append(lines, l(b)), g) = IF rec.g = g THEN rec.v ELSE V(lines, g)
  BY SMT, <1>1, ValueAppend
<1>4. CASE Complete(rec)
  <2>1. AllParse /\ tail = NoTail
    <3>1. Line(rec).parses
      BY SMT, <1>1, <1>4 DEF Complete, AllParse
    <3>2. \A k \in DOMAIN lines : lines'[k] = lines[k] /\ k \in DOMAIN lines'
      BY SMT, <1>1, <1>4 DEF Complete
    <3> QED
      BY <3>1, <3>2 DEF AllParse, Line
  <2>2. Accepts(acked, doubt, g, V(lines, g))
    BY <2>1 DEF DiskAccepted, Acceptable
  <2>3. Parsed' = lines' /\ lines' = Append(lines, l(TRUE))
    <3>1. lines' = Append(lines, l(TRUE)) /\ tail' = NoTail
      BY <1>1, <1>4, <2>1 DEF Complete
    <3> QED
      BY SMT, <1>1, <3>1 DEF Parsed
  <2> QED
    BY <1>2, <1>3, <2>2, <2>3
<1>5. CASE CutShort(rec)
  <2>1. AllParse /\ lines' = lines
    BY <1>5 DEF CutShort, AllParse
  <2>2. Accepts(acked', doubt', g, V(lines, g)) /\ Accepts(acked', doubt', g, V(Parsed, g))
    BY <1>2, <1>5, <2>1 DEF DiskAccepted, Acceptable
  <2>3. V(Parsed', g) \in {V(Parsed, g), V(lines, g), V(Append(lines, l(TRUE)), g)}
    <3>1. CASE tail' = tail
      BY <2>1, <3>1 DEF Parsed
    <3>2. CASE tail' = <<l(FALSE)>>
      BY SMT, <1>1, <2>1, <3>2 DEF Parsed
    <3>3. CASE tail' = <<l(tail = NoTail)>>
      <4>1. CASE tail = NoTail
        <5>1. lines \o <<l(TRUE)>> = Append(lines, l(TRUE)) /\ <<l(TRUE)>> # NoTail
          BY SMT, <1>1 DEF NoTail
        <5> QED
          BY <2>1, <3>3, <4>1, <5>1 DEF Parsed
      <4>2. CASE tail # NoTail
        <5>1. tail' = <<l(FALSE)>>
          BY <3>3, <4>2
        <5> QED
          BY SMT, <1>1, <2>1, <5>1 DEF Parsed
      <4> QED
        BY <4>1, <4>2
    <3> QED
      BY <1>1, <1>5, <3>1, <3>2, <3>3 DEF CutShort
  <2> QED
    BY <1>3, <2>1, <2>2, <2>3
<1> QED
  BY <1>4, <1>5

(* Every step of the store keeps the invariant of the files.               *)
LEMMA JournalStep ==
    ASSUME JournalInv, [Next]_vars
    PROVE  JournalInv'
<1> USE DEF JournalInv, IndexAccepted, SnapshotAccepted, Up, Acceptable
<1>1. CASE UNCHANGED vars
  BY <1>1 DEF vars, diskVars, TypeOK, DiskAccepted, AllParse, Parsed
<1>2. CASE Next
  <2>1. TypeOK'
    BY <1>2, JournalTypes
  <2>2. ASSUME NEW rec \in Records
        PROVE  rec.g \in Goals /\ rec.v \in Values \cup {None}
    BY DEF Records
  <2>3. acked \in Maps /\ doubt \in [Goals -> SUBSET (Values \cup {None})] /\ index \in Maps
    BY DEF TypeOK
  <2>4. ASSUME NEW rec \in Records, SaveOrDelete(rec)
        PROVE  JournalInv'
    <3>1. /\ Accepts(acked', doubt', rec.g, rec.v)
          /\ \A g \in Goals, v \in Values \cup {None} :
                 g # rec.g => (Accepts(acked, doubt, g, v) => Accepts(acked', doubt', g, v))
      BY <2>2, <2>3, <2>4 DEF SaveOrDelete, Accepts, Maps
    <3>2. Complete(rec) /\ ~ CutShort(rec) /\ snapshot' = snapshot /\ pc = "open" /\ pc' = "open"
      <4>1. lines \in Seq(Lines) /\ Append(lines, Line(rec)) # lines
        BY SMT DEF TypeOK
      <4> QED
        BY <2>4, <4>1 DEF SaveOrDelete, Write, Complete, CutShort
    <3>3. DiskAccepted'
      BY <2>1, <3>1, <3>2, WriteKeepsDisk
    <3>4. \A g \in Goals : Accepts(acked', doubt', g, index'[g])
      BY <2>2, <2>3, <2>4, <3>1, <3>2 DEF SaveOrDelete, apply, Maps
    <3> QED
      BY <2>1, <3>2, <3>3, <3>4
  <2>5. ASSUME NEW rec \in Records, acked' = acked, doubt' = [doubt EXCEPT ![rec.g] = @ \cup {rec.v}]
        PROVE  /\ Accepts(acked', doubt', rec.g, rec.v)
               /\ \A g \in Goals, v \in Values \cup {None} :
                      Accepts(acked, doubt, g, v) => Accepts(acked', doubt', g, v)
    BY <2>2, <2>3, <2>5 DEF Accepts, Maps
  <2>6. ASSUME NEW rec \in Records, appendFails(rec)
        PROVE  JournalInv'
    <3>1. Complete(rec) \/ CutShort(rec)
      BY <2>6 DEF appendFails
    <3>2. snapshot' = snapshot /\ pc = "open" /\ pc' = "open" /\ index' = index
      BY <2>6 DEF appendFails, Write
    <3>3. /\ Accepts(acked', doubt', rec.g, rec.v)
          /\ \A g \in Goals, v \in Values \cup {None} :
                 Accepts(acked, doubt, g, v) => Accepts(acked', doubt', g, v)
      BY <2>5, <2>6 DEF appendFails
    <3>4. DiskAccepted'
      BY <2>1, <3>1, <3>2, <3>3, WriteKeepsDisk
    <3>5. \A g \in Goals : Accepts(acked', doubt', g, index'[g])
      BY <2>3, <3>2, <3>3 DEF Maps
    <3> QED
      BY <2>1, <3>2, <3>4, <3>5
  <2>7. ASSUME NEW rec \in Records, crashInAppend(rec)
        PROVE  JournalInv'
    <3>1. Complete(rec) \/ CutShort(rec)
      BY <2>7 DEF crashInAppend
    <3>2. snapshot' = snapshot /\ pc' = "down"
      BY <2>7 DEF crashInAppend, Write
    <3>3. /\ Accepts(acked', doubt', rec.g, rec.v)
          /\ \A g \in Goals, v \in Values \cup {None} :
                 Accepts(acked, doubt, g, v) => Accepts(acked', doubt', g, v)
      BY <2>5, <2>7 DEF crashInAppend
    <3>4. DiskAccepted'
      BY <2>1, <3>1, <3>2, <3>3, WriteKeepsDisk
    <3> QED
      BY <2>1, <3>2, <3>4
  <2>8. CASE compactRename
    <3>1. ASSUME NEW g \in Goals, NEW s
          PROVE  ValueIn(index, s, g) \in {index[g], ValueIn(snapshot, s, g)}
      BY DEF ValueIn
    <3>2. DiskAccepted'
      BY <2>8, <3>1 DEF compactRename, DiskAccepted, AllParse, Parsed
    <3> QED
      BY <2>1, <2>8, <3>2 DEF compactRename
  <2>9. CASE compactTruncate
    <3>1. CASE lines' = lines /\ tail' = tail
      BY <2>1, <2>9, <3>1 DEF compactTruncate, DiskAccepted, AllParse, Parsed
    <3>2. CASE lines' = <<>> /\ tail' = NoTail
      <4>1. Parsed' = <<>>
        BY SMT, <3>2 DEF Parsed
      <4>2. \A g \in Goals : ValueIn(snapshot, <<>>, g) = snapshot[g]
        BY SMT DEF ValueIn, Positions
      <4> QED
        BY <2>1, <2>9, <3>2, <4>1, <4>2 DEF compactTruncate, DiskAccepted
    <3> QED
      BY <2>9, <3>1, <3>2 DEF compactTruncate
  <2>10. CASE crash
    BY <2>1, <2>10 DEF crash, diskVars, DiskAccepted, AllParse, Parsed
  <2>11. CASE NewFileStore
    <3>1. DiskAccepted'
      BY <2>11 DEF NewFileStore, diskVars, DiskAccepted, AllParse, Parsed
    <3>2. pc' = "open" => \A g \in Goals : Accepts(acked', doubt', g, index'[g])
      BY <2>11 DEF NewFileStore, DiskAccepted, AllParse, Replayed
    <3> QED
      BY <2>1, <2>11, <3>1, <3>2 DEF NewFileStore
  <2> QED
    BY <1>2, <2>4, <2>6, <2>7, <2>8, <2>9, <2>10, <2>11 DEF Next
<1> QED
  BY <1>1, <1>2

-----------------------------------------------------------------------------
(* The store implements the durable map.                                   *)
View == IF pc \in {"open", "renamed"} THEN index ELSE [g \in {} |-> None]

(* Each step of the files is a step of the map or leaves it alone: an      *)
(* append that returns acknowledges, one that fails or dies leaves its     *)
(* value in doubt, a crash closes the map, a start that is not refused     *)
(* recovers it, and Compact is not seen.                                   *)
LEMMA JournalRefines ==
    ASSUME JournalInv, [Next]_vars
    PROVE  [Abstract!Next]_(Abstract!mapVars)
<1> USE DEF Abstract!mapVars
<1>1. ASSUME Up PROVE View = index /\ View # Abstract!Closed
  <2>1. DOMAIN index = Goals /\ DOMAIN [g \in {} |-> None] = {}
    BY DEF JournalInv, TypeOK, Maps
  <2> QED
    BY <1>1, <2>1, JournalAssumption DEF View, Up, Abstract!Closed
<1>2. ASSUME Up' PROVE View' = index'
  BY <1>2 DEF View, Up
<1>3. ASSUME ~ Up' PROVE View' = Abstract!Closed
  BY <1>3 DEF View, Up, Abstract!Closed
<1>4. ASSUME NEW rec \in Records
      PROVE  rec.g \in Goals /\ rec.v \in Values \cup {None}
  BY DEF Records
<1>5. ASSUME NEW rec \in Records, SaveOrDelete(rec)
      PROVE  Abstract!Acknowledge(rec.g, rec.v)
  <2>1. Up /\ Up'
    BY <1>5 DEF SaveOrDelete, Write, Up
  <2> QED
    BY <1>1, <1>2, <1>5, <2>1 DEF SaveOrDelete, apply, Abstract!Acknowledge, View, Abstract!Closed
<1>6. ASSUME NEW rec \in Records, appendFails(rec)
      PROVE  Abstract!Fail(rec.g, rec.v)
  <2>1. Up /\ Up'
    BY <1>6 DEF appendFails, Write, Up
  <2> QED
    BY <1>1, <1>2, <1>6, <2>1 DEF appendFails, Abstract!Fail, View, Abstract!Closed
<1>7. ASSUME NEW rec \in Records, crashInAppend(rec)
      PROVE  Abstract!Fail(rec.g, rec.v)
  <2>1. Up /\ ~ Up'
    BY <1>7 DEF crashInAppend, Write, Up
  <2> QED
    BY <1>1, <1>3, <1>7, <2>1 DEF crashInAppend, Abstract!Fail, View, Abstract!Closed
<1>8. ASSUME compactRename \/ compactTruncate
      PROVE  UNCHANGED <<acked, doubt, View>>
  <2>1. Up /\ Up'
    BY <1>8 DEF compactRename, compactTruncate, Up
  <2> QED
    BY <1>1, <1>2, <1>8, <2>1 DEF compactRename, compactTruncate
<1>9. ASSUME crash
      PROVE  Abstract!Crash
  <2>1. Up /\ ~ Up'
    BY <1>9 DEF crash, Up
  <2> QED
    BY <1>1, <1>3, <1>9, <2>1 DEF crash, Abstract!Crash, View, Abstract!Closed
<1>10. ASSUME NewFileStore
       PROVE  Abstract!Recover \/ UNCHANGED <<acked, doubt, View>>
  <2>1. View = Abstract!Closed /\ acked' = acked /\ doubt' = doubt
    BY <1>10 DEF NewFileStore, View, Abstract!Closed
  <2>2. CASE pc' = "refused"
    <3>1. View' = Abstract!Closed
      BY <1>3, <2>2 DEF Up
    <3>2. View' = View
      BY <2>1, <3>1
    <3> QED
      BY <2>1, <3>2
  <2>3. CASE pc' = "open"
    <3>1. Up' /\ View' = index'
      BY <1>2, <2>3 DEF Up
    <3>2. JournalInv'
      BY JournalStep
    <3>3. index' \in Abstract!Maps /\ \A g \in Goals : index'[g] \in {acked'[g]} \cup doubt'[g]
      BY <3>1, <3>2 DEF JournalInv, TypeOK, Maps, Abstract!Maps, IndexAccepted, Acceptable, Accepts
    <3> QED
      BY <2>1, <3>1, <3>3 DEF Abstract!Recover, View, Abstract!Closed
  <2> QED
    BY <1>10, <2>2, <2>3 DEF NewFileStore
<1>11. ASSUME UNCHANGED vars
       PROVE  UNCHANGED <<acked, doubt, View>>
  BY <1>11 DEF vars, View
<1> QED
  BY <1>4, <1>5, <1>6, <1>7, <1>8, <1>9, <1>10, <1>11 DEF Next, Abstract!Next, View

(* What the callers of the plan store do to its files are steps of the     *)
(* files.                                                                  *)
LEMMA PlanStepsAreFileSteps ==
    ASSUME [PlanNext]_planVars
    PROVE  [Next]_vars
<1>1. Rec(First) \in Records /\ Rec(Refined) \in Records /\ Rec(None) \in Records
  BY PlanAssumption DEF Rec, Records
<1>2. CASE UNCHANGED planVars
  BY <1>2 DEF planVars
<1>3. CASE TryPut
  BY <1>1, <1>3 DEF TryPut, Put, guarded, Next
<1>4. CASE Others
  BY <1>4 DEF Others, Next
<1>5. CASE Compact
  BY <1>5 DEF Compact, Next
<1>6. CASE CrashAll
  BY <1>6 DEF CrashAll, Next
<1>7. CASE Open
  BY <1>7 DEF Open, Next
<1>8. ASSUME NEW c \in Callers, Get(c) \/ Resume(c) \/ ConsumePlanOnCancel(c)
      PROVE  UNCHANGED vars
  BY <1>8 DEF Get, Resume, ConsumePlanOnCancel
<1>9. ASSUME NEW c \in Callers, TryDelete(c)
      PROVE  [Next]_vars
  BY <1>1, <1>9 DEF TryDelete, Next
<1>10. ASSUME NEW c \in Callers, ResumeWithFold(c)
       PROVE  [Next]_vars
  BY <1>1, <1>10 DEF ResumeWithFold, Put, guarded, Next
<1> QED
  BY <1>2, <1>3, <1>4, <1>5, <1>6, <1>7, <1>8, <1>9, <1>10 DEF PlanNext

(* A store that has no files yet satisfies the invariant.                  *)
LEMMA JournalStart ==
    ASSUME Init
    PROVE  JournalInv
<1>1. TypeOK
  BY SMT, JournalAssumption DEF Init, TypeOK, Tails, Maps, Empty
<1>2. Parsed = <<>>
  BY SMT DEF Init, Parsed
<1>3. \A g \in Goals : ValueIn(snapshot, <<>>, g) = snapshot[g]
  BY SMT DEF ValueIn, Positions
<1> QED
  BY <1>1, <1>2, <1>3 DEF Init, JournalInv, IndexAccepted, SnapshotAccepted, DiskAccepted, Up,
     Acceptable, Accepts, Empty

(* The run journal's file store implements the durable map, whatever the   *)
(* goals, values, writes, crashes and I/O errors.                          *)
THEOREM StoreImplementsDurableMap == Spec => ImplementsDurableMap
<1>1. Init => JournalInv /\ Abstract!Init
  <2>1. Init => Abstract!Init
    BY DEF Init, Abstract!Init, Empty
  <2> QED
    BY <2>1, JournalStart
<1>2. JournalInv /\ [Next]_vars => JournalInv'
  BY JournalStep
<1>3. JournalInv /\ [Next]_vars => [Abstract!Next]_(Abstract!mapVars)
  BY JournalRefines
<1> QED
  BY <1>1, <1>2, <1>3, PTL DEF Spec, ImplementsDurableMap, Abstract!Spec

(* So does the plan store under all its callers.                           *)
THEOREM PlansImplementDurableMap == PlanSpec => ImplementsDurableMap
<1>1. PlanInit => Init
  BY DEF PlanInit
<1>2. [PlanNext]_planVars => [Next]_vars
  BY PlanStepsAreFileSteps
<1>3. PlanSpec => Spec
  BY <1>1, <1>2, PTL DEF PlanSpec, Spec
<1> QED
  BY <1>3, StoreImplementsDurableMap

-----------------------------------------------------------------------------
(* A plan that was resumed stays consumed.                                 *)

(* What a write to the file, successful or not, does to the values that a  *)
(* goal other than the written one may come back with: nothing.            *)
LEMMA OthersKeepKey ==
    ASSUME TypeOK, NEW rec \in Records, rec.g # Key,
           SaveOrDelete(rec) \/ appendFails(rec) \/ crashInAppend(rec)
    PROVE  /\ acked'[Key] = acked[Key] /\ doubt'[Key] = doubt[Key]
           /\ ~ crashInAppend(rec) => index'[Key] = index[Key]
<1>1. acked \in Maps /\ index \in Maps /\ DOMAIN doubt = Goals /\ Key \in Goals /\ rec.g \in Goals
  BY PlanAssumption DEF TypeOK, Records
<1> QED
  BY <1>1 DEF SaveOrDelete, appendFails, crashInAppend, apply, Maps

(* Deleting the plan of Key, or failing to, leaves none that could come    *)
(* back besides the one that could already.                                *)
LEMMA DeleteOfKey ==
    ASSUME TypeOK
    PROVE  /\ SaveOrDelete(Rec(None)) => Gone' /\ index'[Key] = None
           /\ appendFails(Rec(None)) => /\ index' = index
                                        /\ Gone => Gone'
<1>1. acked \in Maps /\ index \in Maps /\ DOMAIN doubt = Goals /\ Key \in Goals
  BY PlanAssumption DEF TypeOK
<1>2. ASSUME SaveOrDelete(Rec(None))
      PROVE  Gone' /\ index'[Key] = None
  BY <1>1, <1>2 DEF SaveOrDelete, Rec, apply, Maps, Gone
<1>3. ASSUME appendFails(Rec(None))
      PROVE  index' = index /\ (Gone => Gone')
  BY <1>1, <1>3 DEF appendFails, Rec, Gone
<1> QED
  BY <1>2, <1>3

(* Every step of the callers keeps the invariant of the plan.              *)
LEMMA PlanStep ==
    ASSUME PlanInv, [PlanNext]_planVars
    PROVE  PlanInv'
<1> DEFINE Rest == at' \in [Callers -> Places] /\ FreshInv' /\ (consumed' => Gone')
<1>1. JournalInv /\ JournalInv' /\ TypeOK
  BY PlanStepsAreFileSteps, JournalStep DEF PlanInv, JournalInv
<1>2. at \in [Callers -> Places]
  BY DEF PlanInv
<1>3. ASSUME fresh' = {}, at' \in [Callers -> Places], consumed' => Gone'
      PROVE  Rest
  BY <1>3 DEF FreshInv
<1>4. ASSUME NEW c \in Callers, NEW p \in Places, Move(c, p)
      PROVE  at' \in [Callers -> Places] /\ at'[c] = p /\ \A d \in Callers : d # c => at'[d] = at[d]
  BY <1>2, <1>4 DEF Move
<1>5. CASE UNCHANGED planVars
  BY <1>1, <1>5 DEF planVars, vars, callVars, PlanInv, FreshInv, Gone, Up
<1>6. CASE TryPut
  <2>1. CASE UNCHANGED <<vars, fresh, consumed>>
    BY <1>1, <1>6, <2>1 DEF TryPut, vars, PlanInv, FreshInv, Gone, Up
  <2>2. CASE fresh' = {} /\ consumed' = FALSE
    BY <1>1, <1>2, <1>3, <1>6, <2>2 DEF TryPut, PlanInv
  <2> QED
    BY <1>1, <1>6, <2>1, <2>2 DEF TryPut, guarded, PlanInv
<1>7. CASE Others
  <2>1. PICK rec \in Records : rec.g # Key /\ (SaveOrDelete(rec) \/ appendFails(rec))
    BY <1>7 DEF Others
  <2>2. ~ crashInAppend(rec) /\ pc = "open" /\ pc' = "open"
    BY <2>1 DEF SaveOrDelete, appendFails, crashInAppend, Write
  <2>3. acked'[Key] = acked[Key] /\ doubt'[Key] = doubt[Key] /\ index'[Key] = index[Key]
    BY <1>1, <2>1, <2>2, OthersKeepKey
  <2> QED
    BY <1>1, <1>7, <2>2, <2>3 DEF Others, callVars, PlanInv, FreshInv, Gone, Up
<1>8. CASE Compact
  <2>1. UNCHANGED <<index, acked, doubt, callVars>> /\ Up'
    BY <1>8 DEF Compact, compactRename, compactTruncate, Up
  <2> QED
    BY <1>1, <2>1 DEF callVars, PlanInv, FreshInv, Gone
<1>9. CASE CrashAll
  <2>1. at' \in [Callers -> Places] /\ fresh' = {}
    BY <1>2, <1>9 DEF CrashAll, Places
  <2>2. consumed' => Gone'
    <3>1. CASE crash /\ UNCHANGED consumed
      BY <3>1 DEF crash, PlanInv, Gone
    <3>2. ASSUME NEW rec \in Records, crashInAppend(rec), consumed' = (consumed /\ rec.g # Key), consumed'
          PROVE  Gone'
      BY <1>1, <3>2, OthersKeepKey DEF PlanInv, Gone
    <3> QED
      BY <1>9, <3>1, <3>2 DEF CrashAll
  <2> QED
    BY <1>1, <1>3, <2>1, <2>2 DEF PlanInv
<1>10. CASE Open
  <2>1. fresh = {} /\ fresh' = {} /\ at' = at
    BY <1>10 DEF Open, NewFileStore, callVars, PlanInv, FreshInv, Up
  <2>2. consumed' => Gone'
    BY <1>10 DEF Open, NewFileStore, callVars, PlanInv, Gone
  <2> QED
    BY <1>1, <1>2, <1>3, <2>1, <2>2 DEF PlanInv
<1>11. ASSUME NEW c \in Callers, Get(c)
       PROVE  PlanInv'
  <2>1. UNCHANGED <<pc, index, acked, doubt, consumed>> /\ Up
    BY <1>11 DEF Get, vars, Up
  <2>2. CASE fresh' = fresh /\ Move(c, "returned")
    BY <1>1, <1>4, <2>1, <2>2 DEF PlanInv, FreshInv, Gone, Up, Places
  <2>3. CASE index[Key] # None /\ fresh' = fresh \cup {c} /\ Move(c, "got")
    BY <1>1, <1>4, <2>1, <2>3 DEF PlanInv, FreshInv, Gone, Up, Places
  <2> QED
    BY <1>11, <2>2, <2>3 DEF Get, guarded
<1>12. ASSUME NEW c \in Callers, TryDelete(c)
       PROVE  PlanInv'
  <2>1. UNCHANGED <<fresh, consumed>> /\ Up
    BY <1>12 DEF TryDelete, Up
  <2>2. CASE SaveOrDelete(Rec(None)) /\ (Move(c, "deleted") \/ Move(c, "returned"))
    <3>1. Gone' /\ index'[Key] = None /\ Up'
      BY <1>1, <2>1, <2>2, DeleteOfKey DEF SaveOrDelete, Up
    <3> QED
      BY <1>1, <1>4, <2>1, <2>2, <3>1 DEF PlanInv, FreshInv, Places
  <2>3. CASE appendFails(Rec(None)) /\ Move(c, "returned")
    <3>1. index' = index /\ (Gone => Gone') /\ Up'
      BY <1>1, <2>1, <2>3, DeleteOfKey DEF appendFails, Up
    <3> QED
      BY <1>1, <1>4, <2>1, <2>3, <3>1 DEF PlanInv, FreshInv, Places
  <2>4. CASE index[Key] = None /\ Move(c, "deleted") /\ UNCHANGED vars
    BY <1>1, <1>4, <2>1, <2>4 DEF PlanInv, FreshInv, Places, vars, Gone, Up
  <2> QED
    BY <1>12, <2>2, <2>3, <2>4 DEF TryDelete, guarded
<1>13. ASSUME NEW c \in Callers, Resume(c)
       PROVE  PlanInv'
  <2>1. UNCHANGED <<pc, index, acked, doubt, fresh>> /\ at[c] = "deleted"
    BY <1>13 DEF Resume, vars
  <2>2. consumed' => Gone
    BY <1>13, <2>1 DEF Resume, PlanInv, FreshInv
  <2>3. Move(c, "returned") \/ Move(c, "dispatched")
    BY <1>13 DEF Resume
  <2> QED
    BY <1>1, <1>4, <2>1, <2>2, <2>3 DEF PlanInv, FreshInv, Places, Gone, Up
<1>14. ASSUME NEW c \in Callers, ResumeWithFold(c)
       PROVE  PlanInv'
  <2>1. CASE Move(c, "returned") /\ UNCHANGED <<vars, fresh, consumed>>
    BY <1>1, <1>4, <2>1 DEF PlanInv, FreshInv, Places, vars, Gone, Up
  <2>2. CASE Move(c, "dispatched") /\ ~ consumed' /\ fresh' = {}
    <3>1. at' \in [Callers -> Places]
      BY <1>4, <2>2 DEF Places
    <3> QED
      BY <1>1, <1>3, <2>2, <3>1 DEF PlanInv
  <2>3. \/ Move(c, "returned") /\ UNCHANGED <<vars, fresh, consumed>>
        \/ Move(c, "dispatched") /\ ~ consumed' /\ fresh' = {}
    BY <1>14 DEF ResumeWithFold
  <2> QED
    BY <2>1, <2>2, <2>3
<1>15. ASSUME NEW c \in Callers, ConsumePlanOnCancel(c)
       PROVE  PlanInv'
  <2>1. UNCHANGED <<pc, index, acked, doubt, fresh, consumed>> /\ Move(c, "returned")
    BY <1>15 DEF ConsumePlanOnCancel, vars
  <2> QED
    BY <1>1, <1>4, <2>1 DEF PlanInv, FreshInv, Places, Gone, Up
<1> QED
  BY <1>5, <1>6, <1>7, <1>8, <1>9, <1>10, <1>11, <1>12, <1>13, <1>14, <1>15 DEF PlanNext

(* No crash, restart, compaction or failed write brings back a plan that   *)
(* was resumed.                                                            *)
THEOREM ResumedStaysConsumed == PlanSpec => []DispatchedIsNotHeld
<1>1. PlanInit => PlanInv
  <2>1. PlanInit => JournalInv
    BY JournalStart DEF PlanInit
  <2> QED
    BY <2>1 DEF PlanInit, PlanInv, FreshInv, Places
<1>2. PlanInv /\ [PlanNext]_planVars => PlanInv'
  BY PlanStep
<1>3. PlanInv => DispatchedIsNotHeld
  BY PlanAssumption DEF PlanInv, JournalInv, IndexAccepted, Up, Acceptable, Accepts, Gone, DispatchedIsNotHeld
<1> QED
  BY <1>1, <1>2, <1>3, PTL DEF PlanSpec
=============================================================================

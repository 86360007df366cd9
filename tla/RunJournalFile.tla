--------------------------- MODULE RunJournalFile ---------------------------
(***************************************************************************)
(* The file-backed run journal, src/internal/runstore/filestore.go: an     *)
(* append-only journal of records, a snapshot, and the index that both are *)
(* replayed into when the store is opened.                                 *)
(*                                                                         *)
(* The store's mutex makes every operation atomic for its callers; what    *)
(* can fall between the steps of one is a crash or an I/O error.  A record *)
(* is a goal and a value (None for a tombstone).  The journal file is its  *)
(* newline-terminated lines and what follows the last newline: nothing, a  *)
(* part of a record that does not parse, or a record whose newline alone   *)
(* is missing, which does.                                                 *)
(***************************************************************************)
EXTENDS Integers, Sequences, FiniteSetsExt

CONSTANTS
    Goals,
    Values,
    None,
    IOErrors,      \* whether writes and syncs may fail while the process lives
    MaxWrites,     \* bound: records written
    MaxCrashes     \* bound: crashes

ASSUME JournalAssumption == Goals # {} /\ {MaxWrites, MaxCrashes} \subseteq Nat

VARIABLES
    lines,     \* journal.jsonl: the complete lines
    tail,      \* journal.jsonl: what follows the last newline
    snapshot,  \* snapshot.json
    index,     \* the in-memory index
    pc,        \* open, renamed (inside Compact), down, refused
    writes, crashes,
    acked, doubt   \* history: as in DurableMap

diskVars == <<lines, tail, snapshot>>
vars == <<diskVars, index, pc, writes, crashes, acked, doubt>>

Maps == [Goals -> Values \cup {None}]
Records == [g : Goals, v : Values \cup {None}]
Lines == [parses : BOOLEAN, rec : Records]
NoTail == <<>>
Tails == {NoTail} \cup {<<l>> : l \in Lines}
Empty == [g \in Goals |-> None]

Init ==
    /\ lines = <<>>
    /\ tail = NoTail
    /\ snapshot = Empty
    /\ index = Empty
    /\ pc = "open"
    /\ writes = 0
    /\ crashes = 0
    /\ acked = Empty
    /\ doubt = [g \in Goals |-> {}]

---------------------------------------------------------------------------
apply(ix, rec) == [ix EXCEPT ![rec.g] = rec.v]

(* appendLine.  O_APPEND writes after whatever the file holds, so a record *)
(* that follows an unterminated tail becomes one line with it, which does  *)
(* not parse.  A write that is cut short leaves a new tail, or nothing.    *)
Line(rec) == [parses |-> tail = NoTail, rec |-> rec]
Complete(rec) == lines' = Append(lines, Line(rec)) /\ tail' = NoTail
CutShort(rec) ==
    /\ \/ UNCHANGED tail
       \/ tail' = <<[parses |-> FALSE, rec |-> rec]>>
       \/ tail' = <<Line(rec)>>
    /\ UNCHANGED lines

Write(rec) ==
    /\ pc = "open"
    /\ writes < MaxWrites
    /\ writes' = writes + 1
    /\ UNCHANGED <<snapshot>>

(* Save and Delete: the index changes only after the record is on disk.    *)
SaveOrDelete(rec) ==
    /\ Write(rec)
    /\ Complete(rec)
    /\ index' = apply(index, rec)
    /\ acked' = [acked EXCEPT ![rec.g] = rec.v]
    /\ doubt' = [doubt EXCEPT ![rec.g] = {}]
    /\ UNCHANGED <<pc, crashes>>

(* Write, Sync or Close returned an error: the index is left alone, the    *)
(* bytes that were written are not taken back.                             *)
appendFails(rec) ==
    /\ IOErrors
    /\ Write(rec)
    /\ Complete(rec) \/ CutShort(rec)
    /\ doubt' = [doubt EXCEPT ![rec.g] = @ \cup {rec.v}]
    /\ UNCHANGED <<index, pc, crashes, acked>>

crashInAppend(rec) ==
    /\ crashes < MaxCrashes
    /\ crashes' = crashes + 1
    /\ Write(rec)
    /\ Complete(rec) \/ CutShort(rec)
    /\ doubt' = [doubt EXCEPT ![rec.g] = @ \cup {rec.v}]
    /\ pc' = "down"
    /\ index' = Empty
    /\ UNCHANGED acked

---------------------------------------------------------------------------
(* Mutant: a failed rename goes unnoticed.                                 *)
RenameUnnoticed ==
    /\ pc = "open"
    /\ pc' = "renamed"
    /\ UNCHANGED <<diskVars, index, writes, crashes, acked, doubt>>

(* Compact: the rename of the temporary file is the commit point; nothing  *)
(* before it is visible, and the temporary file is never read.             *)
compactRename ==
    /\ pc = "open"
    /\ snapshot' = index
    /\ pc' = "renamed"
    /\ UNCHANGED <<lines, tail, index, writes, crashes, acked, doubt>>

compactTruncate ==
    /\ pc = "renamed"
    /\ \/ lines' = <<>> /\ tail' = NoTail
       \/ IOErrors /\ UNCHANGED <<lines, tail>>
    /\ pc' = "open"
    /\ UNCHANGED <<snapshot, index, writes, crashes, acked, doubt>>

crash ==
    /\ pc \in {"open", "renamed"}
    /\ crashes < MaxCrashes
    /\ crashes' = crashes + 1
    /\ pc' = "down"
    /\ index' = Empty
    /\ UNCHANGED <<diskVars, writes, acked, doubt>>

---------------------------------------------------------------------------
(* loadSnapshot and replayJournal: the records are applied in their order  *)
(* on top of the snapshot, so the last one of a goal gives its value.      *)
Positions(s, g) == {k \in DOMAIN s : s[k].rec.g = g}
ValueIn(snap, s, g) ==
    IF Positions(s, g) = {} THEN snap[g] ELSE s[Max(Positions(s, g))].rec.v
Parsed == lines \o (IF tail # NoTail /\ tail[1].parses THEN tail ELSE <<>>)
Replayed == [g \in Goals |-> ValueIn(snapshot, Parsed, g)]

NewFileStore ==
    /\ pc = "down"
    /\ IF \A k \in DOMAIN lines : lines[k].parses
       THEN index' = Replayed /\ pc' = "open"
       ELSE pc' = "refused" /\ UNCHANGED index
    /\ UNCHANGED <<diskVars, writes, crashes, acked, doubt>>

Next ==
    \/ \E rec \in Records : SaveOrDelete(rec) \/ appendFails(rec) \/ crashInAppend(rec)
    \/ compactRename \/ compactTruncate \/ crash \/ NewFileStore

Spec == Init /\ [][Next]_vars

---------------------------------------------------------------------------
(* Type correctness of the files, the index and the counters.              *)
TypeOK ==
    /\ lines \in Seq(Lines)
    /\ tail \in Tails
    /\ {snapshot, index, acked} \subseteq Maps
    /\ doubt \in [Goals -> SUBSET (Values \cup {None})]
    /\ pc \in {"open", "renamed", "down", "refused"}
    /\ writes \in 0..MaxWrites
    /\ crashes \in 0..MaxCrashes

(* The store implements the durable map: whatever crashes and errors fall  *)
(* in whatever order between appends, compactions and reopenings, what     *)
(* NewFileStore brings back is, goal by goal, the last acknowledged value  *)
(* or one of a write that was cut short after it.                          *)
Abstract == INSTANCE DurableMap WITH
                view <- IF pc \in {"open", "renamed"} THEN index ELSE [g \in {} |-> None]
ImplementsDurableMap == Abstract!Spec

(* A final line without its newline is dropped when the journal is         *)
(* replayed.                                                               *)
UnterminatedIsDropped ==
    [][pc = "down" /\ pc' = "open" => index' = [g \in Goals |-> ValueIn(snapshot, lines, g)]]_vars

(* A crash in the middle of an append is tolerated: the store opens.       *)
CrashIsTolerated == pc # "refused"
=============================================================================

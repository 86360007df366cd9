--------------------------- MODULE TelegramChannel ---------------------------
(***************************************************************************)
(* The Telegram channel: the long-polling adapter (internal/channel/       *)
(* telegram/adapter.go), the authorisation modes and the approved-sender   *)
(* store (telegram/authz), the pairing handlers (pairing.go), the armor    *)
(* guard (internal/armor) and their assembly (internal/cli/orchestrate.go).*)
(*                                                                         *)
(* The bot's server keeps the updates and forgets those below the offset   *)
(* of a poll.  The adapter's offset, its replay cache and its cache of     *)
(* goal IDs are in memory; the approved senders are also in a file.        *)
(***************************************************************************)
EXTENDS Integers, Sequences

CONSTANTS
    Modes,      \* the values of AGENT_BUILDER_TELEGRAM_AUTH_MODE considered
    Owner,      \* AGENT_BUILDER_TELEGRAM_OWNER_ID
    Static,     \* AGENT_BUILDER_TELEGRAM_APPROVED_IDS
    Inputs,     \* the messages that may be sent: [from, chat, msg, verb, arg, reply, seal]
    MaxSent,    \* bound: updates
    MaxCrashes, \* bound: crashes
    None

AllModes == {"envelope", "allowlist", "pairing", "open", "disabled"}
ASSUME TelegramAssumption == Modes \subseteq AllModes

VARIABLES
    mode,       \* the authorisation mode of the deployment
    sent,       \* the updates; an update's ID is its position
    acked,      \* the server: the updates below it are forgotten
    pc,         \* the goroutine that calls Next
    offset,     \* a.offset
    batch,      \* the IDs of the batch not yet processed: a pair, lowest and highest
    approved,   \* the store, in memory
    file,       \* the store's file
    opened,     \* the replay cache: the nonces it accepted
    goalIDCache,\* message ID to goal ID
    seen,       \* the updates this process delivered, in order
    done,       \* the adapter's context has ended
    crashes,
    handled,    \* history: the updates some process has delivered or turned down
    log,        \* history: [update, kind, goal] of every message delivered
    granted,    \* history: the senders the owner approved
    announced   \* history: the senders the owner was told are approved

memory == <<offset, batch, opened, goalIDCache, seen>>
vars == <<mode, sent, acked, pc, memory, approved, file, done, crashes, handled, log, granted, announced>>

ConsultsStore == mode \in {"allowlist", "pairing"}
Empty == [m \in {} |-> None]

Init ==
    /\ mode \in Modes
    /\ sent = <<>> /\ acked = 1 /\ pc = "assemble"
    /\ offset = 0 /\ batch = <<1, 0>> /\ opened = {} /\ goalIDCache = Empty /\ seen = <<>>
    /\ approved = {} /\ file = {} /\ done = FALSE /\ crashes = 0
    /\ handled = {} /\ log = {} /\ granted = {} /\ announced = {}

-----------------------------------------------------------------------------
(* assembleTelegramInbound: a mode that consults the store loads the file, *)
(* adds the configured senders and, when pairing, the owner, and persists; *)
(* every failure refuses to start.                                         *)
Seeds == IF ~ConsultsStore THEN {} ELSE Static \cup IF mode = "pairing" THEN {Owner} ELSE {}

assembleTelegramInbound ==
    /\ pc = "assemble"
    /\ \/ approved' = file \cup Seeds /\ file' = file \cup Seeds /\ pc' = "poll"
       \/ pc' = "exited" /\ file' \in {file, file \cup (Seeds \cap Static), file \cup Seeds} /\ UNCHANGED approved
    /\ UNCHANGED <<mode, sent, acked, memory, done, crashes, handled, log, granted, announced>>

(* A message reaches the bot's server while the process runs: plain text,  *)
(* or an envelope in the mode that reads them, where text is a bad one.    *)
Send(m) ==
    /\ pc \in {"poll", "wait"} /\ ~done /\ Len(sent) < MaxSent /\ (m.seal = None <=> mode # "envelope")
    /\ (\A u \in DOMAIN sent : sent[u] # m) /\ sent' = Append(sent, m)
    /\ UNCHANGED <<mode, acked, pc, memory, approved, file, done, crashes, handled, log, granted, announced>>

Low == IF offset > acked THEN offset ELSE acked

(* getUpdates: the server forgets what lies below the offset and answers   *)
(* with the first of the others; or the request or its decoding fails.     *)
getUpdates ==
    /\ pc = "poll" /\ pc' = "batch" /\ acked' = Low
    /\ \E n \in IF Len(sent) < Low THEN {Low - 1} ELSE Low..Len(sent) : batch' = <<Low, n>>
    /\ UNCHANGED <<mode, sent, offset, opened, goalIDCache, seen, approved, file, done, crashes, handled, log, granted, announced>>

pollFails ==
    /\ pc = "poll" /\ pc' = "wait"
    /\ UNCHANGED <<mode, sent, acked, memory, approved, file, done, crashes, handled, log, granted, announced>>

(* Mutant: a batch with nothing to deliver ends the source.                *)
waitOrEnd ==
    /\ pc = "wait" /\ pc' = "ended"
    /\ UNCHANGED <<mode, sent, acked, memory, approved, file, done, crashes, handled, log, granted, announced>>

(* waitOrShutdown: the backoff, then another poll, or the context ends it. *)
waitOrShutdown ==
    /\ pc = "wait" /\ (pc' = "poll" \/ (done /\ pc' = "ended"))
    /\ UNCHANGED <<mode, sent, acked, memory, approved, file, done, crashes, handled, log, granted, announced>>

-----------------------------------------------------------------------------
(* authz.Decide: the modes but pairing.                                    *)
Decide(m) ==
    CASE mode = "disabled" -> "reject"
      [] mode = "open" -> "plaintext"
      [] mode = "allowlist" -> IF m.from \in approved THEN "plaintext" ELSE "reject"
      [] OTHER -> "envelope"

(* Mutant: the grammar is matched before the owner.                        *)
DecidePairingTextFirst(m) ==
    IF m.verb = "approve" THEN IF m.arg = "task" THEN "reject" ELSE "approve"
    ELSE IF m.from \in approved THEN "plaintext" ELSE "reject"

(* authz.DecidePairing: the owner's approve and deny first, whatever they  *)
(* answer to; with no sender ID in the argument they are malformed.  The   *)
(* denial, the malformed command and the pending request of an unknown     *)
(* sender only audit and notify.                                           *)
DecidePairing(m) ==
    IF m.from = Owner /\ m.verb = "approve" THEN IF m.arg = "task" THEN "reject" ELSE "approve"
    ELSE IF m.from \in approved THEN "plaintext" ELSE "reject"

Decision(m) == IF mode = "pairing" THEN DecidePairing(m) ELSE Decide(m)

(* Store.Persist: a temporary file renamed over the store, or an error     *)
(* with the old file, or the new one when only the last chmod failed.      *)
Persist(s, ok) == file' \in IF ok THEN {s} ELSE {file, s}

(* Mutant: the owner is told before the store is written.                  *)
handlePairingApproveEarly(t) ==
    /\ approved' = approved \cup {t}
    /\ \E ok \in BOOLEAN : Persist(approved \cup {t}, ok) /\ announced' = announced \cup {t}

(* handlePairingApprove: added in memory, persisted, then confirmed; when  *)
(* persisting fails the owner is told so.                                  *)
handlePairingApprove(t) ==
    /\ approved' = approved \cup {t}
    /\ \E ok \in BOOLEAN : Persist(approved \cup {t}, ok)
                           /\ announced' = IF ok THEN announced \cup {t} ELSE announced

(* envelope.VerifyAndOpen and the roles: a seal is a nonce, or "bad".      *)
VerifyAndOpen(m) == m.seal \notin {None, "bad"} \cup opened

(* What the armor process may answer; "other" is no decision it should     *)
(* give.                                                                   *)
Responses == [decision : {"allow", "block", "quarantine", "error", "other"}, findings : BOOLEAN]

(* mapResponse: an allow with findings is a block, and so is all it does   *)
(* not understand.                                                         *)
mapResponse(r) ==
    CASE r.decision = "allow"      -> IF r.findings THEN "block" ELSE "allow"
      [] r.decision = "quarantine" -> "quarantine"
      [] OTHER                     -> "block"

(* armor.Guard.DecideContent: a process that fails, is cut off by the      *)
(* timeout or answers no JSON is a block.                                  *)
DecideContent == {mapResponse(r) : r \in Responses} \cup {"block"}

(* deriveMessage: a reply is threaded by the message ID it answers; the    *)
(* confirmations and approvals that answer no known goal, and every other  *)
(* text, are new goals.                                                    *)
ReplyTo(m) == IF m.reply \in DOMAIN goalIDCache THEN goalIDCache[m.reply] ELSE None
IsGoal(m) == m.verb = "goal" \/ (m.verb \in {"confirm", "approve"} /\ ReplyTo(m) = None)

deriveMessage(m) ==
    IF IsGoal(m) THEN [kind |-> "goal", goal |-> <<m.chat, m.msg>>]
                 ELSE [kind |-> m.verb, goal |-> ReplyTo(m)]

Deliver(u, m) ==
    /\ log' = log \cup {[update |-> u, kind |-> deriveMessage(m).kind, goal |-> deriveMessage(m).goal]}
    /\ seen' = Append(seen, u)
    /\ goalIDCache' = IF IsGoal(m)
                      THEN [x \in DOMAIN goalIDCache \cup {m.msg} |->
                              IF x = m.msg THEN <<m.chat, m.msg>> ELSE goalIDCache[x]]
                      ELSE goalIDCache
    /\ pc' = "poll" /\ batch' = <<1, 0>>

Rest == <<batch[1] + 1, batch[2]>>

(* The update yields no message: the batch goes on.                        *)
Continue == pc' = pc /\ batch' = Rest /\ UNCHANGED <<log, seen, goalIDCache>>

(* processPlaintext: armor decides, then the message is derived.           *)
processPlaintext(u, m) ==
    \E d \in DecideContent : IF d = "allow" THEN Deliver(u, m) ELSE Continue

(* Mutant: the offset is the update's own ID.                              *)
AdvanceLess(u) == offset' = u

(* Mutant: the offset is moved past the whole batch, though processBatch   *)
(* returns at its first message.                                           *)
AdvanceBatch(u) == offset' = batch[2] + 1

Advance(u) == offset' = u + 1

(* processBatch, one update: the offset first; then the mode's decision.   *)
processBatch ==
    /\ pc = "batch" /\ batch[1] <= batch[2]
    /\ LET u == batch[1]
           m == sent[u]
           d == IF m.verb = "none" THEN "reject" ELSE Decision(m) IN
       /\ Advance(u) /\ handled' = handled \cup {u}
       /\ IF d = "approve" THEN handlePairingApprove(m.arg) ELSE UNCHANGED <<approved, file, announced>>
       /\ granted' = granted \cup {t \in {m.arg} : d = "approve" /\ m.from = Owner}
       /\ IF d = "envelope" /\ VerifyAndOpen(m) THEN opened' = opened \cup {m.seal} ELSE UNCHANGED opened
       /\ IF d = "plaintext" \/ (d = "envelope" /\ VerifyAndOpen(m))
          THEN processPlaintext(u, m) ELSE Continue
    /\ UNCHANGED <<mode, sent, acked, done, crashes>>

(* The batch is empty, or each of its updates was turned down.             *)
BatchEnds ==
    /\ pc = "batch" /\ batch[1] > batch[2]
    /\ pc' = "wait"
    /\ UNCHANGED <<mode, sent, acked, memory, approved, file, done, crashes, handled, log, granted, announced>>

-----------------------------------------------------------------------------
Shutdown ==
    /\ ~done /\ pc \in {"poll", "batch", "wait"} /\ done' = TRUE
    /\ UNCHANGED <<mode, sent, acked, pc, memory, approved, file, crashes, handled, log, granted, announced>>

(* The process crashes and is started again; what is in memory is gone.    *)
Crash ==
    /\ crashes < MaxCrashes /\ crashes' = crashes + 1
    /\ pc \in {"assemble", "poll", "batch", "wait"} /\ pc' = "assemble"
    /\ offset' = 0 /\ batch' = <<1, 0>> /\ opened' = {} /\ goalIDCache' = Empty /\ seen' = <<>>
    /\ approved' = {} /\ done' = FALSE
    /\ UNCHANGED <<mode, sent, acked, file, handled, log, granted, announced>>

Loop == getUpdates \/ processBatch \/ BatchEnds \/ waitOrShutdown

Next ==
    \/ assembleTelegramInbound \/ Loop \/ pollFails \/ Shutdown \/ Crash
    \/ \E m \in Inputs : Send(m)

Spec == Init /\ [][Next]_vars

(* The goroutine runs, and the server can be reached again and again.      *)
FairSpec ==
    /\ Spec
    /\ WF_vars(assembleTelegramInbound) /\ WF_vars(processBatch \/ BatchEnds \/ waitOrShutdown)
    /\ SF_vars(getUpdates)

-----------------------------------------------------------------------------
TypeOK ==
    /\ mode \in Modes /\ sent \in Seq(Inputs) /\ acked \in 1..MaxSent + 1
    /\ pc \in {"assemble", "poll", "batch", "wait", "ended", "exited"}
    /\ offset \in 0..MaxSent + 1 /\ batch \in (1..MaxSent + 1) \X (0..MaxSent)
    /\ {approved, file, granted, announced} \subseteq SUBSET {m.from : m \in Inputs}
    /\ \A e \in log : e.goal \in {None} \cup {<<m.chat, m.msg>> : m \in Inputs}
    /\ handled \subseteq DOMAIN sent /\ done \in BOOLEAN /\ crashes \in 0..MaxCrashes

(* What is delivered was admitted by the mode: an envelope that verifies;  *)
(* a sender who is configured, is the owner, or was approved by the owner, *)
(* before or after any restart; nothing at all when the channel is         *)
(* disabled (DecidePairing, Decide, VerifyAndOpen).                        *)
DeliveredIsAdmitted ==
    \A e \in log :
        LET m == sent[e.update] IN
        CASE mode = "envelope" -> m.seal \notin {None, "bad"}
          [] ConsultsStore -> m.from \in Seeds \cup granted
          [] OTHER -> mode = "open"

(* A process delivers the updates in their order, none twice, and no       *)
(* envelope twice, however its polls fail and its batches are cut          *)
(* (processBatch's offset, the replay cache).                              *)
DeliveredOnce ==
    \A i, j \in DOMAIN seen :
        i < j => /\ seen[i] < seen[j]
                 /\ mode = "envelope" => sent[seen[i]].seal # sent[seen[j]].seal

(* What the server has forgotten was delivered or turned down: an update   *)
(* behind a delivered one in its batch, or left over by a crash, is        *)
(* fetched again (processBatch returns at its first message).              *)
NoneSkipped == \A u \in DOMAIN sent : u < acked => u \in handled

(* A sender the owner was told is approved is in the store's file for good *)
(* (handlePairingApprove persists before it confirms).                     *)
ApprovalIsDurable == announced \subseteq file

(* An update that was sent is delivered or turned down, unless the context *)
(* ends or the start is refused: rejected and empty batches and failing    *)
(* polls do not end Next (B-040).                                          *)
UpdateIsHandled ==
    \A u \in 1..MaxSent : u \in DOMAIN sent ~> u \in handled \/ done \/ pc = "exited"

(* What the documents say; see README.                                     *)

(* deriveMessage: a reply threads the goal of the message it answers.      *)
ThreadsOwnChat ==
    \A e \in log : e.kind # "goal" /\ e.goal # None => e.goal[1] = sent[e.update].chat

(* handlePairingApprove: when persisting fails nothing was approved.       *)
FailedApprovalIsNone ==
    mode = "pairing" => \A e \in log : sent[e.update].from \in Seeds \cup file

(* B-045: a reply approve <task> to a goal's message resumes the task.     *)
TaskApprovalIsDerived ==
    \A u \in handled : LET m == sent[u] IN
        mode = "pairing" /\ m.verb = "approve" /\ m.arg = "task" /\ m.from = Owner
            => m.reply \notin DOMAIN goalIDCache \/ \E e \in log : e.update = u
=============================================================================

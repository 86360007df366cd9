--------------------------- MODULE InboundProofs ---------------------------
(***************************************************************************)
(* Proofs about what an inbound message passes: the replay cache of the    *)
(* envelopes, for every window and every clock that is set back by at most *)
(* one, and the Telegram adapter with its authorisation modes and its      *)
(* store of approved senders, for any number of updates and crashes.       *)
(***************************************************************************)
EXTENDS ReplayCache, TelegramChannel, TLAPS

-----------------------------------------------------------------------------
(* The replay cache                                                        *)

(* The leaves are Zenon's, but for the ones that say otherwise.            *)
USE ZenonT(30)

(* What evict leaves: a sub-function of the cache, on the nonces that have *)
(* not expired.                                                            *)
LEMMA EvictedKeeps ==
    ASSUME CacheTypes
    PROVE  /\ DOMAIN Evicted = {m \in DOMAIN nonces : ~ Expired(nonces[m])}
           /\ \A m \in DOMAIN Evicted : Evicted[m] = nonces[m]
           /\ DOMAIN Evicted \subseteq Nonces
           /\ Evicted \in [DOMAIN Evicted -> Times]
BY DEF CacheTypes, Evicted

(* An entry the cache drops has a timestamp below the horizon of high.     *)
LEMMA DroppedIsOld ==
    ASSUME CacheInv, NEW m \in DOMAIN nonces, m \notin DOMAIN Evicted
    PROVE  nonces[m] < high - 2 * Window
<1>1. nonces[m] < now - 2 * Window
  BY EvictedKeeps DEF CacheInv, Expired
<1>2. /\ now \in Int /\ high \in Int /\ now <= high
      /\ nonces[m] \in Int /\ Window \in Int
  BY SMT, TimesAssumption, WindowAssumption DEF CacheInv, CacheTypes, ClockNearHigh
<1> QED
  BY SMT, <1>1, <1>2

(* A timestamp that passes the freshness test lies at or above that        *)
(* horizon, because the clock is at most one window behind high.           *)
LEMMA FreshIsRecent ==
    ASSUME CacheInv, NEW ts \in Times, ~ Stale(ts)
    PROVE  ~ (ts < high - 2 * Window)
BY SMT, TimesAssumption, WindowAssumption, SkewAssumption
   DEF CacheInv, CacheTypes, ClockNearHigh, Stale

(* The initial cache is empty and nothing has been accepted.               *)
LEMMA CacheInitInv == CacheInit => CacheInv
<1> SUFFICES ASSUME CacheInit PROVE CacheInv
  OBVIOUS
<1>1. CacheTypes
  BY DEF CacheInit, CacheTypes, Verdicts, Envelopes
<1>2. ClockNearHigh
  BY SMT, TimesAssumption, SkewAssumption, WindowAssumption DEF CacheInit, ClockNearHigh
<1>3. AcceptedAtMostOnce
  BY SMT DEF CacheInit, AcceptedAtMostOnce
<1>4. AcceptedIsRemembered
  BY SMT DEF CacheInit, AcceptedIsRemembered, Envelopes
<1> QED
  BY <1>1, <1>2, <1>3, <1>4 DEF CacheInv

(* Every step of the clock and of the cache preserves the invariant.       *)
LEMMA CacheNextInv == CacheInv /\ [CacheNext]_cacheVars => CacheInv'
<1> SUFFICES ASSUME CacheInv, [CacheNext]_cacheVars PROVE CacheInv'
  OBVIOUS
<1> USE DEF CacheInv
<1>t. Times \subseteq Int /\ Window \in Int /\ MaxSkew \in Int /\ MaxSkew >= 0
  BY SMT, TimesAssumption, WindowAssumption, SkewAssumption
<1>1. ASSUME NEW t \in Times, Tick(t) PROVE CacheInv'
  <2>1. CacheTypes'
    BY <1>1 DEF Tick, CacheTypes
  <2>2. ClockNearHigh' /\ high <= high'
    BY SMT, <1>1, <1>t DEF Tick, CacheTypes, ClockNearHigh
  <2>3. AcceptedAtMostOnce'
    BY <1>1 DEF Tick, AcceptedAtMostOnce
  <2>4. AcceptedIsRemembered'
    <3> SUFFICES ASSUME NEW n \in Nonces, NEW ts \in Times,
                        accepts[<<n, ts>>] > 0
                 PROVE  \/ n \in DOMAIN nonces /\ nonces[n] = ts
                        \/ ts < high' - 2 * Window
      BY <1>1 DEF Tick, AcceptedIsRemembered
    <3>1. CASE n \in DOMAIN nonces /\ nonces[n] = ts
      BY <3>1
    <3>2. CASE ts < high - 2 * Window
      BY SMT, <3>2, <2>1, <2>2, <1>t DEF CacheTypes
    <3> QED
      BY <3>1, <3>2 DEF AcceptedIsRemembered
  <2> QED
    BY <2>1, <2>2, <2>3, <2>4
<1>2. ASSUME NEW n \in Nonces, NEW ts \in Times,
             CheckStale(n, ts) \/ CheckReplay(n, ts)
      PROVE  CacheInv'
  BY <1>2 DEF CheckStale, CheckReplay, CacheTypes, Verdicts, ClockNearHigh,
              AcceptedAtMostOnce, AcceptedIsRemembered
<1>3. ASSUME NEW n \in Nonces, NEW ts \in Times, CheckAccept(n, ts)
      PROVE  CacheInv'
  <2>1. accepts[<<n, ts>>] = 0
    <3>1. ~ (accepts[<<n, ts>>] > 0)
      BY <1>3, FreshIsRecent DEF CheckAccept, AcceptedIsRemembered
    <3>2. accepts[<<n, ts>>] \in Nat
      BY DEF CacheTypes, Envelopes
    <3> QED
      BY SMT, <3>1, <3>2
  <2>2. CacheTypes'
    BY SMT, <1>3, EvictedKeeps DEF CheckAccept, CacheTypes, Verdicts, Envelopes
  <2>3. ClockNearHigh'
    BY <1>3 DEF CheckAccept, ClockNearHigh
  <2>4. AcceptedAtMostOnce'
    BY SMT, <1>3, <2>1 DEF CheckAccept, AcceptedAtMostOnce, CacheTypes, Envelopes
  <2>5. AcceptedIsRemembered'
    <3> SUFFICES ASSUME NEW m \in Nonces, NEW s \in Times,
                        accepts'[<<m, s>>] > 0
                 PROVE  \/ m \in DOMAIN nonces' /\ nonces'[m] = s
                        \/ s < high - 2 * Window
      BY <1>3 DEF CheckAccept, AcceptedIsRemembered
    <3>1. CASE m = n /\ s = ts
      BY <3>1, <1>3 DEF CheckAccept
    <3>2. CASE ~ (m = n /\ s = ts)
      <4>1. accepts[<<m, s>>] > 0
        BY <3>2, <1>3 DEF CheckAccept, CacheTypes, Envelopes
      <4>2. CASE m \in DOMAIN nonces /\ nonces[m] = s
        <5>1. CASE m \in DOMAIN Evicted
          BY <4>2, <5>1, <1>3, EvictedKeeps DEF CheckAccept
        <5>2. CASE m \notin DOMAIN Evicted
          BY <4>2, <5>2, DroppedIsOld
        <5> QED
          BY <5>1, <5>2
      <4>3. CASE s < high - 2 * Window
        BY <4>3
      <4> QED
        BY <4>1, <4>2, <4>3 DEF AcceptedIsRemembered
    <3> QED
      BY <3>1, <3>2
  <2> QED
    BY <2>2, <2>3, <2>4, <2>5
<1>4. ASSUME Evict PROVE CacheInv'
  <2>1. CacheTypes'
    BY <1>4, EvictedKeeps DEF Evict, CacheTypes
  <2>2. ClockNearHigh' /\ AcceptedAtMostOnce'
    BY <1>4 DEF Evict, ClockNearHigh, AcceptedAtMostOnce
  <2>3. AcceptedIsRemembered'
    <3> SUFFICES ASSUME NEW m \in Nonces, NEW s \in Times,
                        accepts[<<m, s>>] > 0
                 PROVE  \/ m \in DOMAIN Evicted /\ Evicted[m] = s
                        \/ s < high - 2 * Window
      BY <1>4 DEF Evict, AcceptedIsRemembered
    <3>1. CASE m \in DOMAIN nonces /\ nonces[m] = s
      BY <3>1, EvictedKeeps, DroppedIsOld
    <3>2. CASE s < high - 2 * Window
      BY <3>2
    <3> QED
      BY <3>1, <3>2 DEF AcceptedIsRemembered
  <2> QED
    BY <2>1, <2>2, <2>3
<1>5. CASE UNCHANGED cacheVars
  BY <1>5 DEF cacheVars, CacheTypes, ClockNearHigh, AcceptedAtMostOnce,
              AcceptedIsRemembered
<1> QED
  BY <1>1, <1>2, <1>3, <1>4, <1>5 DEF CacheNext

(* The replay cache accepts each envelope at most once (replay.go, Check). *)
THEOREM AcceptedOnce == CacheSpec => []AcceptedAtMostOnce
<1>1. CacheSpec => []CacheInv
  BY CacheInitInv, CacheNextInv, PTL DEF CacheSpec
<1>2. CacheInv => AcceptedAtMostOnce
  BY DEF CacheInv
<1> QED
  BY <1>1, <1>2, PTL

(* What was accepted stays in the cache under its timestamp for as long as *)
(* the timestamp could pass the freshness test (replay.go, evict).         *)
THEOREM AcceptedRemembered == CacheSpec => []AcceptedIsRemembered
<1>1. CacheSpec => []CacheInv
  BY CacheInitInv, CacheNextInv, PTL DEF CacheSpec
<1>2. CacheInv => AcceptedIsRemembered
  BY DEF CacheInv
<1> QED
  BY <1>1, <1>2, PTL

-----------------------------------------------------------------------------
(* The Telegram adapter                                                    *)

Polling == {"poll", "batch", "wait"}

Types ==
    /\ mode \in AllModes
    /\ sent \in Seq(Inputs) /\ seen \in Seq(Nat)
    /\ acked \in Nat \ {0} /\ offset \in Nat
    /\ batch \in Nat \X Nat

(* The offset, the server's mark and the batch lie within what was sent,   *)
(* and everything below them was handled.                                  *)
Handled(n) == n <= Len(sent) + 1 /\ \A u \in DOMAIN sent : u < n => u \in handled

PollInv ==
    /\ Handled(acked) /\ Handled(offset)
    /\ pc = "batch" => Handled(batch[1]) /\ batch[2] <= Len(sent) /\ batch[1] > 0

(* What was delivered lies below the offset and the batch, and its seals   *)
(* are in the replay cache.                                                *)
SeenInv ==
    \A i \in DOMAIN seen :
        /\ seen[i] \in DOMAIN sent /\ seen[i] < offset
        /\ pc = "batch" => seen[i] < batch[1]
        /\ mode = "envelope" => sent[seen[i]].seal \in opened

(* The senders in the store are configured or were approved by the owner.  *)
StoreInv == approved \subseteq Seeds \cup granted /\ file \subseteq Seeds \cup granted

(* A message m may be delivered in mode md when g were approved.           *)
Admitted(m, md, g) ==
    /\ md = "envelope" => m.seal \notin {None, "bad"}
    /\ md = "allowlist" => m.from \in Static \cup g
    /\ md = "pairing" => m.from \in Static \cup {Owner} \cup g
    /\ md # "disabled"

LogInv == \A e \in log : e.update \in DOMAIN sent /\ Admitted(sent[e.update], mode, granted)

(* Those announced as approved are in memory while the process serves.     *)
AnnouncedInv == announced \subseteq file /\ (pc \in Polling => announced \subseteq approved)

ChannelInv ==
    /\ Types /\ PollInv /\ SeenInv /\ DeliveredOnce
    /\ StoreInv /\ LogInv /\ AnnouncedInv

(* processBatch delivers m: an envelope that opens, a sender in the store, *)
(* anyone in the open mode.                                                *)
Admits(m) ==
    /\ mode = "envelope" => m.seal \notin {None, "bad"} \cup opened /\ opened' = opened \cup {m.seal}
    /\ ConsultsStore => m.from \in approved
    /\ mode # "disabled"

(* What one update of a batch does: it is turned down and the batch goes   *)
(* on, or it is admitted and delivered and the batch is dropped.           *)
LEMMA BatchAdmits ==
    ASSUME Types, PollInv, processBatch
    PROVE  LET u == batch[1] IN
           /\ pc = "batch" /\ u \in DOMAIN sent /\ u <= batch[2]
           /\ offset' = u + 1 /\ handled' = handled \cup {u}
           /\ UNCHANGED <<mode, sent, acked>>
           /\ opened \subseteq opened'
           /\ \/ pc' = "batch" /\ batch' = <<u + 1, batch[2]>> /\ UNCHANGED <<log, seen>>
              \/ /\ pc' = "poll" /\ batch' = <<1, 0>> /\ seen' = Append(seen, u) /\ Admits(sent[u])
                 /\ \E k, g : log' = log \cup {[update |-> u, kind |-> k, goal |-> g]}
<1> DEFINE u == batch[1]
           m == sent[u]
           d == IF m.verb = "none" THEN "reject" ELSE Decision(m)
<1>1. /\ pc = "batch" /\ u <= batch[2] /\ offset' = u + 1 /\ handled' = handled \cup {u}
      /\ UNCHANGED <<mode, sent, acked>>
  BY DEF processBatch, Advance
<1>2. u \in DOMAIN sent
  BY SMT, <1>1 DEF Types, PollInv
<1>3. IF d = "envelope" /\ VerifyAndOpen(m) THEN opened' = opened \cup {m.seal} ELSE UNCHANGED opened
  BY DEF processBatch
<1>4. IF d = "plaintext" \/ (d = "envelope" /\ VerifyAndOpen(m))
      THEN processPlaintext(u, m) ELSE Continue
  BY DEF processBatch
<1>5. Deliver(u, m) \/ Continue
  BY <1>4 DEF processPlaintext
<1>6. Continue => pc' = pc /\ batch' = <<u + 1, batch[2]>> /\ UNCHANGED <<log, seen>>
  BY DEF Continue, Rest
<1>7. Deliver(u, m) => /\ pc' = "poll" /\ batch' = <<1, 0>> /\ seen' = Append(seen, u)
                       /\ \E k, g : log' = log \cup {[update |-> u, kind |-> k, goal |-> g]}
  BY DEF Deliver
<1>8. d = "plaintext" \/ (d = "envelope" /\ VerifyAndOpen(m)) => Admits(m)
  <2>1. d = "plaintext" => mode \in {"open", "allowlist", "pairing"} /\ (ConsultsStore => m.from \in approved)
    BY DEF Decision, Decide, DecidePairing, Types, AllModes, ConsultsStore
  <2>2. d = "envelope" => mode = "envelope"
    BY DEF Decision, Decide, DecidePairing, Types, AllModes
  <2> HIDE DEF d
  <2> QED
    BY <1>3, <2>1, <2>2 DEF Admits, VerifyAndOpen, ConsultsStore
<1> HIDE DEF d, m
<1>9. Deliver(u, m) /\ ~ Continue => Admits(m)
  BY <1>4, <1>8
<1> QED
  BY <1>1, <1>2, <1>3, <1>5, <1>6, <1>7, <1>9 DEF m

(* What it does to the store: nothing, or the owner approves a sender, who *)
(* is announced once the file is written.                                  *)
LEMMA BatchStores ==
    ASSUME processBatch
    PROVE  \/ UNCHANGED <<approved, file, announced>> /\ granted \subseteq granted'
           \/ \E t : /\ approved' = approved \cup {t} /\ granted' = granted \cup {t}
                     /\ \/ file' = approved' /\ announced' = announced \cup {t}
                        \/ file' \in {file, approved'} /\ announced' = announced
<1> DEFINE m == sent[batch[1]]
           d == IF m.verb = "none" THEN "reject" ELSE Decision(m)
<1>1. /\ IF d = "approve" THEN handlePairingApprove(m.arg) ELSE UNCHANGED <<approved, file, announced>>
      /\ granted' = granted \cup {t \in {m.arg} : d = "approve" /\ m.from = Owner}
  BY DEF processBatch
<1>2. d = "approve" => m.from = Owner
  BY DEF Decision, Decide, DecidePairing
<1> HIDE DEF d
<1>3. CASE d = "approve"
  <2>1. handlePairingApprove(m.arg) /\ granted' = granted \cup {m.arg}
    BY <1>1, <1>2, <1>3
  <2> QED
    BY <2>1 DEF handlePairingApprove, Persist
<1>4. CASE d # "approve"
  BY <1>1, <1>4
<1> QED
  BY <1>3, <1>4

(* Every step keeps the types.                                             *)
LEMMA ChannelTypesStep ==
    ASSUME Types, PollInv, [Next]_vars
    PROVE  Types'
<1> USE DEF Types
<1>1. CASE assembleTelegramInbound
  BY <1>1 DEF assembleTelegramInbound, memory
<1>2. CASE getUpdates
  BY SMT, <1>2 DEF getUpdates, memory, Low
<1>3. CASE processBatch
  <2> HIDE DEF Types
  <2> DEFINE u == batch[1]
  <2>1. /\ offset' = u + 1 /\ UNCHANGED <<mode, sent, acked>>
        /\ \/ batch' = <<u + 1, batch[2]>> /\ UNCHANGED seen
           \/ batch' = <<1, 0>> /\ seen' = Append(seen, u)
    BY <1>3, BatchAdmits
  <2>2. u \in Nat /\ batch[2] \in Nat /\ seen \in Seq(Nat)
    BY DEF Types
  <2> HIDE DEF u
  <2>3. batch' \in Nat \X Nat
    BY SMT, <2>1, <2>2
  <2>4. seen' \in Seq(Nat)
    <3>1. Append(seen, u) \in Seq(Nat)
      BY SMT, <2>2
    <3> QED
      BY <2>1, <2>2, <3>1
  <2> QED
    BY SMT, <2>1, <2>2, <2>3, <2>4 DEF Types
<1>4. CASE BatchEnds
  BY <1>4 DEF BatchEnds, memory
<1>5. CASE waitOrShutdown
  BY <1>5 DEF waitOrShutdown, memory
<1>6. CASE pollFails
  BY <1>6 DEF pollFails, memory
<1>7. CASE Shutdown
  BY <1>7 DEF Shutdown, memory
<1>8. CASE Crash
  BY SMT, <1>8 DEF Crash, memory
<1>9. ASSUME NEW m \in Inputs, Send(m) PROVE Types'
  BY SMT, <1>9 DEF Send, memory
<1>10. CASE UNCHANGED vars
  BY <1>10 DEF vars, memory
<1> QED
  BY <1>1, <1>2, <1>3, <1>4, <1>5, <1>6, <1>7, <1>8, <1>9, <1>10 DEF Next, Loop

(* Nothing below the offset, the server's mark or the batch is unhandled.  *)
LEMMA PollStep ==
    ASSUME Types, PollInv, [Next]_vars
    PROVE  PollInv'
<1> USE DEF Types, PollInv, Handled
<1>1. CASE assembleTelegramInbound
  BY <1>1 DEF assembleTelegramInbound, memory
<1>2. CASE getUpdates
  <2>1. /\ acked' = Low /\ UNCHANGED <<sent, offset, handled>>
        /\ \E n \in IF Len(sent) < Low THEN {Low - 1} ELSE Low..Len(sent) : batch' = <<Low, n>>
    BY <1>2 DEF getUpdates
  <2>2. Handled(Low) /\ Low \in Nat \ {0}
    BY SMT DEF Low
  <2> QED
    BY SMT, <2>1, <2>2
<1>3. CASE processBatch
  <2> HIDE DEF Types, PollInv
  <2> DEFINE u == batch[1]
  <2>1. /\ pc = "batch" /\ u \in DOMAIN sent /\ u <= batch[2]
        /\ offset' = u + 1 /\ handled' = handled \cup {u} /\ UNCHANGED <<sent, acked>>
        /\ \/ pc' = "batch" /\ batch' = <<u + 1, batch[2]>>
           \/ pc' = "poll"
    BY <1>3, BatchAdmits
  <2>2. Handled(u) /\ Handled(acked) /\ batch[2] <= Len(sent) /\ u \in Nat /\ Len(sent) \in Nat
    BY SMT, <2>1 DEF Types, PollInv
  <2>3. DOMAIN sent = 1..Len(sent)
    BY SMT DEF Types
  <2> HIDE DEF u
  <2>4. /\ u + 1 <= Len(sent) + 1
        /\ \A v \in DOMAIN sent : v < u + 1 => v \in handled'
    BY SMT, <2>1, <2>2, <2>3
  <2> QED
    BY SMT, <2>1, <2>2, <2>4 DEF PollInv
<1>4. CASE BatchEnds
  BY <1>4 DEF BatchEnds, memory
<1>5. CASE waitOrShutdown
  BY <1>5 DEF waitOrShutdown, memory
<1>6. CASE pollFails
  BY <1>6 DEF pollFails, memory
<1>7. CASE Shutdown
  BY <1>7 DEF Shutdown, memory
<1>8. CASE Crash
  BY SMT, <1>8 DEF Crash, memory
<1>9. ASSUME NEW m \in Inputs, Send(m) PROVE PollInv'
  <2>1. /\ UNCHANGED <<acked, offset, handled, pc, batch>> /\ pc # "batch"
        /\ sent' = Append(sent, m)
    BY <1>9 DEF Send, memory
  <2>2. Len(sent') = Len(sent) + 1 /\ DOMAIN sent = 1..Len(sent) /\ DOMAIN sent' = 1..(Len(sent) + 1) /\ Len(sent) \in Nat
    BY SMT, <2>1
  <2> QED
    BY SMT, <2>1, <2>2
<1>10. CASE UNCHANGED vars
  BY <1>10 DEF vars, memory
<1> QED
  BY <1>1, <1>2, <1>3, <1>4, <1>5, <1>6, <1>7, <1>8, <1>9, <1>10 DEF Next, Loop

(* What was delivered lies behind, with its seal in the replay cache.      *)
LEMMA SeenStep ==
    ASSUME Types, PollInv, SeenInv, [Next]_vars
    PROVE  SeenInv'
<1> USE DEF Types, SeenInv
<1>1. CASE assembleTelegramInbound
  BY <1>1 DEF assembleTelegramInbound, memory
<1>2. CASE getUpdates
  <2>1. pc = "poll" /\ UNCHANGED <<mode, sent, offset, opened, seen>> /\ batch'[1] = Low
    BY SMT, <1>2 DEF getUpdates
  <2>2. Low >= offset /\ Low \in Nat
    BY SMT DEF Low
  <2> QED
    BY SMT, <2>1, <2>2
<1>3. CASE processBatch
  <2> HIDE DEF Types
  <2> DEFINE u == batch[1]
  <2>1. /\ pc = "batch" /\ u \in DOMAIN sent /\ offset' = u + 1 /\ UNCHANGED <<mode, sent>>
        /\ opened \subseteq opened'
    BY <1>3, BatchAdmits
  <2>2. CASE pc' = "batch" /\ batch' = <<u + 1, batch[2]>> /\ UNCHANGED seen
    BY SMT, <2>1, <2>2 DEF Types
  <2>3. CASE pc' = "poll" /\ seen' = Append(seen, u) /\ Admits(sent[u])
    <3>1. /\ Len(seen) \in Nat /\ DOMAIN seen = 1..Len(seen) /\ DOMAIN seen' = 1..(Len(seen) + 1)
          /\ \A i \in DOMAIN seen : seen'[i] = seen[i]
          /\ seen'[Len(seen) + 1] = u
      BY SMT, <2>3 DEF Types
    <3>2. mode = "envelope" => sent[u].seal \in opened'
      BY <2>3 DEF Admits
    <3>3. \A i \in DOMAIN seen : seen[i] < u /\ seen[i] \in Nat
      BY SMT, <2>1 DEF Types
    <3>4. u \in Nat
      BY DEF Types
    <3> HIDE DEF u
    <3>5. \A i \in DOMAIN seen : seen[i] < u + 1
      BY SMT, <3>3, <3>4
    <3> QED
      BY SMT, <2>1, <2>3, <3>1, <3>2, <3>4, <3>5
  <2> QED
    BY <1>3, <2>2, <2>3, BatchAdmits
<1>4. CASE BatchEnds
  BY <1>4 DEF BatchEnds, memory
<1>5. CASE waitOrShutdown
  BY <1>5 DEF waitOrShutdown, memory
<1>6. CASE pollFails
  BY <1>6 DEF pollFails, memory
<1>7. CASE Shutdown
  BY <1>7 DEF Shutdown, memory
<1>8. CASE Crash
  BY SMT, <1>8 DEF Crash, memory
<1>9. ASSUME NEW m \in Inputs, Send(m) PROVE SeenInv'
  <2>1. UNCHANGED <<mode, offset, pc, batch, opened, seen>> /\ sent' = Append(sent, m)
    BY <1>9 DEF Send, memory
  <2>2. \A u \in DOMAIN sent : u \in DOMAIN sent' /\ sent'[u] = sent[u]
    BY SMT, <2>1
  <2> QED
    BY <2>1, <2>2
<1>10. CASE UNCHANGED vars
  BY <1>10 DEF vars, memory
<1> QED
  BY <1>1, <1>2, <1>3, <1>4, <1>5, <1>6, <1>7, <1>8, <1>9, <1>10 DEF Next, Loop

(* Deliveries are in order, none twice and no seal twice.                  *)
LEMMA OnceStep ==
    ASSUME Types, PollInv, SeenInv, DeliveredOnce, [Next]_vars
    PROVE  DeliveredOnce'
<1> USE DEF DeliveredOnce
<1>1. CASE assembleTelegramInbound
  BY SMT, <1>1 DEF assembleTelegramInbound, memory
<1>2. CASE getUpdates
  BY SMT, <1>2 DEF getUpdates, memory
<1>3. CASE processBatch
  <2> DEFINE u == batch[1]
  <2>1. u \in DOMAIN sent /\ pc = "batch" /\ UNCHANGED <<mode, sent>>
    BY <1>3, BatchAdmits
  <2>2. CASE UNCHANGED seen
    BY SMT, <2>1, <2>2
  <2>3. CASE seen' = Append(seen, u) /\ Admits(sent[u])
    <3>1. /\ Len(seen) \in Nat /\ DOMAIN seen = 1..Len(seen) /\ DOMAIN seen' = 1..(Len(seen) + 1)
          /\ \A i \in DOMAIN seen : seen'[i] = seen[i]
          /\ seen'[Len(seen) + 1] = u
      BY SMT, <2>3 DEF Types
    <3>2. \A i \in DOMAIN seen : seen[i] < u /\ (mode = "envelope" => sent[seen[i]].seal \in opened)
      BY <2>1 DEF SeenInv
    <3>3. mode = "envelope" => sent[u].seal \notin opened
      BY <2>3 DEF Admits
    <3> HIDE DEF u
    <3>4. ASSUME NEW i \in DOMAIN seen', NEW j \in DOMAIN seen', i < j
          PROVE  /\ seen'[i] < seen'[j]
                 /\ mode = "envelope" => sent[seen'[i]].seal # sent[seen'[j]].seal
      <4>1. i \in DOMAIN seen
        BY SMT, <3>1, <3>4
      <4>2. CASE j \in DOMAIN seen
        BY SMT, <3>1, <3>4, <4>1, <4>2
      <4>3. CASE j = Len(seen) + 1
        BY <3>1, <3>2, <3>3, <4>1, <4>3
      <4> QED
        BY SMT, <3>1, <4>2, <4>3
    <3> QED
      BY <2>1, <3>4
  <2> QED
    BY <1>3, <2>2, <2>3, BatchAdmits
<1>4. CASE BatchEnds
  BY SMT, <1>4 DEF BatchEnds, memory
<1>5. CASE waitOrShutdown
  BY SMT, <1>5 DEF waitOrShutdown, memory
<1>6. CASE pollFails
  BY SMT, <1>6 DEF pollFails, memory
<1>7. CASE Shutdown
  BY <1>7 DEF Shutdown, memory
<1>8. CASE Crash
  BY SMT, <1>8 DEF Crash, memory
<1>9. ASSUME NEW m \in Inputs, Send(m) PROVE DeliveredOnce'
  <2>1. UNCHANGED <<mode, seen>> /\ sent' = Append(sent, m)
    BY <1>9 DEF Send, memory
  <2>2. \A u \in DOMAIN sent : u \in DOMAIN sent' /\ sent'[u] = sent[u]
    BY SMT, <2>1 DEF Types
  <2> QED
    BY SMT, <2>1, <2>2 DEF SeenInv
<1>10. CASE UNCHANGED vars
  BY <1>10 DEF vars, memory
<1> QED
  BY <1>1, <1>2, <1>3, <1>4, <1>5, <1>6, <1>7, <1>8, <1>9, <1>10 DEF Next, Loop

(* The store holds the configured senders and those the owner approved.    *)
LEMMA StoreStep ==
    ASSUME StoreInv, [Next]_vars
    PROVE  StoreInv'
<1> USE DEF StoreInv, Seeds, ConsultsStore
<1>1. CASE assembleTelegramInbound
  BY <1>1 DEF assembleTelegramInbound, memory
<1>2. CASE getUpdates
  BY <1>2 DEF getUpdates, memory
<1>3. CASE processBatch
  <2>1. UNCHANGED mode
    BY <1>3 DEF processBatch
  <2> QED
    BY <1>3, <2>1, BatchStores
<1>4. CASE BatchEnds
  BY <1>4 DEF BatchEnds, memory
<1>5. CASE waitOrShutdown
  BY <1>5 DEF waitOrShutdown, memory
<1>6. CASE pollFails
  BY <1>6 DEF pollFails, memory
<1>7. CASE Shutdown
  BY <1>7 DEF Shutdown, memory
<1>8. CASE Crash
  BY <1>8 DEF Crash, memory
<1>9. ASSUME NEW m \in Inputs, Send(m) PROVE StoreInv'
  BY <1>9 DEF Send, memory
<1>10. CASE UNCHANGED vars
  BY <1>10 DEF vars, memory
<1> QED
  BY <1>1, <1>2, <1>3, <1>4, <1>5, <1>6, <1>7, <1>8, <1>9, <1>10 DEF Next, Loop

(* What is delivered is an update, which the mode admits.                  *)
LEMMA LogStep ==
    ASSUME Types, PollInv, StoreInv, LogInv, [Next]_vars
    PROVE  LogInv'
<1> USE DEF LogInv
<1>1. CASE assembleTelegramInbound
  BY <1>1 DEF assembleTelegramInbound, memory
<1>2. CASE getUpdates
  BY <1>2 DEF getUpdates, memory
<1>3. CASE processBatch
  <2> DEFINE u == batch[1]
  <2>1. u \in DOMAIN sent /\ UNCHANGED <<mode, sent>>
    BY <1>3, BatchAdmits
  <2>2. granted \subseteq granted'
    BY <1>3, BatchStores
  <2>3. \A e \in log : Admitted(sent[e.update], mode, granted')
    BY <2>2 DEF Admitted
  <2>4. Admits(sent[u]) => Admitted(sent[u], mode, granted')
    BY <2>2 DEF Admits, Admitted, StoreInv, Seeds, ConsultsStore
  <2>5. \/ UNCHANGED log
        \/ Admits(sent[u]) /\ \E k, g : log' = log \cup {[update |-> u, kind |-> k, goal |-> g]}
    BY <1>3, BatchAdmits
  <2> HIDE DEF u
  <2>6. \A e \in log' : e.update \in DOMAIN sent /\ Admitted(sent[e.update], mode, granted')
    BY SMT, <2>1, <2>3, <2>4, <2>5
  <2> QED
    BY <2>1, <2>6
<1>4. CASE BatchEnds
  BY <1>4 DEF BatchEnds, memory
<1>5. CASE waitOrShutdown
  BY <1>5 DEF waitOrShutdown, memory
<1>6. CASE pollFails
  BY <1>6 DEF pollFails, memory
<1>7. CASE Shutdown
  BY <1>7 DEF Shutdown, memory
<1>8. CASE Crash
  BY <1>8 DEF Crash, memory
<1>9. ASSUME NEW m \in Inputs, Send(m) PROVE LogInv'
  <2>1. UNCHANGED <<mode, log, granted>> /\ sent' = Append(sent, m)
    BY <1>9 DEF Send, memory
  <2>2. \A u \in DOMAIN sent : u \in DOMAIN sent' /\ sent'[u] = sent[u]
    BY SMT, <2>1 DEF Types
  <2> QED
    BY <2>1, <2>2
<1>10. CASE UNCHANGED vars
  BY <1>10 DEF vars, memory
<1> QED
  BY <1>1, <1>2, <1>3, <1>4, <1>5, <1>6, <1>7, <1>8, <1>9, <1>10 DEF Next, Loop

(* A sender is announced once the file holds it, and no start drops it.    *)
LEMMA AnnouncedStep ==
    ASSUME AnnouncedInv, [Next]_vars
    PROVE  AnnouncedInv'
<1> USE DEF AnnouncedInv, Polling
<1>1. CASE assembleTelegramInbound
  BY <1>1 DEF assembleTelegramInbound, memory
<1>2. CASE getUpdates
  BY <1>2 DEF getUpdates, memory
<1>3. CASE processBatch
  <2>1. pc = "batch"
    BY <1>3 DEF processBatch
  <2> QED
    BY <1>3, <2>1, BatchStores
<1>4. CASE BatchEnds
  BY <1>4 DEF BatchEnds, memory
<1>5. CASE waitOrShutdown
  BY <1>5 DEF waitOrShutdown, memory
<1>6. CASE pollFails
  BY <1>6 DEF pollFails, memory
<1>7. CASE Shutdown
  BY <1>7 DEF Shutdown, memory
<1>8. CASE Crash
  BY <1>8 DEF Crash, memory
<1>9. ASSUME NEW m \in Inputs, Send(m) PROVE AnnouncedInv'
  BY <1>9 DEF Send, memory
<1>10. CASE UNCHANGED vars
  BY <1>10 DEF vars, memory
<1> QED
  BY <1>1, <1>2, <1>3, <1>4, <1>5, <1>6, <1>7, <1>8, <1>9, <1>10 DEF Next, Loop

(* The channel starts in its invariant.                                    *)
LEMMA ChannelStart == Init => ChannelInv
<1> SUFFICES ASSUME Init PROVE ChannelInv
  OBVIOUS
<1>1. Types
  BY SMT, TelegramAssumption DEF Init, Types
<1>2. PollInv /\ SeenInv /\ DeliveredOnce
  BY SMT DEF Init, PollInv, Handled, SeenInv, DeliveredOnce
<1>3. StoreInv /\ LogInv /\ AnnouncedInv
  BY DEF Init, StoreInv, LogInv, AnnouncedInv
<1> QED
  BY <1>1, <1>2, <1>3 DEF ChannelInv

(* Every step of the channel, its server and its crashes keeps it.         *)
LEMMA ChannelStep == ChannelInv /\ [Next]_vars => ChannelInv'
BY ChannelTypesStep, PollStep, SeenStep, OnceStep, StoreStep, LogStep, AnnouncedStep DEF ChannelInv

(* The channel's invariant holds throughout.                               *)
LEMMA ChannelInvariant == Spec => []ChannelInv
BY ChannelStart, ChannelStep, PTL DEF Spec

(* What is delivered was admitted by the mode: an envelope that verifies,  *)
(* a sender who is configured, is the owner or was approved by the owner   *)
(* (adapter.go processBatch, authz Decide and DecidePairing).              *)
THEOREM DeliveredAdmitted == Spec => []DeliveredIsAdmitted
<1>1. ChannelInv => DeliveredIsAdmitted
  BY DEF ChannelInv, Types, AllModes, LogInv, Admitted, DeliveredIsAdmitted, ConsultsStore, Seeds
<1> QED
  BY <1>1, ChannelInvariant, PTL

(* A process delivers the updates in their order, none twice, and no       *)
(* envelope twice (processBatch's offset and the replay cache).            *)
THEOREM InOrderOnce == Spec => []DeliveredOnce
<1>1. ChannelInv => DeliveredOnce
  BY DEF ChannelInv
<1> QED
  BY <1>1, ChannelInvariant, PTL

(* What the server has forgotten was delivered or turned down, whatever    *)
(* cut a batch short (processBatch returns at its first message).          *)
THEOREM ForgottenIsHandled == Spec => []NoneSkipped
<1>1. ChannelInv => NoneSkipped
  BY DEF ChannelInv, PollInv, Handled, NoneSkipped
<1> QED
  BY <1>1, ChannelInvariant, PTL

(* A sender the owner was told is approved is in the store's file for good *)
(* (handlePairingApprove persists before it confirms).                     *)
THEOREM ApprovalDurable == Spec => []ApprovalIsDurable
<1>1. ChannelInv => ApprovalIsDurable
  BY DEF ChannelInv, AnnouncedInv, ApprovalIsDurable
<1> QED
  BY <1>1, ChannelInvariant, PTL

============================================================================

---------------------------- MODULE ReplayCache ----------------------------
(***************************************************************************)
(* The envelope layer's replay cache (src/internal/envelope/replay.go).    *)
(*                                                                         *)
(* A signed envelope carries a nonce and a timestamp.  Check accepts it    *)
(* when the timestamp lies within Window of the wall clock and the nonce   *)
(* is not in the cache; on acceptance it first evicts every entry whose    *)
(* timestamp is older than 2 * Window and then records the new one.        *)
(*                                                                         *)
(* The clock is read with time.Now().UTC(), which strips Go's monotonic    *)
(* reading: it is the wall clock, and the host may set it back.  The model *)
(* lets the clock fall behind the highest value it ever showed by at most  *)
(* MaxSkew.                                                                *)
(***************************************************************************)
EXTENDS Integers, FiniteSets

CONSTANTS
    Nonces,     \* the nonce strings of the envelopes that circulate
    Times,      \* the clock values and timestamps considered
    Window,     \* ReplayCache.Window
    MaxSkew     \* how far the wall clock may be set back

ASSUME TimesAssumption == Times \subseteq Int
ASSUME WindowAssumption == Window \in Nat \ {0}
ASSUME SkewAssumption == MaxSkew \in 0..Window

VARIABLES
    now,        \* the wall clock
    high,       \* the highest value the clock has shown
    nonces,     \* rc.nonces: a partial function from nonces to timestamps
    verdict,    \* what the last call of Check returned
    accepts     \* history: how often each envelope was accepted

cacheVars == <<now, high, nonces, verdict, accepts>>

Envelopes == Nonces \X Times

Verdicts == {"none", "ok", "ErrStaleTimestamp", "ErrReplay"}

CacheInit ==
    /\ now \in Times
    /\ high = now
    /\ nonces = [n \in {} |-> 0]
    /\ verdict = "none"
    /\ accepts = [e \in Envelopes |-> 0]

---------------------------------------------------------------------------
(* The clock advances, or is set back.                                     *)

Tick(t) ==
    /\ t >= high - MaxSkew
    /\ now' = t
    /\ high' = IF t > high THEN t ELSE high
    /\ UNCHANGED <<nonces, verdict, accepts>>

---------------------------------------------------------------------------
(* Check and Evict hold rc.mu from the first to the last statement, so     *)
(* each call is one step.                                                  *)

Stale(ts) == ts < now - Window \/ ts > now + Window

Expired(ts) == ts < now - 2 * Window

(* Mutant of Evicted: the horizon is one window instead of two.            *)
EvictedOneWindow ==
    [n \in {m \in DOMAIN nonces : ~ (nonces[m] < now - Window)} |-> nonces[n]]

Evicted ==
    [n \in {m \in DOMAIN nonces : ~ Expired(nonces[m])} |-> nonces[n]]

CheckStale(n, ts) ==
    /\ Stale(ts)
    /\ verdict' = "ErrStaleTimestamp"
    /\ UNCHANGED <<now, high, nonces, accepts>>

CheckReplay(n, ts) ==
    /\ ~ Stale(ts)
    /\ n \in DOMAIN nonces
    /\ verdict' = "ErrReplay"
    /\ UNCHANGED <<now, high, nonces, accepts>>

CheckAccept(n, ts) ==
    /\ ~ Stale(ts)
    /\ n \notin DOMAIN nonces
    /\ nonces' = [m \in DOMAIN Evicted \cup {n} |->
                     IF m = n THEN ts ELSE Evicted[m]]
    /\ verdict' = "ok"
    /\ accepts' = [accepts EXCEPT ![<<n, ts>>] = @ + 1]
    /\ UNCHANGED <<now, high>>

Evict ==
    /\ nonces' = Evicted
    /\ UNCHANGED <<now, high, verdict, accepts>>

CacheNext ==
    \/ \E t \in Times : Tick(t)
    \/ \E n \in Nonces, ts \in Times :
          CheckStale(n, ts) \/ CheckReplay(n, ts) \/ CheckAccept(n, ts)
    \/ Evict

CacheSpec == CacheInit /\ [][CacheNext]_cacheVars

---------------------------------------------------------------------------
(* The cache's entries are nonces with timestamps, and every variable is   *)
(* in the range the code gives it (replay.go's struct and return values).  *)
CacheTypes ==
    /\ now \in Times
    /\ high \in Times
    /\ DOMAIN nonces \subseteq Nonces
    /\ nonces \in [DOMAIN nonces -> Times]
    /\ verdict \in Verdicts
    /\ accepts \in [Envelopes -> Nat]

(* Check accepts an envelope (a nonce with its signed timestamp) at most   *)
(* once, whatever evictions happen in between and however the clock is set *)
(* back within MaxSkew: an entry that was evicted is too old to be fresh   *)
(* again.  This is what the 2 * Window horizon in evict is for.            *)
AcceptedAtMostOnce ==
    \A e \in Envelopes : accepts[e] <= 1

(* The strengthening of AcceptedAtMostOnce that is inductive: an accepted  *)
(* envelope is in the cache under its own timestamp, or its timestamp lies *)
(* below the eviction horizon of the highest clock value seen.             *)
AcceptedIsRemembered ==
    \A n \in Nonces, ts \in Times :
        accepts[<<n, ts>>] > 0 =>
            \/ n \in DOMAIN nonces /\ nonces[n] = ts
            \/ ts < high - 2 * Window

ClockNearHigh == now <= high /\ high - MaxSkew <= now

CacheInv == CacheTypes /\ ClockNearHigh /\ AcceptedAtMostOnce /\ AcceptedIsRemembered
============================================================================

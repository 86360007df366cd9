----------------------------- MODULE DurableMap -----------------------------
(***************************************************************************)
(* What the durable run journal promises (the crash-safety contract of     *)
(* src/internal/runstore/record.go): an acknowledged write survives every  *)
(* restart; a write that was cut short or reported as failed may or may    *)
(* not survive; and a journal that cannot be read is refused, never reset  *)
(* or silently shortened.                                                  *)
(***************************************************************************)
CONSTANTS Goals, Values, None

VARIABLES
    acked,   \* the value each goal was last acknowledged with
    doubt,   \* per goal: the values of later writes that were not acknowledged
    view     \* what a reader sees: a map, or nothing while not open
mapVars == <<acked, doubt, view>>

Maps == [Goals -> Values \cup {None}]
Closed == [g \in {} |-> None]

Init ==
    /\ acked = [g \in Goals |-> None]
    /\ doubt = [g \in Goals |-> {}]
    /\ view = acked

Acknowledge(g, v) ==
    /\ view # Closed
    /\ acked' = [acked EXCEPT ![g] = v]
    /\ doubt' = [doubt EXCEPT ![g] = {}]
    /\ view' = [view EXCEPT ![g] = v]

Fail(g, v) ==
    /\ view # Closed
    /\ doubt' = [doubt EXCEPT ![g] = @ \cup {v}]
    /\ view' \in {view, Closed}
    /\ UNCHANGED acked

Crash == view # Closed /\ view' = Closed /\ UNCHANGED <<acked, doubt>>

Recover ==
    /\ view = Closed
    /\ view' \in Maps
    /\ \A g \in Goals : view'[g] \in {acked[g]} \cup doubt[g]
    /\ UNCHANGED <<acked, doubt>>

Next ==
    \/ \E g \in Goals, v \in Values \cup {None} : Acknowledge(g, v) \/ Fail(g, v)
    \/ Crash \/ Recover

Spec == Init /\ [][Next]_mapVars
=============================================================================

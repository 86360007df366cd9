--------------------------- MODULE MCReplayCache ---------------------------
(* ReplayCache on two nonces, eight clock values and a window of two ticks: *)
(* long enough for an entry to be accepted, evicted and offered again.      *)
EXTENDS ReplayCache

CONSTANTS n1, n2

MCNonces == {n1, n2}
MCTimes == 0..7
MCWindow == 2
============================================================================

-------------------------- MODULE MCDaemonProcess --------------------------
(* DaemonProcess for TLC: one daily and one interval entry.                *)
EXTENDS DaemonProcess

CONSTANTS p1, p2

MCProcs == {p1, p2}
Deployment(s, c, t, l, P) == [scheduled |-> s, ctxAware |-> c, ticks |-> t, lines |-> l, procs |-> P]
OnStdin == {Deployment(FALSE, FALSE, 1, 1, MCProcs)}
WithSchedule == {Deployment(TRUE, FALSE, 2, 1, MCProcs)}

(* The clock ticks longest where one process runs and reads nothing.       *)
Ending ==
    {Deployment(TRUE, FALSE, 3, 0, {p1}), Deployment(TRUE, FALSE, 2, 0, MCProcs),
     Deployment(TRUE, FALSE, 1, 1, MCProcs), Deployment(FALSE, TRUE, 1, 1, MCProcs)}
MCEntries == <<[isAt |-> TRUE, n |-> 0], [isAt |-> FALSE, n |-> 1]>>
=============================================================================

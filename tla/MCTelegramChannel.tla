-------------------------- MODULE MCTelegramChannel --------------------------
(* An owner and two other senders, one of them configured.  Message IDs    *)
(* are per chat: the private chats c1, c2 and the group c3 reuse them.     *)
EXTENDS TelegramChannel

CONSTANTS o, a, b, c1, c2, c3

In(from, chat, msg, verb, arg, reply, seal) ==
    [from |-> from, chat |-> chat, msg |-> msg, verb |-> verb,
     arg |-> arg, reply |-> reply, seal |-> seal]

Plain ==
    {In(a, c1, 1, "goal", None, None, None),
     In(a, c1, 3, "approve", a, None, None),
     In(o, c2, 1, "goal", None, None, None),
     In(o, c2, 2, "approve", a, None, None),
     In(o, c2, 3, "approve", "task", 1, None),
     In(b, c3, 2, "cancel", None, 1, None)}

Sealed ==
    {In(a, c1, 1, "goal", None, None, "bad"),
     In(o, c2, 1, "goal", None, None, "n1"),
     In(a, c1, 4, "goal", None, None, "n1"),
     In(o, c2, 3, "approve", "task", 1, "n2"),
     In(b, c3, 5, "none", None, None, "bad")}

MCInputs == Plain \cup Sealed

MCModes == {"envelope", "allowlist", "pairing", "open", "disabled"}
MCStatic == {b}
=============================================================================

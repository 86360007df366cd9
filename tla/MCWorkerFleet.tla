--------------------------- MODULE MCWorkerFleet ---------------------------
(* Instances of WorkerFleet for TLC: a local entry, a limited one whose    *)
(* adapter commits, a limited one that relies on its tool, and the         *)
(* cheapest, which is below the recipe's floor.                            *)
EXTENDS WorkerFleet, TLC

CONSTANTS a, b
MCWorkers == {a, b}
MCEntries == {1, 2, 3, 4}
MCHarness == <<"ollama", "agy", "cli", "cli">>
MCCost    == <<2, 1, 1, 0>>
MCLimit   == <<0, 1, 1, 0>>
MCTier    == <<1, 1, 2, 0>>
Symmetry  == Permutations(MCWorkers)
=============================================================================

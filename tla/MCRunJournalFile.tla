-------------------------- MODULE MCRunJournalFile --------------------------
(* An instance of RunJournalFile for TLC.                                  *)
EXTENDS RunJournalFile, SequencesExt

CONSTANTS g1, g2, v1, v2
MCGoals  == {g1, g2}
MCValues == {v1, v2}

(* The replay is what applying each record in turn computes (the loop of   *)
(* replayJournal over Store.apply).                                        *)
ReplaysInOrder == Replayed = FoldLeft(LAMBDA ix, l : apply(ix, l.rec), snapshot, Parsed)
=============================================================================

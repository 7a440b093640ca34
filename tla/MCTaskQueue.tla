---------------------------- MODULE MCTaskQueue ----------------------------
(* TLC instances of TaskQueue. *)
EXTENDS TaskQueue, TLC

CONSTANTS t1, t2, t3, d1, m1

MCTasks == {t1, t2, t3}
MCPair == {t1, t2}
MCDocs == {d1}
MCMemories == {m1}
NoMemories == {}

MCSymmetry == Permutations(MCTasks)

=============================================================================

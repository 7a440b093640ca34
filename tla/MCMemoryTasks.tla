--------------------------- MODULE MCMemoryTasks ---------------------------
(* TLC instances of MemoryTasks. *)
EXTENDS MemoryTasks, TLC

CONSTANTS t1, t2, m1, h1, h2, w1

MCTasks == {t1, t2}
MCMemories == {m1}
MCHandlers == {h1, h2}
MCOneHandler == {h1}
MCSlots == {w1}

AddCancel == [h \in MCOneHandler |-> {"add", "cancel"}]
AddDeleteClear == (h1 :> {"add"}) @@ (h2 :> {"add", "delete", "clear"})

WriteRestart == {"write", "restart"}

MCSymmetry == Permutations(MCTasks)

=============================================================================

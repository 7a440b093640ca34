------------------------ MODULE MCDocumentIngestion ------------------------
(* TLC instances of DocumentIngestion. *)
EXTENDS DocumentIngestion, TLC

CONSTANTS t1, t2, d1, h1, h2, w1, w2

MCTasks == {t1, t2}
MCDocs == {d1}
MCHandlers == {h1, h2}
MCOneHandler == {h1}
MCDispatcher == {w1}
MCExecutor == {w2}

AllRequests == {"upload", "parse", "stop", "cancel", "delete", "redo", "reset"}
QueueRequests == {"upload", "parse", "delete"}

Panics == {"panic"}
AllFaults == {"write", "panic", "restart"}

MCSymmetry == Permutations(MCTasks)

=============================================================================

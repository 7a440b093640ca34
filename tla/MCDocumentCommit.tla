-------------------------- MODULE MCDocumentCommit --------------------------
(* TLC instances of DocumentCommit. *)
EXTENDS DocumentCommit, TLC

CONSTANTS d1, d2, h1, h2

MCDocs == {d1, d2}
MCOneDoc == {d1}
MCHandlers == {h1, h2}

AllButReleases == {"upload", "delete", "edit"}
AllButEdits == {"upload", "delete", "reparse", "reset"}

Edits == {"edit"}
Nothing == {}

Reliable == {}
Writes == {"write"}
AllFaults == {"write", "invalid", "crash"}

MCSymmetry == Permutations(MCDocs) \cup Permutations(MCHandlers)

=============================================================================

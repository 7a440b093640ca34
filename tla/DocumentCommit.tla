--------------------------- MODULE DocumentCommit ---------------------------
(***************************************************************************)
(* The stores that must agree about a document: its row (DocStore), its    *)
(* chunks in the search index and in the index file, its graph checkpoint, *)
(* and the document and chunk totals of its knowledge base.  There is no   *)
(* transaction over them: commit_indexed_document, delete_document_data    *)
(* and the chunk endpoints write one after the other under                 *)
(* document_commit_lock and undo what they wrote when a later write fails; *)
(* uploads and counter releases write without that lock.                   *)
(*                                                                         *)
(* One action is one write of one store.  The lock record holds what the   *)
(* function under the lock computed when it entered; req holds what each   *)
(* request handler read before, so that it may be stale when it is used.   *)
(* Chunks are counted, not told apart.  All documents are in one           *)
(* knowledge base, which exists.                                           *)
(*                                                                         *)
(* The vector mirror and the document metadata store appear through the    *)
(* failure of their write only.  Left out: a second failure while the      *)
(* writes of a failed operation are undone, which the code logs and leaves *)
(* for an operator; a refused submit to the executor, which is refused     *)
(* only after a shutdown and the server calls none; deleting the knowledge *)
(* base; the queue (TaskQueue).                                            *)
(***************************************************************************)
EXTENDS Integers, FiniteSets, Functions

CONSTANTS
    Docs,       \* document ids, all of one knowledge base
    Handlers,   \* concurrent HTTP requests
    NoHandler,  \* the background worker, as the owner of the lock
    MaxChunks,  \* bound on the chunks a parse or an edit leaves
    MaxActive,  \* bound on the requests and commits going on at once
    MaxTotal,   \* no commit starts while the chunk total is above this bound
    Requests,   \* the requests that are made
    Alone,      \* those of them that are made while nothing else is going on
    Faults      \* the faults that occur: "write", "invalid", "crash"

ASSUME DocsAssumption == IsFiniteSet(Docs)
ASSUME HandlersAssumption == IsFiniteSet(Handlers)
ASSUME NoHandlerAssumption == NoHandler \notin Handlers
ASSUME MaxChunksAssumption == MaxChunks \in Nat \ {0}
ASSUME RequestsAssumption ==
    Requests \subseteq {"upload", "delete", "edit", "reparse", "reset"}
ASSUME AloneAssumption == Alone \subseteq Requests
ASSUME FaultsAssumption == Faults \subseteq {"write", "invalid", "crash"}

VARIABLES
    docs,       \* DocStore: state and chunk_count of each row
    index,      \* chunks of each document in the search engine
    file,       \* the same in the index file
    graphs,     \* whether the document has a graph checkpoint
    kb,         \* KnowledgeBase: chunk_count and doc_count
    lock,       \* what the holder of document_commit_lock is doing
    req         \* what each request has read and does next

vars == <<docs, index, file, graphs, kb, lock, req>>

\* "parsing" rows had their parse task queued, "uploaded" ones not yet or it was
\* cancelled, and "undone" ones were removed again by their upload.
DocState == {"absent", "uploaded", "parsing", "deleted", "undone"}

Present(d) == docs[d].state \in {"uploaded", "parsing"}

Free == [op |-> "none"]

Idle == [kind |-> "none"]

Locked == [op : {"commit", "delete", "edit", "update", "reset"}, by : Handlers \cup {NoHandler},
           doc : Docs, at : {"index", "graphs", "counts", "metadata", "docs"},
           count : Nat, delta : Int, graph : BOOLEAN,
           new : [Docs -> Nat], prev : [Docs -> Nat], prevGraph : BOOLEAN]

Request ==
    [kind : {"upload"}, doc : Docs,
     at : {"count", "push", "status", "cancel", "remove", "undo"}]
    \cup [kind : {"delete"}, doc : Docs]
    \cup [kind : {"reparse", "reset"}, doc : Docs,
          at : {"release", "zero", "remove"}, count : Nat]
    \cup [kind : {"edit"}, doc : Docs, at : {"read"}, count : Nat]
    \cup [kind : {"edit"}, doc : Docs, at : {"apply"}, count : Nat,
          delta : Int, counted : BOOLEAN, chunks : [Docs -> Nat]]

Init ==
    /\ docs = [d \in Docs |-> [state |-> "absent", chunks |-> 0]]
    /\ index = [d \in Docs |-> 0]
    /\ file = index
    /\ graphs = [d \in Docs |-> FALSE]
    /\ kb = [chunks |-> 0, docs |-> 0]
    /\ lock = Free
    /\ req = [h \in Handlers |-> Idle]

\* A write fails only in the instances with write faults.
Write(ok) == ok \/ "write" \in Faults

Active == Cardinality({h \in Handlers : req[h] # Idle})
            + (IF lock # Free /\ lock.op = "commit" THEN 1 ELSE 0)

\* Mutant: the totals are not clamped.
ShiftedUnclamped(n, delta) == n + delta

\* (count as isize + delta).max(0) as usize
Shifted(n, delta) == IF n + delta < 0 THEN 0 ELSE n + delta

\* update_counts
Counted(chunks, documents) ==
    [chunks |-> Shifted(kb.chunks, chunks), docs |-> Shifted(kb.docs, documents)]

\* Something may begin beside what is going on.
Beside == Active < MaxActive /\ \A h \in Handlers : req[h].kind \notin Alone

Start(h, kind) ==
    /\ kind \in Requests
    /\ req[h] = Idle
    /\ IF kind \in Alone THEN Active = 0 ELSE Beside

Finished(h) == req' = [req EXCEPT ![h] = Idle]

-----------------------------------------------------------------------------
(* register_document_upload *)

\* insert_unique, once the file is stored.
StartUpload(h, d) ==
    /\ Start(h, "upload")
    /\ docs[d].state = "absent"
    /\ docs' = [docs EXCEPT ![d].state = "uploaded"]
    /\ req' = [req EXCEPT ![h] = [kind |-> "upload", doc |-> d, at |-> "count"]]
    /\ UNCHANGED <<index, file, graphs, kb, lock>>

\* docs.delete, which does nothing about a row that is gone.
Without(d, state) ==
    IF Present(d) THEN [docs EXCEPT ![d] = [state |-> state, chunks |-> 0]]
                  ELSE docs

\* The document is counted; a failure removes its row again.
UploadCount(h, ok) ==
    /\ req[h].kind = "upload" /\ req[h].at = "count"
    /\ Write(ok)
    /\ IF ok THEN /\ kb' = Counted(0, 1)
                  /\ req' = [req EXCEPT ![h].at = "push"]
                  /\ UNCHANGED docs
             ELSE /\ docs' = Without(req[h].doc, "undone")
                  /\ Finished(h)
                  /\ UNCHANGED kb
    /\ UNCHANGED <<index, file, graphs, lock>>

\* The parse of d is queued, or it was cancelled.
Requeued(d, state) ==
    IF Present(d) THEN [docs EXCEPT ![d].state = state] ELSE docs

\* push_document_unique: from here on the document may be parsed and committed.
\* A live task that another request queued is found, and nothing is left to do.
\* The file of a document that was deleted meanwhile is missing.
UploadPush(h, ok) ==
    /\ req[h].kind = "upload" /\ req[h].at = "push"
    /\ Write(ok) \/ ~Present(req[h].doc)
    /\ LET d == req[h].doc
       IN  IF ok THEN /\ docs' = Requeued(d, "parsing")
                      /\ \/ req' = [req EXCEPT ![h].at = "status"]
                         \/ docs[d].state = "parsing" /\ Finished(h)
                 ELSE /\ docs' = Without(d, "undone")
                      /\ req' = [req EXCEPT ![h].at = "undo"]
    /\ UNCHANGED <<index, file, graphs, kb, lock>>

\* The run status of the queued document.
UploadStatus(h, ok) ==
    /\ req[h].kind = "upload" /\ req[h].at = "status"
    /\ Write(ok)
    /\ IF ok THEN Finished(h) ELSE req' = [req EXCEPT ![h].at = "cancel"]
    /\ UNCHANGED <<docs, index, file, graphs, kb, lock>>

\* A failed status cancels the task; a commit under way is not stopped by it.
UploadCancel(h) ==
    /\ req[h].kind = "upload" /\ req[h].at = "cancel"
    /\ docs' = Requeued(req[h].doc, "uploaded")
    /\ req' = [req EXCEPT ![h].at = "remove"]
    /\ UNCHANGED <<index, file, graphs, kb, lock>>

\* Then the row goes, whether or not its document was committed meanwhile, and
\* then the count.
UploadRemove(h) ==
    /\ req[h].kind = "upload" /\ req[h].at = "remove"
    /\ docs' = Without(req[h].doc, "undone")
    /\ req' = [req EXCEPT ![h].at = "undo"]
    /\ UNCHANGED <<index, file, graphs, kb, lock>>

UploadUndo(h) ==
    /\ req[h].kind = "upload" /\ req[h].at = "undo"
    /\ kb' = Counted(0, -1)
    /\ Finished(h)
    /\ UNCHANGED <<docs, index, file, graphs, lock>>

-----------------------------------------------------------------------------
(* Requests up to the point where they wait for the lock *)

\* delete_doc: the row is there when the request looks.
StartDelete(h, d) ==
    /\ Start(h, "delete")
    /\ Present(d)
    /\ req' = [req EXCEPT ![h] = [kind |-> "delete", doc |-> d]]
    /\ UNCHANGED <<docs, index, file, graphs, kb, lock>>

\* add_chunk, update_chunk, delete_chunks: the row is read first, and an
\* embedding may be awaited.
StartEdit(h, d) ==
    /\ Start(h, "edit")
    /\ Present(d)
    /\ req' = [req EXCEPT ![h] = [kind |-> "edit", doc |-> d, at |-> "read",
                                  count |-> docs[d].chunks]]
    /\ UNCHANGED <<docs, index, file, graphs, kb, lock>>

\* Then the whole index is copied and the copy edited, with no lock held: a
\* chunk more, some fewer, or (update_chunk, switch_chunks) one changed, which
\* is not counted.  An edit that is being counted keeps the index locked.
ReadIndex(h, delta, counted) ==
    /\ req[h].kind = "edit" /\ req[h].at = "read"
    /\ lock # Free => lock.op # "edit"
    /\ LET d == req[h].doc
       IN  /\ index[d] + delta \in 0..MaxChunks
           /\ counted \/ (delta = 0 /\ index[d] > 0)
           /\ req' = [req EXCEPT ![h] =
                [kind |-> "edit", doc |-> d, at |-> "apply", count |-> @.count,
                 delta |-> delta, counted |-> counted,
                 chunks |-> [index EXCEPT ![d] = @ + delta]]]
    /\ UNCHANGED <<docs, index, file, graphs, kb, lock>>

\* The request ends without an edit: no such chunk, or no embedding.
DropEdit(h) ==
    /\ req[h].kind = "edit" /\ req[h].at = "read"
    /\ Finished(h)
    /\ UNCHANGED <<docs, index, file, graphs, kb, lock>>

\* reparse_doc, and reset_document_for_reparse after reset_for_reparse:
\* reparse_counter_release reads the row.
StartRelease(h, d, kind) ==
    /\ Start(h, kind)
    /\ Present(d)
    /\ kind = "reparse" => docs[d].chunks > 0
    /\ req' = [req EXCEPT ![h] =
                [kind |-> kind, doc |-> d, count |-> docs[d].chunks,
                 at |-> IF docs[d].chunks > 0 THEN "release" ELSE "remove"]]
    /\ UNCHANGED <<docs, index, file, graphs, kb, lock>>

\* The chunks leave the total of the knowledge base; a failure is only logged.
Release(h, ok) ==
    /\ req[h].kind \in {"reparse", "reset"} /\ req[h].at = "release"
    /\ Write(ok)
    /\ kb' = IF ok THEN Counted(-req[h].count, 0) ELSE kb
    /\ req' = [req EXCEPT ![h].at = "zero"]
    /\ UNCHANGED <<docs, index, file, graphs, lock>>

\* The row's own count is cleared; a failure is only logged.  A reparse is
\* queued and ends here, a reset goes on to remove the chunks.
Zero(h, ok) ==
    /\ req[h].kind \in {"reparse", "reset"} /\ req[h].at = "zero"
    /\ Write(ok)
    /\ LET d == req[h].doc
       IN  docs' = IF Present(d)
                   THEN [docs EXCEPT
                            ![d].chunks = IF ok THEN 0 ELSE @,
                            ![d].state = IF req[h].kind = "reparse"
                                         THEN "parsing" ELSE @]
                   ELSE docs
    /\ IF req[h].kind = "reparse" THEN Finished(h)
                                  ELSE req' = [req EXCEPT ![h].at = "remove"]
    /\ UNCHANGED <<index, file, graphs, kb, lock>>

\* reparse_doc and parse_documents of a document without chunks.
Requeue(d) ==
    /\ "reparse" \in Requests
    /\ docs[d].state = "uploaded" /\ docs[d].chunks = 0
    /\ docs' = [docs EXCEPT ![d].state = "parsing"]
    /\ UNCHANGED <<index, file, graphs, kb, lock, req>>

-----------------------------------------------------------------------------
(* Under document_commit_lock *)

\* Mutant: the row is not looked up again.
CommittableOnce(d) == docs[d].state \in {"parsing", "deleted"}

\* What commit_indexed_document checks of the row; its lease is TaskQueue's.
Committable(d) == docs[d].state = "parsing"

\* Mutant: the new chunks are added to those counted before.
CommitDeltaAll(d, n) == n

\* The change of the total when d is left with n chunks.
CommitDelta(d, n) == n - docs[d].chunks

\* The lock of a function that leaves the index as new.
Acquire(op, h, d, count, delta, graph, new) ==
    /\ lock = Free
    /\ lock' = [op |-> op, by |-> h, doc |-> d, at |-> "index", count |-> count,
                delta |-> delta, graph |-> graph, new |-> new,
                prev |-> index, prevGraph |-> graphs[d]]
    /\ UNCHANGED <<docs, index, file, graphs, kb, req>>

\* commit_indexed_document: n chunks, with a graph checkpoint or without.
LockCommit(d, n, graph) ==
    /\ Committable(d)
    /\ Beside /\ kb.chunks <= MaxTotal
    /\ Acquire("commit", NoHandler, d, n, CommitDelta(d, n), graph,
               [index EXCEPT ![d] = n])

\* delete_document_data: it counts the chunks it removes.
LockDelete(h) ==
    /\ req[h].kind = "delete"
    /\ LET d == req[h].doc
       IN  Acquire("delete", h, d, 0, -index[d], FALSE, [index EXCEPT ![d] = 0])

\* commit_chunk_count_change and commit_index_only: the copy replaces the index.
LockEdit(h) ==
    /\ req[h].kind = "edit" /\ req[h].at = "apply"
    /\ LET r == req[h]
       IN  Acquire(IF r.counted THEN "edit" ELSE "update", h, r.doc,
                   Shifted(r.count, r.delta), r.delta, graphs[r.doc], r.chunks)

\* The end of reset_document_for_reparse.
LockReset(h) ==
    /\ req[h].kind = "reset" /\ req[h].at = "remove"
    /\ Acquire("reset", h, req[h].doc, 0, 0, graphs[req[h].doc],
               [index EXCEPT ![req[h].doc] = 0])

\* The function under the lock returns, and with it the request.
Unlock ==
    /\ lock' = Free
    /\ req' = IF lock.by = NoHandler THEN req ELSE [req EXCEPT ![lock.by] = Idle]

\* It goes on to its next write.
Continue(at) == lock' = [lock EXCEPT !.at = at] /\ UNCHANGED req

\* rollback_document_index of a commit or deletion.
RestoreIndex ==
    /\ index' = [index EXCEPT ![lock.doc] = lock.prev[lock.doc]]
    /\ file' = index'

\* rollback_online_index of an edit: the whole index goes back.
RestoreSnapshot == index' = lock.prev /\ file' = lock.prev

RestoreGraph == graphs' = [graphs EXCEPT ![lock.doc] = lock.prevGraph]

\* The counts go back, if they had been changed.
RestoreCounts(documents) == kb' = Counted(-lock.delta, documents)

AfterIndex ==
    CASE lock.op \in {"commit", "delete"} -> "graphs"
      [] lock.op = "edit" -> "docs"
      [] OTHER -> "end"

\* persist_document_change and persist_online_index: the chunks are checked,
\* then mirrored, then saved.  A refused mirror or file write restores the
\* engine, an invalid chunk does not.
WriteIndex(result) ==
    /\ lock # Free /\ lock.at = "index"
    /\ CASE result = "ok" -> index' = lock.new /\ file' = lock.new
         [] result = "write" -> UNCHANGED <<index, file>>
         [] result = "invalid" -> index' = lock.new /\ UNCHANGED file
    /\ IF result = "ok" /\ AfterIndex # "end" THEN Continue(AfterIndex) ELSE Unlock
    /\ UNCHANGED <<docs, graphs, kb>>

\* Mutant: a refused graph write leaves the new chunks.
WriteGraphsNoRestore(ok) ==
    /\ lock # Free /\ lock.at = "graphs"
    /\ Write(ok)
    /\ IF ok THEN /\ graphs' = [graphs EXCEPT ![lock.doc] = lock.graph]
                  /\ Continue("counts")
             ELSE Unlock /\ UNCHANGED graphs
    /\ UNCHANGED <<docs, index, file, kb>>

\* graphs.replace_document
WriteGraphs(ok) ==
    /\ lock # Free /\ lock.at = "graphs"
    /\ Write(ok)
    /\ IF ok THEN /\ graphs' = [graphs EXCEPT ![lock.doc] = lock.graph]
                  /\ Continue("counts")
                  /\ UNCHANGED <<index, file>>
             ELSE RestoreIndex /\ Unlock /\ UNCHANGED graphs
    /\ UNCHANGED <<docs, kb>>

\* kbs.update_counts of a commit or a deletion.
WriteCounts(ok) ==
    /\ lock # Free /\ lock.at = "counts" /\ lock.op # "edit"
    /\ Write(ok)
    /\ IF ok THEN /\ kb' = Counted(lock.delta, IF lock.op = "delete" THEN -1 ELSE 0)
                  /\ Continue(IF lock.op = "delete" THEN "metadata" ELSE "docs")
                  /\ UNCHANGED <<index, file, graphs>>
             ELSE RestoreGraph /\ RestoreIndex /\ Unlock /\ UNCHANGED kb
    /\ UNCHANGED docs

\* document_metadata.delete
WriteMetadata(ok) ==
    /\ lock # Free /\ lock.at = "metadata"
    /\ Write(ok)
    /\ IF ok THEN Continue("docs") /\ UNCHANGED <<index, file, graphs, kb>>
             ELSE RestoreGraph /\ RestoreCounts(1) /\ RestoreIndex /\ Unlock
    /\ UNCHANGED docs

\* docs.mark_indexed of a commit, docs.delete of a deletion; both refuse a row
\* that has disappeared.
WriteDocs(ok) ==
    /\ lock # Free /\ lock.at = "docs" /\ lock.op # "edit"
    /\ Write(ok)
    /\ LET d == lock.doc
       IN  IF ok /\ Present(d)
           THEN /\ docs' = IF lock.op = "delete" THEN Without(d, "deleted")
                           ELSE [docs EXCEPT ![d].chunks = lock.count]
                /\ UNCHANGED <<index, file, graphs, kb>>
           ELSE /\ RestoreGraph
                /\ RestoreCounts(IF lock.op = "delete" THEN 1 ELSE 0)
                /\ RestoreIndex
                /\ UNCHANGED docs
    /\ Unlock

\* Mutant: a refused row leaves the edited chunks.
WriteEditedDocNoRestore(ok) ==
    /\ lock # Free /\ lock.at = "docs" /\ lock.op = "edit"
    /\ Write(ok)
    /\ IF ok THEN /\ docs' = [docs EXCEPT ![lock.doc].chunks = lock.count]
                  /\ Continue("counts")
             ELSE Unlock /\ UNCHANGED docs
    /\ UNCHANGED <<index, file, graphs, kb>>

\* set_chunk_count of an edit, from the count read before; a row that has
\* disappeared is not missed.
WriteEditedDoc(ok) ==
    /\ lock # Free /\ lock.at = "docs" /\ lock.op = "edit"
    /\ Write(ok)
    /\ LET d == lock.doc
       IN  IF ok THEN /\ docs' = IF Present(d)
                                 THEN [docs EXCEPT ![d].chunks = lock.count]
                                 ELSE docs
                      /\ Continue("counts")
                      /\ UNCHANGED <<index, file>>
                 ELSE RestoreSnapshot /\ Unlock /\ UNCHANGED docs
    /\ UNCHANGED <<graphs, kb>>

\* update_counts of an edit; on failure the row gets the count read before.
WriteEditedCounts(ok) ==
    /\ lock # Free /\ lock.at = "counts" /\ lock.op = "edit"
    /\ Write(ok)
    /\ LET d == lock.doc
       IN  IF ok THEN /\ kb' = Counted(lock.delta, 0)
                      /\ UNCHANGED <<docs, index, file>>
                 ELSE /\ docs' = IF Present(d)
                                 THEN [docs EXCEPT ![d].chunks = req[lock.by].count]
                                 ELSE docs
                      /\ RestoreSnapshot
                      /\ UNCHANGED kb
    /\ Unlock
    /\ UNCHANGED graphs

-----------------------------------------------------------------------------

\* The process ends; the next one loads the files.
Crash ==
    /\ "crash" \in Faults
    /\ index' = file
    /\ lock' = Free
    /\ req' = [h \in Handlers |-> Idle]
    /\ UNCHANGED <<docs, file, graphs, kb>>

Serve(h) ==
    \/ \E d \in Docs : StartUpload(h, d) \/ StartDelete(h, d) \/ StartEdit(h, d)
    \/ \E d \in Docs, kind \in {"reparse", "reset"} : StartRelease(h, d, kind)
    \/ \E ok \in BOOLEAN : UploadCount(h, ok) \/ UploadPush(h, ok)
                             \/ UploadStatus(h, ok) \/ Release(h, ok) \/ Zero(h, ok)
    \/ UploadCancel(h) \/ UploadRemove(h) \/ UploadUndo(h)
    \/ \E delta \in -MaxChunks..1, counted \in BOOLEAN : ReadIndex(h, delta, counted)
    \/ DropEdit(h)

Enter ==
    \/ \E d \in Docs, n \in 0..MaxChunks, graph \in BOOLEAN : LockCommit(d, n, graph)
    \/ \E h \in Handlers : LockDelete(h) \/ LockEdit(h) \/ LockReset(h)

Proceed ==
    \/ \E result \in {"ok"} \cup (Faults \ {"crash"}) : WriteIndex(result)
    \/ \E ok \in BOOLEAN :
          \/ WriteGraphs(ok) \/ WriteCounts(ok) \/ WriteMetadata(ok) \/ WriteDocs(ok)
          \/ WriteEditedDoc(ok) \/ WriteEditedCounts(ok)

Next ==
    \/ \E h \in Handlers : Serve(h)
    \/ \E d \in Docs : Requeue(d)
    \/ Enter
    \/ Proceed
    \/ Crash

Spec == Init /\ [][Next]_vars

-----------------------------------------------------------------------------
(* Properties *)

\* Every variable has its type.
TypeOK ==
    /\ docs \in [Docs -> [state : DocState, chunks : Nat]]
    /\ index \in [Docs -> Nat]
    /\ file \in [Docs -> Nat]
    /\ graphs \in [Docs -> BOOLEAN]
    /\ kb \in [chunks : Nat, docs : Nat]
    /\ lock \in Locked \cup {Free}
    /\ req \in [Handlers -> Request \cup {Idle}]

Quiet == lock = Free /\ \A h \in Handlers : req[h] = Idle

\* Between operations the chunk total of the knowledge base is the number of its
\* chunks in the index, after any mix of uploads, commits and deletions of which
\* any write failed and was undone, with edits in between.  An upload that is
\* undone after its document was committed leaves both alone.
TotalsAgree == Quiet => kb.chunks = SumFunction(index)

\* Between operations every row counts the chunks the index has of it, and no
\* chunk is without a row but those of uploads undone after the commit.  While
\* no one writes, the index file holds what is searched.
IndexAgrees ==
    /\ Quiet => \A d \in Docs :
          docs[d].state # "undone" => docs[d].chunks = index[d]
    /\ lock = Free => file = index

\* A deleted document has no chunk left to be found and no graph, whatever
\* parse of it was still going, and after any crash.
NoOrphans ==
    \A d \in Docs : docs[d].state = "deleted" =>
        index[d] = 0 /\ file[d] = 0 /\ ~graphs[d]

\* A commit or deletion that does not complete puts back the index, its file,
\* the graph and the row of the document.
AllOrNothing ==
    [][lock # Free /\ lock.op \in {"commit", "delete"} /\ lock' = Free =>
         LET d == lock.doc
         IN  \/ /\ index' = lock.new /\ file' = lock.new
                /\ graphs'[d] = lock.graph
                /\ docs'[d].chunks = lock.count
                /\ lock.op = "delete" => docs'[d].state = "deleted"
             \/ /\ index' = lock.prev /\ file' = lock.prev
                /\ graphs'[d] = lock.prevGraph
                /\ docs' = docs]_vars

=============================================================================

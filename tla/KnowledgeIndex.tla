--------------------------- MODULE KnowledgeIndex ---------------------------
(***************************************************************************)
(* Requests that index the same document at the same time                  *)
(* (index_knowledge_document).  Each is one transaction: read the          *)
(* document, chunk and embed, DELETE the old chunks, INSERT the new ones   *)
(* in the order of ordinals, mark the document, commit.  Nothing locks     *)
(* the document while it is read; what orders the transactions is how      *)
(* PostgreSQL runs READ COMMITTED statements:                              *)
(*   - a DELETE removes what was committed when it started, waits for      *)
(*     rows that another transaction is deleting and skips those that are  *)
(*     gone when the wait is over;                                         *)
(*   - an INSERT waits while another transaction has inserted or deleted,  *)
(*     and not yet committed, a row with the same (document_id, ordinal),  *)
(*     and fails when a committed one remains.                             *)
(* The text of a document is immutable, so every request cuts the chunks   *)
(* that Chunking cuts once here: a chunk is its ordinal and the request    *)
(* that made it, and requests differ in chunk ids alone.                   *)
(***************************************************************************)
EXTENDS Chunking, FiniteSets

CONSTANTS
    Indexers,       \* requests, each used once
    IndexedTexts    \* bound of the model: texts that requests may index

VARIABLES
    rows,      \* committed chunks
    status,    \* committed status of the document
    txn        \* the transaction of each request

vars == <<textVars, rows, status, txn>>

Chunks == [by : Indexers, ordinal : 0..(MAX_DOCUMENT_CHUNKS - 1)]

\* What request r inserts: the chunks of the text, numbered from zero.
Ordinals == 0..(Len(chunks) - 1)
ChunksOf(r) == [by : {r}, ordinal : Ordinals]

Places == {"idle", "embed", "delete", "wait", "insert", "mark", "commit",
           "indexed", "failed"}
Open == Places \ {"idle", "indexed", "failed"}

NoTxn == [at |-> "idle", snapshot |-> {}, deleted |-> {}, inserted |-> {}]

TypeOK ==
    /\ rows \subseteq Chunks
    /\ status \in {"PARSED", "INDEXED"}
    /\ txn \in [Indexers -> [at : Places, snapshot : SUBSET Chunks,
                             deleted : SUBSET Chunks, inserted : SUBSET Chunks]]

Init ==
    /\ TextInit
    /\ rows = {}
    /\ status = "PARSED"
    /\ txn = [r \in Indexers |-> NoTxn]

-----------------------------------------------------------------------------
Goto(r, place) == txn' = [txn EXCEPT ![r].at = place]

Explored == phase = "chunked" /\ parts \in IndexedTexts

\* get_owned_by_id and chunk_document_text.
Begin(r) ==
    /\ Explored
    /\ txn[r].at = "idle"
    /\ Goto(r, "embed")
    /\ UNCHANGED <<textVars, rows, status>>

\* The embedding provider answers and its vectors are valid.
Embed(r) ==
    /\ txn[r].at = "embed"
    /\ Goto(r, "delete")
    /\ UNCHANGED <<textVars, rows, status>>

\* replace_owned's DELETE starts with a snapshot,
StartDelete(r) ==
    /\ txn[r].at = "delete"
    /\ txn' = [txn EXCEPT ![r].at = "wait", ![r].snapshot = rows]
    /\ UNCHANGED <<textVars, rows, status>>

LockedByOther(r, chunk) == \E q \in Indexers \ {r} : chunk \in txn[q].deleted

\* and ends once no row of it is locked.
EndDelete(r) ==
    /\ txn[r].at = "wait"
    /\ \A chunk \in txn[r].snapshot : ~LockedByOther(r, chunk)
    /\ txn' = [txn EXCEPT ![r].at = "insert",
                          ![r].deleted = txn[r].snapshot \cap rows]
    /\ UNCHANGED <<textVars, rows, status>>

\* Rows of other transactions, or committed, that hold an ordinal.
InFlight(r, ordinal) ==
    \E q \in Indexers \ {r} : \E chunk \in txn[q].inserted \cup txn[q].deleted :
        chunk.ordinal = ordinal
Conflict(r, ordinal) ==
    \E chunk \in rows \ txn[r].deleted : chunk.ordinal = ordinal

Inserted(r) == {chunk.ordinal : chunk \in txn[r].inserted}

NextOrdinal(r) == Cardinality(txn[r].inserted)

Put(r, ordinal) ==
    LET inserted == txn[r].inserted \cup {[by |-> r, ordinal |-> ordinal]}
    IN  /\ txn' = [txn EXCEPT ![r].inserted = inserted,
                   ![r].at = IF inserted = ChunksOf(r) THEN "mark" ELSE "insert"]
        /\ UNCHANGED <<textVars, rows, status>>

\* Mutant: no unique constraint on (document_id, ordinal).
InsertUnconstrained(r) ==
    /\ txn[r].at = "insert"
    /\ Put(r, NextOrdinal(r))

\* Mutant: the rows are sent in no particular order.
InsertAnyOrder(r) ==
    /\ txn[r].at = "insert"
    /\ \E ordinal \in Ordinals \ Inserted(r) :
          /\ ~InFlight(r, ordinal)
          /\ ~Conflict(r, ordinal)
          /\ Put(r, ordinal)

\* replace_owned's flush: one row.
Insert(r) ==
    /\ txn[r].at = "insert"
    /\ ~InFlight(r, NextOrdinal(r))
    /\ ~Conflict(r, NextOrdinal(r))
    /\ Put(r, NextOrdinal(r))

\* mark_indexed: waits for another transaction's UPDATE of the document.
Mark(r) ==
    /\ txn[r].at = "mark"
    /\ \A q \in Indexers : txn[q].at # "commit"
    /\ Goto(r, "commit")
    /\ UNCHANGED <<textVars, rows, status>>

End(r, place) == txn' = [txn EXCEPT ![r] = [NoTxn EXCEPT !.at = place]]

Commit(r) ==
    /\ txn[r].at = "commit"
    /\ rows' = (rows \ txn[r].deleted) \cup txn[r].inserted
    /\ status' = "INDEXED"
    /\ End(r, "indexed")
    /\ UNCHANGED textVars

\* The unique constraint refuses a row: IntegrityError, rolled back.
Refused(r) ==
    /\ txn[r].at = "insert"
    /\ ~InFlight(r, NextOrdinal(r))
    /\ Conflict(r, NextOrdinal(r))
    /\ End(r, "failed")
    /\ UNCHANGED <<textVars, rows, status>>

\* No such document, too many chunks, a failed embedding, a lost connection.
Abort(r) ==
    /\ txn[r].at \in Open
    /\ End(r, "failed")
    /\ UNCHANGED <<textVars, rows, status>>

Step(r) ==
    \/ Begin(r) \/ Embed(r) \/ StartDelete(r) \/ EndDelete(r) \/ Insert(r)
    \/ Mark(r) \/ Commit(r) \/ Refused(r)

Terminated ==
    /\ phase \in TextEnded
    /\ Explored => \A r \in Indexers : txn[r].at \in {"indexed", "failed"}
    /\ UNCHANGED vars

Next ==
    \/ TextNext /\ UNCHANGED <<rows, status, txn>>
    \/ \E r \in Indexers : Step(r) \/ Abort(r)
    \/ Terminated

\* A running request takes its next step once the database lets it.
Spec == Init /\ [][Next]_vars /\ \A r \in Indexers : WF_vars(Step(r))

-----------------------------------------------------------------------------
(***************************************************************************)
(* Properties.                                                             *)
(***************************************************************************)

\* Whoever reads the chunks finds none, and the document PARSED, or those of
\* one request, one for every chunk of the text, and the document INDEXED.
IndexIsWhole ==
    \/ rows = {} /\ status = "PARSED"
    \/ status = "INDEXED" /\ \E r \in Indexers : rows = ChunksOf(r)

\* Requests that wait for each other's rows do so in one direction: each of
\* them returns, without help from a timeout or a deadlock detector.
IndexersReturn ==
    \A r \in Indexers : txn[r].at \in Open ~> txn[r].at \in {"indexed", "failed"}

=============================================================================

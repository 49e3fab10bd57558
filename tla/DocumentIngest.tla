--------------------------- MODULE DocumentIngest ---------------------------
(***************************************************************************)
(* Document upload and retrieval: api/v1/documents.py and search.py over   *)
(* services/document_service.py, services/storage_service.py, the          *)
(* in-process vector store (ai/vector_store.py) and the two agents that    *)
(* read it (agents/retrieval.py, agents/compliance.py).                    *)
(*                                                                         *)
(* An upload writes three stores one after the other: a file in the local  *)
(* object directory, rows in the database, records in the index of the     *)
(* process that serves it.  Only the rows are undone when the request      *)
(* fails, and only the index is lost when the process ends.  The processes *)
(* of one host share the directory and the database; each has an index of  *)
(* its own (api/state.py).                                                 *)
(*                                                                         *)
(* An upload creates at most one document, so a document is named by the   *)
(* request that creates it, and a chunk by its document and its place.     *)
(* The answer to an upload leaves after its commit or, with a newer web    *)
(* framework, before it (AnswerFirst, as in WorkflowService).              *)
(***************************************************************************)
EXTENDS Chunking, FiniteSets, Rbac

CONSTANTS
  Uploads,      \* the upload requests
  Processes,    \* the API processes
  Bodies,       \* the distinct file contents (a digest tells them apart)
  WordsIn,      \* WordsIn[b]: the words of body b, read as text
  Oversize,     \* the bodies above _MAX_BYTES
  Filenames,    \* bound: the names uploads carry, as path components
  CallerRoles,  \* bound: the role sets of the callers
  TopK,         \* bound: how many hits a query asks for
  AnswerFirst,  \* whether the web framework answers before session_dep commits
  Nothing       \* no process, no object, no body

ASSUME IngestAssumption ==
  /\ WordsIn \in [Bodies -> Nat]
  /\ Oversize \subseteq Bodies
  /\ \A f \in Filenames : f \in Seq(STRING)
  /\ TopK \subseteq Nat \ {0}
  /\ AnswerFirst \in BOOLEAN
  /\ Nothing \notin Bodies \cup Processes

VARIABLES
  objects,    \* objects[k]: what the file at key k holds
  documents,  \* table: documents[u] is the row of the document of upload u
  chunks,     \* tables document_chunks and embeddings_metadata, one to one
  audit,      \* the uploads with a document.uploaded entry
  index,      \* index[p]: the records of process p's vector store
  stage,      \* stage[u]: how far the upload's handler has got
  fate,       \* fate[u]: what became of its transaction
  answer,     \* answer[u]: what its caller has been told
  req,        \* req[u]: what the handler of upload u holds
  reply       \* the last answer of the search or compliance service

tables == <<documents, chunks, audit>>
handler == <<stage, fate, answer, req>>
vars == <<objects, documents, chunks, audit, index, stage, fate, answer, req,
          reply>>

-----------------------------------------------------------------------------
(* Path(filename).name or "file": the last component of the name.          *)
SafeName(f) == IF f = <<>> THEN "file" ELSE f[Len(f)]

(* content_key: <sha256>/<filename>                                        *)
content_key_NameOnly(f, b) ==  \* variant: the digest is left out
  [body |-> CHOOSE c \in Bodies : TRUE, name |-> SafeName(f)]
content_key(f, b) == [body |-> b, name |-> SafeName(f)]

Key == [body : Bodies, name : {SafeName(f) : f \in Filenames}]

Torn == "torn"   \* opened for writing, and truncated, but not yet written

NoKey == [body |-> Nothing, name |-> "none"]
NoDocument == [status |-> "absent", storage_key |-> NoKey]
NoRequest == [process |-> Nothing, body |-> Nothing, key |-> NoKey,
              textual |-> FALSE, windows |-> <<>>]

WindowRow == [from : Nat, upto : Nat]

DocumentRow ==
  [status : {"processed", "needs_review"}, storage_key : Key] \cup {NoDocument}

Stages == {"received", "writing", "stored", "flushed", "indexed"}

TypeOK ==
  /\ objects \in [Key -> Bodies \cup {Nothing, Torn}]
  /\ documents \in [Uploads -> DocumentRow]
  /\ chunks \in [Uploads -> Seq(WindowRow)]
  /\ audit \subseteq Uploads
  /\ index \in [Processes -> SUBSET (Uploads \X (Nat \ {0}))]
  /\ stage \in [Uploads -> {"new"} \cup Stages]
  /\ fate \in [Uploads -> {"open", "refused", "rolledback", "committed"}]
  /\ answer \in [Uploads -> {"none", "created", "forbidden", "invalid", "failed"}]
  /\ req \in [Uploads -> [process : Processes \cup {Nothing},
                          body : Bodies \cup {Nothing}, key : Key \cup {NoKey},
                          textual : BOOLEAN, windows : Seq(WindowRow)]]
  /\ reply \in [process : Processes \cup {Nothing}, grounded : BOOLEAN,
                hits : SUBSET (Uploads \X (Nat \ {0}))]

Init ==
  /\ objects = [k \in Key |-> Nothing]
  /\ documents = [u \in Uploads |-> NoDocument]
  /\ chunks = [u \in Uploads |-> <<>>]
  /\ audit = {}
  /\ index = [p \in Processes |-> {}]
  /\ stage = [u \in Uploads |-> "new"]
  /\ fate = [u \in Uploads |-> "open"]
  /\ answer = [u \in Uploads |-> "none"]
  /\ req = [u \in Uploads |-> NoRequest]
  /\ reply = [process |-> Nothing, grounded |-> TRUE, hits |-> {}]

-----------------------------------------------------------------------------
(* POST /documents/upload                                                  *)

Live(u) == fate[u] = "open" /\ stage[u] # "new"

(* put is written without an await: while it runs, its process serves      *)
(* nothing else.                                                           *)
Idle(p) == \A v \in Uploads :
             fate[v] = "open" /\ req[v].process = p => stage[v] # "writing"

At(u, s) == /\ fate[u] = "open"
            /\ stage[u] = s
            /\ s = "writing" \/ Idle(req[u].process)

Advance(u, s) == stage' = [stage EXCEPT ![u] = s]

Receive(u) ==
  \E p \in Processes, f \in Filenames, b \in Bodies \ Oversize,
     textual \in BOOLEAN, roles \in CallerRoles :
    /\ fate[u] = "open" /\ stage[u] = "new" /\ Idle(p)
    /\ "document:upload" \in PermissionsForRoles(roles)
    /\ Advance(u, "received")
    /\ req' = [req EXCEPT ![u] = [process |-> p, body |-> b,
                                  key |-> content_key(f, b),
                                  textual |-> textual, windows |-> <<>>]]
    /\ UNCHANGED <<objects, tables, index, fate, answer, reply>>

(* 403 without the permission, 422 for a file above the ceiling: nothing   *)
(* has been stored yet.                                                    *)
RefuseUpload(u) ==
  /\ fate[u] = "open" /\ stage[u] = "new"
  /\ \E roles \in CallerRoles, b \in Bodies :
       LET may == "document:upload" \in PermissionsForRoles(roles) IN
       /\ may => b \in Oversize
       /\ answer' = [answer EXCEPT ![u] = IF may THEN "invalid" ELSE "forbidden"]
  /\ fate' = [fate EXCEPT ![u] = "refused"]
  /\ UNCHANGED <<objects, tables, index, stage, req, reply>>

(* LocalFileStorage.put, write_bytes: the file is opened and truncated,    *)
(* then written.                                                           *)
OpenObject(u) ==
  /\ At(u, "received")
  /\ objects' = [objects EXCEPT ![req[u].key] = Torn]
  /\ Advance(u, "writing")
  /\ UNCHANGED <<tables, index, fate, answer, req, reply>>

WriteObject(u) ==
  /\ At(u, "writing")
  /\ objects' = [objects EXCEPT ![req[u].key] = req[u].body]
  /\ Advance(u, "stored")
  /\ UNCHANGED <<tables, index, fate, answer, req, reply>>

(* _decode_text: only text, JSON and XML are read; the rest is left to a   *)
(* reviewer.                                                               *)
WordsExtracted(u) == IF req[u].textual THEN WordsIn[req[u].body] ELSE 0

(* The PROCESSING row, then a chunk row and an embedding row for every     *)
(* window: all this transaction's own.                                     *)
FlushRowsIndexing(u) ==  \* variant: chunks are indexed as they are flushed
  LET w == chunk_text(WordsExtracted(u)) IN
  /\ At(u, "stored")
  /\ req' = [req EXCEPT ![u].windows = w]
  /\ index' = [index EXCEPT ![req[u].process] = @ \cup ({u} \X (1 .. Len(w)))]
  /\ Advance(u, "flushed")
  /\ UNCHANGED <<objects, tables, fate, answer, reply>>
FlushRows(u) ==
  /\ At(u, "stored")
  /\ req' = [req EXCEPT ![u].windows = chunk_text(WordsExtracted(u))]
  /\ Advance(u, "flushed")
  /\ UNCHANGED <<objects, tables, index, fate, answer, reply>>

Records(u) == {u} \X (1 .. Len(req[u].windows))

(* upsert, then the final status and the audit entry, flushed and not yet  *)
(* committed.                                                              *)
IndexChunksOfLast(u) ==  \* variant: the index keeps one document
  /\ At(u, "flushed")
  /\ index' = [index EXCEPT ![req[u].process] = Records(u)]
  /\ Advance(u, "indexed")
  /\ UNCHANGED <<objects, tables, fate, answer, req, reply>>
IndexChunks(u) ==
  /\ At(u, "flushed")
  /\ index' = [index EXCEPT ![req[u].process] = @ \cup Records(u)]
  /\ Advance(u, "indexed")
  /\ UNCHANGED <<objects, tables, fate, answer, req, reply>>

StatusLeftAlone(u) == "processing"  \* variant: the status of the first flush
StatusByType(u) == IF req[u].textual THEN "processed" ELSE "needs_review"  \* variant
FinalStatus(u) == IF req[u].windows # <<>> THEN "processed" ELSE "needs_review"

Commit(u) ==
  /\ At(u, "indexed")
  /\ AnswerFirst => answer[u] = "created"
  /\ documents' = [documents EXCEPT ![u] = [status |-> FinalStatus(u),
                                            storage_key |-> req[u].key]]
  /\ chunks' = [chunks EXCEPT ![u] = req[u].windows]
  /\ audit' = audit \cup {u}
  /\ fate' = [fate EXCEPT ![u] = "committed"]
  /\ UNCHANGED <<objects, index, stage, answer, req, reply>>

Respond(u) ==
  /\ IF AnswerFirst THEN At(u, "indexed")
                    ELSE fate[u] = "committed" /\ Idle(req[u].process)
  /\ answer[u] = "none"
  /\ answer' = [answer EXCEPT ![u] = "created"]
  /\ UNCHANGED <<objects, tables, index, stage, fate, req, reply>>

(* put, a statement or the commit fails.  session_dep rolls the rows back; *)
(* the object and the index keep what they have, and a caller who has been *)
(* answered keeps the answer.                                              *)
Rollback(u) ==
  /\ Live(u)
  /\ stage[u] = "writing" \/ Idle(req[u].process)
  /\ fate' = [fate EXCEPT ![u] = "rolledback"]
  /\ answer' = [answer EXCEPT ![u] = IF @ = "none" THEN "failed" ELSE @]
  /\ UNCHANGED <<objects, tables, index, stage, req, reply>>

(* The process ends, at any point, and is started again: its index is      *)
(* gone, its requests with it, the callers it has not answered get an      *)
(* error.                                                                  *)
Restart(p) ==
  LET served == {u \in Uploads : req[u].process = p} IN
  /\ served # {} \/ index[p] # {}
  /\ index' = [index EXCEPT ![p] = {}]
  /\ req' = [u \in Uploads |-> IF u \in served
                               THEN [req[u] EXCEPT !.process = Nothing]
                               ELSE req[u]]
  /\ fate' = [u \in Uploads |-> IF u \in served /\ Live(u) THEN "rolledback"
                                                          ELSE fate[u]]
  /\ answer' = [u \in Uploads |-> IF u \in served /\ answer[u] = "none"
                                  THEN "failed" ELSE answer[u]]
  /\ UNCHANGED <<objects, tables, stage, reply>>

-----------------------------------------------------------------------------
(* GET /search, and the compliance agent of a workflow                     *)

(* InMemoryVectorStore.query: the top_k best of ALL records, however       *)
(* little they resemble the query.                                         *)
BestAboveFloor(p, k) ==  \* variant: poor matches are dropped
  {h \in SUBSET index[p] : Cardinality(h) <= k}
Best(p, k) == {h \in SUBSET index[p] :
                 Cardinality(h) = IF k < Cardinality(index[p])
                                  THEN k ELSE Cardinality(index[p])}

Search(p) ==
  /\ Idle(p)
  /\ \E k \in TopK, roles \in CallerRoles :
       /\ "search:read" \in PermissionsForRoles(roles)
       /\ \E h \in Best(p, k) :
            reply' = [process |-> p, grounded |-> TRUE, hits |-> h]
  /\ UNCHANGED <<objects, tables, index, handler>>

(* ComplianceAgent.run: every hit becomes a citation; without one it says  *)
(* that it has no basis.                                                   *)
Comply(p) ==
  /\ Idle(p)
  /\ \E k \in TopK : \E h \in Best(p, k) :
       reply' = [process |-> p, grounded |-> h # {}, hits |-> h]
  /\ UNCHANGED <<objects, tables, index, handler>>

-----------------------------------------------------------------------------
Ingest(u) == \/ OpenObject(u) \/ WriteObject(u) \/ FlushRows(u)
             \/ IndexChunks(u) \/ Commit(u) \/ Respond(u)

Next ==
  \/ \E u \in Uploads :
       Receive(u) \/ RefuseUpload(u) \/ Ingest(u) \/ Rollback(u)
  \/ \E p \in Processes : Restart(p) \/ Search(p) \/ Comply(p)

Spec == Init /\ [][Next]_vars

-----------------------------------------------------------------------------
(* Properties.                                                             *)

(* The file a committed row points at is there and holds what was          *)
(* uploaded, though other uploads write the same key and processes die:    *)
(* put comes before the commit, and keys are content-addressed.  The one   *)
(* exception is a second upload of the same content under the same name    *)
(* that is writing the file, or died or failed while writing it            *)
(* (LocalFileStorage.put truncates first).                                 *)
ObjectKept ==
  \A u \in Uploads : fate[u] = "committed" =>
    LET k == documents[u].storage_key IN
    \/ objects[k] = req[u].body
    \/ /\ objects[k] = Torn
       /\ \E v \in Uploads \ {u} : /\ req[v].key = k
                                   /\ stage[v] = "writing"
                                   /\ fate[v] \in {"open", "rolledback"}

(* A document is whole or absent, whatever failed on the way: a committed  *)
(* row has its audit entry, is processed exactly when it has chunks, and   *)
(* nothing of an upload that did not commit is in the tables.  What its    *)
(* caller is told may be wrong in one way only, which the order of the     *)
(* answer and the commit decides: told first, nobody is told of a failure  *)
(* whose document exists; told last, nobody is told of a document that     *)
(* does not (DocumentService.ingest, upload_document, session_dep).        *)
DocumentWhole ==
  \A u \in Uploads :
    /\ fate[u] = "committed" <=> documents[u] # NoDocument
    /\ fate[u] = "committed" <=> u \in audit
    /\ documents[u].status = "processed" <=> chunks[u] # <<>>
    /\ IF AnswerFirst THEN answer[u] = "failed" => fate[u] # "committed"
                      ELSE answer[u] = "created" => fate[u] = "committed"

(* Overlap is there so that a phrase is never cut by a chunk boundary: the *)
(* words of every phrase of at most ChunkOverlap + 1 words of a processed  *)
(* text are together in one chunk, and no chunk lies inside the one before *)
(* (chunk_text).                                                           *)
PhrasesSurvive ==
  \A u \in Uploads : chunks[u] # <<>> =>
    LET n == WordsIn[req[u].body]
        w == chunks[u] IN
    /\ \A p \in 0 .. n - 1 : \A q \in p .. p + ChunkOverlap :
         q < n => \E i \in 1 .. Len(w) : w[i].from <= p /\ q < w[i].upto
    /\ \A i \in 1 .. Len(w) - 1 : w[i].upto < w[i + 1].upto

(* A processed document can be found, by the process that took it and for  *)
(* as long as that process lives: all its chunks are in that index, and in *)
(* no other (InMemoryVectorStore is neither shared nor rebuilt).           *)
IndexedWhileServing ==
  \A u \in Uploads, p \in Processes :
    fate[u] = "committed" =>
      index[p] \cap ({u} \X Nat) =
        IF req[u].process = p THEN {u} \X (1 .. Len(chunks[u])) ELSE {}

(* A record without a document is explained: whatever a search may return  *)
(* is a chunk of a committed document, or of an upload that filled the     *)
(* index and has not committed yet, or failed to.                          *)
GhostsExplained ==
  \A p \in Processes : \A r \in index[p] :
    \/ documents[r[1]].status = "processed"
    \/ stage[r[1]] = "indexed" /\ fate[r[1]] \in {"open", "rolledback"}

(* The compliance agent says that it found nothing only where its process  *)
(* has taken no processed document since it started: a grounded answer is  *)
(* never missed for want of a better match, nor is one ever withheld for a *)
(* poor one (ComplianceAgent.run, InMemoryVectorStore.query).              *)
NothingFoundMeansNone ==
  [][reply' # reply /\ ~reply'.grounded =>
       \A u \in Uploads : documents[u].status = "processed" =>
         req[u].process # reply'.process]_vars

=============================================================================

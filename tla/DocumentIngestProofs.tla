------------------------- MODULE DocumentIngestProofs -------------------------
(***************************************************************************)
(* Documents stay whole in the three stores an upload writes, and phrases  *)
(* survive chunking, for every set of uploads, processes and bodies and    *)
(* texts of any length.                                                    *)
(***************************************************************************)
EXTENDS DocumentIngest, FiniteSetTheorems, WellFoundedInduction, TLAPS

-----------------------------------------------------------------------------
(* Chunking.                                                               *)

LEMMA LeastNumber ==
  ASSUME NEW T \in SUBSET Nat, T # {}
  PROVE  \E x \in T : \A y \in T : x <= y
<1>1. PICK x \in T : \A y \in T : ~(<<y, x>> \in OpToRel(<, Nat))
  BY NatLessThanWellFounded, WFMin
<1>2. \A y \in T : ~(y < x)
  BY <1>1 DEF OpToRel
<1> QED
  BY <1>2

LEMMA StrideValues ==
  /\ Stride \in Nat /\ Stride >= 1
  /\ ChunkOverlap < ChunkSize => Stride = ChunkSize - ChunkOverlap
BY ChunkAssumption DEF Stride

LEMMA WindowStart ==
  ASSUME NEW k \in Nat
  PROVE  /\ k * Stride \in Nat
         /\ k * Stride >= k
         /\ (k + 1) * Stride = k * Stride + Stride
BY StrideValues

(* The loop of chunk_text ends, at the first window that reaches the end.  *)
LEMMA LastWindowIsFirst ==
  ASSUME NEW n \in Nat \ {0}
  PROVE  /\ LastWindow(n) \in 0 .. n
         /\ LastWindow(n) * Stride + ChunkSize >= n
         /\ \A j \in 0 .. LastWindow(n) - 1 : j * Stride + ChunkSize < n
<1> USE ChunkAssumption
<1> DEFINE T == {k \in Nat : k * Stride + ChunkSize >= n}
<1>1. n \in T
  BY WindowStart
<1>2. PICK k \in T : \A j \in T : k <= j
  BY <1>1, LeastNumber
<1>3. k \in 0 .. n /\ k * Stride + ChunkSize >= n
  BY <1>1, <1>2
<1>4. ASSUME NEW j \in 0 .. k - 1 PROVE j * Stride + ChunkSize < n
  BY <1>2, <1>4, WindowStart
<1> QED
  BY <1>3, <1>4 DEF LastWindow

LEMMA ChunkWindows ==
  ASSUME NEW n \in Nat \ {0}
  PROVE  /\ Len(chunk_text(n)) = LastWindow(n) + 1
         /\ \A i \in 1 .. LastWindow(n) + 1 :
              /\ chunk_text(n)[i] = Window(n, i - 1)
              /\ chunk_text(n)[i] \in WindowRow
         /\ chunk_text(n) \in Seq(WindowRow)
<1> USE ChunkAssumption
<1>1. LastWindow(n) \in Nat
  BY LastWindowIsFirst
<1>2. ASSUME NEW i \in 1 .. LastWindow(n) + 1 PROVE Window(n, i - 1) \in WindowRow
  <2>1. i - 1 \in Nat
    BY <1>1
  <2> QED
    BY <2>1, WindowStart DEF Window, WindowRow
<1>3. chunk_text(n) = [i \in 1 .. LastWindow(n) + 1 |-> Window(n, i - 1)]
  BY DEF chunk_text
<1> QED
  BY <1>1, <1>2, <1>3

LEMMA ChunksTyped ==
  ASSUME NEW n \in Nat
  PROVE  /\ chunk_text(n) \in Seq(WindowRow)
         /\ chunk_text(n) = <<>> <=> n = 0
<1>1. CASE n = 0
  BY <1>1 DEF chunk_text
<1>2. CASE n # 0
  <2>1. n \in Nat \ {0}
    BY <1>2
  <2>2. Len(chunk_text(n)) >= 1 /\ chunk_text(n) \in Seq(WindowRow)
    BY <2>1, ChunkWindows, LastWindowIsFirst
  <2> QED
    BY <1>2, <2>2
<1> QED
  BY <1>1, <1>2

(* A phrase no longer than the overlap and one word more lies within the   *)
(* first window that reaches beyond its last word.                         *)
LEMMA PhraseInWindow ==
  ASSUME ChunkOverlap < ChunkSize, NEW n \in Nat \ {0},
         NEW p \in 0 .. n - 1, NEW q \in p .. p + ChunkOverlap, q < n
  PROVE  \E i \in 1 .. Len(chunk_text(n)) :
           chunk_text(n)[i].from <= p /\ q < chunk_text(n)[i].upto
<1> USE ChunkAssumption
<1> DEFINE last == LastWindow(n)
           T == {k \in Nat : q < k * Stride + ChunkSize}
<1>1. last \in Nat /\ last * Stride + ChunkSize >= n
  BY LastWindowIsFirst
<1>2. last \in T
  <2>1. last * Stride \in Nat
    BY <1>1, WindowStart
  <2> QED
    BY <1>1, <2>1
<1>3. PICK k \in T : \A j \in T : k <= j
  BY <1>2, LeastNumber
<1>4. k \in Nat /\ k <= last /\ k * Stride \in Nat
  BY <1>2, <1>3, WindowStart
<1>5. k * Stride <= p
  <2>1. CASE k = 0
    BY <2>1, StrideValues
  <2>2. CASE k # 0
    <3>1. k - 1 \in Nat /\ k - 1 \notin T
      BY <1>3, <1>4, <2>2
    <3> DEFINE start == (k - 1) * Stride
    <3>2. start \in Nat /\ k * Stride = start + Stride
      BY <3>1, <1>4, WindowStart
    <3>3. ~(q < start + ChunkSize)
      BY <3>1
    <3> HIDE DEF start
    <3> QED
      BY <3>2, <3>3, StrideValues
  <2> QED
    BY <2>1, <2>2
<1>6. /\ k + 1 \in 1 .. last + 1
      /\ Len(chunk_text(n)) = last + 1
      /\ chunk_text(n)[k + 1] = Window(n, k)
  <2>1. k + 1 \in 1 .. last + 1 /\ (k + 1) - 1 = k
    BY <1>1, <1>4
  <2> QED
    BY <2>1, ChunkWindows
<1>7. Window(n, k).from <= p /\ q < Window(n, k).upto
  BY <1>3, <1>4, <1>5 DEF Window
<1> QED
  BY <1>6, <1>7

(* Each window but the first reaches beyond the one before.                *)
LEMMA WindowsAdvance ==
  ASSUME NEW n \in Nat \ {0}, NEW i \in 1 .. Len(chunk_text(n)) - 1
  PROVE  chunk_text(n)[i].upto < chunk_text(n)[i + 1].upto
<1> USE ChunkAssumption
<1> DEFINE last == LastWindow(n)
           here == (i - 1) * Stride
<1>1. last \in Nat /\ Len(chunk_text(n)) = last + 1
  BY LastWindowIsFirst, ChunkWindows
<1>2. /\ i \in 1 .. last + 1 /\ i + 1 \in 1 .. last + 1
      /\ i - 1 \in Nat /\ i - 1 \in 0 .. last - 1 /\ (i + 1) - 1 = (i - 1) + 1
  BY <1>1
<1>3. /\ chunk_text(n)[i] = Window(n, i - 1)
      /\ chunk_text(n)[i + 1] = Window(n, (i - 1) + 1)
  BY <1>2, ChunkWindows
<1>4. /\ here \in Nat /\ ((i - 1) + 1) * Stride = here + Stride
      /\ here + ChunkSize < n
  BY <1>2, WindowStart, LastWindowIsFirst
<1>5. /\ Window(n, i - 1).upto = here + ChunkSize
      /\ Window(n, (i - 1) + 1).upto = IF here + Stride + ChunkSize < n
                                       THEN here + Stride + ChunkSize ELSE n
  BY <1>4 DEF Window
<1> HIDE DEF here
<1> QED
  BY <1>3, <1>4, <1>5, StrideValues

-----------------------------------------------------------------------------
(* The inductive invariant.                                                *)

(* What a handler holds, by how far it has got.                            *)
RequestOK(u) ==
  /\ stage[u] = "new" => req[u] = NoRequest /\ fate[u] \in {"open", "refused"}
  /\ stage[u] # "new" => /\ fate[u] # "refused"
                         /\ req[u].body \in Bodies
                         /\ req[u].key \in Key
                         /\ req[u].key.body = req[u].body
  /\ Live(u) => req[u].process \in Processes
  /\ stage[u] \in {"flushed", "indexed"} =>
       req[u].windows = chunk_text(WordsExtracted(u))
  /\ fate[u] = "committed" => stage[u] = "indexed"
  /\ IF AnswerFirst THEN fate[u] = "committed" => answer[u] = "created"
                    ELSE answer[u] = "created" => fate[u] = "committed"

(* The tables hold the rows of the uploads that committed, and no others.  *)
RowsOK(u) ==
  /\ fate[u] = "committed" => /\ documents[u].status = FinalStatus(u)
                              /\ documents[u].storage_key = req[u].key
  /\ fate[u] # "committed" => documents[u] = NoDocument
  /\ chunks[u] = IF fate[u] = "committed" THEN req[u].windows ELSE <<>>
  /\ u \in audit <=> fate[u] = "committed"

(* An index holds the records of the uploads that its process has brought  *)
(* that far since it was started.                                          *)
IndexOK(p, u) ==
  index[p] \cap ({u} \X Nat) =
    IF stage[u] = "indexed" /\ req[u].process = p THEN Records(u) ELSE {}

(* A stored file holds the body its key names, unless somebody stopped     *)
(* while writing it again.                                                 *)
WrittenAgain(k) == \E v \in Uploads : req[v].key = k /\ stage[v] = "writing"

Kept(k) == objects[k] = k.body \/ (objects[k] = Torn /\ WrittenAgain(k))

ObjectOK(u) ==
  stage[u] \in {"stored", "flushed", "indexed"} => Kept(req[u].key)

IngestInv ==
  /\ TypeOK
  /\ \A u \in Uploads : RequestOK(u) /\ RowsOK(u) /\ ObjectOK(u)
  /\ \A p \in Processes : IsFiniteSet(index[p])
  /\ \A p \in Processes, u \in Uploads : IndexOK(p, u)

(* The properties follow from it.                                          *)
LEMMA WholeFromInvariant == IngestInv => DocumentWhole
BY DEF IngestInv, RequestOK, RowsOK, DocumentWhole, NoDocument, FinalStatus

LEMMA IndexFromInvariant == IngestInv => IndexedWhileServing
BY DEF IngestInv, RequestOK, RowsOK, IndexOK, Records, IndexedWhileServing

LEMMA GhostsFromInvariant == IngestInv => GhostsExplained
<1> SUFFICES ASSUME IngestInv, NEW p \in Processes, NEW r \in index[p]
             PROVE  \/ documents[r[1]].status = "processed"
                    \/ stage[r[1]] = "indexed" /\ fate[r[1]] \in {"open", "rolledback"}
  BY DEF GhostsExplained
<1>1. PICK u \in Uploads, i \in Nat \ {0} : r = <<u, i>>
  BY DEF IngestInv, TypeOK
<1>2. r \in index[p] \cap ({u} \X Nat)
  BY <1>1
<1>3. stage[u] = "indexed" /\ r \in Records(u)
  BY <1>2 DEF IngestInv, IndexOK
<1>4. req[u].windows # <<>>
  BY <1>1, <1>3 DEF Records
<1>5. fate[u] = "committed" => documents[u].status = "processed"
  BY <1>4 DEF IngestInv, RowsOK, FinalStatus
<1>6. fate[u] \in {"open", "rolledback", "committed"}
  BY <1>3 DEF IngestInv, RequestOK, TypeOK
<1> QED
  BY <1>1, <1>3, <1>5, <1>6

LEMMA ObjectsFromInvariant == IngestInv => ObjectKept
<1> SUFFICES ASSUME IngestInv, NEW u \in Uploads, fate[u] = "committed"
             PROVE  LET k == documents[u].storage_key IN
                    \/ objects[k] = req[u].body
                    \/ /\ objects[k] = Torn
                       /\ \E v \in Uploads \ {u} :
                            /\ req[v].key = k
                            /\ stage[v] = "writing"
                            /\ fate[v] \in {"open", "rolledback"}
  BY DEF ObjectKept
<1>1. /\ documents[u].storage_key = req[u].key
      /\ stage[u] = "indexed"
      /\ req[u].key.body = req[u].body
      /\ Kept(req[u].key)
  BY DEF IngestInv, RequestOK, RowsOK, ObjectOK
<1>2. ASSUME NEW v \in Uploads, stage[v] = "writing"
      PROVE  fate[v] \in {"open", "rolledback"}
  BY <1>2 DEF IngestInv, RequestOK, TypeOK
<1> QED
  BY <1>1, <1>2 DEF Kept, WrittenAgain

LEMMA PhrasesFromInvariant ==
  ASSUME ChunkOverlap < ChunkSize
  PROVE  IngestInv => PhrasesSurvive
<1> SUFFICES ASSUME IngestInv, NEW u \in Uploads, chunks[u] # <<>>
             PROVE  LET n == WordsIn[req[u].body]
                        w == chunks[u] IN
                    /\ \A p \in 0 .. n - 1 : \A q \in p .. p + ChunkOverlap :
                         q < n => \E i \in 1 .. Len(w) :
                                    w[i].from <= p /\ q < w[i].upto
                    /\ \A i \in 1 .. Len(w) - 1 : w[i].upto < w[i + 1].upto
  BY DEF PhrasesSurvive
<1> DEFINE n == WordsIn[req[u].body]
<1>1. /\ chunks[u] = chunk_text(WordsExtracted(u))
      /\ req[u].body \in Bodies
  BY DEF IngestInv, RequestOK, RowsOK
<1>2. WordsExtracted(u) \in Nat /\ n \in Nat
  BY <1>1, IngestAssumption DEF WordsExtracted
<1>3. WordsExtracted(u) # 0
  BY <1>1, <1>2, ChunksTyped
<1>4. WordsExtracted(u) = n /\ n \in Nat \ {0}
  BY <1>2, <1>3 DEF WordsExtracted
<1> HIDE DEF n
<1>5. chunks[u] = chunk_text(n)
  BY <1>1, <1>4
<1> QED
  BY <1>4, <1>5, PhraseInWindow, WindowsAdvance DEF n

-----------------------------------------------------------------------------
(* Init, and what the actions have in common.                              *)

LEMMA NamesApart ==
  /\ NoKey \notin Key
  /\ Nothing \notin Processes /\ Nothing \notin Bodies
<1>1. NoKey.body = Nothing
  BY DEF NoKey
<1> QED
  BY <1>1, IngestAssumption DEF Key

LEMMA InitIngest == Init => IngestInv
<1> SUFFICES ASSUME Init PROVE IngestInv
  OBVIOUS
<1>1. TypeOK
  BY DEF Init, TypeOK, DocumentRow, NoRequest
<1>2. ASSUME NEW u \in Uploads PROVE RequestOK(u) /\ RowsOK(u) /\ ObjectOK(u)
  BY DEF Init, RequestOK, RowsOK, ObjectOK, Live
<1>3. ASSUME NEW p \in Processes PROVE IsFiniteSet(index[p])
  BY FS_EmptySet DEF Init
<1>4. ASSUME NEW p \in Processes, NEW u \in Uploads PROVE IndexOK(p, u)
  BY DEF Init, IndexOK
<1> QED
  BY <1>1, <1>2, <1>3, <1>4 DEF IngestInv

(* What is said of an upload stays true while its handler and its rows     *)
(* stay, whatever the others do.                                           *)
Untouched(u) == /\ stage'[u] = stage[u] /\ fate'[u] = fate[u]
                /\ answer'[u] = answer[u] /\ req'[u] = req[u]

LEMMA OthersRequests ==
  ASSUME NEW u \in Uploads, RequestOK(u), Untouched(u)
  PROVE  RequestOK(u)'
BY DEF RequestOK, Untouched, Live, WordsExtracted

LEMMA OthersRows ==
  ASSUME NEW u \in Uploads, RowsOK(u), Untouched(u),
         documents'[u] = documents[u], chunks'[u] = chunks[u],
         u \in audit' <=> u \in audit
  PROVE  RowsOK(u)'
BY DEF RowsOK, Untouched, FinalStatus

LEMMA OthersIndex ==
  ASSUME NEW p \in Processes, NEW u \in Uploads, IndexOK(p, u),
         req'[u] = req[u], stage'[u] = stage[u],
         index'[p] \cap ({u} \X Nat) = index[p] \cap ({u} \X Nat)
  PROVE  IndexOK(p, u)'
BY DEF IndexOK, Records

LEMMA StoredKey ==
  ASSUME IngestInv, NEW u \in Uploads,
         stage[u] \in {"received", "writing", "stored", "flushed", "indexed"}
  PROVE  /\ req[u].key \in Key /\ req[u].body \in Bodies
         /\ req[u].key.body = req[u].body
BY DEF IngestInv, RequestOK

(* A stored file stays as it is while nobody writes it, and who has        *)
(* stopped while writing it again stays where they are.                    *)
LEMMA ObjectStays ==
  ASSUME IngestInv, NEW u \in Uploads,
         \/ stage[u] \in {"stored", "flushed", "indexed"}
         \/ stage'[u] \notin {"stored", "flushed", "indexed"},
         req'[u].key = req[u].key,
         req[u].key \in Key => objects'[req[u].key] = objects[req[u].key],
         \A v \in Uploads : stage[v] = "writing" =>
           \/ stage'[v] = "writing" /\ req'[v].key = req[v].key
           \/ req[v].key # req[u].key
  PROVE  ObjectOK(u)'
<1> SUFFICES ASSUME stage[u] \in {"stored", "flushed", "indexed"}
             PROVE  Kept(req[u].key)'
  BY DEF ObjectOK
<1>1. PICK k \in Key : k = req[u].key /\ Kept(k)
  BY StoredKey DEF IngestInv, ObjectOK
<1>2. Kept(k)'
  BY <1>1 DEF Kept, WrittenAgain
<1> QED
  BY <1>1, <1>2 DEF Kept, WrittenAgain

(* A step of upload u: it is enough to look at u, at the index and at the  *)
(* files.                                                                  *)
LEMMA OneUpload ==
  ASSUME IngestInv, TypeOK', NEW u \in Uploads, RequestOK(u)', RowsOK(u)',
         \A v \in Uploads \ {u} :
           /\ Untouched(v)
           /\ documents'[v] = documents[v] /\ chunks'[v] = chunks[v]
           /\ v \in audit' <=> v \in audit,
         \A v \in Uploads : ObjectOK(v)',
         \A p \in Processes : IsFiniteSet(index'[p]) /\ IndexOK(p, u)',
         \A p \in Processes, v \in Uploads \ {u} :
           index'[p] \cap ({v} \X Nat) = index[p] \cap ({v} \X Nat)
  PROVE  IngestInv'
<1>1. ASSUME NEW v \in Uploads \ {u} PROVE RequestOK(v)' /\ RowsOK(v)'
  BY OthersRequests, OthersRows DEF IngestInv
<1>2. ASSUME NEW p \in Processes, NEW v \in Uploads \ {u} PROVE IndexOK(p, v)'
  BY OthersIndex DEF IngestInv, Untouched
<1> QED
  BY <1>1, <1>2 DEF IngestInv

LEMMA ContentKey ==
  ASSUME NEW f \in Filenames, NEW b \in Bodies
  PROVE  content_key(f, b) \in Key /\ content_key(f, b).body = b
BY DEF content_key, Key

-----------------------------------------------------------------------------
(* The actions.                                                            *)

LEMMA ReceiveKeeps ==
  ASSUME IngestInv, NEW u \in Uploads, Receive(u)
  PROVE  IngestInv'
<1>1. PICK p \in Processes, f \in Filenames, b \in Bodies \ Oversize,
           textual \in BOOLEAN, roles \in CallerRoles :
        /\ fate[u] = "open" /\ stage[u] = "new"
        /\ Advance(u, "received")
        /\ req' = [req EXCEPT ![u] = [process |-> p, body |-> b,
                                      key |-> content_key(f, b),
                                      textual |-> textual, windows |-> <<>>]]
        /\ UNCHANGED <<objects, tables, index, fate, answer, reply>>
  BY Zenon DEF Receive
<1> USE DEF Advance, tables
<1>2. content_key(f, b) \in Key /\ content_key(f, b).body = b
  BY ContentKey
<1>3. TypeOK
  BY DEF IngestInv
<1>4. TypeOK'
  BY <1>1, <1>2, <1>3 DEF TypeOK, Stages
<1>5. RequestOK(u)' /\ RowsOK(u)'
  BY <1>1, <1>2, <1>3 DEF TypeOK, RequestOK, RowsOK, Live, IngestInv
<1>6. ASSUME NEW v \in Uploads \ {u}
      PROVE  /\ Untouched(v)
             /\ documents'[v] = documents[v] /\ chunks'[v] = chunks[v]
             /\ v \in audit' <=> v \in audit
  BY <1>1, <1>3 DEF TypeOK, Untouched
<1>7. ASSUME NEW v \in Uploads PROVE ObjectOK(v)'
  <2>1. CASE v = u
    BY <1>1, <1>3, <2>1 DEF ObjectOK, TypeOK
  <2>2. CASE v # u
    <3>1. /\ stage'[v] = stage[v] /\ req'[v] = req[v]
          /\ objects'[req[v].key] = objects[req[v].key]
          /\ \A x \in Uploads : stage[x] = "writing" =>
               stage'[x] = "writing" /\ req'[x].key = req[x].key
      BY <1>1, <1>3, <2>2 DEF TypeOK
    <3> QED
      BY <3>1, ObjectStays
  <2> QED
    BY <2>1, <2>2
<1>8. ASSUME NEW q \in Processes PROVE IsFiniteSet(index'[q]) /\ IndexOK(q, u)'
  BY <1>1, <1>3 DEF IndexOK, IngestInv, TypeOK
<1> QED
  BY <1>1, <1>4, <1>5, <1>6, <1>7, <1>8, OneUpload

LEMMA RefuseKeeps ==
  ASSUME IngestInv, NEW u \in Uploads, RefuseUpload(u)
  PROVE  IngestInv'
<1>1. PICK a \in {"invalid", "forbidden"} :
        /\ fate[u] = "open" /\ stage[u] = "new"
        /\ answer' = [answer EXCEPT ![u] = a]
        /\ fate' = [fate EXCEPT ![u] = "refused"]
        /\ UNCHANGED <<objects, documents, chunks, audit, index, stage, req, reply>>
  BY DEF RefuseUpload, tables
<1>2. TypeOK
  BY DEF IngestInv
<1>3. TypeOK'
  BY <1>1, <1>2 DEF TypeOK
<1>4. RequestOK(u)' /\ RowsOK(u)'
  BY <1>1, <1>2 DEF TypeOK, RequestOK, RowsOK, Live, IngestInv
<1>5. ASSUME NEW v \in Uploads \ {u} PROVE Untouched(v)
  BY <1>1, <1>2 DEF TypeOK, Untouched
<1>6. ASSUME NEW v \in Uploads PROVE ObjectOK(v)'
  BY <1>1, ObjectStays
<1>7. ASSUME NEW q \in Processes PROVE IsFiniteSet(index'[q]) /\ IndexOK(q, u)'
  BY <1>1 DEF IndexOK, IngestInv, Records
<1> QED
  BY <1>1, <1>3, <1>4, <1>5, <1>6, <1>7, OneUpload

(* put: the key is torn while it is written, then holds the body it names. *)
LEMMA PutKeeps ==
  ASSUME IngestInv, NEW u \in Uploads, OpenObject(u) \/ WriteObject(u)
  PROVE  IngestInv'
<1> DEFINE k == req[u].key
<1>1. /\ fate[u] = "open"
      /\ \/ /\ stage[u] = "received" /\ stage' = [stage EXCEPT ![u] = "writing"]
            /\ objects' = [objects EXCEPT ![k] = Torn]
         \/ /\ stage[u] = "writing" /\ stage' = [stage EXCEPT ![u] = "stored"]
            /\ objects' = [objects EXCEPT ![k] = req[u].body]
      /\ UNCHANGED <<documents, chunks, audit, index, fate, answer, req, reply>>
  BY DEF OpenObject, WriteObject, At, Advance, tables
<1>2. TypeOK /\ RequestOK(u) /\ RowsOK(u)
  BY DEF IngestInv
<1>3. k \in Key /\ req[u].body \in Bodies /\ k.body = req[u].body
  BY <1>1, StoredKey
<1>4. TypeOK'
  <2>1. objects' \in [Key -> Bodies \cup {Nothing, Torn}]
    BY <1>1, <1>2, <1>3 DEF TypeOK
  <2> QED
    BY <1>1, <1>2, <2>1 DEF TypeOK, Stages
<1>5. RequestOK(u)' /\ RowsOK(u)'
  BY <1>1, <1>2 DEF TypeOK, RequestOK, RowsOK, Live, FinalStatus
<1>6. ASSUME NEW v \in Uploads \ {u} PROVE Untouched(v)
  BY <1>1, <1>2 DEF TypeOK, Untouched
<1>7. ASSUME NEW v \in Uploads PROVE ObjectOK(v)'
  <2>1. CASE req[v].key # k
    <3>1. /\ req[v].key \in Key => objects'[req[v].key] = objects[req[v].key]
          /\ v # u /\ stage'[v] = stage[v] /\ req' = req
          /\ \A x \in Uploads : stage[x] = "writing" =>
               stage'[x] = "writing" \/ req[x].key # req[v].key
      BY <1>1, <1>2, <2>1 DEF TypeOK
    <3> QED
      BY <3>1, ObjectStays
  <2>2. CASE req[v].key = k
    <3>1. Kept(k)'
      BY <1>1, <1>2, <1>3 DEF TypeOK, Kept, WrittenAgain
    <3> QED
      BY <1>1, <2>2, <3>1 DEF ObjectOK
  <2> QED
    BY <2>1, <2>2
<1>8. ASSUME NEW q \in Processes PROVE IsFiniteSet(index'[q]) /\ IndexOK(q, u)'
  BY <1>1, <1>2 DEF IndexOK, IngestInv, Records, TypeOK
<1> QED
  BY <1>1, <1>4, <1>5, <1>6, <1>7, <1>8, OneUpload

LEMMA FlushKeeps ==
  ASSUME IngestInv, NEW u \in Uploads, FlushRows(u)
  PROVE  IngestInv'
<1> DEFINE w == chunk_text(WordsExtracted(u))
<1>1. /\ fate[u] = "open" /\ stage[u] = "stored"
      /\ stage' = [stage EXCEPT ![u] = "flushed"]
      /\ req' = [req EXCEPT ![u].windows = w]
      /\ UNCHANGED <<objects, documents, chunks, audit, index, fate, answer, reply>>
  BY DEF FlushRows, At, Advance, tables
<1>2. TypeOK /\ RequestOK(u) /\ RowsOK(u)
  BY DEF IngestInv
<1>3. w \in Seq(WindowRow)
  <2>1. WordsExtracted(u) \in Nat
    BY <1>1, StoredKey, IngestAssumption DEF WordsExtracted
  <2> QED
    BY <2>1, ChunksTyped
<1> HIDE DEF w
<1>4. /\ req'[u].windows = w
      /\ req'[u].body = req[u].body /\ req'[u].key = req[u].key
      /\ req'[u].process = req[u].process /\ req'[u].textual = req[u].textual
      /\ req'[u] \in [process : Processes \cup {Nothing},
                      body : Bodies \cup {Nothing}, key : Key \cup {NoKey},
                      textual : BOOLEAN, windows : Seq(WindowRow)]
  BY <1>1, <1>2, <1>3 DEF TypeOK
<1>5. TypeOK'
  <2>1. req' \in [Uploads -> [process : Processes \cup {Nothing},
                             body : Bodies \cup {Nothing}, key : Key \cup {NoKey},
                             textual : BOOLEAN, windows : Seq(WindowRow)]]
    BY <1>1, <1>2, <1>4 DEF TypeOK
  <2> QED
    BY <1>1, <1>2, <2>1 DEF TypeOK, Stages
<1>6. RequestOK(u)' /\ RowsOK(u)'
  <2>1. WordsExtracted(u)' = WordsExtracted(u)
    BY <1>4 DEF WordsExtracted
  <2>2. RequestOK(u)'
    BY <1>1, <1>2, <1>4, <2>1 DEF TypeOK, RequestOK, Live, w
  <2>3. RowsOK(u)'
    BY <1>1, <1>2 DEF RowsOK
  <2> QED
    BY <2>2, <2>3
<1>7. ASSUME NEW v \in Uploads \ {u} PROVE Untouched(v)
  BY <1>1, <1>2 DEF TypeOK, Untouched
<1>8. ASSUME NEW v \in Uploads PROVE ObjectOK(v)'
  <2>1. /\ \A x \in Uploads : req'[x].key = req[x].key
        /\ \A x \in Uploads : stage[x] = "writing" => stage'[x] = "writing"
        /\ \/ stage[v] \in {"stored", "flushed", "indexed"}
           \/ stage'[v] \notin {"stored", "flushed", "indexed"}
    BY <1>1, <1>2, <1>4 DEF TypeOK
  <2> QED
    BY <1>1, <2>1, ObjectStays
<1>9. ASSUME NEW q \in Processes PROVE IsFiniteSet(index'[q]) /\ IndexOK(q, u)'
  BY <1>1, <1>2 DEF IndexOK, IngestInv, TypeOK
<1> QED
  BY <1>1, <1>5, <1>6, <1>7, <1>8, <1>9, OneUpload

(* upsert: the records of u go to the index of its process and, as u had   *)
(* none there, they are all there is of u.                                 *)
LEMMA IndexKeeps ==
  ASSUME IngestInv, NEW u \in Uploads, IndexChunks(u)
  PROVE  IngestInv'
<1>1. /\ fate[u] = "open" /\ stage[u] = "flushed"
      /\ stage' = [stage EXCEPT ![u] = "indexed"]
      /\ index' = [index EXCEPT ![req[u].process] = @ \cup Records(u)]
      /\ UNCHANGED <<objects, documents, chunks, audit, fate, answer, req, reply>>
  BY DEF IndexChunks, At, Advance, tables
<1>2. TypeOK /\ RequestOK(u) /\ RowsOK(u)
  BY DEF IngestInv
<1>3. PICK n \in Nat : n = Len(req[u].windows) /\ Records(u) = {u} \X (1 .. n)
  <2>1. Len(req[u].windows) \in Nat
    <3>1. req[u].windows \in Seq(WindowRow)
      BY <1>2 DEF TypeOK
    <3> QED
      BY <3>1
  <2> QED
    BY <2>1, Zenon DEF Records
<1>4. PICK p \in Processes : p = req[u].process
  BY <1>1, <1>2 DEF RequestOK, Live
<1>5. /\ index'[p] = index[p] \cup ({u} \X (1 .. n))
      /\ \A q \in Processes \ {p} : index'[q] = index[q]
      /\ index' \in [Processes -> SUBSET (Uploads \X (Nat \ {0}))]
  BY <1>1, <1>2, <1>3, <1>4 DEF TypeOK
<1>6. TypeOK'
  BY <1>1, <1>2, <1>5 DEF TypeOK, Stages
<1>7. RequestOK(u)' /\ RowsOK(u)'
  BY <1>1, <1>2 DEF TypeOK, RequestOK, RowsOK, Live, FinalStatus, WordsExtracted
<1>8. ASSUME NEW v \in Uploads \ {u} PROVE Untouched(v)
  BY <1>1, <1>2 DEF TypeOK, Untouched
<1>9. ASSUME NEW v \in Uploads PROVE ObjectOK(v)'
  <2>1. /\ \A x \in Uploads : stage[x] = "writing" => stage'[x] = "writing"
        /\ \/ stage[v] \in {"stored", "flushed", "indexed"}
           \/ stage'[v] \notin {"stored", "flushed", "indexed"}
    BY <1>1, <1>2 DEF TypeOK
  <2> QED
    BY <1>1, <2>1, ObjectStays
<1>10. ASSUME NEW q \in Processes PROVE IsFiniteSet(index'[q])
  <2>1. IsFiniteSet({u}) /\ IsFiniteSet(1 .. n)
    <3>1. IsFiniteSet({u})
      BY FS_Singleton, Zenon
    <3>2. 1 \in Int /\ n \in Int
      OBVIOUS
    <3>3. IsFiniteSet(1 .. n)
      BY <3>2, FS_Interval, Zenon
    <3> QED
      BY <3>1, <3>3
  <2>2. IsFiniteSet({u} \X (1 .. n))
    BY <2>1, FS_Product, Zenon
  <2>3. IsFiniteSet(index[q])
    BY DEF IngestInv
  <2>4. IsFiniteSet(index[q] \cup ({u} \X (1 .. n)))
    BY <2>2, <2>3, FS_Union, Zenon
  <2> QED
    BY <1>5, <2>3, <2>4
<1>11. ASSUME NEW q \in Processes PROVE IndexOK(q, u)'
  <2>1. index[q] \cap ({u} \X Nat) = {}
    BY <1>1 DEF IngestInv, IndexOK
  <2>2. stage'[u] = "indexed" /\ req' = req /\ Records(u)' = {u} \X (1 .. n)
    BY <1>1, <1>2, <1>3 DEF TypeOK, Records
  <2>3. CASE q = p
    BY <1>4, <1>5, <2>1, <2>2, <2>3 DEF IndexOK
  <2>4. CASE q # p
    BY <1>4, <1>5, <2>1, <2>2, <2>4 DEF IndexOK
  <2> QED
    BY <2>3, <2>4
<1>12. ASSUME NEW q \in Processes, NEW v \in Uploads \ {u}
       PROVE  index'[q] \cap ({v} \X Nat) = index[q] \cap ({v} \X Nat)
  BY <1>5
<1> QED
  BY <1>1, <1>6, <1>7, <1>8, <1>9, <1>10, <1>11, <1>12, OneUpload

LEMMA CommitKeeps ==
  ASSUME IngestInv, NEW u \in Uploads, Commit(u)
  PROVE  IngestInv'
<1> DEFINE row == [status |-> FinalStatus(u), storage_key |-> req[u].key]
<1>1. /\ fate[u] = "open" /\ stage[u] = "indexed"
      /\ documents' = [documents EXCEPT ![u] = row]
      /\ chunks' = [chunks EXCEPT ![u] = req[u].windows]
      /\ audit' = audit \cup {u}
      /\ fate' = [fate EXCEPT ![u] = "committed"]
      /\ AnswerFirst => answer[u] = "created"
      /\ UNCHANGED <<objects, index, stage, answer, req, reply>>
  BY DEF Commit, At
<1>2. TypeOK /\ RequestOK(u) /\ RowsOK(u)
  BY DEF IngestInv
<1>3. /\ row \in DocumentRow
      /\ row.status = FinalStatus(u) /\ row.storage_key = req[u].key
  BY <1>1, StoredKey DEF DocumentRow, FinalStatus
<1> HIDE DEF row
<1>4. TypeOK'
  <2>1. req[u].windows \in Seq(WindowRow)
    BY <1>2 DEF TypeOK
  <2> QED
    BY <1>1, <1>2, <1>3, <2>1 DEF TypeOK
<1>5. RequestOK(u)' /\ RowsOK(u)'
  <2>1. RequestOK(u)'
    BY <1>1, <1>2 DEF TypeOK, RequestOK, Live, WordsExtracted
  <2>2. FinalStatus(u)' = FinalStatus(u)
    BY <1>1 DEF FinalStatus
  <2>3. RowsOK(u)'
    BY <1>1, <1>2, <1>3, <2>2 DEF TypeOK, RowsOK
  <2> QED
    BY <2>1, <2>3
<1>6. ASSUME NEW v \in Uploads \ {u}
      PROVE  /\ Untouched(v)
             /\ documents'[v] = documents[v] /\ chunks'[v] = chunks[v]
             /\ v \in audit' <=> v \in audit
  BY <1>1, <1>2 DEF TypeOK, Untouched
<1>7. ASSUME NEW v \in Uploads PROVE ObjectOK(v)'
  BY <1>1, ObjectStays
<1>8. ASSUME NEW q \in Processes PROVE IsFiniteSet(index'[q]) /\ IndexOK(q, u)'
  BY <1>1 DEF IndexOK, IngestInv, Records
<1> QED
  BY <1>1, <1>4, <1>5, <1>6, <1>7, <1>8, OneUpload

LEMMA EndKeeps ==
  ASSUME IngestInv, NEW u \in Uploads, Respond(u) \/ Rollback(u)
  PROVE  IngestInv'
<1>1. /\ \/ /\ AnswerFirst \/ fate[u] = "committed"
            /\ fate' = fate
            /\ answer' = [answer EXCEPT ![u] = "created"]
         \/ /\ fate[u] = "open" /\ stage[u] # "new"
            /\ fate' = [fate EXCEPT ![u] = "rolledback"]
            /\ answer' = [answer EXCEPT ![u] = IF @ = "none" THEN "failed" ELSE @]
      /\ UNCHANGED <<objects, documents, chunks, audit, index, stage, req, reply>>
  BY DEF Respond, Rollback, Live, tables
<1>2. TypeOK /\ RequestOK(u) /\ RowsOK(u)
  BY DEF IngestInv
<1>3. TypeOK'
  BY <1>1, <1>2 DEF TypeOK
<1>4. RequestOK(u)' /\ RowsOK(u)'
  BY <1>1, <1>2 DEF TypeOK, RequestOK, RowsOK, Live, WordsExtracted, FinalStatus
<1>5. ASSUME NEW v \in Uploads \ {u} PROVE Untouched(v)
  BY <1>1, <1>2 DEF TypeOK, Untouched
<1>6. ASSUME NEW v \in Uploads PROVE ObjectOK(v)'
  BY <1>1, ObjectStays
<1>7. ASSUME NEW q \in Processes PROVE IsFiniteSet(index'[q]) /\ IndexOK(q, u)'
  BY <1>1 DEF IndexOK, IngestInv, Records
<1> QED
  BY <1>1, <1>3, <1>4, <1>5, <1>6, <1>7, OneUpload

(* Restart: the index of p is emptied and nothing is left of what p was    *)
(* serving but the rows it had committed.                                  *)
LEMMA RestartKeeps ==
  ASSUME IngestInv, NEW p \in Processes, Restart(p)
  PROVE  IngestInv'
<1>1. /\ index' = [index EXCEPT ![p] = {}]
      /\ req' = [u \in Uploads |-> IF req[u].process = p
                                   THEN [req[u] EXCEPT !.process = Nothing]
                                   ELSE req[u]]
      /\ fate' = [u \in Uploads |-> IF req[u].process = p /\ Live(u)
                                    THEN "rolledback" ELSE fate[u]]
      /\ answer' = [u \in Uploads |-> IF req[u].process = p /\ answer[u] = "none"
                                      THEN "failed" ELSE answer[u]]
      /\ UNCHANGED <<objects, documents, chunks, audit, stage, reply>>
  BY DEF Restart, tables
<1>2. TypeOK
  BY DEF IngestInv
<1>3. ASSUME NEW u \in Uploads
      PROVE  /\ req'[u] \in [process : Processes \cup {Nothing},
                             body : Bodies \cup {Nothing},
                             key : Key \cup {NoKey}, textual : BOOLEAN,
                             windows : Seq(WindowRow)]
             /\ req'[u].body = req[u].body /\ req'[u].key = req[u].key
             /\ req'[u].textual = req[u].textual
             /\ req'[u].windows = req[u].windows
             /\ req'[u].process = IF req[u].process = p THEN Nothing
                                                        ELSE req[u].process
             /\ req[u].process # p => req'[u] = req[u]
  BY <1>1, <1>2 DEF TypeOK
<1>4. ASSUME NEW u \in Uploads
      PROVE  /\ fate'[u] = IF req[u].process = p /\ Live(u)
                           THEN "rolledback" ELSE fate[u]
             /\ answer'[u] = IF req[u].process = p /\ answer[u] = "none"
                             THEN "failed" ELSE answer[u]
  BY <1>1
<1>5. TypeOK'
  <2>1. req' \in [Uploads -> [process : Processes \cup {Nothing},
                              body : Bodies \cup {Nothing},
                              key : Key \cup {NoKey}, textual : BOOLEAN,
                              windows : Seq(WindowRow)]]
    BY <1>1, <1>3
  <2>2. /\ fate' \in [Uploads -> {"open", "refused", "rolledback", "committed"}]
        /\ answer' \in [Uploads -> {"none", "created", "forbidden", "invalid",
                                    "failed"}]
    BY <1>1, <1>2 DEF TypeOK
  <2>3. index' \in [Processes -> SUBSET (Uploads \X (Nat \ {0}))]
    BY <1>1, <1>2 DEF TypeOK
  <2> QED
    BY <1>1, <1>2, <2>1, <2>2, <2>3 DEF TypeOK
<1>6. ASSUME NEW u \in Uploads PROVE RequestOK(u)' /\ RowsOK(u)' /\ ObjectOK(u)'
  <2>1. RequestOK(u) /\ RowsOK(u) /\ stage'[u] = stage[u]
    BY <1>1 DEF IngestInv
  <2>2. RequestOK(u)'
    <3>1. CASE stage[u] = "new"
      <4>1. req[u].process = Nothing
        BY <2>1, <3>1 DEF RequestOK, NoRequest
      <4>2. req'[u] = req[u] /\ fate'[u] = fate[u]
        BY <1>3, <1>4, <4>1, NamesApart
      <4> QED
        BY <1>4, <2>1, <3>1, <4>2 DEF RequestOK, Live
    <3>2. CASE stage[u] # "new"
      <4>1. WordsExtracted(u)' = WordsExtracted(u)
        BY <1>3 DEF WordsExtracted
      <4> QED
        BY <1>2, <1>3, <1>4, <2>1, <3>2, <4>1 DEF TypeOK, RequestOK, Live
    <3> QED
      BY <3>1, <3>2
  <2>3. RowsOK(u)'
    <3>1. FinalStatus(u)' = FinalStatus(u)
      BY <1>3 DEF FinalStatus
    <3>2. fate'[u] = "committed" <=> fate[u] = "committed"
      BY <1>4 DEF Live
    <3>3. answer'[u] = "created" => answer[u] = "created"
      BY <1>4
    <3> QED
      BY <1>1, <1>3, <2>1, <3>1, <3>2, <3>3 DEF RowsOK
  <2>4. ObjectOK(u)'
    BY <1>1, <1>3, ObjectStays
  <2> QED
    BY <2>2, <2>3, <2>4
<1>7. ASSUME NEW q \in Processes PROVE IsFiniteSet(index'[q])
  <2>1. index'[q] = IF q = p THEN {} ELSE index[q]
    BY <1>1, <1>2 DEF TypeOK
  <2> QED
    BY <2>1, FS_EmptySet DEF IngestInv
<1>8. ASSUME NEW q \in Processes, NEW u \in Uploads PROVE IndexOK(q, u)'
  <2>1. index'[q] = IF q = p THEN {} ELSE index[q]
    BY <1>1, <1>2 DEF TypeOK
  <2>2. IndexOK(q, u) /\ Records(u)' = Records(u) /\ stage' = stage
    BY <1>1, <1>3 DEF IngestInv, Records
  <2>3. CASE q = p
    BY <1>3, <2>1, <2>3, NamesApart DEF IndexOK
  <2>4. CASE q # p
    BY <1>3, <2>1, <2>2, <2>4, NamesApart DEF IndexOK
  <2> QED
    BY <2>3, <2>4
<1> QED
  BY <1>5, <1>6, <1>7, <1>8 DEF IngestInv

(* Reading changes nothing but the answer.                                 *)
LEMMA ReadKeeps ==
  ASSUME IngestInv,
         UNCHANGED <<objects, tables, index, handler>>,
         reply' \in [process : Processes \cup {Nothing}, grounded : BOOLEAN,
                    hits : SUBSET (Uploads \X (Nat \ {0}))]
  PROVE  IngestInv'
<1> USE DEF tables, handler
<1>1. TypeOK'
  BY DEF IngestInv, TypeOK
<1>2. ASSUME NEW u \in Uploads PROVE RequestOK(u)' /\ RowsOK(u)' /\ ObjectOK(u)'
  BY DEF IngestInv, RequestOK, RowsOK, ObjectOK, Live, WordsExtracted,
         FinalStatus, Kept, WrittenAgain
<1>3. ASSUME NEW p \in Processes, NEW u \in Uploads PROVE IndexOK(p, u)'
  BY DEF IngestInv, IndexOK, Records
<1> QED
  BY <1>1, <1>2, <1>3 DEF IngestInv

LEMMA SearchKeeps ==
  ASSUME IngestInv, NEW p \in Processes, Search(p) \/ Comply(p)
  PROVE  IngestInv'
<1>1. PICK h \in SUBSET index[p], g \in BOOLEAN :
        reply' = [process |-> p, grounded |-> g, hits |-> h]
  BY DEF Search, Comply, Best
<1>2. UNCHANGED <<objects, tables, index, handler>>
  BY DEF Search, Comply
<1>3. index[p] \subseteq Uploads \X (Nat \ {0})
  BY DEF IngestInv, TypeOK
<1> QED
  BY <1>1, <1>2, <1>3, ReadKeeps

LEMMA IngestStep == IngestInv /\ [Next]_vars => IngestInv'
<1> SUFFICES ASSUME IngestInv, [Next]_vars PROVE IngestInv'
  OBVIOUS
<1>1. CASE UNCHANGED vars
  BY <1>1, ReadKeeps DEF vars, tables, handler, IngestInv, TypeOK
<1>2. ASSUME NEW u \in Uploads,
             Receive(u) \/ RefuseUpload(u) \/ Ingest(u) \/ Rollback(u)
      PROVE  IngestInv'
  BY <1>2, ReceiveKeeps, RefuseKeeps, PutKeeps, FlushKeeps, IndexKeeps,
     CommitKeeps, EndKeeps DEF Ingest
<1>3. ASSUME NEW p \in Processes, Restart(p) \/ Search(p) \/ Comply(p)
      PROVE  IngestInv'
  BY <1>3, RestartKeeps, SearchKeeps
<1> QED
  BY <1>1, <1>2, <1>3 DEF Next

LEMMA IngestInvariance == Spec => []IngestInv
BY InitIngest, IngestStep, PTL DEF Spec

-----------------------------------------------------------------------------
(* The theorems.                                                           *)

(* The tables, the object directory, the indexes and what the handlers     *)
(* hold keep their types, for any uploads, processes and chunk sizes       *)
(* (DocumentService.ingest, LocalFileStorage, InMemoryVectorStore).        *)
THEOREM TypeCorrect == Spec => []TypeOK
<1>1. IngestInv => TypeOK
  BY DEF IngestInv
<1> QED
  BY <1>1, IngestInvariance, PTL

(* A document is whole or absent: its row, its audit entry and its status  *)
(* agree, and an upload that did not commit leaves no row.  Its caller is  *)
(* not told of a failure if answers come first and it committed, nor of a  *)
(* document if they come last and it did not (DocumentService.ingest,      *)
(* upload_document, session_dep).                                          *)
THEOREM DocumentsAreWhole == Spec => []DocumentWhole
BY IngestInvariance, WholeFromInvariant, PTL

(* A committed document is in the index of the process that took it, all   *)
(* of it, while that process lives, and in no other                        *)
(* (InMemoryVectorStore.upsert).                                           *)
THEOREM ProcessedIsIndexed == Spec => []IndexedWhileServing
BY IngestInvariance, IndexFromInvariant, PTL

(* Whatever the index holds is a chunk of a processed document or of an    *)
(* upload that reached the index and has not committed                     *)
(* (DocumentService.ingest, session_dep).                                  *)
THEOREM GhostsAreExplained == Spec => []GhostsExplained
BY IngestInvariance, GhostsFromInvariant, PTL

(* The file of a committed row holds what was uploaded, unless a second    *)
(* upload of the same content and name is writing it or stopped doing so   *)
(* (LocalFileStorage.put, content_key).                                    *)
THEOREM ObjectsAreKept == Spec => []ObjectKept
BY IngestInvariance, ObjectsFromInvariant, PTL

(* No phrase of at most ChunkOverlap + 1 words is cut by a chunk boundary, *)
(* whatever the length of the text, and every chunk reaches further than   *)
(* the one before, for every overlap smaller than the chunk; the code's    *)
(* are 20 and 120 (chunk_text).                                            *)
THEOREM PhrasesDoSurvive ==
  ASSUME ChunkOverlap < ChunkSize
  PROVE  Spec => []PhrasesSurvive
BY IngestInvariance, PhrasesFromInvariant, PTL

(* When the compliance agent says that it found nothing, its process has   *)
(* taken no processed document since it started (ComplianceAgent.run,      *)
(* InMemoryVectorStore.query).                                             *)
THEOREM NothingFoundIsNone == Spec => NothingFoundMeansNone
<1>1. ASSUME IngestInv, [Next]_vars, reply' # reply, ~reply'.grounded,
             NEW u \in Uploads, documents[u].status = "processed"
      PROVE  req[u].process # reply'.process
  <2>1. PICK p \in Processes : Search(p) \/ Comply(p)
    BY <1>1 DEF Next, vars, Receive, RefuseUpload, Ingest, OpenObject,
       WriteObject, FlushRows, IndexChunks, Commit, Respond, Rollback, Restart
  <2>2. PICK k \in TopK : \E h \in Best(p, k) :
          reply' = [process |-> p, grounded |-> h # {}, hits |-> h]
    BY <1>1, <2>1 DEF Search, Comply
  <2>3. {} \in Best(p, k) /\ reply'.process = p
    <3>1. PICK h \in Best(p, k) :
            reply' = [process |-> p, grounded |-> h # {}, hits |-> h]
      BY <2>2
    <3>2. reply'.grounded = (h # {}) /\ reply'.process = p
      BY <3>1
    <3> QED
      BY <1>1, <3>1, <3>2
  <2>4. Cardinality({}) = IF k < Cardinality(index[p])
                         THEN k ELSE Cardinality(index[p])
    BY <2>3 DEF Best
  <2>5. IsFiniteSet(index[p])
    BY <1>1 DEF IngestInv
  <2>6. Cardinality({}) = 0 /\ k # 0
    BY FS_EmptySet, IngestAssumption
  <2>7. Cardinality(index[p]) = 0
    BY <2>4, <2>6
  <2>8. index[p] = {}
    BY <2>5, <2>7, FS_EmptySet, Zenon
  <2>9. /\ fate[u] = "committed" /\ stage[u] = "indexed"
        /\ req[u].windows # <<>>
    BY <1>1 DEF IngestInv, RequestOK, RowsOK, FinalStatus, NoDocument
  <2>10. req[u].process = p => <<u, 1>> \in index[p]
    <3>1. req[u].windows \in Seq(WindowRow)
      BY <1>1 DEF IngestInv, TypeOK
    <3>2. 1 \in 1 .. Len(req[u].windows)
      BY <2>9, <3>1
    <3>3. <<u, 1>> \in Records(u)
      BY <3>2 DEF Records
    <3> QED
      BY <1>1, <2>9, <3>3 DEF IngestInv, IndexOK
  <2> QED
    BY <2>3, <2>8, <2>10
<1>2. IngestInv /\ [Next]_vars =>
        [reply' # reply /\ ~reply'.grounded =>
           \A u \in Uploads : documents[u].status = "processed" =>
             req[u].process # reply'.process]_vars
  BY <1>1
<1> QED
  BY <1>2, IngestInvariance, PTL DEF Spec, NothingFoundMeansNone

=============================================================================

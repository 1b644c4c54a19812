--------------------------- MODULE KnowledgeIngestion ---------------------------
(***************************************************************************)
(* One document of the outside world and its chunks.                       *)
(*                                                                         *)
(* An ingestion finds or creates the document's row, deletes its chunks,   *)
(* has the new ones embedded, stores them and says INDEXED; reindexing     *)
(* does the same with the text that was kept.  No step is in a transaction *)
(* with another, and no row is unique.                                     *)
(***************************************************************************)
EXTENDS Processes

VARIABLES
  document, \* the status of the row that each process created, if it did
  text,     \* the text that is kept of each document, if any
  chunks,   \* the sets of chunks each document has, by the process that stored them
  ingest,   \* each process: its step, its document, its text, whether it reindexes
  crossed,  \* history: two ingestions were at work at once
  broken,   \* history: an ingestion failed, or its process died
  empty     \* history: the documents in whose text an ingestion found no word

knowledgeVars == <<document, text, chunks, ingest, crossed, broken, empty>>

\* A text has words in it, or is nothing but blanks.
Text == {"words", "blank"}

NotIngesting == [at |-> "no", doc |-> {}, text |-> "blank", again |-> FALSE]

KnowledgeInit ==
  /\ document = [p \in Process |-> "none"]
  /\ text = [p \in Process |-> "none"]
  /\ chunks = [p \in Process |-> {}]
  /\ ingest = [p \in Process |-> NotIngesting]
  /\ crossed = FALSE
  /\ broken = FALSE
  /\ empty = {}

-----------------------------------------------------------------------------
AtWork == {p \in Process : ingest[p].at # "no"}

Documents == {d \in Process : document[d] # "none"}

\* The document of process p, which has one from "start" on.
Doc(p) == CHOOSE d \in ingest[p].doc : TRUE

IndexGoto(p, step) == ingest' = [ingest EXCEPT ![p].at = step]

\* Process p begins with a text: of document doc, if one is named.
Begin(p, step, doc, t, again) ==
  /\ ingest[p].at = "no"
  /\ crossed' = (crossed \/ AtWork # {})
  /\ ingest' = [ingest EXCEPT ![p] = [at |-> step, doc |-> doc, text |-> t, again |-> again]]
  /\ UNCHANGED <<document, text, chunks, broken, empty>>

\* Mutant: a document that is not found is taken for created.
IngestUncreated(p) == Begin(p, "start", {p}, "words", FALSE)

\* findOrCreateDocument finds a row, any if there are several, or none.
IngestDocument(p) == \E t \in Text :
  \/ Documents = {} /\ Begin(p, "create", {}, t, FALSE)
  \/ \E d \in Documents : Begin(p, "start", {d}, t, FALSE)

\* The text is the one that was kept, as it is read here.
ReindexDocument(p) == \E d \in Documents :
  text[d] # "none" /\ Begin(p, "start", {d}, text[d], TRUE)

CreateDocument(p) ==
  /\ ingest[p].at = "create"
  /\ document' = [document EXCEPT ![p] = "PENDING"]
  /\ ingest' = [ingest EXCEPT ![p].at = "start", ![p].doc = {p}]
  /\ UNCHANGED <<text, chunks, crossed, broken, empty>>

StartIndexing(p) ==
  /\ ingest[p].at = "start"
  /\ document' = [document EXCEPT ![Doc(p)] = "INDEXING"]
  /\ IndexGoto(p, "delete")
  /\ UNCHANGED <<text, chunks, crossed, broken, empty>>

\* Mutant: the old chunks stay.
DeleteNothing(p) ==
  /\ ingest[p].at = "delete"
  /\ IndexGoto(p, "embed")
  /\ UNCHANGED <<document, text, chunks, crossed, broken, empty>>

\* A text without words has no chunks: nothing is embedded, and nothing stored.
DeleteByDocument(p) ==
  /\ ingest[p].at = "delete"
  /\ chunks' = [chunks EXCEPT ![Doc(p)] = {}]
  /\ \/ ingest[p].text = "words" /\ IndexGoto(p, "embed") /\ UNCHANGED empty
     \/ ingest[p].text = "blank" /\ IndexGoto(p, "finish") /\ empty' = empty \union {Doc(p)}
  /\ UNCHANGED <<document, text, crossed, broken>>

\* The embeddings have come and the chunks are stored, in one statement.
CreateChunks(p) ==
  /\ ingest[p].at = "embed"
  /\ chunks' = [chunks EXCEPT ![Doc(p)] = @ \union {p}]
  /\ IndexGoto(p, "finish")
  /\ UNCHANGED <<document, text, crossed, broken, empty>>

\* Only an ingestion keeps its text; reindexing leaves what there is.
FinishIndexing(p) ==
  /\ ingest[p].at = "finish"
  /\ document' = [document EXCEPT ![Doc(p)] = "INDEXED"]
  /\ text' = IF ingest[p].again THEN text ELSE [text EXCEPT ![Doc(p)] = ingest[p].text]
  /\ IndexGoto(p, "mark")
  /\ UNCHANGED <<chunks, crossed, broken, empty>>

\* The source is told, whose row is not modelled.
MarkIndexed(p) ==
  /\ ingest[p].at = "mark"
  /\ ingest' = [ingest EXCEPT ![p] = NotIngesting]
  /\ UNCHANGED <<document, text, chunks, crossed, broken, empty>>

\* A call fails: the one for the embeddings above all, or one after INDEXED was written.
IngestionFails(p) ==
  /\ ingest[p].at \in {"start", "delete", "embed", "finish", "mark"}
  /\ IndexGoto(p, "fail")
  /\ broken' = TRUE
  /\ UNCHANGED <<document, text, chunks, crossed, empty>>

RecordFailure(p) ==
  /\ ingest[p].at = "fail"
  /\ document' = [document EXCEPT ![Doc(p)] = "FAILED"]
  /\ ingest' = [ingest EXCEPT ![p] = NotIngesting]
  /\ UNCHANGED <<text, chunks, crossed, broken, empty>>

\* The process dies, or the failure cannot be recorded.
IngestionStops(p) ==
  /\ ingest[p].at # "no"
  /\ ingest' = [ingest EXCEPT ![p] = NotIngesting]
  /\ broken' = TRUE
  /\ UNCHANGED <<document, text, chunks, crossed, empty>>

KnowledgeNext == \E p \in Process :
  \/ IngestDocument(p) \/ ReindexDocument(p)
  \/ CreateDocument(p) \/ StartIndexing(p) \/ DeleteByDocument(p) \/ CreateChunks(p)
  \/ FinishIndexing(p) \/ MarkIndexed(p)
  \/ IngestionFails(p) \/ RecordFailure(p) \/ IngestionStops(p)

KnowledgeSpec == KnowledgeInit /\ [][KnowledgeNext]_knowledgeVars

KnowledgeTypeOK ==
  /\ document \in [Process -> {"none", "PENDING", "INDEXING", "INDEXED", "FAILED"}]
  /\ text \in [Process -> Text \union {"none"}]
  /\ \A d \in Process : text[d] # "none" => d \in Documents
  /\ chunks \in [Process -> SUBSET Process]
  /\ ingest \in [Process -> [at : {"no", "create", "start", "delete", "embed", "finish", "mark",
                                  "fail"},
                          doc : SUBSET Process, text : Text, again : BOOLEAN]]
  /\ \A p \in Process : ingest[p].doc \subseteq Documents
  /\ {crossed, broken} \subseteq BOOLEAN
  /\ empty \subseteq Process

-----------------------------------------------------------------------------
\* What is INDEXED when nobody is at work has its chunks.  If ingestions never crossed,
\* there is one document, with one set of chunks, or none if the text that is kept has no
\* words; if none ever broke, and each found words, there is at least one set.  So only
\* a text without words, or a crossing and a failure together, leave a document INDEXED
\* with nothing to be found.
IndexedIsWhole ==
  AtWork = {} =>
    /\ ~crossed => Cardinality(Documents) <= 1
    /\ \A d \in Documents : document[d] = "INDEXED" =>
         /\ ~crossed => Cardinality(chunks[d]) = IF text[d] = "blank" THEN 0 ELSE 1
         /\ ~broken /\ d \notin empty => chunks[d] # {}

=============================================================================

-------------------------- MODULE EmbeddingBatches --------------------------
(***************************************************************************)
(* How one synchronization embeds and stores its new and changed documents *)
(* (ragpipe/pipeline.py:131-215).  Chunks of successive documents share    *)
(* embedding batches of at most batch_size texts, so a batch may end in    *)
(* the middle of a document and a document may span several batches; a     *)
(* document is stored when all its chunks have their vectors, and          *)
(* documents are stored in the order they were loaded.                     *)
(*                                                                         *)
(* documents[d] is the number of chunks of the d-th document of the list   *)
(* new + changed of the plan.  The vector of chunk i of document d is      *)
(* the pair <<d, i>>.  The store calls act on the open transaction only,   *)
(* so here they just extend the sequence of stored documents.              *)
(***************************************************************************)
EXTENDS Integers, Sequences, FiniteSetsExt

CONSTANTS MaxDocuments,  \* bound: documents of one run
          MaxChunks,     \* bound: chunks of one document
          MaxBatchSize   \* bound: batch sizes tried

ASSUME BatchBoundsAreNat ==
  /\ MaxDocuments \in Nat
  /\ MaxChunks \in Nat
  /\ MaxBatchSize \in Nat

VARIABLES
  documents,          \* chunk counts, in loading order; never changes
  batch_size,         \* never changes
  stage,              \* where the loop is
  loaded,             \* documents loaded so far; the last is being chunked
  chunked,            \* chunks of that document already in a batch
  pending_documents,  \* the deque of prepared documents
  pending_chunks,     \* the texts of the next batch
  embeddings,         \* vectors each document has received
  stored,             \* documents handed to replace_document, in order
  embedding_batches,  \* calls of the embedder
  embedded_chunks     \* the result's counter

vars == <<documents, batch_size, stage, loaded, chunked, pending_documents,
          pending_chunks, embeddings, stored, embedding_batches,
          embedded_chunks>>

DocumentLists == UNION {[1 .. n -> 0 .. MaxChunks] : n \in 0 .. MaxDocuments}

(* "Batch size must be greater than zero" (pipeline.py:75). *)
Init ==
  /\ documents \in DocumentLists
  /\ batch_size \in 1 .. MaxBatchSize
  /\ stage = "loading"
  /\ loaded = 0
  /\ chunked = 0
  /\ pending_documents = <<>>
  /\ pending_chunks = <<>>
  /\ embeddings = [d \in DOMAIN documents |-> <<>>]
  /\ stored = <<>>
  /\ embedding_batches = 0
  /\ embedded_chunks = 0

-----------------------------------------------------------------------------
(* Mutant of Distribute: a vector goes in front of the earlier ones.       *)
DistributeInFront(batch, vectors) ==
  LET given[n \in 0 .. Len(batch)] ==
        IF n = 0 THEN vectors
        ELSE [given[n - 1] EXCEPT ![batch[n][1]] = <<batch[n]>> \o @]
  IN  given[Len(batch)]

(* One after the other, every vector of the batch goes to the document its *)
(* chunk came from.                                                        *)
Distribute(batch, vectors) ==
  LET given[n \in 0 .. Len(batch)] ==
        IF n = 0 THEN vectors
        ELSE [given[n - 1] EXCEPT ![batch[n][1]] = Append(@, batch[n])]
  IN  given[Len(batch)]

(* Mutant of Calls: an empty batch is sent too.                            *)
CallsAlways(batch) == 1

(* An empty batch is no call. *)
Calls(batch) == IF batch = <<>> THEN 0 ELSE 1

(* flush_embedding_batch, when the embedder returns a vector per text.     *)
Flush(batch) ==
  /\ embeddings' = Distribute(batch, embeddings)
  /\ embedding_batches' = embedding_batches + Calls(batch)
  /\ pending_chunks' = <<>>

IsComplete(d, vectors) == Len(vectors[d]) = documents[d]

(* Mutant of StoreCompleted: every complete document leaves, not only the  *)
(* head of the deque.                                                      *)
StoreAnyCompleted(vectors) ==
  LET leaving == SelectSeq(pending_documents, LAMBDA d : IsComplete(d, vectors))
  IN  /\ stored' = stored \o leaving
      /\ pending_documents' =
           SelectSeq(pending_documents, LAMBDA d : ~IsComplete(d, vectors))
      /\ embedded_chunks' = embedded_chunks
           + SumFunction([i \in DOMAIN leaving |-> documents[leaving[i]]])

(* store_completed_documents: from the head of the deque up to the first   *)
(* document that still waits for vectors.                                  *)
StoreCompleted(vectors) ==
  LET ready == Max({n \in 0 .. Len(pending_documents) :
                      \A i \in 1 .. n : IsComplete(pending_documents[i], vectors)})
      leaving == SubSeq(pending_documents, 1, ready)
  IN  /\ stored' = stored \o leaving
      /\ pending_documents' =
           SubSeq(pending_documents, ready + 1, Len(pending_documents))
      /\ embedded_chunks' = embedded_chunks
           + SumFunction([i \in 1 .. ready |-> documents[leaving[i]]])

(* Load and chunk the next document. *)
LoadDocument ==
  /\ stage = "loading"
  /\ loaded < Len(documents)
  /\ stage' = "chunking"
  /\ loaded' = loaded + 1
  /\ chunked' = 0
  /\ pending_documents' = Append(pending_documents, loaded + 1)
  /\ UNCHANGED <<documents, batch_size, pending_chunks, embeddings, stored,
                 embedding_batches, embedded_chunks>>

(* Mutant of HasChunk: the chunks do not run out.                          *)
HasChunkAlways == stage = "chunking"

HasChunk == stage = "chunking" /\ chunked < documents[loaded]

WithChunk == Append(pending_chunks, <<loaded, chunked + 1>>)

(* Mutant of FillsBatch: > for >=.                                         *)
OverfillsBatch == Len(WithChunk) > batch_size

FillsBatch == Len(WithChunk) = batch_size

AddChunk ==
  /\ HasChunk
  /\ ~FillsBatch
  /\ chunked' = chunked + 1
  /\ pending_chunks' = WithChunk
  /\ UNCHANGED <<documents, batch_size, stage, loaded, pending_documents,
                 embeddings, stored, embedding_batches, embedded_chunks>>

(* The chunk that fills the batch: flush, then store what is complete.     *)
AddChunkAndFlush ==
  /\ HasChunk
  /\ FillsBatch
  /\ chunked' = chunked + 1
  /\ Flush(WithChunk)
  /\ StoreCompleted(embeddings')
  /\ UNCHANGED <<documents, batch_size, stage, loaded>>

(* After the last chunk of a document; this stores an empty document.      *)
EndDocument ==
  /\ stage = "chunking"
  /\ chunked = documents[loaded]
  /\ stage' = "loading"
  /\ StoreCompleted(embeddings)
  /\ UNCHANGED <<documents, batch_size, loaded, chunked, pending_chunks,
                 embeddings, embedding_batches>>

AllLoaded == stage = "loading" /\ loaded = Len(documents)

(* Mutant of Finish: and nobody looks whether documents are left over.     *)
FinishUnchecked ==
  /\ AllLoaded
  /\ StoreCompleted(embeddings)
  /\ stage' = "done"
  /\ UNCHANGED <<documents, batch_size, loaded, chunked, pending_chunks,
                 embeddings, embedding_batches>>

(* The rest of the chunks, and the check that no document is left over.    *)
Finish ==
  /\ AllLoaded
  /\ Flush(pending_chunks)
  /\ StoreCompleted(embeddings')
  /\ stage' = IF pending_documents' = <<>> THEN "done" ELSE "leftover"
  /\ UNCHANGED <<documents, batch_size, loaded, chunked>>

(* source.load or the chunker raises. *)
LoadFails ==
  /\ stage = "loading"
  /\ loaded < Len(documents)
  /\ stage' = "failed"
  /\ UNCHANGED <<documents, batch_size, loaded, chunked, pending_documents,
                 pending_chunks, embeddings, stored, embedding_batches,
                 embedded_chunks>>

(* The embedder raises, or returns another number of vectors than texts.   *)
EmbedderFails ==
  /\ \/ HasChunk /\ FillsBatch
     \/ AllLoaded /\ pending_chunks # <<>>
  /\ stage' = "failed"
  /\ embedding_batches' = embedding_batches + 1
  /\ UNCHANGED <<documents, batch_size, loaded, chunked, pending_documents,
                 pending_chunks, embeddings, stored, embedded_chunks>>

Over == stage \in {"done", "leftover", "failed"}

Stopped == Over /\ UNCHANGED vars

Next == \/ LoadDocument \/ AddChunk \/ AddChunkAndFlush \/ EndDocument
        \/ Finish \/ LoadFails \/ EmbedderFails \/ Stopped

(* The loop runs by itself; it waits for nothing but the embedder.         *)
Spec == Init /\ [][Next]_vars /\ WF_vars(Next)

-----------------------------------------------------------------------------
Chunks == (1 .. MaxDocuments) \X (1 .. MaxChunks)

(* The variables have their types. *)
TypeOK ==
  /\ documents \in DocumentLists
  /\ batch_size \in 1 .. MaxBatchSize
  /\ stage \in {"loading", "chunking", "done", "leftover", "failed"}
  /\ loaded \in 0 .. Len(documents)
  /\ chunked \in 0 .. MaxChunks
  /\ pending_documents \in Seq(1 .. loaded)
  /\ pending_chunks \in Seq(Chunks)
  /\ embeddings \in [DOMAIN documents -> Seq(Chunks)]
  /\ stored \in Seq(1 .. loaded)
  /\ embedding_batches \in Nat
  /\ embedded_chunks \in Nat

(* A document's vectors are those of its own chunks, in chunk order and    *)
(* without a gap, however batches and documents overlap (pipeline.py:155): *)
(* the i-th vector is the vector of the i-th chunk.                        *)
EmbeddingsAligned ==
  \A d \in DOMAIN documents : \A i \in 1 .. Len(embeddings[d]) :
    embeddings[d][i] = <<d, i>>

(* Documents are stored completely, once and in loading order; with the    *)
(* pending ones they are the documents loaded so far.                      *)
StoredInOrder ==
  /\ stored \o pending_documents = [i \in 1 .. loaded |-> i]
  /\ \A i \in 1 .. Len(stored) : IsComplete(stored[i], embeddings)

(* What a run keeps in memory is bounded by the batch and one document:    *)
(* fewer chunks than a batch wait to be embedded, and only the oldest      *)
(* pending document holds vectors.                                         *)
PendingIsBounded ==
  /\ Len(pending_chunks) < batch_size
  /\ \A i \in 2 .. Len(pending_documents) : embeddings[pending_documents[i]] = <<>>

TotalChunks == SumFunction(documents)

(* The counters written to sync_runs: as few batches as the batch size     *)
(* allows, and every chunk counted once.                                   *)
CountersExact ==
  stage = "done" =>
    /\ embedded_chunks = TotalChunks
    /\ embedding_batches = (TotalChunks + batch_size - 1) \div batch_size

(* The loop ends, with every document stored unless something raised:      *)
(* "Could not map all embeddings to their documents" (pipeline.py:215)     *)
(* cannot happen, and no document is forgotten.                            *)
LoopEnds == <>(Over /\ (stage = "failed" \/ Len(stored) = Len(documents)))
=============================================================================

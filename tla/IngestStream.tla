------------------------------ MODULE IngestStream ------------------------------
(***************************************************************************)
(* One IngestReadings stream of the ingestor (services/ingestor): the      *)
(* handler that receives readings, its batch writer goroutine woken by a   *)
(* five second ticker, the batch they share under batchMutex, flushBatch   *)
(* with its write to sensor_readings and its publishes to readings.raw,    *)
(* and beside them one unary IngestSingleReading call.                     *)
(*                                                                         *)
(* The readings of the stream are numbered in the order they are sent.     *)
(***************************************************************************)
EXTENDS Naturals, Sequences, FiniteSets

CONSTANTS
  MaxSent,      \* bound on the readings a client sends
  Invalid,      \* those that validateReading rejects
  Single,       \* the reading of the unary call
  SingleValid,  \* whether validateReading accepts it
  BatchSize,    \* 100 in the code
  NoReply,      \* there is no IngestReadingsResponse
  MaxFaults     \* bound on database failures and lost answers to a publish

ASSUME IngestAssumption ==
  /\ MaxSent \in Nat /\ MaxFaults \in Nat
  /\ BatchSize \in Nat \ {0}
  /\ Invalid \subseteq 1..MaxSent
  /\ Single \notin Nat
  /\ SingleValid \in BOOLEAN

VARIABLES
  sent,       \* readings the client sent
  closing,    \* "open"; "eof": the client closed its side; "error": the stream broke
  received,   \* readings Recv returned
  main,       \* where the handler is
  writer,     \* where the batch writer goroutine is
  tick,       \* a tick is waiting in ticker.C
  mutex,      \* who holds batchMutex: "main", "writer" or "none"
  batch,
  step,       \* where flushBatch is; it runs under the mutex only
  pos,        \* the readings of the batch it has published or failed to publish
  hung,       \* the last of these publishes waits for an answer that was lost
  accepted,   \* acceptedCount
  rejected,   \* rejectedCount
  reply,      \* the IngestReadingsResponse
  unary,      \* where IngestSingleReading is
  saved,      \* the rows of sensor_readings, in order
  published,  \* the messages of readings.raw, in order
  faults

client == <<sent, closing>>
flush  == <<step, pos, hung>>
counts == <<accepted, rejected>>
stores == <<saved, published>>
vars == <<client, received, main, writer, tick, mutex, batch, flush, counts, reply,
          unary, stores, faults>>

MainStates == {"recv", "append", "flushing", "eof", "eofFlushing", "reply", "reply2", "returned"}

TypeOK ==
  /\ sent \in 0..MaxSent /\ received \in 0..sent
  /\ closing \in {"open", "eof", "error"}
  /\ main \in MainStates
  /\ writer \in {"select", "ticked", "flushing", "gone"}
  /\ tick \in BOOLEAN
  /\ mutex \in {"main", "writer", "none"}
  /\ batch \in Seq(1..MaxSent) /\ Len(batch) <= BatchSize
  /\ step \in {"idle", "save", "publish"}
  /\ pos \in 0..Len(batch)
  /\ hung \in BOOLEAN
  /\ accepted \in Nat /\ rejected \in Nat
  /\ reply = NoReply \/ reply \in [accepted : Nat, rejected : Nat]
  /\ unary \in {"idle", "save", "publish", "accepted", "refused", "failed"}
  /\ saved \in Seq(1..MaxSent \union {Single})
  /\ published \in Seq(1..MaxSent \union {Single})
  /\ faults \in 0..MaxFaults

Init ==
  /\ sent = 0 /\ closing = "open" /\ received = 0
  /\ main = "recv" /\ writer = "select" /\ tick = FALSE
  /\ mutex = "none" /\ batch = <<>>
  /\ step = "idle" /\ pos = 0 /\ hung = FALSE
  /\ accepted = 0 /\ rejected = 0 /\ reply = NoReply
  /\ unary = "idle"
  /\ saved = <<>> /\ published = <<>>
  /\ faults = 0

-------------------------------------------------------------------------------
(* The client *)

Send ==
  /\ closing = "open"
  /\ sent < MaxSent
  /\ sent' = sent + 1
  /\ UNCHANGED <<closing, received, main, writer, tick, mutex, batch, flush, counts, reply,
                 unary, stores, faults>>

CloseSend ==
  /\ closing = "open"
  /\ closing' = "eof"
  /\ UNCHANGED <<sent, received, main, writer, tick, mutex, batch, flush, counts, reply,
                 unary, stores, faults>>

\* The connection breaks or the client's deadline passes (the agent sets one),
\* also while the client waits for the response.
Break ==
  /\ closing # "error"
  /\ main # "returned"
  /\ closing' = "error"
  /\ UNCHANGED <<sent, received, main, writer, tick, mutex, batch, flush, counts, reply,
                 unary, stores, faults>>

-------------------------------------------------------------------------------
(* The handler *)

\* Recv returns a reading; one that is not valid is counted, without the mutex.
Recv ==
  /\ main = "recv"
  /\ closing # "error"
  /\ received < sent
  /\ received' = received + 1
  /\ IF received' \in Invalid
     THEN rejected' = rejected + 1 /\ main' = "recv"
     ELSE rejected' = rejected /\ main' = "append"
  /\ UNCHANGED <<client, writer, tick, mutex, batch, flush, accepted, reply, unary, stores, faults>>

RecvEOF ==
  /\ main = "recv"
  /\ closing = "eof"
  /\ received = sent
  /\ main' = "eof"
  /\ UNCHANGED <<client, received, writer, tick, mutex, batch, flush, counts, reply,
                 unary, stores, faults>>

\* The handler returns at once; what is still in the batch stays there.
RecvError ==
  /\ main = "recv"
  /\ closing = "error"
  /\ main' = "returned"
  /\ UNCHANGED <<client, received, writer, tick, mutex, batch, flush, counts, reply,
                 unary, stores, faults>>

\* Mutant of BatchFull: one more reading fits.
BatchOverfull(b) == Len(b) > BatchSize

BatchFull(b) == Len(b) >= BatchSize

\* Under the mutex: append, and flush a batch that is full.
AppendReading ==
  /\ main = "append"
  /\ mutex = "none"
  /\ batch' = Append(batch, received)
  /\ IF BatchFull(batch')
     THEN main' = "flushing" /\ mutex' = "main" /\ step' = "save"
     ELSE main' = "recv" /\ UNCHANGED <<mutex, step>>
  /\ UNCHANGED <<client, received, writer, tick, pos, hung, counts, reply, unary, stores, faults>>

\* Mutant of FlushAtEOF: only a full batch is written, as when a reading arrives.
FlushAtEOFIfFull ==
  /\ main = "eof"
  /\ mutex = "none"
  /\ main' = "reply"
  /\ UNCHANGED <<client, received, writer, tick, mutex, batch, flush, counts, reply, unary, stores, faults>>

\* Under the mutex: flush what is left.
FlushAtEOF ==
  /\ main = "eof"
  /\ mutex = "none"
  /\ IF batch # <<>>
     THEN main' = "eofFlushing" /\ mutex' = "main" /\ step' = "save"
     ELSE main' = "reply" /\ UNCHANGED <<mutex, step>>
  /\ UNCHANGED <<client, received, writer, tick, batch, pos, hung, counts, reply, unary, stores, faults>>

\* The response is built from the counters, without the mutex, one at a time.
ReadAccepted ==
  /\ main = "reply"
  /\ main' = "reply2"
  /\ reply' = [accepted |-> accepted, rejected |-> 0]
  /\ UNCHANGED <<client, received, writer, tick, mutex, batch, flush, counts, unary, stores, faults>>

SendAndClose ==
  /\ main = "reply2"
  /\ main' = "returned"
  /\ reply' = [reply EXCEPT !.rejected = rejected]
  /\ UNCHANGED <<client, received, writer, tick, mutex, batch, flush, counts, unary, stores, faults>>

-------------------------------------------------------------------------------
(* The batch writer goroutine *)

\* The ticker runs until the handler has returned; its channel holds one tick.
Tick ==
  /\ main # "returned"
  /\ tick' = TRUE
  /\ UNCHANGED <<client, received, main, writer, mutex, batch, flush, counts, reply,
                 unary, stores, faults>>

TakeTick ==
  /\ writer = "select"
  /\ tick
  /\ tick' = FALSE
  /\ writer' = "ticked"
  /\ UNCHANGED <<client, received, main, mutex, batch, flush, counts, reply, unary, stores, faults>>

\* Mutant of FlushOnTick: only a full batch is written.
FlushOnTickIfFull ==
  /\ writer = "ticked"
  /\ mutex = "none"
  /\ writer' = "select"
  /\ UNCHANGED <<client, received, main, tick, mutex, batch, flush, counts, reply, unary, stores, faults>>

FlushOnTick ==
  /\ writer = "ticked"
  /\ mutex = "none"
  /\ IF batch # <<>>
     THEN writer' = "flushing" /\ mutex' = "writer" /\ step' = "save"
     ELSE writer' = "select" /\ UNCHANGED <<mutex, step>>
  /\ UNCHANGED <<client, received, main, tick, batch, pos, hung, counts, reply, unary, stores, faults>>

\* Mutant of WriterDone: done is closed only on a clean end of the stream.
WriterDoneOnReply ==
  /\ writer = "select"
  /\ main = "returned" /\ reply # NoReply
  /\ writer' = "gone"
  /\ UNCHANGED <<client, received, main, tick, mutex, batch, flush, counts, reply,
                 unary, stores, faults>>

\* done is closed.  With a tick left over select may take either.
WriterDone ==
  /\ writer = "select"
  /\ main = "returned"
  /\ writer' = "gone"
  /\ UNCHANGED <<client, received, main, tick, mutex, batch, flush, counts, reply,
                 unary, stores, faults>>

-------------------------------------------------------------------------------
(* flushBatch, called by whoever holds the mutex *)

\* Mutant of AfterFlush: the flush of a full batch does not empty it.
AfterFlushKeeping ==
  /\ step' = "idle" /\ pos' = 0
  /\ mutex' = "none"
  /\ main' = CASE main = "flushing" -> "recv"
               [] main = "eofFlushing" -> "reply"
               [] OTHER -> main
  /\ IF mutex = "writer"
     THEN writer' = "select" /\ batch' = <<>>
     ELSE writer' = writer /\ batch' = batch

\* The caller empties the batch, except at the end of the stream, and unlocks.
AfterFlush ==
  /\ step' = "idle" /\ pos' = 0
  /\ mutex' = "none"
  /\ IF mutex = "writer"
     THEN writer' = "select" /\ main' = main
     ELSE writer' = writer /\ main' = IF main = "flushing" THEN "recv" ELSE "reply"
  /\ batch' = IF mutex = "main" /\ main = "eofFlushing" THEN batch ELSE <<>>

\* CopyFrom inserts all rows or none.
SaveReadingsBatch ==
  /\ step = "save"
  /\ saved' = saved \o batch
  /\ step' = "publish"
  /\ UNCHANGED <<client, received, main, writer, tick, mutex, batch, pos, hung, counts, reply,
                 unary, published, faults>>

\* The stream's ctx is done once the stream broke or the handler returned.
CtxDone == closing = "error" \/ main = "returned"

\* Mutant of SaveFails: the error is logged and the readings are published.
SaveFailsButPublishes ==
  /\ step = "save"
  /\ faults < MaxFaults
  /\ faults' = faults + 1
  /\ step' = "publish"
  /\ UNCHANGED <<client, received, main, writer, tick, mutex, batch, pos, hung, counts, reply,
                 unary, stores>>

\* It fails; after a timeout the rows may have been committed all the same.
SaveFails ==
  /\ step = "save"
  /\ CtxDone \/ faults < MaxFaults
  /\ faults' = IF CtxDone THEN faults ELSE faults + 1
  /\ saved' \in {saved, saved \o batch}
  /\ rejected' = rejected + Len(batch)
  /\ AfterFlush
  /\ UNCHANGED <<client, received, tick, hung, accepted, reply, unary, published>>

\* Mutant of PublishReading: the batch is published from its end.
PublishBackwards ==
  /\ step = "publish" /\ ~hung
  /\ pos < Len(batch)
  /\ pos' = pos + 1
  /\ published' \in {published, Append(published, batch[Len(batch) - pos])}
  /\ UNCHANGED <<client, received, main, writer, tick, mutex, batch, step, hung, counts, reply,
                 unary, saved, faults>>

\* One message per reading, in order, each sent when the one before it returned.
\* A publish that fails is only logged.
PublishReading ==
  /\ step = "publish" /\ ~hung
  /\ pos < Len(batch)
  /\ pos' = pos + 1
  /\ published' \in {published, Append(published, batch[pos + 1])}
  /\ UNCHANGED <<client, received, main, writer, tick, mutex, batch, step, hung, counts, reply,
                 unary, saved, faults>>

\* A publish waits for the server's answer under the stream's ctx and nothing
\* else: when the answer is lost it blocks, with batchMutex held.
PublishHangs ==
  /\ step = "publish" /\ ~hung
  /\ pos > 0
  /\ ~CtxDone /\ faults < MaxFaults
  /\ hung' = TRUE
  /\ faults' = faults + 1
  /\ UNCHANGED <<client, received, main, writer, tick, mutex, batch, step, pos, counts, reply,
                 unary, stores>>

\* ... until that ctx is done: it returns an error, which is only logged.
PublishCancelled ==
  /\ hung
  /\ CtxDone
  /\ hung' = FALSE
  /\ UNCHANGED <<client, received, main, writer, tick, mutex, batch, step, pos, counts, reply,
                 unary, stores, faults>>

CountAccepted ==
  /\ step = "publish" /\ ~hung
  /\ pos = Len(batch)
  /\ accepted' = accepted + Len(batch)
  /\ AfterFlush
  /\ UNCHANGED <<client, received, tick, hung, rejected, reply, unary, stores, faults>>

-------------------------------------------------------------------------------
(* IngestSingleReading, a unary call of another sensor *)

SingleCall ==
  /\ unary = "idle"
  /\ unary' = IF SingleValid THEN "save" ELSE "refused"
  /\ UNCHANGED <<client, received, main, writer, tick, mutex, batch, flush, counts, reply,
                 stores, faults>>

SaveReading ==
  /\ unary = "save"
  /\ saved' = Append(saved, Single)
  /\ unary' = "publish"
  /\ UNCHANGED <<client, received, main, writer, tick, mutex, batch, flush, counts, reply,
                 published, faults>>

SaveReadingFails ==
  /\ unary = "save"
  /\ faults < MaxFaults
  /\ faults' = faults + 1
  /\ saved' \in {saved, Append(saved, Single)}
  /\ unary' = "failed"
  /\ UNCHANGED <<client, received, main, writer, tick, mutex, batch, flush, counts, reply,
                 published>>

PublishSingle ==
  /\ unary = "publish"
  /\ published' \in {published, Append(published, Single)}
  /\ unary' = "accepted"
  /\ UNCHANGED <<client, received, main, writer, tick, mutex, batch, flush, counts, reply,
                 saved, faults>>

-------------------------------------------------------------------------------
Handler == Recv \/ RecvEOF \/ RecvError \/ AppendReading \/ FlushAtEOF \/ ReadAccepted \/ SendAndClose
Writer == TakeTick \/ FlushOnTick \/ WriterDone
FlushBatch == SaveReadingsBatch \/ SaveFails \/ PublishReading \/ PublishCancelled \/ CountAccepted
IngestSingleReading == SingleCall \/ SaveReading \/ SaveReadingFails \/ PublishSingle

Next ==
  \/ Send \/ CloseSend \/ Break
  \/ Handler
  \/ Tick \/ Writer
  \/ FlushBatch \/ PublishHangs
  \/ IngestSingleReading

Spec == Init /\ [][Next]_vars

\* The goroutines run, the ticker ticks, and flushBatch goes on: a save has a
\* timeout of five seconds, a publish returns when it is answered or its ctx is
\* done.  That every publish is answered is not assumed, nor that a client ever
\* leaves.  batchMutex does not starve a goroutine (Go's mutex hands itself over to
\* one that waited for a millisecond).
FairSpec ==
  /\ Spec
  /\ WF_vars(Handler) /\ SF_vars(AppendReading) /\ SF_vars(FlushAtEOF)
  /\ WF_vars(Tick) /\ WF_vars(TakeTick) /\ SF_vars(FlushOnTick) /\ WF_vars(WriterDone)
  /\ WF_vars(FlushBatch)

-------------------------------------------------------------------------------
(* Properties *)

Count(q, r) == Cardinality({i \in DOMAIN q : q[i] = r})

\* Where q holds readings of the stream, and that they are in the stream's order.
OfStream(q) == {i \in DOMAIN q : q[i] # Single}
IsIncreasing(q) == \A i, j \in OfStream(q) : i < j => q[i] < q[j]

\* The handler is still receiving, or takes its turn to append.
Receiving == main \in {"recv", "append", "flushing"}

\* A message on readings.raw has a row in sensor_readings, as many times: the
\* dual write never announces a reading that is not stored.
PublishedIsSaved ==
  \A r \in 1..MaxSent \union {Single} : Count(published, r) <= Count(saved, r)

\* While the stream is open, two goroutines flushing one batch neither lose a
\* reading nor count one twice: what was received is counted or in the batch.
Accounted ==
  Receiving =>
    received = accepted + rejected + Len(batch) + (IF main = "append" THEN 1 ELSE 0)

\* While the stream is open, its readings are stored and published at most once
\* and in the order they were sent, whichever goroutine flushes.
InOrderWhileOpen ==
  Receiving => IsIncreasing(saved) /\ IsIncreasing(published)

\* The client is never told of more accepted readings than rows were stored,
\* however the response races with a last flush and whichever saves failed.
ReplyIsBacked ==
  reply # NoReply => reply.accepted <= Cardinality(OfStream(saved))

\* The response to a stream that ends normally leaves no reading out: each one was
\* accepted or rejected, whichever goroutine flushed it and however the two reads
\* of the counters interleave with a last flush.
ReplyCoversStream ==
  main = "returned" /\ closing = "eof" => reply.accepted + reply.rejected >= sent

\* A reading does not stay in the batch of an open stream: it is flushed after
\* some tick although the batch never fills up, unless a publish lost its answer
\* and holds the mutex.
BatchIsFlushed == batch # <<>> ~> batch = <<>> \/ ~Receiving \/ hung

\* However the stream ends, the handler returns and the batch writer ends.  Only a
\* publish that lost its answer keeps a stream whose client closed its side, and
\* a client that leaves or runs into its deadline ends that as well.
StreamEnds ==
  /\ closing = "error" ~> main = "returned" /\ writer = "gone"
  /\ closing = "eof" ~> main = "returned" \/ hung
  /\ main = "returned" ~> writer = "gone"

\* The tests expect the response to a stream that ends normally to cover every
\* reading that was sent, once.
ReplyAddsUp ==
  main = "returned" /\ closing = "eof" => reply.accepted + reply.rejected = sent
================================================================================

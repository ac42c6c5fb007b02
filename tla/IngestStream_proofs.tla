-------------------------- MODULE IngestStream_proofs --------------------------
(***************************************************************************)
(* Proofs about IngestStream, for any number of readings, any batch size   *)
(* and any number of faults.                                               *)
(***************************************************************************)
EXTENDS IngestStream, SequenceFacts

\* batchMutex excludes: the holder is the goroutine that is flushing, and a flush
\* is under way exactly while somebody holds the mutex.
Exclusion ==
  /\ mutex = "main" <=> main \in {"flushing", "eofFlushing"}
  /\ mutex = "writer" <=> writer = "flushing"
  /\ mutex = "none" <=> step = "idle"

\* While the handler appends, a reading was received, and there is room for it in
\* the batch; there is also while the handler waits for the next one.
RoomToAppend ==
  /\ main = "append" => received > 0
  /\ main \in {"recv", "append"} => Len(batch) < BatchSize

\* SendAndClose completes the response that ReadAccepted began.
ReplyBegun == main = "reply2" => reply \in [accepted : Nat, rejected : Nat]

TypeInv == TypeOK /\ Exclusion /\ RoomToAppend /\ ReplyBegun

\* A stream begins with nothing received, stored or published.
LEMMA TypeInvInit == Init => TypeInv
<1> SUFFICES ASSUME Init PROVE TypeInv
  OBVIOUS
<1> USE IngestAssumption DEF Init
<1>1. batch \in Seq(1..MaxSent) /\ Len(batch) = 0
  BY EmptyFacts
<1>2. saved \in Seq(1..MaxSent \union {Single}) /\ published \in Seq(1..MaxSent \union {Single})
  BY EmptyFacts
<1>3. sent \in 0..MaxSent /\ received \in 0..sent /\ faults \in 0..MaxFaults
  OBVIOUS
<1>4. pos \in 0..Len(batch) /\ Len(batch) <= BatchSize
  BY <1>1
<1>5. main \in MainStates /\ tick \in BOOLEAN
  BY DEF MainStates
<1>6. TypeOK
  BY <1>1, <1>2, <1>3, <1>4, <1>5 DEF TypeOK
<1> QED BY <1>1, <1>6 DEF TypeInv, Exclusion, RoomToAppend, ReplyBegun

\* What AfterFlush does to the types: the mutex is free, the flush over, and the
\* batch empty or kept.
LEMMA AfterFlushType ==
  ASSUME TypeInv, AfterFlush, step # "idle", UNCHANGED <<received, reply>>
  PROVE  /\ main' \in MainStates /\ writer' \in {"select", "ticked", "flushing", "gone"}
         /\ mutex' \in {"main", "writer", "none"}
         /\ batch' \in Seq(1..MaxSent) /\ Len(batch') <= BatchSize
         /\ step' \in {"idle", "save", "publish"}
         /\ pos' \in 0..Len(batch')
         /\ Exclusion' /\ RoomToAppend' /\ ReplyBegun'
<1> USE IngestAssumption DEF TypeInv, TypeOK, MainStates, Exclusion
<1>1. CASE mutex = "writer"
  <2>1. batch' = <<>> /\ writer' = "select" /\ main' = main
    BY <1>1 DEF AfterFlush
  <2> QED BY <1>1, <2>1, EmptyFacts DEF AfterFlush, RoomToAppend, ReplyBegun
<1>2. CASE mutex = "main" /\ main = "flushing"
  <2>1. batch' = <<>> /\ writer' = writer /\ main' = "recv"
    BY <1>2 DEF AfterFlush
  <2> QED BY <1>2, <2>1, EmptyFacts DEF AfterFlush, RoomToAppend, ReplyBegun
<1>3. CASE mutex = "main" /\ main = "eofFlushing"
  <2>1. batch' = batch /\ writer' = writer /\ main' = "reply"
    BY <1>3 DEF AfterFlush
  <2> QED BY <1>3, <2>1, SeqFacts DEF AfterFlush, RoomToAppend, ReplyBegun
<1> QED BY <1>1, <1>2, <1>3

\* A publish that hangs, or is cancelled, touches nothing but hung and faults.
HangingLeaves ==
  UNCHANGED <<client, received, main, writer, tick, mutex, batch, step, pos, counts, reply, unary,
              stores>>

LEMMA HangingType ==
  ASSUME PublishHangs \/ PublishCancelled, faults \in 0..MaxFaults
  PROVE  hung' \in BOOLEAN /\ faults' \in 0..MaxFaults /\ HangingLeaves
<1>1. CASE PublishHangs
  <2>1. hung' \in BOOLEAN /\ HangingLeaves
    BY <1>1, Zenon DEF PublishHangs, HangingLeaves
  <2>2. faults' = faults + 1 /\ faults < MaxFaults
    BY <1>1, Zenon DEF PublishHangs
  <2>3. faults' \in 0..MaxFaults
    BY <2>2, IngestAssumption
  <2> QED BY <2>1, <2>3
<1>2. CASE PublishCancelled
  <2>1. hung' \in BOOLEAN /\ HangingLeaves /\ faults' = faults
    BY <1>2, Zenon DEF PublishCancelled, HangingLeaves
  <2> QED BY <2>1
<1> QED BY <1>1, <1>2

LEMMA TypeInvStep == TypeInv /\ [Next]_vars => TypeInv'
<1> SUFFICES ASSUME TypeInv, [Next]_vars PROVE TypeInv'
  OBVIOUS
<1> DEFINE R == 1..MaxSent \union {Single}
<1> USE IngestAssumption DEF TypeInv, TypeOK, MainStates, Exclusion, RoomToAppend, ReplyBegun,
      client, flush, counts, stores
<1>1. CASE Send
  BY <1>1 DEF Send
<1>2. CASE CloseSend \/ Break
  BY <1>2 DEF CloseSend, Break
<1>3. CASE Recv
  BY <1>3 DEF Recv
<1>4. CASE RecvEOF \/ RecvError
  BY <1>4 DEF RecvEOF, RecvError
<1>5. CASE AppendReading
  <2>1. received \in 1..MaxSent
    BY <1>5 DEF AppendReading
  <2>2. batch' \in Seq(1..MaxSent) /\ Len(batch') = Len(batch) + 1
    BY <1>5, <2>1, AppendFacts DEF AppendReading
  <2>3. Len(batch') <= BatchSize /\ pos' \in 0..Len(batch') /\ Len(batch') \in Nat
    <3>1. Len(batch) \in Nat
      OBVIOUS
    <3> QED BY <1>5, <2>2, <3>1 DEF AppendReading
  <2>4. CASE BatchFull(batch')
    BY <1>5, <2>2, <2>3, <2>4 DEF AppendReading
  <2>5. CASE ~BatchFull(batch')
    BY <1>5, <2>2, <2>3, <2>5 DEF AppendReading, BatchFull
  <2> QED BY <2>4, <2>5
<1>6. CASE FlushAtEOF
  BY <1>6 DEF FlushAtEOF
<1>7. CASE ReadAccepted
  BY <1>7 DEF ReadAccepted
<1>8. CASE SendAndClose
  <2>1. reply \in [accepted : Nat, rejected : Nat]
    BY <1>8 DEF SendAndClose
  <2>2. reply' \in [accepted : Nat, rejected : Nat]
    BY <1>8, <2>1 DEF SendAndClose
  <2> QED BY <1>8, <2>2 DEF SendAndClose
<1>9. CASE Tick
  BY <1>9 DEF Tick
<1>10. CASE TakeTick
  BY <1>10 DEF TakeTick
<1>11. CASE FlushOnTick
  BY <1>11 DEF FlushOnTick
<1>12. CASE WriterDone
  BY <1>12 DEF WriterDone
<1>13. CASE SaveReadingsBatch
  <2>1. saved' \in Seq(R)
    BY <1>13, SeqMono, ConcatFacts DEF SaveReadingsBatch
  <2> QED BY <1>13, <2>1 DEF SaveReadingsBatch
<1>14. CASE SaveFails
  <2>1. saved' \in Seq(R)
    <3>1. saved \in Seq(R)
      OBVIOUS
    <3>2. batch \in Seq(R)
      <4>1. 1..MaxSent \subseteq R /\ batch \in Seq(1..MaxSent)
        OBVIOUS
      <4> QED BY <4>1, SeqMono
    <3>3. saved \o batch \in Seq(R)
      BY <3>1, <3>2, ConcatFacts
    <3>4. saved' = saved \/ saved' = saved \o batch
      BY <1>14 DEF SaveFails
    <3> QED BY <3>1, <3>3, <3>4
  <2>2. rejected' \in Nat /\ faults' \in 0..MaxFaults
    BY <1>14, SeqFacts DEF SaveFails
  <2>3. AfterFlush /\ step # "idle" /\ UNCHANGED <<received, reply>>
    BY <1>14 DEF SaveFails
  <2>4. UNCHANGED <<sent, closing, tick, hung, accepted, unary, published>>
    BY <1>14 DEF SaveFails
  <2> HIDE DEF Exclusion, RoomToAppend, ReplyBegun
  <2> QED BY <2>1, <2>2, <2>3, <2>4, AfterFlushType
<1>15. CASE PublishReading
  <2>1. batch[pos + 1] \in R
    BY <1>15 DEF PublishReading
  <2>2. published' \in Seq(R)
    <3>1. Append(published, batch[pos + 1]) \in Seq(R)
      BY <2>1, AppendFacts
    <3>2. published' = published \/ published' = Append(published, batch[pos + 1])
      BY <1>15 DEF PublishReading
    <3> QED BY <3>1, <3>2
  <2> QED BY <1>15, <2>2 DEF PublishReading
<1>16. CASE CountAccepted
  <2>1. accepted' \in Nat
    BY <1>16, SeqFacts DEF CountAccepted
  <2>2. AfterFlush /\ step # "idle" /\ UNCHANGED <<received, reply>>
    BY <1>16 DEF CountAccepted
  <2>3. UNCHANGED <<sent, closing, tick, hung, rejected, unary, saved, published, faults>>
    BY <1>16 DEF CountAccepted
  <2> HIDE DEF Exclusion, RoomToAppend, ReplyBegun
  <2> QED BY <2>1, <2>2, <2>3, AfterFlushType
<1>17. CASE SingleCall
  BY <1>17 DEF SingleCall
<1>18. CASE SaveReading
  BY <1>18, AppendFacts DEF SaveReading
<1>19. CASE SaveReadingFails
  <2>1. Append(saved, Single) \in Seq(R)
    BY AppendFacts
  <2>2. saved' = saved \/ saved' = Append(saved, Single)
    BY <1>19 DEF SaveReadingFails
  <2>3. saved' \in Seq(R)
    BY <2>1, <2>2
  <2> QED BY <1>19, <2>3 DEF SaveReadingFails
<1>20. CASE PublishSingle
  <2>1. Append(published, Single) \in Seq(R)
    BY AppendFacts
  <2>2. published' = published \/ published' = Append(published, Single)
    BY <1>20 DEF PublishSingle
  <2>3. published' \in Seq(R)
    BY <2>1, <2>2
  <2> QED BY <1>20, <2>3 DEF PublishSingle
<1>21. CASE PublishHangs \/ PublishCancelled
  <2>1. hung' \in BOOLEAN /\ faults' \in 0..MaxFaults /\ HangingLeaves
    BY <1>21, HangingType
  <2> QED BY <2>1 DEF HangingLeaves
<1>22. CASE UNCHANGED vars
  BY <1>22 DEF vars
<1> QED
  BY <1>1, <1>2, <1>3, <1>4, <1>5, <1>6, <1>7, <1>8, <1>9, <1>10, <1>11, <1>12, <1>13, <1>14,
     <1>15, <1>16, <1>17, <1>18, <1>19, <1>20, <1>21, <1>22
  DEF Next, Handler, Writer, FlushBatch, IngestSingleReading

\* Every variable keeps its type; in particular the batch never outgrows BatchSize,
\* whichever goroutine flushes it.
THEOREM TypeCorrect == Spec => []TypeOK
<1>1. TypeInv => TypeOK
  BY DEF TypeInv
<1> QED BY TypeInvInit, TypeInvStep, <1>1, PTL DEF Spec

LEMMA TypeInvAlways == Spec => []TypeInv
BY TypeInvInit, TypeInvStep, PTL DEF Spec

-------------------------------------------------------------------------------
(* Accounting *)

\* A flush moves the length of the batch into one of the counters as it empties
\* the batch, and leaves the loop of Recv only at the end of the stream.
LEMMA AfterFlushAccounts ==
  ASSUME TypeInv, AfterFlush, step # "idle", Receiving'
  PROVE  /\ Receiving
         /\ Len(batch') = 0
         /\ main # "append" => main' # "append"
         /\ main = "append" => main' = "append"
<1> USE DEF TypeInv, TypeOK, MainStates, Exclusion, Receiving
<1>1. CASE mutex = "writer"
  BY <1>1, EmptyFacts DEF AfterFlush
<1>2. CASE mutex = "main" /\ main = "flushing"
  BY <1>2, EmptyFacts DEF AfterFlush
<1>3. CASE mutex = "main" /\ main = "eofFlushing"
  BY <1>3 DEF AfterFlush
<1> QED BY <1>1, <1>2, <1>3

LEMMA AccountedStep == TypeInv /\ Accounted /\ [Next]_vars => Accounted'
<1> SUFFICES ASSUME TypeInv, Accounted, [Next]_vars, Receiving'
             PROVE  Accounted'
  BY DEF Accounted
<1> USE DEF Accounted, client, flush, counts, stores
<1>0. /\ received \in Nat /\ accepted \in Nat /\ rejected \in Nat /\ Len(batch) \in Nat
      /\ batch \in Seq(1..MaxSent)
  BY IngestAssumption, SeqFacts DEF TypeInv, TypeOK
<1>1. CASE UNCHANGED <<received, main, batch, counts>>
  BY <1>1 DEF Receiving
<1>2. CASE Recv
  <2>1. main = "recv" /\ received' = received + 1 /\ accepted' = accepted /\ batch' = batch
    BY <1>2 DEF Recv
  <2>2. CASE received' \in Invalid
    BY <1>0, <1>2, <2>1, <2>2 DEF Recv, Receiving
  <2>3. CASE received' \notin Invalid
    BY <1>0, <1>2, <2>1, <2>3 DEF Recv, Receiving
  <2> QED BY <2>2, <2>3
<1>3. CASE RecvEOF \/ RecvError
  BY <1>3 DEF RecvEOF, RecvError, Receiving
<1>4. CASE AppendReading
  <2>1. received \in 1..MaxSent
    BY <1>4, IngestAssumption DEF AppendReading, TypeInv, TypeOK, RoomToAppend
  <2>2. Len(batch') = Len(batch) + 1
    BY <1>0, <1>4, <2>1, AppendFacts DEF AppendReading
  <2>3. main = "append" /\ main' # "append" /\ UNCHANGED <<received, counts>>
    BY <1>4 DEF AppendReading
  <2> QED BY <1>0, <2>2, <2>3 DEF Receiving
<1>5. CASE FlushAtEOF \/ ReadAccepted \/ SendAndClose
  BY <1>5 DEF FlushAtEOF, ReadAccepted, SendAndClose, Receiving
<1>6. CASE SaveFails
  <2>1. /\ AfterFlush /\ step # "idle"
        /\ rejected' = rejected + Len(batch) /\ UNCHANGED <<received, accepted>>
    BY <1>6 DEF SaveFails
  <2> QED BY <1>0, <2>1, AfterFlushAccounts
<1>7. CASE CountAccepted
  <2>1. /\ AfterFlush /\ step # "idle"
        /\ accepted' = accepted + Len(batch) /\ UNCHANGED <<received, rejected>>
    BY <1>7 DEF CountAccepted
  <2> QED BY <1>0, <2>1, AfterFlushAccounts
<1>8. CASE \/ Send \/ CloseSend \/ Break \/ Tick \/ Writer
           \/ SaveReadingsBatch \/ PublishReading \/ PublishHangs \/ PublishCancelled
           \/ IngestSingleReading
  BY <1>1, <1>8
  DEF Send, CloseSend, Break, Tick, Writer, TakeTick, FlushOnTick, WriterDone, SaveReadingsBatch,
      PublishReading, PublishHangs, PublishCancelled, IngestSingleReading, SingleCall, SaveReading,
      SaveReadingFails, PublishSingle
<1>9. CASE UNCHANGED vars
  BY <1>1, <1>9 DEF vars
<1> QED
  BY <1>2, <1>3, <1>4, <1>5, <1>6, <1>7, <1>8, <1>9 DEF Next, Handler, FlushBatch

\* While the stream is open every reading received is counted once or still in
\* the batch, whichever goroutine flushes and whichever saves fail.
THEOREM NothingMiscounted == Spec => []Accounted
<1>1. Init => Accounted
  <2>1. Init => Len(batch) = 0
    BY EmptyFacts DEF Init
  <2> QED BY <2>1 DEF Init, Accounted
<1> QED BY <1>1, TypeInvAlways, AccountedStep, PTL DEF Spec

-------------------------------------------------------------------------------
(* The response covers the stream *)

\* Past the end of the stream the sum of the counters and the batch still holds
\* every reading until the last flush is over; from then on the counters alone do,
\* and whatever the batch writer flushes again only adds to them.
CoverInv ==
  /\ main \in {"eof", "eofFlushing"} => sent = accepted + rejected + Len(batch)
  /\ main \in {"eof", "eofFlushing", "reply", "reply2"} => closing # "open"
  /\ main = "reply" => sent <= accepted + rejected
  /\ main = "reply2" => sent <= reply.accepted + rejected
  /\ main = "returned" => closing # "open"
  /\ main = "returned" /\ closing = "eof" => sent <= reply.accepted + reply.rejected

\* The last flush leaves every reading in the counters; one of the batch writer
\* before it moves the batch into them.
LEMMA AfterFlushCovers ==
  ASSUME TypeInv, CoverInv, AfterFlush, step # "idle", UNCHANGED <<sent, closing, reply>>,
         NEW a \in Nat, NEW r \in Nat, accepted' = accepted + a, rejected' = rejected + r,
         a + r = Len(batch)
  PROVE  CoverInv'
<1>1. /\ sent \in Nat /\ accepted \in Nat /\ rejected \in Nat
      /\ Len(batch) \in Nat
      /\ main = "reply2" => reply.accepted \in Nat
  BY IngestAssumption, SeqFacts DEF TypeInv, TypeOK, ReplyBegun
<1>2. CASE mutex = "writer"
  <2>1. main' = main /\ Len(batch') = 0
    BY <1>2, EmptyFacts DEF AfterFlush
  <2> QED BY <1>1, <2>1 DEF CoverInv
<1>3. CASE mutex = "main" /\ main = "flushing"
  <2>1. main' = "recv"
    BY <1>3 DEF AfterFlush
  <2> QED BY <2>1 DEF CoverInv
<1>4. CASE mutex = "main" /\ main = "eofFlushing"
  <2>1. main' = "reply"
    BY <1>4 DEF AfterFlush
  <2> QED BY <1>1, <1>4, <2>1 DEF CoverInv
<1> QED BY <1>2, <1>3, <1>4 DEF TypeInv, TypeOK, Exclusion

LEMMA CoverStep == TypeInv /\ Accounted /\ CoverInv /\ [Next]_vars => CoverInv'
<1> SUFFICES ASSUME TypeInv, Accounted, CoverInv, [Next]_vars PROVE CoverInv'
  OBVIOUS
<1> USE DEF client, flush, counts, stores
<1>0. /\ sent \in Nat /\ accepted \in Nat /\ rejected \in Nat
      /\ Len(batch) \in Nat
      /\ main = "reply2" => reply \in [accepted : Nat, rejected : Nat]
  BY IngestAssumption, SeqFacts DEF TypeInv, TypeOK, ReplyBegun
<1>1. CASE UNCHANGED <<client, main, batch, counts, reply>>
  BY <1>1 DEF CoverInv
<1>2. CASE Send \/ CloseSend \/ Break
  BY <1>2 DEF Send, CloseSend, Break, CoverInv
<1>3. CASE Recv \/ AppendReading
  BY <1>3 DEF Recv, AppendReading, CoverInv
<1>4. CASE RecvEOF
  <2>1. sent = accepted + rejected + Len(batch)
    BY <1>0, <1>4 DEF RecvEOF, Accounted, Receiving
  <2> QED BY <1>4, <2>1 DEF RecvEOF, CoverInv
<1>5. CASE RecvError
  BY <1>5 DEF RecvError, CoverInv
<1>6. CASE FlushAtEOF
  <2>1. batch = <<>> => Len(batch) = 0
    BY EmptyFacts
  <2> QED BY <1>0, <1>6, <2>1 DEF FlushAtEOF, CoverInv
<1>7. CASE ReadAccepted
  BY <1>0, <1>7 DEF ReadAccepted, CoverInv
<1>8. CASE SendAndClose
  <2>1. reply'.accepted = reply.accepted /\ reply'.rejected = rejected
    BY <1>0, <1>8 DEF SendAndClose
  <2> QED BY <1>0, <1>8, <2>1 DEF SendAndClose, CoverInv
<1>9. CASE SaveFails
  <2>1. /\ AfterFlush /\ step # "idle" /\ rejected' = rejected + Len(batch)
        /\ UNCHANGED <<client, accepted, reply>>
    BY <1>9 DEF SaveFails
  <2>2. accepted' = accepted + 0 /\ 0 + Len(batch) = Len(batch)
    BY <1>0, <2>1
  <2> QED BY <1>0, <2>1, <2>2, AfterFlushCovers
<1>10. CASE CountAccepted
  <2>1. /\ AfterFlush /\ step # "idle" /\ accepted' = accepted + Len(batch)
        /\ UNCHANGED <<client, rejected, reply>>
    BY <1>10 DEF CountAccepted
  <2>2. rejected' = rejected + 0 /\ Len(batch) + 0 = Len(batch)
    BY <1>0, <2>1
  <2> QED BY <1>0, <2>1, <2>2, AfterFlushCovers
<1>11. CASE \/ Tick \/ Writer \/ SaveReadingsBatch \/ PublishReading \/ PublishHangs
            \/ PublishCancelled \/ IngestSingleReading
  BY <1>1, <1>11
  DEF Tick, Writer, TakeTick, FlushOnTick, WriterDone, SaveReadingsBatch, PublishReading,
      PublishHangs, PublishCancelled, IngestSingleReading, SingleCall, SaveReading, SaveReadingFails, PublishSingle
<1>12. CASE UNCHANGED vars
  BY <1>1, <1>12 DEF vars
<1> QED
  BY <1>2, <1>3, <1>4, <1>5, <1>6, <1>7, <1>8, <1>9, <1>10, <1>11, <1>12
  DEF Next, Handler, FlushBatch

\* The response to a stream that ends normally leaves no reading out: a tick after
\* the last flush, or between the reads of the two counters, can only make it say
\* too much.
THEOREM RepliesCoverTheStream == Spec => []ReplyCoversStream
<1>1. Init => CoverInv
  BY DEF Init, CoverInv
<1>2. CoverInv => ReplyCoversStream
  BY DEF CoverInv, ReplyCoversStream
<1> QED BY <1>1, <1>2, TypeInvAlways, NothingMiscounted, CoverStep, PTL DEF Spec

-------------------------------------------------------------------------------
(* What the steps do to the stores *)

AnyReading == 1..MaxSent \union {Single}

LEMMA StoresType ==
  TypeInv => /\ saved \in Seq(AnyReading) /\ published \in Seq(AnyReading)
             /\ batch \in Seq(AnyReading) /\ batch \in Seq(1..MaxSent)
<1> SUFFICES ASSUME TypeInv PROVE batch \in Seq(AnyReading)
  BY DEF TypeInv, TypeOK, AnyReading
<1>1. batch \in Seq(1..MaxSent) /\ 1..MaxSent \subseteq AnyReading
  BY DEF TypeInv, TypeOK, AnyReading
<1> QED BY <1>1, SeqMono

LEMMA StoresTypeNext ==
  TypeInv' => /\ saved' \in Seq(AnyReading) /\ published' \in Seq(AnyReading)
              /\ batch' \in Seq(AnyReading)
<1>1. (TypeInv => /\ saved \in Seq(AnyReading) /\ published \in Seq(AnyReading)
                  /\ batch \in Seq(AnyReading))'
  BY StoresType, PTL
<1> QED BY <1>1 DEF AnyReading

\* sensor_readings only grows: by a batch, or by the reading of the unary call.
SavedGrows == saved' \in {saved, saved \o batch, Append(saved, Single)}

LEMMA StoreSteps ==
  ASSUME TypeInv, [Next]_vars
  PROVE  /\ SavedGrows
         /\ \/ SaveReadingsBatch \/ PublishReading
            \/ step' # "publish" \/ UNCHANGED <<step, pos, batch>>
         /\ PublishReading \/ PublishSingle \/ published' = published
         /\ SaveReading \/ unary' # "publish" \/ unary' = unary
<1> USE DEF SavedGrows, client, flush, counts, stores, TypeInv, TypeOK, Exclusion
<1>1. CASE Send \/ CloseSend \/ Break \/ Tick \/ TakeTick \/ WriterDone
  BY <1>1 DEF Send, CloseSend, Break, Tick, TakeTick, WriterDone
<1>2. CASE Recv \/ RecvEOF \/ RecvError \/ ReadAccepted \/ SendAndClose
  BY <1>2 DEF Recv, RecvEOF, RecvError, ReadAccepted, SendAndClose
<1>3. CASE AppendReading \/ FlushAtEOF \/ FlushOnTick
  BY <1>3 DEF AppendReading, FlushAtEOF, FlushOnTick
<1>4. CASE SaveReadingsBatch \/ PublishReading
  BY <1>4 DEF SaveReadingsBatch, PublishReading
<1>5. CASE SaveFails \/ CountAccepted
  BY <1>5 DEF SaveFails, CountAccepted, AfterFlush
<1>6. CASE SingleCall \/ SaveReading \/ SaveReadingFails \/ PublishSingle
  BY <1>6 DEF SingleCall, SaveReading, SaveReadingFails, PublishSingle
<1>7. CASE PublishHangs \/ PublishCancelled
  BY <1>7 DEF PublishHangs, PublishCancelled
<1>8. CASE UNCHANGED vars
  BY <1>8 DEF vars
<1> QED
  BY <1>1, <1>2, <1>3, <1>4, <1>5, <1>6, <1>7, <1>8
  DEF Next, Handler, Writer, FlushBatch, IngestSingleReading

-------------------------------------------------------------------------------
(* What is published is saved *)

\* PublishedIsSaved is not inductive: what a flush has stored and not yet
\* announced, and the unary call between its insert and its publish, still have
\* their messages to come.
Unannounced(r) ==
  IF step = "publish" THEN Cardinality({i \in DOMAIN batch : pos < i /\ batch[i] = r}) ELSE 0

UnaryDue(r) == IF r = Single /\ unary = "publish" THEN 1 ELSE 0

AnnounceInv ==
  \A r \in AnyReading :
    Occurs(published, r) + Unannounced(r) + UnaryDue(r) <= Occurs(saved, r)

LEMMA AnnounceType ==
  ASSUME TypeInv, NEW r
  PROVE  /\ Occurs(published, r) \in Nat /\ Occurs(saved, r) \in Nat
         /\ Occurs(batch, r) \in Nat
         /\ Unannounced(r) \in Nat /\ Unannounced(r) <= Occurs(batch, r)
         /\ UnaryDue(r) \in {0, 1}
<1> DEFINE B == {i \in DOMAIN batch : batch[i] = r}
           U == {i \in DOMAIN batch : pos < i /\ batch[i] = r}
<1>1. Occurs(published, r) \in Nat /\ Occurs(saved, r) \in Nat /\ Occurs(batch, r) \in Nat
  BY StoresType, OccursType
<1>2. IsFiniteSet(B) /\ Cardinality(B) = Occurs(batch, r)
  <2>1. B \in SUBSET DOMAIN batch
    OBVIOUS
  <2> QED BY <2>1, StoresType, PositionsFinite DEF Occurs
<1>3. U \in SUBSET DOMAIN batch /\ U \in SUBSET B
  OBVIOUS
<1> HIDE DEF B, U
<1>4. Cardinality(U) \in Nat
  BY <1>3, StoresType, PositionsFinite
<1>5. Cardinality(U) <= Cardinality(B)
  BY <1>2, <1>3, FS_Subset
<1> QED BY <1>1, <1>2, <1>4, <1>5 DEF Unannounced, UnaryDue, U

UnannouncedTyped ==
  \A r : Unannounced(r) \in Nat /\ Unannounced(r) <= Occurs(batch, r)

LEMMA UnannouncedType == TypeInv => UnannouncedTyped
BY AnnounceType DEF UnannouncedTyped

LEMMA UnannouncedNext == TypeInv' => UnannouncedTyped'
BY UnannouncedType, PTL

LEMMA SavedCountGrows ==
  ASSUME TypeInv, SavedGrows, NEW r
  PROVE  Occurs(saved', r) >= Occurs(saved, r)
<1>1. CASE saved' = saved
  BY <1>1, AnnounceType
<1>2. CASE saved' = saved \o batch
  <2>1. Occurs(saved', r) = Occurs(saved, r) + Occurs(batch, r)
    BY <1>2, StoresType, OccursConcat
  <2> QED BY <2>1, AnnounceType
<1>3. CASE saved' = Append(saved, Single)
  <2>1. Single \in AnyReading
    BY DEF AnyReading
  <2>2. Occurs(saved', r) \in {Occurs(saved, r), Occurs(saved, r) + 1}
    BY <1>3, <2>1, StoresType, OccursAppend
  <2> QED BY <2>2, AnnounceType
<1> QED BY <1>1, <1>2, <1>3 DEF SavedGrows

\* One publish takes one reading off what is still to be announced.
LEMMA UnannouncedShrinks ==
  ASSUME TypeInv, PublishReading, NEW r
  PROVE  Unannounced(r) = IF batch[pos + 1] = r THEN Unannounced(r)' + 1 ELSE Unannounced(r)'
<1> DEFINE U == {i \in DOMAIN batch : pos < i /\ batch[i] = r}
           V == {i \in DOMAIN batch : pos + 1 < i /\ batch[i] = r}
<1>1. /\ step = "publish" /\ step' = "publish" /\ pos' = pos + 1 /\ batch' = batch
      /\ pos \in Nat /\ pos < Len(batch)
      /\ DOMAIN batch = 1..Len(batch) /\ Len(batch) \in Nat
  BY StoresType, SeqFacts DEF PublishReading, TypeInv, TypeOK
<1>2. IsFiniteSet(V)
  <2>1. V \in SUBSET DOMAIN batch
    OBVIOUS
  <2> QED BY <2>1, StoresType, PositionsFinite
<1>3. Unannounced(r) = Cardinality(U) /\ Unannounced(r)' = Cardinality(V)
  BY <1>1 DEF Unannounced
<1>4. CASE batch[pos + 1] = r
  <2>1. U = V \union {pos + 1} /\ pos + 1 \notin V
    BY <1>1, <1>4
  <2> HIDE DEF U, V
  <2>2. Cardinality(U) = Cardinality(V) + 1
    BY <1>2, <2>1, FS_AddElement
  <2> QED BY <1>3, <1>4, <2>2
<1>5. CASE batch[pos + 1] # r
  <2>1. U = V
    BY <1>1, <1>5
  <2> HIDE DEF U, V
  <2> QED BY <1>3, <1>5, <2>1
<1> QED BY <1>4, <1>5

LEMMA AnnounceStep == TypeInv /\ TypeInv' /\ AnnounceInv /\ [Next]_vars => AnnounceInv'
<1> SUFFICES ASSUME TypeInv, TypeInv', AnnounceInv, [Next]_vars, NEW r \in AnyReading
             PROVE  Occurs(published', r) + Unannounced(r)' + UnaryDue(r)' <= Occurs(saved', r)
  BY DEF AnnounceInv, Occurs, AnyReading
<1>1. Occurs(published, r) + Unannounced(r) + UnaryDue(r) <= Occurs(saved, r)
  BY DEF AnnounceInv
<1>2. /\ Occurs(published, r) \in Nat /\ Occurs(saved, r) \in Nat /\ Occurs(batch, r) \in Nat
      /\ Unannounced(r) \in Nat /\ Unannounced(r) <= Occurs(batch, r) /\ UnaryDue(r) \in {0, 1}
  BY AnnounceType
<1>3. /\ Unannounced(r)' \in Nat /\ Unannounced(r)' <= Occurs(batch', r)
      /\ UnaryDue(r)' \in {0, 1}
      /\ Occurs(saved', r) \in Nat /\ Occurs(saved', r) >= Occurs(saved, r)
      /\ Occurs(batch', r) \in Nat
  <2>1. TypeInv' => /\ Unannounced(r)' \in Nat /\ Unannounced(r)' <= Occurs(batch', r)
                    /\ Occurs(batch', r) \in Nat /\ Occurs(saved', r) \in Nat
    <3>1. saved' \in Seq(AnyReading) /\ batch' \in Seq(AnyReading)
      BY StoresTypeNext
    <3>2. Occurs(batch', r) \in Nat /\ Occurs(saved', r) \in Nat
      BY <3>1, OccursType
    <3> QED BY <3>2, UnannouncedNext DEF UnannouncedTyped, AnyReading, Occurs
  <2> QED BY <2>1, StoreSteps, SavedCountGrows DEF UnaryDue
<1>4. CASE SaveReadingsBatch
  <2>1. saved' = saved \o batch /\ UNCHANGED <<published, unary, batch>>
    BY <1>4 DEF SaveReadingsBatch
  <2>2. Occurs(saved', r) = Occurs(saved, r) + Occurs(batch, r)
    BY <2>1, StoresType, OccursConcat
  <2>3. Occurs(published', r) = Occurs(published, r) /\ UnaryDue(r)' = UnaryDue(r)
    BY <2>1 DEF UnaryDue
  <2> QED BY <1>1, <1>2, <1>3, <2>1, <2>2, <2>3
<1>5. CASE PublishReading
  <2>1. /\ published' \in {published, Append(published, batch[pos + 1])}
        /\ UNCHANGED <<saved, unary>>
        /\ batch[pos + 1] \in AnyReading
    BY <1>5, StoresType DEF PublishReading, TypeInv, TypeOK
  <2>2. Occurs(published', r) <= IF batch[pos + 1] = r THEN Occurs(published, r) + 1 ELSE Occurs(published, r)
    <3>1. CASE published' = published
      BY <1>2, <3>1
    <3>2. CASE published' = Append(published, batch[pos + 1])
      <4>1. Occurs(published', r) = IF batch[pos + 1] = r THEN Occurs(published, r) + 1 ELSE Occurs(published, r)
        BY <2>1, <3>2, StoresType, OccursAppend
      <4> QED BY <1>2, <4>1
    <3> QED BY <2>1, <3>1, <3>2
  <2>3. UnaryDue(r)' = UnaryDue(r) /\ Occurs(saved', r) = Occurs(saved, r)
    BY <2>1 DEF UnaryDue
  <2>4. Occurs(published', r) \in Nat
    BY StoresTypeNext, OccursType
  <2> QED BY <1>1, <1>2, <1>3, <1>5, <2>2, <2>3, <2>4, UnannouncedShrinks
<1>6. CASE step' # "publish" \/ UNCHANGED <<step, pos, batch>>
  <2>1. Unannounced(r)' <= Unannounced(r)
    BY <1>2, <1>6 DEF Unannounced
  <2>2. CASE SaveReading
    <3>1. saved' = Append(saved, Single) /\ unary = "save" /\ published' = published
      BY <2>2 DEF SaveReading
    <3>2. Single \in AnyReading
      BY DEF AnyReading
    <3>3. Occurs(saved', r) = IF Single = r THEN Occurs(saved, r) + 1 ELSE Occurs(saved, r)
      BY <3>1, <3>2, StoresType, OccursAppend
    <3>4. UnaryDue(r) = 0 /\ (r # Single => UnaryDue(r)' = 0)
      BY <3>1 DEF UnaryDue
    <3> QED BY <1>1, <1>2, <1>3, <2>1, <3>1, <3>3, <3>4
  <2>3. CASE PublishSingle
    <3>1. /\ published' \in {published, Append(published, Single)}
          /\ saved' = saved /\ unary = "publish" /\ unary' = "accepted"
      BY <2>3 DEF PublishSingle
    <3>2. Single \in AnyReading
      BY DEF AnyReading
    <3>3. \/ Occurs(published', r) = Occurs(published, r)
          \/ Occurs(published', r) = IF Single = r THEN Occurs(published, r) + 1 ELSE Occurs(published, r)
      <4>1. published \in Seq(AnyReading)
        BY StoresType
      <4>2. CASE published' = Append(published, Single)
        BY <3>2, <4>1, <4>2, OccursAppend
      <4> QED BY <3>1, <4>2
    <3>4. UnaryDue(r)' = 0 /\ UnaryDue(r) = IF Single = r THEN 1 ELSE 0
      BY <3>1 DEF UnaryDue
    <3> QED BY <1>1, <1>2, <1>3, <2>1, <3>1, <3>3, <3>4
  <2>4. CASE published' = published /\ (unary' # "publish" \/ unary' = unary)
    <3>1. UnaryDue(r)' <= UnaryDue(r)
      BY <2>4 DEF UnaryDue
    <3> QED BY <1>1, <1>2, <1>3, <2>1, <2>4, <3>1
  <2>5. CASE PublishReading
    BY <1>5, <2>5
  <2>6. SaveReading => published' = published
    BY DEF SaveReading
  <2> QED BY <2>2, <2>3, <2>4, <2>5, StoreSteps
<1> QED BY <1>4, <1>5, <1>6, StoreSteps

\* A message on readings.raw never announces a reading that is not stored, as
\* often: through saves that fail, saves that fail after they committed, publishes
\* that are lost, a second flush of the same batch and a stream that breaks.
THEOREM AnnouncedIsStored == Spec => []PublishedIsSaved
<1>1. Init => AnnounceInv
  BY OccursNone DEF Init, AnnounceInv, Unannounced, UnaryDue
<1>2. TypeInv /\ AnnounceInv => PublishedIsSaved
  <2> SUFFICES ASSUME TypeInv, AnnounceInv, NEW r \in AnyReading
               PROVE  Occurs(published, r) <= Occurs(saved, r)
    BY DEF PublishedIsSaved, Count, Occurs, AnyReading
  <2>1. Occurs(published, r) + Unannounced(r) + UnaryDue(r) <= Occurs(saved, r)
    BY DEF AnnounceInv
  <2> QED BY <2>1, AnnounceType
<1> QED BY <1>1, <1>2, TypeInvAlways, AnnounceStep, PTL DEF Spec

-------------------------------------------------------------------------------
(* The response is backed by rows *)

\* The response holds what the counter held, and a flush between its save and its
\* count has the rows that it will count.
AboutToCount == IF step = "publish" THEN Len(batch) ELSE 0

StreamRows == Cardinality(OfStream(saved))

BackedInv ==
  /\ reply # NoReply \/ main = "reply2" => reply.accepted <= accepted
  /\ accepted + AboutToCount <= StreamRows

LEMMA StreamRowsGrow ==
  ASSUME TypeInv, SavedGrows
  PROVE  /\ StreamRows \in Nat
         /\ StreamRows' >= StreamRows
         /\ saved' = saved \o batch => StreamRows' = StreamRows + Len(batch)
<1> DEFINE P == OfStream(saved)
           Q == DOMAIN batch
           T == OfStream(saved')
<1>1. saved \in Seq(AnyReading) /\ batch \in Seq(AnyReading) /\ batch \in Seq(1..MaxSent)
  BY StoresType
<1>2. P \in SUBSET DOMAIN saved /\ Q \in SUBSET DOMAIN batch
  BY DEF OfStream
<1>3. Cardinality(P) \in Nat /\ Cardinality(Q) = Len(batch) /\ Len(batch) \in Nat
  <2>1. DOMAIN batch = 1..Len(batch) /\ Len(batch) \in Nat
    BY <1>1, SeqFacts
  <2>2. Cardinality(1..Len(batch)) = Len(batch)
    <3>1. Cardinality(1..Len(batch)) = IF 1 > Len(batch) THEN 0 ELSE Len(batch) - 1 + 1
      BY <2>1, FS_Interval
    <3> QED BY <2>1, <3>1
  <2> QED BY <1>1, <1>2, <2>1, <2>2, PositionsFinite
<1>4. CASE saved' = saved \o batch
  <2>1. /\ DOMAIN saved = 1..Len(saved) /\ Len(saved) \in Nat
        /\ DOMAIN batch = 1..Len(batch) /\ Len(batch) \in Nat
        /\ DOMAIN saved' = 1..Len(saved) + Len(batch)
        /\ \A i \in 1..Len(saved) : saved'[i] = saved[i]
        /\ \A i \in 1..Len(batch) : saved'[Len(saved) + i] = batch[i]
    BY <1>1, <1>4, ConcatFacts
  <2>2. \A i \in DOMAIN batch : batch[i] # Single
    BY <1>1, SeqFacts, IngestAssumption
  <2>3. ASSUME NEW k \in T PROVE k \in P \/ \E i \in Q : k = Len(saved) + i
    <3>1. CASE k <= Len(saved)
      BY <2>1, <2>3, <3>1 DEF OfStream
    <3>2. CASE ~(k <= Len(saved))
      <4>1. k - Len(saved) \in 1..Len(batch) /\ k = Len(saved) + (k - Len(saved))
        BY <2>1, <2>3, <3>2 DEF OfStream
      <4> QED BY <2>1, <4>1
    <3> QED BY <3>1, <3>2
  <2>4. P \subseteq T /\ \A i \in Q : Len(saved) + i \in T
    BY <2>1, <2>2 DEF OfStream
  <2> HIDE DEF P, Q, T
  <2>5. T = P \union {Len(saved) + i : i \in Q}
    BY <2>3, <2>4
  <2>6. Cardinality(T) = Cardinality(P) + Cardinality(Q)
    BY <1>1, <1>2, <2>5, PositionsConcat
  <2>7. StreamRows = Cardinality(P) /\ StreamRows' = Cardinality(T)
    BY DEF StreamRows, P, T
  <2> QED BY <1>3, <2>6, <2>7
<1>5. CASE saved' = saved
  <2>1. StreamRows' = StreamRows
    BY <1>5 DEF StreamRows, OfStream
  <2>2. CASE saved' = saved \o batch
    BY <1>4, <2>2
  <2>3. CASE saved' # saved \o batch
    BY <1>3, <2>1, <2>3 DEF StreamRows
  <2> QED BY <2>2, <2>3
<1>6. CASE saved' = Append(saved, Single)
  <2>1. /\ DOMAIN saved = 1..Len(saved) /\ Len(saved) \in Nat
        /\ DOMAIN saved' = 1..Len(saved) + 1
        /\ \A i \in 1..Len(saved) : saved'[i] = saved[i]
        /\ saved'[Len(saved) + 1] = Single
    <3>1. Single \in AnyReading
      BY DEF AnyReading
    <3> QED BY <1>1, <1>6, <3>1, AppendFacts
  <2>2. T = P
    BY <2>1 DEF OfStream
  <2>3. StreamRows' = StreamRows
    BY <2>2 DEF StreamRows
  <2>4. CASE saved' = saved \o batch
    BY <1>4, <2>4
  <2>5. CASE saved' # saved \o batch
    BY <1>3, <2>3, <2>5 DEF StreamRows
  <2> QED BY <2>4, <2>5
<1> QED BY <1>4, <1>5, <1>6 DEF SavedGrows

LEMMA BackedStep == TypeInv /\ TypeInv' /\ BackedInv /\ [Next]_vars => BackedInv'
<1> SUFFICES ASSUME TypeInv, TypeInv', BackedInv, [Next]_vars PROVE BackedInv'
  OBVIOUS
<1> USE DEF client, flush, counts, stores
<1>1. /\ SavedGrows /\ StreamRows \in Nat /\ StreamRows' >= StreamRows
      /\ saved' = saved \o batch => StreamRows' = StreamRows + Len(batch)
  BY StoreSteps, StreamRowsGrow
<1>2. /\ Len(batch) \in Nat /\ accepted \in Nat /\ AboutToCount \in Nat
      /\ StreamRows' \in Int
  <2>1. Len(batch) \in Nat /\ accepted \in Nat
    BY SeqFacts DEF TypeInv, TypeOK
  <2>2. StreamRows' \in Nat
    <3>1. OfStream(saved') \in SUBSET DOMAIN saved' /\ saved' \in Seq(AnyReading)
      BY StoresTypeNext DEF OfStream
    <3> QED BY <3>1, PositionsFinite DEF StreamRows, OfStream
  <2> QED BY <2>1, <2>2 DEF AboutToCount
<1>3. /\ reply # NoReply \/ main = "reply2" => reply.accepted <= accepted
      /\ accepted + AboutToCount <= StreamRows
  BY DEF BackedInv
<1>4. reply # NoReply \/ main = "reply2" => reply.accepted \in Nat
  BY DEF TypeInv, TypeOK, ReplyBegun
<1>5. CASE SaveReadingsBatch
  <2>1. /\ saved' = saved \o batch /\ UNCHANGED <<reply, accepted, batch, main>>
        /\ AboutToCount = 0 /\ AboutToCount' = Len(batch)
    BY <1>5 DEF SaveReadingsBatch, AboutToCount
  <2> QED BY <1>1, <1>2, <1>3, <2>1 DEF BackedInv
<1>6. CASE CountAccepted
  <2>1. /\ accepted' = accepted + Len(batch) /\ UNCHANGED <<reply, saved>>
        /\ AboutToCount = Len(batch) /\ AboutToCount' = 0
        /\ main' = "reply2" => main = "reply2"
    BY <1>6 DEF CountAccepted, AfterFlush, AboutToCount
  <2>2. accepted' + AboutToCount' <= StreamRows'
    BY <1>1, <1>2, <1>3, <2>1
  <2>3. reply' # NoReply \/ main' = "reply2" => reply'.accepted <= accepted'
    BY <1>2, <1>3, <1>4, <2>1
  <2> QED BY <2>2, <2>3 DEF BackedInv
<1>7. CASE ReadAccepted
  <2>1. /\ reply'.accepted = accepted
        /\ UNCHANGED <<accepted, step, batch, saved>>
    BY <1>7 DEF ReadAccepted
  <2>2. AboutToCount' = AboutToCount /\ StreamRows' = StreamRows
    BY <2>1 DEF AboutToCount, StreamRows, OfStream
  <2> QED BY <1>2, <1>3, <2>1, <2>2 DEF BackedInv
<1>8. CASE SendAndClose
  <2>1. reply \in [accepted : Nat, rejected : Nat]
    BY <1>8 DEF SendAndClose, TypeInv, ReplyBegun
  <2>2. /\ reply'.accepted = reply.accepted
        /\ UNCHANGED <<accepted, step, batch, saved>>
    BY <1>8, <2>1 DEF SendAndClose
  <2>3. AboutToCount' = AboutToCount /\ StreamRows' = StreamRows
    BY <2>2 DEF AboutToCount, StreamRows, OfStream
  <2>4. reply.accepted <= accepted
    BY <1>3, <1>8 DEF SendAndClose
  <2> QED BY <1>2, <1>3, <2>2, <2>3, <2>4 DEF BackedInv
<1>9. CASE /\ UNCHANGED <<reply, accepted>>
           /\ main' = "reply2" => main = "reply2"
           /\ PublishReading \/ step' # "publish" \/ UNCHANGED <<step, pos, batch>>
  <2>1. AboutToCount' <= AboutToCount /\ AboutToCount' \in Nat
    BY <1>2, <1>9 DEF PublishReading, AboutToCount
  <2>2. accepted' + AboutToCount' <= StreamRows'
    <3>1. accepted' = accepted
      BY <1>9
    <3>2. \A a, b, c, d, e \in Nat : a + b <= d /\ c <= b /\ d <= e => a + c <= e
      OBVIOUS
    <3>3. StreamRows' \in Nat
      BY <1>1, <1>2
    <3>4. accepted \in Nat /\ AboutToCount \in Nat /\ AboutToCount' \in Nat /\ StreamRows \in Nat
      BY <1>1, <1>2, <2>1
    <3>5. accepted + AboutToCount <= StreamRows /\ AboutToCount' <= AboutToCount /\ StreamRows <= StreamRows'
      BY <1>1, <1>3, <2>1
    <3> QED BY <3>1, <3>2, <3>3, <3>4, <3>5
  <2>3. reply' # NoReply \/ main' = "reply2" => reply'.accepted <= accepted'
    BY <1>3, <1>9
  <2> QED BY <2>2, <2>3 DEF BackedInv
<1>10. \/ CountAccepted \/ ReadAccepted \/ SendAndClose
       \/ UNCHANGED <<reply, accepted>> /\ (main' = "reply2" => main = "reply2")
  BY DEF Next, Handler, Writer, FlushBatch, IngestSingleReading, vars, Send, CloseSend, Break, Recv,
         RecvEOF, RecvError, AppendReading, FlushAtEOF, Tick, TakeTick, FlushOnTick, WriterDone,
         SaveReadingsBatch, SaveFails, AfterFlush, PublishReading, PublishHangs, PublishCancelled,
         SingleCall, SaveReading, SaveReadingFails, PublishSingle
<1> QED BY <1>5, <1>6, <1>7, <1>8, <1>9, <1>10, StoreSteps

\* The client is never told of more accepted readings than rows were stored,
\* however the response races with a flush of the batch writer, a second flush of
\* the last batch included, and whichever saves failed.
THEOREM RepliesAreBacked == Spec => []ReplyIsBacked
<1>1. Init => BackedInv
  <2> SUFFICES ASSUME Init PROVE BackedInv
    OBVIOUS
  <2>1. OfStream(saved) = {} /\ AboutToCount = 0 /\ accepted = 0
    BY DEF Init, OfStream, AboutToCount
  <2>2. StreamRows = 0
    BY <2>1, FS_EmptySet DEF StreamRows
  <2> QED BY <2>1, <2>2 DEF Init, BackedInv
<1>2. TypeInv /\ BackedInv => ReplyIsBacked
  <2> SUFFICES ASSUME TypeInv, BackedInv, reply # NoReply
               PROVE  reply.accepted <= StreamRows
    BY DEF ReplyIsBacked, StreamRows
  <2>1. /\ reply.accepted \in Nat /\ accepted \in Nat /\ Len(batch) \in Nat
    BY SeqFacts DEF TypeInv, TypeOK
  <2>2. StreamRows \in Nat
    BY StoresType, PositionsFinite DEF StreamRows, OfStream
  <2> QED BY <2>1, <2>2 DEF BackedInv, AboutToCount
<1> QED BY <1>1, <1>2, TypeInvAlways, BackedStep, PTL DEF Spec

-------------------------------------------------------------------------------
(* The order of an open stream *)

\* What joining two stores, or adding one reading, does to their order: the values
\* that count for the order are those of the parts.
LEMMA IncreasingConcat ==
  ASSUME NEW p \in Seq(AnyReading), NEW q \in Seq(AnyReading),
         IsIncreasing(p), IsIncreasing(q),
         \A i \in OfStream(p), j \in OfStream(q) : p[i] < q[j]
  PROVE  /\ IsIncreasing(p \o q)
         /\ \A k \in OfStream(p \o q) :
              \/ \E i \in OfStream(p) : (p \o q)[k] = p[i]
              \/ \E j \in OfStream(q) : (p \o q)[k] = q[j]
<1> DEFINE s == p \o q
           n == Len(p)
<1>1. /\ DOMAIN p = 1..n /\ n \in Nat
      /\ DOMAIN q = 1..Len(q) /\ Len(q) \in Nat
      /\ DOMAIN s = 1..n + Len(q)
      /\ \A i \in 1..n : s[i] = p[i]
      /\ \A i \in 1..Len(q) : s[n + i] = q[i]
  BY ConcatFacts
<1> HIDE DEF s, n
<1>2. ASSUME NEW k \in OfStream(s)
      PROVE  \/ k <= n /\ k \in OfStream(p) /\ s[k] = p[k]
             \/ k > n /\ k - n \in OfStream(q) /\ s[k] = q[k - n]
  <2>1. k \in 1..n + Len(q) /\ s[k] # Single
    BY <1>1, <1>2 DEF OfStream
  <2>2. CASE k <= n
    BY <1>1, <2>1, <2>2 DEF OfStream
  <2>3. CASE k > n
    <3>1. k - n \in 1..Len(q) /\ n + (k - n) = k
      BY <1>1, <2>1, <2>3
    <3>2. s[k] = q[k - n]
      BY <1>1, <3>1
    <3> QED BY <1>1, <2>1, <2>3, <3>1, <3>2 DEF OfStream
  <2> QED BY <1>1, <2>1, <2>2, <2>3
<1>3. ASSUME NEW k \in OfStream(s), NEW l \in OfStream(s), k < l
      PROVE  s[k] < s[l]
  <2>0. k \in Nat /\ l \in Nat /\ n \in Nat
    BY <1>1 DEF OfStream
  <2>1. CASE l <= n
    BY <1>2, <1>3, <2>0, <2>1 DEF IsIncreasing
  <2>2. CASE k <= n /\ l > n
    BY <1>2, <1>3, <2>0, <2>2
  <2>3. CASE k > n
    <3>1. l > n /\ k - n < l - n
      BY <1>3, <2>0, <2>3
    <3>2. k - n \in OfStream(q) /\ l - n \in OfStream(q) /\ s[k] = q[k - n] /\ s[l] = q[l - n]
      BY <1>2, <2>0, <2>3, <3>1
    <3> QED BY <3>1, <3>2 DEF IsIncreasing
  <2> QED BY <2>0, <2>1, <2>2, <2>3
<1>4. IsIncreasing(s)
  BY <1>3 DEF IsIncreasing
<1>5. \A k \in OfStream(s) : (\E i \in OfStream(p) : s[k] = p[i]) \/ (\E j \in OfStream(q) : s[k] = q[j])
  BY <1>2
<1> QED BY <1>4, <1>5 DEF s

LEMMA IncreasingAppend ==
  ASSUME NEW p \in Seq(AnyReading), NEW x \in AnyReading, IsIncreasing(p),
         x # Single => \A i \in OfStream(p) : p[i] < x
  PROVE  /\ IsIncreasing(Append(p, x))
         /\ \A k \in OfStream(Append(p, x)) :
              \/ \E i \in OfStream(p) : Append(p, x)[k] = p[i]
              \/ x # Single /\ Append(p, x)[k] = x
<1> DEFINE s == Append(p, x)
           n == Len(p)
<1>1. /\ DOMAIN p = 1..n /\ n \in Nat /\ DOMAIN s = 1..n + 1
      /\ \A i \in 1..n : s[i] = p[i]
      /\ s[n + 1] = x
  BY AppendFacts
<1> HIDE DEF s, n
<1>2. ASSUME NEW k \in OfStream(s)
      PROVE  \/ k <= n /\ k \in OfStream(p) /\ s[k] = p[k]
             \/ k = n + 1 /\ x # Single /\ s[k] = x
  <2>1. k \in 1..n + 1 /\ s[k] # Single
    BY <1>1, <1>2 DEF OfStream
  <2> QED BY <1>1, <2>1 DEF OfStream
<1>3. ASSUME NEW k \in OfStream(s), NEW l \in OfStream(s), k < l
      PROVE  s[k] < s[l]
  <2>0. k \in 1..n + 1 /\ l \in 1..n + 1 /\ n \in Nat
    BY <1>1 DEF OfStream
  <2>1. CASE l <= n
    BY <1>2, <1>3, <2>0, <2>1 DEF IsIncreasing
  <2>2. CASE l = n + 1
    BY <1>2, <1>3, <2>0, <2>2
  <2> QED BY <2>0, <2>1, <2>2
<1>4. IsIncreasing(s)
  BY <1>3 DEF IsIncreasing
<1>5. \A k \in OfStream(s) : (\E i \in OfStream(p) : s[k] = p[i]) \/ (x # Single /\ s[k] = x)
  BY <1>2
<1> QED BY <1>4, <1>5 DEF s

\* InOrderWhileOpen is not inductive: the batch is in order too and follows what
\* is stored and, from the next reading to announce on, what is announced; and all
\* of them lie before the next reading that the handler appends.
Bound == IF main = "append" THEN received ELSE received + 1

Below(q) == \A i \in OfStream(q) : q[i] < Bound

ToAnnounce == IF step = "publish" THEN {j \in DOMAIN batch : pos < j} ELSE DOMAIN batch

SavedPart ==
  /\ IsIncreasing(saved) /\ Below(saved)
  /\ step # "publish" => \A i \in OfStream(saved), j \in DOMAIN batch : saved[i] < batch[j]

PublishedPart ==
  /\ IsIncreasing(published) /\ Below(published)
  /\ \A i \in OfStream(published), j \in ToAnnounce : published[i] < batch[j]

BatchPart == IsIncreasing(batch) /\ Below(batch)

OrderInv == Receiving => SavedPart /\ PublishedPart /\ BatchPart

\* The readings of the batch are readings of the stream.
LEMMA BatchOfStream ==
  ASSUME TypeInv
  PROVE  /\ OfStream(batch) = DOMAIN batch
         /\ \A j \in DOMAIN batch : batch[j] \in Nat
         /\ DOMAIN batch = 1..Len(batch) /\ Len(batch) \in Nat
<1>1. batch \in Seq(1..MaxSent) /\ \A n \in 1..MaxSent : n # Single
  BY StoresType, IngestAssumption
<1>2. /\ DOMAIN batch = 1..Len(batch) /\ Len(batch) \in Nat
      /\ \A j \in DOMAIN batch : batch[j] \in 1..MaxSent
  BY <1>1, SeqFacts
<1> QED BY <1>1, <1>2, IngestAssumption DEF OfStream

LEMMA StoredAreNumbers ==
  ASSUME TypeInv
  PROVE  /\ \A i \in OfStream(saved) : saved[i] \in Nat
         /\ \A i \in OfStream(published) : published[i] \in Nat
<1>1. \A n \in AnyReading : n # Single => n \in Nat
  BY IngestAssumption DEF AnyReading
<1> QED BY <1>1, StoresType, SeqFacts DEF OfStream

\* A step that keeps the batch, leaves the stream open and moves the bound up at
\* most keeps the order of what it does not touch.
LEMMA SavedPartKept ==
  ASSUME TypeInv, SavedPart, saved' = saved, Bound' \in Nat, Bound <= Bound', Bound \in Nat,
         \/ batch' = batch /\ step' = step
         \/ batch' = batch /\ step # "publish"
         \/ step' = "publish"
         \/ DOMAIN batch' = {}
  PROVE  SavedPart'
BY StoredAreNumbers DEF SavedPart, IsIncreasing, OfStream, Below

LEMMA PublishedPartKept ==
  ASSUME TypeInv, PublishedPart, published' = published, Bound' \in Nat, Bound <= Bound', Bound \in Nat,
         \/ UNCHANGED <<batch, step, pos>>
         \/ batch' = batch /\ step # "publish"
         \/ DOMAIN batch' = {}
  PROVE  PublishedPart'
BY StoredAreNumbers DEF PublishedPart, IsIncreasing, OfStream, Below, ToAnnounce

LEMMA BatchPartKept ==
  ASSUME TypeInv, BatchPart, Bound' \in Nat, Bound <= Bound', Bound \in Nat,
         batch' = batch \/ DOMAIN batch' = {}
  PROVE  BatchPart'
BY BatchOfStream DEF BatchPart, IsIncreasing, OfStream, Below

LEMMA OrderRecv ==
  ASSUME TypeInv, OrderInv, Recv, Receiving'
  PROVE  SavedPart' /\ PublishedPart' /\ BatchPart'
<1>1. /\ main = "recv" /\ received' = received + 1 /\ received \in Nat
      /\ main' \in {"recv", "append"}
      /\ UNCHANGED <<saved, published, batch, step, pos>>
  BY IngestAssumption DEF Recv, TypeInv, TypeOK, stores, flush
<1>2. SavedPart /\ PublishedPart /\ BatchPart
  BY <1>1 DEF OrderInv, Receiving
<1>3. Bound \in Nat /\ Bound' \in Nat /\ Bound <= Bound'
  BY <1>1 DEF Bound
<1> QED BY <1>1, <1>2, <1>3, SavedPartKept, PublishedPartKept, BatchPartKept

\* The reading that is appended is newer than everything before it.
LEMMA OrderAppend ==
  ASSUME TypeInv, OrderInv, AppendReading
  PROVE  SavedPart' /\ PublishedPart' /\ BatchPart'
<1>1. /\ main = "append" /\ main' # "append" /\ received' = received
      /\ received \in Nat /\ received \in 1..MaxSent
      /\ step = "idle" /\ step' # "publish"
      /\ batch' = Append(batch, received)
      /\ UNCHANGED <<saved, published>>
  BY IngestAssumption DEF AppendReading, TypeInv, TypeOK, RoomToAppend, Exclusion, stores
<1>2. SavedPart /\ PublishedPart /\ BatchPart
  BY <1>1 DEF OrderInv, Receiving
<1>3. Bound = received /\ Bound' = received + 1
  BY <1>1 DEF Bound
<1>4. /\ batch \in Seq(AnyReading) /\ received \in AnyReading
      /\ OfStream(batch) = DOMAIN batch
  BY <1>1, StoresType, BatchOfStream DEF AnyReading
<1>5. \A i \in OfStream(batch) : batch[i] < received
  BY <1>2, <1>3 DEF BatchPart, Below
<1>6. /\ IsIncreasing(batch')
      /\ \A k \in OfStream(batch') :
           (\E i \in OfStream(batch) : batch'[k] = batch[i]) \/ batch'[k] = received
  <2>1. IsIncreasing(batch)
    BY <1>2 DEF BatchPart
  <2> QED BY <1>1, <1>4, <1>5, <2>1, IncreasingAppend
<1>7. \A j \in DOMAIN batch' : (\E i \in DOMAIN batch : batch'[j] = batch[i]) \/ batch'[j] = received
  <2>1. /\ DOMAIN batch = 1..Len(batch) /\ Len(batch) \in Nat
        /\ DOMAIN batch' = 1..Len(batch) + 1
        /\ \A i \in 1..Len(batch) : batch'[i] = batch[i]
        /\ batch'[Len(batch) + 1] = received
    BY <1>1, <1>4, AppendFacts
  <2> QED BY <2>1
<1>8. /\ \A i \in DOMAIN batch : batch[i] \in Nat
      /\ \A i \in OfStream(saved) : saved[i] \in Nat
      /\ \A i \in OfStream(published) : published[i] \in Nat
  BY BatchOfStream, StoredAreNumbers
<1>9. BatchPart'
  BY <1>1, <1>3, <1>4, <1>5, <1>6, <1>8 DEF BatchPart, Below, IsIncreasing, OfStream
<1>10. SavedPart'
  <2>1. \A i \in OfStream(saved) : saved[i] < received /\ \A j \in DOMAIN batch : saved[i] < batch[j]
    BY <1>1, <1>2, <1>3 DEF SavedPart, Below
  <2>2. \A i \in OfStream(saved), j \in DOMAIN batch' : saved[i] < batch'[j]
    BY <1>7, <2>1
  <2>3. IsIncreasing(saved)' /\ OfStream(saved)' = OfStream(saved)
    BY <1>1, <1>2 DEF SavedPart, IsIncreasing, OfStream
  <2>4. Below(saved)'
    BY <1>1, <1>3, <1>8, <2>1, <2>3 DEF Below
  <2> QED BY <1>1, <2>2, <2>3, <2>4 DEF SavedPart
<1>11. PublishedPart'
  <2>1. \A i \in OfStream(published) : published[i] < received /\ \A j \in DOMAIN batch : published[i] < batch[j]
    BY <1>1, <1>2, <1>3 DEF PublishedPart, Below, ToAnnounce
  <2>2. \A i \in OfStream(published), j \in DOMAIN batch' : published[i] < batch'[j]
    BY <1>7, <2>1
  <2>3. IsIncreasing(published)' /\ OfStream(published)' = OfStream(published)
    BY <1>1, <1>2 DEF PublishedPart, IsIncreasing, OfStream
  <2>4. Below(published)' /\ ToAnnounce' = DOMAIN batch'
    BY <1>1, <1>3, <1>8, <2>1, <2>3 DEF Below, ToAnnounce
  <2> QED BY <1>1, <2>2, <2>3, <2>4 DEF PublishedPart
<1> QED BY <1>9, <1>10, <1>11

\* The rows of a batch follow those before it.
LEMMA SavedBatchInOrder ==
  ASSUME TypeInv, SavedPart, BatchPart, step # "publish", saved' = saved \o batch
  PROVE  /\ IsIncreasing(saved')
         /\ \A k \in OfStream(saved') : saved'[k] < Bound
<1>1. saved \in Seq(AnyReading) /\ batch \in Seq(AnyReading)
  BY StoresType
<1>2. /\ IsIncreasing(saved) /\ IsIncreasing(batch)
      /\ \A i \in OfStream(saved), j \in OfStream(batch) : saved[i] < batch[j]
  BY BatchOfStream DEF SavedPart, BatchPart
<1>3. /\ IsIncreasing(saved')
      /\ \A k \in OfStream(saved') :
           \/ \E i \in OfStream(saved) : saved'[k] = saved[i]
           \/ \E j \in OfStream(batch) : saved'[k] = batch[j]
  BY <1>1, <1>2, IncreasingConcat
<1>4. \A k \in OfStream(saved') : saved'[k] < Bound
  BY <1>3 DEF SavedPart, BatchPart, Below
<1> QED BY <1>3, <1>4

LEMMA OrderSave ==
  ASSUME TypeInv, OrderInv, SaveReadingsBatch, Receiving'
  PROVE  SavedPart' /\ PublishedPart' /\ BatchPart'
<1>1. /\ step = "save" /\ step' = "publish" /\ saved' = saved \o batch
      /\ UNCHANGED <<published, batch, pos, main, received>>
      /\ received \in Nat
  BY IngestAssumption DEF SaveReadingsBatch, TypeInv, TypeOK
<1>2. SavedPart /\ PublishedPart /\ BatchPart
  BY <1>1 DEF OrderInv, Receiving
<1>3. Bound' = Bound /\ Bound \in Nat
  BY <1>1 DEF Bound
<1>4. SavedPart'
  <2>1. IsIncreasing(saved') /\ \A k \in OfStream(saved') : saved'[k] < Bound
    BY <1>1, <1>2, SavedBatchInOrder
  <2> QED BY <1>1, <1>3, <2>1 DEF SavedPart, Below, IsIncreasing, OfStream
<1> QED BY <1>1, <1>2, <1>3, <1>4, PublishedPartKept, BatchPartKept

\* A flush that ends, well or not, empties the batch of an open stream.
LEMMA OrderFlushed ==
  ASSUME TypeInv, OrderInv, SaveFails \/ CountAccepted, Receiving'
  PROVE  SavedPart' /\ PublishedPart' /\ BatchPart'
<1>1. /\ AfterFlush /\ step # "idle" /\ step' = "idle"
      /\ UNCHANGED <<published, received>>
      /\ received \in Nat
  BY IngestAssumption DEF SaveFails, CountAccepted, AfterFlush, TypeInv, TypeOK, stores
<1>2. Receiving /\ batch' = <<>> /\ Bound' = Bound /\ Bound \in Nat
  BY <1>1 DEF AfterFlush, Receiving, Bound, TypeInv, TypeOK, Exclusion, MainStates
<1>3. SavedPart /\ PublishedPart /\ BatchPart /\ DOMAIN batch' = {}
  BY <1>2 DEF OrderInv
<1>4. SavedPart'
  <2>1. CASE saved' = saved
    BY <1>2, <1>3, <2>1, SavedPartKept
  <2>2. CASE saved' = saved \o batch /\ SaveFails
    <3>1. IsIncreasing(saved') /\ \A k \in OfStream(saved') : saved'[k] < Bound
      BY <1>3, <2>2, SavedBatchInOrder DEF SaveFails
    <3> QED BY <1>2, <1>3, <3>1 DEF SavedPart, Below, IsIncreasing, OfStream
  <2> QED BY <2>1, <2>2 DEF SaveFails, CountAccepted, stores
<1> QED BY <1>1, <1>2, <1>3, <1>4, PublishedPartKept, BatchPartKept

\* The reading that is announced follows what was announced and precedes what is
\* still to be announced.
LEMMA OrderPublish ==
  ASSUME TypeInv, OrderInv, PublishReading, Receiving'
  PROVE  SavedPart' /\ PublishedPart' /\ BatchPart'
<1> DEFINE x == batch[pos + 1]
<1>1. /\ step = "publish" /\ step' = "publish" /\ pos' = pos + 1 /\ pos < Len(batch)
      /\ published' \in {published, Append(published, x)}
      /\ UNCHANGED <<saved, batch, main, received>>
      /\ received \in Nat /\ pos \in Nat
  BY IngestAssumption, BatchOfStream DEF PublishReading, TypeInv, TypeOK
<1>2. SavedPart /\ PublishedPart /\ BatchPart
  BY <1>1 DEF OrderInv, Receiving
<1>3. Bound' = Bound /\ Bound \in Nat
  BY <1>1 DEF Bound
<1>4. /\ pos + 1 \in DOMAIN batch /\ pos + 1 \in ToAnnounce
      /\ x \in AnyReading /\ x \in Nat
      /\ ToAnnounce' = {j \in DOMAIN batch : pos + 1 < j}
      /\ ToAnnounce' \subseteq ToAnnounce
  BY <1>1, BatchOfStream, StoresType DEF ToAnnounce
<1>5. \A i \in OfStream(published) : published[i] < x
  BY <1>2, <1>4 DEF PublishedPart
<1>6. \A j \in ToAnnounce' : x < batch[j] /\ j \in ToAnnounce
  BY <1>2, <1>4, BatchOfStream DEF BatchPart, IsIncreasing
<1>7. x < Bound
  BY <1>2, <1>4, BatchOfStream DEF BatchPart, Below
<1> HIDE DEF x
<1>8. PublishedPart'
  <2>1. CASE published' = published
    BY <1>1, <1>2, <1>3, <1>6, <2>1 DEF PublishedPart, Below, IsIncreasing, OfStream
  <2>2. CASE published' = Append(published, x)
    <3>1. /\ IsIncreasing(published')
          /\ \A k \in OfStream(published') :
               (\E i \in OfStream(published) : published'[k] = published[i]) \/ published'[k] = x
      <4>1. published \in Seq(AnyReading) /\ IsIncreasing(published)
        BY <1>2, StoresType DEF PublishedPart
      <4> QED BY <1>4, <1>5, <2>2, <4>1, IncreasingAppend
    <3>2. \A i \in OfStream(published) : published[i] < Bound /\ \A j \in ToAnnounce : published[i] < batch[j]
      BY <1>2 DEF PublishedPart, Below
    <3>3. \A k \in OfStream(published') : published'[k] < Bound
      BY <1>7, <3>1, <3>2
    <3>4. \A k \in OfStream(published'), j \in ToAnnounce' : published'[k] < batch[j]
      BY <1>6, <3>1, <3>2
    <3> QED BY <1>1, <1>3, <3>1, <3>3, <3>4 DEF PublishedPart, Below, IsIncreasing, OfStream
  <2> QED BY <1>1, <2>1, <2>2
<1> QED BY <1>1, <1>2, <1>3, <1>8, SavedPartKept, BatchPartKept

\* The unary call adds nothing of the stream.
LEMMA OrderSingle ==
  ASSUME TypeInv, OrderInv, SaveReading \/ SaveReadingFails \/ PublishSingle, Receiving'
  PROVE  SavedPart' /\ PublishedPart' /\ BatchPart'
<1>1. /\ saved' \in {saved, Append(saved, Single)}
      /\ published' \in {published, Append(published, Single)}
      /\ UNCHANGED <<batch, step, pos, main, received>>
      /\ received \in Nat
  BY IngestAssumption DEF SaveReading, SaveReadingFails, PublishSingle, flush, TypeInv, TypeOK
<1>2. SavedPart /\ PublishedPart /\ BatchPart
  BY <1>1 DEF OrderInv, Receiving
<1>3. Bound' = Bound /\ Bound \in Nat /\ ToAnnounce' = ToAnnounce
  BY <1>1 DEF Bound, ToAnnounce
<1>4. ASSUME NEW q \in Seq(AnyReading)
      PROVE  /\ OfStream(Append(q, Single)) = OfStream(q)
             /\ \A i \in OfStream(q) : Append(q, Single)[i] = q[i]
  <2>1. Single \in AnyReading
    BY DEF AnyReading
  <2>2. /\ DOMAIN q = 1..Len(q) /\ Len(q) \in Nat
        /\ DOMAIN Append(q, Single) = 1..Len(q) + 1
        /\ \A i \in 1..Len(q) : Append(q, Single)[i] = q[i]
        /\ Append(q, Single)[Len(q) + 1] = Single
    BY <2>1, AppendFacts
  <2> QED BY <2>2 DEF OfStream
<1>5. /\ OfStream(saved') = OfStream(saved)
      /\ \A i \in OfStream(saved) : saved'[i] = saved[i]
      /\ OfStream(published') = OfStream(published)
      /\ \A i \in OfStream(published) : published'[i] = published[i]
  BY <1>1, <1>4, StoresType
<1>6. SavedPart'
  BY <1>1, <1>2, <1>3, <1>5 DEF SavedPart, Below, IsIncreasing, OfStream
<1>7. PublishedPart'
  BY <1>1, <1>2, <1>3, <1>5 DEF PublishedPart, Below, IsIncreasing, OfStream
<1> QED BY <1>1, <1>2, <1>3, <1>6, <1>7, BatchPartKept

LEMMA OrderStep == TypeInv /\ OrderInv /\ [Next]_vars => OrderInv'
<1> SUFFICES ASSUME TypeInv, OrderInv, [Next]_vars, Receiving'
             PROVE  SavedPart' /\ PublishedPart' /\ BatchPart'
  BY DEF OrderInv
<1> USE DEF client, flush, counts, stores
<1>1. CASE Recv
  BY <1>1, OrderRecv
<1>2. CASE AppendReading
  BY <1>2, OrderAppend
<1>3. CASE SaveReadingsBatch
  BY <1>3, OrderSave
<1>4. CASE SaveFails \/ CountAccepted
  BY <1>4, OrderFlushed
<1>5. CASE PublishReading
  BY <1>5, OrderPublish
<1>6. CASE SaveReading \/ SaveReadingFails \/ PublishSingle
  BY <1>6, OrderSingle
<1>7. CASE FlushOnTick
  <2>1. /\ UNCHANGED <<saved, published, batch, pos, main, received>>
        /\ step # "publish" /\ received \in Nat
    BY <1>7, IngestAssumption DEF FlushOnTick, TypeInv, TypeOK, Exclusion
  <2>2. SavedPart /\ PublishedPart /\ BatchPart
    BY <2>1 DEF OrderInv, Receiving
  <2>3. Bound' = Bound /\ Bound \in Nat
    BY <2>1 DEF Bound
  <2> QED BY <2>1, <2>2, <2>3, SavedPartKept, PublishedPartKept, BatchPartKept
<1>8. CASE RecvEOF \/ RecvError \/ FlushAtEOF \/ ReadAccepted \/ SendAndClose
  BY <1>8 DEF RecvEOF, RecvError, FlushAtEOF, ReadAccepted, SendAndClose, Receiving
<1>9. CASE \/ Send \/ CloseSend \/ Break \/ Tick \/ TakeTick \/ WriterDone \/ SingleCall
           \/ PublishHangs \/ PublishCancelled \/ UNCHANGED vars
  <2>1. UNCHANGED <<saved, published, batch, step, pos, main, received>> /\ received \in Nat
    BY <1>9, IngestAssumption
    DEF Send, CloseSend, Break, Tick, TakeTick, WriterDone, SingleCall, PublishHangs, PublishCancelled,
        vars, TypeInv, TypeOK
  <2>2. SavedPart /\ PublishedPart /\ BatchPart
    BY <2>1 DEF OrderInv, Receiving
  <2>3. Bound' = Bound /\ Bound \in Nat
    BY <2>1 DEF Bound
  <2> QED BY <2>1, <2>2, <2>3, SavedPartKept, PublishedPartKept, BatchPartKept
<1> QED
  BY <1>1, <1>2, <1>3, <1>4, <1>5, <1>6, <1>7, <1>8, <1>9
  DEF Next, Handler, Writer, FlushBatch, IngestSingleReading

\* While the stream is open its readings are stored and announced at most once and
\* in the order they were sent, whichever goroutine flushes, whichever saves fail
\* and whatever the unary call stores in between.
THEOREM OpenStreamInOrder == Spec => []InOrderWhileOpen
<1>1. Init => OrderInv
  BY DEF Init, OrderInv, SavedPart, PublishedPart, BatchPart, Below, IsIncreasing, OfStream, ToAnnounce
<1>2. OrderInv => InOrderWhileOpen
  BY DEF OrderInv, SavedPart, PublishedPart, InOrderWhileOpen
<1> QED BY <1>1, <1>2, TypeInvAlways, OrderStep, PTL DEF Spec
================================================================================

---------------------------- MODULE ArtifactSink ----------------------------
(***************************************************************************)
(* ArrowReplayArtifactSink (artifacts.py): the producer thread buffers     *)
(* facts and hands batches through a bounded queue to a writer thread that *)
(* owns the files; a manifest makes the directory a complete run and       *)
(* FAILED.json a failed one.                                               *)
(*                                                                         *)
(* The producer makes one call at a time (it is the thread of the replay); *)
(* pc is where the call in progress stands, call which call it is.  Any    *)
(* sequence of calls is allowed, except that nothing but abort follows an  *)
(* abort that raised.  The writer interleaves with every step and may fail *)
(* at every write.                                                         *)
(***************************************************************************)
EXTENDS Integers, Sequences, SequencesExt

CONSTANTS
  Streams,       \* artifact streams
  BatchSize,     \* facts of a batch
  QueueBatches,  \* capacity of the queue
  MaxFacts       \* bound: facts a client appends

ASSUME SinkAssumption ==
  /\ BatchSize \in Nat \ {0} /\ QueueBatches \in Nat \ {0} /\ MaxFacts \in Nat
  /\ {"none", "stop"} \cap Streams = {}

VARIABLES
  strict,    \* manifest schema 1.1.0: errors abort, a candidate is validated first
  accepted,  \* _counts and _digests: the facts accepted so far, by stream
  buffers,   \* _buffers
  queue,     \* _queue
  staged,    \* _staged: the entries of the open transaction, NoTransaction if none is
  sealed, closed,
  failed,    \* _failure: the writer raised
  files,     \* the Arrow files: the rows of each stream
  writer,    \* the writer thread: "running", "closing" its files, "ended"
  manifest, candidate, marker, \* manifest.json, manifest.candidate.json, FAILED.json
  pc, call,  \* where the producer stands, and the call in progress
  work,      \* entries the call has yet to append
  item,      \* the batch the call is putting into the queue, NoItem if none
  stuck,     \* an abort raised: the writer did not stop in time
  sent       \* number of facts the client has presented

sinkVars   == <<strict, accepted, buffers, queue, staged, sealed, closed>>
writerVars == <<failed, files, writer>>
diskVars   == <<manifest, candidate, marker>>
callVars   == <<pc, call, work, item, stuck, sent>>
vars       == <<sinkVars, writerVars, diskVars, callVars>>

Nothing       == [s \in Streams |-> <<>>]
NoTransaction == <<[stream |-> "none", fact |-> 0]>>
NoItem        == [stream |-> "none", rows |-> <<>>]
STOP          == [stream |-> "stop", rows |-> <<>>]

(* A batch carries consecutive sequence numbers and their facts. *)
Batch(s) ==
  LET first == Len(accepted'[s]) - Len(buffers'[s])
  IN  [stream |-> s,
       rows |-> [n \in DOMAIN buffers'[s] |-> [sequence |-> first + n - 1, fact |-> buffers'[s][n]]]]

Init ==
  /\ strict \in BOOLEAN
  /\ accepted = Nothing /\ buffers = Nothing /\ queue = <<>> /\ staged = NoTransaction
  /\ sealed = FALSE /\ closed = FALSE
  /\ failed = FALSE /\ files = Nothing /\ writer = "running"
  /\ manifest = FALSE /\ candidate = FALSE /\ marker = FALSE
  /\ pc = "ready" /\ call = "none" /\ work = <<>> /\ item = NoItem
  /\ stuck = FALSE /\ sent = 0

-----------------------------------------------------------------------------
Begin(name, where) ==
  /\ pc = "ready" /\ (stuck => name = "abort")
  /\ call' = name /\ pc' = where

Return == pc' = "ready" /\ call' = "none"

(* abort drops what is buffered or staged and goes on to stop the writer.  *)
EnterAbort ==
  /\ buffers' = Nothing /\ staged' = NoTransaction
  /\ work' = <<>> /\ item' = NoItem
  /\ pc' = "abort"
  /\ UNCHANGED <<strict, accepted, queue, sealed, closed, writerVars, diskVars, stuck, sent>>

(* A call that raises returns at once, or aborts the sink first: close     *)
(* always does, append and commit do in a strict sink.                     *)
Raise ==
  IF call = "close" \/ (strict /\ call = "append")
    THEN EnterAbort /\ UNCHANGED call
    ELSE /\ Return
         /\ work' = <<>> /\ item' = NoItem
         /\ UNCHANGED <<sinkVars, writerVars, diskVars, stuck, sent>>

(* append with a fact, inside a transaction or outside.                    *)
AppendFact(s) ==
  LET entry == [stream |-> s, fact |-> sent + 1]
  IN  /\ pc = "ready" /\ ~stuck
      /\ ~closed /\ ~sealed
      /\ sent < MaxFacts /\ sent' = sent + 1
      /\ IF staged = NoTransaction
           THEN Begin("append", "append") /\ work' = <<entry>> /\ UNCHANGED staged
           ELSE staged' = Append(staged, entry) /\ UNCHANGED <<pc, call, work>>
      /\ UNCHANGED <<strict, accepted, buffers, queue, sealed, closed,
                     writerVars, diskVars, item, stuck>>

(* Mutant of AppendInvalid: the fact of an unknown stream is taken. *)
AppendInvalidTaken ==
  /\ pc = "ready" /\ ~stuck
  /\ strict /\ ~closed /\ ~sealed
  /\ Begin("append", "append")
  /\ work' = <<[stream |-> "unknown", fact |-> 0]>>
  /\ UNCHANGED <<sinkVars, writerVars, diskVars, item, stuck, sent>>

(* append with an unknown stream or a payload that is not bytes raises.    *)
AppendInvalid ==
  /\ pc = "ready" /\ ~stuck
  /\ strict /\ ~closed /\ ~sealed
  /\ call' = "append"
  /\ EnterAbort

BeginTransaction ==
  /\ pc = "ready" /\ ~stuck
  /\ staged = NoTransaction /\ ~closed /\ ~sealed
  /\ staged' = <<>>
  /\ UNCHANGED <<strict, accepted, buffers, queue, sealed, closed,
                 writerVars, diskVars, callVars>>

Commit ==
  /\ staged # NoTransaction
  /\ Begin("append", "append")
  /\ work' = staged /\ staged' = NoTransaction
  /\ UNCHANGED <<strict, accepted, buffers, queue, sealed, closed,
                 writerVars, diskVars, item, stuck, sent>>

(* Mutant of Rollback: the first fact of the transaction has leaked. *)
RollbackLeaking ==
  /\ staged # NoTransaction
  /\ Begin("append", "append")
  /\ work' = SelectSeq(staged, LAMBDA entry : entry = Head(staged)) /\ staged' = NoTransaction
  /\ UNCHANGED <<strict, accepted, buffers, queue, sealed, closed,
                 writerVars, diskVars, item, stuck, sent>>

Rollback ==
  /\ pc = "ready" /\ ~stuck
  /\ staged # NoTransaction
  /\ staged' = NoTransaction
  /\ UNCHANGED <<strict, accepted, buffers, queue, sealed, closed,
                 writerVars, diskVars, callVars>>

(* Mutant of AppendCommitted: the writer's failure is not looked at. *)
AppendCommittedUnchecked ==
  /\ pc = "append" /\ item = NoItem
  /\ IF work = <<>> THEN /\ Return
                         /\ UNCHANGED <<sinkVars, writerVars, diskVars, work, item, stuck, sent>>
     ELSE LET s == Head(work).stream
          IN  /\ accepted' = [accepted EXCEPT ![s] = Append(@, Head(work).fact)]
              /\ buffers'  = [buffers EXCEPT ![s] = Append(@, Head(work).fact)]
              /\ item' = IF Len(buffers'[s]) >= BatchSize THEN Batch(s) ELSE NoItem
              /\ work' = Tail(work)
              /\ UNCHANGED <<strict, queue, staged, sealed, closed, writerVars, diskVars,
                             pc, call, stuck, sent>>

(* _append_committed, of the next entry: a full buffer is to be enqueued.  *)
AppendCommitted ==
  /\ pc = "append" /\ item = NoItem
  /\ IF work = <<>> THEN /\ Return
                         /\ UNCHANGED <<sinkVars, writerVars, diskVars, work, item, stuck, sent>>
     ELSE IF failed THEN Raise
     ELSE LET s == Head(work).stream
          IN  /\ accepted' = [accepted EXCEPT ![s] = Append(@, Head(work).fact)]
              /\ buffers'  = [buffers EXCEPT ![s] = Append(@, Head(work).fact)]
              /\ item' = IF Len(buffers'[s]) >= BatchSize THEN Batch(s) ELSE NoItem
              /\ work' = Tail(work)
              /\ UNCHANGED <<strict, queue, staged, sealed, closed, writerVars, diskVars,
                             pc, call, stuck, sent>>

(* Mutant of Enqueue: the buffer is not emptied once it is in the queue. *)
EnqueueKeepingBuffer ==
  /\ item # NoItem
  /\ \/ failed /\ Raise
     \/ /\ Len(queue) < QueueBatches
        /\ queue' = Append(queue, item)
        /\ item' = NoItem
        /\ UNCHANGED <<strict, accepted, buffers, staged, sealed, closed, writerVars, diskVars,
                       pc, call, work, stuck, sent>>

(* _enqueue: waits while the queue is full and raises once it sees that    *)
(* the writer failed.  The look and the put are two steps, so a batch may  *)
(* still enter the queue of a writer that has failed meanwhile.            *)
Enqueue ==
  /\ item # NoItem
  /\ \/ failed /\ Raise
     \/ /\ Len(queue) < QueueBatches
        /\ queue' = Append(queue, item)
        /\ buffers' = [buffers EXCEPT ![item.stream] = <<>>]
        /\ item' = NoItem
        /\ UNCHANGED <<strict, accepted, staged, sealed, closed, writerVars, diskVars,
                       pc, call, work, stuck, sent>>

-----------------------------------------------------------------------------
(* seal: flush what is buffered, stop the writer and wait for its end.     *)
Seal ==
  /\ ~sealed /\ staged = NoTransaction
  /\ Begin("seal", "flush")
  /\ UNCHANGED <<sinkVars, writerVars, diskVars, work, item, stuck, sent>>

(* close: seal, unless sealed before; an open transaction makes it abort.  *)
Finish == IF strict THEN "candidate" ELSE "publish"

Close ==
  /\ ~closed
  /\ pc = "ready" /\ ~stuck /\ call' = "close"
  /\ IF ~sealed /\ staged # NoTransaction
       THEN EnterAbort
       ELSE /\ pc' = IF sealed THEN Finish ELSE "flush"
            /\ UNCHANGED <<sinkVars, writerVars, diskVars, work, item, stuck, sent>>

(* One turn of seal's loop up to _enqueue's first look at the writer.      *)
Flush ==
  /\ pc = "flush" /\ item = NoItem
  /\ IF failed THEN Raise
     ELSE /\ \/ \E s \in Streams :
                  /\ buffers[s] # <<>>
                  /\ UNCHANGED <<accepted, buffers>>
                  /\ item' = Batch(s)
                  /\ UNCHANGED pc
             \/ /\ buffers = Nothing
                /\ pc' = "stop"
                /\ UNCHANGED <<accepted, buffers, item>>
          /\ UNCHANGED <<strict, queue, staged, sealed, closed, writerVars, diskVars,
                         call, work, stuck, sent>>

(* Mutant of PutStop: a full queue is not waited for, STOP is dropped. *)
PutStopOnce ==
  /\ pc = "stop"
  /\ \/ failed /\ Raise
     \/ /\ queue' = IF Len(queue) < QueueBatches THEN Append(queue, STOP) ELSE queue
        /\ pc' = "join"
        /\ UNCHANGED <<strict, accepted, buffers, staged, sealed, closed, writerVars,
                       diskVars, call, work, item, stuck, sent>>

PutStop ==
  /\ pc = "stop"
  /\ \/ failed /\ Raise
     \/ /\ Len(queue) < QueueBatches
        /\ queue' = Append(queue, STOP)
        /\ pc' = "join"
        /\ UNCHANGED <<strict, accepted, buffers, staged, sealed, closed, writerVars,
                       diskVars, call, work, item, stuck, sent>>

(* Mutant of Join: a writer that ended is taken for one that succeeded. *)
JoinUnchecked ==
  /\ pc = "join" /\ writer = "ended"
  /\ sealed' = TRUE
  /\ IF call = "close" THEN pc' = Finish /\ UNCHANGED call ELSE Return
  /\ UNCHANGED <<strict, accepted, buffers, queue, staged, closed, writerVars,
                 diskVars, work, item, stuck, sent>>

Join ==
  /\ pc = "join" /\ writer = "ended"
  /\ IF failed THEN Raise
     ELSE /\ sealed' = TRUE
          /\ IF call = "close" THEN pc' = Finish /\ UNCHANGED call ELSE Return
          /\ UNCHANGED <<strict, accepted, buffers, queue, staged, closed, writerVars,
                         diskVars, work, item, stuck, sent>>

(* The files on disk hold, row by row, what the digests accepted. *)
Readable ==
  \A s \in Streams :
    files[s] = [n \in DOMAIN accepted[s] |-> [sequence |-> n - 1, fact |-> accepted[s][n]]]

(* A strict sink writes a candidate manifest, then loads and validates it; *)
(* either may fail.                                                        *)
WriteCandidate ==
  /\ pc = "candidate"
  /\ \/ Raise
     \/ /\ candidate' = TRUE
        /\ pc' = "validate"
        /\ UNCHANGED <<sinkVars, writerVars, manifest, marker, call, work, item, stuck, sent>>

ValidateCandidate ==
  /\ pc = "validate"
  /\ \/ Raise
     \/ /\ Readable
        /\ pc' = "publish"
        /\ UNCHANGED <<sinkVars, writerVars, diskVars, call, work, item, stuck, sent>>

(* manifest.json is linked into place, or that fails; then the directory   *)
(* is loaded, which fails when it does not read back or has no metadata.   *)
Publish ==
  /\ pc = "publish"
  /\ \/ Raise
     \/ /\ manifest' = TRUE
        /\ pc' = "verify"
        /\ UNCHANGED <<sinkVars, writerVars, candidate, marker, call, work, item, stuck, sent>>

Verify ==
  /\ pc = "verify"
  /\ \/ Raise
     \/ /\ Readable
        /\ candidate' = FALSE
        /\ closed' = TRUE
        /\ Return
        /\ UNCHANGED <<strict, accepted, buffers, queue, staged, sealed, writerVars,
                       manifest, marker, work, item, stuck, sent>>

-----------------------------------------------------------------------------
Abort ==
  /\ ~closed
  /\ pc = "ready" /\ call' = "abort"
  /\ EnterAbort

(* The put is retried while the queue is full, for ten seconds.            *)
AbortStop ==
  /\ pc = "abort"
  /\ queue' = IF writer # "ended" /\ Len(queue) < QueueBatches THEN Append(queue, STOP) ELSE queue
  /\ pc' = "abortJoin"
  /\ UNCHANGED <<strict, accepted, buffers, staged, sealed, closed, writerVars, diskVars,
                 call, work, item, stuck, sent>>

(* Mutant of AbortJoin: the result of the timed join is not looked at. *)
AbortJoinBlind ==
  /\ pc = "abortJoin"
  /\ pc' = "mark"
  /\ UNCHANGED <<call, stuck, sinkVars, writerVars, diskVars, work, item, sent>>

(* join waits ten seconds; abort raises when the writer still runs.        *)
AbortJoin ==
  /\ pc = "abortJoin"
  /\ IF writer = "ended" THEN pc' = "mark" /\ UNCHANGED <<call, stuck>>
                         ELSE Return /\ stuck' = TRUE
  /\ UNCHANGED <<sinkVars, writerVars, diskVars, work, item, sent>>

(* FAILED.json is written, or that fails; the sink is closed either way.   *)
Mark ==
  /\ pc = "mark"
  /\ marker' \in {marker, TRUE}
  /\ closed' = TRUE
  /\ Return
  /\ UNCHANGED <<strict, accepted, buffers, queue, staged, sealed, writerVars,
                 manifest, candidate, work, item, stuck, sent>>

-----------------------------------------------------------------------------
(* _write_loop: one batch at a time, in the order of the queue.            *)
WriteBatch ==
  /\ writer = "running" /\ queue # <<>>
  /\ queue' = Tail(queue)
  /\ LET batch == Head(queue)
     IN  \/ batch = STOP /\ writer' = "closing" /\ UNCHANGED <<failed, files>>
         \/ /\ batch # STOP
            /\ files' = [files EXCEPT ![batch.stream] = @ \o batch.rows]
            /\ UNCHANGED <<failed, writer>>
         \/ /\ batch # STOP
            /\ failed' = TRUE /\ writer' = "closing"
            /\ UNCHANGED files
  /\ UNCHANGED <<strict, accepted, buffers, staged, sealed, closed, diskVars, callVars>>

CloseFiles ==
  /\ writer = "closing"
  /\ writer' = "ended"
  /\ failed' \in {failed, TRUE}
  /\ UNCHANGED <<files, sinkVars, diskVars, callVars>>

Producer ==
  \/ AppendCommitted \/ Enqueue
  \/ Flush \/ PutStop \/ Join
  \/ WriteCandidate \/ ValidateCandidate \/ Publish \/ Verify
  \/ AbortStop \/ AbortJoin \/ Mark

Writer == WriteBatch \/ CloseFiles

(* Not a step of the program: the client makes no further call. *)
Idle == pc = "ready" /\ UNCHANGED vars

Next ==
  \/ \E s \in Streams : AppendFact(s)
  \/ AppendInvalid
  \/ BeginTransaction \/ Commit \/ Rollback
  \/ Seal \/ Close \/ Abort
  \/ Producer
  \/ Writer
  \/ Idle

Spec == Init /\ [][Next]_vars

(* Both threads run; a call in progress and a writer with work to do are   *)
(* eventually scheduled.  Whether and when a client calls is left open.    *)
FairSpec == Spec /\ WF_vars(Producer) /\ WF_vars(Writer)

-----------------------------------------------------------------------------
TypeOK ==
  LET Facts == 1..MaxFacts
      Rows  == Seq([sequence : Nat, fact : Facts])
  IN  /\ {strict, sealed, closed, failed, manifest, candidate, marker, stuck} \subseteq BOOLEAN
      /\ accepted \in [Streams -> Seq(Facts)] /\ buffers \in [Streams -> Seq(Facts)]
      /\ files \in [Streams -> Rows]
      /\ queue \in Seq([stream : Streams \cup {"stop"}, rows : Rows])
      /\ staged = NoTransaction \/ staged \in Seq([stream : Streams, fact : Facts])
      /\ work \in Seq([stream : Streams, fact : Facts])
      /\ item = NoItem \/ item \in [stream : Streams, rows : Rows]
      /\ writer \in {"running", "closing", "ended"}
      /\ pc \in {"ready", "append", "flush", "stop", "join", "candidate", "validate",
                 "publish", "verify", "abort", "abortJoin", "mark"}
      /\ call \in {"none", "append", "seal", "close", "abort"}
      /\ sent \in 0..MaxFacts

Aborting == pc \in {"abort", "abortJoin", "mark"}
Loadable == manifest /\ ~marker
Doomed   == failed \/ Aborting \/ stuck \/ (closed /\ ~Loadable)

FactsOf(rows) == [n \in DOMAIN rows |-> rows[n].fact]

Queued(s) ==
  FlattenSeq([n \in DOMAIN queue |-> IF queue[n].stream = s THEN queue[n].rows ELSE <<>>])

(* Nothing is lost, duplicated or reordered between the threads: what is   *)
(* on file, then in the queue, then in the buffer of a stream is exactly   *)
(* what was accepted for it, with consecutive sequence numbers.            *)
NothingLost ==
  ~Doomed =>
    \A s \in Streams :
      LET rows == files[s] \o Queued(s)
      IN  /\ FactsOf(rows) \o buffers[s] = accepted[s]
          /\ \A n \in DOMAIN rows : rows[n].sequence = n - 1

(* A manifest is published only for a run whose writer ended without an    *)
(* error and whose files hold everything that was accepted.                *)
ManifestIsWhole == manifest => sealed /\ writer = "ended" /\ ~failed /\ Readable

(* What the producer retains is bounded by the batch size, also after the  *)
(* writer failed and while the queue is full.                              *)
MemoryBounded ==
  /\ \A s \in Streams : Len(buffers[s]) <= BatchSize
  /\ Len(queue) <= QueueBatches
  /\ \A n \in DOMAIN queue : Len(queue[n].rows) <= BatchSize

(* A sink that says it is closed or sealed has no writer thread left.      *)
NoWriterLeft == closed \/ sealed => writer = "ended"

(* The sink implements ArtifactRun: a transaction is recorded as one, and  *)
(* the run that can be loaded is the run that was recorded.                *)
FactsAhead(s) ==
  FlattenSeq([n \in DOMAIN work |-> IF work[n].stream = s THEN <<work[n].fact>> ELSE <<>>])

RunPhase == IF Loadable THEN "complete" ELSE IF Doomed THEN "broken" ELSE "recording"

Run == INSTANCE ArtifactRun WITH
         Facts       <- 1..MaxFacts,
         phase       <- RunPhase,
         recorded    <- IF RunPhase = "broken" THEN Nothing
                        ELSE [s \in Streams |-> accepted[s] \o FactsAhead(s)],
         transaction <- IF RunPhase = "broken" THEN NoTransaction ELSE staged,
         loadable    <- IF Loadable THEN [s \in Streams |-> FactsOf(files[s])] ELSE Nothing

RunRecorded == Run!Spec

(* Every call returns: no full queue, dead writer or join waits for ever.  *)
CallsReturn == pc # "ready" ~> pc = "ready"

(* README.md: a failed run never receives a complete manifest.             *)
FailedHasNoManifest == ~(marker /\ manifest)
=============================================================================

------------------------- MODULE ArtifactSink_proofs -------------------------
(***************************************************************************)
(* Theorems about ArtifactSink for every set of streams and every batch    *)
(* size, queue capacity and number of facts.                               *)
(*                                                                         *)
(* SinkInv is inductive.  Its core is Whole: as long as the run can still  *)
(* become or stay a complete one (Good), the rows on file and then in the  *)
(* queue are the facts handed over, numbered (Follows), STOP is the last   *)
(* of the queue and the writer ends only behind it (Orderly).  Control and *)
(* Outcome place the call in progress, Tails and Bounded describe buffers  *)
(* and batches.  Every invariant of the runs follows from it, and with it  *)
(* every step of the sink is a step of ArtifactRun.                        *)
(***************************************************************************)
EXTENDS ArtifactSink, Induction

-----------------------------------------------------------------------------
(* The parts of the invariant *)

(* Where the call in progress stands, and what each position implies. *)
Control ==
  /\ pc = "ready" <=> call = "none"
  /\ pc = "append" => call = "append" /\ ~sealed
  /\ pc \in {"flush", "stop", "join"} => call \in {"seal", "close"} /\ ~sealed
  /\ pc \in {"candidate", "validate", "publish", "verify"} => call = "close" /\ sealed
  /\ Aborting => call \in {"append", "close", "abort"}
  /\ call \in {"append", "close", "abort"} => ~closed
  /\ work # <<>> => pc = "append"
  /\ item # NoItem => pc \in {"append", "flush"}
  /\ staged # NoTransaction => pc = "ready" /\ ~sealed /\ ~closed /\ ~stuck
  /\ stuck => pc = "ready" \/ Aborting

(* What is known of the writer and of the directory. *)
Outcome ==
  /\ pc = "mark" => writer = "ended"
  /\ closed \/ sealed => writer = "ended"
  /\ sealed => ~failed /\ ~stuck
  /\ marker => closed
  /\ manifest => sealed /\ (closed \/ pc = "verify" \/ Aborting)

(* A full buffer is the batch in hand, or the writer failed.               *)
Bounded ==
  /\ \A s \in Streams :
       /\ Len(buffers[s]) <= BatchSize
       /\ Len(buffers[s]) = BatchSize => failed \/ (item # NoItem /\ item.stream = s)
  /\ Len(queue) <= QueueBatches
  /\ \A n \in DOMAIN queue : Len(queue[n].rows) <= BatchSize
  /\ item # NoItem => Len(item.rows) <= BatchSize

(* The number of facts handed over, and facts numbered as rows.            *)
Handed(s) == Len(accepted[s]) - Len(buffers[s])
Numbered(s, n) == [k \in 1..n |-> [sequence |-> k - 1, fact |-> accepted[s][k]]]

Buffered(s) ==
  [k \in 1..Len(buffers[s]) |-> [sequence |-> Handed(s) + k - 1, fact |-> buffers[s][k]]]

(* The buffers hold the facts accepted last, the batch in hand is a buffer. *)
Tails ==
  /\ \A s \in Streams :
       /\ Len(buffers[s]) <= Len(accepted[s])
       /\ \A k \in 1..Len(buffers[s]) : buffers[s][k] = accepted[s][Handed(s) + k]
  /\ item # NoItem => \A s \in Streams : item.stream = s => item.rows = Buffered(s)

(* The run is complete or can still be completed. *)
Good == manifest \/ ~(failed \/ Aborting \/ stuck \/ closed)

(* What is on file and then in the queue is what was handed over. *)
Follows == \A s \in Streams : files[s] \o Queued(s) = Numbered(s, Handed(s))

(* STOP is the last of the queue; the writer ends once the queue is empty. *)
Orderly ==
  /\ \A n \in DOMAIN queue :
       queue[n].stream \in Streams \/ (n = Len(queue) /\ queue[n] = STOP /\ pc = "join")
  /\ pc = "join" /\ writer = "running" => queue # <<>> /\ queue[Len(queue)] = STOP
  /\ writer # "running" => queue = <<>> /\ (pc = "join" \/ sealed)
  /\ pc \in {"stop", "join"} \/ sealed => buffers = Nothing

Whole == Good => Follows /\ Orderly

-----------------------------------------------------------------------------
(* Types *)

Entry == [stream : Streams, fact : 1..MaxFacts]
Row   == [sequence : Nat, fact : 1..MaxFacts]
Batches == [stream : Streams, rows : Seq(Row)] \cup {STOP}

(* TypeOK by its parts; a batch of the queue is STOP or has a stream.      *)
FlagTypes ==
  /\ strict \in BOOLEAN /\ sealed \in BOOLEAN /\ closed \in BOOLEAN /\ failed \in BOOLEAN
  /\ manifest \in BOOLEAN /\ candidate \in BOOLEAN /\ marker \in BOOLEAN /\ stuck \in BOOLEAN

PlaceTypes ==
  /\ writer \in {"running", "closing", "ended"}
  /\ pc \in {"ready", "append", "flush", "stop", "join", "candidate", "validate",
             "publish", "verify", "abort", "abortJoin", "mark"}
  /\ call \in {"none", "append", "seal", "close", "abort"}
  /\ sent \in 0..MaxFacts

DataTypes ==
  /\ accepted \in [Streams -> Seq(1..MaxFacts)] /\ buffers \in [Streams -> Seq(1..MaxFacts)]
  /\ \A s \in Streams : Len(buffers[s]) <= Len(accepted[s])
  /\ files \in [Streams -> Seq(Row)]
  /\ queue \in Seq(Batches)

WorkTypes ==
  /\ staged = NoTransaction \/ staged \in Seq(Entry)
  /\ work \in Seq(Entry)
  /\ item = NoItem \/ item \in [stream : Streams, rows : Seq(Row)]

Types == FlagTypes /\ PlaceTypes /\ DataTypes /\ WorkTypes

(* The parts of the type invariant give TypeOK. *)
LEMMA TypesImplyTypeOK == Types => TypeOK
<1> SUFFICES ASSUME Types PROVE TypeOK
  OBVIOUS
<1>1. Batches \subseteq [stream : Streams \cup {"stop"}, rows : Seq(Row)]
  <2>1. STOP \in [stream : Streams \cup {"stop"}, rows : Seq(Row)]
    <3>1. <<>> \in Seq(Row)
      OBVIOUS
    <3> QED BY <3>1 DEF STOP
  <2> QED BY <2>1 DEF Batches
<1>2. queue \in Seq([stream : Streams \cup {"stop"}, rows : Seq(Row)])
  BY <1>1, SeqMonotonic DEF Types, DataTypes
<1>3. {strict, sealed, closed, failed, manifest, candidate, marker, stuck} \subseteq BOOLEAN
  BY Zenon DEF Types, FlagTypes
<1> QED BY <1>2, <1>3 DEF Types, DataTypes, PlaceTypes, WorkTypes, TypeOK, Entry, Row

(* Nothing is empty for every stream. *)
LEMMA NothingTyped ==
  /\ Nothing \in [Streams -> Seq(1..MaxFacts)]
  /\ Nothing \in [Streams -> Seq(Row)]
  /\ \A s \in Streams : Nothing[s] = <<>> /\ Len(Nothing[s]) = 0
BY DEF Nothing

(* The sink starts with its types. *)
LEMMA InitTypes == Init => Types
<1> SUFFICES ASSUME Init PROVE Types
  OBVIOUS
<1>1. FlagTypes
  BY Zenon DEF Init, FlagTypes
<1>2. PlaceTypes
  BY SinkAssumption DEF Init, PlaceTypes
<1>3. DataTypes
  BY NothingTyped DEF Init, DataTypes
<1>4. WorkTypes
  BY DEF Init, WorkTypes
<1> QED BY <1>1, <1>2, <1>3, <1>4 DEF Types

(* A call that raises keeps the types, abort's first part included.        *)
LEMMA EnterAbortTypes ==
  ASSUME Types, EnterAbort, call' \in {"append", "close", "abort"}
  PROVE  Types'
<1> USE DEF EnterAbort, Types, writerVars, diskVars
<1>1. FlagTypes'
  BY Zenon DEF FlagTypes
<1>2. PlaceTypes'
  BY DEF PlaceTypes
<1>3. DataTypes'
  <2>1. \A s \in Streams : Len(accepted[s]) \in Nat
    BY DEF DataTypes
  <2>2. \A s \in Streams : Len(buffers'[s]) <= Len(accepted'[s])
    BY <2>1, NothingTyped
  <2> QED BY <2>2, NothingTyped DEF DataTypes
<1>4. WorkTypes'
  BY DEF WorkTypes, Entry, Row
<1> QED BY <1>1, <1>2, <1>3, <1>4

(* A call that raises, with or without aborting, keeps the types. *)
LEMMA RaiseTypes ==
  ASSUME Types, Raise
  PROVE  Types'
<1>1. CASE call = "close" \/ (strict /\ call = "append")
  BY <1>1, EnterAbortTypes DEF Raise
<1>2. CASE ~ (call = "close" \/ (strict /\ call = "append"))
  <2> USE <1>2 DEF Raise, Return, Types, sinkVars, writerVars, diskVars
  <2>1. FlagTypes'
    BY Zenon DEF FlagTypes
  <2>2. PlaceTypes'
    BY DEF PlaceTypes
  <2>3. DataTypes'
    BY DEF DataTypes, Batches, Row
  <2>4. WorkTypes'
    BY DEF WorkTypes, Entry, Row
  <2> QED BY <2>1, <2>2, <2>3, <2>4
<1> QED BY <1>1, <1>2

(* The mark that ends the queue is typed as a batch.                       *)
LEMMA StopIsBatch == STOP \in Batches
BY DEF Batches

(* A batch is typed: its numbers are those of the facts it carries.        *)
LEMMA BatchTyped ==
  ASSUME NEW s \in Streams, DataTypes'
  PROVE  /\ Batch(s) \in [stream : Streams, rows : Seq(Row)]
         /\ Batch(s) # NoItem
         /\ Batch(s).stream = s
         /\ Len(Batch(s).rows) = Len(buffers'[s])
<1> DEFINE first == Len(accepted'[s]) - Len(buffers'[s])
           rows == [n \in DOMAIN buffers'[s] |-> [sequence |-> first + n - 1, fact |-> buffers'[s][n]]]
<1>1. /\ Len(buffers'[s]) \in Nat /\ Len(accepted'[s]) \in Nat /\ first \in Nat
      /\ DOMAIN buffers'[s] = 1..Len(buffers'[s])
      /\ \A n \in DOMAIN buffers'[s] : buffers'[s][n] \in 1..MaxFacts
  <2>1. buffers'[s] \in Seq(1..MaxFacts) /\ accepted'[s] \in Seq(1..MaxFacts)
        /\ Len(buffers'[s]) <= Len(accepted'[s])
    BY DEF DataTypes
  <2>2. \A t \in Seq(1..MaxFacts) : /\ Len(t) \in Nat /\ DOMAIN t = 1..Len(t)
                                    /\ \A n \in DOMAIN t : t[n] \in 1..MaxFacts
    BY Elements, Zenon
  <2>3. /\ Len(buffers'[s]) \in Nat /\ Len(accepted'[s]) \in Nat
        /\ DOMAIN buffers'[s] = 1..Len(buffers'[s])
        /\ \A n \in DOMAIN buffers'[s] : buffers'[s][n] \in 1..MaxFacts
    BY <2>1, <2>2, Zenon
  <2>4. first \in Nat
    BY <2>1, <2>3
  <2> QED BY <2>3, <2>4
<1>2. \A n \in DOMAIN buffers'[s] : [sequence |-> first + n - 1, fact |-> buffers'[s][n]] \in Row
  <2> HIDE DEF first
  <2>1. \A n \in DOMAIN buffers'[s] : first + n - 1 \in Nat
    BY <1>1
  <2> QED BY <1>1, <2>1 DEF Row
<1>3. rows \in [1..Len(buffers'[s]) -> Row]
  BY <1>1, <1>2
<1>4. rows \in Seq(Row) /\ Len(rows) = Len(buffers'[s])
  <2> HIDE DEF rows
  <2> QED BY <1>1, <1>3
<1>5. Batch(s) = [stream |-> s, rows |-> rows]
  BY DEF Batch
<1> HIDE DEF rows
<1> QED BY <1>4, <1>5, SinkAssumption DEF NoItem

(* Every step keeps the types. *)
LEMMA TypesStep == Types /\ [Next]_vars => Types'
<1> SUFFICES ASSUME Types, [Next]_vars PROVE Types'
  OBVIOUS
<1> USE DEF sinkVars, writerVars, diskVars, callVars
<1>1. ASSUME NEW s \in Streams, AppendFact(s) PROVE Types'
  <2> DEFINE entry == [stream |-> s, fact |-> sent + 1]
  <2>1. entry \in Entry /\ sent + 1 \in 0..MaxFacts
    BY <1>1, SinkAssumption DEF AppendFact, Types, PlaceTypes, Entry
  <2> HIDE DEF entry
  <2>2. CASE staged = NoTransaction
    <3>1. work' = <<entry>> /\ UNCHANGED staged
      BY <1>1, <2>2 DEF AppendFact, entry
    <3>2. WorkTypes'
      BY <1>1, <2>1, <3>1 DEF AppendFact, Types, WorkTypes
    <3> QED BY <1>1, <2>1, <2>2, <3>2 DEF AppendFact, Begin, Types, FlagTypes, PlaceTypes, DataTypes
  <2>3. CASE staged # NoTransaction
    <3>1. staged' = Append(staged, entry) /\ UNCHANGED work
      BY <1>1, <2>3 DEF AppendFact, entry
    <3>2. WorkTypes'
      BY <1>1, <2>1, <2>3, <3>1 DEF AppendFact, Types, WorkTypes
    <3> QED BY <1>1, <2>1, <2>3, <3>2 DEF AppendFact, Types, FlagTypes, PlaceTypes, DataTypes
  <2> QED BY <2>2, <2>3
<1>2. CASE AppendInvalid
  BY <1>2, EnterAbortTypes DEF AppendInvalid
<1>3. CASE BeginTransaction
  BY <1>3 DEF BeginTransaction, Types, FlagTypes, PlaceTypes, DataTypes, WorkTypes
<1>4. CASE Commit
  BY <1>4 DEF Commit, Begin, Types, FlagTypes, PlaceTypes, DataTypes, WorkTypes
<1>5. CASE Rollback
  BY <1>5 DEF Rollback, Types, FlagTypes, PlaceTypes, DataTypes, WorkTypes
<1>6. CASE Seal
  BY <1>6 DEF Seal, Begin, Types, FlagTypes, PlaceTypes, DataTypes, WorkTypes
<1>7. CASE Close
  <2>1. CASE ~sealed /\ staged # NoTransaction
    BY <1>7, <2>1, EnterAbortTypes DEF Close
  <2>2. CASE ~ (~sealed /\ staged # NoTransaction)
    BY <1>7, <2>2 DEF Close, Finish, Types, FlagTypes, PlaceTypes, DataTypes, WorkTypes
  <2> QED BY <2>1, <2>2
<1>8. CASE Abort
  BY <1>8, EnterAbortTypes DEF Abort
<1>9. CASE AppendCommitted
  <2>1. CASE Raise
    BY <2>1, RaiseTypes
  <2>2. CASE work = <<>>
    BY <1>9, <2>2 DEF AppendCommitted, Return, Types, FlagTypes, PlaceTypes, DataTypes, WorkTypes
  <2>3. CASE work # <<>> /\ ~Raise
    <3> DEFINE s == Head(work).stream
               f == Head(work).fact
    <3>1. /\ accepted' = [accepted EXCEPT ![s] = Append(@, f)]
          /\ buffers'  = [buffers EXCEPT ![s] = Append(@, f)]
          /\ item' = NoItem \/ item' = Batch(s)
          /\ work' = Tail(work)
          /\ UNCHANGED <<strict, queue, staged, sealed, closed, failed, files, writer, manifest,
                         candidate, marker, pc, call, stuck, sent>>
      BY <1>9, <2>3 DEF AppendCommitted
    <3>2. s \in Streams /\ f \in 1..MaxFacts /\ work' \in Seq(Entry)
      <4>1. Head(work) \in Entry /\ Tail(work) \in Seq(Entry)
        BY <2>3 DEF Types, WorkTypes
      <4> QED BY <3>1, <4>1 DEF Entry
    <3> HIDE DEF s, f
    <3>3. DataTypes'
      <4>1. /\ accepted' \in [Streams -> Seq(1..MaxFacts)] /\ buffers' \in [Streams -> Seq(1..MaxFacts)]
        BY <3>1, <3>2 DEF Types, DataTypes
      <4>2. \A r \in Streams : Len(buffers'[r]) <= Len(accepted'[r])
        <5>1. \A r \in Streams : r # s => buffers'[r] = buffers[r] /\ accepted'[r] = accepted[r]
          BY <3>1, <3>2 DEF Types, DataTypes
        <5>2. /\ buffers'[s] = Append(buffers[s], f) /\ accepted'[s] = Append(accepted[s], f)
              /\ buffers[s] \in Seq(1..MaxFacts) /\ accepted[s] \in Seq(1..MaxFacts)
              /\ Len(buffers[s]) <= Len(accepted[s])
          BY <3>1, <3>2 DEF Types, DataTypes
        <5>3. Len(buffers'[s]) <= Len(accepted'[s])
          BY <3>2, <5>2
        <5> QED BY <5>1, <5>3 DEF Types, DataTypes
      <4> QED BY <3>1, <4>1, <4>2 DEF Types, DataTypes
    <3>4. WorkTypes'
      BY <3>1, <3>2, <3>3, BatchTyped DEF Types, WorkTypes
    <3> QED BY <3>1, <3>3, <3>4 DEF Types, FlagTypes, PlaceTypes
  <2> QED BY <2>1, <2>2, <2>3
<1>10. CASE Enqueue
  <2>1. CASE Raise
    BY <2>1, RaiseTypes
  <2>2. CASE ~Raise
    <3>1. item \in Batches /\ item.stream \in Streams
      BY <1>10 DEF Enqueue, Types, WorkTypes, Batches
    <3>2. buffers' = [buffers EXCEPT ![item.stream] = <<>>] /\ accepted' = accepted /\ files' = files
          /\ queue' = Append(queue, item)
      BY <1>10, <2>2 DEF Enqueue
    <3>3. DataTypes'
      <4>1. buffers' \in [Streams -> Seq(1..MaxFacts)] /\ queue' \in Seq(Batches)
        BY <3>1, <3>2 DEF Types, DataTypes
      <4>2. \A s \in Streams : Len(buffers'[s]) <= Len(accepted'[s])
        <5>1. \A s \in Streams : buffers'[s] = (IF s = item.stream THEN <<>> ELSE buffers[s])
                                 /\ Len(accepted[s]) \in Nat
          BY <3>1, <3>2 DEF Types, DataTypes
        <5> QED BY <3>2, <5>1 DEF Types, DataTypes
      <4> QED BY <3>2, <4>1, <4>2 DEF Types, DataTypes
    <3> QED BY <1>10, <2>2, <3>3 DEF Enqueue, Types, FlagTypes, PlaceTypes, WorkTypes
  <2> QED BY <2>1, <2>2
<1>11. CASE Flush
  <2>1. CASE Raise
    BY <2>1, RaiseTypes
  <2>2. CASE ~Raise
    <3>1. /\ UNCHANGED <<accepted, buffers, strict, queue, staged, sealed, closed, failed, files, writer,
                         manifest, candidate, marker, call, work, stuck, sent>>
          /\ pc' \in {pc, "stop"}
          /\ item' = item \/ \E s \in Streams : item' = Batch(s)
      BY <1>11, <2>2 DEF Flush
    <3>2. DataTypes'
      BY <3>1 DEF Types, DataTypes
    <3>3. WorkTypes'
      BY <3>1, <3>2, BatchTyped DEF Types, WorkTypes
    <3> QED BY <3>1, <3>2, <3>3 DEF Types, FlagTypes, PlaceTypes
  <2> QED BY <2>1, <2>2
<1>12. CASE PutStop
  <2>1. CASE Raise
    BY <2>1, RaiseTypes
  <2>2. CASE ~Raise
    <3>1. queue' \in Seq(Batches)
      <4>1. queue' = Append(queue, STOP)
        BY <1>12, <2>2 DEF PutStop
      <4> QED BY <4>1, StopIsBatch DEF Types, DataTypes
    <3> QED BY <1>12, <2>2, <3>1 DEF PutStop, Types, FlagTypes, PlaceTypes, DataTypes, WorkTypes
  <2> QED BY <2>1, <2>2
<1>13. CASE Join
  <2>1. CASE Raise
    BY <2>1, RaiseTypes
  <2>2. CASE ~Raise
    BY <1>13, <2>2 DEF Join, Finish, Return, Types, FlagTypes, PlaceTypes, DataTypes, WorkTypes
  <2> QED BY <2>1, <2>2
<1>14. CASE WriteCandidate
  <2>1. CASE Raise
    BY <2>1, RaiseTypes
  <2>2. CASE ~Raise
    <3>1. FlagTypes'
      BY <1>14, <2>2, Zenon DEF WriteCandidate, Types, FlagTypes
    <3> QED BY <1>14, <2>2, <3>1 DEF WriteCandidate, Types, PlaceTypes, DataTypes, WorkTypes
  <2> QED BY <2>1, <2>2
<1>15. CASE ValidateCandidate
  <2>1. CASE Raise
    BY <2>1, RaiseTypes
  <2>2. CASE ~Raise
    BY <1>15, <2>2 DEF ValidateCandidate, Types, FlagTypes, PlaceTypes, DataTypes, WorkTypes
  <2> QED BY <2>1, <2>2
<1>16. CASE Publish
  <2>1. CASE Raise
    BY <2>1, RaiseTypes
  <2>2. CASE ~Raise
    <3>1. FlagTypes'
      BY <1>16, <2>2, Zenon DEF Publish, Types, FlagTypes
    <3> QED BY <1>16, <2>2, <3>1 DEF Publish, Types, PlaceTypes, DataTypes, WorkTypes
  <2> QED BY <2>1, <2>2
<1>17. CASE Verify
  <2>1. CASE Raise
    BY <2>1, RaiseTypes
  <2>2. CASE ~Raise
    <3>1. FlagTypes'
      BY <1>17, <2>2, Zenon DEF Verify, Types, FlagTypes
    <3> QED BY <1>17, <2>2, <3>1 DEF Verify, Return, Types, PlaceTypes, DataTypes, WorkTypes
  <2> QED BY <2>1, <2>2
<1>18. CASE AbortStop
  <2>1. queue' \in Seq(Batches)
    <3>1. queue' = queue \/ queue' = Append(queue, STOP)
      BY <1>18, Zenon DEF AbortStop
    <3>2. Append(queue, STOP) \in Seq(Batches)
      BY StopIsBatch DEF Types, DataTypes
    <3> QED BY <3>1, <3>2, Zenon DEF Types, DataTypes
  <2>2. UNCHANGED <<strict, accepted, buffers, staged, sealed, closed, writerVars, diskVars,
                    call, work, item, stuck, sent>> /\ pc' = "abortJoin"
    BY <1>18, Zenon DEF AbortStop
  <2> QED BY <2>1, <2>2 DEF Types, FlagTypes, PlaceTypes, DataTypes, WorkTypes
<1>19. CASE AbortJoin
  <2>1. stuck' \in BOOLEAN
    BY <1>19, Zenon DEF AbortJoin, Types, FlagTypes
  <2>2. FlagTypes'
    BY <1>19, <2>1, Zenon DEF AbortJoin, Types, FlagTypes
  <2> QED BY <1>19, <2>2 DEF AbortJoin, Return, Types, PlaceTypes, DataTypes, WorkTypes
<1>20. CASE Mark
  <2>1. FlagTypes'
    <3>1. marker' \in BOOLEAN
      BY <1>20, Zenon DEF Mark, Types, FlagTypes
    <3> QED BY <1>20, <3>1, Zenon DEF Mark, Types, FlagTypes
  <2> QED BY <1>20, <2>1 DEF Mark, Return, Types, PlaceTypes, DataTypes, WorkTypes
<1>21. CASE WriteBatch
  <2> DEFINE batch == Head(queue)
  <2>1. batch \in Batches /\ queue' \in Seq(Batches)
    BY <1>21 DEF WriteBatch, Types, DataTypes
  <2>2. writer' \in {writer, "closing"} /\ failed' \in {failed, TRUE}
    BY <1>21 DEF WriteBatch
  <2>3. files' \in [Streams -> Seq(Row)]
    <3>1. CASE files' = files
      BY <3>1 DEF Types, DataTypes
    <3>2. CASE files' # files
      <4>1. batch # STOP /\ files' = [files EXCEPT ![batch.stream] = @ \o batch.rows]
        BY <1>21, <3>2 DEF WriteBatch
      <4>2. batch.stream \in Streams /\ batch.rows \in Seq(Row)
        BY <2>1, <4>1 DEF Batches
      <4>3. files[batch.stream] \o batch.rows \in Seq(Row)
        BY <4>2 DEF Types, DataTypes
      <4> QED BY <4>1, <4>2, <4>3 DEF Types, DataTypes
    <3> QED BY <3>1, <3>2
  <2>4. DataTypes'
    BY <1>21, <2>1, <2>3 DEF WriteBatch, Types, DataTypes
  <2>5. FlagTypes'
    <3>1. failed' \in BOOLEAN
      BY <2>2, Zenon DEF Types, FlagTypes
    <3> QED BY <1>21, <3>1, Zenon DEF WriteBatch, Types, FlagTypes
  <2>6. PlaceTypes'
    BY <1>21, <2>2 DEF WriteBatch, Types, PlaceTypes
  <2>7. WorkTypes'
    BY <1>21 DEF WriteBatch, Types, WorkTypes
  <2> QED BY <2>4, <2>5, <2>6, <2>7 DEF Types
<1>22. CASE CloseFiles
  <2>1. failed' \in BOOLEAN
    BY <1>22, Zenon DEF CloseFiles, Types, FlagTypes
  <2>2. FlagTypes'
    BY <1>22, <2>1, Zenon DEF CloseFiles, Types, FlagTypes
  <2> QED BY <1>22, <2>2 DEF CloseFiles, Types, PlaceTypes, DataTypes, WorkTypes
<1>23. CASE UNCHANGED vars
  BY <1>23 DEF vars, Types, FlagTypes, PlaceTypes, DataTypes, WorkTypes
<1> QED
  BY <1>1, <1>2, <1>3, <1>4, <1>5, <1>6, <1>7, <1>8, <1>9, <1>10, <1>11, <1>12, <1>13, <1>14, <1>15,
     <1>16, <1>17, <1>18, <1>19, <1>20, <1>21, <1>22, <1>23
     DEF Next, Producer, Writer, Idle

-----------------------------------------------------------------------------
(* Where the producer stands *)

(* The first part of abort, taken by a call that may abort.                *)
LEMMA EnterAbortPlaces ==
  ASSUME Control, Outcome, EnterAbort, call' \in {"append", "close", "abort"}, ~closed, ~stuck \/ pc = "ready"
  PROVE  Control' /\ Outcome'
BY DEF EnterAbort, Control, Outcome, Aborting, writerVars, diskVars

(* A call that raises returns, or stands at the start of abort. *)
LEMMA RaisePlaces ==
  ASSUME Types, Control, Outcome, Raise,
         pc \in {"append", "flush", "stop", "join", "candidate", "validate", "publish", "verify"}
  PROVE  Control' /\ Outcome'
<1>1. CASE call = "close" \/ (strict /\ call = "append")
  <2>1. ~closed /\ ~stuck /\ call' \in {"append", "close", "abort"} /\ EnterAbort
    BY <1>1 DEF Raise, Control, Aborting
  <2> QED BY <2>1, EnterAbortPlaces
<1>2. CASE ~ (call = "close" \/ (strict /\ call = "append"))
  BY <1>2 DEF Raise, Return, Control, Outcome, Aborting, sinkVars, writerVars, diskVars
<1> QED BY <1>1, <1>2

(* Every step keeps what the position of the call implies for the writer   *)
(* and the directory.                                                      *)
LEMMA PlacesStep == Types /\ Control /\ Outcome /\ [Next]_vars => Control' /\ Outcome'
<1> SUFFICES ASSUME Types, Control, Outcome, [Next]_vars PROVE Control' /\ Outcome'
  OBVIOUS
<1> USE DEF sinkVars, writerVars, diskVars, callVars
<1>1. ASSUME NEW s \in Streams, AppendFact(s) PROVE Control' /\ Outcome'
  BY <1>1 DEF AppendFact, Begin, Control, Outcome, Aborting
<1>2. CASE AppendInvalid
  BY <1>2, EnterAbortPlaces DEF AppendInvalid
<1>3. CASE BeginTransaction
  BY <1>3 DEF BeginTransaction, Control, Outcome, Aborting
<1>4. CASE Commit
  BY <1>4 DEF Commit, Control, Outcome, Aborting, Begin
<1>5. CASE Rollback
  BY <1>5 DEF Rollback, Control, Outcome, Aborting
<1>6. CASE Seal
  BY <1>6 DEF Seal, Control, Outcome, Aborting, Begin
<1>7. CASE Close
  <2>1. CASE ~sealed /\ staged # NoTransaction
    BY <1>7, <2>1, EnterAbortPlaces DEF Close
  <2>2. CASE ~ (~sealed /\ staged # NoTransaction)
    BY <1>7, <2>2 DEF Close, Finish, Control, Outcome, Aborting
  <2> QED BY <2>1, <2>2
<1>8. CASE Abort
  BY <1>8, EnterAbortPlaces DEF Abort
<1>9. CASE AppendCommitted
  <2>1. CASE Raise
    BY <1>9, <2>1, RaisePlaces DEF AppendCommitted, Control
  <2>2. CASE ~Raise
    BY <1>9, <2>2 DEF AppendCommitted, Control, Outcome, Aborting, Return
  <2> QED BY <2>1, <2>2
<1>10. CASE Enqueue
  <2>1. CASE Raise
    BY <1>10, <2>1, RaisePlaces DEF Enqueue, Control
  <2>2. CASE ~Raise
    BY <1>10, <2>2 DEF Enqueue, Control, Outcome, Aborting
  <2> QED BY <2>1, <2>2
<1>11. CASE Flush
  <2>1. CASE Raise
    BY <1>11, <2>1, RaisePlaces DEF Flush, Control
  <2>2. CASE ~Raise
    BY <1>11, <2>2 DEF Flush, Control, Outcome, Aborting
  <2> QED BY <2>1, <2>2
<1>12. CASE PutStop
  <2>1. CASE Raise
    BY <1>12, <2>1, RaisePlaces DEF PutStop
  <2>2. CASE ~Raise
    BY <1>12, <2>2 DEF PutStop, Control, Outcome, Aborting
  <2> QED BY <2>1, <2>2
<1>13. CASE Join
  <2>1. CASE Raise
    BY <1>13, <2>1, RaisePlaces DEF Join
  <2>2. CASE ~Raise
    BY <1>13, <2>2 DEF Join, Control, Outcome, Aborting, Finish, Return
  <2> QED BY <2>1, <2>2
<1>14. CASE WriteCandidate
  <2>1. CASE Raise
    BY <1>14, <2>1, RaisePlaces DEF WriteCandidate
  <2>2. CASE ~Raise
    <3>1. pc = "candidate" /\ pc' = "validate"
          /\ UNCHANGED <<sinkVars, writerVars, manifest, marker, call, work, item, stuck, sent>>
      BY <1>14, <2>2, Zenon DEF WriteCandidate
    <3>2. Control'
      BY <3>1 DEF Control, Aborting
    <3>3. Outcome'
      BY <3>1 DEF Control, Outcome, Aborting
    <3> QED BY <3>2, <3>3
  <2> QED BY <2>1, <2>2
<1>15. CASE ValidateCandidate
  <2>1. CASE Raise
    BY <1>15, <2>1, RaisePlaces DEF ValidateCandidate
  <2>2. CASE ~Raise
    <3>1. pc = "validate" /\ pc' = "publish"
          /\ UNCHANGED <<sinkVars, writerVars, diskVars, call, work, item, stuck, sent>>
      BY <1>15, <2>2, Zenon DEF ValidateCandidate
    <3>2. Control'
      BY <3>1 DEF Control, Aborting
    <3>3. Outcome'
      BY <3>1 DEF Control, Outcome, Aborting
    <3> QED BY <3>2, <3>3
  <2> QED BY <2>1, <2>2
<1>16. CASE Publish
  <2>1. CASE Raise
    BY <1>16, <2>1, RaisePlaces DEF Publish
  <2>2. CASE ~Raise
    <3>1. pc = "publish" /\ pc' = "verify"
          /\ UNCHANGED <<sinkVars, writerVars, candidate, marker, call, work, item, stuck, sent>>
      BY <1>16, <2>2, Zenon DEF Publish
    <3>2. Control'
      BY <3>1 DEF Control, Aborting
    <3>3. Outcome'
      BY <3>1 DEF Control, Outcome, Aborting
    <3> QED BY <3>2, <3>3
  <2> QED BY <2>1, <2>2
<1>17. CASE Verify
  <2>1. CASE Raise
    BY <1>17, <2>1, RaisePlaces DEF Verify
  <2>2. CASE ~Raise
    <3>1. pc = "verify" /\ pc' = "ready" /\ call' = "none" /\ closed' = TRUE
          /\ UNCHANGED <<strict, accepted, buffers, queue, staged, sealed, writerVars,
                         manifest, marker, work, item, stuck, sent>>
      BY <1>17, <2>2, Zenon DEF Verify, Return
    <3>2. Control'
      BY <3>1 DEF Control, Aborting
    <3>3. Outcome'
      BY <3>1 DEF Control, Outcome, Aborting
    <3> QED BY <3>2, <3>3
  <2> QED BY <2>1, <2>2
<1>18. CASE AbortStop
  BY <1>18 DEF AbortStop, Control, Outcome, Aborting
<1>19. CASE AbortJoin
  BY <1>19 DEF AbortJoin, Control, Outcome, Aborting, Return
<1>20. CASE Mark
  BY <1>20 DEF Mark, Control, Outcome, Aborting, Return
<1>21. CASE WriteBatch
  BY <1>21 DEF WriteBatch, Control, Outcome, Aborting
<1>22. CASE CloseFiles
  BY <1>22 DEF CloseFiles, Control, Outcome, Aborting
<1>23. CASE UNCHANGED vars
  BY <1>23 DEF vars, Control, Outcome, Aborting
<1> QED
  BY <1>1, <1>2, <1>3, <1>4, <1>5, <1>6, <1>7, <1>8, <1>9, <1>10, <1>11, <1>12, <1>13, <1>14, <1>15,
     <1>16, <1>17, <1>18, <1>19, <1>20, <1>21, <1>22, <1>23
     DEF Next, Producer, Writer, Idle

-----------------------------------------------------------------------------
(* Memory *)

(* A step that touches neither buffers, queue nor the batch in hand.       *)
LEMMA BoundedKept ==
  ASSUME Bounded, buffers' = buffers, queue' = queue, item' = item, failed => failed'
  PROVE  Bounded'
BY DEF Bounded

(* A call that raises enlarges no buffer and no queue. *)
LEMMA RaiseBounded ==
  ASSUME Bounded, Raise \/ EnterAbort, Types, failed \/ item = NoItem \/ EnterAbort
  PROVE  Bounded'
<1>1. CASE EnterAbort
  BY <1>1, NothingTyped, SinkAssumption DEF EnterAbort, Bounded
<1>2. CASE ~EnterAbort
  <2>1. item' = NoItem /\ UNCHANGED <<buffers, queue, failed>>
    BY <1>2, Zenon DEF Raise, sinkVars, writerVars
  <2> QED BY <1>2, <2>1 DEF Bounded
<1> QED BY <1>1, <1>2

(* STOP, which the queue takes only while there is room, carries no rows.  *)
LEMMA StopBounded ==
  ASSUME Bounded, Types, Len(queue) < QueueBatches, queue' = Append(queue, STOP),
         buffers' = buffers, item' = item, failed' = failed
  PROVE  Bounded'
<1>1. /\ Len(queue') = Len(queue) + 1 /\ Len(queue) \in Nat
      /\ \A n \in DOMAIN queue' : queue'[n] = STOP \/ (n \in DOMAIN queue /\ queue'[n] = queue[n])
  BY DEF Types, DataTypes
<1>2. Len(STOP.rows) <= BatchSize
  BY SinkAssumption DEF STOP
<1>3. Len(queue') <= QueueBatches
  BY <1>1, SinkAssumption
<1>4. \A n \in DOMAIN queue' : Len(queue'[n].rows) <= BatchSize
  BY <1>1, <1>2 DEF Bounded
<1> QED BY <1>3, <1>4 DEF Bounded

(* No step exceeds the batch size or the capacity of the queue: a full     *)
(* buffer is enqueued before the next fact is accepted.                    *)
LEMMA BoundedStep == Types /\ Control /\ Bounded /\ [Next]_vars => Bounded'
<1> SUFFICES ASSUME Types, Control, Bounded, [Next]_vars PROVE Bounded'
  OBVIOUS
<1> USE DEF sinkVars, writerVars, diskVars, callVars
<1>0. Types'
  BY TypesStep
<1>1. ASSUME NEW s \in Streams, AppendFact(s) PROVE Bounded'
  BY <1>1, BoundedKept DEF AppendFact
<1>2. CASE AppendInvalid
  BY <1>2, RaiseBounded DEF AppendInvalid
<1>3. CASE BeginTransaction
  BY <1>3, BoundedKept DEF BeginTransaction
<1>4. CASE Commit
  BY <1>4, BoundedKept DEF Commit
<1>5. CASE Rollback
  BY <1>5, BoundedKept DEF Rollback
<1>6. CASE Seal
  BY <1>6, BoundedKept DEF Seal
<1>7. CASE Close
  BY <1>7, BoundedKept, RaiseBounded DEF Close
<1>8. CASE Abort
  BY <1>8, RaiseBounded DEF Abort
<1>9. CASE AppendCommitted
  <2>1. CASE Raise
    BY <1>9, <2>1, RaiseBounded DEF AppendCommitted
  <2>2. CASE work = <<>>
    BY <1>9, <2>2, BoundedKept DEF AppendCommitted
  <2>3. CASE work # <<>> /\ ~Raise
    <3> DEFINE s == Head(work).stream
               f == Head(work).fact
    <3>1. /\ buffers'  = [buffers EXCEPT ![s] = Append(@, f)]
          /\ item' = IF Len(buffers'[s]) >= BatchSize THEN Batch(s) ELSE NoItem
          /\ queue' = queue /\ item = NoItem /\ ~failed
      BY <1>9, <2>3 DEF AppendCommitted
    <3>2. s \in Streams
      <4>1. Head(work) \in Entry
        BY <2>3 DEF Types, WorkTypes
      <4> QED BY <4>1 DEF Entry
    <3> HIDE DEF s, f
    <3>3. Len(buffers[s]) < BatchSize
      BY <3>1, <3>2, SinkAssumption DEF Bounded, Types, DataTypes
    <3>4. Len(buffers'[s]) = Len(buffers[s]) + 1 /\ Len(buffers[s]) \in Nat
      BY <3>1, <3>2 DEF Types, DataTypes
    <3>5. Len(buffers'[s]) <= BatchSize
      BY <3>3, <3>4, SinkAssumption
    <3>6. \A r \in Streams : r # s => buffers'[r] = buffers[r]
      BY <3>1, <3>2 DEF Types, DataTypes
    <3>7. Batch(s) # NoItem /\ Batch(s).stream = s /\ Len(Batch(s).rows) <= BatchSize
      BY <1>0, <3>2, <3>5, BatchTyped DEF Types
    <3> QED BY <3>1, <3>2, <3>3, <3>4, <3>5, <3>6, <3>7 DEF Bounded
  <2> QED BY <2>1, <2>2, <2>3
<1>10. CASE Enqueue
  <2>1. CASE Raise /\ failed
    BY <2>1, RaiseBounded
  <2>2. CASE ~ (Raise /\ failed)
    <3>1. /\ Len(queue) < QueueBatches /\ queue' = Append(queue, item) /\ item # NoItem
          /\ buffers' = [buffers EXCEPT ![item.stream] = <<>>] /\ item' = NoItem /\ failed' = failed
      BY <1>10, <2>2, Zenon DEF Enqueue
    <3>2. item.stream \in Streams /\ item \in Batches
      BY <3>1 DEF Types, WorkTypes, Batches
    <3>3. \A r \in Streams : buffers'[r] = IF r = item.stream THEN <<>> ELSE buffers[r]
      BY <3>1, <3>2 DEF Types, DataTypes
    <3>4. /\ Len(queue') = Len(queue) + 1 /\ Len(queue) \in Nat
          /\ \A n \in DOMAIN queue' : queue'[n] = item \/ (n \in DOMAIN queue /\ queue'[n] = queue[n])
      BY <3>1, <3>2 DEF Types, DataTypes
    <3>5. Len(queue') <= QueueBatches
      BY <3>1, <3>4, SinkAssumption
    <3>6. \A n \in DOMAIN queue' : Len(queue'[n].rows) <= BatchSize
      BY <3>1, <3>4 DEF Bounded
    <3>7. \A r \in Streams : Len(buffers'[r]) <= BatchSize /\ (Len(buffers'[r]) = BatchSize => failed')
      BY <3>1, <3>3, SinkAssumption DEF Bounded
    <3> QED BY <3>1, <3>5, <3>6, <3>7 DEF Bounded
  <2> QED BY <2>1, <2>2
<1>11. CASE Flush
  <2>1. CASE Raise /\ failed
    BY <2>1, RaiseBounded
  <2>2. CASE ~ (Raise /\ failed)
    <3>1. /\ UNCHANGED <<accepted, buffers, queue, failed>> /\ item = NoItem /\ ~failed
          /\ item' = item \/ \E s \in Streams : item' = Batch(s)
      BY <1>11, <2>2 DEF Flush
    <3>2. \A s \in Streams : Len(Batch(s).rows) = Len(buffers'[s])
      BY <1>0, BatchTyped DEF Types
    <3> QED BY <3>1, <3>2 DEF Bounded
  <2> QED BY <2>1, <2>2
<1>12. CASE PutStop
  <2>1. CASE Raise /\ failed
    BY <2>1, RaiseBounded
  <2>2. CASE ~ (Raise /\ failed)
    BY <1>12, <2>2, StopBounded, Zenon DEF PutStop
  <2> QED BY <2>1, <2>2
<1>13. CASE Join
  BY <1>13, BoundedKept, RaiseBounded DEF Join
<1>14. CASE WriteCandidate
  <2>1. item = NoItem
    BY <1>14 DEF WriteCandidate, Control
  <2>2. Raise \/ UNCHANGED <<buffers, queue, item, failed>>
    BY <1>14, Zenon DEF WriteCandidate
  <2> QED BY <2>1, <2>2, BoundedKept, RaiseBounded
<1>15. CASE ValidateCandidate
  <2>1. item = NoItem
    BY <1>15 DEF ValidateCandidate, Control
  <2>2. Raise \/ UNCHANGED <<buffers, queue, item, failed>>
    BY <1>15, Zenon DEF ValidateCandidate
  <2> QED BY <2>1, <2>2, BoundedKept, RaiseBounded
<1>16. CASE Publish
  <2>1. item = NoItem
    BY <1>16 DEF Publish, Control
  <2>2. Raise \/ UNCHANGED <<buffers, queue, item, failed>>
    BY <1>16, Zenon DEF Publish
  <2> QED BY <2>1, <2>2, BoundedKept, RaiseBounded
<1>17. CASE Verify
  <2>1. item = NoItem
    BY <1>17 DEF Verify, Control
  <2>2. Raise \/ UNCHANGED <<buffers, queue, item, failed>>
    BY <1>17, Zenon DEF Verify
  <2> QED BY <2>1, <2>2, BoundedKept, RaiseBounded
<1>18. CASE AbortStop
  <2>1. UNCHANGED <<buffers, item, failed>>
    BY <1>18 DEF AbortStop
  <2>2. queue' = queue \/ (Len(queue) < QueueBatches /\ queue' = Append(queue, STOP))
    BY <1>18, Zenon DEF AbortStop
  <2> QED BY <2>1, <2>2, BoundedKept, StopBounded
<1>19. CASE AbortJoin
  BY <1>19, BoundedKept DEF AbortJoin
<1>20. CASE Mark
  BY <1>20, BoundedKept DEF Mark
<1>21. CASE WriteBatch
  <2>1. queue' = Tail(queue) /\ queue # <<>> /\ UNCHANGED <<buffers, item>> /\ (failed => failed')
    <3>1. failed' = failed \/ failed' = TRUE
      BY <1>21, Zenon DEF WriteBatch
    <3>2. failed => failed'
      BY <3>1
    <3> QED BY <1>21, <3>2 DEF WriteBatch
  <2>2. /\ Len(queue') = Len(queue) - 1 /\ Len(queue) \in Nat
        /\ \A n \in DOMAIN queue' : n + 1 \in DOMAIN queue /\ queue'[n] = queue[n + 1]
    BY <2>1 DEF Types, DataTypes
  <2>3. Len(queue') <= QueueBatches
    BY <2>2, SinkAssumption DEF Bounded
  <2> QED BY <2>1, <2>2, <2>3 DEF Bounded
<1>22. CASE CloseFiles
  <2>1. UNCHANGED <<buffers, queue, item>> /\ (failed => failed')
    <3>1. failed' = failed \/ failed' = TRUE
      BY <1>22, Zenon DEF CloseFiles
    <3>2. failed => failed'
      BY <3>1
    <3> QED BY <1>22, <3>2 DEF CloseFiles
  <2> QED BY <2>1, BoundedKept
<1>23. CASE UNCHANGED vars
  BY <1>23, BoundedKept DEF vars
<1> QED
  BY <1>1, <1>2, <1>3, <1>4, <1>5, <1>6, <1>7, <1>8, <1>9, <1>10, <1>11, <1>12, <1>13, <1>14, <1>15,
     <1>16, <1>17, <1>18, <1>19, <1>20, <1>21, <1>22, <1>23
     DEF Next, Producer, Writer, Idle

-----------------------------------------------------------------------------
(* Buffers and the batch in hand *)

(* A step that changes none of them, or lets the batch in hand go.         *)
LEMMA TailsKept ==
  ASSUME Tails, accepted' = accepted, buffers' = buffers, item' = item \/ item' = NoItem
  PROVE  Tails'
BY DEF Tails, Handed, Buffered

(* A call that raises leaves the buffers as they are or empties all of     *)
(* them.                                                                   *)
LEMMA RaiseTails ==
  ASSUME Types, Tails, Raise \/ EnterAbort
  PROVE  Tails'
<1>1. CASE EnterAbort
  <2>1. \A s \in Streams : buffers'[s] = <<>> /\ accepted'[s] = accepted[s]
    BY <1>1 DEF EnterAbort, Nothing
  <2>2. \A s \in Streams : Len(accepted[s]) \in Nat
    BY DEF Types, DataTypes
  <2>3. \A s \in Streams : Len(buffers'[s]) = 0
    BY <2>1
  <2>4. item' = NoItem
    BY <1>1 DEF EnterAbort
  <2> QED BY <2>1, <2>2, <2>3, <2>4 DEF Tails
<1>2. CASE ~EnterAbort
  <2>1. item' = NoItem /\ UNCHANGED <<buffers, accepted>>
    BY <1>2, Zenon DEF Raise, sinkVars
  <2> QED BY <2>1, TailsKept
<1> QED BY <1>1, <1>2

(* A batch carries what its buffer holds. *)
LEMMA BatchIsBuffered ==
  ASSUME NEW s \in Streams, Types'
  PROVE  Batch(s).rows = Buffered(s)'
<1>1. buffers'[s] \in Seq(1..MaxFacts)
  BY DEF Types, DataTypes
<1>2. DOMAIN buffers'[s] = 1..Len(buffers'[s])
  BY <1>1, Elements
<1> QED BY <1>2, Zenon DEF Batch, Buffered, Handed

(* Every step keeps in the buffers exactly the facts accepted last. *)
LEMMA TailsStep == Types /\ Tails /\ [Next]_vars => Tails'
<1> SUFFICES ASSUME Types, Tails, [Next]_vars PROVE Tails'
  OBVIOUS
<1> USE DEF sinkVars, writerVars, diskVars, callVars
<1>0. Types'
  BY TypesStep
<1>1. ASSUME NEW s \in Streams, AppendFact(s) PROVE Tails'
  BY <1>1, TailsKept DEF AppendFact
<1>2. CASE AppendInvalid
  BY <1>2, RaiseTails DEF AppendInvalid
<1>3. CASE BeginTransaction
  BY <1>3, TailsKept DEF BeginTransaction
<1>4. CASE Commit
  BY <1>4, TailsKept DEF Commit
<1>5. CASE Rollback
  BY <1>5, TailsKept DEF Rollback
<1>6. CASE Seal
  BY <1>6, TailsKept DEF Seal
<1>7. CASE Close
  BY <1>7, TailsKept, RaiseTails DEF Close
<1>8. CASE Abort
  BY <1>8, RaiseTails DEF Abort
<1>9. CASE AppendCommitted
  <2>1. CASE Raise
    BY <2>1, RaiseTails
  <2>2. CASE work = <<>>
    BY <1>9, <2>2, TailsKept DEF AppendCommitted
  <2>3. CASE work # <<>> /\ ~Raise
    <3>2. PICK s \in Streams, f \in 1..MaxFacts : s = Head(work).stream /\ f = Head(work).fact
      <4>1. Head(work) \in Entry
        BY <2>3 DEF Types, WorkTypes
      <4> QED BY <4>1 DEF Entry
    <3>1. /\ accepted' = [accepted EXCEPT ![s] = Append(@, f)]
          /\ buffers'  = [buffers EXCEPT ![s] = Append(@, f)]
          /\ item' = NoItem \/ item' = Batch(s)
      BY <1>9, <2>3, <3>2 DEF AppendCommitted
    <3>3. \A r \in Streams : r # s => buffers'[r] = buffers[r] /\ accepted'[r] = accepted[r]
      BY <3>1, <3>2 DEF Types, DataTypes
    <3>4. /\ buffers'[s] = Append(buffers[s], f) /\ accepted'[s] = Append(accepted[s], f)
          /\ buffers[s] \in Seq(1..MaxFacts) /\ accepted[s] \in Seq(1..MaxFacts)
      BY <3>1, <3>2 DEF Types, DataTypes
    <3>5. Len(buffers'[s]) = Len(buffers[s]) + 1 /\ Len(accepted'[s]) = Len(accepted[s]) + 1
          /\ Len(buffers[s]) \in Nat /\ Len(accepted[s]) \in Nat
      BY <3>2, <3>4
    <3>6. ASSUME NEW k \in 1..Len(buffers'[s]) PROVE buffers'[s][k] = accepted'[s][Handed(s)' + k]
      <4>0. Len(buffers[s]) <= Len(accepted[s])
        BY DEF Tails
      <4>1. Handed(s)' = Handed(s) /\ Handed(s) = Len(accepted[s]) - Len(buffers[s])
        BY <3>5 DEF Handed
      <4>2. CASE k = Len(buffers[s]) + 1
        <5>1. buffers'[s][k] = f
          BY <3>2, <3>4, <4>2
        <5>2. Handed(s) + k = Len(accepted[s]) + 1
          <6>1. \A a, b \in Nat : (a - b) + (b + 1) = a + 1
            OBVIOUS
          <6> QED BY <3>5, <4>1, <4>2, <6>1, Zenon
        <5>3. accepted'[s][Len(accepted[s]) + 1] = f
          BY <3>2, <3>4
        <5> QED BY <4>1, <5>1, <5>2, <5>3
      <4>3. CASE k # Len(buffers[s]) + 1
        <5>1. k \in 1..Len(buffers[s]) /\ Handed(s) + k \in 1..Len(accepted[s])
          <6>1. \A a, b \in Nat : \A n \in 1..(b + 1) :
                  b <= a /\ n # b + 1 => n \in 1..b /\ (a - b) + n \in 1..a
            OBVIOUS
          <6>2. k \in 1..(Len(buffers[s]) + 1)
            BY <3>5, Zenon
          <6> QED BY <3>5, <4>0, <4>1, <4>3, <6>1, <6>2, Zenon
        <5>2. buffers'[s][k] = buffers[s][k] /\ accepted'[s][Handed(s) + k] = accepted[s][Handed(s) + k]
          BY <3>2, <3>4, <5>1
        <5> QED BY <3>2, <4>1, <5>1, <5>2 DEF Tails
      <4> QED BY <4>2, <4>3
    <3>7. Len(buffers'[s]) <= Len(accepted'[s])
      BY <3>2, <3>5 DEF Tails
    <3>8. item' # NoItem => item'.stream = s /\ item'.rows = Buffered(s)'
      BY <1>0, <3>1, BatchIsBuffered, BatchTyped DEF Types
    <3>9. ASSUME NEW r \in Streams
          PROVE /\ Len(buffers'[r]) <= Len(accepted'[r])
                /\ \A k \in 1..Len(buffers'[r]) : buffers'[r][k] = accepted'[r][Handed(r)' + k]
      <4>1. CASE r = s
        BY <3>6, <3>7, <4>1
      <4>2. CASE r # s
        <5>1. Handed(r)' = Handed(r)
          BY <3>3, <4>2 DEF Handed
        <5> QED BY <3>3, <4>2, <5>1 DEF Tails
      <4> QED BY <4>1, <4>2
    <3> QED BY <3>8, <3>9 DEF Tails
  <2> QED BY <2>1, <2>2, <2>3
<1>10. CASE Enqueue
  <2>1. CASE Raise
    BY <2>1, RaiseTails
  <2>2. CASE ~Raise
    <3>1. /\ buffers' = [buffers EXCEPT ![item.stream] = <<>>] /\ item' = NoItem
          /\ accepted' = accepted /\ item # NoItem
      BY <1>10, <2>2 DEF Enqueue
    <3>2. item.stream \in Streams
      BY <3>1 DEF Types, WorkTypes
    <3>3. \A r \in Streams : buffers'[r] = IF r = item.stream THEN <<>> ELSE buffers[r]
      BY <3>1, <3>2 DEF Types, DataTypes
    <3>4. ASSUME NEW r \in Streams
          PROVE /\ Len(buffers'[r]) <= Len(accepted'[r])
                /\ \A k \in 1..Len(buffers'[r]) : buffers'[r][k] = accepted'[r][Handed(r)' + k]
      <4>1. CASE r = item.stream
        <5>1. Len(buffers'[r]) = 0 /\ Len(accepted'[r]) \in Nat
          BY <3>1, <3>3, <4>1 DEF Types, DataTypes
        <5> QED BY <5>1
      <4>2. CASE r # item.stream
        <5>1. Handed(r)' = Handed(r) /\ buffers'[r] = buffers[r]
          BY <3>1, <3>3, <4>2 DEF Handed
        <5> QED BY <3>1, <5>1 DEF Tails
      <4> QED BY <4>1, <4>2
    <3> QED BY <3>1, <3>4 DEF Tails
  <2> QED BY <2>1, <2>2
<1>11. CASE Flush
  <2>1. CASE Raise
    BY <2>1, RaiseTails
  <2>2. CASE ~Raise
    <3>1. /\ UNCHANGED <<accepted, buffers>>
          /\ item' = item \/ \E s \in Streams : item' = Batch(s)
      BY <1>11, <2>2 DEF Flush
    <3>2. CASE item' = item
      BY <3>1, <3>2, TailsKept
    <3>3. CASE \E s \in Streams : item' = Batch(s)
      <4>1. PICK s \in Streams : item' = Batch(s)
        BY <3>3
      <4>2. item'.stream = s /\ item'.rows = Buffered(s)'
        BY <1>0, <4>1, BatchIsBuffered, BatchTyped DEF Types
      <4>3. \A r \in Streams : Handed(r)' = Handed(r)
        BY <3>1 DEF Handed
      <4> QED BY <3>1, <4>2, <4>3 DEF Tails
    <3> QED BY <3>1, <3>2, <3>3
  <2> QED BY <2>1, <2>2
<1>12. CASE PutStop
  <2>1. Raise \/ UNCHANGED <<accepted, buffers, item>>
    BY <1>12, Zenon DEF PutStop
  <2> QED BY <2>1, TailsKept, RaiseTails
<1>13. CASE Join
  <2>1. Raise \/ UNCHANGED <<accepted, buffers, item>>
    BY <1>13, Zenon DEF Join
  <2> QED BY <2>1, TailsKept, RaiseTails
<1>14. CASE WriteCandidate
  <2>1. Raise \/ UNCHANGED <<accepted, buffers, item>>
    BY <1>14, Zenon DEF WriteCandidate
  <2> QED BY <2>1, TailsKept, RaiseTails
<1>15. CASE ValidateCandidate
  <2>1. Raise \/ UNCHANGED <<accepted, buffers, item>>
    BY <1>15, Zenon DEF ValidateCandidate
  <2> QED BY <2>1, TailsKept, RaiseTails
<1>16. CASE Publish
  <2>1. Raise \/ UNCHANGED <<accepted, buffers, item>>
    BY <1>16, Zenon DEF Publish
  <2> QED BY <2>1, TailsKept, RaiseTails
<1>17. CASE Verify
  <2>1. Raise \/ UNCHANGED <<accepted, buffers, item>>
    BY <1>17, Zenon DEF Verify
  <2> QED BY <2>1, TailsKept, RaiseTails
<1>18. CASE AbortStop
  BY <1>18, TailsKept DEF AbortStop
<1>19. CASE AbortJoin
  BY <1>19, TailsKept DEF AbortJoin
<1>20. CASE Mark
  BY <1>20, TailsKept DEF Mark
<1>21. CASE WriteBatch
  BY <1>21, TailsKept DEF WriteBatch
<1>22. CASE CloseFiles
  BY <1>22, TailsKept DEF CloseFiles
<1>23. CASE UNCHANGED vars
  BY <1>23, TailsKept DEF vars
<1> QED
  BY <1>1, <1>2, <1>3, <1>4, <1>5, <1>6, <1>7, <1>8, <1>9, <1>10, <1>11, <1>12, <1>13, <1>14, <1>15,
     <1>16, <1>17, <1>18, <1>19, <1>20, <1>21, <1>22, <1>23
     DEF Next, Producer, Writer, Idle

-----------------------------------------------------------------------------
(* The rows of a stream in a queue *)

RowsFor(b, s)  == IF b.stream = s THEN b.rows ELSE <<>>
PartsOf(q, s)  == [n \in DOMAIN q |-> RowsFor(q[n], s)]
RowsOf(q, s)   == FlattenSeq(PartsOf(q, s))

(* Queued, before and after a step. *)
LEMMA QueuedIs ==
  \A s : Queued(s) = RowsOf(queue, s) /\ Queued(s)' = RowsOf(queue', s)
BY DEF Queued, RowsOf, PartsOf, RowsFor

(* The rows a batch has for a stream are rows; STOP has none. *)
LEMMA RowsForType ==
  ASSUME NEW b \in Batches, NEW s
  PROVE  RowsFor(b, s) \in Seq(Row) /\ RowsFor(STOP, s) = <<>>
<1>1. <<>> \in Seq(Row) /\ STOP.rows = <<>>
  BY DEF STOP
<1> QED BY <1>1 DEF RowsFor, Batches, STOP

(* The rows of a stream, batch by batch, are a sequence of sequences of    *)
(* rows.                                                                   *)
LEMMA PartsOfType ==
  ASSUME NEW q \in Seq(Batches), NEW s
  PROVE  Parts(Row, PartsOf(q, s)) /\ Len(PartsOf(q, s)) = Len(q)
<1> DEFINE p == PartsOf(q, s)
<1>1. DOMAIN q = 1..Len(q) /\ Len(q) \in Nat /\ \A n \in 1..Len(q) : q[n] \in Batches
  BY Elements
<1>2. p \in [1..Len(q) -> Seq(Row)]
  BY <1>1, RowsForType DEF PartsOf
<1> HIDE DEF p
<1>3. \A S : p \in [1..Len(q) -> S] => p \in Seq(S) /\ Len(p) = Len(q)
  BY <1>1
<1> QED BY <1>2, <1>3 DEF Parts, p

(* The rows of a stream in a queue are a sequence of rows. *)
LEMMA RowsOfType ==
  ASSUME NEW q \in Seq(Batches), NEW s
  PROVE  RowsOf(q, s) \in Seq(Row)
BY PartsOfType, FlattenType DEF RowsOf

(* An empty queue holds no rows. *)
LEMMA RowsOfEmpty == \A s : RowsOf(<<>>, s) = <<>>
<1>1. \A s : PartsOf(<<>>, s) = <<>>
  BY DEF PartsOf
<1> QED BY <1>1, FlattenEmpty DEF RowsOf

(* A batch put into the queue adds its rows at the end. *)
LEMMA RowsOfAppend ==
  ASSUME NEW q \in Seq(Batches), NEW b \in Batches, NEW s
  PROVE  RowsOf(Append(q, b), s) = RowsOf(q, s) \o RowsFor(b, s)
<1> DEFINE r == Append(q, b)
           p == PartsOf(q, s)
           x == RowsFor(b, s)
<1>1. /\ Len(q) \in Nat /\ DOMAIN q = 1..Len(q) /\ DOMAIN r = 1..(Len(q) + 1)
      /\ r[Len(q) + 1] = b /\ \A n \in 1..Len(q) : r[n] = q[n]
  OBVIOUS
<1>2. Parts(Row, p) /\ Len(p) = Len(q) /\ x \in Seq(Row)
  BY PartsOfType, RowsForType
<1>3. p = [n \in 1..Len(q) |-> RowsFor(q[n], s)]
  BY <1>1 DEF PartsOf
<1>4. PartsOf(r, s) = [n \in 1..(Len(q) + 1) |-> IF n = Len(q) + 1 THEN x ELSE p[n]]
  <2> HIDE DEF r, p
  <2>1. ASSUME NEW n \in 1..(Len(q) + 1) PROVE RowsFor(r[n], s) = IF n = Len(q) + 1 THEN x ELSE p[n]
    <3>1. n = Len(q) + 1 \/ n \in 1..Len(q)
      BY <1>1
    <3> QED BY <1>1, <1>3, <3>1
  <2> QED BY <1>1, <2>1, Zenon DEF PartsOf
<1>5. Append(p, x) = [n \in 1..(Len(q) + 1) |-> IF n = Len(q) + 1 THEN x ELSE p[n]]
  <2> HIDE DEF p, x
  <2>1. p \in Seq(Seq(Row)) /\ x \in Seq(Row)
    BY <1>2 DEF Parts
  <2>2. Append(p, x) = [n \in 1..(Len(p) + 1) |-> IF n = Len(p) + 1 THEN x ELSE p[n]]
    BY <2>1, AppendAsFunction
  <2> QED BY <1>2, <2>2, Zenon
<1>6. PartsOf(r, s) = Append(p, x)
  BY <1>4, <1>5, Zenon
<1> HIDE DEF p, x
<1> QED BY <1>2, <1>6, FlattenAppend DEF RowsOf, p, x

(* A batch taken from the queue takes its rows from the front. *)
LEMMA RowsOfTail ==
  ASSUME NEW q \in Seq(Batches), q # <<>>, NEW s
  PROVE  RowsOf(q, s) = RowsFor(Head(q), s) \o RowsOf(Tail(q), s)
<1> DEFINE r == Tail(q)
           p == PartsOf(q, s)
<1>1. /\ Len(q) \in Nat /\ Len(q) >= 1 /\ DOMAIN q = 1..Len(q) /\ DOMAIN r = 1..(Len(q) - 1)
      /\ Head(q) = q[1] /\ \A n \in 1..(Len(q) - 1) : r[n] = q[n + 1]
  OBVIOUS
<1>2. Parts(Row, p) /\ Len(p) = Len(q)
  BY PartsOfType
<1>3. p = [n \in 1..Len(q) |-> RowsFor(q[n], s)]
  BY <1>1 DEF PartsOf
<1>4. Tail(p) = [n \in 1..(Len(q) - 1) |-> p[n + 1]] /\ Head(p) = p[1] /\ p # <<>>
  <2> HIDE DEF p
  <2>1. p \in Seq(Seq(Row))
    BY <1>2 DEF Parts
  <2>2. p # <<>>
    BY <1>1, <1>2
  <2>3. Tail(p) = [n \in 1..(Len(p) - 1) |-> p[n + 1]] /\ Head(p) = p[1]
    BY <2>1, <2>2, TailAsFunction
  <2> QED BY <1>2, <2>2, <2>3, Zenon
<1>5. PartsOf(r, s) = [n \in 1..(Len(q) - 1) |-> p[n + 1]]
  <2> HIDE DEF r, p
  <2>1. ASSUME NEW n \in 1..(Len(q) - 1) PROVE RowsFor(r[n], s) = p[n + 1]
    <3>1. n + 1 \in 1..Len(q)
      BY <1>1
    <3> QED BY <1>1, <1>3, <3>1
  <2> QED BY <1>1, <2>1, Zenon DEF PartsOf
<1>6. p[1] = RowsFor(Head(q), s)
  BY <1>1, <1>3
<1>7. Tail(p) = PartsOf(r, s)
  BY <1>4, <1>5, Zenon
<1> HIDE DEF p
<1>8. FlattenSeq(p) = Head(p) \o FlattenSeq(Tail(p))
  BY <1>2, <1>4, FlattenTail
<1> QED BY <1>4, <1>6, <1>7, <1>8, Zenon DEF RowsOf, p

-----------------------------------------------------------------------------
(* What a step cannot take back *)

(* A failure of the writer, an abort that raised, the end of the run and   *)
(* its manifest are final; an abort ends in one of them.                   *)
Advances ==
  /\ failed => failed'
  /\ stuck => stuck'
  /\ closed => closed'
  /\ sealed => sealed'
  /\ manifest => manifest'
  /\ Aborting => Aborting' \/ closed' \/ stuck'
  /\ manifest' => manifest \/ pc = "publish"

(* Raising takes nothing back, and aborts when the call is close. *)
LEMMA RaiseAdvances ==
  ASSUME Raise \/ EnterAbort, ~Aborting
  PROVE  Advances
<1>1. UNCHANGED <<failed, stuck, closed, sealed, manifest>>
  BY Zenon DEF Raise, EnterAbort, sinkVars, writerVars, diskVars
<1> QED BY <1>1 DEF Advances

(* No step takes back what is final. *)
LEMMA NextAdvances == Control /\ [Next]_vars => Advances
<1> SUFFICES ASSUME Control, [Next]_vars PROVE Advances
  OBVIOUS
<1> USE DEF sinkVars, writerVars, diskVars, callVars
<1>1. ASSUME NEW s \in Streams, AppendFact(s) PROVE Advances
  BY <1>1 DEF AppendFact, Begin, Advances, Aborting
<1>2. CASE AppendInvalid
  BY <1>2, RaiseAdvances DEF AppendInvalid, Aborting
<1>3. CASE BeginTransaction
  BY <1>3 DEF BeginTransaction, Advances, Aborting
<1>4. CASE Commit
  BY <1>4 DEF Commit, Begin, Advances, Aborting
<1>5. CASE Rollback
  BY <1>5 DEF Rollback, Advances, Aborting
<1>6. CASE Seal
  BY <1>6 DEF Seal, Begin, Advances, Aborting
<1>7. CASE Close
  <2>1. ~Aborting
    BY <1>7 DEF Close, Aborting
  <2>2. EnterAbort \/ UNCHANGED <<failed, stuck, closed, sealed, manifest>>
    BY <1>7, Zenon DEF Close
  <2> QED BY <2>1, <2>2, RaiseAdvances DEF Advances
<1>8. CASE Abort
  BY <1>8, RaiseAdvances DEF Abort, Aborting
<1>9. CASE AppendCommitted
  <2>1. ~Aborting
    BY <1>9 DEF AppendCommitted, Control, Aborting
  <2>2. Raise \/ UNCHANGED <<failed, stuck, closed, sealed, manifest>>
    BY <1>9, Zenon DEF AppendCommitted
  <2>3. CASE Raise
    BY <2>1, <2>3, RaiseAdvances
  <2>4. CASE ~Raise
    BY <2>1, <2>2, <2>4 DEF Advances
  <2> QED BY <2>3, <2>4
<1>10. CASE Enqueue
  <2>1. ~Aborting
    BY <1>10 DEF Enqueue, Control, Aborting
  <2>2. Raise \/ UNCHANGED <<failed, stuck, closed, sealed, manifest>>
    BY <1>10, Zenon DEF Enqueue
  <2>3. CASE Raise
    BY <2>1, <2>3, RaiseAdvances
  <2>4. CASE ~Raise
    BY <2>1, <2>2, <2>4 DEF Advances
  <2> QED BY <2>3, <2>4
<1>11. CASE Flush
  <2>1. ~Aborting
    BY <1>11 DEF Flush, Control, Aborting
  <2>2. Raise \/ UNCHANGED <<failed, stuck, closed, sealed, manifest>>
    BY <1>11, Zenon DEF Flush
  <2>3. CASE Raise
    BY <2>1, <2>3, RaiseAdvances
  <2>4. CASE ~Raise
    BY <2>1, <2>2, <2>4 DEF Advances
  <2> QED BY <2>3, <2>4
<1>12. CASE PutStop
  <2>1. ~Aborting
    BY <1>12 DEF PutStop, Control, Aborting
  <2>2. Raise \/ UNCHANGED <<failed, stuck, closed, sealed, manifest>>
    BY <1>12, Zenon DEF PutStop
  <2>3. CASE Raise
    BY <2>1, <2>3, RaiseAdvances
  <2>4. CASE ~Raise
    BY <2>1, <2>2, <2>4 DEF Advances
  <2> QED BY <2>3, <2>4
<1>13. CASE Join
  <2>1. ~Aborting
    BY <1>13 DEF Join, Control, Aborting
  <2>2. Raise \/ (UNCHANGED <<failed, stuck, closed, manifest>> /\ sealed' = TRUE)
    BY <1>13, Zenon DEF Join
  <2>3. CASE Raise
    BY <2>1, <2>3, RaiseAdvances
  <2>4. CASE ~Raise
    BY <2>1, <2>2, <2>4 DEF Advances
  <2> QED BY <2>3, <2>4
<1>14. CASE WriteCandidate
  <2>1. ~Aborting
    BY <1>14 DEF WriteCandidate, Control, Aborting
  <2>2. Raise \/ UNCHANGED <<failed, stuck, closed, sealed, manifest>>
    BY <1>14, Zenon DEF WriteCandidate
  <2>3. CASE Raise
    BY <2>1, <2>3, RaiseAdvances
  <2>4. CASE ~Raise
    BY <2>1, <2>2, <2>4 DEF Advances
  <2> QED BY <2>3, <2>4
<1>15. CASE ValidateCandidate
  <2>1. ~Aborting
    BY <1>15 DEF ValidateCandidate, Control, Aborting
  <2>2. Raise \/ UNCHANGED <<failed, stuck, closed, sealed, manifest>>
    BY <1>15, Zenon DEF ValidateCandidate
  <2>3. CASE Raise
    BY <2>1, <2>3, RaiseAdvances
  <2>4. CASE ~Raise
    BY <2>1, <2>2, <2>4 DEF Advances
  <2> QED BY <2>3, <2>4
<1>16. CASE Publish
  <2>1. ~Aborting
    BY <1>16 DEF Publish, Control, Aborting
  <2>2. Raise \/ (UNCHANGED <<failed, stuck, closed, sealed>> /\ manifest' = TRUE /\ pc = "publish")
    BY <1>16, Zenon DEF Publish
  <2>3. CASE Raise
    BY <2>1, <2>3, RaiseAdvances
  <2>4. CASE ~Raise
    BY <2>1, <2>2, <2>4 DEF Advances
  <2> QED BY <2>3, <2>4
<1>17. CASE Verify
  <2>1. ~Aborting
    BY <1>17 DEF Verify, Control, Aborting
  <2>2. Raise \/ (UNCHANGED <<failed, stuck, sealed, manifest>> /\ closed' = TRUE)
    BY <1>17, Zenon DEF Verify
  <2>3. CASE Raise
    BY <2>1, <2>3, RaiseAdvances
  <2>4. CASE ~Raise
    BY <2>1, <2>2, <2>4 DEF Advances
  <2> QED BY <2>3, <2>4
<1>18. CASE AbortStop
  BY <1>18 DEF AbortStop, Advances, Aborting
<1>19. CASE AbortJoin
  BY <1>19 DEF AbortJoin, Return, Advances, Aborting
<1>20. CASE Mark
  BY <1>20 DEF Mark, Return, Advances, Aborting
<1>21. CASE WriteBatch
  <2>1. UNCHANGED <<stuck, closed, sealed, manifest, pc>>
    BY <1>21, Zenon DEF WriteBatch
  <2>2. failed' = failed \/ failed' = TRUE
    BY <1>21, Zenon DEF WriteBatch
  <2> QED BY <2>1, <2>2 DEF Advances, Aborting
<1>22. CASE CloseFiles
  <2>1. UNCHANGED <<stuck, closed, sealed, manifest, pc>>
    BY <1>22, Zenon DEF CloseFiles
  <2>2. failed' = failed \/ failed' = TRUE
    BY <1>22, Zenon DEF CloseFiles
  <2> QED BY <2>1, <2>2 DEF Advances, Aborting
<1>23. CASE UNCHANGED vars
  BY <1>23 DEF vars, Advances, Aborting
<1> QED
  BY <1>1, <1>2, <1>3, <1>4, <1>5, <1>6, <1>7, <1>8, <1>9, <1>10, <1>11, <1>12, <1>13, <1>14, <1>15,
     <1>16, <1>17, <1>18, <1>19, <1>20, <1>21, <1>22, <1>23
     DEF Next, Producer, Writer, Idle

(* A run that is good after a step was good before it. *)
LEMMA GoodBefore ==
  ASSUME Control, Outcome, Advances, Good'
  PROVE  Good
<1>1. CASE manifest'
  BY <1>1 DEF Advances, Good, Control, Outcome, Aborting
<1>2. CASE ~manifest'
  BY <1>2 DEF Advances, Good
<1> QED BY <1>1, <1>2

(* What a good run is: no failure, and an abort only after the manifest.   *)
LEMMA GoodMeans ==
  ASSUME Control, Outcome, Good
  PROVE  /\ ~failed /\ ~stuck
         /\ Aborting \/ closed => manifest
         /\ manifest => sealed
         /\ sealed => writer = "ended"
BY DEF Control, Outcome, Good

-----------------------------------------------------------------------------
(* Nothing lost between the threads *)

(* The facts handed over are a prefix of those accepted; joined with the   *)
(* buffer, numbered, they are all of them.                                 *)
LEMMA NumberedType ==
  ASSUME Types, Tails, NEW s \in Streams, NEW n \in 0..Len(accepted[s])
  PROVE  Numbered(s, n) \in Seq(Row) /\ Len(Numbered(s, n)) = n
<1>1. accepted[s] \in Seq(1..MaxFacts) /\ n \in Nat
  BY DEF Types, DataTypes
<1>2. \A k \in 1..n : accepted[s][k] \in 1..MaxFacts /\ k - 1 \in Nat
  <2>1. \A k \in 1..n : k \in 1..Len(accepted[s]) /\ k - 1 \in Nat
    BY <1>1
  <2>2. \A k \in 1..Len(accepted[s]) : accepted[s][k] \in 1..MaxFacts
    BY <1>1, Elements
  <2> QED BY <2>1, <2>2, Zenon
<1>3. \A k \in 1..n : [sequence |-> k - 1, fact |-> accepted[s][k]] \in Row
  BY <1>2 DEF Row
<1> DEFINE f == Numbered(s, n)
<1>4. f \in [1..n -> Row]
  BY <1>3 DEF Numbered
<1> HIDE DEF f
<1>5. f \in Seq(Row) /\ Len(f) = n
  BY <1>1, <1>4
<1> QED BY <1>5 DEF f

(* The numbered buffer of a stream is a sequence of rows. *)
LEMMA BufferedType ==
  ASSUME Types, Tails, NEW s \in Streams
  PROVE  /\ Buffered(s) \in Seq(Row) /\ Len(Buffered(s)) = Len(buffers[s])
         /\ Handed(s) \in 0..Len(accepted[s])
         /\ Len(buffers[s]) \in Nat /\ Len(accepted[s]) \in Nat
<1>1. /\ accepted[s] \in Seq(1..MaxFacts) /\ buffers[s] \in Seq(1..MaxFacts)
      /\ Len(buffers[s]) <= Len(accepted[s])
  BY DEF Types, DataTypes
<1>2. Len(buffers[s]) \in Nat /\ Len(accepted[s]) \in Nat
  BY <1>1
<1>3. Handed(s) \in 0..Len(accepted[s])
  <2>1. \A a, b \in Nat : b <= a => a - b \in 0..a
    OBVIOUS
  <2> QED BY <1>1, <1>2, <2>1, Zenon DEF Handed
<1>4. \A k \in 1..Len(buffers[s]) : buffers[s][k] \in 1..MaxFacts /\ Handed(s) + k - 1 \in Nat
  <2>1. \A a, b \in Nat : \A h \in 0..a : \A k \in 1..b : h + k - 1 \in Nat
    OBVIOUS
  <2>2. \A k \in 1..Len(buffers[s]) : buffers[s][k] \in 1..MaxFacts
    BY <1>1, Elements
  <2> QED BY <1>2, <1>3, <2>1, <2>2, Zenon
<1>5. \A k \in 1..Len(buffers[s]) : [sequence |-> Handed(s) + k - 1, fact |-> buffers[s][k]] \in Row
  BY <1>4 DEF Row
<1> DEFINE f == Buffered(s)
<1>6. f \in [1..Len(buffers[s]) -> Row]
  BY <1>5 DEF Buffered
<1> HIDE DEF f
<1>7. f \in Seq(Row) /\ Len(f) = Len(buffers[s])
  BY <1>2, <1>6
<1> QED BY <1>2, <1>3, <1>7 DEF f

(* The facts handed over and those in the buffer are all the facts         *)
(* accepted.                                                               *)
LEMMA NumberedJoined ==
  ASSUME Types, Tails, NEW s \in Streams
  PROVE  Numbered(s, Handed(s)) \o Buffered(s) = Numbered(s, Len(accepted[s]))
<1> DEFINE h == Handed(s)
           b == Len(buffers[s])
           a == Len(accepted[s])
           x == Numbered(s, h)
           y == Buffered(s)
           z == Numbered(s, a)
<1>1. h \in Nat /\ b \in Nat /\ a \in Nat /\ h + b = a /\ h \in 0..a /\ a \in 0..a
  <2>1. b \in Nat /\ a \in Nat /\ h \in 0..a
    BY BufferedType
  <2>2. h = a - b
    BY DEF Handed
  <2> HIDE DEF h, a, b
  <2> QED BY <2>1, <2>2
<1>2. x \in Seq(Row) /\ Len(x) = h /\ z \in Seq(Row) /\ Len(z) = a
  BY <1>1, NumberedType
<1>3. y \in Seq(Row) /\ Len(y) = b
  BY BufferedType
<1>4. \A k \in 1..h : x[k] = z[k]
  <2> HIDE DEF h, a
  <2>1. \A k \in 1..h : k \in 1..a
    BY <1>1
  <2> QED BY <2>1 DEF Numbered
<1>5. \A k \in 1..b : y[k] = z[h + k]
  <2> SUFFICES ASSUME NEW k \in 1..b PROVE y[k] = z[h + k]
    OBVIOUS
  <2>1. buffers[s][k] = accepted[s][h + k]
    BY DEF Tails
  <2>2. y[k] = [sequence |-> h + k - 1, fact |-> buffers[s][k]]
    BY DEF Buffered
  <2>3. h + k \in 1..a
    <3> HIDE DEF h, a, b
    <3> QED BY <1>1
  <2>4. z[h + k] = [sequence |-> (h + k) - 1, fact |-> accepted[s][h + k]]
    <3> HIDE DEF h, a
    <3> QED BY <2>3 DEF Numbered
  <2>5. (h + k) - 1 = h + k - 1
    <3> HIDE DEF h, b
    <3> QED BY <1>1
  <2> HIDE DEF h, a, b, y, z
  <2> QED BY <2>1, <2>2, <2>4, <2>5
<1> HIDE DEF h, a, b, x, y, z
<1>6. x \o y \in Seq(Row) /\ Len(x \o y) = a
  BY <1>1, <1>2, <1>3
<1>7. \A k \in 1..a : (x \o y)[k] = z[k]
  <2> SUFFICES ASSUME NEW k \in 1..a PROVE (x \o y)[k] = z[k]
    OBVIOUS
  <2>1. CASE k <= h
    <3>1. k \in 1..h
      BY <1>1, <2>1
    <3>2. (x \o y)[k] = x[k]
      BY <1>2, <1>3, <3>1
    <3> QED BY <1>4, <3>1, <3>2
  <2>2. CASE ~ (k <= h)
    <3>1. k - h \in 1..b /\ h + (k - h) = k
      BY <1>1, <2>2
    <3>2. (x \o y)[k] = y[k - h]
      BY <1>1, <1>2, <1>3, <2>2
    <3> QED BY <1>5, <3>1, <3>2
  <2> QED BY <2>1, <2>2
<1>8. x \o y = z
  <2> DEFINE w == x \o y
  <2>1. w \in Seq(Row) /\ Len(w) = a /\ \A k \in 1..a : w[k] = z[k]
    BY <1>6, <1>7
  <2> HIDE DEF w
  <2>2. w = z
    BY <1>1, <1>2, <2>1
  <2> QED BY <2>2 DEF w
<1> QED BY <1>8 DEF x, y, z, h, a

(* A step that leaves the facts alone, and does not move the producer      *)
(* behind STOP.                                                            *)
LEMMA WholeKept ==
  ASSUME Follows, Orderly,
         UNCHANGED <<accepted, buffers, queue, files, writer, sealed>>,
         pc = "join" <=> pc' = "join",
         pc' = "stop" => pc = "stop" \/ buffers = Nothing
  PROVE  Follows' /\ Orderly'
<1>1. Follows'
  BY QueuedIs DEF Follows, Numbered, Handed
<1>2. Orderly'
  BY DEF Orderly, Nothing
<1> QED BY <1>1, <1>2

(* No call that raises while the sink is not sealed leaves a good run.     *)
LEMMA RaiseUnsealed ==
  ASSUME Outcome, ~sealed, EnterAbort \/ (failed /\ Raise)
  PROVE  ~Good'
<1>1. manifest' = manifest /\ failed' = failed
  BY Zenon DEF EnterAbort, Raise, writerVars, diskVars
<1>2. ~manifest
  BY DEF Outcome
<1>3. CASE EnterAbort
  <2>1. Aborting'
    BY <1>3 DEF EnterAbort, Aborting
  <2> QED BY <1>1, <1>2, <2>1 DEF Good
<1>4. CASE failed /\ Raise
  BY <1>1, <1>2, <1>4 DEF Good
<1> QED BY <1>3, <1>4

(* close raises after it sealed, with its buffers empty.                   *)
LEMMA RaiseSealed ==
  ASSUME Follows, Orderly, sealed, call = "close", Raise, pc # "join"
  PROVE  Follows' /\ Orderly'
<1>1. /\ UNCHANGED <<accepted, queue, files, writer, sealed>>
      /\ buffers' = Nothing /\ pc' = "abort"
  BY Zenon DEF Raise, EnterAbort, writerVars
<1>2. buffers' = buffers
  BY <1>1 DEF Orderly
<1> QED BY <1>1, <1>2, WholeKept

(* A fact that is accepted ends in the buffer.                             *)
LEMMA WholeAccept ==
  ASSUME Types, Tails, Types', Follows, Orderly, pc = "append", pc' = "append", ~sealed, ~sealed',
         NEW t \in Streams, NEW f \in 1..MaxFacts,
         accepted' = [accepted EXCEPT ![t] = Append(@, f)],
         buffers'  = [buffers EXCEPT ![t] = Append(@, f)],
         UNCHANGED <<queue, files, writer>>
  PROVE  Follows' /\ Orderly'
<1>1. Orderly'
  BY DEF Orderly
<1>2. ASSUME NEW s \in Streams PROVE Handed(s)' = Handed(s) /\ Numbered(s, Handed(s))' = Numbered(s, Handed(s))
  <2>1. CASE s # t
    <3>1. accepted'[s] = accepted[s] /\ buffers'[s] = buffers[s]
      BY <2>1 DEF Types, DataTypes
    <3> QED BY <3>1 DEF Handed, Numbered
  <2>2. CASE s = t
    <3>1. /\ accepted[s] \in Seq(1..MaxFacts) /\ buffers[s] \in Seq(1..MaxFacts)
          /\ accepted'[s] = Append(accepted[s], f) /\ buffers'[s] = Append(buffers[s], f)
      BY <2>2 DEF Types, DataTypes
    <3>2. /\ Len(accepted'[s]) = Len(accepted[s]) + 1 /\ Len(buffers'[s]) = Len(buffers[s]) + 1
          /\ \A n \in 1..Len(accepted[s]) : accepted'[s][n] = accepted[s][n]
      BY <3>1, AppendProperties
    <3>3. /\ Handed(s) \in 0..Len(accepted[s])
          /\ Len(buffers[s]) \in Nat /\ Len(accepted[s]) \in Nat
      BY BufferedType
    <3>4. Handed(s)' = Handed(s)
      <4>1. \A a, b \in Nat : (a + 1) - (b + 1) = a - b
        OBVIOUS
      <4> QED BY <3>2, <3>3, <4>1, Zenon DEF Handed
    <3>5. \A n \in 1..Handed(s) : n \in 1..Len(accepted[s])
      BY <3>3
    <3>6. \A n \in 1..Handed(s) : accepted'[s][n] = accepted[s][n]
      BY <3>2, <3>5
    <3> QED BY <3>4, <3>6, Zenon DEF Numbered
  <2> QED BY <2>1, <2>2
<1>3. Follows'
  BY <1>2, QueuedIs DEF Follows
<1> QED BY <1>1, <1>3

(* A batch that enters the queue carries what was in the buffer.           *)
LEMMA WholeEnqueue ==
  ASSUME Types, Tails, Follows, Orderly, pc \in {"append", "flush"}, pc' = pc, ~sealed, ~sealed',
         item # NoItem,
         buffers' = [buffers EXCEPT ![item.stream] = <<>>],
         queue' = Append(queue, item),
         UNCHANGED <<accepted, files, writer>>
  PROVE  Follows' /\ Orderly'
<1>1. item.stream \in Streams /\ item \in Batches /\ item.rows \in Seq(Row) /\ queue \in Seq(Batches)
  BY DEF Types, DataTypes, WorkTypes, Batches
<1>2. writer = "running"
  BY DEF Orderly, Types, PlaceTypes
<1>3. Orderly'
  <2>1. \A n \in DOMAIN queue : queue[n].stream \in Streams
    BY DEF Orderly
  <2>2. \A n \in DOMAIN queue' : n = Len(queue) + 1 \/ n \in DOMAIN queue
    BY <1>1
  <2>3. \A n \in DOMAIN queue : queue'[n] = queue[n]
    BY <1>1
  <2>4. queue'[Len(queue) + 1] = item
    BY <1>1
  <2>5. \A n \in DOMAIN queue' : queue'[n].stream \in Streams
    BY <1>1, <2>1, <2>2, <2>3, <2>4
  <2> QED BY <1>2, <2>5 DEF Orderly
<1>4. ASSUME NEW s \in Streams PROVE files'[s] \o RowsOf(queue', s) = Numbered(s, Handed(s))'
  <2>1. RowsOf(queue', s) = RowsOf(queue, s) \o RowsFor(item, s)
    BY <1>1, RowsOfAppend
  <2>2. files[s] \o RowsOf(queue, s) = Numbered(s, Handed(s))
    BY QueuedIs DEF Follows
  <2>3. files[s] \in Seq(Row) /\ RowsOf(queue, s) \in Seq(Row) /\ RowsFor(item, s) \in Seq(Row)
    BY <1>1, RowsOfType, RowsForType DEF Types, DataTypes
  <2>4. files[s] \o RowsOf(queue', s) = Numbered(s, Handed(s)) \o RowsFor(item, s)
    <3> DEFINE x == files[s]
               y == RowsOf(queue, s)
               z == RowsFor(item, s)
               xy == Numbered(s, Handed(s))
               yz == RowsOf(queue', s)
    <3>1. x \in Seq(Row) /\ y \in Seq(Row) /\ z \in Seq(Row) /\ xy = x \o y /\ yz = y \o z
      BY <2>1, <2>2, <2>3, Zenon
    <3> HIDE DEF x, y, z, xy, yz
    <3>2. xy \o z = x \o yz
      BY <3>1, Associates
    <3> QED BY <3>2, Zenon DEF x, y, z, xy, yz
  <2>5. CASE s = item.stream
    <3>1. RowsFor(item, s) = Buffered(s)
      BY <2>5 DEF RowsFor, Tails
    <3>2. buffers'[s] = <<>>
      BY <1>1, <2>5 DEF Types, DataTypes
    <3>3. Handed(s)' = Len(accepted[s])
      <4>1. Len(buffers'[s]) = 0 /\ Len(accepted[s]) \in Nat
        BY <3>2, BufferedType
      <4>2. \A a \in Nat : a - 0 = a
        OBVIOUS
      <4>3. Handed(s)' = Len(accepted[s]) - Len(buffers'[s])
        BY Zenon DEF Handed
      <4> QED BY <4>1, <4>2, <4>3, Zenon
    <3>4. Numbered(s, Handed(s))' = Numbered(s, Len(accepted[s]))
      BY <3>3, Zenon DEF Numbered
    <3>5. Numbered(s, Handed(s)) \o Buffered(s) = Numbered(s, Len(accepted[s]))
      BY NumberedJoined
    <3> QED BY <2>4, <3>1, <3>4, <3>5, Zenon
  <2>6. CASE s # item.stream
    <3>1. RowsFor(item, s) = <<>>
      BY <2>6 DEF RowsFor
    <3>2. buffers'[s] = buffers[s]
      BY <1>1, <2>6 DEF Types, DataTypes
    <3>3. Numbered(s, Handed(s))' = Numbered(s, Handed(s))
      BY <3>2, Zenon DEF Numbered, Handed
    <3>4. Numbered(s, Handed(s)) \in Seq(Row)
      BY BufferedType, NumberedType
    <3>5. Numbered(s, Handed(s)) \o <<>> = Numbered(s, Handed(s))
      BY <3>4, Joining, Zenon
    <3> QED BY <2>4, <3>1, <3>3, <3>5, Zenon
  <2> QED BY <2>5, <2>6
<1>5. Follows'
  BY <1>4, QueuedIs DEF Follows
<1> QED BY <1>3, <1>5

(* STOP enters the queue behind everything that was handed over.           *)
LEMMA WholePutStop ==
  ASSUME Types, Tails, Follows, Orderly, pc = "stop", pc' = "join", ~sealed, ~sealed',
         queue' = Append(queue, STOP),
         UNCHANGED <<accepted, buffers, files, writer>>
  PROVE  Follows' /\ Orderly'
<1>1. queue \in Seq(Batches) /\ STOP \in Batches
  BY StopIsBatch DEF Types, DataTypes
<1>2. writer = "running" /\ buffers = Nothing
  BY DEF Orderly, Types, PlaceTypes
<1>3. Orderly'
  <2>1. \A n \in DOMAIN queue : queue[n].stream \in Streams
    BY DEF Orderly
  <2>2. Len(queue') = Len(queue) + 1 /\ queue'[Len(queue) + 1] = STOP /\ queue' # <<>>
    BY <1>1
  <2>3. \A n \in DOMAIN queue' : n = Len(queue') \/ (n \in DOMAIN queue /\ queue'[n] = queue[n])
    BY <1>1
  <2>4. queue'[Len(queue')] = STOP
    BY <2>2
  <2>5. \A n \in DOMAIN queue' : queue'[n].stream \in Streams \/ (n = Len(queue') /\ queue'[n] = STOP /\ pc' = "join")
    BY <2>1, <2>3, <2>4
  <2> QED BY <1>2, <2>2, <2>4, <2>5 DEF Orderly, Nothing
<1>4. ASSUME NEW s \in Streams PROVE files'[s] \o RowsOf(queue', s) = Numbered(s, Handed(s))'
  <2>1. RowsOf(queue', s) = RowsOf(queue, s) \o RowsFor(STOP, s)
    BY <1>1, RowsOfAppend
  <2>2. RowsFor(STOP, s) = <<>> /\ RowsOf(queue, s) \in Seq(Row)
    BY <1>1, RowsForType, RowsOfType
  <2>3. RowsOf(queue', s) = RowsOf(queue, s)
    BY <2>1, <2>2, Joining
  <2>4. files[s] \o RowsOf(queue, s) = Numbered(s, Handed(s))
    BY QueuedIs DEF Follows
  <2>5. Numbered(s, Handed(s))' = Numbered(s, Handed(s))
    BY DEF Numbered, Handed
  <2> QED BY <2>3, <2>4, <2>5
<1>5. Follows'
  BY <1>4, QueuedIs DEF Follows
<1> QED BY <1>3, <1>5

(* The writer moves the rows of the first batch of the queue to its file.  *)
LEMMA WholeWrite ==
  ASSUME Types, Follows, Orderly, writer = "running", queue # <<>>,
         queue' = Tail(queue),
         \/ Head(queue) = STOP /\ writer' = "closing" /\ files' = files
         \/ /\ Head(queue) # STOP /\ writer' = writer
            /\ files' = [files EXCEPT ![Head(queue).stream] = @ \o Head(queue).rows],
         UNCHANGED <<accepted, buffers, pc, sealed>>
  PROVE  Follows' /\ Orderly'
<1>1. queue \in Seq(Batches) /\ Head(queue) \in Batches /\ queue' \in Seq(Batches)
  BY DEF Types, DataTypes
<1>2. /\ Head(queue) = queue[1] /\ 1 \in DOMAIN queue /\ Len(queue) \in Nat
      /\ Len(queue') = Len(queue) - 1 /\ DOMAIN queue' = 1..(Len(queue) - 1)
      /\ DOMAIN queue = 1..Len(queue)
      /\ \A n \in 1..(Len(queue) - 1) : queue'[n] = queue[n + 1]
  BY <1>1
<1>3. ASSUME NEW n \in DOMAIN queue'
      PROVE  queue'[n].stream \in Streams \/ (n = Len(queue') /\ queue'[n] = STOP /\ pc' = "join")
  <2>1. n + 1 \in DOMAIN queue /\ queue'[n] = queue[n + 1]
    BY <1>2
  <2>2. n + 1 = Len(queue) => n = Len(queue')
    BY <1>2
  <2> QED BY <2>1, <2>2 DEF Orderly
<1>4. STOP.stream \notin Streams
  BY SinkAssumption DEF STOP
<1>5. buffers' = buffers /\ (pc \in {"stop", "join"} \/ sealed => buffers' = Nothing')
  BY DEF Orderly, Nothing
<1>6. ASSUME NEW s \in Streams
      PROVE  /\ files[s] \o RowsOf(queue, s) = Numbered(s, Handed(s))
             /\ Numbered(s, Handed(s))' = Numbered(s, Handed(s))
             /\ RowsOf(queue, s) = RowsFor(Head(queue), s) \o RowsOf(queue', s)
             /\ files[s] \in Seq(Row) /\ RowsOf(queue', s) \in Seq(Row)
             /\ RowsFor(Head(queue), s) \in Seq(Row)
             /\ RowsFor(STOP, s) = <<>>
  <2>1. files[s] \o RowsOf(queue, s) = Numbered(s, Handed(s))
    BY QueuedIs DEF Follows
  <2>2. Numbered(s, Handed(s))' = Numbered(s, Handed(s))
    BY DEF Numbered, Handed
  <2>3. RowsOf(queue, s) = RowsFor(Head(queue), s) \o RowsOf(queue', s)
    BY <1>1, RowsOfTail
  <2>4. files[s] \in Seq(Row) /\ RowsOf(queue', s) \in Seq(Row) /\ RowsFor(Head(queue), s) \in Seq(Row)
    BY <1>1, RowsOfType, RowsForType DEF Types, DataTypes
  <2>5. RowsFor(STOP, s) = <<>>
    BY <1>1, RowsForType
  <2> QED BY <2>1, <2>2, <2>3, <2>4, <2>5
<1>7. CASE Head(queue) = STOP /\ writer' = "closing" /\ files' = files
  <2>1. Len(queue) = 1 /\ pc = "join"
    BY <1>2, <1>4, <1>7 DEF Orderly
  <2>2. queue' = <<>>
    BY <1>1, <1>2, <2>1
  <2>3. Orderly'
    BY <1>3, <1>5, <1>7, <2>1, <2>2 DEF Orderly
  <2>4. ASSUME NEW s \in Streams PROVE files'[s] \o RowsOf(queue', s) = Numbered(s, Handed(s))'
    <3>1. RowsOf(queue, s) = RowsOf(queue', s)
      BY <1>6, <1>7, Joining
    <3> QED BY <1>6, <1>7, <3>1
  <2>5. Follows'
    BY <2>4, QueuedIs DEF Follows
  <2> QED BY <2>3, <2>5
<1>8. CASE /\ Head(queue) # STOP /\ writer' = writer
           /\ files' = [files EXCEPT ![Head(queue).stream] = @ \o Head(queue).rows]
  <2>1. Head(queue).stream \in Streams /\ Head(queue).rows \in Seq(Row)
    BY <1>1, <1>8 DEF Batches
  <2>2. Orderly'
    <3>1. ASSUME pc = "join" PROVE queue' # <<>> /\ queue'[Len(queue')] = STOP
      <4>1. queue[Len(queue)] = STOP /\ Len(queue) # 1
        BY <1>2, <1>8, <3>1 DEF Orderly
      <4>2. Len(queue') \in 1..(Len(queue) - 1) /\ Len(queue') + 1 = Len(queue)
        BY <1>2, <4>1
      <4> QED BY <1>2, <4>1, <4>2
    <3> QED BY <1>3, <1>5, <1>8, <3>1 DEF Orderly
  <2>3. ASSUME NEW s \in Streams PROVE files'[s] \o RowsOf(queue', s) = Numbered(s, Handed(s))'
    <3>1. files'[s] = files[s] \o RowsFor(Head(queue), s)
      <4>1. CASE s = Head(queue).stream
        BY <1>8, <4>1 DEF RowsFor, Types, DataTypes
      <4>2. CASE s # Head(queue).stream
        <5>1. files'[s] = files[s] /\ RowsFor(Head(queue), s) = <<>>
          BY <1>8, <4>2 DEF RowsFor, Types, DataTypes
        <5>2. files[s] \o <<>> = files[s]
          BY <1>6, Joining, Zenon
        <5> QED BY <5>1, <5>2, Zenon
      <4> QED BY <4>1, <4>2
    <3> DEFINE x == files[s]
               y == RowsFor(Head(queue), s)
               z == RowsOf(queue', s)
               xy == files'[s]
               yz == RowsOf(queue, s)
    <3>2. x \in Seq(Row) /\ y \in Seq(Row) /\ z \in Seq(Row) /\ xy = x \o y /\ yz = y \o z
      BY <1>6, <3>1, Zenon
    <3>3. x \o yz = Numbered(s, Handed(s))'
      BY <1>6, Zenon
    <3> HIDE DEF x, y, z, xy, yz
    <3>4. xy \o z = x \o yz
      BY <3>2, Associates
    <3> QED BY <3>3, <3>4, Zenon DEF x, y, z, xy, yz
  <2>4. Follows'
    BY <2>3, QueuedIs DEF Follows
  <2> QED BY <2>2, <2>4
<1> QED BY <1>7, <1>8

(* No step loses a fact of a run that is good after it.                    *)
LEMMA WholeStep ==
  Types /\ Control /\ Outcome /\ Tails /\ Whole /\ [Next]_vars => Whole'
<1> SUFFICES ASSUME Types, Control, Outcome, Tails, Whole, [Next]_vars, Good'
             PROVE  Follows' /\ Orderly'
  BY DEF Whole
<1>1. Types' /\ Control' /\ Outcome'
  BY TypesStep, PlacesStep
<1>2. Good
  BY NextAdvances, GoodBefore
<1>3. Follows /\ Orderly
  BY <1>2 DEF Whole
<1>4. ~failed /\ ~failed' /\ (Aborting => sealed) /\ (sealed => writer = "ended")
  BY <1>1, <1>2 DEF Good, Outcome
<1> USE DEF sinkVars, writerVars, diskVars, callVars
<1>5. ASSUME NEW s \in Streams, AppendFact(s) PROVE Follows' /\ Orderly'
  <2>1. UNCHANGED <<accepted, buffers, queue, files, writer, sealed>> /\ pc = "ready" /\ pc' \in {"ready", "append"}
    BY <1>5 DEF AppendFact, Begin
  <2> QED BY <1>3, <2>1, WholeKept
<1>6. CASE AppendInvalid
  BY <1>6, RaiseUnsealed DEF AppendInvalid
<1>7. CASE BeginTransaction
  BY <1>3, <1>7, WholeKept DEF BeginTransaction
<1>8. CASE Commit
  BY <1>3, <1>8, WholeKept DEF Commit, Begin
<1>9. CASE Rollback
  BY <1>3, <1>9, WholeKept DEF Rollback
<1>10. CASE Seal
  BY <1>3, <1>10, WholeKept DEF Seal, Begin
<1>11. CASE Close
  <2>1. CASE ~sealed /\ staged # NoTransaction
    BY <1>11, <2>1, RaiseUnsealed DEF Close
  <2>2. CASE ~ (~sealed /\ staged # NoTransaction)
    BY <1>3, <1>11, <2>2, WholeKept DEF Close, Finish
  <2> QED BY <2>1, <2>2
<1>12. CASE Abort
  <2>1. ~manifest /\ manifest' = manifest /\ pc' = "abort"
    BY <1>12 DEF Abort, EnterAbort, Outcome, Aborting
  <2> QED BY <2>1 DEF Good, Aborting
<1>13. CASE AppendCommitted
  <2>1. pc = "append" /\ ~sealed
    BY <1>13 DEF AppendCommitted, Control
  <2>2. CASE work = <<>>
    BY <1>3, <1>13, <2>2, WholeKept DEF AppendCommitted, Return
  <2>3. CASE work # <<>>
    <3>1. PICK t \in Streams, f \in 1..MaxFacts : t = Head(work).stream /\ f = Head(work).fact
      <4>1. Head(work) \in Entry
        BY <2>3 DEF Types, WorkTypes
      <4> QED BY <4>1 DEF Entry
    <3>2. /\ accepted' = [accepted EXCEPT ![t] = Append(@, f)]
          /\ buffers'  = [buffers EXCEPT ![t] = Append(@, f)]
          /\ UNCHANGED <<queue, files, writer, sealed, pc>>
      BY <1>4, <1>13, <2>3, <3>1 DEF AppendCommitted
    <3> QED BY <1>1, <1>3, <2>1, <3>2, WholeAccept
  <2> QED BY <2>2, <2>3
<1>14. CASE Enqueue
  <2>1. pc \in {"append", "flush"} /\ ~sealed
    BY <1>14 DEF Enqueue, Control
  <2>2. /\ item # NoItem /\ queue' = Append(queue, item)
        /\ buffers' = [buffers EXCEPT ![item.stream] = <<>>]
        /\ UNCHANGED <<accepted, files, writer, sealed, pc>>
    BY <1>4, <1>14 DEF Enqueue
  <2> QED BY <1>3, <2>1, <2>2, WholeEnqueue
<1>15. CASE Flush
  <2>1. UNCHANGED <<accepted, buffers, queue, files, writer, sealed>> /\ pc = "flush"
        /\ (pc' = pc \/ (pc' = "stop" /\ buffers = Nothing))
    BY <1>4, <1>15 DEF Flush
  <2> QED BY <1>3, <2>1, WholeKept
<1>16. CASE PutStop
  <2>1. pc = "stop" /\ ~sealed
    BY <1>16 DEF PutStop, Control
  <2>2. queue' = Append(queue, STOP) /\ pc' = "join" /\ UNCHANGED <<accepted, buffers, files, writer, sealed>>
    BY <1>4, <1>16 DEF PutStop
  <2> QED BY <1>3, <2>1, <2>2, WholePutStop
<1>17. CASE Join
  <2>1. pc = "join" /\ writer = "ended" /\ pc' # "join" /\ pc' # "stop" /\ sealed'
        /\ UNCHANGED <<accepted, buffers, queue, files, writer>>
    BY <1>4, <1>17 DEF Join, Return, Finish
  <2>2. queue = <<>> /\ buffers = Nothing
    BY <1>3, <2>1 DEF Orderly
  <2>3. Orderly'
    BY <2>1, <2>2 DEF Orderly, Nothing
  <2>4. Follows'
    BY <1>3, <2>1, QueuedIs DEF Follows, Numbered, Handed
  <2> QED BY <2>3, <2>4
<1>18. CASE WriteCandidate
  <2>1. sealed /\ call = "close" /\ pc # "join" /\ pc # "stop"
    BY <1>18 DEF WriteCandidate, Control
  <2>2. CASE Raise
    BY <1>3, <2>1, <2>2, RaiseSealed
  <2>3. CASE ~Raise
    <3>1. UNCHANGED <<accepted, buffers, queue, files, writer, sealed>> /\ pc' \notin {"join", "stop"}
      BY <1>18, <2>3, Zenon DEF WriteCandidate, Return, sinkVars, writerVars
    <3> QED BY <1>3, <2>1, <3>1, WholeKept
  <2> QED BY <2>2, <2>3
<1>19. CASE ValidateCandidate
  <2>1. sealed /\ call = "close" /\ pc # "join" /\ pc # "stop"
    BY <1>19 DEF ValidateCandidate, Control
  <2>2. CASE Raise
    BY <1>3, <2>1, <2>2, RaiseSealed
  <2>3. CASE ~Raise
    <3>1. UNCHANGED <<accepted, buffers, queue, files, writer, sealed>> /\ pc' \notin {"join", "stop"}
      BY <1>19, <2>3, Zenon DEF ValidateCandidate, Return, sinkVars, writerVars
    <3> QED BY <1>3, <2>1, <3>1, WholeKept
  <2> QED BY <2>2, <2>3
<1>20. CASE Publish
  <2>1. sealed /\ call = "close" /\ pc # "join" /\ pc # "stop"
    BY <1>20 DEF Publish, Control
  <2>2. CASE Raise
    BY <1>3, <2>1, <2>2, RaiseSealed
  <2>3. CASE ~Raise
    <3>1. UNCHANGED <<accepted, buffers, queue, files, writer, sealed>> /\ pc' \notin {"join", "stop"}
      BY <1>20, <2>3, Zenon DEF Publish, Return, sinkVars, writerVars
    <3> QED BY <1>3, <2>1, <3>1, WholeKept
  <2> QED BY <2>2, <2>3
<1>21. CASE Verify
  <2>1. sealed /\ call = "close" /\ pc # "join" /\ pc # "stop"
    BY <1>21 DEF Verify, Control
  <2>2. CASE Raise
    BY <1>3, <2>1, <2>2, RaiseSealed
  <2>3. CASE ~Raise
    <3>1. UNCHANGED <<accepted, buffers, queue, files, writer, sealed>> /\ pc' \notin {"join", "stop"}
      BY <1>21, <2>3, Zenon DEF Verify, Return, sinkVars, writerVars
    <3> QED BY <1>3, <2>1, <3>1, WholeKept
  <2> QED BY <2>2, <2>3
<1>22. CASE AbortStop
  <2>1. pc = "abort" /\ pc' = "abortJoin" /\ UNCHANGED <<accepted, buffers, files, writer, sealed>>
    BY <1>22, Zenon DEF AbortStop
  <2>2. writer = "ended"
    BY <1>4, <2>1 DEF Aborting
  <2>3. queue' = queue
    BY <1>22, <2>2, Zenon DEF AbortStop
  <2> QED BY <1>3, <2>1, <2>3, WholeKept
<1>23. CASE AbortJoin
  BY <1>3, <1>23, WholeKept DEF AbortJoin, Return
<1>24. CASE Mark
  BY <1>3, <1>24, WholeKept DEF Mark, Return
<1>25. CASE WriteBatch
  <2>1. UNCHANGED <<accepted, buffers, pc, sealed>> /\ writer = "running" /\ queue # <<>> /\ queue' = Tail(queue)
    BY <1>25, Zenon DEF WriteBatch
  <2>2. \/ Head(queue) = STOP /\ writer' = "closing" /\ files' = files
        \/ /\ Head(queue) # STOP /\ writer' = writer
           /\ files' = [files EXCEPT ![Head(queue).stream] = @ \o Head(queue).rows]
    BY <1>4, <1>25 DEF WriteBatch
  <2> QED BY <1>3, <2>1, <2>2, WholeWrite
<1>26. CASE CloseFiles
  <2>1. UNCHANGED <<accepted, buffers, queue, files, sealed, pc>> /\ writer = "closing" /\ writer' = "ended"
    BY <1>26, Zenon DEF CloseFiles
  <2>2. Orderly'
    BY <1>3, <2>1 DEF Orderly, Nothing
  <2>3. Follows'
    BY <1>3, <2>1, QueuedIs DEF Follows, Numbered, Handed
  <2> QED BY <2>2, <2>3
<1>27. CASE UNCHANGED vars
  BY <1>3, <1>27, WholeKept DEF vars
<1> QED
  BY <1>5, <1>6, <1>7, <1>8, <1>9, <1>10, <1>11, <1>12, <1>13, <1>14, <1>15, <1>16, <1>17, <1>18,
     <1>19, <1>20, <1>21, <1>22, <1>23, <1>24, <1>25, <1>26, <1>27
     DEF Next, Producer, Writer, Idle

-----------------------------------------------------------------------------
(* The invariant, and what follows from it *)

(* The inductive invariant of the sink. *)
SinkInv == Types /\ Control /\ Outcome /\ Bounded /\ Tails /\ Whole

(* The invariant holds of a new sink. *)
LEMMA InitSinkInv == Init => SinkInv
<1> SUFFICES ASSUME Init PROVE SinkInv
  OBVIOUS
<1>1. Types
  BY InitTypes
<1>2. Control /\ Outcome
  BY DEF Init, Control, Outcome, Aborting
<1>3. /\ \A s \in Streams : accepted[s] = <<>> /\ buffers[s] = <<>> /\ files[s] = <<>>
      /\ \A s \in Streams : Len(buffers[s]) = 0 /\ Len(accepted[s]) = 0
      /\ queue = <<>> /\ item = NoItem /\ writer = "running" /\ pc = "ready" /\ ~sealed
  BY NothingTyped DEF Init, Nothing
<1>4. Bounded
  BY <1>3, SinkAssumption DEF Bounded
<1>5. Tails
  BY <1>3 DEF Tails
<1>6. Orderly
  BY <1>3 DEF Orderly
<1>7. Follows
  <2> SUFFICES ASSUME NEW s \in Streams PROVE files[s] \o Queued(s) = Numbered(s, Handed(s))
    BY DEF Follows
  <2>1. Queued(s) = <<>>
    BY <1>3, QueuedIs, RowsOfEmpty
  <2>2. Handed(s) = 0
    BY <1>3 DEF Handed
  <2>3. Numbered(s, 0) = <<>>
    BY DEF Numbered
  <2>4. files[s] \o <<>> = <<>>
    BY <1>3
  <2> QED BY <2>1, <2>2, <2>3, <2>4
<1> QED BY <1>1, <1>2, <1>4, <1>5, <1>6, <1>7 DEF SinkInv, Whole

(* The invariant is inductive. *)
LEMMA SinkInvStep == SinkInv /\ [Next]_vars => SinkInv'
BY TypesStep, PlacesStep, BoundedStep, TailsStep, WholeStep DEF SinkInv

(* The sink never leaves the invariant. *)
THEOREM SinkInvariant == Spec => []SinkInv
BY InitSinkInv, SinkInvStep, PTL DEF Spec

(* Every variable keeps its type. *)
THEOREM SinkTypes == Spec => []TypeOK
<1>1. SinkInv => TypeOK
  BY TypesImplyTypeOK DEF SinkInv
<1> QED BY <1>1, SinkInvariant, PTL

(* A sink that says it is closed or sealed has no writer thread left.      *)
THEOREM WriterGone == Spec => []NoWriterLeft
<1>1. SinkInv => NoWriterLeft
  BY DEF SinkInv, Outcome, NoWriterLeft
<1> QED BY <1>1, SinkInvariant, PTL

(* Buffers, queue and batches stay within their limits, whatever happens   *)
(* to the writer.                                                          *)
THEOREM SinkMemoryBounded == Spec => []MemoryBounded
<1>1. SinkInv => MemoryBounded
  BY DEF SinkInv, Bounded, MemoryBounded
<1> QED BY <1>1, SinkInvariant, PTL

(* Failures, the end of a run and its manifest are final.                  *)
THEOREM FinalIsFinal == Spec => [][Advances]_vars
<1>1. SinkInv /\ [Next]_vars => [Advances]_vars
  BY NextAdvances DEF SinkInv
<1> QED BY <1>1, SinkInvariant, PTL DEF Spec

(* The facts of numbered rows are those accepted. *)
LEMMA FactsOfNumbered ==
  ASSUME Types, NEW s \in Streams, NEW n \in 0..Len(accepted[s])
  PROVE  FactsOf(Numbered(s, n)) = [k \in 1..n |-> accepted[s][k]]
BY DEF Numbered, FactsOf

(* Nothing is lost, duplicated or reordered between the two threads.       *)
LEMMA WholeLosesNothing == Types /\ Tails /\ Whole => NothingLost
<1> SUFFICES ASSUME Types, Tails, Whole, ~Doomed, NEW s \in Streams
             PROVE  LET rows == files[s] \o Queued(s)
                    IN  /\ FactsOf(rows) \o buffers[s] = accepted[s]
                        /\ \A n \in DOMAIN rows : rows[n].sequence = n - 1
  BY DEF NothingLost
<1> DEFINE h == Handed(s)
           a == accepted[s]
           b == buffers[s]
           c == [k \in 1..h |-> a[k]]
<1>1. Good
  BY DEF Good, Doomed, Loadable
<1>2. files[s] \o Queued(s) = Numbered(s, h)
  BY <1>1 DEF Whole, Follows
<1>3. /\ a \in Seq(1..MaxFacts) /\ b \in Seq(1..MaxFacts)
      /\ h \in 0..Len(a) /\ Len(a) \in Nat /\ Len(b) \in Nat
  BY BufferedType DEF Types, DataTypes
<1>4. FactsOf(Numbered(s, h)) = c
  BY <1>3, FactsOfNumbered
<1>5. \A n \in DOMAIN Numbered(s, h) : Numbered(s, h)[n].sequence = n - 1
  BY DEF Numbered
<1>6. h + Len(b) = Len(a) /\ \A k \in 1..Len(b) : b[k] = a[h + k]
  <2>1. \A x, y \in Nat : (x - y) + y = x
    OBVIOUS
  <2>2. h = Len(a) - Len(b)
    BY Zenon DEF Handed
  <2>3. h + Len(b) = Len(a)
    BY <1>3, <2>1, <2>2, Zenon
  <2>4. \A k \in 1..Len(b) : b[k] = a[h + k]
    BY Zenon DEF Tails
  <2> QED BY <2>3, <2>4
<1>7. c \o b = a
  <2> HIDE DEF a, b, h
  <2>0. \A k \in 1..h : k \in 1..Len(a)
    BY <1>3
  <2>1. c \in [1..h -> 1..MaxFacts]
    BY <1>3, <2>0, Elements
  <2>2. c \in Seq(1..MaxFacts) /\ Len(c) = h /\ \A k \in 1..h : c[k] = a[k]
    <3> DEFINE d == c
    <3>1. \A k \in 1..h : d[k] = a[k]
      OBVIOUS
    <3> HIDE DEF d
    <3>2. d \in Seq(1..MaxFacts) /\ Len(d) = h
      <4>1. d \in [1..h -> 1..MaxFacts]
        BY <2>1 DEF d
      <4>2. \A S : d \in [1..h -> S] => d \in Seq(S) /\ Len(d) = h
        <5> HIDE DEF d
        <5> QED BY <1>3
      <4> QED BY <4>1, <4>2, Zenon
    <3> QED BY <3>1, <3>2, Zenon DEF d
  <2> HIDE DEF c
  <2>3. c \o b \in Seq(1..MaxFacts) /\ Len(c \o b) = Len(a)
    BY <1>3, <1>6, <2>2
  <2>4. ASSUME NEW k \in 1..Len(a) PROVE (c \o b)[k] = a[k]
    <3>1. CASE k <= h
      <4>1. k \in 1..h
        BY <1>3, <3>1
      <4> QED BY <1>3, <2>2, <4>1
    <3>2. CASE ~ (k <= h)
      <4>1. k - h \in 1..Len(b) /\ h + (k - h) = k
        BY <1>3, <1>6, <3>2
      <4>2. (c \o b)[k] = b[k - h]
        BY <1>3, <1>6, <2>2, <3>2
      <4> QED BY <1>6, <4>1, <4>2
    <3> QED BY <3>1, <3>2
  <2> DEFINE w == c \o b
  <2>5. w \in Seq(1..MaxFacts) /\ Len(w) = Len(a) /\ \A k \in 1..Len(a) : w[k] = a[k]
    BY <2>3, <2>4
  <2> HIDE DEF w
  <2>6. w = a
    BY <1>3, <2>5
  <2> QED BY <2>6 DEF w
<1>8. FactsOf(Numbered(s, h)) \o b = a
  BY <1>4, <1>7, Zenon
<1> QED BY <1>2, <1>5, <1>8, Zenon

(* What the two threads hold between them is what was accepted.            *)
THEOREM SinkLosesNothing == Spec => []NothingLost
<1>1. SinkInv => NothingLost
  BY WholeLosesNothing DEF SinkInv
<1> QED BY <1>1, SinkInvariant, PTL

(* A published manifest stands for a sealed sink whose files hold every    *)
(* accepted fact.                                                          *)
LEMMA ManifestWhole == Types /\ Control /\ Outcome /\ Tails /\ Whole => ManifestIsWhole
<1> SUFFICES ASSUME Types, Control, Outcome, Tails, Whole, manifest
             PROVE  sealed /\ writer = "ended" /\ ~failed /\ Readable
  BY DEF ManifestIsWhole
<1>1. Good /\ sealed /\ writer = "ended" /\ ~failed
  BY DEF Good, Outcome
<1>2. Follows /\ queue = <<>> /\ buffers = Nothing
  BY <1>1 DEF Whole, Orderly
<1>3. ASSUME NEW s \in Streams
      PROVE  files[s] = [n \in DOMAIN accepted[s] |-> [sequence |-> n - 1, fact |-> accepted[s][n]]]
  <2>1. Queued(s) = <<>>
    BY <1>2, QueuedIs, RowsOfEmpty
  <2>2. files[s] = Numbered(s, Handed(s))
    <3>1. files[s] \o <<>> = files[s]
      BY Joining DEF Types, DataTypes
    <3> QED BY <1>2, <2>1, <3>1 DEF Follows
  <2>3. Handed(s) = Len(accepted[s]) /\ DOMAIN accepted[s] = 1..Len(accepted[s])
    <3>1. Len(buffers[s]) = 0 /\ Len(accepted[s]) \in Nat
      BY <1>2, NothingTyped, BufferedType
    <3>2. \A x \in Nat : x - 0 = x
      OBVIOUS
    <3>3. Handed(s) = Len(accepted[s])
      BY <3>1, <3>2, Zenon DEF Handed
    <3>4. DOMAIN accepted[s] = 1..Len(accepted[s])
      BY DEF Types, DataTypes
    <3> QED BY <3>3, <3>4
  <2> QED BY <2>2, <2>3, Zenon DEF Numbered
<1> QED BY <1>1, <1>3 DEF Readable

(* A manifest stands for a whole run. *)
THEOREM SinkManifestWhole == Spec => []ManifestIsWhole
<1>1. SinkInv => ManifestIsWhole
  BY ManifestWhole DEF SinkInv
<1> QED BY <1>1, SinkInvariant, PTL

-----------------------------------------------------------------------------
(* The facts of a stream in a sequence of entries *)

FactFor(e, s)  == IF e.stream = s THEN <<e.fact>> ELSE <<>>
FactsIn(w, s)  == FlattenSeq([n \in DOMAIN w |-> FactFor(w[n], s)])

(* FactsAhead, before and after a step, and the facts of ArtifactRun.      *)
LEMMA FactsAheadIs ==
  \A s : /\ FactsAhead(s) = FactsIn(work, s) /\ FactsAhead(s)' = FactsIn(work', s)
         /\ \A w : Run!FactsOf(w, s) = FactsIn(w, s)
<1>1. \A p : Run!FlattenSeq(p) = FlattenSeq(p)
  BY DEF FlattenSeq, Run!FlattenSeq
<1> QED BY <1>1 DEF FactsAhead, FactsIn, FactFor, Run!FactsOf

(* The facts of a stream, entry by entry, are a sequence of sequences of   *)
(* facts.                                                                  *)
LEMMA FactPartsType ==
  ASSUME NEW w \in Seq(Entry), NEW s
  PROVE  /\ Parts(1..MaxFacts, [n \in DOMAIN w |-> FactFor(w[n], s)])
         /\ Len([n \in DOMAIN w |-> FactFor(w[n], s)]) = Len(w)
<1> DEFINE p == [n \in DOMAIN w |-> FactFor(w[n], s)]
<1>1. DOMAIN w = 1..Len(w) /\ Len(w) \in Nat /\ \A n \in 1..Len(w) : w[n] \in Entry
  BY Elements
<1>2. ASSUME NEW e \in Entry PROVE FactFor(e, s) \in Seq(1..MaxFacts)
  <2>1. \A S : \A x \in S : <<x>> \in Seq(S) /\ <<>> \in Seq(S)
    OBVIOUS
  <2>2. e.fact \in 1..MaxFacts
    BY DEF Entry
  <2> QED BY <2>1, <2>2, Zenon DEF FactFor
<1>3. p \in [1..Len(w) -> Seq(1..MaxFacts)]
  BY <1>1, <1>2
<1> HIDE DEF p
<1>4. \A S : p \in [1..Len(w) -> S] => p \in Seq(S) /\ Len(p) = Len(w)
  BY <1>1
<1> QED BY <1>3, <1>4 DEF Parts, p

(* The facts of a stream in a sequence of entries are a sequence of facts. *)
LEMMA FactsInType ==
  ASSUME NEW w \in Seq(Entry), NEW s
  PROVE  FactsIn(w, s) \in Seq(1..MaxFacts)
BY FactPartsType, FlattenType DEF FactsIn

(* No entries hold no facts. *)
LEMMA FactsInEmpty == \A s : FactsIn(<<>>, s) = <<>>
<1>1. \A s : [n \in DOMAIN <<>> |-> FactFor(<<>>[n], s)] = <<>>
  OBVIOUS
<1> QED BY <1>1, FlattenEmpty DEF FactsIn

(* The first entry holds the first of the facts. *)
LEMMA FactsInTail ==
  ASSUME NEW w \in Seq(Entry), w # <<>>, NEW s
  PROVE  FactsIn(w, s) = FactFor(Head(w), s) \o FactsIn(Tail(w), s)
<1> DEFINE r == Tail(w)
           p == [n \in DOMAIN w |-> FactFor(w[n], s)]
           t == [n \in DOMAIN r |-> FactFor(r[n], s)]
<1>1. /\ Len(w) \in Nat /\ Len(w) >= 1 /\ DOMAIN w = 1..Len(w) /\ DOMAIN r = 1..(Len(w) - 1)
      /\ Head(w) = w[1] /\ \A n \in 1..(Len(w) - 1) : r[n] = w[n + 1]
  OBVIOUS
<1>2. Parts(1..MaxFacts, p) /\ Len(p) = Len(w)
  BY FactPartsType
<1>3. \A n \in 1..Len(w) : p[n] = FactFor(w[n], s)
  BY <1>1
<1>4. Tail(p) = [n \in 1..(Len(w) - 1) |-> p[n + 1]] /\ Head(p) = p[1] /\ p # <<>>
  <2> HIDE DEF p
  <2>1. p \in Seq(Seq(1..MaxFacts))
    BY <1>2 DEF Parts
  <2>2. p # <<>>
    BY <1>1, <1>2
  <2>3. Tail(p) = [n \in 1..(Len(p) - 1) |-> p[n + 1]] /\ Head(p) = p[1]
    BY <2>1, <2>2, TailAsFunction
  <2> QED BY <1>2, <2>2, <2>3, Zenon
<1>5. t = [n \in 1..(Len(w) - 1) |-> p[n + 1]]
  <2> HIDE DEF r, p
  <2>1. ASSUME NEW n \in 1..(Len(w) - 1) PROVE FactFor(r[n], s) = p[n + 1]
    <3>1. n + 1 \in 1..Len(w)
      BY <1>1
    <3> QED BY <1>1, <1>3, <3>1
  <2> QED BY <1>1, <2>1, Zenon
<1>6. p[1] = FactFor(Head(w), s)
  BY <1>1, <1>3
<1>7. Tail(p) = t
  BY <1>4, <1>5, Zenon
<1>8. FlattenSeq(p) = Head(p) \o FlattenSeq(Tail(p))
  <2> HIDE DEF p
  <2> QED BY <1>2, <1>4, FlattenTail
<1>9. FactsIn(w, s) = FlattenSeq(p) /\ FactsIn(Tail(w), s) = FlattenSeq(t)
  BY Zenon DEF FactsIn
<1> HIDE DEF p, t
<1> QED BY <1>4, <1>6, <1>7, <1>8, <1>9, Zenon

-----------------------------------------------------------------------------
(* The refinement *)

(* A call that raises changes neither what was accepted, nor a file, nor   *)
(* FAILED.json.                                                            *)
LEMMA RaiseLeaves ==
  ASSUME Raise \/ EnterAbort
  PROVE  UNCHANGED <<accepted, files, marker>>
BY Zenon DEF Raise, EnterAbort, sinkVars, writerVars, diskVars

(* What was accepted and what is on file stay once the sink is sealed, and *)
(* FAILED.json stays in any case.                                          *)
LEMMA SealedKeeps ==
  ASSUME Types, Control, Outcome, [Next]_vars
  PROVE  (sealed => UNCHANGED <<accepted, files>>) /\ (marker => marker')
<1> USE DEF sinkVars, writerVars, diskVars, callVars
<1>1. ASSUME NEW s \in Streams, AppendFact(s) PROVE UNCHANGED <<accepted, files, marker>>
  BY <1>1, Zenon DEF AppendFact
<1>2. ASSUME AppendInvalid PROVE (sealed => UNCHANGED <<accepted, files>>) /\ (marker => marker')
  <2>1. Raise \/ EnterAbort \/ UNCHANGED <<accepted, files, marker>>
    BY <1>2, Zenon DEF AppendInvalid
  <2> QED BY <2>1, RaiseLeaves
<1>3. ASSUME BeginTransaction PROVE (sealed => UNCHANGED <<accepted, files>>) /\ (marker => marker')
  BY <1>3, Zenon DEF BeginTransaction
<1>4. ASSUME Commit PROVE (sealed => UNCHANGED <<accepted, files>>) /\ (marker => marker')
  BY <1>4, Zenon DEF Commit
<1>5. ASSUME Rollback PROVE (sealed => UNCHANGED <<accepted, files>>) /\ (marker => marker')
  BY <1>5, Zenon DEF Rollback
<1>6. ASSUME Seal PROVE (sealed => UNCHANGED <<accepted, files>>) /\ (marker => marker')
  BY <1>6, Zenon DEF Seal
<1>7. ASSUME Close PROVE (sealed => UNCHANGED <<accepted, files>>) /\ (marker => marker')
  <2>1. Raise \/ EnterAbort \/ UNCHANGED <<accepted, files, marker>>
    BY <1>7, Zenon DEF Close
  <2> QED BY <2>1, RaiseLeaves
<1>8. ASSUME Abort PROVE (sealed => UNCHANGED <<accepted, files>>) /\ (marker => marker')
  <2>1. Raise \/ EnterAbort \/ UNCHANGED <<accepted, files, marker>>
    BY <1>8, Zenon DEF Abort
  <2> QED BY <2>1, RaiseLeaves
<1>9. ASSUME AppendCommitted PROVE (sealed => UNCHANGED <<accepted, files>>) /\ (marker => marker')
  <2>1. ~sealed
    BY <1>9 DEF AppendCommitted, Control
  <2>2. Raise \/ marker' = marker
    BY <1>9, Zenon DEF AppendCommitted
  <2> QED BY <2>1, <2>2, RaiseLeaves
<1>10. ASSUME Enqueue PROVE (sealed => UNCHANGED <<accepted, files>>) /\ (marker => marker')
  <2>1. Raise \/ EnterAbort \/ UNCHANGED <<accepted, files, marker>>
    BY <1>10, Zenon DEF Enqueue
  <2> QED BY <2>1, RaiseLeaves
<1>11. ASSUME Flush PROVE (sealed => UNCHANGED <<accepted, files>>) /\ (marker => marker')
  <2>1. Raise \/ EnterAbort \/ UNCHANGED <<accepted, files, marker>>
    BY <1>11, Zenon DEF Flush
  <2> QED BY <2>1, RaiseLeaves
<1>12. ASSUME PutStop PROVE (sealed => UNCHANGED <<accepted, files>>) /\ (marker => marker')
  <2>1. Raise \/ EnterAbort \/ UNCHANGED <<accepted, files, marker>>
    BY <1>12, Zenon DEF PutStop
  <2> QED BY <2>1, RaiseLeaves
<1>13. ASSUME Join PROVE (sealed => UNCHANGED <<accepted, files>>) /\ (marker => marker')
  <2>1. Raise \/ EnterAbort \/ UNCHANGED <<accepted, files, marker>>
    BY <1>13, Zenon DEF Join
  <2> QED BY <2>1, RaiseLeaves
<1>14. ASSUME WriteCandidate PROVE (sealed => UNCHANGED <<accepted, files>>) /\ (marker => marker')
  <2>1. Raise \/ EnterAbort \/ UNCHANGED <<accepted, files, marker>>
    BY <1>14, Zenon DEF WriteCandidate
  <2> QED BY <2>1, RaiseLeaves
<1>15. ASSUME ValidateCandidate PROVE (sealed => UNCHANGED <<accepted, files>>) /\ (marker => marker')
  <2>1. Raise \/ EnterAbort \/ UNCHANGED <<accepted, files, marker>>
    BY <1>15, Zenon DEF ValidateCandidate
  <2> QED BY <2>1, RaiseLeaves
<1>16. ASSUME Publish PROVE (sealed => UNCHANGED <<accepted, files>>) /\ (marker => marker')
  <2>1. Raise \/ EnterAbort \/ UNCHANGED <<accepted, files, marker>>
    BY <1>16, Zenon DEF Publish
  <2> QED BY <2>1, RaiseLeaves
<1>17. ASSUME Verify PROVE (sealed => UNCHANGED <<accepted, files>>) /\ (marker => marker')
  <2>1. Raise \/ EnterAbort \/ UNCHANGED <<accepted, files, marker>>
    BY <1>17, Zenon DEF Verify
  <2> QED BY <2>1, RaiseLeaves
<1>18. ASSUME AbortStop PROVE (sealed => UNCHANGED <<accepted, files>>) /\ (marker => marker')
  BY <1>18, Zenon DEF AbortStop
<1>19. ASSUME AbortJoin PROVE (sealed => UNCHANGED <<accepted, files>>) /\ (marker => marker')
  BY <1>19, Zenon DEF AbortJoin
<1>20. ASSUME Mark PROVE (sealed => UNCHANGED <<accepted, files>>) /\ (marker => marker')
  <2>1. UNCHANGED <<accepted, files>>
    BY <1>20, Zenon DEF Mark
  <2>2. marker' = marker \/ marker' = TRUE
    BY <1>20, Zenon DEF Mark
  <2> QED BY <2>1, <2>2
<1>21. ASSUME WriteBatch PROVE (sealed => UNCHANGED <<accepted, files>>) /\ (marker => marker')
  <2>1. ~sealed
    BY <1>21 DEF WriteBatch, Outcome
  <2>2. marker' = marker
    BY <1>21, Zenon DEF WriteBatch
  <2> QED BY <2>1, <2>2
<1>22. ASSUME CloseFiles PROVE (sealed => UNCHANGED <<accepted, files>>) /\ (marker => marker')
  BY <1>22, Zenon DEF CloseFiles
<1>23. CASE UNCHANGED vars
  BY <1>23, Zenon DEF vars
<1> QED
  BY <1>1, <1>2, <1>3, <1>4, <1>5, <1>6, <1>7, <1>8, <1>9, <1>10, <1>11, <1>12,
     <1>13, <1>14, <1>15, <1>16, <1>17, <1>18, <1>19, <1>20, <1>21, <1>22, <1>23
     DEF Next, Producer, Writer, Idle

(* The phases of a run, by what they mean for the sink.                    *)
LEMMA PhaseMeans ==
  ASSUME Control, Outcome
  PROVE  /\ RunPhase = "complete" <=> Loadable
         /\ RunPhase = "broken" <=> Doomed /\ ~Loadable
         /\ RunPhase = "recording" <=> ~Doomed /\ ~Loadable
         /\ RunPhase \in {"complete", "broken", "recording"}
         /\ RunPhase = "recording" => ~manifest /\ ~closed /\ ~failed /\ ~stuck /\ ~Aborting
         /\ RunPhase = "complete" => sealed /\ staged = NoTransaction /\ work = <<>>
BY DEF RunPhase, Loadable, Doomed, Control, Outcome

(* A broken run stays broken, a complete one completes no second time.     *)
LEMMA PhaseStep ==
  ASSUME Types, Control, Outcome, Control', Outcome', [Next]_vars
  PROVE  /\ RunPhase = "broken" => RunPhase' = "broken"
         /\ RunPhase = "complete" => RunPhase' \in {"complete", "broken"}
         /\ RunPhase' = "complete" => RunPhase = "complete" \/ (RunPhase = "recording" /\ pc = "publish")
<1>1. Advances /\ (marker => marker')
  BY NextAdvances, SealedKeeps
<1>2. manifest' => sealed' /\ ~failed' /\ ~stuck'
  BY DEF Outcome
<1>3. pc = "publish" => ~closed /\ sealed
  BY DEF Control
<1>4. ASSUME Doomed, ~Loadable PROVE Doomed' /\ ~Loadable'
  <2>1. CASE failed \/ stuck
    BY <1>1, <1>2, <2>1 DEF Advances, Doomed, Loadable
  <2>2. CASE closed /\ ~Loadable
    BY <1>1, <1>3, <2>2 DEF Advances, Doomed, Loadable, Outcome
  <2>3. CASE Aborting /\ ~closed
    <3>1. ~manifest /\ pc # "publish"
      BY <1>4, <2>3 DEF Loadable, Outcome, Aborting
    <3>2. ~manifest'
      BY <1>1, <3>1 DEF Advances
    <3> QED BY <1>1, <2>3, <3>2 DEF Advances, Doomed, Loadable
  <2> QED BY <1>4, <2>1, <2>2, <2>3 DEF Doomed
<1>5. ASSUME Loadable PROVE Loadable' \/ Doomed'
  BY <1>1, <1>5 DEF Advances, Loadable, Doomed, Outcome
<1>6. ASSUME Loadable', ~Loadable, ~Doomed PROVE pc = "publish"
  BY <1>1, <1>6, PhaseMeans DEF Advances, Loadable
<1> QED BY <1>4, <1>5, <1>6 DEF RunPhase

(* The variables of ArtifactRun, in terms of the sink.                     *)
Recorded == IF RunPhase = "broken" THEN Nothing
            ELSE [s \in Streams |-> accepted[s] \o FactsAhead(s)]
Held     == IF RunPhase = "broken" THEN NoTransaction ELSE staged
Shown    == IF Loadable THEN [s \in Streams |-> FactsOf(files[s])] ELSE Nothing

(* A step that touches neither facts nor transaction, while recording.     *)
LEMMA RecordingKept ==
  ASSUME Control, Outcome, Control', Outcome', RunPhase = "recording", RunPhase' = "recording",
         UNCHANGED <<accepted, work, staged>>
  PROVE  UNCHANGED <<RunPhase, Recorded, Held, Shown>>
<1>1. ~Loadable /\ ~Loadable'
  BY DEF RunPhase
<1>2. \A s : FactsAhead(s)' = FactsAhead(s)
  BY FactsAheadIs
<1> QED BY <1>1, <1>2 DEF Recorded, Held, Shown, Nothing

(* Entries that become the work of the call are recorded.                  *)
LEMMA RecordingTakes ==
  ASSUME Types, Types', Control, Outcome, Control', Outcome',
         RunPhase = "recording", RunPhase' = "recording",
         accepted' = accepted, work = <<>>, NEW w \in Seq(Entry), work' = w
  PROVE  Recorded' = [s \in Streams |-> Recorded[s] \o Run!FactsOf(w, s)]
<1>1. Recorded = [s \in Streams |-> accepted[s] \o FactsAhead(s)]
  BY DEF Recorded
<1>2. Recorded' = [s \in Streams |-> accepted[s] \o FactsAhead(s)']
  BY DEF Recorded
<1>3. ASSUME NEW s \in Streams
      PROVE  accepted[s] \o FactsAhead(s)' = Recorded[s] \o Run!FactsOf(w, s)
  <2>1. FactsAhead(s)' = FactsIn(w, s) /\ Run!FactsOf(w, s) = FactsIn(w, s)
    BY FactsAheadIs
  <2>2. Recorded[s] = accepted[s] \o <<>>
    <3>1. FactsAhead(s) = <<>>
      BY FactsAheadIs, FactsInEmpty
    <3> QED BY <1>1, <3>1
  <2>3. accepted[s] \o <<>> = accepted[s]
    BY Joining DEF Types, DataTypes
  <2> QED BY <2>1, <2>2, <2>3, Zenon
<1> QED BY <1>2, <1>3, Zenon

(* Accepting a fact moves it from the entries ahead to those accepted.     *)
LEMMA RecordingAccepts ==
  ASSUME Types, Types', Control, Outcome, Control', Outcome',
         RunPhase = "recording", RunPhase' = "recording",
         work # <<>>, work' = Tail(work), staged' = staged,
         NEW t \in Streams, NEW f \in 1..MaxFacts, Head(work) = [stream |-> t, fact |-> f],
         accepted' = [accepted EXCEPT ![t] = Append(@, f)]
  PROVE  UNCHANGED <<RunPhase, Recorded, Held, Shown>>
<1>1. ~Loadable /\ ~Loadable'
  BY DEF RunPhase
<1>2. work \in Seq(Entry) /\ Tail(work) \in Seq(Entry)
  BY DEF Types, WorkTypes
<1>3. ASSUME NEW s \in Streams
      PROVE  accepted'[s] \o FactsAhead(s)' = accepted[s] \o FactsAhead(s)
  <2>1. FactsAhead(s) = FactFor(Head(work), s) \o FactsAhead(s)'
    <3>1. FactsIn(work, s) = FactFor(Head(work), s) \o FactsIn(Tail(work), s)
      BY <1>2, FactsInTail
    <3> QED BY <3>1, FactsAheadIs
  <2>2. accepted'[s] = accepted[s] \o FactFor(Head(work), s)
    <3>0. accepted[s] \in Seq(1..MaxFacts)
      BY DEF Types, DataTypes
    <3>1. CASE s = t
      <4>1. accepted'[s] = Append(accepted[s], f)
        BY <3>1 DEF Types, DataTypes
      <4>2. FactFor(Head(work), s) = <<f>>
        BY <3>1 DEF FactFor
      <4>3. \A S : \A x \in S : \A q \in Seq(S) : Append(q, x) = q \o <<x>>
        BY AppendIsConcat
      <4> QED BY <3>0, <4>1, <4>2, <4>3, Zenon
    <3>2. CASE s # t
      <4>1. accepted'[s] = accepted[s]
        BY <3>2 DEF Types, DataTypes
      <4>2. FactFor(Head(work), s) = <<>>
        BY <3>2 DEF FactFor
      <4> QED BY <3>0, <4>1, <4>2, Joining, Zenon
    <3> QED BY <3>1, <3>2
  <2>3. accepted[s] \in Seq(1..MaxFacts) /\ FactsAhead(s)' \in Seq(1..MaxFacts)
    BY <1>2, FactsAheadIs, FactsInType DEF Types, DataTypes
  <2>4. FactFor(Head(work), s) \in Seq(1..MaxFacts)
    <3>1. \A S : \A x \in S : <<x>> \in Seq(S) /\ <<>> \in Seq(S)
      OBVIOUS
    <3>2. FactFor(Head(work), s) \in {<<f>>, <<>>}
      BY DEF FactFor
    <3> QED BY <3>1, <3>2
  <2> DEFINE x == accepted[s]
             y == FactFor(Head(work), s)
             z == FactsAhead(s)'
             xy == accepted'[s]
             yz == FactsAhead(s)
  <2>5. x \in Seq(1..MaxFacts) /\ y \in Seq(1..MaxFacts) /\ z \in Seq(1..MaxFacts)
        /\ xy = x \o y /\ yz = y \o z
    BY <2>1, <2>2, <2>3, <2>4, Zenon
  <2> HIDE DEF x, y, z, xy, yz
  <2>6. xy \o z = x \o yz
    BY <2>5, Associates
  <2> QED BY <2>6, Zenon DEF x, y, z, xy, yz
<1>4. Recorded' = Recorded
  <2>1. Recorded = [s \in Streams |-> accepted[s] \o FactsAhead(s)]
    BY DEF Recorded
  <2>2. Recorded' = [s \in Streams |-> accepted'[s] \o FactsAhead(s)']
    BY DEF Recorded
  <2> QED BY <1>3, <2>1, <2>2, Zenon
<1>5. Held' = Held /\ Shown' = Shown
  BY <1>1 DEF Held, Shown, Nothing
<1> QED BY <1>4, <1>5

(* While the run is being recorded, a step records, holds or drops facts   *)
(* as ArtifactRun says, or none of them.                                   *)
LEMMA RecordingStep ==
  ASSUME Types, Types', Control, Outcome, Control', Outcome', [Next]_vars,
         RunPhase = "recording", RunPhase' = "recording"
  PROVE  \/ \E s \in Streams, f \in 1..MaxFacts : Run!Record([stream |-> s, fact |-> f])
         \/ Run!Open \/ Run!CommitOrRollback
         \/ UNCHANGED <<RunPhase, Recorded, Held, Shown>>
<1> USE DEF sinkVars, writerVars, diskVars, callVars
<1>a. /\ ~manifest /\ ~closed /\ ~failed /\ ~stuck /\ ~Aborting
      /\ ~manifest' /\ ~closed' /\ ~failed' /\ ~stuck' /\ ~Aborting'
  BY DEF RunPhase, Loadable, Doomed, Outcome
<1>b. ~EnterAbort
  BY <1>a DEF EnterAbort, Aborting
<1>c. Held = staged /\ Held' = staged' /\ Shown' = Shown
  BY <1>a DEF Held, Shown, Loadable, Nothing
<1>d. pc \in {"candidate", "validate", "publish", "verify"} => ~Raise
  BY <1>b DEF Raise, Control
<1>1. ASSUME NEW s \in Streams, AppendFact(s)
      PROVE  \E t \in Streams, f \in 1..MaxFacts : Run!Record([stream |-> t, fact |-> f])
  <2>0. PICK f \in 1..MaxFacts : f = sent + 1
    BY <1>1, SinkAssumption DEF AppendFact, Types, PlaceTypes
  <2>a. PICK entry \in Entry : entry = [stream |-> s, fact |-> f]
    BY DEF Entry
  <2>1. <<entry>> \in Seq(Entry)
    <3>1. \A S : \A x \in S : <<x>> \in Seq(S)
      OBVIOUS
    <3> QED BY <3>1, Zenon
  <2>2. pc = "ready" /\ work = <<>> /\ accepted' = accepted
    BY <1>1 DEF AppendFact, Control
  <2>3. CASE staged = NoTransaction
    <3>1. work' = <<entry>> /\ staged' = staged
      BY <1>1, <2>0, <2>a, <2>3 DEF AppendFact
    <3>2. Recorded' = [r \in Streams |-> Recorded[r] \o Run!FactsOf(<<entry>>, r)]
      BY <2>1, <2>2, <3>1, RecordingTakes
    <3>3. Run!Record(entry)
      BY <1>c, <2>3, <3>1, <3>2 DEF Run!Record, Run!With, Recorded, Held, Shown
    <3> QED BY <2>a, <3>3
  <2>4. CASE staged # NoTransaction
    <3>1. staged' = Append(staged, entry) /\ work' = work
      BY <1>1, <2>0, <2>a, <2>4 DEF AppendFact
    <3>2. Recorded' = Recorded
      <4>1. \A r : FactsAhead(r)' = FactsAhead(r)
        BY <3>1, FactsAheadIs
      <4> QED BY <2>2, <4>1 DEF Recorded
    <3>3. Run!Record(entry)
      BY <1>c, <2>4, <3>1, <3>2 DEF Run!Record, Recorded, Held, Shown
    <3> QED BY <2>a, <3>3
  <2> QED BY <2>3, <2>4
<1>2. CASE AppendInvalid
  BY <1>b, <1>2 DEF AppendInvalid
<1>3. CASE BeginTransaction
  <2>1. staged = NoTransaction /\ staged' = <<>> /\ UNCHANGED <<accepted, work>>
    BY <1>3, Zenon DEF BeginTransaction
  <2>2. Recorded' = Recorded
    <3>1. \A r : FactsAhead(r)' = FactsAhead(r)
      BY <2>1, FactsAheadIs
    <3> QED BY <2>1, <3>1 DEF Recorded
  <2>3. Run!Open
    BY <1>c, <2>1, <2>2 DEF Run!Open, Recorded, Held, Shown
  <2> QED BY <2>3
<1>4. CASE Commit
  <2>1. staged # NoTransaction /\ staged' = NoTransaction /\ work' = staged /\ accepted' = accepted
    BY <1>4, Zenon DEF Commit
  <2>2. work = <<>> /\ staged \in Seq(Entry)
    BY <1>4, <2>1 DEF Commit, Begin, Control, Types, WorkTypes
  <2>3. Recorded' = [r \in Streams |-> Recorded[r] \o Run!FactsOf(staged, r)]
    <3>1. PICK w \in Seq(Entry) : w = staged
      BY <2>2
    <3>2. Recorded' = [r \in Streams |-> Recorded[r] \o Run!FactsOf(w, r)]
      BY <2>1, <2>2, <3>1, RecordingTakes
    <3> QED BY <3>1, <3>2
  <2>4. Run!CommitOrRollback
    BY <1>c, <2>1, <2>3 DEF Run!CommitOrRollback, Run!With, Recorded, Held, Shown
  <2> QED BY <2>4
<1>5. CASE Rollback
  <2>1. staged # NoTransaction /\ staged' = NoTransaction /\ UNCHANGED <<accepted, work>>
    BY <1>5, Zenon DEF Rollback
  <2>2. Recorded' = Recorded
    <3>1. \A r : FactsAhead(r)' = FactsAhead(r)
      BY <2>1, FactsAheadIs
    <3> QED BY <2>1, <3>1 DEF Recorded
  <2>3. Run!CommitOrRollback
    BY <1>c, <2>1, <2>2 DEF Run!CommitOrRollback, Recorded, Held, Shown
  <2> QED BY <2>3
<1>6. CASE Seal
  BY <1>6, RecordingKept DEF Seal
<1>7. CASE Close
  <2>1. UNCHANGED <<accepted, work, staged>>
    BY <1>7, <1>b, Zenon DEF Close
  <2> QED BY <2>1, RecordingKept
<1>8. CASE Abort
  BY <1>b, <1>8 DEF Abort
<1>9. CASE AppendCommitted
  <2>1. CASE work = <<>>
    BY <1>9, <2>1, RecordingKept DEF AppendCommitted
  <2>2. CASE work # <<>>
    <3>1. Head(work) \in Entry
      BY <2>2 DEF Types, WorkTypes
    <3>2. PICK t \in Streams, f \in 1..MaxFacts : Head(work) = [stream |-> t, fact |-> f]
      BY <3>1 DEF Entry
    <3>3. accepted' = [accepted EXCEPT ![t] = Append(@, f)] /\ work' = Tail(work) /\ staged' = staged
      BY <1>9, <1>a, <2>2, <3>2 DEF AppendCommitted
    <3> QED BY <2>2, <3>2, <3>3, RecordingAccepts
  <2> QED BY <2>1, <2>2
<1>10. CASE Enqueue
  <2>1. UNCHANGED <<accepted, work, staged>>
    BY <1>10, <1>a, Zenon DEF Enqueue
  <2> QED BY <2>1, RecordingKept
<1>11. CASE Flush
  <2>1. UNCHANGED <<accepted, work, staged>>
    BY <1>11, <1>a, Zenon DEF Flush
  <2> QED BY <2>1, RecordingKept
<1>12. CASE PutStop
  <2>1. UNCHANGED <<accepted, work, staged>>
    BY <1>12, <1>a, Zenon DEF PutStop
  <2> QED BY <2>1, RecordingKept
<1>13. CASE Join
  <2>1. UNCHANGED <<accepted, work, staged>>
    BY <1>13, <1>a, Zenon DEF Join
  <2> QED BY <2>1, RecordingKept
<1>14. CASE WriteCandidate
  <2>1. ~Raise
    BY <1>14, <1>d DEF WriteCandidate
  <2>2. UNCHANGED <<accepted, work, staged>>
    BY <1>14, <2>1, Zenon DEF WriteCandidate
  <2> QED BY <2>2, RecordingKept
<1>15. CASE ValidateCandidate
  <2>1. ~Raise
    BY <1>15, <1>d DEF ValidateCandidate
  <2>2. UNCHANGED <<accepted, work, staged>>
    BY <1>15, <2>1, Zenon DEF ValidateCandidate
  <2> QED BY <2>2, RecordingKept
<1>16. CASE Publish
  <2>1. ~Raise
    BY <1>16, <1>d DEF Publish
  <2> QED BY <1>16, <1>a, <2>1, Zenon DEF Publish
<1>17. CASE Verify
  <2>1. ~Raise
    BY <1>17, <1>d DEF Verify
  <2> QED BY <1>17, <1>a, <2>1, Zenon DEF Verify
<1>18. CASE AbortStop
  BY <1>18, <1>a DEF AbortStop, Aborting
<1>19. CASE AbortJoin
  BY <1>19, <1>a DEF AbortJoin, Aborting
<1>20. CASE Mark
  BY <1>20, <1>a DEF Mark, Aborting
<1>21. CASE WriteBatch
  <2>1. UNCHANGED <<accepted, work, staged>>
    BY <1>21, Zenon DEF WriteBatch
  <2> QED BY <2>1, RecordingKept
<1>22. CASE CloseFiles
  <2>1. UNCHANGED <<accepted, work, staged>>
    BY <1>22, Zenon DEF CloseFiles
  <2> QED BY <2>1, RecordingKept
<1>23. CASE UNCHANGED vars
  BY <1>23, RecordingKept DEF vars
<1> QED
  BY <1>1, <1>2, <1>3, <1>4, <1>5, <1>6, <1>7, <1>8, <1>9, <1>10, <1>11, <1>12,
     <1>13, <1>14, <1>15, <1>16, <1>17, <1>18, <1>19, <1>20, <1>21, <1>22, <1>23
     DEF Next, Producer, Writer, Idle

(* A run that completes shows what was recorded.                           *)
LEMMA CompletingStep ==
  ASSUME Types, Types', Control, Outcome, Control', Outcome', ManifestIsWhole', [Next]_vars,
         RunPhase = "recording", RunPhase' = "complete"
  PROVE  Run!Complete
<1>1. pc = "publish" /\ sealed
  BY PhaseStep DEF Control
<1>2. /\ staged = NoTransaction /\ work = <<>> /\ accepted' = accepted
      /\ staged' = NoTransaction /\ work' = <<>> /\ Loadable'
  <2>1. staged = NoTransaction /\ work = <<>>
    BY <1>1 DEF Control
  <2>2. accepted' = accepted
    BY <1>1, SealedKeeps
  <2>3. Loadable'
    BY DEF RunPhase
  <2>4. sealed'
    BY <2>3 DEF Loadable, Outcome
  <2>5. staged' = NoTransaction /\ work' = <<>>
    BY <2>4 DEF Control
  <2> QED BY <2>1, <2>2, <2>3, <2>5
<1>3. Readable'
  BY <1>2 DEF ManifestIsWhole, Loadable
<1>4. ASSUME NEW s \in Streams
      PROVE  /\ accepted[s] \o FactsAhead(s) = accepted[s]
             /\ accepted'[s] \o FactsAhead(s)' = accepted[s]
             /\ FactsOf(files'[s]) = accepted[s]
  <2>1. FactsAhead(s) = <<>> /\ FactsAhead(s)' = <<>>
    BY <1>2, FactsAheadIs, FactsInEmpty
  <2>2. accepted[s] \o <<>> = accepted[s]
    BY Joining DEF Types, DataTypes
  <2>3. FactsOf(files'[s]) = accepted[s]
    <3>1. files'[s] = [n \in DOMAIN accepted[s] |-> [sequence |-> n - 1, fact |-> accepted[s][n]]]
      BY <1>2, <1>3 DEF Readable
    <3>2. DOMAIN files'[s] = DOMAIN accepted[s]
      BY <3>1
    <3>3. \A n \in DOMAIN accepted[s] : files'[s][n].fact = accepted[s][n]
      BY <3>1
    <3>4. FactsOf(files'[s]) = [n \in DOMAIN accepted[s] |-> accepted[s][n]]
      BY <3>2, <3>3 DEF FactsOf
    <3>5. [n \in DOMAIN accepted[s] |-> accepted[s][n]] = accepted[s]
      BY DEF Types, DataTypes
    <3> QED BY <3>4, <3>5
  <2> QED BY <1>2, <2>1, <2>2, <2>3
<1>5. Recorded = [s \in Streams |-> accepted[s]] /\ Recorded' = [s \in Streams |-> accepted[s]]
  <2>1. Recorded = [s \in Streams |-> accepted[s] \o FactsAhead(s)]
    BY DEF Recorded
  <2>2. Recorded' = [s \in Streams |-> accepted'[s] \o FactsAhead(s)']
    BY DEF Recorded
  <2> QED BY <1>4, <2>1, <2>2, Zenon
<1>6. Shown' = [s \in Streams |-> accepted[s]]
  <2>1. Shown' = [s \in Streams |-> FactsOf(files'[s])]
    BY <1>2 DEF Shown, FactsOf
  <2> QED BY <1>4, <2>1, Zenon
<1>7. Held = NoTransaction /\ Held' = NoTransaction
  BY <1>2 DEF Held
<1>8. Shown' = Recorded /\ Recorded' = Recorded
  BY <1>5, <1>6, Zenon
<1> QED BY <1>7, <1>8 DEF Run!Complete, Recorded, Held, Shown

(* A run that can be loaded stays as it is.                                *)
LEMMA CompleteKept ==
  ASSUME Types, Control, Outcome, Control', Outcome', [Next]_vars,
         RunPhase = "complete", RunPhase' = "complete"
  PROVE  UNCHANGED <<RunPhase, Recorded, Held, Shown>>
<1>1. sealed /\ staged = NoTransaction /\ work = <<>>
  BY PhaseMeans
<1>2. Loadable /\ Loadable'
  BY DEF RunPhase
<1>3. sealed'
  BY <1>2 DEF Loadable, Outcome
<1>4. staged' = NoTransaction /\ work' = <<>>
  BY <1>3 DEF Control
<1>5. accepted' = accepted /\ files' = files
  BY <1>1, SealedKeeps
<1>6. \A s : FactsAhead(s)' = FactsAhead(s)
  BY <1>1, <1>4, FactsAheadIs
<1> QED BY <1>1, <1>2, <1>4, <1>5, <1>6 DEF Recorded, Held, Shown, FactsOf

(* A step after which the run can neither complete nor be loaded is Break. *)
LEMMA BreakingStep ==
  ASSUME RunPhase # "broken", RunPhase' = "broken"
  PROVE  Run!Break
<1>1. ~Loadable'
  BY DEF RunPhase
<1> QED BY <1>1 DEF Run!Break, Run!Nothing, Nothing

(* Nothing of a broken run can be seen, so nothing of it changes. *)
LEMMA BrokenKept ==
  ASSUME RunPhase = "broken", RunPhase' = "broken"
  PROVE  UNCHANGED <<RunPhase, Recorded, Held, Shown>>
<1>1. ~Loadable /\ ~Loadable'
  BY DEF RunPhase
<1> QED BY <1>1 DEF Recorded, Held, Shown, Nothing

(* Every step of the sink is a step of ArtifactRun or none. *)
LEMMA RunStep ==
  SinkInv /\ SinkInv' /\ ManifestIsWhole' /\ [Next]_vars => [Run!Next]_(Run!runVars)
<1> SUFFICES ASSUME SinkInv, SinkInv', ManifestIsWhole', [Next]_vars PROVE [Run!Next]_(Run!runVars)
  OBVIOUS
<1>1. Types /\ Types' /\ Control /\ Control' /\ Outcome /\ Outcome'
  BY DEF SinkInv
<1>2. Run!runVars = <<RunPhase, Recorded, Held, Shown>>
  BY DEF Run!runVars, Recorded, Held, Shown
<1>3. UNCHANGED <<RunPhase, Recorded, Held, Shown>> => UNCHANGED Run!runVars
  BY DEF Run!runVars, Recorded, Held, Shown
<1>4. RunPhase \in {"complete", "broken", "recording"} /\ RunPhase' \in {"complete", "broken", "recording"}
  BY DEF RunPhase
<1>5. CASE RunPhase = "broken"
  BY <1>1, <1>3, <1>5, PhaseStep, BrokenKept
<1>6. CASE RunPhase # "broken" /\ RunPhase' = "broken"
  BY <1>6, BreakingStep DEF Run!Next
<1>7. CASE RunPhase = "complete" /\ RunPhase' # "broken"
  BY <1>1, <1>3, <1>7, PhaseStep, CompleteKept
<1>8. CASE RunPhase = "recording" /\ RunPhase' = "complete"
  BY <1>1, <1>8, CompletingStep DEF Run!Next
<1>9. CASE RunPhase = "recording" /\ RunPhase' = "recording"
  <2>1. \/ \E s \in Streams, f \in 1..MaxFacts : Run!Record([stream |-> s, fact |-> f])
        \/ Run!Open \/ Run!CommitOrRollback
        \/ UNCHANGED <<RunPhase, Recorded, Held, Shown>>
    BY <1>1, <1>9, RecordingStep
  <2> QED BY <1>3, <2>1 DEF Run!Next
<1> QED BY <1>4, <1>5, <1>6, <1>7, <1>8, <1>9

(* A new sink is a run that has recorded nothing. *)
LEMMA RunInit == Init => Run!Init
<1> SUFFICES ASSUME Init PROVE Run!Init
  OBVIOUS
<1>1. RunPhase = "recording" /\ ~Loadable
  BY DEF Init, RunPhase, Loadable, Doomed, Aborting
<1>2. \A s \in Streams : accepted[s] \o FactsAhead(s) = <<>>
  <2>1. \A s : FactsAhead(s) = <<>>
    BY FactsAheadIs, FactsInEmpty DEF Init
  <2>2. <<>> \o <<>> = <<>>
    OBVIOUS
  <2> QED BY <2>1, <2>2, NothingTyped DEF Init
<1>3. Recorded = Nothing
  BY <1>1, <1>2 DEF Recorded, Nothing
<1>4. Held = NoTransaction /\ Shown = Nothing
  BY <1>1 DEF Held, Shown, Init
<1> QED BY <1>1, <1>3, <1>4 DEF Run!Init, Run!Nothing, Nothing, Recorded, Held, Shown

(* The sink records runs as ArtifactRun says: what can be loaded is all    *)
(* that was recorded, in order, or nothing.                                *)
THEOREM SinkRecordsRuns == Spec => RunRecorded
<1>1. SinkInv => ManifestIsWhole
  BY ManifestWhole DEF SinkInv
<1> QED BY <1>1, RunInit, RunStep, SinkInvariant, PTL DEF Spec, RunRecorded, Run!Spec

=============================================================================

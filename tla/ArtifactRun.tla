----------------------------- MODULE ArtifactRun -----------------------------
(***************************************************************************)
(* What a recorded run promises to whoever loads its directory: facts are  *)
(* recorded one by one or a transaction at a time, and what can be loaded  *)
(* is everything that was recorded, in order, or nothing.  ArtifactSink,   *)
(* with its buffers, queue and writer thread, implements this module       *)
(* (ArtifactSink!RunRecorded).                                             *)
(***************************************************************************)
EXTENDS Naturals, Sequences, SequencesExt

CONSTANTS
  Streams, Facts,
  NoTransaction    \* not a sequence of entries

VARIABLES
  phase,        \* "recording", "complete" or "broken"
  recorded,     \* the facts of each stream, while the run can still complete
  transaction,  \* entries of the open transaction
  loadable      \* what a loader obtains, Nothing unless the run is complete

runVars == <<phase, recorded, transaction, loadable>>

Nothing == [s \in Streams |-> <<>>]

FactsOf(entries, s) ==
  FlattenSeq([n \in DOMAIN entries |->
                IF entries[n].stream = s THEN <<entries[n].fact>> ELSE <<>>])

With(entries) == [s \in Streams |-> recorded[s] \o FactsOf(entries, s)]

Init ==
  /\ phase = "recording" /\ recorded = Nothing
  /\ transaction = NoTransaction /\ loadable = Nothing

(* Outside a transaction a fact is recorded at once, inside it is held.    *)
Record(entry) ==
  /\ phase = "recording"
  /\ IF transaction = NoTransaction
       THEN recorded' = With(<<entry>>) /\ UNCHANGED transaction
       ELSE transaction' = Append(transaction, entry) /\ UNCHANGED recorded
  /\ UNCHANGED <<phase, loadable>>

Open ==
  /\ phase = "recording" /\ transaction = NoTransaction
  /\ transaction' = <<>>
  /\ UNCHANGED <<phase, recorded, loadable>>

(* A transaction is recorded as one, or leaves nothing behind.             *)
CommitOrRollback ==
  /\ phase = "recording" /\ transaction # NoTransaction
  /\ recorded' \in {recorded, With(transaction)}
  /\ transaction' = NoTransaction
  /\ UNCHANGED <<phase, loadable>>

Complete ==
  /\ phase = "recording" /\ transaction = NoTransaction
  /\ phase' = "complete"
  /\ loadable' = recorded
  /\ UNCHANGED <<recorded, transaction>>

(* A run breaks at any time and never completes afterwards; a run that was *)
(* just completed is withdrawn when it does not read back.                 *)
Break ==
  /\ phase # "broken"
  /\ phase' = "broken"
  /\ recorded' = Nothing /\ transaction' = NoTransaction /\ loadable' = Nothing

Next ==
  \/ \E s \in Streams, f \in Facts : Record([stream |-> s, fact |-> f])
  \/ Open \/ CommitOrRollback \/ Complete \/ Break

Spec == Init /\ [][Next]_runVars
=============================================================================

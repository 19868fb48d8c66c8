--------------------------- MODULE MCArtifactSink ---------------------------
(* ArtifactSink with two streams and a queue that holds a single batch, so *)
(* that the producer waits for the writer in every kind of call.           *)
EXTENDS ArtifactSink
=============================================================================

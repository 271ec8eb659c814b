--------------------------- MODULE MC_FlushPipeline ---------------------------
(* Instances of FlushPipeline for TLC. *)
EXTENDS FlushPipeline

\* Blobs and a worker that dies, nobody else flushing; every caller, nothing uploaded.
BlobsOrCallers ==
    {[transport |-> TRUE, snaps |-> Snaps, callers |-> {}, deaths |-> 1]}
    \cup [transport : {FALSE}, snaps : {{CHOOSE s \in Snaps : TRUE}}, callers : {Callers}, deaths : {0}]
===============================================================================

---------------------------- MODULE MC_ScopeStack ----------------------------
(***************************************************************************)
(* Instances of ScopeStack for TLC.                                        *)
(***************************************************************************)
EXTENDS ScopeStack, TLC

CONSTANTS t1, t2, k1, k2

OneTid     == t1 :> k1                  \* a single thread
OwnTids    == t1 :> k1 @@ t2 :> k2      \* two threads alive at the same time
SharedTids == t1 :> k1 @@ t2 :> k1      \* the second recycles an identifier

\* Threads with identifiers of their own are alike.
ThreadSwap == t1 :> t2 @@ t2 :> t1 @@ k1 :> k2 @@ k2 :> k1

Symmetry == Permutations(Spans) \cup Permutations(Drainers) \cup {ThreadSwap}
==============================================================================

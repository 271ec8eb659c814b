---------------------------- MODULE MC_SpoolWriter ----------------------------
(***************************************************************************)
(* Instances of SpoolWriter for TLC.                                       *)
(***************************************************************************)
EXTENDS SpoolWriter, TLC

\* The first batch is as large as two others.
TwoThenOnes == [b \in Batches |-> IF b = 1 THEN 2 ELSE 1]

\* A rank alone, whose files may be held; two ranks, whose writes may stall.
AloneOrTwo ==
    [ranks : {{w} : w \in Ranks}, batches : {Batches}, held : {TRUE}, stalls : {FALSE}]
    \cup [ranks : {Ranks}, batches : {{1, 2, 3}}, held : {FALSE}, stalls : {TRUE}]

RankSymmetry == Permutations(Ranks)
==============================================================================

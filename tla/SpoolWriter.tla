------------------------------ MODULE SpoolWriter ------------------------------
(***************************************************************************)
(* SpoolWriter of core/flush.py: the spool directory, shared by the ranks  *)
(* of a run, and the pass by which each rank keeps it under its byte cap.  *)
(* A rank is a process; the threads of one rank exclude each other by its  *)
(* lock, ranks do not exclude each other at all.  The listing, the stats   *)
(* and every unlink and rename are steps of their own, so that another     *)
(* rank may come between them, and a rank may be killed there.             *)
(*                                                                         *)
(* A batch is a number, its place in the order of creation, which is what  *)
(* its file name sorts by; its file is unsealed (.json.tmp), then sealed   *)
(* (.json).                                                                *)
(***************************************************************************)
EXTENDS Naturals, FiniteSets, FiniteSetsExt

CONSTANTS Ranks,       \* processes that share the directory
          Batches,     \* bound: batch numbers, a set of naturals
          Size,        \* bytes of each batch's file
          MaxBytes,    \* max_bytes
          RescanEvery, \* SPOOL_RESCAN_EVERY_WRITES
          Setups,      \* the circumstances to explore, see below
          Kills,       \* bound: processes killed
          None

\* ranks: the processes that run; batches: bound on what they write; held: a file
\* operation may fail, held by a reader or the disk full; stalls: a live write may
\* outlast SPOOL_TMP_STALE_SEC.
Circumstances == [ranks : SUBSET Ranks, batches : SUBSET Batches,
                  held : BOOLEAN, stalls : BOOLEAN]

ASSUME SpoolAssumption ==
    /\ IsFiniteSet(Ranks) /\ Batches \subseteq Nat /\ IsFiniteSet(Batches)
    /\ Size \in [Batches -> Nat \ {0}]
    /\ MaxBytes \in Nat /\ RescanEvery \in Nat \ {0}
    /\ Setups \subseteq Circumstances /\ Kills \in Nat
    /\ None \notin Batches

VARIABLES
    setup,    \* the circumstances of this behaviour
    disk,     \* batch -> "none", "tmp", "sealed", "evicted" or "swept"
    stale,    \* unsealed files older than SPOOL_TMP_STALE_SEC
    stalled,  \* history: those that grew that old while they were being written
    rank,     \* per rank: its SpoolWriter and the call in progress
    counted,  \* history: drop_counts of the processes that were killed
    uncounted,\* history: evictions whose process was killed before it counted them
    kills     \* processes killed so far

vars == <<setup, disk, stale, stalled, rank, counted, uncounted, kills>>

\* The sum of a function over a set.
SumOver(h, set) == MapThenSumSet(LAMBDA x : h[x], set)

Bytes(set)  == SumOver(Size, set)
OnDisk      == {b \in Batches : disk[b] \in {"tmp", "sealed"}}
Unsealed    == {b \in Batches : disk[b] = "tmp"}
Sealed      == {b \in Batches : disk[b] = "sealed"}

\* One pass: what was listed, what the stats found, and the running numbers.  The
\* files that are listed are dealt with in the order of their names: least first.
NoPass == [tmps |-> {}, batches |-> {}, old |-> {}, total |-> 0, inFlight |-> 0,
           dropped |-> 0]

\* __init__ seeds the running total from the directory, and deletes nothing.
Fresh(bytes) == [pc |-> "idle", batch |-> None, total |-> bytes, writes |-> 0,
                 blocked |-> FALSE, drops |-> 0, pass |-> NoPass, exact |-> FALSE,
                 failed |-> FALSE]

Init == /\ setup \in Setups
        /\ disk = [b \in Batches |-> "none"]
        /\ stale = {} /\ stalled = {}
        /\ rank = [w \in Ranks |-> Fresh(0)]
        /\ counted = 0 /\ uncounted = 0 /\ kills = 0

-------------------------------------------------------------------------------
(* write *)

\* tmp.write_bytes(data)
WriteTmp(w) ==
    /\ rank[w].pc = "idle"
    /\ \E b \in setup.batches :
         /\ disk[b] = "none"
         /\ disk' = [disk EXCEPT ![b] = "tmp"]
         /\ rank' = [rank EXCEPT ![w].pc = "replace", ![w].batch = b, ![w].exact = FALSE,
                              ![w].failed = FALSE]
    /\ UNCHANGED <<stale, stalled, counted, uncounted, kills>>

\* The write or the rename raises (disk full, file held): the temp file stays.
WriteFails(w) ==
    /\ rank[w].pc = "replace" /\ setup.held
    /\ rank' = [rank EXCEPT ![w].pc = "idle", ![w].batch = None]
    /\ UNCHANGED <<disk, stale, stalled, counted, uncounted, kills>>

\* When a write is followed by a pass.
Due(total, writes, blocked) == (total > MaxBytes /\ ~ blocked) \/ writes >= RescanEvery

\* os.replace and the accounting.
Replace(w) ==
    /\ rank[w].pc = "replace" /\ disk[rank[w].batch] = "tmp"
    /\ LET b     == rank[w].batch
           r     == rank[w]
           total == r.total + Size[b]
       IN  /\ disk' = [disk EXCEPT ![b] = "sealed"]
           /\ stale' = stale \ {b}
           /\ rank' = [rank EXCEPT ![w].batch = None, ![w].writes = @ + 1,
                         ![w].total = total,
                         ![w].pc = IF Due(total, r.writes + 1, r.blocked)
                                   THEN "list" ELSE "idle"]
    /\ UNCHANGED <<stalled, counted, uncounted, kills>>

\* The temp file is gone: os.replace raises, and the batch with it.
ReplaceFails(w) ==
    /\ rank[w].pc = "replace" /\ disk[rank[w].batch] # "tmp"
    /\ rank' = [rank EXCEPT ![w].pc = "idle", ![w].batch = None]
    /\ UNCHANGED <<disk, stale, stalled, counted, uncounted, kills>>

\* enforce_cap, called from outside
EnforceCap(w) ==
    /\ rank[w].pc = "idle"
    /\ rank' = [rank EXCEPT ![w].pc = "list"]
    /\ UNCHANGED <<disk, stale, stalled, counted, uncounted, kills>>

-------------------------------------------------------------------------------
(* _enforce_cap_locked *)

\* The glob of _scan_locked.
List(w) ==
    /\ rank[w].pc = "list"
    /\ rank' = [rank EXCEPT ![w].pc = "stat", ![w].failed = FALSE,
                  ![w].pass = [NoPass EXCEPT !.tmps = Unsealed, !.batches = Sealed]]
    /\ UNCHANGED <<disk, stale, stalled, counted, uncounted, kills>>

\* Its stats: a name that is gone by now is passed over.  The cutoff of the sweep
\* that follows is taken from the same clock.
Stat(w) ==
    /\ rank[w].pc = "stat"
    /\ LET tmps    == rank[w].pass.tmps \cap Unsealed
           batches == rank[w].pass.batches \cap Sealed
       IN  rank' = [rank EXCEPT ![w].pc = "sweep",
             ![w].pass = [tmps |-> tmps, batches |-> batches, old |-> tmps \cap stale,
                          total |-> Bytes(tmps \cup batches),
                          inFlight |-> Bytes(tmps), dropped |-> 0]]
    /\ UNCHANGED <<disk, stale, stalled, counted, uncounted, kills>>

\* The next file of the sweep is dealt with; "bytes" come off the totals.
Swept(w, bytes) == [rank EXCEPT ![w].pass.tmps = @ \ {Min(@)}, ![w].pass.total = @ - bytes,
                                ![w].pass.inFlight = @ - bytes]

\* Faulty: takes any temp file for an orphan.
SweepOneAnyAge(w) ==
    /\ rank[w].pc = "sweep" /\ rank[w].pass.tmps # {}
    /\ LET b == Min(rank[w].pass.tmps) IN
         /\ rank' = Swept(w, IF disk[b] = "sealed" THEN 0 ELSE Size[b])
         /\ disk' = [disk EXCEPT ![b] = IF @ = "tmp" THEN "swept" ELSE @]
         /\ stale' = stale \ {b}
    /\ UNCHANGED <<stalled, counted, uncounted, kills>>

\* Faulty: deletes, and leaves the bytes on the total.
SweepOneUncredited(w) ==
    /\ rank[w].pc = "sweep" /\ rank[w].pass.tmps # {}
    /\ LET b == Min(rank[w].pass.tmps) IN
         /\ rank' = Swept(w, 0)
         /\ disk' = [disk EXCEPT ![b] = IF b \in rank[w].pass.old THEN "swept" ELSE @]
         /\ stale' = stale \ {b}
    /\ UNCHANGED <<stalled, counted, uncounted, kills>>

\* _sweep_stale_tmps_locked, one file: bytes come off the total if the file is
\* off the disk, and stay on it if the file was renamed or would not go.
SweepOne(w) ==
    /\ rank[w].pc = "sweep" /\ rank[w].pass.tmps # {}
    /\ LET b == Min(rank[w].pass.tmps) IN
         \/ /\ b \notin rank[w].pass.old
            /\ rank' = Swept(w, 0) /\ UNCHANGED <<disk, stale>>
         \/ /\ b \in rank[w].pass.old /\ disk[b] = "tmp"
            /\ rank' = Swept(w, Size[b])
            /\ disk' = [disk EXCEPT ![b] = "swept"]
            /\ stale' = stale \ {b}
         \/ /\ b \in rank[w].pass.old /\ disk[b] # "tmp"
            /\ rank' = Swept(w, IF disk[b] = "sealed" THEN 0 ELSE Size[b])
            /\ UNCHANGED <<disk, stale>>
         \/ /\ b \in rank[w].pass.old /\ disk[b] = "tmp" /\ setup.held
            /\ rank' = [Swept(w, 0) EXCEPT ![w].failed = TRUE]
            /\ UNCHANGED <<disk, stale>>
    /\ UNCHANGED <<stalled, counted, uncounted, kills>>

\* The end of a pass: the running total is what the pass derived.
Finished(w, blocked) ==
    [rank EXCEPT ![w].pc = "idle", ![w].total = rank[w].pass.total, ![w].writes = 0,
                 ![w].blocked = blocked, ![w].drops = @ + rank[w].pass.dropped,
                 ![w].pass = NoPass, ![w].exact = TRUE]

\* Temp files that fill the cap by themselves: evicting could not help.
Decide(w) ==
    /\ rank[w].pc = "sweep" /\ rank[w].pass.tmps = {}
    /\ rank' = IF rank[w].pass.inFlight >= MaxBytes THEN Finished(w, TRUE)
               ELSE [rank EXCEPT ![w].pc = "evict"]
    /\ UNCHANGED <<disk, stale, stalled, counted, uncounted, kills>>

\* Faulty: counts a batch that another rank evicted.
EvictOneCountsGone(w) ==
    /\ rank[w].pc = "evict" /\ rank[w].pass.batches # {} /\ rank[w].pass.total > MaxBytes
    /\ LET b == Min(rank[w].pass.batches) IN
         /\ rank' = [rank EXCEPT ![w].pass.batches = @ \ {b},
                                 ![w].pass.total = @ - Size[b],
                                 ![w].pass.dropped = @ + 1]
         /\ disk' = [disk EXCEPT ![b] = "evicted"]
    /\ UNCHANGED <<stale, stalled, counted, uncounted, kills>>

\* Faulty: takes the newest batch first.
EvictOneNewest(w) ==
    /\ rank[w].pc = "evict" /\ rank[w].pass.batches # {} /\ rank[w].pass.total > MaxBytes
    /\ LET b == Max(rank[w].pass.batches) IN
         /\ rank' = [rank EXCEPT ![w].pass.batches = @ \ {b},
                                 ![w].pass.total = @ - Size[b],
                                 ![w].pass.dropped = @ + 1]
         /\ disk' = [disk EXCEPT ![b] = "evicted"]
    /\ UNCHANGED <<stale, stalled, counted, uncounted, kills>>

\* Unlink the oldest batch that is left.  One that another rank evicted first is
\* not counted; one that would not go stays on the total.
EvictOne(w) ==
    /\ rank[w].pc = "evict" /\ rank[w].pass.batches # {} /\ rank[w].pass.total > MaxBytes
    /\ LET b == Min(rank[w].pass.batches)
           r == [rank EXCEPT ![w].pass.batches = @ \ {b}]
       IN  \/ /\ disk[b] = "sealed"
              /\ disk' = [disk EXCEPT ![b] = "evicted"]
              /\ rank' = [r EXCEPT ![w].pass.total = @ - Size[b],
                                   ![w].pass.dropped = @ + 1]
           \/ /\ disk[b] # "sealed"
              /\ rank' = [r EXCEPT ![w].pass.total = @ - Size[b]]
              /\ UNCHANGED disk
           \/ /\ disk[b] = "sealed" /\ setup.held
              /\ rank' = [r EXCEPT ![w].failed = TRUE]
              /\ UNCHANGED disk
    /\ UNCHANGED <<stale, stalled, counted, uncounted, kills>>

EvictDone(w) ==
    /\ rank[w].pc = "evict"
    /\ rank[w].pass.batches = {} \/ rank[w].pass.total <= MaxBytes
    /\ rank' = Finished(w, FALSE)
    /\ UNCHANGED <<disk, stale, stalled, counted, uncounted, kills>>

-------------------------------------------------------------------------------
(* The environment *)

InFlight(b) == \E w \in Ranks : rank[w].pc = "replace" /\ rank[w].batch = b

\* An unsealed file grows old: an orphan, or the file of a writer that stalls.
GrowOld(b) ==
    /\ disk[b] = "tmp" /\ b \notin stale /\ (setup.stalls \/ ~ InFlight(b))
    /\ stale' = stale \cup {b}
    /\ stalled' = IF InFlight(b) THEN stalled \cup {b} ELSE stalled
    /\ UNCHANGED <<disk, rank, counted, uncounted, kills>>

\* A process is killed, and another one starts in its place.
Kill(w) ==
    /\ kills < Kills
    /\ kills' = kills + 1
    /\ counted' = counted + rank[w].drops
    /\ uncounted' = uncounted + rank[w].pass.dropped
    /\ rank' = [rank EXCEPT ![w] = Fresh(Bytes(OnDisk))]
    /\ UNCHANGED <<disk, stale, stalled>>

RankStep(w) == \/ WriteTmp(w) \/ WriteFails(w) \/ Replace(w) \/ ReplaceFails(w)
               \/ EnforceCap(w) \/ List(w) \/ Stat(w) \/ SweepOne(w) \/ Decide(w)
               \/ EvictOne(w) \/ EvictDone(w)

Next == /\ \/ \E w \in setup.ranks : RankStep(w) \/ Kill(w)
           \/ \E b \in setup.batches : GrowOld(b)
        /\ UNCHANGED setup

Spec == Init /\ [][Next]_vars

-------------------------------------------------------------------------------
(* Properties *)

\* The variables hold what the writer's attributes and locals hold; no total ever
\* drops below zero, whatever the other ranks delete.
TypeOK ==
    /\ disk \in [Batches -> {"none", "tmp", "sealed", "evicted", "swept"}]
    /\ stale \subseteq Unsealed /\ stalled \subseteq Batches
    /\ \A w \in Ranks :
         /\ rank[w].pc \in {"idle", "replace", "list", "stat", "sweep", "evict"}
         /\ rank[w].batch \in Batches \cup {None}
         /\ rank[w].total \in Nat /\ rank[w].writes \in 0..RescanEvery
         /\ rank[w].blocked \in BOOLEAN /\ rank[w].drops \in Nat
         /\ rank[w].pass.total \in Nat /\ rank[w].pass.inFlight \in Nat
         /\ rank[w].pass.dropped \in Nat
         /\ rank[w].pass.batches \subseteq Batches /\ rank[w].pass.tmps \subseteq Batches

Alone == Cardinality(setup.ranks) = 1

\* What the processes that run have counted, or will when their pass ends.
DropsOf == [w \in Ranks |-> rank[w].drops + rank[w].pass.dropped]

\* No batch is lost silently: the batches that were sealed and are gone are those
\* that drop_count counts, each by one rank, although ranks evict the same files.
\* Only a process killed in the middle of a pass takes its count along.
EvictionsCountedOnce ==
    Cardinality({b \in Batches : disk[b] = "evicted"})
        = counted + uncounted + SumOver(DropsOf, Ranks)

\* The sweep never takes the temp file of a write in progress on another rank,
\* unless that write has stalled for longer than the staleness limit.
LiveTmpKept ==
    \A w \in Ranks : rank[w].pc = "replace" =>
        disk[rank[w].batch] = "tmp" \/ rank[w].batch \in stalled

\* A writer alone in its directory: total_bytes is "exact immediately after any
\* cap-enforcement pass", whatever was swept, evicted or would not go.
ExactAfterPass ==
    \A w \in setup.ranks : Alone /\ rank[w].pc = "idle" /\ rank[w].exact =>
        rank[w].total = Bytes(OnDisk)

\* A writer alone in its directory: after a pass the directory fits the cap, unless
\* the temp files fill it or a file would not go.
CapHolds ==
    \A w \in setup.ranks : Alone /\ rank[w].pc = "idle" /\ rank[w].exact =>
        \/ Bytes(OnDisk) <= MaxBytes
        \/ rank[w].failed
        \/ rank[w].blocked /\ Bytes(Unsealed) >= MaxBytes

\* A writer alone in its directory knows what is there, and keeps it below the cap.
CapKept == ExactAfterPass /\ CapHolds

\* While temp files block the cap, a pass runs only every RescanEvery writes: a
\* state that a pass "cannot fix must not re-scan the whole directory" each time.
BlockedScansSeldom ==
    [][\A w \in setup.ranks : rank[w].pc = "replace" /\ rank'[w].pc = "list" /\ rank[w].blocked
          => rank'[w].writes = RescanEvery]_vars

\* A writer alone in its directory evicts a batch only while the directory is over
\* its cap, and only when the older batches are gone or would not go.
Evicts(w) == Alone /\ rank'[w].pass.dropped > rank[w].pass.dropped
EvictsOldestAndNeeded ==
    [][\A w \in Ranks : Evicts(w) =>
         /\ Bytes(OnDisk) > MaxBytes
         /\ \/ rank[w].failed
            \/ \A b \in Batches : disk[b] = "sealed" /\ disk'[b] = "evicted" =>
                  \A a \in Sealed : a < b => disk'[a] = "evicted"]_vars

\* A batch is never dropped to make room for garbage: no temp file that was stale
\* when the pass began is left when it evicts, unless it would not go.
SweptBeforeEvicted ==
    [][\A w \in Ranks : Evicts(w) =>
          rank[w].failed \/ \A b \in rank[w].pass.old : disk[b] # "tmp"]_vars

\* A pass runs only when it may help, and evicts only what it must.
PassesJustified == EvictsOldestAndNeeded /\ SweptBeforeEvicted /\ BlockedScansSeldom
===============================================================================

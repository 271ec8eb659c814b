-------------------------- MODULE SpoolWriter_proofs --------------------------
(***************************************************************************)
(* The ranks of a run share one spool directory and evict from it without  *)
(* excluding each other: what they count, what they may delete, and what   *)
(* each of them believes is on the disk, for any ranks, batches, sizes,    *)
(* caps and kills.                                                         *)
(***************************************************************************)
EXTENDS SpoolWriter, FiniteSetTheorems, WellFoundedInduction, TLAPS

-------------------------------------------------------------------------------
(* Sums over finite sets.  The fold takes the elements in an order of its own;  *)
(* a sum does not depend on it.                                                *)

\* Of any family of finite sets some member has no proper part in the family.
LEMMA Smallest ==
  ASSUME NEW S, IsFiniteSet(S), NEW F, F \subseteq SUBSET S, F # {}
  PROVE  \E s \in F : \A t \in F : t \subseteq s => t = s
<1>1. F \subseteq FiniteSubsetsOf(S)
  <2>1. \A s \in SUBSET S : IsFiniteSet(s)
    BY FS_Subset
  <2> QED
    BY <2>1 DEF FiniteSubsetsOf
<1>2. PICK s \in F : \A t \in F : ~ (<<t, s>> \in StrictSubsetOrdering(S))
  <2>1. IsWellFoundedOn(StrictSubsetOrdering(S), FiniteSubsetsOf(S))
    BY FS_StrictSubsetOrderingWellFounded
  <2> QED
    BY <1>1, <2>1, WFMin
<1>3. ASSUME NEW t \in F, t \subseteq s
      PROVE  t = s
  BY <1>2, <1>3 DEF StrictSubsetOrdering
<1> QED
  BY <1>3

\* Of any set of naturals some element is the least, which is what Min takes.
LEMMA MinOf ==
  ASSUME NEW S, S \subseteq Nat, S # {}
  PROVE  Min(S) \in S /\ \A x \in S : Min(S) <= x
<1>1. PICK x \in S : \A y \in S : ~ (<<y, x>> \in OpToRel(<, Nat))
  BY NatLessThanWellFounded, WFMin
<1>2. ASSUME NEW y \in S
      PROVE  x <= y
  <2>1. x \in Nat /\ y \in Nat
    OBVIOUS
  <2>2. ~ (y < x)
    BY <1>1, <2>1 DEF OpToRel
  <2> QED
    BY <2>1, <2>2
<1> QED
  BY <1>2 DEF Min

Pick(s) == CHOOSE x \in s : TRUE

\* g sums h over every part of T.
Sums(h, g, T) ==
    g = [s \in SUBSET T |-> IF s = {} THEN 0 ELSE h[Pick(s)] + g[s \ {Pick(s)}]]

LEMMA Picked == \A s : s # {} => Pick(s) \in s
BY DEF Pick

LEMMA SumsAgree ==
  ASSUME NEW S, IsFiniteSet(S), NEW h, NEW T \in SUBSET S, NEW U \in SUBSET S,
         NEW g, Sums(h, g, T), NEW k, Sums(h, k, U)
  PROVE  \A s : s \subseteq T /\ s \subseteq U => g[s] = k[s]
<1> DEFINE F == {s \in SUBSET S : s \subseteq T /\ s \subseteq U /\ g[s] # k[s]}
<1>1. ASSUME F # {}
      PROVE  FALSE
  <2>1. PICK s \in F : \A t \in F : t \subseteq s => t = s
    <3>1. F \subseteq SUBSET S
      OBVIOUS
    <3> HIDE DEF F
    <3> QED
      BY <1>1, <3>1, Smallest
  <2>2. /\ g[s] = IF s = {} THEN 0 ELSE h[Pick(s)] + g[s \ {Pick(s)}]
        /\ k[s] = IF s = {} THEN 0 ELSE h[Pick(s)] + k[s \ {Pick(s)}]
    <3>1. s \in SUBSET T /\ s \in SUBSET U
      OBVIOUS
    <3> QED
      BY <3>1 DEF Sums
  <2>3. s # {}
    BY <2>2
  <2>4. s \ {Pick(s)} # s /\ s \ {Pick(s)} \subseteq s
    BY <2>3, Picked
  <2>5. s \ {Pick(s)} \notin F
    BY <2>1, <2>4
  <2>6. g[s \ {Pick(s)}] = k[s \ {Pick(s)}]
    BY <2>4, <2>5
  <2> QED
    BY <2>2, <2>6
<1> QED
  BY <1>1

LEMMA SumsExist ==
  ASSUME NEW S, IsFiniteSet(S), NEW h
  PROVE  \E g : Sums(h, g, S)
<1> DEFINE F == {T \in SUBSET S : ~ \E g : Sums(h, g, T)}
<1>1. ASSUME F # {}
      PROVE  FALSE
  <2>1. PICK T \in F : \A t \in F : t \subseteq T => t = T
    <3>1. F \subseteq SUBSET S
      OBVIOUS
    <3> HIDE DEF F
    <3> QED
      BY <1>1, <3>1, Smallest
  <2> DEFINE Of(u)  == CHOOSE g : Sums(h, g, u)
             Val(u) == Of(u)[u]
             f      == [s \in SUBSET T |-> IF s = {} THEN 0
                                           ELSE h[Pick(s)] + Val(s \ {Pick(s)})]
  <2>2. \A u : u \subseteq T /\ u # T => Sums(h, Of(u), u)
    BY <2>1
  <2>3. ASSUME NEW u, u \subseteq T, u # T
        PROVE  f[u] = Val(u)
    <3>1. Sums(h, Of(u), u)
      BY <2>2, <2>3
    <3> HIDE DEF Of
    <3>2. Val(u) = IF u = {} THEN 0 ELSE h[Pick(u)] + Of(u)[u \ {Pick(u)}]
      <4>1. u \in SUBSET u
        OBVIOUS
      <4> QED
        BY <3>1, <4>1 DEF Sums
    <3>3. f[u] = IF u = {} THEN 0 ELSE h[Pick(u)] + Val(u \ {Pick(u)})
      BY <2>3
    <3>4. ASSUME u # {}
          PROVE  Of(u)[u \ {Pick(u)}] = Val(u \ {Pick(u)})
      <4>1. PICK v : v = u \ {Pick(u)}
        OBVIOUS
      <4>2. v \subseteq T /\ v # T /\ v \subseteq u
        BY <2>3, <3>4, <4>1, Picked
      <4>3. Sums(h, Of(v), v)
        BY <2>2, <4>2
      <4>4. u \in SUBSET S /\ v \in SUBSET S
        BY <2>3, <4>2
      <4>5. Of(u)[v] = Of(v)[v]
        BY <3>1, <4>2, <4>3, <4>4, SumsAgree
      <4> QED
        BY <4>1, <4>5
    <3> QED
      BY <3>2, <3>3, <3>4
  <2>4. \A s \in SUBSET T : s # {} => Val(s \ {Pick(s)}) = f[s \ {Pick(s)}]
    <3> SUFFICES ASSUME NEW s \in SUBSET T, s # {}
                 PROVE  Val(s \ {Pick(s)}) = f[s \ {Pick(s)}]
      OBVIOUS
    <3>1. s \ {Pick(s)} \subseteq T /\ s \ {Pick(s)} # T
      BY Picked
    <3> HIDE DEF f, Val, Of
    <3> QED
      BY <2>3, <3>1
  <2>5. Sums(h, f, T)
    <3>1. f = [s \in SUBSET T |-> f[s]]
      OBVIOUS
    <3>2. \A s \in SUBSET T : f[s] = IF s = {} THEN 0 ELSE h[Pick(s)] + Val(s \ {Pick(s)})
      OBVIOUS
    <3> HIDE DEF f, Val, Of
    <3>3. \A s \in SUBSET T : f[s] = IF s = {} THEN 0 ELSE h[Pick(s)] + f[s \ {Pick(s)}]
      BY <2>4, <3>2
    <3> QED
      BY <3>1, <3>3 DEF Sums
  <2> QED
    BY <2>1, <2>5
<1> QED
  BY <1>1

LEMMA SumOverIs ==
  ASSUME NEW S, IsFiniteSet(S), NEW h
  PROVE  \E g : Sums(h, g, S) /\ SumOver(h, S) = g[S]
<1>1. PICK g : g = CHOOSE k : Sums(h, k, S)
  OBVIOUS
<1>2. Sums(h, g, S)
  BY <1>1, SumsExist
<1>3. SumOver(h, S) = g[S]
  BY <1>1 DEF SumOver, MapThenSumSet, MapThenFoldSet, Sums, Pick
<1> QED
  BY <1>2, <1>3

LEMMA SumOfNone == ASSUME NEW h PROVE SumOver(h, {}) = 0
<1>1. PICK g : Sums(h, g, {}) /\ SumOver(h, {}) = g[{}]
  BY FS_EmptySet, SumOverIs
<1> QED
  BY <1>1 DEF Sums

LEMMA SumPicks ==
  ASSUME NEW S, IsFiniteSet(S), S # {}, NEW h
  PROVE  SumOver(h, S) = h[Pick(S)] + SumOver(h, S \ {Pick(S)})
<1>1. PICK g : Sums(h, g, S) /\ SumOver(h, S) = g[S]
  BY SumOverIs
<1>2. PICK T : T = S \ {Pick(S)}
  OBVIOUS
<1>3. IsFiniteSet(T) /\ T \in SUBSET S
  BY <1>2, FS_Subset
<1>4. PICK k : Sums(h, k, T) /\ SumOver(h, T) = k[T]
  BY <1>3, SumOverIs
<1>5. g[T] = k[T]
  BY <1>1, <1>3, <1>4, SumsAgree
<1>6. g[S] = h[Pick(S)] + g[T]
  <2>1. S \in SUBSET S
    OBVIOUS
  <2> QED
    BY <1>1, <1>2, <2>1 DEF Sums
<1> QED
  BY <1>1, <1>2, <1>4, <1>5, <1>6

\* A sum of naturals is a natural.
LEMMA SumNat ==
  ASSUME NEW S, IsFiniteSet(S), NEW h, \A x \in S : h[x] \in Nat
  PROVE  SumOver(h, S) \in Nat
<1> DEFINE F == {s \in SUBSET S : SumOver(h, s) \notin Nat}
<1>1. ASSUME F # {}
      PROVE  FALSE
  <2>1. PICK s \in F : \A t \in F : t \subseteq s => t = s
    <3>1. F \subseteq SUBSET S
      OBVIOUS
    <3> HIDE DEF F
    <3> QED
      BY <1>1, <3>1, Smallest
  <2>2. s # {}
    BY SumOfNone
  <2>3. SumOver(h, s) = h[Pick(s)] + SumOver(h, s \ {Pick(s)})
    BY <2>2, FS_Subset, SumPicks
  <2>4. Pick(s) \in s /\ s \ {Pick(s)} # s /\ s \ {Pick(s)} \in SUBSET S
    BY <2>2, Picked
  <2>5. SumOver(h, s \ {Pick(s)}) \in Nat
    BY <2>1, <2>4
  <2> QED
    BY <2>1, <2>3, <2>4, <2>5
<1> QED
  BY <1>1

\* Any element may be taken first.
LEMMA SumTake ==
  ASSUME NEW S, IsFiniteSet(S), NEW h, \A x \in S : h[x] \in Nat, NEW a \in S
  PROVE  SumOver(h, S) = h[a] + SumOver(h, S \ {a})
<1> DEFINE F == {s \in SUBSET S : \E x \in s : SumOver(h, s) # h[x] + SumOver(h, s \ {x})}
<1>1. ASSUME F # {}
      PROVE  FALSE
  <2>1. PICK s \in F : \A t \in F : t \subseteq s => t = s
    <3>1. F \subseteq SUBSET S
      OBVIOUS
    <3> HIDE DEF F
    <3> QED
      BY <1>1, <3>1, Smallest
  <2>2. PICK b : b = Pick(s)
    OBVIOUS
  <2>3. PICK c \in s : SumOver(h, s) # h[c] + SumOver(h, s \ {c})
    OBVIOUS
  <2>4. b \in s /\ IsFiniteSet(s) /\ s \in SUBSET S
    BY <2>2, <2>3, Picked, FS_Subset
  <2>5. SumOver(h, s) = h[b] + SumOver(h, s \ {b})
    BY <2>2, <2>3, <2>4, SumPicks
  <2>6. c # b
    BY <2>3, <2>5
  <2>7. \A t : t \subseteq s /\ t # s => \A x \in t : SumOver(h, t) = h[x] + SumOver(h, t \ {x})
    BY <2>1, <2>4
  <2>8. SumOver(h, s \ {b}) = h[c] + SumOver(h, (s \ {b}) \ {c})
    BY <2>3, <2>4, <2>6, <2>7
  <2>9. SumOver(h, s \ {c}) = h[b] + SumOver(h, (s \ {c}) \ {b})
    BY <2>3, <2>4, <2>6, <2>7
  <2>10. PICK u : u = (s \ {b}) \ {c} /\ u = (s \ {c}) \ {b}
    OBVIOUS
  <2>11. SumOver(h, u) \in Nat /\ h[b] \in Nat /\ h[c] \in Nat
    <3>1. u \in SUBSET S
      BY <2>4, <2>10
    <3> QED
      BY <2>3, <2>4, <3>1, FS_Subset, SumNat
  <2> QED
    BY <2>3, <2>5, <2>8, <2>9, <2>10, <2>11
<1> HIDE DEF F
<1>2. F = {}
  BY <1>1
<1> QED
  BY <1>2 DEF F

\* The sum depends on the values at the elements alone.
LEMMA SumSame ==
  ASSUME NEW S, IsFiniteSet(S), NEW h, NEW k, \A x \in S : h[x] = k[x]
  PROVE  SumOver(h, S) = SumOver(k, S)
<1> DEFINE F == {s \in SUBSET S : SumOver(h, s) # SumOver(k, s)}
<1>1. ASSUME F # {}
      PROVE  FALSE
  <2>1. PICK s \in F : \A t \in F : t \subseteq s => t = s
    <3>1. F \subseteq SUBSET S
      OBVIOUS
    <3> HIDE DEF F
    <3> QED
      BY <1>1, <3>1, Smallest
  <2>2. s # {}
    BY SumOfNone
  <2>3. /\ SumOver(h, s) = h[Pick(s)] + SumOver(h, s \ {Pick(s)})
        /\ SumOver(k, s) = k[Pick(s)] + SumOver(k, s \ {Pick(s)})
    BY <2>2, FS_Subset, SumPicks
  <2>4. Pick(s) \in s /\ s \ {Pick(s)} # s /\ s \ {Pick(s)} \in SUBSET S
    BY <2>2, Picked
  <2>5. SumOver(h, s \ {Pick(s)}) = SumOver(k, s \ {Pick(s)})
    BY <2>1, <2>4
  <2> QED
    BY <2>3, <2>4, <2>5
<1> HIDE DEF F
<1>2. F = {}
  BY <1>1
<1> QED
  BY <1>2 DEF F

\* The sum over a part is no larger.
LEMMA SumPart ==
  ASSUME NEW S, IsFiniteSet(S), NEW h, \A x \in S : h[x] \in Nat, NEW T \in SUBSET S
  PROVE  SumOver(h, T) <= SumOver(h, S)
<1> DEFINE F == {s \in SUBSET S : T \subseteq s /\ ~ (SumOver(h, T) <= SumOver(h, s))}
<1>1. ASSUME F # {}
      PROVE  FALSE
  <2>1. PICK s \in F : \A t \in F : t \subseteq s => t = s
    <3>1. F \subseteq SUBSET S
      OBVIOUS
    <3> HIDE DEF F
    <3> QED
      BY <1>1, <3>1, Smallest
  <2>2. \A u \in SUBSET S : IsFiniteSet(u) /\ SumOver(h, u) \in Nat
    BY FS_Subset, SumNat
  <2>3. s # T
    BY <2>2
  <2>4. PICK a \in s : a \notin T
    BY <2>3
  <2>5. SumOver(h, s) = h[a] + SumOver(h, s \ {a})
    BY <2>2, SumTake
  <2>6. s \ {a} # s /\ s \ {a} \in SUBSET S /\ T \subseteq s \ {a}
    BY <2>4
  <2>7. SumOver(h, T) <= SumOver(h, s \ {a})
    BY <2>1, <2>6
  <2>8. h[a] \in Nat /\ a \in S
    OBVIOUS
  <2> QED
    BY <2>2, <2>5, <2>6, <2>7, <2>8
<1> HIDE DEF F
<1>2. F = {}
  BY <1>1
<1> QED
  BY <1>2 DEF F

\* A change at one element changes the sum by as much.
LEMMA SumChange ==
  ASSUME NEW S, IsFiniteSet(S), NEW h, NEW k, NEW a \in S,
         \A x \in S : h[x] \in Nat /\ k[x] \in Nat,
         \A x \in S : x # a => k[x] = h[x]
  PROVE  SumOver(k, S) = SumOver(h, S) - h[a] + k[a]
<1>1. IsFiniteSet(S \ {a})
  BY FS_Subset
<1>2. SumOver(h, S \ {a}) \in Nat
  BY <1>1, SumNat
<1>3. SumOver(h, S) = h[a] + SumOver(h, S \ {a}) /\ SumOver(k, S) = k[a] + SumOver(k, S \ {a})
  BY SumTake
<1>4. SumOver(h, S \ {a}) = SumOver(k, S \ {a})
  BY <1>1, SumSame
<1>5. h[a] \in Nat /\ k[a] \in Nat
  OBVIOUS
<1> QED
  BY <1>2, <1>3, <1>4, <1>5

-------------------------------------------------------------------------------
(* The inductive invariant                                                     *)

Pcs    == {"idle", "replace", "list", "stat", "sweep", "evict"}
Pass   == [tmps : SUBSET Batches, batches : SUBSET Batches, old : SUBSET Batches,
           total : Nat, inFlight : Nat, dropped : Nat]
Writer == [pc : Pcs, batch : Batches \cup {None}, total : Nat, writes : 0..RescanEvery,
           blocked : BOOLEAN, drops : Nat, pass : Pass, exact : BOOLEAN, failed : BOOLEAN]

SpoolType ==
    /\ setup \in Setups
    /\ disk \in [Batches -> {"none", "tmp", "sealed", "evicted", "swept"}]
    /\ stale \subseteq Unsealed /\ stalled \subseteq Batches
    /\ rank \in [Ranks -> Writer]
    /\ counted \in Nat /\ uncounted \in Nat

\* A write in progress: its file is there unless the write stalled.
WriteOk(w) ==
    /\ rank[w].pc = "replace" =>
         /\ rank[w].batch \in Batches /\ disk[rank[w].batch] # "none"
         /\ disk[rank[w].batch] = "tmp" \/ rank[w].batch \in stalled
         /\ ~ rank[w].exact
    /\ rank[w].pc \in {"idle", "replace"} => rank[w].writes < RescanEvery

\* A pass in progress: what is still to be dealt with is on its totals, and a file
\* that was stale when it began is stale now if it is there.
PassOk(w) ==
    LET r == rank[w]
        p == rank[w].pass
    IN  /\ r.pc # "evict" => p.dropped = 0
        /\ \A b \in p.old : disk[b] # "none" /\ (disk[b] = "tmp" => b \in stale)
        /\ r.pc = "sweep" =>
             /\ p.tmps \cap p.batches = {}
             /\ p.total >= Bytes(p.tmps \cup p.batches) /\ p.inFlight >= Bytes(p.tmps)
             /\ r.failed \/ \A b \in p.old : disk[b] = "tmp" => b \in p.tmps
        /\ r.pc = "evict" =>
             /\ p.total >= Bytes(p.batches)
             /\ r.failed \/ \A b \in p.old : disk[b] # "tmp"

\* Two writes in progress are of two batches, and one whose file is old has stalled.
WritesApart ==
    /\ \A w, v \in Ranks : /\ rank[w].pc = "replace" /\ rank[v].pc = "replace"
                           /\ rank[w].batch = rank[v].batch
                           => w = v
    /\ \A w \in Ranks : rank[w].pc = "replace" /\ rank[w].batch \in stale
                           => rank[w].batch \in stalled

SpoolInv == SpoolType /\ WritesApart /\ \A w \in Ranks : WriteOk(w) /\ PassOk(w)

\* A rank that is alone: a pass knows the directory, and between passes the rank does.
AlonePass(w) ==
    LET r == rank[w]
        p == rank[w].pass
    IN  /\ r.pc = "stat" => p.tmps = Unsealed /\ p.batches = Sealed
        /\ r.pc = "sweep" => p.tmps \subseteq Unsealed /\ p.batches = Sealed
        /\ r.pc = "evict" =>
             /\ p.batches \subseteq Sealed /\ (r.failed \/ p.batches = Sealed)
             /\ p.inFlight < MaxBytes
        /\ r.pc \in {"sweep", "evict"} =>
             p.total = Bytes(OnDisk) /\ p.inFlight = Bytes(Unsealed)

AloneIdle(w) ==
    rank[w].pc = "idle" /\ rank[w].exact =>
        /\ rank[w].total = Bytes(OnDisk)
        /\ \/ Bytes(OnDisk) <= MaxBytes
           \/ rank[w].failed
           \/ rank[w].blocked /\ Bytes(Unsealed) >= MaxBytes

AloneOk == Alone => \A w \in setup.ranks : AlonePass(w) /\ AloneIdle(w)

-------------------------------------------------------------------------------
(* Bytes                                                                       *)

LEMMA BytesNat == ASSUME NEW S \in SUBSET Batches PROVE Bytes(S) \in Nat /\ IsFiniteSet(S)
<1>1. IsFiniteSet(S)
  BY FS_Subset, SpoolAssumption
<1>2. \A b \in S : Size[b] \in Nat
  BY SpoolAssumption
<1> QED
  BY <1>1, <1>2, SumNat DEF Bytes

LEMMA BytesTake ==
  ASSUME NEW S \in SUBSET Batches, NEW b \in S
  PROVE  Bytes(S) = Size[b] + Bytes(S \ {b}) /\ Size[b] \in Nat
<1>1. IsFiniteSet(S)
  BY BytesNat
<1>2. \A a \in S : Size[a] \in Nat
  BY SpoolAssumption
<1> QED
  BY <1>1, <1>2, SumTake DEF Bytes

LEMMA BytesPart ==
  ASSUME NEW S \in SUBSET Batches, NEW T \in SUBSET S
  PROVE  Bytes(T) <= Bytes(S)
<1>1. IsFiniteSet(S)
  BY BytesNat
<1>2. \A a \in S : Size[a] \in Nat
  BY SpoolAssumption
<1> QED
  BY <1>1, <1>2, SumPart DEF Bytes

LEMMA MinBatch ==
  ASSUME NEW S \in SUBSET Batches, S # {}
  PROVE  Min(S) \in S /\ \A b \in S : Min(S) <= b
BY MinOf, SpoolAssumption

-------------------------------------------------------------------------------
(* What a step leaves alone                                                    *)

\* The steps of other ranks, as far as a rank can tell.
LEMMA OthersKept ==
  ASSUME SpoolInv, NEW v \in Ranks, rank'[v] = rank[v],
         \A b \in Batches : disk[b] # "none" =>
             disk'[b] # "none" /\ (disk'[b] = "tmp" => disk[b] = "tmp"),
         \A b \in Batches : b \in stale /\ disk'[b] = "tmp" => b \in stale',
         stalled \subseteq stalled',
         rank[v].pc = "replace" =>
             disk'[rank[v].batch] = "tmp" \/ rank[v].batch \in stalled'
  PROVE  WriteOk(v)' /\ PassOk(v)'
<1>1. WriteOk(v) /\ PassOk(v) /\ rank[v] \in Writer
  BY DEF SpoolInv, SpoolType
<1>2. WriteOk(v)'
  BY <1>1 DEF WriteOk
<1>3. PassOk(v)'
  <2>1. rank[v].pass.old \subseteq Batches /\ rank[v].pass.tmps \subseteq Batches
    BY <1>1 DEF Writer, Pass
  <2>2. \A b \in rank[v].pass.old : /\ disk'[b] # "none"
                                    /\ disk'[b] = "tmp" => disk[b] = "tmp" /\ b \in stale'
    BY <1>1, <2>1 DEF PassOk
  <2> QED
    BY <1>1, <2>2 DEF PassOk
<1> QED
  BY <1>2, <1>3

\* Writes stay apart while none begins and no file grows old.
LEMMA ApartKept ==
  ASSUME WritesApart, stale' \subseteq stale, stalled' = stalled,
         \A v \in Ranks : rank'[v].pc = "replace" =>
             rank[v].pc = "replace" /\ rank'[v].batch = rank[v].batch
  PROVE  WritesApart'
BY DEF WritesApart

\* A step of w that changes nothing but its own record, and neither begins a write nor
\* touches a batch.
LEMMA OwnStep ==
  ASSUME SpoolInv, NEW w \in Ranks, NEW r \in Writer, rank' = [rank EXCEPT ![w] = r],
         r.pc # "replace", UNCHANGED <<setup, disk, stale, stalled>>,
         counted' \in Nat, uncounted' \in Nat,
         r.pc = "idle" => r.writes < RescanEvery,
         PassOk(w)'
  PROVE  SpoolInv'
<1>1. /\ rank \in [Ranks -> Writer] /\ rank' \in [Ranks -> Writer] /\ rank'[w] = r
      /\ \A v \in Ranks : v # w => rank'[v] = rank[v]
  BY DEF SpoolInv, SpoolType
<1>2. SpoolType'
  BY <1>1 DEF SpoolInv, SpoolType, Unsealed
<1>3. WritesApart'
  BY <1>1, ApartKept DEF SpoolInv
<1>4. WriteOk(w)'
  BY <1>1 DEF WriteOk
<1>5. ASSUME NEW v \in Ranks, v # w
      PROVE  WriteOk(v)' /\ PassOk(v)'
  <2>1. rank[v].pc = "replace" => disk[rank[v].batch] = "tmp" \/ rank[v].batch \in stalled
    BY DEF SpoolInv, WriteOk
  <2> QED
    BY <1>1, <1>5, <2>1, OthersKept
<1> QED
  BY <1>2, <1>3, <1>4, <1>5 DEF SpoolInv

LEMMA TypedWriter ==
  ASSUME SpoolType, NEW w \in Ranks
  PROVE  /\ rank[w] \in Writer /\ rank[w].pass \in Pass
         /\ rank[w].pass.tmps \subseteq Batches /\ rank[w].pass.batches \subseteq Batches
         /\ rank[w].pass.old \subseteq Batches
         /\ rank[w].pass.total \in Nat /\ rank[w].pass.inFlight \in Nat
         /\ rank[w].pass.dropped \in Nat /\ rank[w].drops \in Nat
BY DEF SpoolType, Writer, Pass

LEMMA NoPassTyped == NoPass \in Pass
BY DEF NoPass, Pass

LEMMA FreshTyped == ASSUME NEW n \in Nat PROVE Fresh(n) \in Writer
BY NoPassTyped, SpoolAssumption DEF Fresh, Writer, Pcs

LEMMA InitSpool == Init => SpoolInv
<1> SUFFICES ASSUME Init PROVE SpoolInv
  OBVIOUS
<1>1. Fresh(0) \in Writer
  BY FreshTyped
<1>2. SpoolType
  BY <1>1 DEF Init, SpoolType, Unsealed
<1>3. \A w \in Ranks : rank[w] = Fresh(0)
  BY DEF Init
<1>4. WritesApart
  BY <1>3 DEF WritesApart, Fresh
<1>5. \A w \in Ranks : WriteOk(w) /\ PassOk(w)
  BY <1>3, SpoolAssumption DEF WriteOk, PassOk, Fresh, NoPass
<1> QED
  BY <1>2, <1>4, <1>5 DEF SpoolInv

-------------------------------------------------------------------------------
(* Each step                                                                   *)

\* A write in progress ends, without its batch.
LEMMA GivesUp ==
  ASSUME SpoolInv, NEW w \in Ranks, rank[w].pc = "replace",
         rank' = [rank EXCEPT ![w].pc = "idle", ![w].batch = None],
         UNCHANGED <<setup, disk, stale, stalled, counted, uncounted>>
  PROVE  SpoolInv'
<1>1. PICK r : r = [rank[w] EXCEPT !.pc = "idle", !.batch = None]
  OBVIOUS
<1>2. rank[w] \in Writer /\ WriteOk(w) /\ PassOk(w) /\ counted \in Nat /\ uncounted \in Nat
  BY TypedWriter DEF SpoolInv, SpoolType
<1>3. /\ r \in Writer /\ r.pc = "idle" /\ r.writes = rank[w].writes /\ r.pass = rank[w].pass
      /\ r.failed = rank[w].failed
  BY <1>1, <1>2 DEF Writer, Pcs
<1>4. rank' = [rank EXCEPT ![w] = r] /\ rank'[w] = r
  BY <1>1 DEF SpoolInv, SpoolType
<1>5. PassOk(w)'
  BY <1>2, <1>3, <1>4 DEF PassOk
<1>6. r.writes < RescanEvery
  BY <1>2, <1>3 DEF WriteOk
<1> QED
  BY <1>2, <1>3, <1>4, <1>5, <1>6, OwnStep

LEMMA EnforceCapSpool ==
  ASSUME SpoolInv, NEW w \in Ranks, EnforceCap(w), setup' = setup PROVE SpoolInv'
<1>1. PICK r : r = [rank[w] EXCEPT !.pc = "list"]
  OBVIOUS
<1>2. rank[w] \in Writer /\ WriteOk(w) /\ PassOk(w) /\ counted \in Nat /\ uncounted \in Nat
  BY TypedWriter DEF SpoolInv, SpoolType
<1>3. r \in Writer /\ r.pc = "list" /\ r.pass = rank[w].pass /\ r.failed = rank[w].failed
  BY <1>1, <1>2 DEF Writer, Pcs
<1>4. rank' = [rank EXCEPT ![w] = r] /\ rank'[w] = r
  BY <1>1 DEF SpoolInv, SpoolType, EnforceCap
<1>5. PassOk(w)'
  BY <1>2, <1>3, <1>4 DEF PassOk, EnforceCap
<1> QED
  BY <1>2, <1>3, <1>4, <1>5, OwnStep DEF EnforceCap

LEMMA ListSpool ==
  ASSUME SpoolInv, NEW w \in Ranks, List(w), setup' = setup PROVE SpoolInv'
<1>1. PICK p : p = [NoPass EXCEPT !.tmps = Unsealed, !.batches = Sealed]
  OBVIOUS
<1>2. p \in Pass /\ p.dropped = 0 /\ p.old = {}
  BY <1>1 DEF NoPass, Pass, Unsealed, Sealed
<1>3. PICK r : r = [rank[w] EXCEPT !.pc = "stat", !.failed = FALSE, !.pass = p]
  OBVIOUS
<1>4. rank[w] \in Writer /\ counted \in Nat /\ uncounted \in Nat
  BY TypedWriter DEF SpoolInv, SpoolType
<1>5. r \in Writer /\ r.pc = "stat" /\ r.pass = p
  BY <1>2, <1>3, <1>4 DEF Writer, Pcs
<1>6. rank' = [rank EXCEPT ![w] = r] /\ rank'[w] = r
  BY <1>1, <1>3 DEF SpoolInv, SpoolType, List
<1>7. PassOk(w)'
  BY <1>2, <1>5, <1>6 DEF PassOk
<1> QED
  BY <1>4, <1>5, <1>6, <1>7, OwnStep DEF List

LEMMA StatSpool ==
  ASSUME SpoolInv, NEW w \in Ranks, Stat(w), setup' = setup PROVE SpoolInv'
<1>1. PICK tmps : tmps = rank[w].pass.tmps \cap Unsealed
  OBVIOUS
<1>2. PICK batches : batches = rank[w].pass.batches \cap Sealed
  OBVIOUS
<1>3. tmps \subseteq Batches /\ batches \subseteq Batches /\ tmps \cap batches = {}
  BY <1>1, <1>2 DEF Unsealed, Sealed
<1>4. PICK p : p = [tmps |-> tmps, batches |-> batches, old |-> tmps \cap stale,
                    total |-> Bytes(tmps \cup batches), inFlight |-> Bytes(tmps),
                    dropped |-> 0]
  OBVIOUS
<1>5. Bytes(tmps \cup batches) \in Nat /\ Bytes(tmps) \in Nat
  BY <1>3, BytesNat
<1>6. p \in Pass
  BY <1>3, <1>4, <1>5 DEF Pass
<1>7. PICK r : r = [rank[w] EXCEPT !.pc = "sweep", !.pass = p]
  OBVIOUS
<1>8. rank[w] \in Writer /\ counted \in Nat /\ uncounted \in Nat
  BY TypedWriter DEF SpoolInv, SpoolType
<1>9. r \in Writer /\ r.pc = "sweep" /\ r.pass = p
  BY <1>6, <1>7, <1>8 DEF Writer, Pcs
<1>10. rank' = [rank EXCEPT ![w] = r] /\ rank'[w] = r
  BY <1>1, <1>2, <1>4, <1>7 DEF SpoolInv, SpoolType, Stat
<1>11. UNCHANGED <<disk, stale, stalled, counted, uncounted>>
  BY DEF Stat
<1>12. \A b \in tmps : disk[b] = "tmp"
  BY <1>1 DEF Unsealed
<1>13. PassOk(w)'
  <2>1. /\ p.tmps = tmps /\ p.batches = batches /\ p.dropped = 0
        /\ p.total = Bytes(tmps \cup batches) /\ p.inFlight = Bytes(tmps)
        /\ p.old = tmps \cap stale
    BY <1>4
  <2>2. \A b \in p.old : b \in tmps /\ b \in stale' /\ disk'[b] = "tmp"
    BY <1>11, <1>12, <2>1
  <2>3. rank'[w].pc = "sweep" /\ rank'[w].pass = p
    BY <1>9, <1>10
  <2>4. p.total >= Bytes(p.tmps \cup p.batches) /\ p.inFlight >= Bytes(p.tmps)
    BY <1>5, <2>1
  <2> QED
    BY <1>3, <2>1, <2>2, <2>3, <2>4 DEF PassOk
<1> QED
  BY <1>8, <1>9, <1>10, <1>11, <1>13, OwnStep

LEMMA FinishedSpool ==
  ASSUME SpoolInv, NEW w \in Ranks, NEW blocked \in BOOLEAN, rank' = Finished(w, blocked),
         UNCHANGED <<setup, disk, stale, stalled, counted, uncounted>>
  PROVE  SpoolInv'
<1>1. PICK r : r = [rank[w] EXCEPT !.pc = "idle", !.total = rank[w].pass.total, !.writes = 0,
                      !.blocked = blocked, !.drops = rank[w].drops + rank[w].pass.dropped,
                      !.pass = NoPass, !.exact = TRUE]
  OBVIOUS
<1>2. rank[w] \in Writer /\ counted \in Nat /\ uncounted \in Nat
  BY TypedWriter DEF SpoolInv, SpoolType
<1>3. rank[w].pass.total \in Nat /\ rank[w].drops + rank[w].pass.dropped \in Nat
  BY TypedWriter DEF SpoolInv
<1>4. 0 < RescanEvery /\ 0 \in 0..RescanEvery
  BY SpoolAssumption
<1>8. PICK drops : drops = rank[w].drops + rank[w].pass.dropped
  OBVIOUS
<1>9. r = [rank[w] EXCEPT !.pc = "idle", !.total = rank[w].pass.total, !.writes = 0,
             !.blocked = blocked, !.drops = drops, !.pass = NoPass, !.exact = TRUE]
  BY <1>1, <1>8
<1>10. drops \in Nat
  BY <1>3, <1>8
<1>5. r \in Writer /\ r.pc = "idle" /\ r.pass = NoPass /\ r.writes = 0
  BY <1>2, <1>3, <1>4, <1>9, <1>10, NoPassTyped DEF Writer, Pcs
<1>6. rank' = [rank EXCEPT ![w] = r] /\ rank'[w] = r
  BY <1>1 DEF SpoolInv, SpoolType, Finished
<1>7. PassOk(w)'
  BY <1>5, <1>6 DEF PassOk, NoPass
<1> QED
  BY <1>2, <1>4, <1>5, <1>6, <1>7, OwnStep

LEMMA EvictDoneSpool ==
  ASSUME SpoolInv, NEW w \in Ranks, EvictDone(w), setup' = setup PROVE SpoolInv'
BY FinishedSpool DEF EvictDone

LEMMA DecideSpool ==
  ASSUME SpoolInv, NEW w \in Ranks, Decide(w), setup' = setup PROVE SpoolInv'
<1>1. UNCHANGED <<setup, disk, stale, stalled, counted, uncounted>>
  BY DEF Decide
<1>2. CASE rank[w].pass.inFlight >= MaxBytes
  <2>1. rank' = Finished(w, TRUE)
    BY <1>2 DEF Decide
  <2> QED
    BY <1>1, <2>1, FinishedSpool
<1>3. CASE ~ (rank[w].pass.inFlight >= MaxBytes)
  <2>1. PICK r : r = [rank[w] EXCEPT !.pc = "evict"]
    OBVIOUS
  <2>2. rank[w] \in Writer /\ PassOk(w) /\ counted \in Nat /\ uncounted \in Nat
    BY TypedWriter DEF SpoolInv, SpoolType
  <2>3. r \in Writer /\ r.pc = "evict" /\ r.pass = rank[w].pass /\ r.failed = rank[w].failed
    BY <2>1, <2>2 DEF Writer, Pcs
  <2>4. rank' = [rank EXCEPT ![w] = r] /\ rank'[w] = r
    BY <1>3, <2>1 DEF SpoolInv, SpoolType, Decide
  <2>5. rank[w].pc = "sweep" /\ rank[w].pass.tmps = {}
    BY DEF Decide
  <2>6. {} \cup rank[w].pass.batches = rank[w].pass.batches
    OBVIOUS
  <2>7. PassOk(w)'
    BY <1>1, <2>2, <2>3, <2>4, <2>5, <2>6 DEF PassOk
  <2> QED
    BY <1>1, <2>2, <2>3, <2>4, <2>7, OwnStep
<1> QED
  BY <1>2, <1>3

\* A step of w that changes its record and one file at most.
LEMMA FileStep ==
  ASSUME SpoolInv, NEW w \in Ranks, NEW r \in Writer, rank' = [rank EXCEPT ![w] = r],
         UNCHANGED <<setup, stalled, counted, uncounted>>,
         disk' \in [Batches -> {"none", "tmp", "sealed", "evicted", "swept"}],
         stale' \subseteq Unsealed', stale' \subseteq stale,
         \A b \in Batches : disk[b] # "none" =>
             disk'[b] # "none" /\ (disk'[b] = "tmp" => disk[b] = "tmp"),
         \A b \in Batches : b \in stale /\ disk'[b] = "tmp" => b \in stale',
         \A v \in Ranks : v # w /\ rank[v].pc = "replace" =>
             disk'[rank[v].batch] = "tmp" \/ rank[v].batch \in stalled,
         WritesApart', WriteOk(w)', PassOk(w)'
  PROVE  SpoolInv'
<1>1. /\ rank \in [Ranks -> Writer] /\ rank' \in [Ranks -> Writer]
      /\ \A v \in Ranks : v # w => rank'[v] = rank[v]
  BY DEF SpoolInv, SpoolType
<1>2. SpoolType'
  BY <1>1 DEF SpoolInv, SpoolType
<1>3. ASSUME NEW v \in Ranks, v # w
      PROVE  WriteOk(v)' /\ PassOk(v)'
  BY <1>1, <1>3, OthersKept
<1> QED
  BY <1>2, <1>3 DEF SpoolInv

LEMMA WriteTmpSpool ==
  ASSUME SpoolInv, NEW w \in Ranks, WriteTmp(w), setup' = setup PROVE SpoolInv'
<1>1. PICK b \in setup.batches :
         /\ disk[b] = "none" /\ disk' = [disk EXCEPT ![b] = "tmp"]
         /\ rank' = [rank EXCEPT ![w].pc = "replace", ![w].batch = b, ![w].exact = FALSE,
                              ![w].failed = FALSE]
  BY DEF WriteTmp
<1>2. b \in Batches
  BY SpoolAssumption DEF SpoolInv, SpoolType, Circumstances
<1>3. PICK r : r = [rank[w] EXCEPT !.pc = "replace", !.batch = b, !.exact = FALSE,
                                   !.failed = FALSE]
  OBVIOUS
<1>4. rank[w] \in Writer /\ WriteOk(w) /\ PassOk(w) /\ rank[w].pc = "idle"
  BY TypedWriter DEF SpoolInv, WriteTmp
<1>5. /\ r \in Writer /\ r.pc = "replace" /\ r.batch = b /\ r.exact = FALSE
      /\ r.writes = rank[w].writes /\ r.pass = rank[w].pass
  BY <1>2, <1>3, <1>4 DEF Writer, Pcs
<1>6. rank' = [rank EXCEPT ![w] = r] /\ rank'[w] = r
      /\ \A v \in Ranks : v # w => rank'[v] = rank[v]
  BY <1>1, <1>3 DEF SpoolInv, SpoolType
<1>7. /\ disk' \in [Batches -> {"none", "tmp", "sealed", "evicted", "swept"}]
      /\ disk'[b] = "tmp" /\ \A a \in Batches : a # b => disk'[a] = disk[a]
  BY <1>1, <1>2 DEF SpoolInv, SpoolType
<1>8. UNCHANGED <<setup, stale, stalled, counted, uncounted>>
  BY DEF WriteTmp
<1>9. stale \subseteq Unsealed /\ b \notin stale /\ stale' \subseteq Unsealed'
  BY <1>1, <1>7, <1>8 DEF SpoolInv, SpoolType, Unsealed
<1>10. \A v \in Ranks : v # w /\ rank[v].pc = "replace" =>
          rank[v].batch \in Batches /\ rank[v].batch # b
          /\ (disk[rank[v].batch] = "tmp" \/ rank[v].batch \in stalled)
  BY <1>1 DEF SpoolInv, WriteOk
<1>11. WritesApart'
  <2>1. \A v \in Ranks : rank'[v].pc = "replace" =>
            \/ v = w /\ rank'[v].batch = b
            \/ /\ v # w /\ rank'[v].batch = rank[v].batch
               /\ rank[v].pc = "replace" /\ rank[v].batch # b
    BY <1>5, <1>6, <1>10
  <2>2. WritesApart
    BY DEF SpoolInv
  <2> QED
    BY <1>8, <1>9, <2>1, <2>2 DEF WritesApart
<1>12. WriteOk(w)'
  BY <1>2, <1>4, <1>5, <1>6, <1>7 DEF WriteOk
<1>13. PassOk(w)'
  <2>1. rank[w].pass.old \subseteq Batches
    BY TypedWriter DEF SpoolInv
  <2>2. \A a \in rank[w].pass.old : disk[a] # "none" /\ disk'[a] = disk[a]
    BY <1>1, <1>4, <1>7, <2>1 DEF PassOk
  <2> QED
    BY <1>4, <1>5, <1>6, <1>8, <2>2 DEF PassOk
<1>14. \A v \in Ranks : v # w /\ rank[v].pc = "replace" =>
             disk'[rank[v].batch] = "tmp" \/ rank[v].batch \in stalled
  BY <1>7, <1>10
<1>15. \A a \in Batches : disk[a] # "none" =>
             disk'[a] # "none" /\ (disk'[a] = "tmp" => disk[a] = "tmp")
  BY <1>1, <1>7
<1> QED
  BY <1>5, <1>6, <1>7, <1>8, <1>9, <1>11, <1>12, <1>13, <1>14, <1>15, FileStep

LEMMA ReplaceSpool ==
  ASSUME SpoolInv, NEW w \in Ranks, Replace(w), setup' = setup PROVE SpoolInv'
<1>1. PICK b : b = rank[w].batch
  OBVIOUS
<1>2. PICK total : total = rank[w].total + Size[b]
  OBVIOUS
<1>3. PICK pc : pc = IF Due(total, rank[w].writes + 1, rank[w].blocked) THEN "list" ELSE "idle"
  OBVIOUS
<1>4. /\ rank[w].pc = "replace" /\ disk[b] = "tmp" /\ disk' = [disk EXCEPT ![b] = "sealed"]
      /\ stale' = stale \ {b}
  BY <1>1 DEF Replace
<1>5. rank[w] \in Writer /\ WriteOk(w) /\ PassOk(w)
  BY TypedWriter DEF SpoolInv
<1>6. b \in Batches /\ rank[w].writes < RescanEvery /\ rank[w].writes \in Nat
      /\ rank[w].total \in Nat
  BY <1>1, <1>4, <1>5, SpoolAssumption DEF WriteOk, Writer
<1>7. PICK writes : writes = rank[w].writes + 1
  OBVIOUS
<1>8. PICK r : r = [rank[w] EXCEPT !.batch = None, !.writes = writes, !.total = total, !.pc = pc]
  OBVIOUS
<1>9. writes \in 0..RescanEvery /\ total \in Nat
      /\ (pc = "list" \/ (pc = "idle" /\ writes < RescanEvery))
  BY <1>2, <1>3, <1>6, <1>7, SpoolAssumption DEF Due
<1>10. /\ r \in Writer /\ r.pc = pc /\ r.writes = writes /\ r.pass = rank[w].pass
  BY <1>5, <1>8, <1>9 DEF Writer, Pcs
<1>11. rank' = [rank EXCEPT ![w] = r]
  <2>1. rank' = [rank EXCEPT ![w].batch = None, ![w].writes = rank[w].writes + 1,
                   ![w].total = total, ![w].pc = pc]
    BY <1>1, <1>2, <1>3 DEF Replace
  <2> QED
    BY <1>7, <1>8, <2>1 DEF SpoolInv, SpoolType
<1>12. rank'[w] = r /\ \A v \in Ranks : v # w => rank'[v] = rank[v]
  BY <1>11 DEF SpoolInv, SpoolType
<1>13. /\ disk' \in [Batches -> {"none", "tmp", "sealed", "evicted", "swept"}]
       /\ disk'[b] = "sealed" /\ \A a \in Batches : a # b => disk'[a] = disk[a]
  BY <1>4, <1>6 DEF SpoolInv, SpoolType
<1>14. UNCHANGED <<setup, stalled, counted, uncounted>>
  BY DEF Replace
<1>15. stale' \subseteq stale /\ stale' \subseteq Unsealed'
  BY <1>4, <1>13 DEF SpoolInv, SpoolType, Unsealed
<1>16. WritesApart'
  BY <1>9, <1>10, <1>12, <1>14, <1>15, ApartKept DEF SpoolInv
<1>17. WriteOk(w)'
  BY <1>9, <1>10, <1>12 DEF WriteOk
<1>18. PassOk(w)'
  <2>1. rank[w].pass.old \subseteq Batches
    BY TypedWriter DEF SpoolInv
  <2>2. \A a \in rank[w].pass.old : disk'[a] # "none" /\ (disk'[a] = "tmp" => a \in stale')
    BY <1>4, <1>5, <1>13, <2>1 DEF PassOk
  <2> QED
    BY <1>4, <1>5, <1>9, <1>10, <1>12, <2>2 DEF PassOk
<1>19. \A v \in Ranks : v # w /\ rank[v].pc = "replace" =>
             disk'[rank[v].batch] = "tmp" \/ rank[v].batch \in stalled
  <2>1. \A v \in Ranks : v # w /\ rank[v].pc = "replace" => rank[v].batch # b
    BY <1>1, <1>4 DEF SpoolInv, WritesApart
  <2> QED
    BY <1>13, <2>1 DEF SpoolInv, WriteOk
<1>20. \A a \in Batches : disk[a] # "none" =>
             disk'[a] # "none" /\ (disk'[a] = "tmp" => disk[a] = "tmp")
  BY <1>13
<1>21. \A a \in Batches : a \in stale /\ disk'[a] = "tmp" => a \in stale'
  BY <1>4, <1>13
<1> QED
  BY <1>10, <1>11, <1>13, <1>14, <1>15, <1>16, <1>17, <1>18, <1>19, <1>20, <1>21, FileStep

\* What SweepOne does: the file is left, and its bytes are if it is unsealed; or it is
\* old, and goes together with its bytes.
SweptTo(w, b, k, failed) ==
    rank' = [rank EXCEPT ![w] = [rank[w] EXCEPT
              !.failed = failed,
              !.pass = [rank[w].pass EXCEPT !.tmps = rank[w].pass.tmps \ {b},
                                            !.total = rank[w].pass.total - k,
                                            !.inFlight = rank[w].pass.inFlight - k]]]

Left(w, b, k, failed) ==
    /\ UNCHANGED <<disk, stale>>
    /\ disk[b] = "tmp" => k = 0 /\ (failed \/ b \notin rank[w].pass.old)

Gone(w, b, k, failed) ==
    /\ b \in rank[w].pass.old /\ disk[b] = "tmp"
    /\ k = Size[b] /\ failed = rank[w].failed
    /\ disk' = [disk EXCEPT ![b] = "swept"] /\ stale' = stale \ {b}

LEMMA SweepEffect ==
  ASSUME SpoolInv, NEW w \in Ranks, SweepOne(w)
  PROVE  \E k, failed : LET b == Min(rank[w].pass.tmps) IN
            /\ SweptTo(w, b, k, failed) /\ k \in {0, Size[b]} /\ failed \in BOOLEAN
            /\ rank[w].failed => failed
            /\ Left(w, b, k, failed) \/ Gone(w, b, k, failed)
<1>1. PICK b : b = Min(rank[w].pass.tmps)
  OBVIOUS
<1>2. rank \in [Ranks -> Writer] /\ rank[w] \in Writer /\ rank[w].pass \in Pass
      /\ rank[w].failed \in BOOLEAN
  BY TypedWriter DEF SpoolInv, SpoolType, Writer
<1>3. ASSUME NEW k
      PROVE  Swept(w, k) = [rank EXCEPT ![w] = [rank[w] EXCEPT
              !.pass = [rank[w].pass EXCEPT !.tmps = rank[w].pass.tmps \ {b},
                                            !.total = rank[w].pass.total - k,
                                            !.inFlight = rank[w].pass.inFlight - k]]]
  BY <1>1, <1>2 DEF Swept, Writer, Pass
<1>4. ASSUME NEW k, rank' = Swept(w, k)
      PROVE  SweptTo(w, b, k, rank[w].failed)
  <2>1. PICK p : p = [rank[w].pass EXCEPT !.tmps = rank[w].pass.tmps \ {b},
                                          !.total = rank[w].pass.total - k,
                                          !.inFlight = rank[w].pass.inFlight - k]
    OBVIOUS
  <2>2. [rank[w] EXCEPT !.failed = rank[w].failed, !.pass = p] = [rank[w] EXCEPT !.pass = p]
    BY <1>2 DEF Writer
  <2>3. rank' = [rank EXCEPT ![w] = [rank[w] EXCEPT !.pass = p]]
    BY <1>3, <1>4, <2>1
  <2> QED
    BY <2>1, <2>2, <2>3 DEF SweptTo
<1>5. ASSUME NEW k, rank' = [Swept(w, k) EXCEPT ![w].failed = TRUE]
      PROVE  SweptTo(w, b, k, TRUE)
  <2>1. PICK p : p = [rank[w].pass EXCEPT !.tmps = rank[w].pass.tmps \ {b},
                                          !.total = rank[w].pass.total - k,
                                          !.inFlight = rank[w].pass.inFlight - k]
    OBVIOUS
  <2>2. rank' = [[rank EXCEPT ![w] = [rank[w] EXCEPT !.pass = p]] EXCEPT ![w].failed = TRUE]
    BY <1>3, <1>5, <2>1
  <2>3. rank' = [rank EXCEPT ![w] = [rank[w] EXCEPT !.failed = TRUE, !.pass = p]]
    BY <1>2, <2>2 DEF Writer
  <2> QED
    BY <2>1, <2>3 DEF SweptTo
<1>6. CASE b \notin rank[w].pass.old /\ rank' = Swept(w, 0) /\ UNCHANGED <<disk, stale>>
  BY <1>1, <1>2, <1>4, <1>6 DEF Left
<1>7. CASE /\ b \in rank[w].pass.old /\ disk[b] = "tmp" /\ rank' = Swept(w, Size[b])
           /\ disk' = [disk EXCEPT ![b] = "swept"] /\ stale' = stale \ {b}
  BY <1>1, <1>2, <1>4, <1>7 DEF Gone
<1>8. CASE /\ disk[b] # "tmp" /\ UNCHANGED <<disk, stale>>
           /\ rank' = Swept(w, IF disk[b] = "sealed" THEN 0 ELSE Size[b])
  <2>1. PICK k : k = IF disk[b] = "sealed" THEN 0 ELSE Size[b]
    OBVIOUS
  <2>2. k \in {0, Size[b]} /\ rank' = Swept(w, k)
    BY <1>8, <2>1
  <2> QED
    BY <1>1, <1>2, <1>4, <1>8, <2>2 DEF Left
<1>9. CASE rank' = [Swept(w, 0) EXCEPT ![w].failed = TRUE] /\ UNCHANGED <<disk, stale>>
  BY <1>1, <1>2, <1>5, <1>9 DEF Left
<1> QED
  BY <1>1, <1>6, <1>7, <1>8, <1>9 DEF SweepOne

LEMMA SweepOneSpool ==
  ASSUME SpoolInv, NEW w \in Ranks, SweepOne(w), setup' = setup PROVE SpoolInv'
<1>1. PICK b : b = Min(rank[w].pass.tmps)
  OBVIOUS
<1>2. PICK k, failed :
            /\ SweptTo(w, b, k, failed) /\ k \in {0, Size[b]} /\ failed \in BOOLEAN
            /\ rank[w].failed => failed
            /\ Left(w, b, k, failed) \/ Gone(w, b, k, failed)
  BY <1>1, SweepEffect
<1>3. /\ rank[w] \in Writer /\ WriteOk(w) /\ PassOk(w) /\ rank[w].pass \in Pass
      /\ rank[w].pass.tmps \subseteq Batches /\ rank[w].pass.batches \subseteq Batches
      /\ rank[w].pass.old \subseteq Batches
      /\ rank[w].pass.total \in Nat /\ rank[w].pass.inFlight \in Nat
  BY TypedWriter DEF SpoolInv
<1>4. /\ rank[w].pc = "sweep" /\ rank[w].pass.tmps # {}
      /\ UNCHANGED <<setup, stalled, counted, uncounted>>
  BY DEF SweepOne
<1>5. b \in rank[w].pass.tmps /\ b \in Batches
  BY <1>1, <1>3, <1>4, MinBatch
<1>6. PICK tmps : tmps = rank[w].pass.tmps \ {b}
  OBVIOUS
<1>7. PICK total : total = rank[w].pass.total - k
  OBVIOUS
<1>8. PICK inFlight : inFlight = rank[w].pass.inFlight - k
  OBVIOUS
<1>9. /\ total \in Nat /\ inFlight \in Nat
      /\ total >= Bytes(tmps \cup rank[w].pass.batches) /\ inFlight >= Bytes(tmps)
  <2>1. PICK all : all = rank[w].pass.tmps \cup rank[w].pass.batches
    OBVIOUS
  <2>2. all \in SUBSET Batches /\ b \in all /\ all \ {b} = tmps \cup rank[w].pass.batches
    BY <1>3, <1>4, <1>5, <1>6, <2>1 DEF PassOk
  <2>3. Bytes(all) = Size[b] + Bytes(tmps \cup rank[w].pass.batches) /\ Size[b] \in Nat
    BY <2>2, BytesTake
  <2>4. Bytes(rank[w].pass.tmps) = Size[b] + Bytes(tmps)
    BY <1>3, <1>5, <1>6, BytesTake
  <2>5. Bytes(tmps) \in Nat /\ Bytes(tmps \cup rank[w].pass.batches) \in Nat
    <3>1. tmps \in SUBSET Batches /\ tmps \cup rank[w].pass.batches \in SUBSET Batches
      BY <1>3, <1>6
    <3> QED
      BY <3>1, BytesNat
  <2>6. rank[w].pass.total >= Bytes(all) /\ rank[w].pass.inFlight >= Bytes(rank[w].pass.tmps)
    BY <1>3, <1>4, <2>1 DEF PassOk
  <2> QED
    BY <1>2, <1>3, <1>7, <1>8, <2>3, <2>4, <2>5, <2>6
<1>10. PICK p : p = [rank[w].pass EXCEPT !.tmps = tmps, !.total = total, !.inFlight = inFlight]
  OBVIOUS
<1>11. /\ p \in Pass /\ p.tmps = tmps /\ p.batches = rank[w].pass.batches
       /\ p.old = rank[w].pass.old /\ p.total = total /\ p.inFlight = inFlight
       /\ p.dropped = rank[w].pass.dropped
  BY <1>3, <1>6, <1>9, <1>10 DEF Pass
<1>12. PICK r : r = [rank[w] EXCEPT !.failed = failed, !.pass = p]
  OBVIOUS
<1>13. r \in Writer /\ r.pc = "sweep" /\ r.failed = failed /\ r.pass = p
  BY <1>2, <1>3, <1>4, <1>11, <1>12 DEF Writer
<1>14. rank' = [rank EXCEPT ![w] = r]
  BY <1>2, <1>6, <1>7, <1>8, <1>10, <1>12 DEF SweptTo
<1>15. rank'[w] = r /\ \A v \in Ranks : v # w => rank'[v] = rank[v]
  BY <1>14 DEF SpoolInv, SpoolType
<1>16. /\ disk' \in [Batches -> {"none", "tmp", "sealed", "evicted", "swept"}]
       /\ \A a \in Batches : a # b => disk'[a] = disk[a]
       /\ \A a \in Batches : a \in stale' <=> a \in stale /\ (a = b => disk'[b] = "tmp")
       /\ \/ disk'[b] = disk[b] /\ (disk[b] = "tmp" => failed \/ b \notin rank[w].pass.old)
          \/ disk[b] = "tmp" /\ disk'[b] = "swept" /\ b \in rank[w].pass.old
       /\ stale' \subseteq stale /\ stale' \subseteq Batches
  <2>1. /\ disk \in [Batches -> {"none", "tmp", "sealed", "evicted", "swept"}]
        /\ stale \subseteq Unsealed /\ stale \subseteq Batches
    BY DEF SpoolInv, SpoolType, Unsealed
  <2>2. CASE Left(w, b, k, failed)
    BY <2>1, <2>2 DEF Left, Unsealed
  <2>3. CASE Gone(w, b, k, failed)
    <3>1. disk' = [disk EXCEPT ![b] = "swept"] /\ stale' = stale \ {b}
          /\ disk[b] = "tmp" /\ b \in rank[w].pass.old
      BY <2>3 DEF Gone
    <3>2. disk'[b] = "swept" /\ \A a \in Batches : a # b => disk'[a] = disk[a]
      BY <1>5, <2>1, <3>1
    <3>3. disk' \in [Batches -> {"none", "tmp", "sealed", "evicted", "swept"}]
      BY <2>1, <3>1
    <3> QED
      BY <2>1, <3>1, <3>2, <3>3
  <2> QED
    BY <1>2, <2>2, <2>3
<1>17. stale' \subseteq Unsealed'
  <2>1. \A a \in stale : a \in Batches /\ disk[a] = "tmp"
    BY DEF SpoolInv, SpoolType, Unsealed
  <2> QED
    BY <1>16, <2>1 DEF Unsealed
<1>18. WritesApart'
  BY <1>4, <1>13, <1>15, <1>16, ApartKept DEF SpoolInv
<1>19. WriteOk(w)'
  BY <1>13, <1>15 DEF WriteOk
<1>20. PassOk(w)'
  <2>1. \A a \in rank[w].pass.old : /\ disk'[a] # "none"
                                    /\ disk'[a] = "tmp" => a \in stale' /\ disk[a] = "tmp"
    BY <1>3, <1>16 DEF PassOk
  <2>2. failed \/ \A a \in rank[w].pass.old : disk'[a] = "tmp" => a \in tmps
    <3>1. rank[w].failed \/ \A a \in rank[w].pass.old : disk[a] = "tmp" => a \in rank[w].pass.tmps
      BY <1>3, <1>4 DEF PassOk
    <3> QED
      BY <1>2, <1>3, <1>6, <1>16, <2>1, <3>1
  <2>3. tmps \cap rank[w].pass.batches = {} /\ rank[w].pass.dropped = 0
    BY <1>3, <1>4, <1>6 DEF PassOk
  <2> QED
    BY <1>9, <1>11, <1>13, <1>15, <2>1, <2>2, <2>3 DEF PassOk
<1>21. \A v \in Ranks : v # w /\ rank[v].pc = "replace" =>
             disk'[rank[v].batch] = "tmp" \/ rank[v].batch \in stalled
  <2> SUFFICES ASSUME NEW v \in Ranks, v # w, rank[v].pc = "replace",
                      rank[v].batch \notin stalled
               PROVE  disk'[rank[v].batch] = "tmp"
    OBVIOUS
  <2>1. rank[v].batch \in Batches /\ disk[rank[v].batch] = "tmp" /\ rank[v].batch \notin stale
    BY DEF SpoolInv, WriteOk, WritesApart
  <2>2. CASE rank[v].batch # b
    BY <1>16, <2>1, <2>2
  <2>3. CASE rank[v].batch = b
    <3>1. b \notin rank[w].pass.old
      BY <1>3, <2>1, <2>3 DEF PassOk
    <3> QED
      BY <1>16, <2>1, <2>3, <3>1
  <2> QED
    BY <2>2, <2>3
<1>22. \A a \in Batches : disk[a] # "none" =>
             disk'[a] # "none" /\ (disk'[a] = "tmp" => disk[a] = "tmp")
  BY <1>16
<1>23. \A a \in Batches : a \in stale /\ disk'[a] = "tmp" => a \in stale'
  BY <1>16
<1> QED
  BY <1>4, <1>13, <1>14, <1>16, <1>17, <1>18, <1>19, <1>20, <1>21, <1>22, <1>23, FileStep

\* What EvictOne does: the batch goes, and is counted; or it is gone, and is not; or it
\* would not go, and its bytes stay.
EvictedTo(w, b, k, n, failed) ==
    rank' = [rank EXCEPT ![w] = [rank[w] EXCEPT
              !.failed = failed,
              !.pass = [rank[w].pass EXCEPT !.batches = rank[w].pass.batches \ {b},
                                            !.total = rank[w].pass.total - k,
                                            !.dropped = rank[w].pass.dropped + n]]]

Counted(w, b, k, n, failed) ==
    /\ disk[b] = "sealed" /\ disk' = [disk EXCEPT ![b] = "evicted"]
    /\ n = 1 /\ k = Size[b] /\ failed = rank[w].failed

NotCounted(w, b, k, n, failed) ==
    /\ disk' = disk /\ n = 0
    /\ disk[b] = "sealed" => failed /\ k = 0

LEMMA EvictEffect ==
  ASSUME SpoolInv, NEW w \in Ranks, EvictOne(w)
  PROVE  \E k, n, failed : LET b == Min(rank[w].pass.batches) IN
            /\ EvictedTo(w, b, k, n, failed) /\ k \in {0, Size[b]} /\ failed \in BOOLEAN
            /\ rank[w].failed => failed
            /\ Counted(w, b, k, n, failed) \/ NotCounted(w, b, k, n, failed)
<1>1. PICK b : b = Min(rank[w].pass.batches)
  OBVIOUS
<1>2. rank \in [Ranks -> Writer] /\ rank[w] \in Writer /\ rank[w].pass \in Pass
      /\ rank[w].failed \in BOOLEAN /\ rank[w].pass.dropped \in Nat
      /\ rank[w].pass.total \in Nat
  BY TypedWriter DEF SpoolInv, SpoolType, Writer
<1>3. Size[b] \in Nat
  <2>1. b \in Batches
    BY <1>1, MinBatch, TypedWriter DEF SpoolInv, EvictOne
  <2> QED
    BY <2>1, SpoolAssumption
<1>4. PICK r : r = [rank EXCEPT ![w].pass.batches = @ \ {b}]
  OBVIOUS
<1>5. CASE /\ disk[b] = "sealed" /\ disk' = [disk EXCEPT ![b] = "evicted"]
           /\ rank' = [r EXCEPT ![w].pass.total = @ - Size[b], ![w].pass.dropped = @ + 1]
  <2>1. EvictedTo(w, b, Size[b], 1, rank[w].failed)
    BY <1>2, <1>4, <1>5 DEF EvictedTo, Writer, Pass
  <2> QED
    BY <1>1, <1>2, <1>5, <2>1 DEF Counted
<1>6. CASE disk[b] # "sealed" /\ disk' = disk /\ rank' = [r EXCEPT ![w].pass.total = @ - Size[b]]
  <2>1. rank[w].pass.dropped + 0 = rank[w].pass.dropped
    BY <1>2
  <2>3. PICK left : left = rank[w].pass.batches \ {b}
    OBVIOUS
  <2>4. PICK total : total = rank[w].pass.total - Size[b]
    OBVIOUS
  <2>5. PICK p : p = [rank[w].pass EXCEPT !.batches = left, !.total = total]
    OBVIOUS
  <2>6. p = [rank[w].pass EXCEPT !.batches = left, !.total = total,
                                 !.dropped = rank[w].pass.dropped]
    BY <1>2, <2>5 DEF Pass
  <2>7. rank' = [rank EXCEPT ![w] = [rank[w] EXCEPT !.failed = rank[w].failed, !.pass = p]]
    BY <1>2, <1>4, <1>6, <2>3, <2>4, <2>5 DEF Writer, Pass
  <2>2. EvictedTo(w, b, Size[b], 0, rank[w].failed)
    BY <2>1, <2>3, <2>4, <2>6, <2>7 DEF EvictedTo
  <2> QED
    BY <1>1, <1>2, <1>6, <2>2 DEF NotCounted
<1>7. CASE disk[b] = "sealed" /\ disk' = disk /\ rank' = [r EXCEPT ![w].failed = TRUE]
  <2>1. rank[w].pass.dropped + 0 = rank[w].pass.dropped
        /\ rank[w].pass.total - 0 = rank[w].pass.total
    BY <1>2
  <2>3. PICK left : left = rank[w].pass.batches \ {b}
    OBVIOUS
  <2>5. PICK p : p = [rank[w].pass EXCEPT !.batches = left]
    OBVIOUS
  <2>6. p = [rank[w].pass EXCEPT !.batches = left, !.total = rank[w].pass.total,
                                 !.dropped = rank[w].pass.dropped]
    BY <1>2, <2>5 DEF Pass
  <2>7. rank' = [rank EXCEPT ![w] = [rank[w] EXCEPT !.failed = TRUE, !.pass = p]]
    BY <1>2, <1>4, <1>7, <2>3, <2>5 DEF Writer, Pass
  <2>2. EvictedTo(w, b, 0, 0, TRUE)
    BY <2>1, <2>3, <2>6, <2>7 DEF EvictedTo
  <2> QED
    BY <1>1, <1>2, <1>7, <2>2 DEF NotCounted
<1> QED
  BY <1>1, <1>4, <1>5, <1>6, <1>7 DEF EvictOne

LEMMA EvictOneSpool ==
  ASSUME SpoolInv, NEW w \in Ranks, EvictOne(w), setup' = setup PROVE SpoolInv'
<1>1. PICK b : b = Min(rank[w].pass.batches)
  OBVIOUS
<1>2. PICK k, n, failed :
            /\ EvictedTo(w, b, k, n, failed) /\ k \in {0, Size[b]} /\ failed \in BOOLEAN
            /\ rank[w].failed => failed
            /\ Counted(w, b, k, n, failed) \/ NotCounted(w, b, k, n, failed)
  BY <1>1, EvictEffect
<1>3. /\ rank[w] \in Writer /\ WriteOk(w) /\ PassOk(w) /\ rank[w].pass \in Pass
      /\ rank[w].pass.batches \subseteq Batches /\ rank[w].pass.old \subseteq Batches
      /\ rank[w].pass.total \in Nat /\ rank[w].pass.dropped \in Nat
  BY TypedWriter DEF SpoolInv
<1>4. /\ rank[w].pc = "evict" /\ rank[w].pass.batches # {}
      /\ UNCHANGED <<setup, stale, stalled, counted, uncounted>>
  BY DEF EvictOne
<1>5. b \in rank[w].pass.batches /\ b \in Batches
  BY <1>1, <1>3, <1>4, MinBatch
<1>6. PICK batches : batches = rank[w].pass.batches \ {b}
  OBVIOUS
<1>7. PICK total : total = rank[w].pass.total - k
  OBVIOUS
<1>8. PICK dropped : dropped = rank[w].pass.dropped + n
  OBVIOUS
<1>9. total \in Nat /\ dropped \in Nat /\ total >= Bytes(batches)
  <2>1. Bytes(rank[w].pass.batches) = Size[b] + Bytes(batches) /\ Size[b] \in Nat
    BY <1>3, <1>5, <1>6, BytesTake
  <2>2. Bytes(batches) \in Nat
    <3>1. batches \in SUBSET Batches
      BY <1>3, <1>6
    <3> QED
      BY <3>1, BytesNat
  <2>3. rank[w].pass.total >= Bytes(rank[w].pass.batches)
    BY <1>3, <1>4 DEF PassOk
  <2>4. n \in {0, 1}
    BY <1>2 DEF Counted, NotCounted
  <2> QED
    BY <1>2, <1>3, <1>7, <1>8, <2>1, <2>2, <2>3, <2>4
<1>10. PICK p : p = [rank[w].pass EXCEPT !.batches = batches, !.total = total, !.dropped = dropped]
  OBVIOUS
<1>11. p \in Pass /\ p.batches = batches /\ p.old = rank[w].pass.old /\ p.total = total
  BY <1>3, <1>6, <1>9, <1>10 DEF Pass
<1>12. PICK r : r = [rank[w] EXCEPT !.failed = failed, !.pass = p]
  OBVIOUS
<1>13. r \in Writer /\ r.pc = "evict" /\ r.failed = failed /\ r.pass = p
  BY <1>2, <1>3, <1>4, <1>11, <1>12 DEF Writer
<1>14. rank' = [rank EXCEPT ![w] = r]
  BY <1>2, <1>6, <1>7, <1>8, <1>10, <1>12 DEF EvictedTo
<1>15. rank'[w] = r /\ \A v \in Ranks : v # w => rank'[v] = rank[v]
  BY <1>14 DEF SpoolInv, SpoolType
<1>16. /\ disk' \in [Batches -> {"none", "tmp", "sealed", "evicted", "swept"}]
       /\ \A a \in Batches : \/ disk'[a] = disk[a]
                             \/ a = b /\ disk[a] = "sealed" /\ disk'[a] = "evicted"
  <2>1. disk \in [Batches -> {"none", "tmp", "sealed", "evicted", "swept"}]
    BY DEF SpoolInv, SpoolType
  <2> QED
    BY <1>2, <2>1 DEF Counted, NotCounted
<1>17. stale' \subseteq Unsealed' /\ stale' \subseteq stale
  BY <1>4, <1>16 DEF SpoolInv, SpoolType, Unsealed
<1>18. WritesApart'
  BY <1>4, <1>13, <1>15, ApartKept DEF SpoolInv
<1>19. WriteOk(w)'
  BY <1>13, <1>15 DEF WriteOk
<1>20. PassOk(w)'
  <2>1. \A a \in rank[w].pass.old : /\ disk'[a] # "none"
                                    /\ disk'[a] = "tmp" => a \in stale' /\ disk[a] = "tmp"
    BY <1>3, <1>4, <1>16 DEF PassOk
  <2>2. failed \/ \A a \in rank[w].pass.old : disk'[a] # "tmp"
    <3>1. rank[w].failed \/ \A a \in rank[w].pass.old : disk[a] # "tmp"
      BY <1>3, <1>4 DEF PassOk
    <3> QED
      BY <1>2, <2>1, <3>1
  <2> QED
    BY <1>9, <1>11, <1>13, <1>15, <2>1, <2>2 DEF PassOk
<1>21. \A v \in Ranks : v # w /\ rank[v].pc = "replace" =>
             disk'[rank[v].batch] = "tmp" \/ rank[v].batch \in stalled
  BY <1>16 DEF SpoolInv, WriteOk
<1>22. \A a \in Batches : disk[a] # "none" =>
             disk'[a] # "none" /\ (disk'[a] = "tmp" => disk[a] = "tmp")
  BY <1>16
<1> QED
  BY <1>4, <1>13, <1>14, <1>16, <1>17, <1>18, <1>19, <1>20, <1>21, <1>22, FileStep

LEMMA KillSpool ==
  ASSUME SpoolInv, NEW w \in Ranks, Kill(w), setup' = setup PROVE SpoolInv'
<1>1. PICK n : n = Bytes(OnDisk)
  OBVIOUS
<1>2. OnDisk \in SUBSET Batches
  BY DEF OnDisk
<1>3. n \in Nat
  BY <1>1, <1>2, BytesNat
<1>4. PICK r : r = Fresh(n)
  OBVIOUS
<1>5. r \in Writer /\ r.pc = "idle" /\ r.writes < RescanEvery /\ r.pass = NoPass
  BY <1>3, <1>4, FreshTyped, SpoolAssumption DEF Fresh
<1>6. rank' = [rank EXCEPT ![w] = r]
  BY <1>1, <1>4 DEF Kill
<1>7. rank'[w] = r
  BY <1>6 DEF SpoolInv, SpoolType
<1>8. counted' \in Nat /\ uncounted' \in Nat
  BY TypedWriter DEF Kill, SpoolInv, SpoolType
<1>9. PassOk(w)'
  BY <1>5, <1>7 DEF PassOk, NoPass
<1> QED
  BY <1>5, <1>6, <1>8, <1>9, OwnStep DEF Kill

LEMMA GrowOldSpool ==
  ASSUME SpoolInv, NEW b \in setup.batches, GrowOld(b), setup' = setup PROVE SpoolInv'
<1>1. b \in Batches
  BY SpoolAssumption DEF SpoolInv, SpoolType, Circumstances
<1>2. /\ disk[b] = "tmp" /\ stale' = stale \cup {b} /\ stalled \subseteq stalled'
      /\ stalled' \subseteq stalled \cup {b} /\ (InFlight(b) => b \in stalled')
      /\ UNCHANGED <<setup, disk, rank, counted, uncounted>>
  BY DEF GrowOld
<1>3. SpoolType'
  BY <1>1, <1>2 DEF SpoolInv, SpoolType, Unsealed
<1>4. WritesApart'
  BY <1>2 DEF SpoolInv, WritesApart, InFlight
<1>5. ASSUME NEW v \in Ranks
      PROVE  WriteOk(v)' /\ PassOk(v)'
  <2>1. rank[v].pc = "replace" => disk'[rank[v].batch] = "tmp" \/ rank[v].batch \in stalled'
    BY <1>2 DEF SpoolInv, WriteOk
  <2>2. rank'[v] = rank[v] /\ disk' = disk /\ stale \subseteq stale' /\ stalled \subseteq stalled'
    BY <1>2
  <2> QED
    BY <2>1, <2>2, OthersKept
<1> QED
  BY <1>3, <1>4, <1>5 DEF SpoolInv

LEMMA NextSpool == SpoolInv /\ [Next]_vars => SpoolInv'
<1> SUFFICES ASSUME SpoolInv, [Next]_vars
             PROVE  SpoolInv'
  OBVIOUS
<1>1. ASSUME NEW w \in setup.ranks, RankStep(w) \/ Kill(w), setup' = setup
      PROVE  SpoolInv'
  <2>1. w \in Ranks
    BY SpoolAssumption DEF SpoolInv, SpoolType, Circumstances
  <2>2. CASE WriteFails(w) \/ ReplaceFails(w)
    BY <1>1, <2>1, <2>2, GivesUp DEF WriteFails, ReplaceFails
  <2> QED
    BY <1>1, <2>1, <2>2, WriteTmpSpool, ReplaceSpool, EnforceCapSpool, ListSpool, StatSpool,
       SweepOneSpool, DecideSpool, EvictOneSpool, EvictDoneSpool, KillSpool DEF RankStep
<1>2. CASE UNCHANGED vars
  <2>1. UNCHANGED <<setup, disk, stale, stalled, rank, counted, uncounted>>
    BY <1>2 DEF vars
  <2>2. SpoolType' /\ WritesApart'
    BY <2>1 DEF SpoolInv, SpoolType, WritesApart, Unsealed
  <2>3. ASSUME NEW v \in Ranks
        PROVE  WriteOk(v)' /\ PassOk(v)'
    BY <2>1 DEF SpoolInv, WriteOk, PassOk
  <2> QED
    BY <2>2, <2>3 DEF SpoolInv
<1> QED
  BY <1>1, <1>2, GrowOldSpool DEF Next

-------------------------------------------------------------------------------
(* Writes in progress, and the count of evictions                              *)

\* The sweep of one rank never takes the file another rank is writing, unless that write
\* outlasted the staleness limit; and no running total ever drops below zero, however
\* many ranks delete the same files (write, _sweep_stale_tmps_locked and
\* _enforce_cap_locked, by any number of ranks).
THEOREM LiveWritesKept == Spec => [](LiveTmpKept /\ TypeOK)
<1>1. SpoolInv => LiveTmpKept
  BY DEF SpoolInv, WriteOk, LiveTmpKept
<1>2. SpoolInv => TypeOK
  <2> SUFFICES ASSUME SpoolInv PROVE TypeOK
    OBVIOUS
  <2>1. ASSUME NEW w \in Ranks
        PROVE  /\ rank[w].pc \in Pcs /\ rank[w].batch \in Batches \cup {None}
               /\ rank[w].total \in Nat /\ rank[w].writes \in 0..RescanEvery
               /\ rank[w].blocked \in BOOLEAN /\ rank[w].drops \in Nat
    BY TypedWriter DEF SpoolInv, Writer
  <2> QED
    BY <2>1, TypedWriter DEF SpoolInv, SpoolType, TypeOK, Pcs
<1> QED
  BY <1>1, <1>2, InitSpool, NextSpool, PTL DEF Spec

Evicted == {b \in Batches : disk[b] = "evicted"}

\* A step that evicts nothing and counts nothing.
LEMMA CountKept ==
  ASSUME SpoolInv, EvictionsCountedOnce, counted' + uncounted' = counted + uncounted,
         \A b \in Batches : disk'[b] = "evicted" <=> disk[b] = "evicted",
         \A w \in Ranks : rank'[w].drops + rank'[w].pass.dropped
                            = rank[w].drops + rank[w].pass.dropped
  PROVE  EvictionsCountedOnce'
<1>1. DropsOf' = DropsOf
  BY DEF DropsOf
<1>2. Evicted' = Evicted
  BY DEF Evicted
<1>3. PICK h, k : h = DropsOf /\ k = DropsOf'
  OBVIOUS
<1>4. Cardinality(Evicted) = counted + uncounted + SumOver(DropsOf, Ranks)
  BY DEF EvictionsCountedOnce, Evicted
<1> QED
  BY <1>1, <1>2, <1>4 DEF EvictionsCountedOnce, Evicted

LEMMA NextCounted == SpoolInv /\ SpoolInv' /\ EvictionsCountedOnce /\ [Next]_vars => EvictionsCountedOnce'
<1> SUFFICES ASSUME SpoolInv, SpoolInv', EvictionsCountedOnce, [Next]_vars
             PROVE  EvictionsCountedOnce'
  OBVIOUS
<1>1. /\ rank \in [Ranks -> Writer]
      /\ disk \in [Batches -> {"none", "tmp", "sealed", "evicted", "swept"}]
      /\ counted \in Nat /\ uncounted \in Nat
  BY DEF SpoolInv, SpoolType
<1>2. ASSUME NEW w \in Ranks
      PROVE  /\ rank[w] \in Writer /\ rank[w].pass \in Pass
             /\ rank[w].drops \in Nat /\ rank[w].pass.dropped \in Nat
             /\ rank'[w].drops \in Nat /\ rank'[w].pass.dropped \in Nat
             /\ DropsOf[w] = rank[w].drops + rank[w].pass.dropped
             /\ DropsOf'[w] = rank'[w].drops + rank'[w].pass.dropped
             /\ rank[w].pc # "evict" => rank[w].pass.dropped = 0
  <2>1. rank'[w].drops \in Nat /\ rank'[w].pass.dropped \in Nat
    BY DEF SpoolInv, SpoolType, Writer, Pass
  <2> QED
    BY <1>2, <2>1, TypedWriter DEF SpoolInv, PassOk, DropsOf
<1> DEFINE Same(v) == rank'[v].drops + rank'[v].pass.dropped = rank[v].drops + rank[v].pass.dropped
<1>3. ASSUME NEW w \in Ranks, \A v \in Ranks : v # w => rank'[v] = rank[v],
             rank'[w].drops = rank[w].drops, rank'[w].pass.dropped = rank[w].pass.dropped
      PROVE  \A v \in Ranks : Same(v)
  BY <1>3
<1>4. ASSUME NEW w \in Ranks, WriteTmp(w)
      PROVE  EvictionsCountedOnce'
  <2>1. \A v \in Ranks : Same(v)
    BY <1>1, <1>2, <1>4 DEF WriteTmp, Writer
  <2>2. \A b \in Batches : disk'[b] = "evicted" <=> disk[b] = "evicted"
    BY <1>1, <1>4 DEF WriteTmp
  <2> QED
    BY <1>4, <2>1, <2>2, CountKept DEF WriteTmp
<1>5. ASSUME NEW w \in Ranks, WriteFails(w) \/ ReplaceFails(w) \/ EnforceCap(w)
      PROVE  EvictionsCountedOnce'
  <2>1. \A v \in Ranks : Same(v)
    BY <1>1, <1>2, <1>5 DEF WriteFails, ReplaceFails, EnforceCap, Writer
  <2> QED
    BY <1>5, <2>1, CountKept DEF WriteFails, ReplaceFails, EnforceCap
<1>6. ASSUME NEW w \in Ranks, Replace(w)
      PROVE  EvictionsCountedOnce'
  <2>1. \A v \in Ranks : Same(v)
    BY <1>1, <1>2, <1>6 DEF Replace, Writer
  <2>2. \A b \in Batches : disk'[b] = "evicted" <=> disk[b] = "evicted"
    BY <1>1, <1>6 DEF Replace
  <2> QED
    BY <1>6, <2>1, <2>2, CountKept DEF Replace
<1>7. ASSUME NEW w \in Ranks, List(w)
      PROVE  EvictionsCountedOnce'
  <2>1. rank[w].pass.dropped = 0 /\ rank'[w].pass.dropped = 0 /\ rank'[w].drops = rank[w].drops
        /\ \A v \in Ranks : v # w => rank'[v] = rank[v]
    BY <1>1, <1>2, <1>7 DEF List, NoPass, Writer
  <2>2. \A v \in Ranks : Same(v)
    BY <1>3, <2>1
  <2> QED
    BY <1>7, <2>2, CountKept DEF List
<1>8. ASSUME NEW w \in Ranks, Stat(w)
      PROVE  EvictionsCountedOnce'
  <2>1. rank[w].pass.dropped = 0 /\ rank'[w].pass.dropped = 0 /\ rank'[w].drops = rank[w].drops
        /\ \A v \in Ranks : v # w => rank'[v] = rank[v]
    BY <1>1, <1>2, <1>8 DEF Stat, Writer
  <2>2. \A v \in Ranks : Same(v)
    BY <1>3, <2>1
  <2> QED
    BY <1>8, <2>2, CountKept DEF Stat
<1>9. ASSUME NEW w \in Ranks, SweepOne(w)
      PROVE  EvictionsCountedOnce'
  <2>1. PICK b : b = Min(rank[w].pass.tmps)
    OBVIOUS
  <2>2. PICK k, failed : SweptTo(w, b, k, failed) /\ (Left(w, b, k, failed) \/ Gone(w, b, k, failed))
    BY <1>9, <2>1, SweepEffect
  <2>3. rank'[w].pass.dropped = rank[w].pass.dropped /\ rank'[w].drops = rank[w].drops
        /\ \A v \in Ranks : v # w => rank'[v] = rank[v]
    BY <1>1, <1>2, <2>2 DEF SweptTo, Writer, Pass
  <2>4. \A v \in Ranks : Same(v)
    BY <1>3, <2>3
  <2>5. \A a \in Batches : disk'[a] = "evicted" <=> disk[a] = "evicted"
    BY <1>1, <2>2 DEF Left, Gone
  <2> QED
    BY <1>9, <2>4, <2>5, CountKept DEF SweepOne
<1>10. ASSUME NEW w \in Ranks, NEW blocked, rank' = Finished(w, blocked),
              UNCHANGED <<disk, counted, uncounted>>
       PROVE  EvictionsCountedOnce'
  <2>1. rank'[w].pass.dropped = 0 /\ rank'[w].drops = rank[w].drops + rank[w].pass.dropped
        /\ \A v \in Ranks : v # w => rank'[v] = rank[v]
    <3>1. PICK drops : drops = rank[w].drops + rank[w].pass.dropped
      OBVIOUS
    <3>2. PICK r : r = [rank[w] EXCEPT !.pc = "idle", !.total = rank[w].pass.total,
                          !.writes = 0, !.blocked = blocked, !.drops = drops,
                          !.pass = NoPass, !.exact = TRUE]
      OBVIOUS
    <3>3. rank[w] \in Writer /\ rank \in [Ranks -> Writer]
      BY <1>1, <1>2
    <3>4. r.pass = NoPass /\ r.drops = drops
      BY <3>2, <3>3 DEF Writer
    <3>5. rank' = [rank EXCEPT ![w] = r]
      BY <1>10, <3>1, <3>2, <3>3 DEF Finished
    <3>6. rank'[w] = r /\ \A v \in Ranks : v # w => rank'[v] = rank[v]
      BY <3>3, <3>5
    <3>7. NoPass.dropped = 0
      BY DEF NoPass
    <3> QED
      BY <3>1, <3>4, <3>6, <3>7
  <2>2. \A v \in Ranks : Same(v)
    BY <1>2, <2>1
  <2> QED
    BY <1>10, <2>2, CountKept
<1>11. ASSUME NEW w \in Ranks, Decide(w)
       PROVE  EvictionsCountedOnce'
  <2>1. CASE rank' = Finished(w, TRUE)
    BY <1>10, <1>11, <2>1 DEF Decide
  <2>2. CASE rank' = [rank EXCEPT ![w].pc = "evict"]
    <3>1. \A v \in Ranks : Same(v)
      BY <1>1, <1>2, <2>2 DEF Writer
    <3> QED
      BY <1>11, <3>1, CountKept DEF Decide
  <2> QED
    BY <1>11, <2>1, <2>2 DEF Decide
<1>12. ASSUME NEW w \in Ranks, EvictOne(w)
       PROVE  EvictionsCountedOnce'
  <2>1. PICK b : b = Min(rank[w].pass.batches)
    OBVIOUS
  <2>2. PICK k, n, failed : /\ EvictedTo(w, b, k, n, failed)
                            /\ Counted(w, b, k, n, failed) \/ NotCounted(w, b, k, n, failed)
    BY <1>12, <2>1, EvictEffect
  <2>3. rank'[w].pass.dropped = rank[w].pass.dropped + n /\ rank'[w].drops = rank[w].drops
        /\ \A v \in Ranks : v # w => rank'[v] = rank[v]
    BY <1>1, <1>2, <2>2 DEF EvictedTo, Writer, Pass
  <2>4. counted' = counted /\ uncounted' = uncounted
    BY <1>12 DEF EvictOne
  <2>5. CASE NotCounted(w, b, k, n, failed)
    <3>1. n = 0 /\ disk' = disk
      BY <2>5 DEF NotCounted
    <3>2. rank'[w].pass.dropped = rank[w].pass.dropped
      BY <1>2, <2>3, <3>1
    <3>3. \A v \in Ranks : Same(v)
      BY <1>3, <2>3, <3>2
    <3> QED
      BY <2>4, <3>1, <3>3, CountKept
  <2>6. CASE Counted(w, b, k, n, failed)
    <3>1. b \in Batches
      BY <1>2, <1>12, <2>1, MinBatch, TypedWriter DEF EvictOne, SpoolInv
    <3>2. n = 1 /\ disk[b] = "sealed" /\ disk' = [disk EXCEPT ![b] = "evicted"]
      BY <2>6 DEF Counted
    <3>3. Evicted' = Evicted \cup {b} /\ b \notin Evicted
      BY <1>1, <3>1, <3>2 DEF Evicted
    <3>4. IsFiniteSet(Evicted)
      <4>1. Evicted \in SUBSET Batches
        BY DEF Evicted
      <4> QED
        BY <4>1, BytesNat
    <3>5. Cardinality(Evicted') = Cardinality(Evicted) + 1 /\ Cardinality(Evicted) \in Nat
      BY <3>3, <3>4, FS_AddElement, FS_CardinalityType
    <3>6. DropsOf'[w] = DropsOf[w] + 1
      BY <1>2, <2>3, <3>2
    <3>7. \A v \in Ranks : v # w => DropsOf'[v] = DropsOf[v]
      BY <1>2, <2>3
    <3>8. PICK h, g : h = DropsOf /\ g = DropsOf'
      OBVIOUS
    <3>9. SumOver(g, Ranks) = SumOver(h, Ranks) - h[w] + g[w]
      <4>1. \A v \in Ranks : h[v] \in Nat /\ g[v] \in Nat
        BY <1>2, <3>8
      <4>2. IsFiniteSet(Ranks)
        BY SpoolAssumption
      <4>3. \A v \in Ranks : v # w => g[v] = h[v]
        BY <3>7, <3>8
      <4> QED
        BY <4>1, <4>2, <4>3, SumChange
    <3>10. SumOver(h, Ranks) \in Nat /\ h[w] \in Nat
      <4>1. \A v \in Ranks : h[v] \in Nat
        BY <1>2, <3>8
      <4> QED
        BY <4>1, SumNat, SpoolAssumption
    <3>11. Cardinality(Evicted) = counted + uncounted + SumOver(h, Ranks)
      BY <3>8 DEF EvictionsCountedOnce, Evicted
    <3>12. Cardinality(Evicted') = counted' + uncounted' + SumOver(g, Ranks)
      BY <1>1, <2>4, <3>5, <3>6, <3>8, <3>9, <3>10, <3>11
    <3> QED
      BY <3>8, <3>12 DEF EvictionsCountedOnce, Evicted
  <2> QED
    BY <2>2, <2>5, <2>6
<1>13. ASSUME NEW w \in Ranks, EvictDone(w)
       PROVE  EvictionsCountedOnce'
  BY <1>10, <1>13 DEF EvictDone
<1>14. ASSUME NEW w \in Ranks, Kill(w)
       PROVE  EvictionsCountedOnce'
  <2>1. PICK r : r = Fresh(Bytes(OnDisk))
    OBVIOUS
  <2>2. rank'[w] = r /\ \A v \in Ranks : v # w => rank'[v] = rank[v]
    BY <1>1, <1>14, <2>1 DEF Kill
  <2>3. rank'[w].drops = 0 /\ rank'[w].pass.dropped = 0
    BY <2>1, <2>2 DEF Fresh, NoPass
  <2>4. counted' = counted + rank[w].drops /\ uncounted' = uncounted + rank[w].pass.dropped
        /\ disk' = disk
    BY <1>14 DEF Kill
  <2>5. PICK h, g : h = DropsOf /\ g = DropsOf'
    OBVIOUS
  <2>6. \A v \in Ranks : h[v] \in Nat /\ g[v] \in Nat
    BY <1>2, <2>5
  <2>7. h[w] = rank[w].drops + rank[w].pass.dropped /\ g[w] = 0
        /\ \A v \in Ranks : v # w => g[v] = h[v]
    BY <1>2, <2>2, <2>3, <2>5
  <2>8. SumOver(g, Ranks) = SumOver(h, Ranks) - h[w] + g[w] /\ SumOver(h, Ranks) \in Nat
    <3>1. IsFiniteSet(Ranks)
      BY SpoolAssumption
    <3>2. SumOver(h, Ranks) \in Nat
      BY <2>6, <3>1, SumNat
    <3>3. SumOver(g, Ranks) = SumOver(h, Ranks) - h[w] + g[w]
      <4>1. \A v \in Ranks : v # w => g[v] = h[v]
        BY <2>7
      <4> QED
        BY <2>6, <3>1, <4>1, SumChange
    <3> QED
      BY <3>2, <3>3
  <2>9. Cardinality(Evicted) = counted + uncounted + SumOver(h, Ranks)
    BY <2>5 DEF EvictionsCountedOnce, Evicted
  <2>10. Evicted' = Evicted
    BY <2>4 DEF Evicted
  <2>11. counted + uncounted + SumOver(h, Ranks) = counted' + uncounted' + SumOver(g, Ranks)
    BY <1>1, <1>2, <2>4, <2>7, <2>8
  <2> QED
    BY <2>5, <2>9, <2>10, <2>11 DEF EvictionsCountedOnce, Evicted
<1>15. ASSUME NEW b, GrowOld(b)
       PROVE  EvictionsCountedOnce'
  BY <1>15, CountKept DEF GrowOld
<1>16. CASE UNCHANGED vars
  BY <1>16, CountKept DEF vars
<1>17. setup.ranks \subseteq Ranks
  BY SpoolAssumption DEF SpoolInv, SpoolType, Circumstances
<1> QED
  BY <1>4, <1>5, <1>6, <1>7, <1>8, <1>9, <1>11, <1>12, <1>13, <1>14, <1>15, <1>16, <1>17
     DEF Next, RankStep

\* The batches that were sealed and are gone are those that drop_count counts, each by
\* one rank, however many ranks evict from the same directory and wherever a process is
\* killed (_enforce_cap_locked).
THEOREM EvictionsCounted == Spec => []EvictionsCountedOnce
<1>1. Init => EvictionsCountedOnce
  <2> SUFFICES ASSUME Init PROVE EvictionsCountedOnce
    OBVIOUS
  <2>1. {b \in Batches : disk[b] = "evicted"} = {}
    BY DEF Init
  <2>2. \A w \in Ranks : DropsOf[w] = 0
    BY DEF Init, DropsOf, Fresh, NoPass
  <2>3. PICK h : h = DropsOf
    OBVIOUS
  <2>4. SumOver(h, Ranks) = 0
    <3> DEFINE F == {S \in SUBSET Ranks : SumOver(h, S) # 0}
    <3>1. ASSUME F # {}
          PROVE  FALSE
      <4>1. PICK S \in F : \A T \in F : T \subseteq S => T = S
        <5>1. F \subseteq SUBSET Ranks
          OBVIOUS
        <5> HIDE DEF F
        <5> QED
          BY <3>1, <5>1, Smallest, SpoolAssumption
      <4>2. S # {}
        BY SumOfNone
      <4>3. SumOver(h, S) = h[Pick(S)] + SumOver(h, S \ {Pick(S)})
        BY <4>2, FS_Subset, SumPicks, SpoolAssumption
      <4>4. Pick(S) \in S /\ S \ {Pick(S)} # S /\ S \ {Pick(S)} \in SUBSET Ranks
        BY <4>2, Picked
      <4>5. SumOver(h, S \ {Pick(S)}) = 0 /\ h[Pick(S)] = 0
        BY <2>2, <2>3, <4>1, <4>4
      <4> QED
        BY <4>1, <4>3, <4>5
    <3> HIDE DEF F
    <3>2. F = {}
      BY <3>1
    <3> QED
      BY <3>2 DEF F
  <2>5. counted = 0 /\ uncounted = 0
    BY DEF Init
  <2> QED
    BY <2>1, <2>3, <2>4, <2>5, FS_EmptySet DEF EvictionsCountedOnce
<1> QED
  BY <1>1, InitSpool, NextSpool, NextCounted, PTL DEF Spec

-------------------------------------------------------------------------------
(* A rank that is alone                                                        *)

\* The files that are on the disk, by bytes.
LEMMA BytesOnDisk ==
  ASSUME SpoolType
  PROVE  /\ Unsealed \in SUBSET Batches /\ Sealed \in SUBSET Batches
         /\ OnDisk \in SUBSET Batches /\ OnDisk = Unsealed \cup Sealed
         /\ Bytes(OnDisk) \in Nat /\ Bytes(Unsealed) \in Nat
<1>1. /\ Unsealed \in SUBSET Batches /\ Sealed \in SUBSET Batches
      /\ OnDisk \in SUBSET Batches /\ OnDisk = Unsealed \cup Sealed
  BY DEF Unsealed, Sealed, OnDisk
<1> QED
  BY <1>1, BytesNat

LEMMA AloneKept ==
  ASSUME SpoolInv, Alone, NEW w \in Ranks, AlonePass(w), rank'[w].pc # "idle",
         rank'[w].pc = rank[w].pc, rank'[w].pass = rank[w].pass,
         rank'[w].failed = rank[w].failed, disk' = disk
  PROVE  AlonePass(w)' /\ AloneIdle(w)'
<1>1. Unsealed' = Unsealed /\ Sealed' = Sealed /\ OnDisk' = OnDisk
  BY DEF Unsealed, Sealed, OnDisk
<1> QED
  BY <1>1 DEF AlonePass, AloneIdle, Bytes

\* A step into a state in which nothing is known.
LEMMA NothingKnown ==
  ASSUME NEW w \in Ranks, rank'[w].pc \in {"idle", "replace", "list"},
         rank'[w].pc = "idle" => ~ rank'[w].exact
  PROVE  AlonePass(w)' /\ AloneIdle(w)'
BY DEF AlonePass, AloneIdle

LEMMA AloneFinished ==
  ASSUME SpoolInv, NEW w \in Ranks, NEW blocked \in BOOLEAN, rank' = Finished(w, blocked),
         disk' = disk, rank[w].pass.total = Bytes(OnDisk),
         \/ rank[w].pass.total <= MaxBytes
         \/ rank[w].failed
         \/ blocked /\ Bytes(Unsealed) >= MaxBytes
  PROVE  AlonePass(w)' /\ AloneIdle(w)'
<1>1. Unsealed' = Unsealed /\ OnDisk' = OnDisk
  BY DEF Unsealed, OnDisk
<1>2. rank \in [Ranks -> Writer] /\ rank[w] \in Writer
  BY TypedWriter DEF SpoolInv, SpoolType
<1>3. /\ rank'[w].pc = "idle" /\ rank'[w].total = rank[w].pass.total
      /\ rank'[w].blocked = blocked /\ rank'[w].failed = rank[w].failed
  BY <1>2 DEF Finished, Writer
<1>4. AloneIdle(w)'
  BY <1>1, <1>3 DEF AloneIdle, Bytes
<1> QED
  BY <1>3, <1>4 DEF AlonePass

LEMMA NextAlonePass ==
  ASSUME SpoolInv, SpoolInv', NEW w \in Ranks, AlonePass(w), AloneIdle(w),
         RankStep(w) \/ Kill(w)
  PROVE  AlonePass(w)' /\ AloneIdle(w)'
<1>1. /\ rank \in [Ranks -> Writer] /\ rank[w] \in Writer /\ rank[w].pass \in Pass
      /\ WriteOk(w) /\ PassOk(w)
      /\ disk \in [Batches -> {"none", "tmp", "sealed", "evicted", "swept"}]
  BY TypedWriter DEF SpoolInv, SpoolType
<1>2. /\ rank[w].pass.tmps \subseteq Batches /\ rank[w].pass.batches \subseteq Batches
      /\ rank[w].pass.total \in Nat /\ rank[w].pass.inFlight \in Nat
  BY TypedWriter DEF SpoolInv
<1>3. /\ Unsealed \in SUBSET Batches /\ Sealed \in SUBSET Batches
      /\ OnDisk \in SUBSET Batches /\ OnDisk = Unsealed \cup Sealed
      /\ Bytes(OnDisk) \in Nat /\ Bytes(Unsealed) \in Nat
  BY BytesOnDisk DEF SpoolInv
<1>4. CASE WriteTmp(w) \/ EnforceCap(w) \/ Kill(w)
  <2>1. CASE WriteTmp(w)
    BY <1>1, <2>1, NothingKnown DEF WriteTmp, Writer
  <2>2. CASE EnforceCap(w)
    BY <1>1, <2>2, NothingKnown DEF EnforceCap, Writer
  <2>3. CASE Kill(w)
    <3>1. PICK n : n = Bytes(OnDisk)
      OBVIOUS
    <3>2. rank'[w] = Fresh(n)
      BY <1>1, <2>3, <3>1 DEF Kill
    <3> QED
      BY <3>2, NothingKnown DEF Fresh
  <2> QED
    BY <1>4, <2>1, <2>2, <2>3
<1>5. CASE WriteFails(w) \/ ReplaceFails(w)
  <2>1. rank'[w].pc = "idle" /\ rank'[w].exact = rank[w].exact /\ rank[w].pc = "replace"
    BY <1>1, <1>5 DEF WriteFails, ReplaceFails, Writer
  <2> QED
    BY <1>1, <2>1, NothingKnown DEF WriteOk
<1>6. CASE Replace(w)
  <2>1. PICK pc \in {"list", "idle"} : pc = IF Due(rank[w].total + Size[rank[w].batch],
                                             rank[w].writes + 1, rank[w].blocked)
                                   THEN "list" ELSE "idle"
    OBVIOUS
  <2>2. rank'[w].pc = pc /\ rank'[w].exact = rank[w].exact /\ rank[w].pc = "replace"
    BY <1>1, <1>6, <2>1 DEF Replace, Writer
  <2> QED
    BY <1>1, <2>1, <2>2, NothingKnown DEF WriteOk
<1>7. CASE List(w)
  <2>1. /\ rank'[w].pc = "stat" /\ rank'[w].pass.tmps = Unsealed /\ rank'[w].pass.batches = Sealed
        /\ disk' = disk
    BY <1>1, <1>7 DEF List, Writer, NoPass
  <2>2. Unsealed' = Unsealed /\ Sealed' = Sealed
    BY <2>1 DEF Unsealed, Sealed
  <2> QED
    BY <2>1, <2>2 DEF AlonePass, AloneIdle
<1>8. CASE Stat(w)
  <2>1. rank[w].pass.tmps = Unsealed /\ rank[w].pass.batches = Sealed
    BY <1>8 DEF AlonePass, Stat
  <2>2. PICK tmps : tmps = rank[w].pass.tmps \cap Unsealed
    OBVIOUS
  <2>3. PICK batches : batches = rank[w].pass.batches \cap Sealed
    OBVIOUS
  <2>4. tmps = Unsealed /\ batches = Sealed
    BY <2>1, <2>2, <2>3
  <2>5. PICK total : total = Bytes(tmps \cup batches)
    OBVIOUS
  <2>6. PICK inFlight : inFlight = Bytes(tmps)
    OBVIOUS
  <2>7. /\ rank'[w].pc = "sweep" /\ rank'[w].pass.tmps = tmps /\ rank'[w].pass.batches = batches
        /\ rank'[w].pass.total = total /\ rank'[w].pass.inFlight = inFlight
        /\ disk' = disk
    BY <1>1, <1>8, <2>2, <2>3, <2>5, <2>6 DEF Stat, Writer
  <2>8. total = Bytes(OnDisk) /\ inFlight = Bytes(Unsealed)
    BY <1>3, <2>4, <2>5, <2>6
  <2>9. Unsealed' = Unsealed /\ Sealed' = Sealed /\ OnDisk' = OnDisk
    BY <2>7 DEF Unsealed, Sealed, OnDisk
  <2> QED
    BY <2>4, <2>7, <2>8, <2>9 DEF AlonePass, AloneIdle, Bytes
<1>9. CASE SweepOne(w)
  <2>1. PICK b : b = Min(rank[w].pass.tmps)
    OBVIOUS
  <2>2. PICK k, failed : /\ SweptTo(w, b, k, failed) /\ k \in {0, Size[b]}
                         /\ Left(w, b, k, failed) \/ Gone(w, b, k, failed)
    BY <1>9, <2>1, SweepEffect
  <2>3. rank[w].pc = "sweep" /\ rank[w].pass.tmps # {}
    BY <1>9 DEF SweepOne
  <2>4. /\ rank[w].pass.tmps \subseteq Unsealed /\ rank[w].pass.batches = Sealed
        /\ rank[w].pass.total = Bytes(OnDisk) /\ rank[w].pass.inFlight = Bytes(Unsealed)
    BY <2>3 DEF AlonePass
  <2>5. b \in rank[w].pass.tmps /\ b \in Batches /\ disk[b] = "tmp"
    BY <1>2, <2>1, <2>3, <2>4, MinBatch DEF Unsealed
  <2>6. /\ rank'[w].pc = "sweep" /\ rank'[w].pass.tmps = rank[w].pass.tmps \ {b}
        /\ rank'[w].pass.batches = rank[w].pass.batches
        /\ rank'[w].pass.total = rank[w].pass.total - k
        /\ rank'[w].pass.inFlight = rank[w].pass.inFlight - k
    BY <1>1, <2>2, <2>3 DEF SweptTo, Writer, Pass
  <2>7. CASE Left(w, b, k, failed)
    <3>1. k = 0 /\ disk' = disk
      BY <2>5, <2>7 DEF Left
    <3>2. Unsealed' = Unsealed /\ Sealed' = Sealed /\ OnDisk' = OnDisk
      BY <3>1 DEF Unsealed, Sealed, OnDisk
    <3>3. rank'[w].pass.total = rank[w].pass.total
          /\ rank'[w].pass.inFlight = rank[w].pass.inFlight
      BY <1>2, <2>6, <3>1
    <3> QED
      BY <2>4, <2>6, <3>2, <3>3 DEF AlonePass, AloneIdle, Bytes
  <2>8. CASE Gone(w, b, k, failed)
    <3>1. k = Size[b] /\ disk' = [disk EXCEPT ![b] = "swept"]
      BY <2>8 DEF Gone
    <3>2. /\ Unsealed' = Unsealed \ {b} /\ Sealed' = Sealed /\ OnDisk' = OnDisk \ {b}
          /\ b \in Unsealed /\ b \in OnDisk
      BY <1>1, <2>5, <3>1 DEF Unsealed, Sealed, OnDisk
    <3>3. /\ Bytes(OnDisk) = Size[b] + Bytes(OnDisk \ {b})
          /\ Bytes(Unsealed) = Size[b] + Bytes(Unsealed \ {b}) /\ Size[b] \in Nat
      BY <1>3, <3>2, BytesTake
    <3>4. Bytes(OnDisk \ {b}) \in Nat /\ Bytes(Unsealed \ {b}) \in Nat
      <4>1. OnDisk \ {b} \in SUBSET Batches /\ Unsealed \ {b} \in SUBSET Batches
        BY <1>3
      <4> QED
        BY <4>1, BytesNat
    <3>5. /\ rank'[w].pass.total = Bytes(OnDisk \ {b})
          /\ rank'[w].pass.inFlight = Bytes(Unsealed \ {b})
      BY <2>4, <2>6, <3>1, <3>3, <3>4
    <3> QED
      BY <2>4, <2>6, <3>2, <3>5 DEF AlonePass, AloneIdle, Bytes
  <2> QED
    BY <2>2, <2>7, <2>8
<1>10. CASE Decide(w)
  <2>1. rank[w].pc = "sweep" /\ disk' = disk
    BY <1>10 DEF Decide
  <2>2. CASE rank[w].pass.inFlight >= MaxBytes
    <3>1. rank' = Finished(w, TRUE)
      BY <1>10, <2>2 DEF Decide
    <3> QED
      BY <2>1, <2>2, <3>1, AloneFinished DEF AlonePass
  <2>3. CASE ~ (rank[w].pass.inFlight >= MaxBytes)
    <3>1. rank'[w].pc = "evict" /\ rank'[w].pass = rank[w].pass
      BY <1>1, <1>10, <2>3 DEF Decide, Writer
    <3>2. Unsealed' = Unsealed /\ Sealed' = Sealed /\ OnDisk' = OnDisk
      BY <2>1 DEF Unsealed, Sealed, OnDisk
    <3>3. rank[w].pass.inFlight < MaxBytes
      BY <1>2, <2>3, SpoolAssumption
    <3> QED
      BY <2>1, <3>1, <3>2, <3>3 DEF AlonePass, AloneIdle, Bytes
  <2> QED
    BY <2>2, <2>3
<1>11. CASE EvictOne(w)
  <2>1. PICK b : b = Min(rank[w].pass.batches)
    OBVIOUS
  <2>2. PICK k, n, failed : /\ EvictedTo(w, b, k, n, failed) /\ failed \in BOOLEAN
                            /\ rank[w].failed => failed
                            /\ Counted(w, b, k, n, failed) \/ NotCounted(w, b, k, n, failed)
    BY <1>11, <2>1, EvictEffect
  <2>3. rank[w].pc = "evict" /\ rank[w].pass.batches # {}
    BY <1>11 DEF EvictOne
  <2>4. /\ rank[w].pass.batches \subseteq Sealed /\ (rank[w].failed \/ rank[w].pass.batches = Sealed)
        /\ rank[w].pass.inFlight < MaxBytes
        /\ rank[w].pass.total = Bytes(OnDisk) /\ rank[w].pass.inFlight = Bytes(Unsealed)
    BY <2>3 DEF AlonePass
  <2>5. b \in rank[w].pass.batches /\ b \in Batches /\ disk[b] = "sealed"
    BY <1>2, <2>1, <2>3, <2>4, MinBatch DEF Sealed
  <2>6. /\ rank'[w].pc = "evict" /\ rank'[w].pass.batches = rank[w].pass.batches \ {b}
        /\ rank'[w].pass.total = rank[w].pass.total - k
        /\ rank'[w].pass.inFlight = rank[w].pass.inFlight
        /\ rank'[w].failed = failed
    BY <1>1, <2>2, <2>3 DEF EvictedTo, Writer, Pass
  <2>7. CASE NotCounted(w, b, k, n, failed)
    <3>1. k = 0 /\ disk' = disk /\ failed
      BY <2>5, <2>7 DEF NotCounted
    <3>2. Unsealed' = Unsealed /\ Sealed' = Sealed /\ OnDisk' = OnDisk
      BY <3>1 DEF Unsealed, Sealed, OnDisk
    <3>3. rank'[w].pass.total = rank[w].pass.total
      BY <1>2, <2>6, <3>1
    <3> QED
      BY <2>4, <2>6, <3>1, <3>2, <3>3 DEF AlonePass, AloneIdle, Bytes
  <2>8. CASE Counted(w, b, k, n, failed)
    <3>1. k = Size[b] /\ disk' = [disk EXCEPT ![b] = "evicted"] /\ failed = rank[w].failed
      BY <2>8 DEF Counted
    <3>2. /\ Unsealed' = Unsealed /\ Sealed' = Sealed \ {b} /\ OnDisk' = OnDisk \ {b}
          /\ b \in OnDisk
      BY <1>1, <2>5, <3>1 DEF Unsealed, Sealed, OnDisk
    <3>3. Bytes(OnDisk) = Size[b] + Bytes(OnDisk \ {b}) /\ Size[b] \in Nat
      BY <1>3, <3>2, BytesTake
    <3>4. Bytes(OnDisk \ {b}) \in Nat
      <4>1. OnDisk \ {b} \in SUBSET Batches
        BY <1>3
      <4> QED
        BY <4>1, BytesNat
    <3>5. rank'[w].pass.total = Bytes(OnDisk \ {b})
      BY <2>4, <2>6, <3>1, <3>3, <3>4
    <3>6. /\ rank'[w].pass.batches \subseteq Sealed'
          /\ rank'[w].failed \/ rank'[w].pass.batches = Sealed'
      BY <2>4, <2>6, <3>1, <3>2
    <3> QED
      BY <2>4, <2>6, <3>2, <3>5, <3>6 DEF AlonePass, AloneIdle, Bytes
  <2> QED
    BY <2>2, <2>7, <2>8
<1>12. CASE EvictDone(w)
  <2>1. /\ rank[w].pc = "evict" /\ rank' = Finished(w, FALSE) /\ disk' = disk
        /\ rank[w].pass.batches = {} \/ rank[w].pass.total <= MaxBytes
    BY <1>12 DEF EvictDone
  <2>2. /\ rank[w].failed \/ rank[w].pass.batches = Sealed
        /\ rank[w].pass.inFlight < MaxBytes
        /\ rank[w].pass.total = Bytes(OnDisk) /\ rank[w].pass.inFlight = Bytes(Unsealed)
    BY <2>1 DEF AlonePass
  <2>3. rank[w].pass.total <= MaxBytes \/ rank[w].failed
    <3>1. CASE rank[w].pass.batches = {} /\ ~ rank[w].failed
      <4>1. OnDisk = Unsealed
        BY <1>3, <2>2, <3>1
      <4> QED
        BY <1>2, <2>2, <4>1, SpoolAssumption
    <3> QED
      BY <2>1, <3>1
  <2> QED
    BY <2>1, <2>2, <2>3, AloneFinished
<1> QED
  BY <1>4, <1>5, <1>6, <1>7, <1>8, <1>9, <1>10, <1>11, <1>12 DEF RankStep

\* A rank that is alone is the only one that takes a step.
LEMMA OnlyRank ==
  ASSUME SpoolInv, Alone, NEW w \in setup.ranks, NEW v \in setup.ranks
  PROVE  w = v /\ w \in Ranks
<1>1. setup.ranks \subseteq Ranks
  BY SpoolAssumption DEF SpoolInv, SpoolType, Circumstances
<1>2. IsFiniteSet(setup.ranks)
  BY <1>1, FS_Subset, SpoolAssumption
<1>3. \E x : setup.ranks = {x}
  BY <1>2, FS_Singleton DEF Alone
<1> QED
  BY <1>1, <1>3

LEMMA NextAlone == SpoolInv /\ SpoolInv' /\ AloneOk /\ [Next]_vars => AloneOk'
<1> SUFFICES ASSUME SpoolInv, SpoolInv', AloneOk, [Next]_vars, Alone', NEW w \in setup'.ranks
             PROVE  AlonePass(w)' /\ AloneIdle(w)'
  BY DEF AloneOk
<1>1. setup' = setup
  BY DEF Next, vars
<1>2. Alone /\ w \in setup.ranks /\ AlonePass(w) /\ AloneIdle(w)
  BY <1>1 DEF Alone, AloneOk
<1>3. w \in Ranks
  BY <1>2, OnlyRank
<1>4. CASE UNCHANGED <<disk, rank>>
  <2>1. Unsealed' = Unsealed /\ Sealed' = Sealed /\ OnDisk' = OnDisk
    BY <1>4 DEF Unsealed, Sealed, OnDisk
  <2> QED
    BY <1>2, <1>4, <2>1 DEF AlonePass, AloneIdle, Bytes
<1>5. ASSUME NEW v \in setup.ranks, RankStep(v) \/ Kill(v)
      PROVE  AlonePass(w)' /\ AloneIdle(w)'
  <2>1. v = w
    BY <1>2, OnlyRank
  <2> QED
    BY <1>2, <1>3, <1>5, <2>1, NextAlonePass
<1> QED
  BY <1>4, <1>5 DEF Next, GrowOld, vars

\* After a pass a writer that is alone in its directory knows what is there, and keeps it
\* below the cap unless temp files fill it or a file would not go (_enforce_cap_locked).
THEOREM CapIsKept == Spec => []CapKept
<1>1. Init => AloneOk
  <2> SUFFICES ASSUME Init, NEW w \in setup.ranks PROVE AlonePass(w) /\ AloneIdle(w)
    BY DEF AloneOk
  <2>1. rank[w] = Fresh(0)
    BY SpoolAssumption DEF Init, Circumstances
  <2> QED
    BY <2>1 DEF AlonePass, AloneIdle, Fresh
<1>2. AloneOk => CapKept
  BY DEF AloneOk, AloneIdle, CapKept, ExactAfterPass, CapHolds
<1> QED
  BY <1>1, <1>2, InitSpool, NextSpool, NextAlone, PTL DEF Spec

-------------------------------------------------------------------------------
(* What a step may never do                                                    *)

\* Only EvictOne counts a batch.
LEMMA OnlyEvictions ==
  ASSUME SpoolInv, [Next]_vars, NEW w \in Ranks,
         rank'[w].pass.dropped > rank[w].pass.dropped
  PROVE  w \in setup.ranks /\ EvictOne(w)
<1>1. /\ rank \in [Ranks -> Writer] /\ rank[w] \in Writer /\ rank[w].pass \in Pass
      /\ rank[w].pass.dropped \in Nat /\ setup.ranks \subseteq Ranks
  BY TypedWriter, SpoolAssumption DEF SpoolInv, SpoolType, Circumstances
<1>2. rank' # rank
  BY <1>1
<1>3. PICK v \in setup.ranks : RankStep(v) \/ Kill(v)
  BY <1>2 DEF Next, GrowOld, vars
<1>4. v \in Ranks /\ rank[v] \in Writer /\ rank[v].pass \in Pass
  BY <1>1, TypedWriter DEF SpoolInv
<1>5. \A u \in Ranks : u # v => rank'[u] = rank[u]
  <2>1. CASE SweepOne(v)
    <3>1. PICK b, k, failed : SweptTo(v, b, k, failed)
      BY <1>4, <2>1, SweepEffect
    <3> QED
      BY <1>1, <3>1 DEF SweptTo
  <2>2. CASE EvictOne(v)
    <3>1. PICK b, k, n, failed : EvictedTo(v, b, k, n, failed)
      BY <1>4, <2>2, EvictEffect
    <3> QED
      BY <1>1, <3>1 DEF EvictedTo
  <2> QED
    BY <1>1, <1>3, <2>1, <2>2 DEF RankStep, WriteTmp, WriteFails, Replace, ReplaceFails,
       EnforceCap, List, Stat, Decide, EvictDone, Finished, Kill
<1>6. v = w
  BY <1>1, <1>5
<1>7. ASSUME rank'[w].pass.dropped = 0
      PROVE  FALSE
  BY <1>1, <1>7
<1>8. ASSUME rank'[w].pass.dropped = rank[w].pass.dropped
      PROVE  FALSE
  BY <1>1, <1>8
<1>9. CASE WriteTmp(w) \/ WriteFails(w) \/ Replace(w) \/ ReplaceFails(w) \/ EnforceCap(w)
  <2>1. CASE WriteTmp(w)
    BY <1>1, <1>8, <2>1 DEF WriteTmp, Writer
  <2>2. CASE WriteFails(w) \/ ReplaceFails(w)
    BY <1>1, <1>8, <2>2 DEF WriteFails, ReplaceFails, Writer
  <2>3. CASE Replace(w)
    BY <1>1, <1>8, <2>3 DEF Replace, Writer
  <2>4. CASE EnforceCap(w)
    BY <1>1, <1>8, <2>4 DEF EnforceCap, Writer
  <2> QED
    BY <1>9, <2>1, <2>2, <2>3, <2>4
<1>10. CASE List(w) \/ Stat(w)
  BY <1>1, <1>7, <1>10 DEF List, Stat, Writer, NoPass
<1>11. CASE SweepOne(w)
  <2>1. PICK b, k, failed : SweptTo(w, b, k, failed)
    BY <1>11, SweepEffect
  <2> QED
    BY <1>1, <1>8, <2>1 DEF SweptTo, Writer, Pass
<1>12. CASE Decide(w) \/ EvictDone(w)
  <2>1. ASSUME NEW blocked, rank' = Finished(w, blocked)
        PROVE  FALSE
    BY <1>1, <1>7, <2>1 DEF Finished, Writer, NoPass
  <2> QED
    <3>1. CASE EvictDone(w)
      BY <2>1, <3>1 DEF EvictDone
    <3>2. CASE Decide(w)
      <4>1. CASE rank' = [rank EXCEPT ![w].pc = "evict"]
        BY <1>1, <1>8, <4>1 DEF Writer
      <4> QED
        BY <2>1, <3>2, <4>1 DEF Decide
    <3> QED
      BY <1>12, <3>1, <3>2
<1>13. CASE Kill(w)
  <2>1. PICK n : n = Bytes(OnDisk)
    OBVIOUS
  <2>2. rank'[w] = Fresh(n)
    BY <1>1, <1>13, <2>1 DEF Kill
  <2> QED
    BY <1>7, <2>2 DEF Fresh, NoPass
<1> QED
  BY <1>3, <1>6, <1>9, <1>10, <1>11, <1>12, <1>13 DEF RankStep

LEMMA EvictionsNeeded ==
  ASSUME SpoolInv, AloneOk, [Next]_vars, NEW w \in Ranks, Evicts(w)
  PROVE  /\ Bytes(OnDisk) > MaxBytes
         /\ rank[w].failed \/ \A b \in Batches : disk[b] = "sealed" /\ disk'[b] = "evicted" =>
                                 \A a \in Sealed : a < b => disk'[a] = "evicted"
         /\ rank[w].failed \/ \A b \in rank[w].pass.old : disk[b] # "tmp"
<1>1. Alone /\ w \in setup.ranks /\ EvictOne(w)
  BY OnlyEvictions DEF Evicts
<1>2. /\ rank[w].pc = "evict" /\ rank[w].pass.batches # {} /\ rank[w].pass.total > MaxBytes
      /\ AlonePass(w) /\ PassOk(w)
  BY <1>1 DEF EvictOne, AloneOk, SpoolInv
<1>3. PICK b : b = Min(rank[w].pass.batches)
  OBVIOUS
<1>4. \A a \in Batches : disk[a] = "sealed" /\ disk'[a] = "evicted" => a = b
  <2>1. PICK k, n, failed : Counted(w, b, k, n, failed) \/ NotCounted(w, b, k, n, failed)
    BY <1>1, <1>3, EvictEffect
  <2>2. disk \in [Batches -> {"none", "tmp", "sealed", "evicted", "swept"}]
    BY DEF SpoolInv, SpoolType
  <2> QED
    BY <2>1, <2>2 DEF Counted, NotCounted
<1>5. rank[w].pass.batches \subseteq Batches
      /\ (rank[w].failed \/ rank[w].pass.batches = Sealed)
  BY <1>2, TypedWriter DEF AlonePass, SpoolInv
<1>6. \A a \in rank[w].pass.batches : b <= a /\ a \in Nat /\ b \in Nat
  BY <1>2, <1>3, <1>5, MinBatch, SpoolAssumption
<1>7. \A a \in rank[w].pass.batches : ~ (a < b)
  BY <1>6
<1> QED
  BY <1>2, <1>4, <1>5, <1>7 DEF AlonePass, PassOk

\* While temp files block the cap a pass runs only every RescanEvery writes; a writer
\* alone in its directory evicts only while the directory is over its cap, the oldest
\* batch first, and never to make room for a temp file that was stale already.
THEOREM PassesAreJustified == Spec => PassesJustified
<1> DEFINE Needed == \A w \in Ranks : Evicts(w) =>
                       /\ Bytes(OnDisk) > MaxBytes
                       /\ \/ rank[w].failed
                          \/ \A b \in Batches : disk[b] = "sealed" /\ disk'[b] = "evicted" =>
                                \A a \in Sealed : a < b => disk'[a] = "evicted"
           AfterSweep == \A w \in Ranks : Evicts(w) =>
                           rank[w].failed \/ \A b \in rank[w].pass.old : disk[b] # "tmp"
           Seldom == \A w \in setup.ranks :
                       rank[w].pc = "replace" /\ rank'[w].pc = "list" /\ rank[w].blocked
                          => rank'[w].writes = RescanEvery
<1>1. SpoolInv /\ AloneOk /\ [Next]_vars => Needed /\ AfterSweep
  BY EvictionsNeeded
<1>2. SpoolInv /\ [Next]_vars => Seldom
  <2> SUFFICES ASSUME SpoolInv, [Next]_vars, NEW w \in setup.ranks,
                      rank[w].pc = "replace", rank'[w].pc = "list", rank[w].blocked
               PROVE  rank'[w].writes = RescanEvery
    OBVIOUS
  <2>1. /\ rank \in [Ranks -> Writer] /\ w \in Ranks /\ rank[w] \in Writer /\ WriteOk(w)
        /\ setup.ranks \subseteq Ranks
    BY TypedWriter, SpoolAssumption DEF SpoolInv, SpoolType, Circumstances
  <2>2. PICK v \in setup.ranks : RankStep(v) \/ Kill(v)
    BY DEF Next, GrowOld, vars
  <2>3. Replace(w)
    <3>1. v \in Ranks /\ rank[v] \in Writer
      BY <2>1, TypedWriter DEF SpoolInv
    <3>2. ~ SweepOne(v)
      <4> SUFFICES ASSUME SweepOne(v) PROVE FALSE
        OBVIOUS
      <4>1. PICK b, k, failed : SweptTo(v, b, k, failed)
        BY <3>1, SweepEffect
      <4> QED
        BY <2>1, <3>1, <4>1 DEF SweptTo, Writer
    <3>3. ~ EvictOne(v)
      <4> SUFFICES ASSUME EvictOne(v) PROVE FALSE
        OBVIOUS
      <4>1. PICK b, k, n, failed : EvictedTo(v, b, k, n, failed)
        BY <3>1, EvictEffect
      <4> QED
        BY <2>1, <3>1, <4>1 DEF EvictedTo, Writer
    <3>4. ~ Kill(v)
      <4> SUFFICES ASSUME Kill(v) PROVE FALSE
        OBVIOUS
      <4>1. PICK n : n = Bytes(OnDisk)
        OBVIOUS
      <4> QED
        BY <2>1, <3>1, <4>1 DEF Kill, Fresh
    <3>5. v = w
      <4> SUFFICES ASSUME v # w PROVE rank'[w] = rank[w]
        OBVIOUS
      <4> QED
        BY <2>1, <2>2, <3>1, <3>2, <3>3, <3>4 DEF RankStep, WriteTmp, WriteFails, Replace,
           ReplaceFails, EnforceCap, List, Stat, Decide, EvictDone, Finished
    <3>6. ~ (WriteFails(w) \/ ReplaceFails(w))
      BY <2>1 DEF WriteFails, ReplaceFails, Writer
    <3> QED
      BY <2>2, <3>2, <3>3, <3>4, <3>5, <3>6 DEF RankStep, WriteTmp, EnforceCap, List, Stat,
         Decide, EvictDone
  <2>4. PICK total : total = rank[w].total + Size[rank[w].batch]
    OBVIOUS
  <2>5. rank'[w].writes = rank[w].writes + 1
        /\ Due(total, rank[w].writes + 1, rank[w].blocked)
    BY <2>1, <2>3, <2>4 DEF Replace, Writer
  <2>6. rank[w].writes + 1 >= RescanEvery
    BY <2>5 DEF Due
  <2>7. rank[w].writes < RescanEvery /\ rank[w].writes \in Nat /\ RescanEvery \in Nat
    BY <2>1, SpoolAssumption DEF WriteOk, Writer
  <2> QED
    BY <2>5, <2>6, <2>7
<1>3. Init => SpoolInv /\ AloneOk
  <2> SUFFICES ASSUME Init, NEW w \in setup.ranks PROVE AlonePass(w) /\ AloneIdle(w)
    BY InitSpool DEF AloneOk
  <2>1. rank[w] = Fresh(0)
    BY SpoolAssumption DEF Init, Circumstances
  <2> QED
    BY <2>1 DEF AlonePass, AloneIdle, Fresh
<1>4. SpoolInv /\ AloneOk /\ [Next]_vars => (SpoolInv /\ AloneOk)'
  BY NextSpool, NextAlone
<1>5. Spec => [][Needed]_vars /\ [][AfterSweep]_vars /\ [][Seldom]_vars
  <2> HIDE DEF Needed, AfterSweep, Seldom
  <2> QED
    BY <1>1, <1>2, <1>3, <1>4, PTL DEF Spec
<1> QED
  BY <1>5 DEF PassesJustified, EvictsOldestAndNeeded, SweptBeforeEvicted, BlockedScansSeldom
===============================================================================

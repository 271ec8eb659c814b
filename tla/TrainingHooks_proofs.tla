-------------------------- MODULE TrainingHooks_proofs --------------------------
(***************************************************************************)
(* Proofs about TrainingHooks, for any frameworks and callbacks, any epoch *)
(* length and reap interval, with and without CUDA, and any bounds.        *)
(*                                                                         *)
(* Two invariants carry them.  ClaimInv: whose run is under way, and which *)
(* of its claims stand.  HookInv: what the scopes, the closures and the    *)
(* open constructs have to do with each other; its heart is NestOk, that   *)
(* no pop inside a hooked operation reaches the span of the operation      *)
(* before the hook that is to end it.                                      *)
(***************************************************************************)
EXTENDS TrainingHooks, FiniteSetTheorems, TLAPS

-------------------------------------------------------------------------------
(* What the proofs say of a world w (the stack and the scopes) and of what the *)
(* hook keeps, t.                                                              *)

Names  == {"epoch", "step"}
Others == Frameworks \ {"torch"}
Ops    == {"forward", "backward", "optimizer_step"}
Own    == {"user", "backward", "optimizer_step"}
Kinds  == Own \cup {"session", "epoch", "step", "forward"}
Makers == Others \cup {"user", "torch"}
Active == {"train", "epoch", "step"}

ScopeRec == [kind : Kinds, by : Makers, within : Nat, ended : BOOLEAN, emitted : Nat]
World    == [stack : Seq(Nat), all : Seq(ScopeRec), stolen : SUBSET Nat, swept : SUBSET Nat]
Pair     == [span : Nat, ready : BOOLEAN]
Closure  == [epoch : Nat, step : Nat, steps : Nat, dl : BOOLEAN, depth : Nat, fwd : Nat,
             items : SUBSET Pair, ops : Nat, iter : BOOLEAN, off : BOOLEAN]

On(w)     == {w.stack[i] : i \in 1..Len(w.stack)}
Rising(q) == \A i, j \in 1..Len(q) : i < j => q[i] < q[j]

\* The stack holds scopes that were opened, in the order they were opened in.
WorldOk(w) == w \in World /\ Rising(w.stack) /\ On(w) \subseteq 1..Len(w.all)

\* From w to v scopes end, each of them emitted, and come off the stack.
Shuts(w, v) ==
    /\ WorldOk(v)
    /\ Len(v.all) = Len(w.all)
    /\ \A s \in 1..Len(w.all) :
          /\ v.all[s].kind = w.all[s].kind /\ v.all[s].by = w.all[s].by
          /\ v.all[s].within = w.all[s].within
          /\ w.all[s].ended => v.all[s].ended
          /\ v.all[s].emitted = IF v.all[s].ended /\ ~w.all[s].ended
                                THEN w.all[s].emitted + 1 ELSE w.all[s].emitted
    /\ On(v) \subseteq On(w)
    /\ w.stolen \subseteq v.stolen /\ w.swept \subseteq v.swept

\* It is S that ends, and nobody takes anything off unasked.
Ends(w, v, S) ==
    /\ Shuts(w, v)
    /\ \A s \in 1..Len(w.all) : v.all[s].ended <=> (w.all[s].ended \/ s \in S)
    /\ v.stolen = w.stolen /\ v.swept = w.swept

LEMMA ClosedAllDoes ==
  ASSUME NEW w, WorldOk(w), NEW S
  PROVE  Ends(w, ClosedAll(w, S), S) /\ ClosedAll(w, S).stack = w.stack
<1> DEFINE a == [i \in DOMAIN w.all |->
                   IF i \in S /\ ~w.all[i].ended
                   THEN Emitted([w.all[i] EXCEPT !.ended = TRUE]) ELSE w.all[i]]
<1>1. w \in World /\ w.all \in Seq(ScopeRec) /\ DOMAIN w.all = 1..Len(w.all)
  BY DEF WorldOk, World
<1>2. ClosedAll(w, S) = [w EXCEPT !.all = a]
  BY DEF ClosedAll
<1>3. \A i \in 1..Len(w.all) :
        /\ w.all[i] \in ScopeRec /\ a[i] \in ScopeRec
        /\ a[i].kind = w.all[i].kind /\ a[i].by = w.all[i].by /\ a[i].within = w.all[i].within
        /\ a[i].ended <=> (w.all[i].ended \/ i \in S)
        /\ a[i].emitted = IF a[i].ended /\ ~w.all[i].ended THEN w.all[i].emitted + 1 ELSE w.all[i].emitted
  <2> SUFFICES ASSUME NEW i \in 1..Len(w.all)
               PROVE  /\ w.all[i] \in ScopeRec /\ a[i] \in ScopeRec
                      /\ a[i].kind = w.all[i].kind /\ a[i].by = w.all[i].by
                      /\ a[i].within = w.all[i].within
                      /\ a[i].ended <=> (w.all[i].ended \/ i \in S)
                      /\ a[i].emitted = IF a[i].ended /\ ~w.all[i].ended THEN w.all[i].emitted + 1 ELSE w.all[i].emitted
    OBVIOUS
  <2>1. w.all[i] \in ScopeRec
    BY <1>1
  <2>2. PICK r : r = w.all[i]
    OBVIOUS
  <2>3. r.ended \in BOOLEAN /\ r.emitted \in Nat
    BY <2>1, <2>2 DEF ScopeRec
  <2>4. CASE i \in S /\ ~r.ended
    <3>1. a[i] = Emitted([r EXCEPT !.ended = TRUE])
      BY <1>1, <2>2, <2>4
    <3> DEFINE p == [r EXCEPT !.ended = TRUE]
               q == Emitted(p)
    <3>2. /\ p \in ScopeRec /\ p.kind = r.kind /\ p.by = r.by /\ p.within = r.within
          /\ p.ended = TRUE /\ p.emitted = r.emitted
      BY <2>1, <2>2 DEF ScopeRec
    <3> HIDE DEF p
    <3>3. /\ q \in ScopeRec /\ q.kind = r.kind /\ q.by = r.by /\ q.within = r.within
          /\ q.ended = TRUE /\ q.emitted = r.emitted + 1
      BY <3>2 DEF ScopeRec, Emitted
    <3> HIDE DEF q
    <3>4. a[i] = q
      BY <3>1 DEF p, q
    <3> QED
      BY <2>1, <2>2, <2>3, <2>4, <3>3, <3>4
  <2>5. CASE ~(i \in S /\ ~r.ended)
    <3>1. a[i] = w.all[i]
      BY <1>1, <2>2, <2>5
    <3>2. w.all[i].ended <=> (w.all[i].ended \/ i \in S)
      BY <2>2, <2>3, <2>5
    <3> HIDE DEF a
    <3> QED
      BY <2>1, <3>1, <3>2
  <2> QED
    BY <2>4, <2>5
<1>4. a \in Seq(ScopeRec) /\ Len(a) = Len(w.all)
  <2>1. a \in [1..Len(w.all) -> ScopeRec]
    BY <1>1, <1>3
  <2>2. Len(w.all) \in Nat
    BY <1>1
  <2> HIDE DEF a
  <2> QED
    BY <2>1, <2>2
<1> HIDE DEF a
<1> DEFINE v == [w EXCEPT !.all = a]
<1>5. v \in World /\ v.stack = w.stack /\ v.all = a /\ v.stolen = w.stolen /\ v.swept = w.swept
  BY <1>1, <1>4 DEF World
<1> HIDE DEF v
<1>6. On(v) = On(w) /\ WorldOk(v)
  BY <1>4, <1>5 DEF WorldOk, On
<1>7. Ends(w, v, S)
  BY <1>3, <1>4, <1>5, <1>6 DEF Ends, Shuts
<1> QED
  BY <1>2, <1>5, <1>7 DEF v

\* A shorter stack of the same order is a stack.
LEMMA Shortened ==
  ASSUME NEW w, WorldOk(w), NEW q \in Seq(Nat), Rising(q), \A i \in 1..Len(q) : q[i] \in On(w)
  PROVE  LET v == [w EXCEPT !.stack = q]
         IN  /\ Ends(w, v, {}) /\ v.stack = q /\ v.all = w.all
             /\ On(v) = {q[i] : i \in 1..Len(q)}
<1> DEFINE v == [w EXCEPT !.stack = q]
<1>1. v \in World /\ v.stack = q /\ v.all = w.all /\ v.stolen = w.stolen /\ v.swept = w.swept
  BY DEF WorldOk, World
<1> HIDE DEF v
<1>2. On(v) = {q[i] : i \in 1..Len(q)} /\ On(v) \subseteq On(w)
  BY <1>1 DEF On
<1>3. WorldOk(v)
  BY <1>1, <1>2 DEF WorldOk
<1>4. Ends(w, v, {})
  BY <1>1, <1>2, <1>3 DEF Ends, Shuts
<1> QED
  BY <1>1, <1>2, <1>4 DEF v

LEMMA ShutsOn ==
  ASSUME NEW w, NEW u, NEW v, Shuts(w, u), Shuts(u, v)
  PROVE  Shuts(w, v)
BY DEF Shuts

LEMMA EndsOn ==
  ASSUME NEW w, NEW u, NEW v, NEW S, NEW T, Ends(w, u, S), Ends(u, v, T)
  PROVE  Ends(w, v, S \cup T)
<1>1. Shuts(w, v)
  BY ShutsOn DEF Ends
<1> QED
  BY <1>1 DEF Ends, Shuts

LEMMA OnStack ==
  ASSUME NEW w, WorldOk(w)
  PROVE  /\ w.stack = <<>> => On(w) = {} /\ Top(w) = None
         /\ w.stack # <<>> => /\ Top(w) \in On(w) /\ Top(w) \in 1..Len(w.all)
                              /\ \A x \in On(w) : x <= Top(w)
                              /\ \A x \in On(w) \ {Top(w)} : x < Top(w)
<1>1. w.stack \in Seq(Nat)
  BY DEF WorldOk, World
<1>2. CASE w.stack = <<>>
  BY <1>2 DEF On, Top
<1>3. CASE w.stack # <<>>
  <2>1. Len(w.stack) \in Nat /\ Len(w.stack) >= 1 /\ Top(w) = w.stack[Len(w.stack)]
    BY <1>1, <1>3 DEF Top, Last
  <2>2. Top(w) \in On(w)
    BY <2>1 DEF On
  <2>3. \A i \in 1..Len(w.stack) : i # Len(w.stack) => w.stack[i] < Top(w)
    BY <2>1 DEF WorldOk, Rising
  <2>4. \A x \in On(w) : x = Top(w) \/ x < Top(w)
    BY <2>1, <2>3 DEF On
  <2>5. On(w) \subseteq 1..Len(w.all)
    BY DEF WorldOk
  <2> QED
    BY <1>3, <2>2, <2>4, <2>5
<1> QED
  BY <1>2, <1>3

LEMMA PoppedDoes ==
  ASSUME NEW w, WorldOk(w)
  PROVE  Ends(w, Popped(w), {Top(w)}) /\ On(Popped(w)) = On(w) \ {Top(w)}
<1>1. w.stack \in Seq(Nat) /\ Rising(w.stack) /\ Len(w.all) \in Nat
  BY DEF WorldOk, World
<1>2. CASE w.stack = <<>>
  <2>1. Popped(w) = w /\ On(w) = {} /\ Top(w) = None
    BY <1>2, OnStack DEF Popped
  <2>2. Ends(w, w, {None})
    BY <1>1 DEF Ends, Shuts, None
  <2> QED
    BY <2>1, <2>2
<1>3. CASE w.stack # <<>>
  <2> DEFINE q == Front(w.stack)
             u == [w EXCEPT !.stack = q]
             n == Len(w.stack)
  <2>1. n \in Nat /\ n >= 1 /\ Top(w) = w.stack[n]
    BY <1>1, <1>3 DEF Top, Last
  <2>2. q \in Seq(Nat) /\ Len(q) = n - 1 /\ \A i \in 1..(n - 1) : q[i] = w.stack[i]
    BY <1>1, <2>1 DEF Front
  <2>3. Rising(q)
    <3> SUFFICES ASSUME NEW i \in 1..Len(q), NEW j \in 1..Len(q), i < j
                 PROVE  q[i] < q[j]
      BY DEF Rising
    <3> HIDE DEF q, u
    <3>1. i \in 1..(n - 1) /\ j \in 1..(n - 1)
      BY <2>2
    <3>2. i \in 1..n /\ j \in 1..n
      BY <2>1, <3>1
    <3>3. q[i] = w.stack[i] /\ q[j] = w.stack[j]
      BY <2>2, <3>1
    <3> QED
      BY <1>1, <3>2, <3>3 DEF Rising
  <2>4. \A i \in 1..Len(q) : q[i] \in On(w)
    BY <2>1, <2>2 DEF On
  <2> HIDE DEF q
  <2>5. Ends(w, u, {}) /\ On(u) = {q[i] : i \in 1..Len(q)}
    BY Shortened, <2>2, <2>3, <2>4
  <2>6. {q[i] : i \in 1..Len(q)} = On(w) \ {Top(w)}
    <3>1. ASSUME NEW i \in 1..(n - 1)
          PROVE  w.stack[i] \in Nat /\ w.stack[i] < w.stack[n] /\ w.stack[n] \in Nat
      <4> HIDE DEF u
      <4>1. i \in 1..n /\ n \in 1..n /\ i < n
        BY <2>1
      <4>2. w.stack[i] \in Nat /\ w.stack[n] \in Nat
        BY <1>1, <4>1
      <4> QED
        BY <1>1, <4>1, <4>2 DEF Rising
    <3>2. \A i \in 1..Len(q) : q[i] \in On(w) \ {Top(w)}
      BY <2>1, <2>2, <2>4, <3>1
    <3>3. \A i \in 1..n : w.stack[i] # Top(w) => i \in 1..Len(q) /\ q[i] = w.stack[i]
      BY <2>1, <2>2
    <3> QED
      BY <3>2, <3>3 DEF On
  <2>7. Popped(w) = ClosedAll(u, {Top(w)})
    BY <1>3 DEF Popped, Closed, q
  <2> HIDE DEF u
  <2>8. WorldOk(u)
    BY <2>5 DEF Ends, Shuts
  <2>9. Ends(u, Popped(w), {Top(w)}) /\ Popped(w).stack = u.stack
    BY <2>7, <2>8, ClosedAllDoes
  <2>10. Ends(w, Popped(w), {} \cup {Top(w)})
    BY <2>5, <2>9, EndsOn
  <2> QED
    BY <2>5, <2>6, <2>9, <2>10 DEF On
<1> QED
  BY <1>2, <1>3

LEMMA CloseDoes ==
  ASSUME NEW w, WorldOk(w), NEW s \in Nat
  PROVE  Ends(w, Close(w, s), {s}) /\ On(w) \ {s} \subseteq On(Close(w, s))
<1>1. CASE s = None
  <2>1. Close(w, s) = w
    BY <1>1 DEF Close
  <2>2. Len(w.all) \in Nat
    BY DEF WorldOk, World
  <2> QED
    BY <1>1, <2>1, <2>2 DEF Ends, Shuts, None
<1>2. CASE s # None /\ Top(w) = s
  BY <1>2, PoppedDoes DEF Close
<1>3. CASE s # None /\ Top(w) # s
  <2>1. Close(w, s) = ClosedAll(w, {s})
    BY <1>3 DEF Close, Closed
  <2> QED
    BY <2>1, ClosedAllDoes DEF On
<1> QED
  BY <1>1, <1>2, <1>3

LEMMA OffDoes ==
  ASSUME NEW w, WorldOk(w), NEW s \in Nat
  PROVE  /\ Ends(w, OffStack(w, s), {}) /\ On(OffStack(w, s)) = On(w) \ {s}
         /\ OffStack(w, s).all = w.all
<1>1. w.stack \in Seq(Nat) /\ Rising(w.stack)
  BY DEF WorldOk, World
<1>2. Contains(w.stack, s) <=> s \in On(w)
  BY DEF Contains, On
<1>3. CASE s \notin On(w)
  <2>1. OffStack(w, s) = w
    BY <1>2, <1>3 DEF OffStack
  <2> QED
    BY <1>3, <2>1 DEF Ends, Shuts
<1>4. CASE s \in On(w)
  <2> DEFINE n == Len(w.stack)
             k == Place(w, s)
             q == RemoveAt(w.stack, k)
  <2>1. n \in Nat /\ k \in 1..n /\ w.stack[k] = s
    BY <1>1, <1>4 DEF Place, On
  <2> HIDE DEF k
  <2>2. q \in Seq(Nat) /\ Len(q) = n - 1
        /\ \A i \in 1..(n - 1) : q[i] = IF i < k THEN w.stack[i] ELSE w.stack[i + 1]
    <3> DEFINE a == SubSeq(w.stack, 1, k - 1)
               b == SubSeq(w.stack, k + 1, n)
    <3>1. a \in Seq(Nat) /\ Len(a) = k - 1 /\ \A i \in 1..(k - 1) : a[i] = w.stack[i]
      BY <1>1, <2>1
    <3>2. b \in Seq(Nat) /\ Len(b) = n - k /\ \A i \in 1..(n - k) : b[i] = w.stack[k + i]
      BY <1>1, <2>1
    <3> HIDE DEF a, b
    <3>3. q = a \o b
      BY DEF RemoveAt, a, b
    <3>4. q \in Seq(Nat) /\ Len(q) = n - 1
          /\ \A i \in 1..(n - 1) : q[i] = IF i <= k - 1 THEN a[i] ELSE b[i - (k - 1)]
      BY <2>1, <3>1, <3>2, <3>3
    <3>5. ASSUME NEW i \in 1..(n - 1)
          PROVE  q[i] = IF i < k THEN w.stack[i] ELSE w.stack[i + 1]
      <4>1. CASE i < k
        BY <2>1, <3>1, <3>4, <4>1
      <4>2. CASE ~(i < k)
        <5>1. i - (k - 1) \in 1..(n - k) /\ k + (i - (k - 1)) = i + 1
          BY <2>1, <4>2
        <5> QED
          BY <2>1, <3>2, <3>4, <4>2, <5>1
      <4> QED
        BY <4>1, <4>2
    <3> QED
      BY <3>4, <3>5
  <2>3. OffStack(w, s) = [w EXCEPT !.stack = q]
    BY <1>2, <1>4 DEF OffStack, k
  <2> HIDE DEF q
  <2>4. Rising(q)
    <3> SUFFICES ASSUME NEW i \in 1..Len(q), NEW j \in 1..Len(q), i < j
                 PROVE  q[i] < q[j]
      BY DEF Rising
    <3>1. i \in 1..(n - 1) /\ j \in 1..(n - 1)
      BY <2>1, <2>2
    <3> DEFINE Old(m) == IF m < k THEN m ELSE m + 1
    <3>0. \A m \in 1..(n - 1) : Old(m) \in 1..n /\ q[m] = w.stack[Old(m)]
      BY <2>1, <2>2
    <3>2. PICK x \in 1..n : q[i] = w.stack[x] /\ x = Old(i)
      BY <3>0, <3>1
    <3>3. PICK y \in 1..n : q[j] = w.stack[y] /\ y = Old(j)
      BY <3>0, <3>1
    <3>4. x < y
      BY <2>1, <3>1, <3>2, <3>3
    <3> QED
      BY <1>1, <3>2, <3>3, <3>4 DEF Rising
  <2>5. \A i \in 1..Len(q) : \E j \in 1..n : j # k /\ q[i] = w.stack[j]
    <3> SUFFICES ASSUME NEW i \in 1..Len(q)
                 PROVE  \E j \in 1..n : j # k /\ q[i] = w.stack[j]
      OBVIOUS
    <3>1. i \in 1..(n - 1)
      BY <2>1, <2>2
    <3>2. CASE i < k
      BY <2>1, <2>2, <3>1, <3>2
    <3>3. CASE ~(i < k)
      <4>1. i + 1 \in 1..n /\ i + 1 # k
        BY <2>1, <3>1, <3>3
      <4> QED
        BY <2>2, <3>1, <3>3, <4>1
    <3> QED
      BY <3>2, <3>3
  <2>6. \A j \in 1..n : j # k => \E i \in 1..Len(q) : q[i] = w.stack[j]
    <3> SUFFICES ASSUME NEW j \in 1..n, j # k
                 PROVE  \E i \in 1..Len(q) : q[i] = w.stack[j]
      OBVIOUS
    <3>1. CASE j < k
      BY <2>1, <2>2, <3>1
    <3>2. CASE j > k
      <4>1. j - 1 \in 1..(n - 1) /\ ~(j - 1 < k) /\ (j - 1) + 1 = j
        BY <2>1, <3>2
      <4> QED
        BY <2>2, <4>1
    <3> QED
      BY <2>1, <3>1, <3>2
  <2>7. \A j \in 1..n : j # k => w.stack[j] # s
    <3>1. \A j \in 1..n : w.stack[j] \in Nat
      BY <1>1
    <3> QED
      BY <1>1, <2>1, <3>1 DEF Rising
  <2>8. {q[i] : i \in 1..Len(q)} = On(w) \ {s}
    <3>1. \A i \in 1..Len(q) : q[i] \in On(w) /\ q[i] # s
      BY <2>5, <2>7 DEF On
    <3>2. \A x \in On(w) \ {s} : \E i \in 1..Len(q) : q[i] = x
      BY <2>1, <2>6 DEF On
    <3> QED
      BY <3>1, <3>2
  <2>9. \A i \in 1..Len(q) : q[i] \in On(w)
    BY <2>8
  <2>10. q \in Seq(Nat)
    BY <2>2
  <2> QED
    BY <2>3, <2>4, <2>8, <2>9, <2>10, Shortened
<1> QED
  BY <1>3, <1>4

LEMMA RemoveDoes ==
  ASSUME NEW w, WorldOk(w), NEW s \in Nat
  PROVE  Ends(w, CloseAndRemove(w, s), {s}) /\ On(CloseAndRemove(w, s)) = On(w) \ {s}
<1> DEFINE u == OffStack(w, s)
           v == CloseAndRemove(w, s)
<1>1. Ends(w, u, {}) /\ On(u) = On(w) \ {s}
  BY OffDoes
<1>2. v = ClosedAll(u, {s})
  BY DEF CloseAndRemove, Closed
<1> HIDE DEF u, v
<1>3. WorldOk(u)
  BY <1>1 DEF Ends, Shuts
<1>4. Ends(u, v, {s}) /\ v.stack = u.stack
  BY <1>2, <1>3, ClosedAllDoes
<1>5. Ends(w, v, {} \cup {s})
  BY <1>1, <1>4, EndsOn
<1> QED
  BY <1>1, <1>4, <1>5 DEF On, v

\* The callback of a framework takes off its own scope and what lies above it, or
\* everything, unasked, when its own is off already.
LEMMA CloseThroughDoes ==
  ASSUME NEW w, WorldOk(w), NEW s \in Nat
  PROVE  LET v == CloseThrough(w, s)
         IN  /\ Shuts(w, v) /\ v.stolen = w.stolen
             /\ \A e \in 1..Len(w.all) : v.all[e].ended /\ ~w.all[e].ended =>
                   e = s \/ e > s \/ e \in v.swept
<1>1. w.stack \in Seq(Nat) /\ Rising(w.stack) /\ w \in World /\ Len(w.all) \in Nat
  BY DEF WorldOk, World
<1>2. CASE s = None
  <2>1. CloseThrough(w, s) = w
    BY <1>2 DEF CloseThrough
  <2> QED
    BY <2>1 DEF Shuts
<1>3. CASE s # None
  <2> DEFINE on  == Contains(w.stack, s)
             k   == IF on THEN Place(w, s) ELSE 1
             n   == Len(w.stack)
             off == {w.stack[i] : i \in k..n}
             q   == SubSeq(w.stack, 1, k - 1)
             z   == IF on THEN w.swept ELSE w.swept \cup off
             u   == [w EXCEPT !.stack = q, !.swept = z]
             v   == CloseThrough(w, s)
  <2>1. v = ClosedAll(u, off \cup {s})
    BY <1>3 DEF CloseThrough
  <2>2. n \in Nat /\ (on <=> s \in On(w))
    BY <1>1 DEF Contains, On
  <2>3. on => Place(w, s) \in 1..n /\ w.stack[Place(w, s)] = s
    BY <1>1, <2>2 DEF Place, On
  <2>4. k \in Nat /\ k >= 1 /\ k - 1 <= n /\ k - 1 \in Nat
    BY <2>2, <2>3
  <2>5. on => k \in 1..n /\ w.stack[k] = s
    BY <2>3
  <2>6. ~on => k = 1
    OBVIOUS
  <2> HIDE DEF k
  <2>7. q \in Seq(Nat) /\ Len(q) = k - 1 /\ \A i \in 1..(k - 1) : q[i] = w.stack[i]
    BY <1>1, <2>2, <2>4
  <2>8. Rising(q)
    <3> HIDE DEF q
    <3> SUFFICES ASSUME NEW i \in 1..Len(q), NEW j \in 1..Len(q), i < j
                 PROVE  q[i] < q[j]
      BY DEF Rising
    <3>0. i \in 1..(k - 1) /\ j \in 1..(k - 1) /\ q[i] = w.stack[i] /\ q[j] = w.stack[j]
      BY <2>7
    <3>1. i \in 1..n /\ j \in 1..n
      BY <2>2, <2>4, <3>0
    <3> QED
      BY <1>1, <3>0, <3>1 DEF Rising
  <2> HIDE DEF q
  <2>9. \A i \in 1..Len(q) : q[i] \in On(w)
    <3>1. \A i \in 1..Len(q) : i \in 1..n /\ q[i] = w.stack[i]
      BY <2>2, <2>4, <2>7
    <3> QED
      BY <3>1 DEF On
  <2>10. off \subseteq On(w) /\ On(w) \subseteq 1..Len(w.all)
    BY <2>2, <2>4 DEF On, WorldOk
  <2>11. z \in SUBSET Nat /\ w.swept \subseteq z /\ (~on => off \subseteq z)
    BY <1>1, <2>10 DEF World
  <2>12. \A e \in off : on => e >= s
    <3> SUFFICES ASSUME on, NEW i \in k..n
                 PROVE  w.stack[i] >= s
      OBVIOUS
    <3>1. k \in 1..n /\ w.stack[k] = s /\ i \in 1..n
      BY <2>2, <2>4, <2>5
    <3>2. w.stack[i] \in Nat /\ (i = k \/ k < i)
      BY <1>1, <2>2, <3>1
    <3> QED
      BY <1>1, <3>1, <3>2 DEF Rising
  <2> HIDE DEF off
  <2> HIDE DEF z
  <2>13. u \in World /\ u.stack = q /\ u.all = w.all /\ u.stolen = w.stolen /\ u.swept = z
    BY <1>1, <2>7, <2>11 DEF World
  <2> HIDE DEF u
  <2>14. WorldOk(u) /\ On(u) \subseteq On(w)
    BY <2>8, <2>9, <2>10, <2>13 DEF WorldOk, On
  <2>15. Shuts(w, u)
    BY <2>11, <2>13, <2>14 DEF Shuts
  <2>16. Ends(u, v, off \cup {s})
    BY <2>1, <2>14, ClosedAllDoes
  <2> HIDE DEF v
  <2>17. Shuts(w, v) /\ v.stolen = w.stolen /\ v.swept = z
    BY <2>13, <2>15, <2>16, ShutsOn DEF Ends
  <2>18. \A e \in 1..Len(w.all) : v.all[e].ended /\ ~w.all[e].ended => e \in off \cup {s}
    BY <2>13, <2>16 DEF Ends
  <2>19. \A e \in off : e \in z \/ e = s \/ e > s
    <3> SUFFICES ASSUME NEW e \in off
                 PROVE  e \in z \/ e = s \/ e > s
      OBVIOUS
    <3>1. e \in Nat
      BY <1>1, <2>10
    <3>2. CASE on
      <4>1. e >= s
        BY <2>12, <3>2
      <4> QED
        BY <3>1, <4>1
    <3>3. CASE ~on
      BY <2>11, <3>3
    <3> QED
      BY <3>2, <3>3
  <2>20. \A e \in 1..Len(w.all) : v.all[e].ended /\ ~w.all[e].ended => e = s \/ e > s \/ e \in v.swept
    BY <2>17, <2>18, <2>19
  <2> QED
    BY <2>17, <2>20 DEF v
<1> QED
  BY <1>2, <1>3

\* Only the stop of a span that awaits its GPU time ends a scope and does not emit it.
LEMMA FinalizeDoes ==
  ASSUME NEW w, WorldOk(w), NEW s \in 1..Len(w.all)
  PROVE  LET v == FinalizeDeferred(w, s)
         IN  /\ WorldOk(v) /\ Len(v.all) = Len(w.all) /\ On(v) = On(w) \ {s}
             /\ v.stolen = w.stolen /\ v.swept = w.swept
             /\ \A i \in 1..Len(w.all) :
                   /\ v.all[i].kind = w.all[i].kind /\ v.all[i].by = w.all[i].by
                   /\ v.all[i].within = w.all[i].within /\ v.all[i].emitted = w.all[i].emitted
                   /\ v.all[i].ended <=> (w.all[i].ended \/ i = s)
<1> DEFINE u == OffStack(w, s)
           r == [w.all[s] EXCEPT !.ended = TRUE]
           a == [w.all EXCEPT ![s] = r]
           v == FinalizeDeferred(w, s)
<1>1. s \in Nat /\ Len(w.all) \in Nat /\ w.all \in Seq(ScopeRec)
  BY DEF WorldOk, World
<1>2. Ends(w, u, {}) /\ On(u) = On(w) \ {s} /\ u.all = w.all
  BY <1>1, OffDoes
<1> HIDE DEF u
<1>3. v = [u EXCEPT !.all[s].ended = TRUE]
  BY DEF FinalizeDeferred, u
<1>4. WorldOk(u) /\ u \in World /\ u.stolen = w.stolen /\ u.swept = w.swept
  BY <1>2 DEF Ends, Shuts, WorldOk
<1>5. v = [u EXCEPT !.all = a]
  BY <1>2, <1>3, <1>4 DEF World
<1>6. /\ r \in ScopeRec /\ r.kind = w.all[s].kind /\ r.by = w.all[s].by
      /\ r.within = w.all[s].within /\ r.emitted = w.all[s].emitted /\ r.ended = TRUE
  <2>1. w.all[s] \in ScopeRec
    BY <1>1
  <2> QED
    BY <2>1 DEF ScopeRec
<1> HIDE DEF r
<1>7. a \in Seq(ScopeRec) /\ Len(a) = Len(w.all) /\ \A i \in 1..Len(w.all) : a[i] = IF i = s THEN r ELSE w.all[i]
  BY <1>1, <1>6
<1> HIDE DEF a
<1>8. v \in World /\ v.stack = u.stack /\ v.all = a /\ v.stolen = u.stolen /\ v.swept = u.swept
  BY <1>4, <1>5, <1>7 DEF World
<1> HIDE DEF v
<1>9. On(v) = On(u)
  BY <1>8 DEF On
<1>10. WorldOk(v)
  BY <1>2, <1>4, <1>7, <1>8, <1>9 DEF WorldOk
<1>11. \A i \in 1..Len(w.all) :
          /\ v.all[i].kind = w.all[i].kind /\ v.all[i].by = w.all[i].by
          /\ v.all[i].within = w.all[i].within /\ v.all[i].emitted = w.all[i].emitted
          /\ v.all[i].ended <=> (w.all[i].ended \/ i = s)
  BY <1>6, <1>7, <1>8
<1> QED
  BY <1>2, <1>4, <1>7, <1>8, <1>9, <1>10, <1>11 DEF v

\* From w to v the scope p is opened by b, unless it is None: the push is refused.
Opens(w, v, p, k, b) ==
    \/ p = None /\ v = w
    \/ /\ p = Len(w.all) + 1 /\ p \in Nat /\ p # None
       /\ WorldOk(v) /\ Len(v.all) = p
       /\ \A s \in 1..Len(w.all) : v.all[s] = w.all[s]
       /\ v.all[p].kind = k /\ v.all[p].by = b /\ v.all[p].within = torch.epoch
       /\ v.all[p].ended = FALSE /\ v.all[p].emitted = 0
       /\ On(v) = On(w) \cup {p}
       /\ v.stolen = w.stolen /\ v.swept = w.swept

LEMMA PushDoes ==
  ASSUME NEW w, WorldOk(w), NEW k \in Kinds, NEW b \in Makers, torch.epoch \in Nat
  PROVE  Opens(w, Push(w, k, b), Pushed(w), k, b)
<1>1. CASE ~Fits(w)
  BY <1>1 DEF Opens, Push, Pushed
<1>2. CASE Fits(w)
  <2> DEFINE p == Len(w.all) + 1
             n == [kind |-> k, by |-> b, within |-> torch.epoch, ended |-> FALSE, emitted |-> 0]
             q == Append(w.stack, p)
             a == Append(w.all, n)
             v == Push(w, k, b)
  <2>1. w \in World /\ w.stack \in Seq(Nat) /\ w.all \in Seq(ScopeRec) /\ Len(w.all) \in Nat
    BY DEF WorldOk, World
  <2>2. p \in Nat /\ p # None /\ p \in 1..p /\ 1..Len(w.all) \subseteq 1..p /\ p \notin 1..Len(w.all)
    BY <2>1 DEF None
  <2>3. v = [w EXCEPT !.stack = q, !.all = a]
    BY <1>2 DEF Push
  <2>4. Pushed(w) = p
    BY <1>2 DEF Pushed
  <2>5. n \in ScopeRec /\ n.kind = k /\ n.by = b /\ n.within = torch.epoch /\ n.ended = FALSE /\ n.emitted = 0
    BY DEF ScopeRec
  <2> HIDE DEF n
  <2>6. /\ a \in Seq(ScopeRec) /\ Len(a) = p /\ a[p] = n
        /\ \A i \in 1..Len(w.all) : a[i] = w.all[i]
    BY <2>1, <2>2, <2>5
  <2>7. /\ q \in Seq(Nat) /\ Len(q) = Len(w.stack) + 1 /\ Len(w.stack) \in Nat
        /\ q[Len(w.stack) + 1] = p /\ \A i \in 1..Len(w.stack) : q[i] = w.stack[i]
    BY <2>1, <2>2
  <2> HIDE DEF a, q
  <2>8. v \in World /\ v.stack = q /\ v.all = a /\ v.stolen = w.stolen /\ v.swept = w.swept
    BY <2>1, <2>3, <2>6, <2>7 DEF World
  <2> HIDE DEF v
  <2>9. \A i \in 1..Len(w.stack) : w.stack[i] \in 1..Len(w.all)
    BY DEF WorldOk, On
  <2>10. Rising(q)
    <3> SUFFICES ASSUME NEW i \in 1..Len(q), NEW j \in 1..Len(q), i < j
                 PROVE  q[i] < q[j]
      BY DEF Rising
    <3>0. i \in 1..Len(w.stack)
      BY <2>7
    <3>1. i \in 1..Len(w.stack) /\ q[i] = w.stack[i] /\ q[i] \in 1..Len(w.all)
      BY <2>7, <2>9, <3>0
    <3>2. CASE j = Len(w.stack) + 1
      <4>1. q[j] = Len(w.all) + 1
        BY <2>7, <3>2
      <4> QED
        BY <2>1, <3>1, <4>1
    <3>3. CASE j # Len(w.stack) + 1
      <4>1. j \in 1..Len(w.stack) /\ q[j] = w.stack[j]
        BY <2>7, <3>3
      <4> QED
        BY <3>1, <4>1 DEF WorldOk, Rising
    <3> QED
      BY <3>2, <3>3
  <2>11. On(v) = On(w) \cup {p}
    <3>1. \A i \in 1..Len(q) : (i \in 1..Len(w.stack) /\ q[i] = w.stack[i]) \/ q[i] = p
      BY <2>7
    <3>2. \A i \in 1..Len(q) : q[i] \in On(w) \cup {p}
      BY <3>1 DEF On
    <3>3. \A x \in On(w) \cup {p} : \E i \in 1..Len(q) : q[i] = x
      BY <2>7 DEF On
    <3>4. On(v) = {q[i] : i \in 1..Len(q)}
      BY <2>8 DEF On
    <3> QED
      BY <3>2, <3>3, <3>4
  <2>12. WorldOk(v)
    BY <2>2, <2>6, <2>8, <2>10, <2>11 DEF WorldOk
  <2> HIDE DEF p
  <2> QED
    BY <2>2, <2>4, <2>5, <2>6, <2>8, <2>11, <2>12 DEF Opens, p, v
<1> QED
  BY <1>1, <1>2

-------------------------------------------------------------------------------
(* What holds of the scopes and of what the hook keeps.                        *)

Spans(I) == {i.span : i \in I}

\* Every scope that ended is emitted, or held by one pair of events.
EmitOk(w, I) ==
    /\ \A s \in 1..Len(w.all) :
          w.all[s].emitted = IF w.all[s].ended /\ s \notin Spans(I) THEN 1 ELSE 0
    /\ \A i \in I : i.span \in 1..Len(w.all) /\ w.all[i.span].ended
    /\ \A i, j \in I : i.span = j.span => i = j

TrackOk(w, t) ==
    \A s \in 1..Len(w.all) : ~w.all[s].ended /\ w.all[s].by = "torch" =>
        /\ w.all[s].kind = "epoch" => t.epoch = s
        /\ w.all[s].kind = "step" => t.step = s

StepOk(w, t) ==
    t.step # None => /\ t.step \in 1..Len(w.all) /\ w.all[t.step].kind = "step"
                     /\ w.all[t.step].within = t.epoch

FwdOk(w, t) == t.fwd # None => t.fwd \in 1..Len(w.all) /\ w.all[t.fwd].kind = "forward"

\* e is None, or an epoch of the hook that has not ended, or was taken off unasked.
Left(w, e) ==
    e # None => /\ e \in 1..Len(w.all) /\ w.all[e].kind = "epoch" /\ w.all[e].by = "torch"
                /\ ~w.all[e].ended \/ e \in w.stolen \cup w.swept

HeldOk(w, t) == Left(w, t.epoch) /\ \A i \in t.items : Left(w, w.all[i.span].within)

Sane(w, t) ==
    /\ WorldOk(w) /\ t \in Closure
    /\ EmitOk(w, t.items) /\ TrackOk(w, t) /\ StepOk(w, t) /\ FwdOk(w, t) /\ HeldOk(w, t)

LEMMA EmitKept ==
  ASSUME NEW w, NEW v, NEW I, EmitOk(w, I), Shuts(w, v)
  PROVE  EmitOk(v, I)
<1>1. ASSUME NEW s \in 1..Len(v.all)
      PROVE  v.all[s].emitted = IF v.all[s].ended /\ s \notin Spans(I) THEN 1 ELSE 0
  <2>1. s \in 1..Len(w.all)
    BY <1>1 DEF Shuts
  <2>2. s \in Spans(I) => w.all[s].ended
    BY DEF EmitOk, Spans
  <2>3. w.all[s].emitted = IF w.all[s].ended /\ s \notin Spans(I) THEN 1 ELSE 0
    BY <2>1 DEF EmitOk
  <2>4. /\ w.all[s].ended => v.all[s].ended
        /\ v.all[s].emitted = IF v.all[s].ended /\ ~w.all[s].ended
                              THEN w.all[s].emitted + 1 ELSE w.all[s].emitted
    BY <2>1 DEF Shuts
  <2> QED
    BY <2>2, <2>3, <2>4
<1>2. \A i \in I : i.span \in 1..Len(v.all) /\ v.all[i.span].ended
  BY DEF EmitOk, Shuts
<1>3. \A i, j \in I : i.span = j.span => i = j
  BY DEF EmitOk
<1> QED
  BY <1>1, <1>2, <1>3 DEF EmitOk

\* Scopes that end disturb nothing, if the epochs of the hook among them are taken
\* off unasked.
LEMMA LeftKept ==
  ASSUME NEW w, NEW v, Shuts(w, v), NEW e, Left(w, e),
         \A s \in 1..Len(w.all) : v.all[s].ended /\ ~w.all[s].ended /\ s = e =>
             s \in v.stolen \cup v.swept
  PROVE  Left(v, e)
BY DEF Left, Shuts

LEMMA SaneKept ==
  ASSUME NEW w, NEW v, NEW t, Sane(w, t), Shuts(w, v),
         \A e : Left(w, e) => Left(v, e)
  PROVE  Sane(v, t)
<1>1. EmitOk(v, t.items)
  BY EmitKept DEF Sane
<1>2. TrackOk(v, t) /\ StepOk(v, t) /\ FwdOk(v, t)
  BY DEF Sane, TrackOk, StepOk, FwdOk, Shuts
<1>3. \A i \in t.items : v.all[i.span].within = w.all[i.span].within
  BY DEF Sane, EmitOk, Shuts
<1>4. HeldOk(v, t)
  BY <1>3 DEF Sane, HeldOk
<1> QED
  BY <1>1, <1>2, <1>4 DEF Sane, Shuts

\* y is x with some of the pairs of events emitted.
Reaps(x, y) ==
    /\ WorldOk(y.w) /\ y.t \in Closure
    /\ y.w.stack = x.w.stack /\ Len(y.w.all) = Len(x.w.all)
    /\ y.w.stolen = x.w.stolen /\ y.w.swept = x.w.swept
    /\ \A s \in 1..Len(x.w.all) :
          /\ y.w.all[s].kind = x.w.all[s].kind /\ y.w.all[s].by = x.w.all[s].by
          /\ y.w.all[s].within = x.w.all[s].within /\ (y.w.all[s].ended <=> x.w.all[s].ended)
    /\ y.t.epoch = x.t.epoch /\ y.t.step = x.t.step /\ y.t.steps = x.t.steps
    /\ y.t.dl = x.t.dl
    /\ y.t.depth = x.t.depth /\ y.t.fwd = x.t.fwd /\ y.t.iter = x.t.iter /\ y.t.off = x.t.off
    /\ y.t.items \subseteq x.t.items
    /\ EmitOk(y.w, y.t.items)

State == [w : World, t : Closure]

LEMMA DrainDoes ==
  ASSUME NEW x \in State, WorldOk(x.w), EmitOk(x.w, x.t.items), NEW force \in BOOLEAN
  PROVE  LET y == DrainCuda(x, force)
         IN  y \in State /\ Reaps(x, y) /\ (force => y.t.items = {})
<1> DEFINE w == x.w
           I == x.t.items
           out == {i \in I : w.all[i.span].ended /\ (force \/ i.ready)}
           S == Spans(out)
           a == [s \in DOMAIN w.all |-> IF s \in S THEN Emitted(w.all[s]) ELSE w.all[s]]
           v == EmitClosed(w, S)
           t == [x.t EXCEPT !.items = I \ out]
           y == DrainCuda(x, force)
<1>1. w \in World /\ w.all \in Seq(ScopeRec) /\ DOMAIN w.all = 1..Len(w.all) /\ Len(w.all) \in Nat
      /\ x.t \in Closure /\ I \in SUBSET Pair
  BY DEF State, World, Closure
<1>2. y = [w |-> v, t |-> t]
  BY DEF DrainCuda, Spans
<1>3. \A s \in 1..Len(w.all) :
         /\ a[s] \in ScopeRec /\ w.all[s] \in ScopeRec
         /\ a[s].kind = w.all[s].kind /\ a[s].by = w.all[s].by
         /\ a[s].within = w.all[s].within
         /\ a[s].ended = w.all[s].ended
         /\ a[s].emitted = IF s \in S THEN w.all[s].emitted + 1 ELSE w.all[s].emitted
  <2> SUFFICES ASSUME NEW s \in 1..Len(w.all)
               PROVE  /\ a[s] \in ScopeRec /\ w.all[s] \in ScopeRec
                      /\ a[s].kind = w.all[s].kind /\ a[s].by = w.all[s].by
                      /\ a[s].within = w.all[s].within
                      /\ a[s].ended = w.all[s].ended
                      /\ a[s].emitted = IF s \in S THEN w.all[s].emitted + 1 ELSE w.all[s].emitted
    OBVIOUS
  <2>1. PICK r : r = w.all[s] /\ r \in ScopeRec
    BY <1>1
  <2>2. /\ Emitted(r) \in ScopeRec /\ Emitted(r).kind = r.kind /\ Emitted(r).by = r.by
        /\ Emitted(r).within = r.within /\ Emitted(r).ended = r.ended
        /\ Emitted(r).emitted = r.emitted + 1
    BY <2>1 DEF ScopeRec, Emitted
  <2>3. a[s] = IF s \in S THEN Emitted(r) ELSE r
    BY <1>1, <2>1
  <2>4. CASE s \in S
    <3>1. a[s] = Emitted(r)
      BY <2>3, <2>4
    <3> QED
      BY <2>1, <2>2, <2>4, <3>1
  <2>5. CASE s \notin S
    <3>1. a[s] = r
      BY <2>3, <2>5
    <3> HIDE DEF a
    <3> QED
      BY <2>1, <2>5, <3>1
  <2> QED
    BY <2>4, <2>5
<1>4. a \in Seq(ScopeRec) /\ Len(a) = Len(w.all)
  <2>1. a \in [1..Len(w.all) -> ScopeRec]
    BY <1>1, <1>3
  <2> HIDE DEF a
  <2> QED
    BY <1>1, <2>1
<1>5. v = [w EXCEPT !.all = a]
  BY DEF EmitClosed
<1> HIDE DEF a
<1>6. v \in World /\ v.stack = w.stack /\ v.all = a /\ v.stolen = w.stolen /\ v.swept = w.swept
  BY <1>1, <1>4, <1>5 DEF World
<1> HIDE DEF v
<1>7. WorldOk(v)
  BY <1>4, <1>6 DEF WorldOk, On
<1>8. out \subseteq I
  OBVIOUS
<1>9. \A i \in I : i \in out \/ (i.span \notin S)
  <2> SUFFICES ASSUME NEW i \in I, i.span \in S
               PROVE  i \in out
    OBVIOUS
  <2>1. PICK j \in out : j.span = i.span
    BY DEF Spans
  <2> QED
    BY <2>1 DEF EmitOk
<1>10. /\ t \in Closure /\ t.items = I \ out
       /\ t.epoch = x.t.epoch /\ t.step = x.t.step /\ t.steps = x.t.steps /\ t.dl = x.t.dl
       /\ t.depth = x.t.depth /\ t.fwd = x.t.fwd /\ t.iter = x.t.iter /\ t.off = x.t.off
  BY <1>1, <1>8 DEF Closure
<1>11. force => out = I
  BY DEF EmitOk
<1>12. Spans(I) = S \cup Spans(I \ out) /\ S \cap Spans(I \ out) = {}
  BY <1>8, <1>9 DEF Spans
<1>13. \A s \in S : w.all[s].ended
  BY DEF Spans
<1> HIDE DEF out, S, t
<1>14. EmitOk(v, t.items)
  <2>1. ASSUME NEW s \in 1..Len(v.all)
        PROVE  v.all[s].emitted = IF v.all[s].ended /\ s \notin Spans(I \ out) THEN 1 ELSE 0
    <3>1. s \in 1..Len(w.all)
      BY <1>4, <1>6
    <3>2. w.all[s].emitted = IF w.all[s].ended /\ s \notin Spans(I) THEN 1 ELSE 0
      BY <3>1 DEF EmitOk
    <3>3. (v.all[s].ended <=> w.all[s].ended)
          /\ v.all[s].emitted = IF s \in S THEN w.all[s].emitted + 1 ELSE w.all[s].emitted
      BY <1>3, <1>6, <3>1
    <3>4. CASE s \in S
      <4>1. w.all[s].ended /\ s \in Spans(I) /\ s \notin Spans(I \ out)
        BY <1>12, <1>13, <3>4
      <4> QED
        BY <3>2, <3>3, <3>4, <4>1
    <3>5. CASE s \notin S
      <4>1. s \in Spans(I) <=> s \in Spans(I \ out)
        BY <1>12, <3>5
      <4> QED
        BY <3>2, <3>3, <3>5, <4>1
    <3> QED
      BY <3>4, <3>5
  <2>2. \A i \in I \ out : i.span \in 1..Len(v.all) /\ v.all[i.span].ended
    BY <1>3, <1>4, <1>6 DEF EmitOk
  <2>3. \A i, j \in I \ out : i.span = j.span => i = j
    BY DEF EmitOk
  <2> QED
    BY <1>10, <2>1, <2>2, <2>3 DEF EmitOk
<1>15. y.w = v /\ y.t = t /\ y \in State
  BY <1>2, <1>6, <1>10 DEF State
<1> HIDE DEF y
<1>16. Reaps(x, y)
  BY <1>3, <1>4, <1>6, <1>7, <1>10, <1>14, <1>15 DEF Reaps
<1>17. force => y.t.items = {}
  BY <1>10, <1>11, <1>15
<1> QED
  BY <1>15, <1>16, <1>17 DEF y

LEMMA ReapDoes ==
  ASSUME NEW x \in State, WorldOk(x.w), EmitOk(x.w, x.t.items)
  PROVE  MaybeReap(x) \in State /\ Reaps(x, MaybeReap(x))
<1> DEFINE n == (x.t.ops + 1) % ReapInterval
           u == [x.t EXCEPT !.ops = n]
           y == [x EXCEPT !.t.ops = n]
<1>1. x.t \in Closure /\ x.w \in World /\ n \in Nat
  BY HooksAssumption DEF State, Closure
<1> HIDE DEF n
<1>2. /\ u \in Closure /\ u.items = x.t.items
      /\ u.epoch = x.t.epoch /\ u.step = x.t.step /\ u.steps = x.t.steps /\ u.dl = x.t.dl
      /\ u.depth = x.t.depth /\ u.fwd = x.t.fwd /\ u.iter = x.t.iter /\ u.off = x.t.off
  BY <1>1 DEF Closure
<1>3. y = [x EXCEPT !.t = u] /\ y \in State /\ y.w = x.w /\ y.t = u
  BY <1>1, <1>2 DEF State
<1> HIDE DEF u
<1>4. MaybeReap(x) = IF ~Cuda THEN x
                     ELSE IF ShouldReap(y.t) THEN DrainCuda(y, Cardinality(y.t.items) >= ReapBackstop) ELSE y
  BY DEF MaybeReap, n
<1> HIDE DEF y
<1>5. Reaps(x, x)
  BY <1>1 DEF Reaps
<1>6. Reaps(x, y)
  BY <1>2, <1>3, <1>5 DEF Reaps
<1>7. \A f \in BOOLEAN : Reaps(x, DrainCuda(y, f)) /\ DrainCuda(y, f) \in State
  <2> SUFFICES ASSUME NEW f \in BOOLEAN
               PROVE  Reaps(x, DrainCuda(y, f)) /\ DrainCuda(y, f) \in State
    OBVIOUS
  <2>1. Reaps(y, DrainCuda(y, f)) /\ DrainCuda(y, f) \in State
    BY <1>2, <1>3, DrainDoes
  <2> QED
    BY <1>6, <2>1 DEF Reaps
<1> DEFINE full == Cardinality(y.t.items) >= ReapBackstop
<1>8. full \in BOOLEAN
  OBVIOUS
<1> HIDE DEF full
<1>9. Reaps(x, DrainCuda(y, full)) /\ DrainCuda(y, full) \in State
  BY <1>7, <1>8
<1>10. MaybeReap(x) \in {x, y, DrainCuda(y, full)}
  BY <1>4 DEF full
<1> QED
  BY <1>3, <1>5, <1>6, <1>9, <1>10

LEMMA ReapedSane ==
  ASSUME NEW x, NEW y, Sane(x.w, x.t), Reaps(x, y)
  PROVE  Sane(y.w, y.t) /\ (\A e : Left(x.w, e) => Left(y.w, e)) /\ On(y.w) = On(x.w)
<1>1. \A e : Left(x.w, e) => Left(y.w, e)
  BY DEF Left, Reaps
<1>2. On(y.w) = On(x.w)
  BY DEF On, Reaps
<1> DEFINE n == Len(x.w.all)
<1>7. /\ Len(y.w.all) = n
      /\ y.t.epoch = x.t.epoch /\ y.t.step = x.t.step /\ y.t.fwd = x.t.fwd
      /\ \A s \in 1..n : /\ y.w.all[s].kind = x.w.all[s].kind
                         /\ y.w.all[s].by = x.w.all[s].by
                         /\ y.w.all[s].within = x.w.all[s].within
                         /\ y.w.all[s].ended <=> x.w.all[s].ended
  BY DEF Reaps
<1>8. TrackOk(x.w, x.t) /\ StepOk(x.w, x.t) /\ FwdOk(x.w, x.t)
  BY DEF Sane
<1>3. TrackOk(y.w, y.t)
  BY <1>7, <1>8 DEF TrackOk
<1>6. StepOk(y.w, y.t) /\ FwdOk(y.w, y.t)
  BY <1>7, <1>8 DEF StepOk, FwdOk
<1>4. \A i \in y.t.items : i \in x.t.items /\ y.w.all[i.span].within = x.w.all[i.span].within
  BY DEF Sane, EmitOk, Reaps
<1>5. HeldOk(y.w, y.t)
  BY <1>1, <1>4 DEF Sane, HeldOk, Reaps
<1> QED
  BY <1>1, <1>2, <1>3, <1>5, <1>6 DEF Sane, Reaps

-------------------------------------------------------------------------------
(* The operations that the hooks are made of.                                  *)

\* Scopes keep what they are, and none opens again.
Keeps(w, v) ==
    /\ Len(w.all) <= Len(v.all)
    /\ \A s \in 1..Len(w.all) :
          /\ v.all[s].kind = w.all[s].kind /\ v.all[s].by = w.all[s].by
          /\ v.all[s].within = w.all[s].within
          /\ w.all[s].ended => v.all[s].ended

\* y is x with the scope s ended, and emitted or held.
Settles(x, y, s) ==
    /\ Len(y.w.all) = Len(x.w.all)
    /\ \A i \in 1..Len(x.w.all) :
          /\ y.w.all[i].kind = x.w.all[i].kind /\ y.w.all[i].by = x.w.all[i].by
          /\ y.w.all[i].within = x.w.all[i].within
          /\ y.w.all[i].ended <=> (x.w.all[i].ended \/ i = s)
    /\ On(x.w) \ {s} \subseteq On(y.w)
    /\ y.w.stolen = x.w.stolen /\ y.w.swept = x.w.swept
    /\ y.t.epoch = x.t.epoch /\ y.t.step = x.t.step /\ y.t.steps = x.t.steps
    /\ y.t.dl = x.t.dl
    /\ y.t.depth = x.t.depth /\ y.t.fwd = x.t.fwd /\ y.t.iter = x.t.iter /\ y.t.off = x.t.off

LEMMA ShutsKeeps ==
  ASSUME NEW w, WorldOk(w), NEW v, Shuts(w, v)
  PROVE  Keeps(w, v)
<1>1. Len(w.all) \in Nat
  BY DEF WorldOk, World
<1> QED
  BY <1>1 DEF Shuts, Keeps

LEMMA OpensKeeps ==
  ASSUME NEW w, WorldOk(w), NEW v, NEW p, NEW k, NEW b, Opens(w, v, p, k, b)
  PROVE  Keeps(w, v) /\ WorldOk(v)
<1>1. Len(w.all) \in Nat
  BY DEF WorldOk, World
<1> QED
  BY <1>1 DEF Opens, Keeps

LEMMA SettleThenReap ==
  ASSUME NEW x, NEW z, NEW y, NEW s, Settles(x, z, s), Reaps(z, y)
  PROVE  Settles(x, y, s)
<1>1. On(y.w) = On(z.w)
  BY DEF On, Reaps
<1>2. On(x.w) \ {s} \subseteq On(y.w)
  BY <1>1 DEF Settles
<1>3. Len(y.w.all) = Len(x.w.all)
  BY DEF Settles, Reaps
<1>4. \A i \in 1..Len(x.w.all) :
          /\ y.w.all[i].kind = x.w.all[i].kind /\ y.w.all[i].by = x.w.all[i].by
          /\ y.w.all[i].within = x.w.all[i].within
          /\ y.w.all[i].ended <=> (x.w.all[i].ended \/ i = s)
  BY DEF Settles, Reaps
<1> QED
  BY <1>2, <1>3, <1>4 DEF Settles, Reaps

\* A span of which both ends are timed must not have ended before its hook ends it.
LEMMA SettleDoes ==
  ASSUME NEW x \in State, Sane(x.w, x.t), NEW s \in Nat, NEW timed \in BOOLEAN,
         s # None => /\ s \in 1..Len(x.w.all) /\ x.w.all[s].kind \in Ops
                     /\ ~x.w.all[s].ended /\ Left(x.w, x.w.all[s].within)
  PROVE  LET y == CloseOrDefer(x, s, timed)
         IN  y \in State /\ Sane(y.w, y.t) /\ Settles(x, y, s)
<1> DEFINE w == x.w
           I == x.t.items
<1>1. x.w \in World /\ x.t \in Closure /\ WorldOk(w) /\ I \in SUBSET Pair /\ Len(w.all) \in Nat
  BY DEF State, Closure, World, Sane
<1>2. \A e : e # None /\ Left(w, e) => e # s
  BY DEF Left, Ops
<1>3. CASE s = None \/ ~timed
  <2> DEFINE v == Close(w, s)
             z == [x EXCEPT !.w = v]
             y == CloseOrDefer(x, s, timed)
  <2>1. y = MaybeReap(z)
    BY <1>3 DEF CloseOrDefer
  <2>2. Ends(w, v, {s}) /\ On(w) \ {s} \subseteq On(v)
    BY <1>1, CloseDoes
  <2> HIDE DEF v
  <2>3. v \in World /\ z \in State /\ z.w = v /\ z.t = x.t
    BY <1>1, <2>2 DEF State, Ends, Shuts, WorldOk
  <2> HIDE DEF z
  <2>4. Shuts(w, v)
    BY <2>2 DEF Ends
  <2>5. \A e : Left(w, e) => Left(v, e)
    <3> SUFFICES ASSUME NEW e, Left(w, e)
                 PROVE  Left(v, e)
      OBVIOUS
    <3>1. CASE e = None
      BY <3>1 DEF Left
    <3>2. CASE e # None
      <4>1. e # s
        BY <1>2, <3>2
      <4>2. \A i \in 1..Len(w.all) : v.all[i].ended /\ ~w.all[i].ended => i = s
        BY <2>2 DEF Ends
      <4>3. \A i \in 1..Len(w.all) : v.all[i].ended /\ ~w.all[i].ended /\ i = e => i \in v.stolen \cup v.swept
        BY <4>1, <4>2
      <4> QED
        BY <2>4, <4>3, LeftKept
    <3> QED
      BY <3>1, <3>2
  <2>6. Sane(z.w, z.t)
    BY <2>3, <2>4, <2>5, SaneKept
  <2>7. Settles(x, z, s)
    BY <2>2, <2>3 DEF Settles, Ends, Shuts
  <2>8. y \in State /\ Reaps(z, y)
    BY <2>1, <2>3, <2>6, ReapDoes DEF Sane
  <2>9. Sane(y.w, y.t) /\ Settles(x, y, s)
    BY <2>6, <2>7, <2>8, ReapedSane, SettleThenReap
  <2> QED
    BY <2>8, <2>9
<1>4. CASE s # None /\ timed
  <2> DEFINE v == FinalizeDeferred(w, s)
             p == [span |-> s, ready |-> FALSE]
             t == [x.t EXCEPT !.items = I \cup {p}]
             z == [w |-> v, t |-> t]
             y == CloseOrDefer(x, s, timed)
  <2>1. y = MaybeReap(z)
    BY <1>4 DEF CloseOrDefer
  <2>2. /\ WorldOk(v) /\ Len(v.all) = Len(w.all) /\ On(v) = On(w) \ {s}
        /\ v.stolen = w.stolen /\ v.swept = w.swept
        /\ \A i \in 1..Len(w.all) :
              /\ v.all[i].kind = w.all[i].kind /\ v.all[i].by = w.all[i].by
              /\ v.all[i].within = w.all[i].within /\ v.all[i].emitted = w.all[i].emitted
              /\ v.all[i].ended <=> (w.all[i].ended \/ i = s)
    BY <1>1, <1>4, FinalizeDoes
  <2> HIDE DEF v
  <2>3. p \in Pair /\ p.span = s
    BY DEF Pair
  <2> HIDE DEF p
  <2>4. /\ t \in Closure /\ t.items = I \cup {p}
        /\ t.epoch = x.t.epoch /\ t.step = x.t.step /\ t.steps = x.t.steps /\ t.dl = x.t.dl
        /\ t.depth = x.t.depth /\ t.fwd = x.t.fwd /\ t.iter = x.t.iter /\ t.off = x.t.off
    BY <1>1, <2>3 DEF Closure
  <2> HIDE DEF t
  <2>5. z \in State /\ z.w = v /\ z.t = t
    BY <2>2, <2>4 DEF State, WorldOk
  <2> HIDE DEF z
  <2>6. EmitOk(w, I) /\ s \in 1..Len(w.all) /\ ~w.all[s].ended
    BY <1>4 DEF Sane
  <2>7. s \notin Spans(I)
    BY <2>6 DEF EmitOk, Spans
  <2>8. Spans(I \cup {p}) = Spans(I) \cup {s}
    BY <2>3 DEF Spans
  <2>9. EmitOk(v, t.items)
    <3>1. ASSUME NEW i \in 1..Len(v.all)
          PROVE  v.all[i].emitted = IF v.all[i].ended /\ i \notin Spans(I \cup {p}) THEN 1 ELSE 0
      <4>1. i \in 1..Len(w.all) /\ v.all[i].emitted = w.all[i].emitted
            /\ (v.all[i].ended <=> (w.all[i].ended \/ i = s))
        BY <2>2
      <4>2. w.all[i].emitted = IF w.all[i].ended /\ i \notin Spans(I) THEN 1 ELSE 0
        BY <2>6, <4>1 DEF EmitOk
      <4>3. CASE i = s
        BY <2>6, <2>8, <4>1, <4>2, <4>3
      <4>4. CASE i # s
        BY <2>8, <4>1, <4>2, <4>4
      <4> QED
        BY <4>3, <4>4
    <3>2. ASSUME NEW i \in I \cup {p}
          PROVE  i.span \in 1..Len(v.all) /\ v.all[i.span].ended
      <4>1. CASE i \in I
        BY <2>2, <2>6, <4>1 DEF EmitOk
      <4>2. CASE i = p
        BY <2>2, <2>3, <2>6, <4>2
      <4> QED
        BY <4>1, <4>2
    <3>3. ASSUME NEW i \in I \cup {p}, NEW j \in I \cup {p}, i.span = j.span
          PROVE  i = j
      <4>1. \A k \in I : k.span # s
        BY <2>7 DEF Spans
      <4>2. \A k, l \in I : k.span = l.span => k = l
        BY <2>6 DEF EmitOk
      <4> QED
        BY <2>3, <3>3, <4>1, <4>2
    <3> QED
      BY <2>4, <3>1, <3>2, <3>3 DEF EmitOk
  <2>10. \A e : Left(w, e) => Left(v, e)
    BY <1>2, <2>2 DEF Left
  <2>11. TrackOk(v, t)
    BY <2>2, <2>4 DEF Sane, TrackOk
  <2>12. StepOk(v, t) /\ FwdOk(v, t)
    <3>1. StepOk(v, t)
      BY <2>2, <2>4 DEF Sane, StepOk
    <3>2. FwdOk(v, t)
      BY <2>2, <2>4 DEF Sane, FwdOk
    <3> QED
      BY <3>1, <3>2
  <2>13. HeldOk(v, t)
    <3>1. Left(v, t.epoch)
      BY <2>4, <2>10 DEF Sane, HeldOk
    <3>2. ASSUME NEW i \in I
          PROVE  Left(v, v.all[i.span].within)
      <4>1. v.all[i.span].within = w.all[i.span].within
        BY <2>2, <2>6 DEF EmitOk
      <4> QED
        BY <2>10, <4>1 DEF Sane, HeldOk
    <3>3. Left(v, v.all[p.span].within)
      BY <1>4, <2>2, <2>3, <2>6, <2>10
    <3> QED
      BY <2>4, <3>1, <3>2, <3>3 DEF HeldOk
  <2>14. Sane(z.w, z.t)
    BY <2>2, <2>4, <2>5, <2>9, <2>11, <2>12, <2>13 DEF Sane
  <2>15. Settles(x, z, s)
    BY <2>2, <2>4, <2>5 DEF Settles
  <2>16. y \in State /\ Reaps(z, y)
    BY <2>1, <2>5, <2>14, ReapDoes DEF Sane
  <2>17. Sane(y.w, y.t) /\ Settles(x, y, s)
    BY <2>14, <2>15, <2>16, ReapedSane, SettleThenReap
  <2> QED
    BY <2>16, <2>17
<1> QED
  BY <1>3, <1>4

\* The torch step is closed, wherever it is on the stack.
LEMMA CloseStepDoes ==
  ASSUME NEW x \in State, Sane(x.w, x.t)
  PROVE  LET y == CloseStep(x)
         IN  /\ y \in State /\ Sane(y.w, y.t) /\ Ends(x.w, y.w, {x.t.step})
             /\ y.t = [x.t EXCEPT !.step = None]
<1> DEFINE w == x.w
           v == Close(w, x.t.step)
           t == [x.t EXCEPT !.step = None]
           y == CloseStep(x)
<1>1. x.t \in Closure /\ WorldOk(w) /\ x.t.step \in Nat /\ y = [w |-> v, t |-> t]
  BY DEF State, Closure, Sane, CloseStep
<1>2. Ends(w, v, {x.t.step})
  BY <1>1, CloseDoes
<1> HIDE DEF v
<1>3. /\ t \in Closure /\ t.items = x.t.items /\ t.step = None
      /\ t.epoch = x.t.epoch /\ t.fwd = x.t.fwd
  BY <1>1 DEF Closure, None
<1> HIDE DEF t
<1>4. y \in State /\ y.w = v /\ y.t = t
  BY <1>1, <1>2, <1>3 DEF State, Ends, Shuts, WorldOk
<1> HIDE DEF y
<1>5. Shuts(w, v) /\ \A i \in 1..Len(w.all) : v.all[i].ended <=> (w.all[i].ended \/ i = x.t.step)
  BY <1>2 DEF Ends
<1>6. \A e : Left(w, e) => Left(v, e)
  <2> SUFFICES ASSUME NEW e, Left(w, e)
               PROVE  Left(v, e)
    OBVIOUS
  <2>1. e # None => w.all[e].kind = "epoch" /\ e \in 1..Len(w.all)
    BY DEF Left
  <2>2. x.t.step # None => w.all[x.t.step].kind = "step"
    BY DEF Sane, StepOk
  <2>3. \A i \in 1..Len(w.all) : v.all[i].ended /\ ~w.all[i].ended /\ i = e => i \in v.stolen \cup v.swept
    BY <1>5, <2>1, <2>2 DEF None
  <2> QED
    BY <1>5, <2>3, LeftKept
<1>7. Sane(v, x.t)
  BY <1>5, <1>6, SaneKept
<1>8. TrackOk(v, t)
  <2> SUFFICES ASSUME NEW s \in 1..Len(v.all), ~v.all[s].ended, v.all[s].by = "torch"
               PROVE  /\ v.all[s].kind = "epoch" => t.epoch = s
                      /\ v.all[s].kind = "step" => t.step = s
    BY DEF TrackOk
  <2>1. v.all[s].kind = "epoch" => t.epoch = s
    BY <1>3, <1>7 DEF Sane, TrackOk
  <2>2. v.all[s].kind # "step"
    <3>1. v.all[s].kind = "step" => x.t.step = s
      BY <1>7 DEF Sane, TrackOk
    <3>2. s # x.t.step
      BY <1>5 DEF Shuts
    <3> QED
      BY <3>1, <3>2
  <2> QED
    BY <2>1, <2>2
<1>9. StepOk(v, t) /\ FwdOk(v, t) /\ HeldOk(v, t) /\ EmitOk(v, t.items) /\ WorldOk(v)
  BY <1>3, <1>7 DEF Sane, StepOk, FwdOk, HeldOk
<1>10. Sane(y.w, y.t)
  BY <1>3, <1>4, <1>8, <1>9 DEF Sane
<1> QED
  BY <1>2, <1>4, <1>10 DEF y, t

\* Once the pairs are drained and the step is closed, no epoch or step of the hook
\* is left open.
LEMMA CloseEpochDoes ==
  ASSUME NEW x \in State, Sane(x.w, x.t), x.t.items = {}, x.t.step = None
  PROVE  LET y == CloseEpoch(x)
         IN  /\ y \in State /\ y.t = x.t /\ Shuts(x.w, y.w) /\ WorldOk(y.w) /\ EmitOk(y.w, {})
             /\ \A s \in 1..Len(y.w.all) : y.w.all[s].by = "torch" /\ y.w.all[s].kind \in {"epoch", "step"}
                                           => y.w.all[s].ended
<1> DEFINE w == x.w
           v == IF x.t.epoch = None THEN w ELSE CloseAndRemove(w, x.t.epoch)
           y == CloseEpoch(x)
<1>1. x.t \in Closure /\ WorldOk(w) /\ x.t.epoch \in Nat /\ y = [x EXCEPT !.w = v] /\ w \in World
  BY DEF State, Closure, Sane, CloseEpoch
<1>2. Ends(w, v, {x.t.epoch})
  <2>1. CASE x.t.epoch = None
    <3>1. v = w
      BY <2>1
    <3>2. Len(w.all) \in Nat
      BY <1>1 DEF World
    <3> QED
      BY <1>1, <2>1, <3>1, <3>2 DEF Ends, Shuts, None
  <2>2. CASE x.t.epoch # None
    <3>1. v = CloseAndRemove(w, x.t.epoch)
      BY <2>2
    <3> QED
      BY <1>1, <3>1, RemoveDoes
  <2> QED
    BY <2>1, <2>2
<1> HIDE DEF v
<1>3. Shuts(w, v) /\ WorldOk(v) /\ v \in World
  BY <1>2 DEF Ends, Shuts, WorldOk
<1>4. y \in State /\ y.w = v /\ y.t = x.t
  BY <1>1, <1>3 DEF State
<1>5. EmitOk(v, {})
  BY <1>3, EmitKept DEF Sane
<1>6. ASSUME NEW s \in 1..Len(v.all), v.all[s].by = "torch", v.all[s].kind \in {"epoch", "step"}
      PROVE  v.all[s].ended
  <2>1. /\ s \in 1..Len(w.all) /\ w.all[s].by = "torch" /\ w.all[s].kind \in {"epoch", "step"}
        /\ v.all[s].ended <=> (w.all[s].ended \/ s = x.t.epoch)
    BY <1>2, <1>6 DEF Ends, Shuts
  <2>2. w.all[s].ended \/ (w.all[s].kind = "epoch" /\ x.t.epoch = s) \/ (w.all[s].kind = "step" /\ x.t.step = s)
    BY <2>1 DEF Sane, TrackOk
  <2>3. x.t.step # s
    BY <2>1 DEF None
  <2> QED
    BY <2>1, <2>2, <2>3
<1> QED
  BY <1>3, <1>4, <1>5, <1>6

LEMMA EmitOpened ==
  ASSUME NEW w, WorldOk(w), NEW v, NEW p, NEW k, NEW b, NEW I, EmitOk(w, I), Opens(w, v, p, k, b)
  PROVE  EmitOk(v, I)
<1>1. CASE p = None /\ v = w
  BY <1>1
<1>2. CASE ~(p = None /\ v = w)
  <2>1. /\ p = Len(w.all) + 1 /\ Len(v.all) = p /\ Len(w.all) \in Nat
        /\ \A s \in 1..Len(w.all) : v.all[s] = w.all[s]
        /\ v.all[p].ended = FALSE /\ v.all[p].emitted = 0
    BY <1>2 DEF Opens, WorldOk, World
  <2>2. ASSUME NEW s \in 1..Len(v.all)
        PROVE  v.all[s].emitted = IF v.all[s].ended /\ s \notin Spans(I) THEN 1 ELSE 0
    <3>1. CASE s = p
      BY <2>1, <3>1
    <3>2. CASE s # p
      <4>1. s \in 1..Len(w.all)
        BY <2>1, <3>2
      <4> QED
        BY <2>1, <4>1 DEF EmitOk
    <3> QED
      BY <3>1, <3>2
  <2>3. \A i \in I : i.span \in 1..Len(v.all) /\ v.all[i.span].ended
    BY <2>1 DEF EmitOk
  <2>4. \A i, j \in I : i.span = j.span => i = j
    BY DEF EmitOk
  <2> QED
    BY <2>2, <2>3, <2>4 DEF EmitOk
<1> QED
  BY <1>1, <1>2

LEMMA LeftOpened ==
  ASSUME NEW w, WorldOk(w), NEW v, NEW p, NEW k, NEW b, Opens(w, v, p, k, b), NEW e, Left(w, e)
  PROVE  Left(v, e)
<1>1. Len(w.all) \in Nat
  BY DEF WorldOk, World
<1> QED
  BY <1>1 DEF Opens, Left

\* A scope that is no epoch and no step of the hook.
LEMMA OpenedSane ==
  ASSUME NEW w, NEW t, Sane(w, t), NEW v, NEW p, NEW k, NEW b, Opens(w, v, p, k, b),
         ~(b = "torch" /\ k \in {"epoch", "step"})
  PROVE  Sane(v, t)
<1>1. WorldOk(w) /\ Len(w.all) \in Nat
  BY DEF Sane, WorldOk, World
<1>2. WorldOk(v)
  BY <1>1, OpensKeeps
<1>3. EmitOk(v, t.items)
  BY <1>1, EmitOpened DEF Sane
<1>4. \A e : Left(w, e) => Left(v, e)
  BY <1>1, LeftOpened
<1>5. \A s \in 1..Len(w.all) : s \in 1..Len(v.all) /\ v.all[s] = w.all[s]
  BY <1>1 DEF Opens
<1>6. \A s \in 1..Len(v.all) : s \in 1..Len(w.all) \/ (v.all[s].kind = k /\ v.all[s].by = b)
  BY <1>1 DEF Opens
<1>7. TrackOk(v, t)
  <2> SUFFICES ASSUME NEW s \in 1..Len(v.all), ~v.all[s].ended, v.all[s].by = "torch"
               PROVE  /\ v.all[s].kind = "epoch" => t.epoch = s
                      /\ v.all[s].kind = "step" => t.step = s
    BY DEF TrackOk
  <2>1. CASE s \in 1..Len(w.all)
    BY <1>5, <2>1 DEF Sane, TrackOk
  <2>2. CASE s \notin 1..Len(w.all)
    BY <1>6, <2>2
  <2> QED
    BY <2>1, <2>2
<1>8. StepOk(v, t) /\ FwdOk(v, t)
  BY <1>5 DEF Sane, StepOk, FwdOk
<1>9. \A i \in t.items : v.all[i.span].within = w.all[i.span].within
  BY <1>5 DEF Sane, EmitOk
<1>10. HeldOk(v, t)
  BY <1>4, <1>9 DEF Sane, HeldOk
<1> QED
  BY <1>2, <1>3, <1>7, <1>8, <1>10 DEF Sane

LEMMA KeepsOn ==
  ASSUME NEW w, NEW u, NEW v, Len(w.all) \in Nat, Len(u.all) \in Nat, Len(v.all) \in Nat, Keeps(w, u), Keeps(u, v)
  PROVE  Keeps(w, v)
BY DEF Keeps

\* A rotation leaves one epoch of the hook open, the new one, and no step.
LEMMA RotateDoes ==
  ASSUME NEW x \in State, Sane(x.w, x.t), ~SkipStep, torch.epoch \in Nat
  PROVE  LET y == RotateEpoch(x)
         IN  /\ y \in State /\ Sane(y.w, y.t) /\ Keeps(x.w, y.w)
             /\ \A s \in 1..Len(y.w.all) : s \in 1..Len(x.w.all) \/ y.w.all[s].kind = "epoch"
             /\ y.t.depth = x.t.depth /\ y.t.fwd = x.t.fwd /\ y.t.iter = x.t.iter
             /\ y.t.off = x.t.off
             /\ y.t.dl = x.t.dl /\ y.t.step = None
<1> DEFINE a == CloseStep(x)
           b == DrainCuda(a, TRUE)
           c == CloseEpoch(b)
           y == RotateEpoch(x)
<1>1. /\ a \in State /\ Sane(a.w, a.t) /\ Ends(x.w, a.w, {x.t.step})
      /\ a.t = [x.t EXCEPT !.step = None]
  BY CloseStepDoes
<1>2. y = [w |-> Push(c.w, "epoch", "torch"),
           t |-> [c.t EXCEPT !.epoch = Pushed(c.w), !.steps = 0]]
  BY DEF RotateEpoch
<1> HIDE DEF a
<1>3. b \in State /\ Reaps(a, b) /\ b.t.items = {}
  BY <1>1, DrainDoes DEF Sane
<1> HIDE DEF b
<1>4. Sane(b.w, b.t)
  BY <1>1, <1>3, ReapedSane
<1>5. /\ a.t.step = None /\ a.t.depth = x.t.depth /\ a.t.fwd = x.t.fwd /\ a.t.iter = x.t.iter
      /\ a.t.off = x.t.off /\ a.t.dl = x.t.dl
  BY <1>1 DEF State, Closure
<1>6. /\ b.t.step = None /\ b.t.depth = x.t.depth /\ b.t.fwd = x.t.fwd /\ b.t.iter = x.t.iter
      /\ b.t.off = x.t.off /\ b.t.dl = x.t.dl
  BY <1>3, <1>5 DEF Reaps
<1>7. /\ c \in State /\ c.t = b.t /\ Shuts(b.w, c.w) /\ WorldOk(c.w) /\ EmitOk(c.w, {})
      /\ \A s \in 1..Len(c.w.all) : c.w.all[s].by = "torch" /\ c.w.all[s].kind \in {"epoch", "step"}
                                    => c.w.all[s].ended
  BY <1>3, <1>4, <1>6, CloseEpochDoes
<1> HIDE DEF c
<1> DEFINE v == Push(c.w, "epoch", "torch")
           p == Pushed(c.w)
           t == [c.t EXCEPT !.epoch = p, !.steps = 0]
<1>8. Opens(c.w, v, p, "epoch", "torch")
  BY <1>7, PushDoes DEF Kinds, Makers
<1> HIDE DEF v, p
<1>9. WorldOk(v) /\ Keeps(c.w, v)
  BY <1>7, <1>8, OpensKeeps
<1>10. c.t \in Closure /\ Len(c.w.all) \in Nat /\ p \in Nat
  BY <1>7, <1>8 DEF State, WorldOk, World, Opens, None
<1>11. /\ t \in Closure /\ t.epoch = p /\ t.step = None /\ t.items = {} /\ t.fwd = x.t.fwd
       /\ t.depth = x.t.depth /\ t.iter = x.t.iter /\ t.off = x.t.off /\ t.dl = x.t.dl
  BY <1>3, <1>6, <1>7, <1>10 DEF Closure, None
<1> HIDE DEF t
<1>12. EmitOk(v, {})
  BY <1>7, <1>8, EmitOpened
<1>13. \A s \in 1..Len(c.w.all) : s \in 1..Len(v.all) /\ v.all[s] = c.w.all[s]
  BY <1>8, <1>10 DEF Opens
<1>14. \A s \in 1..Len(v.all) : s \in 1..Len(c.w.all) \/ (s = p /\ v.all[s].kind = "epoch")
  BY <1>8, <1>10 DEF Opens
<1>15. TrackOk(v, t)
  <2> SUFFICES ASSUME NEW s \in 1..Len(v.all), ~v.all[s].ended, v.all[s].by = "torch"
               PROVE  /\ v.all[s].kind = "epoch" => t.epoch = s
                      /\ v.all[s].kind = "step" => t.step = s
    BY DEF TrackOk
  <2>1. CASE s \in 1..Len(c.w.all)
    BY <1>7, <1>13, <2>1
  <2>2. CASE s \notin 1..Len(c.w.all)
    BY <1>11, <1>14, <2>2
  <2> QED
    BY <2>1, <2>2
<1>16. FwdOk(v, t)
  <2>1. FwdOk(b.w, b.t)
    BY <1>4 DEF Sane
  <2>2. t.fwd = b.t.fwd
    BY <1>6, <1>11
  <2>3. FwdOk(c.w, b.t)
    BY <1>7, <2>1 DEF FwdOk, Shuts
  <2> QED
    BY <1>13, <2>2, <2>3 DEF FwdOk
<1>17. Left(v, p)
  BY <1>8 DEF Left, Opens
<1>18. Sane(v, t)
  BY <1>9, <1>11, <1>12, <1>15, <1>16, <1>17 DEF Sane, StepOk, HeldOk
<1>19. y.w = v /\ y.t = t /\ y \in State
  BY <1>2, <1>9, <1>11 DEF State, WorldOk, v, t, p
<1> HIDE DEF y
<1>20. Len(x.w.all) = Len(c.w.all)
  BY <1>1, <1>3, <1>7 DEF Ends, Shuts, Reaps
<1>21. Keeps(x.w, v)
  <2>1. Keeps(x.w, a.w)
    BY <1>1, ShutsKeeps DEF Ends, Sane
  <2>2. Keeps(a.w, b.w)
    <3>1. Len(a.w.all) \in Nat
      BY <1>1 DEF State, World
    <3> QED
      BY <1>3, <3>1 DEF Reaps, Keeps
  <2>3. Keeps(b.w, c.w)
    BY <1>4, <1>7, ShutsKeeps DEF Sane
  <2>4. Len(x.w.all) \in Nat /\ Len(a.w.all) \in Nat /\ Len(b.w.all) \in Nat /\ Len(c.w.all) \in Nat /\ Len(v.all) \in Nat
    BY <1>1, <1>3, <1>7, <1>9 DEF State, WorldOk, World
  <2>5. Keeps(x.w, b.w)
    BY <2>1, <2>2, <2>4, KeepsOn
  <2>6. Keeps(x.w, c.w)
    BY <2>3, <2>4, <2>5, KeepsOn
  <2> QED
    BY <1>9, <2>4, <2>6, KeepsOn
<1> QED
  BY <1>11, <1>14, <1>18, <1>19, <1>20, <1>21 DEF y

-------------------------------------------------------------------------------
(* Who owns the epochs and the steps.  At most one run is under way, and its   *)
(* frame says so; what its callback has claimed is its own, and what it has    *)
(* not was claimed by a run that raised.                                       *)

FrameRec == [what : Ops \cup {"user", "run"}, scope : Nat \cup Callbacks]
Callback == [of : Others, epoch : Nat, step : Nat, claimed : SUBSET Names,
             phase : Active \cup {"new", "idle"}, raised : BOOLEAN]

ClaimType == /\ owned \in [Names -> {"none"} \cup Others]
             /\ cb \in [Callbacks -> Callback]
             /\ frames \in Seq(FrameRec)

RunOk ==
    /\ \A i, j \in 1..Len(frames) : frames[i].what = "run" /\ frames[j].what = "run" => i = j
    /\ \A c \in Callbacks : cb[c].phase \in Active =>
          \E i \in 1..Len(frames) : frames[i].what = "run" /\ frames[i].scope = c
    /\ \A i \in 1..Len(frames) : frames[i].what = "run" =>
          frames[i].scope \in Callbacks /\ cb[frames[i].scope].phase \in Active

Clear(c) == cb[c].epoch = None /\ cb[c].step = None

OwnOk == owned["epoch"] = "none" =>
            /\ owned["step"] = "none"
            /\ \A c \in Callbacks : Clear(c) /\ cb[c].phase \notin Active

ClaimOk(c) ==
    /\ cb[c].phase \in {"new", "train"} => Clear(c)
    /\ cb[c].phase = "epoch" => cb[c].step = None
    /\ cb[c].phase \in Active =>
        /\ \A n \in cb[c].claimed : owned[n] = cb[c].of
        /\ \A n \in Names \ cb[c].claimed : owned[n] # "none" =>
              \E d \in Callbacks : cb[d].of = owned[n] /\ cb[d].raised
        /\ "epoch" \in cb[c].claimed =>
              /\ owned["step"] = "none" \/ "step" \in cb[c].claimed
              /\ \A d \in Callbacks : d # c => Clear(d)

ClaimInv == ClaimType /\ RunOk /\ OwnOk /\ (\A c \in Callbacks : ClaimOk(c)) /\ ClaimsOfRuns

\* A construct is entered.
LEMMA Entered ==
  ASSUME ClaimType, NEW what \in Ops \cup {"user", "run"}, NEW s \in Nat \cup Callbacks, Enter(what, s)
  PROVE  /\ frames' \in Seq(FrameRec) /\ Len(frames') = Len(frames) + 1 /\ Len(frames) \in Nat
         /\ \A i \in 1..Len(frames) : frames'[i] = frames[i]
         /\ frames'[Len(frames) + 1].what = what /\ frames'[Len(frames) + 1].scope = s
         /\ \A i \in 1..Len(frames') : i \in 1..Len(frames) \/ i = Len(frames) + 1
<1> DEFINE f == [what |-> what, scope |-> s]
<1>1. frames \in Seq(FrameRec) /\ frames' = Append(frames, f)
  BY DEF ClaimType, Enter
<1>2. f \in FrameRec /\ f.what = what /\ f.scope = s
  BY DEF FrameRec
<1> HIDE DEF f
<1> QED
  BY <1>1, <1>2

LEMMA FrontIs ==
  ASSUME NEW S, NEW q \in Seq(S), Len(q) >= 1
  PROVE  /\ Front(q) \in Seq(S) /\ Len(Front(q)) = Len(q) - 1
         /\ \A i \in 1..(Len(q) - 1) : Front(q)[i] = q[i]
<1>1. Len(q) \in Nat /\ Front(q) = SubSeq(q, 1, Len(q) - 1)
  BY DEF Front
<1>2. PICK m \in Nat : m = Len(q) - 1
  BY <1>1
<1>3. m <= Len(q) /\ \A i \in 1..m : q[i] \in S
  BY <1>1, <1>2
<1>4. /\ SubSeq(q, 1, m) \in Seq(S) /\ Len(SubSeq(q, 1, m)) = m
      /\ \A i \in 1..m : SubSeq(q, 1, m)[i] = q[i]
  BY <1>1, <1>2, <1>3
<1> QED
  BY <1>1, <1>2, <1>4

\* The innermost construct is left.
LEMMA Departed ==
  ASSUME ClaimType, frames # <<>>, Leave
  PROVE  /\ frames' \in Seq(FrameRec) /\ Len(frames') = Len(frames) - 1
         /\ Len(frames) \in Nat /\ Len(frames) >= 1
         /\ \A i \in 1..Len(frames') : i \in 1..Len(frames) /\ i # Len(frames) /\ frames'[i] = frames[i]
         /\ Last(frames) = frames[Len(frames)] /\ Len(frames) \in 1..Len(frames)
         /\ \A i \in 1..Len(frames) : i # Len(frames) => i \in 1..Len(frames')
<1>1. frames \in Seq(FrameRec) /\ frames' = SubSeq(frames, 1, Len(frames) - 1)
  BY DEF ClaimType, Leave, Front
<1>2. Len(frames) \in Nat /\ Len(frames) >= 1
  BY <1>1
<1>3. /\ frames' \in Seq(FrameRec) /\ Len(frames') = Len(frames) - 1
      /\ \A i \in 1..(Len(frames) - 1) : frames'[i] = frames[i]
  BY <1>1, <1>2, FrontIs DEF Front
<1>4. Last(frames) = frames[Len(frames)]
  BY DEF Last
<1> QED
  BY <1>2, <1>3, <1>4

LEMMA Running ==
  ASSUME ClaimType, RunOk, NEW c, NEW p \in Active, InRun(c, p)
  PROVE  /\ frames # <<>> /\ Len(frames) \in 1..Len(frames)
         /\ frames[Len(frames)].what = "run" /\ frames[Len(frames)].scope = c
         /\ c \in Callbacks /\ cb[c].phase = p
         /\ \A i \in 1..Len(frames) : frames[i].what = "run" => i = Len(frames)
         /\ \A d \in Callbacks : cb[d].phase \in Active => d = c
<1>1. frames \in Seq(FrameRec) /\ frames # <<>> /\ Last(frames) = [what |-> "run", scope |-> c]
  BY DEF ClaimType, InRun
<1>2. Len(frames) \in Nat /\ Len(frames) >= 1 /\ Last(frames) = frames[Len(frames)]
  BY <1>1 DEF Last
<1>3. Len(frames) \in 1..Len(frames) /\ frames[Len(frames)].what = "run" /\ frames[Len(frames)].scope = c
  BY <1>1, <1>2
<1>4. \A i \in 1..Len(frames) : frames[i].what = "run" => i = Len(frames)
  BY <1>3 DEF RunOk
<1>5. \A d \in Callbacks : cb[d].phase \in Active => d = c
  BY <1>3, <1>4 DEF RunOk
<1> QED
  BY <1>1, <1>3, <1>4, <1>5 DEF InRun, RunOk

\* Constructs other than runs are entered and left at will.
LEMMA ClaimFrames ==
  ASSUME ClaimInv, UNCHANGED <<owned, cb>>,
         \/ frames' = frames
         \/ \E what \in Ops \cup {"user"}, s \in Nat : Enter(what, s)
         \/ frames # <<>> /\ Last(frames).what # "run" /\ Leave
  PROVE  ClaimInv'
<1>1. ClaimType /\ RunOk /\ OwnOk /\ ClaimsOfRuns /\ \A c \in Callbacks : ClaimOk(c)
  BY DEF ClaimInv
<1>2. OwnOk' /\ ClaimsOfRuns' /\ \A c \in Callbacks : ClaimOk(c)'
  BY <1>1 DEF OwnOk, ClaimsOfRuns, ClaimOk, Clear
<1>3. ClaimType' /\ RunOk'
  <2>1. CASE frames' = frames
    BY <1>1, <2>1 DEF ClaimType, RunOk
  <2>2. ASSUME NEW what \in Ops \cup {"user"}, NEW s \in Nat, Enter(what, s)
        PROVE  ClaimType' /\ RunOk'
    <3>1. /\ frames' \in Seq(FrameRec)
          /\ \A i \in 1..Len(frames) : i \in 1..Len(frames') /\ frames'[i] = frames[i]
          /\ \A i \in 1..Len(frames') : i \in 1..Len(frames) \/ frames'[i].what = what
      BY <1>1, <2>2, Entered
    <3>2. what # "run"
      BY DEF Ops
    <3>3. \A i \in 1..Len(frames') : frames'[i].what = "run" => i \in 1..Len(frames) /\ frames[i].what = "run"
      BY <3>1, <3>2
    <3> QED
      BY <1>1, <3>1, <3>3 DEF ClaimType, RunOk
  <2>3. CASE frames # <<>> /\ Last(frames).what # "run" /\ Leave
    <3>1. /\ frames' \in Seq(FrameRec)
          /\ \A i \in 1..Len(frames') : i \in 1..Len(frames) /\ frames'[i] = frames[i]
          /\ \A i \in 1..Len(frames) : frames[i].what = "run" => i \in 1..Len(frames')
      BY <1>1, <2>3, Departed
    <3> QED
      BY <1>1, <3>1 DEF ClaimType, RunOk
  <2> QED
    BY <2>1, <2>2, <2>3
<1> QED
  BY <1>2, <1>3 DEF ClaimInv

\* Within its run a callback opens and closes its scopes, and claims nothing.
LEMMA ClaimPhase ==
  ASSUME ClaimInv, NEW c, NEW p \in Active, InRun(c, p), owned' = owned, frames' = frames,
         NEW r \in Callback, cb' = [cb EXCEPT ![c] = r],
         r.of = cb[c].of, r.claimed = cb[c].claimed, r.raised = cb[c].raised, r.phase \in Active,
         r.phase = "train" => r.epoch = None /\ r.step = None,
         r.phase = "epoch" => r.step = None
  PROVE  ClaimInv'
<1>1. ClaimType /\ RunOk /\ OwnOk /\ ClaimsOfRuns /\ \A d \in Callbacks : ClaimOk(d)
  BY DEF ClaimInv
<1>2. c \in Callbacks /\ cb[c].phase \in Active /\ \A d \in Callbacks : cb[d].phase \in Active => d = c
  BY <1>1, Running
<1>3. \A d \in Callbacks : cb'[d] = IF d = c THEN r ELSE cb[d]
  BY <1>1, <1>2 DEF ClaimType
<1>4. ClaimType'
  BY <1>1, <1>2 DEF ClaimType
<1>5. RunOk'
  BY <1>1, <1>2, <1>3 DEF RunOk
<1>6. OwnOk'
  BY <1>1, <1>2 DEF OwnOk
<1>7. ASSUME NEW d \in Callbacks
      PROVE  ClaimOk(d)'
  <2>1. CASE d = c
    <3>1. cb'[c] = r
      BY <1>2, <1>3
    <3>2. r.phase # "new"
      BY DEF Active
    <3>3. ClaimOk(c)
      BY <1>1, <1>2
    <3>4. \A n \in Names \ r.claimed : owned[n] # "none" =>
              \E e \in Callbacks : cb'[e].of = owned[n] /\ cb'[e].raised
      BY <1>2, <1>3, <3>3 DEF ClaimOk
    <3>5. "epoch" \in r.claimed =>
              /\ owned["step"] = "none" \/ "step" \in r.claimed
              /\ \A e \in Callbacks : e # c => cb'[e].epoch = None /\ cb'[e].step = None
      BY <1>2, <1>3, <3>3 DEF ClaimOk, Clear
    <3>6. \A n \in r.claimed : owned[n] = r.of
      BY <1>2, <3>3 DEF ClaimOk
    <3> QED
      BY <2>1, <3>1, <3>2, <3>4, <3>5, <3>6 DEF ClaimOk, Clear
  <2>2. CASE d # c
    <3>1. cb'[d] = cb[d] /\ cb[d].phase \notin Active /\ ClaimOk(d)
      BY <1>1, <1>2, <1>3, <2>2
    <3> QED
      BY <3>1 DEF ClaimOk, Clear, Active
  <2> QED
    BY <2>1, <2>2
<1>8. ClaimsOfRuns'
  BY <1>1, <1>2, <1>3 DEF ClaimsOfRuns, Active
<1> QED
  BY <1>4, <1>5, <1>6, <1>7, <1>8 DEF ClaimInv

LEMMA ClaimTrainBegin ==
  ASSUME ClaimInv, NEW c \in Callbacks, TrainBegin(c)
  PROVE  ClaimInv'
<1> DEFINE free == {n \in Claimable(c) : owned[n] = "none"}
           r == [cb[c] EXCEPT !.epoch = None, !.step = None, !.claimed = free, !.phase = "train"]
<1>1. ClaimType /\ RunOk /\ OwnOk /\ ClaimsOfRuns /\ \A d \in Callbacks : ClaimOk(d)
  BY DEF ClaimInv
<1>2. cb[c] \in Callback /\ frames \in Seq(FrameRec) /\ owned \in [Names -> {"none"} \cup Others]
  BY <1>1 DEF ClaimType
<1>3. "epoch" \in Claimable(c) /\ Claimable(c) \subseteq Names
      /\ (cb[c].of = "transformers" => Claimable(c) = Names)
      /\ (cb[c].of # "transformers" => Claimable(c) = {"epoch"})
  BY DEF Claimable, Names
<1>4. /\ r \in Callback /\ r.of = cb[c].of /\ r.epoch = None /\ r.step = None
      /\ r.claimed = free /\ r.phase = "train" /\ r.raised = cb[c].raised
  BY <1>2, <1>3 DEF Callback, None, Active
<1>5. cb' = [cb EXCEPT ![c] = r]
  BY DEF TrainBegin
<1>6. \A n \in Names : owned'[n] = IF n \in free THEN cb[c].of ELSE owned[n]
  BY <1>2 DEF TrainBegin
<1>7. owned' \in [Names -> {"none"} \cup Others]
  BY <1>2 DEF TrainBegin, Callback
<1>8. \A i \in 1..Len(frames) : frames[i].what # "run"
  BY <1>2 DEF TrainBegin
<1> HIDE DEF r
<1>9. \A d \in Callbacks : cb'[d] = IF d = c THEN r ELSE cb[d]
  BY <1>1, <1>5 DEF ClaimType
<1>10. Enter("run", c)
  BY DEF TrainBegin
<1>11. /\ frames' \in Seq(FrameRec) /\ Len(frames) \in Nat /\ Len(frames') = Len(frames) + 1
       /\ \A i \in 1..Len(frames) : frames'[i] = frames[i]
       /\ frames'[Len(frames) + 1].what = "run" /\ frames'[Len(frames) + 1].scope = c
       /\ \A i \in 1..Len(frames') : i \in 1..Len(frames) \/ i = Len(frames) + 1
  BY <1>1, <1>10, Entered
<1>12. \A d \in Callbacks : cb[d].phase \notin Active
  BY <1>1, <1>8 DEF RunOk
<1>13. cb[c].of # "none" /\ cb[c].of \in Others
  BY <1>2, HooksAssumption DEF Callback, Others
<1>14. ClaimType'
  BY <1>1, <1>4, <1>5, <1>7, <1>11 DEF ClaimType
<1>15. RunOk'
  <2>1. \A i \in 1..Len(frames') : frames'[i].what = "run" <=> i = Len(frames) + 1
    BY <1>8, <1>11
  <2>2. Len(frames) + 1 \in 1..Len(frames')
    BY <1>11
  <2>3. \A d \in Callbacks : cb'[d].phase \in Active <=> d = c
    BY <1>4, <1>9, <1>12 DEF Active
  <2> QED
    BY <1>11, <2>1, <2>2, <2>3 DEF RunOk
<1>16. owned'["epoch"] # "none"
  BY <1>3, <1>6, <1>13 DEF Names
<1>17. ASSUME NEW d \in Callbacks
       PROVE  ClaimOk(d)'
  <2>1. CASE d = c
    <3>1. cb'[c] = r
      BY <1>9
    <3>2. \A n \in free : owned'[n] = r.of
      BY <1>3, <1>4, <1>6
    <3>3. ASSUME NEW n \in Names \ free, owned'[n] # "none"
          PROVE  \E e \in Callbacks : cb'[e].of = owned'[n] /\ cb'[e].raised
      <4>1. owned'[n] = owned[n]
        BY <1>6
      <4>2. PICK e \in Callbacks : cb[e].of = owned[n] /\ (cb[e].phase \notin {"new", "idle"} \/ cb[e].raised)
        BY <1>1, <1>2, <3>3, <4>1 DEF ClaimsOfRuns
      <4>3. cb[e].phase \in {"new", "idle"}
        BY <1>1, <1>12 DEF ClaimType, Callback
      <4>4. cb'[e].of = cb[e].of /\ cb'[e].raised = cb[e].raised
        BY <1>4, <1>9
      <4> QED
        BY <4>1, <4>2, <4>3, <4>4
    <3>4. ASSUME "epoch" \in free
          PROVE  /\ owned'["step"] = "none" \/ "step" \in free
                 /\ \A e \in Callbacks : e # c => cb'[e].epoch = None /\ cb'[e].step = None
      <4>1. owned["epoch"] = "none"
        BY <3>4
      <4>2. owned["step"] = "none" /\ \A e \in Callbacks : Clear(e)
        BY <1>1, <4>1 DEF OwnOk
      <4>3. owned'["step"] = "none" \/ "step" \in free
        BY <1>6, <4>2 DEF Names
      <4> QED
        BY <1>9, <4>2, <4>3 DEF Clear
    <3> HIDE DEF free
    <3> QED
      BY <1>4, <2>1, <3>1, <3>2, <3>3, <3>4 DEF ClaimOk, Clear
  <2>2. CASE d # c
    <3>1. cb'[d] = cb[d] /\ cb[d].phase \notin Active /\ ClaimOk(d)
      BY <1>1, <1>9, <1>12, <2>2
    <3> QED
      BY <3>1 DEF ClaimOk, Clear, Active
  <2> QED
    BY <2>1, <2>2
<1>18. ClaimsOfRuns'
  <2> SUFFICES ASSUME NEW n \in Names, owned'[n] # "none"
               PROVE  \E e \in Callbacks : cb'[e].of = owned'[n] /\ (cb'[e].phase \notin {"new", "idle"} \/ cb'[e].raised)
    BY <1>7 DEF ClaimsOfRuns
  <2>1. CASE n \in free
    BY <1>4, <1>6, <1>9, <2>1
  <2>2. CASE n \notin free
    <3>1. owned'[n] = owned[n]
      BY <1>6, <2>2
    <3>2. PICK e \in Callbacks : cb[e].of = owned[n] /\ (cb[e].phase \notin {"new", "idle"} \/ cb[e].raised)
      BY <1>1, <1>2, <3>1 DEF ClaimsOfRuns
    <3> QED
      BY <1>4, <1>9, <3>1, <3>2
  <2> QED
    BY <2>1, <2>2
<1> QED
  BY <1>14, <1>15, <1>16, <1>17, <1>18 DEF ClaimInv, OwnOk

LEMMA ClaimTrainEnd ==
  ASSUME ClaimInv, NEW c \in Callbacks, TrainEnd(c)
  PROVE  ClaimInv'
<1> DEFINE r == [cb[c] EXCEPT !.claimed = {}, !.phase = "idle"]
           mine == cb[c].claimed
<1>1. ClaimType /\ RunOk /\ OwnOk /\ ClaimsOfRuns /\ \A d \in Callbacks : ClaimOk(d)
  BY DEF ClaimInv
<1>2. cb[c] \in Callback /\ frames \in Seq(FrameRec) /\ owned \in [Names -> {"none"} \cup Others]
  BY <1>1 DEF ClaimType
<1>3. /\ r \in Callback /\ r.of = cb[c].of /\ r.epoch = cb[c].epoch /\ r.step = cb[c].step
      /\ r.phase = "idle" /\ r.raised = cb[c].raised
  BY <1>2 DEF Callback
<1>4. cb' = [cb EXCEPT ![c] = r] /\ InRun(c, "train")
  BY DEF TrainEnd
<1> HIDE DEF r
<1>5. \A n \in Names : owned'[n] = IF n \in mine /\ owned[n] = cb[c].of THEN "none" ELSE owned[n]
  BY <1>2 DEF TrainEnd
<1>6. owned' \in [Names -> {"none"} \cup Others]
  BY <1>2 DEF TrainEnd
<1>7. \A d \in Callbacks : cb'[d] = IF d = c THEN r ELSE cb[d]
  BY <1>1, <1>4 DEF ClaimType
<1>8. /\ frames # <<>> /\ cb[c].phase = "train"
      /\ \A i \in 1..Len(frames) : frames[i].what = "run" => i = Len(frames)
      /\ \A d \in Callbacks : cb[d].phase \in Active => d = c
  BY <1>1, <1>4, Running DEF Active
<1>9. /\ frames' \in Seq(FrameRec)
      /\ \A i \in 1..Len(frames') : i \in 1..Len(frames) /\ i # Len(frames) /\ frames'[i] = frames[i]
  <2>1. Leave
    BY DEF TrainEnd
  <2> QED
    BY <1>1, <1>8, <2>1, Departed
<1>10. \A i \in 1..Len(frames') : frames'[i].what # "run"
  BY <1>8, <1>9
<1>11. \A d \in Callbacks : cb'[d].phase \notin Active
  BY <1>3, <1>7, <1>8 DEF Active
<1>12. ClaimOk(c) /\ cb[c].phase \in Active
  BY <1>1, <1>8 DEF Active
<1>13. ClaimType' /\ RunOk'
  BY <1>1, <1>3, <1>4, <1>6, <1>9, <1>10, <1>11 DEF ClaimType, RunOk
<1>14. OwnOk'
  <2> SUFFICES ASSUME owned'["epoch"] = "none"
               PROVE  owned'["step"] = "none" /\ \A d \in Callbacks : Clear(d)'
    BY <1>11 DEF OwnOk
  <2>1. owned["epoch"] # "none"
    BY <1>1, <1>12 DEF OwnOk
  <2>2. "epoch" \in mine
    BY <1>5, <2>1 DEF Names
  <2>3. /\ owned["step"] = "none" \/ ("step" \in mine /\ owned["step"] = cb[c].of)
        /\ \A d \in Callbacks : d # c => Clear(d)
    BY <1>12, <2>2 DEF ClaimOk
  <2>4. Clear(c)
    BY <1>8, <1>12 DEF ClaimOk
  <2>5. owned'["step"] = "none"
    BY <1>5, <2>3 DEF Names
  <2> QED
    BY <1>3, <1>7, <2>3, <2>4, <2>5 DEF Clear
<1>15. ASSUME NEW d \in Callbacks
       PROVE  ClaimOk(d)'
  <2>1. ClaimOk(d)
    BY <1>1
  <2>2. cb'[d].phase = "new" => cb'[d] = cb[d]
    BY <1>3, <1>7
  <2>3. cb'[d].phase = "new" => Clear(d)'
    BY <2>1, <2>2 DEF ClaimOk, Clear
  <2> QED
    BY <1>11, <2>3 DEF ClaimOk, Active
<1>16. ClaimsOfRuns'
  <2> SUFFICES ASSUME NEW n \in Names, owned'[n] # "none"
               PROVE  \E e \in Callbacks : cb'[e].of = owned'[n] /\ (cb'[e].phase \notin {"new", "idle"} \/ cb'[e].raised)
    BY <1>6 DEF ClaimsOfRuns
  <2>1. owned'[n] = owned[n] /\ n \notin mine
    BY <1>5, <1>12 DEF ClaimOk
  <2>2. PICK d \in Callbacks : cb[d].of = owned[n] /\ cb[d].raised
    BY <1>12, <2>1 DEF ClaimOk
  <2> QED
    BY <1>3, <1>7, <2>1, <2>2
<1> QED
  BY <1>13, <1>14, <1>15, <1>16 DEF ClaimInv

LEMMA ClaimTrainRaises ==
  ASSUME ClaimInv, NEW c \in Callbacks, TrainRaises(c)
  PROVE  ClaimInv'
<1> DEFINE r == [cb[c] EXCEPT !.phase = "idle", !.raised = TRUE]
<1>1. ClaimType /\ RunOk /\ OwnOk /\ ClaimsOfRuns /\ \A d \in Callbacks : ClaimOk(d)
  BY DEF ClaimInv
<1>2. cb[c] \in Callback /\ frames \in Seq(FrameRec)
  BY <1>1 DEF ClaimType
<1>3. /\ r \in Callback /\ r.of = cb[c].of /\ r.epoch = cb[c].epoch /\ r.step = cb[c].step
      /\ r.phase = "idle" /\ r.raised = TRUE
  BY <1>2 DEF Callback
<1>4. cb' = [cb EXCEPT ![c] = r] /\ owned' = owned
  BY DEF TrainRaises
<1> HIDE DEF r
<1>5. PICK p \in Active : InRun(c, p)
  BY DEF TrainRaises, Active
<1>6. \A d \in Callbacks : cb'[d] = IF d = c THEN r ELSE cb[d]
  BY <1>1, <1>4 DEF ClaimType
<1>7. /\ frames # <<>> /\ cb[c].phase \in Active
      /\ \A i \in 1..Len(frames) : frames[i].what = "run" => i = Len(frames)
      /\ \A d \in Callbacks : cb[d].phase \in Active => d = c
  BY <1>1, <1>5, Running
<1>8. /\ frames' \in Seq(FrameRec)
      /\ \A i \in 1..Len(frames') : i \in 1..Len(frames) /\ i # Len(frames) /\ frames'[i] = frames[i]
  <2>1. Leave
    BY DEF TrainRaises
  <2> QED
    BY <1>1, <1>7, <2>1, Departed
<1>9. \A i \in 1..Len(frames') : frames'[i].what # "run"
  BY <1>7, <1>8
<1>10. \A d \in Callbacks : cb'[d].phase \notin Active
  BY <1>3, <1>6, <1>7 DEF Active
<1>11. ClaimType' /\ RunOk'
  BY <1>1, <1>3, <1>4, <1>8, <1>9, <1>10 DEF ClaimType, RunOk
<1>12. OwnOk'
  BY <1>1, <1>4, <1>7 DEF OwnOk
<1>13. ASSUME NEW d \in Callbacks
       PROVE  ClaimOk(d)'
  <2>1. ClaimOk(d)
    BY <1>1
  <2>2. cb'[d].phase = "new" => cb'[d] = cb[d]
    BY <1>3, <1>6
  <2>3. cb'[d].phase = "new" => Clear(d)'
    BY <2>1, <2>2 DEF ClaimOk, Clear
  <2> QED
    BY <1>10, <2>3 DEF ClaimOk, Active
<1>14. ClaimsOfRuns'
  <2> SUFFICES ASSUME NEW n \in DOMAIN owned, owned[n] # "none"
               PROVE  \E e \in Callbacks : cb'[e].of = owned[n] /\ (cb'[e].phase \notin {"new", "idle"} \/ cb'[e].raised)
    BY <1>4 DEF ClaimsOfRuns
  <2>1. PICK e \in Callbacks : cb[e].of = owned[n] /\ (cb[e].phase \notin {"new", "idle"} \/ cb[e].raised)
    BY <1>1 DEF ClaimsOfRuns
  <2> QED
    BY <1>3, <1>6, <2>1
<1> QED
  BY <1>11, <1>12, <1>13, <1>14 DEF ClaimInv

\* Pushed is a number.
LEMMA PushedNat ==
  ASSUME WorldOk(sc)
  PROVE  Pushed(sc) \in Nat
<1>1. Len(sc.all) \in Nat
  BY DEF WorldOk, World
<1> QED
  BY <1>1 DEF Pushed, None

LEMMA ClaimCallback ==
  ASSUME ClaimInv, WorldOk(sc), NEW c \in Callbacks, CallbackStep(c)
  PROVE  ClaimInv'
<1>1. cb \in [Callbacks -> Callback] /\ cb[c] \in Callback /\ ClaimOk(c)
  BY DEF ClaimInv, ClaimType
<1>2. Pushed(sc) \in Nat
  BY PushedNat
<1>3. CASE TrainBegin(c)
  BY <1>3, ClaimTrainBegin
<1>4. CASE EpochBegin(c)
  <2> DEFINE r == [cb[c] EXCEPT !.epoch = Pushed(sc), !.phase = "epoch"]
  <2>1. InRun(c, "train") /\ owned' = owned /\ frames' = frames /\ cb' = [cb EXCEPT ![c] = r]
    BY <1>1, <1>4 DEF EpochBegin
  <2>2. cb[c].step = None
    BY <1>1, <2>1 DEF ClaimOk, InRun, Clear
  <2>3. /\ r \in Callback /\ r.of = cb[c].of /\ r.claimed = cb[c].claimed /\ r.raised = cb[c].raised
        /\ r.phase = "epoch" /\ r.step = None
    BY <1>1, <1>2, <2>2 DEF Callback, Active
  <2> HIDE DEF r
  <2> QED
    BY <2>1, <2>3, ClaimPhase DEF Active
<1>5. CASE StepBegin(c)
  <2> DEFINE r == [cb[c] EXCEPT !.step = Pushed(sc), !.phase = "step"]
  <2>1. InRun(c, "epoch") /\ owned' = owned /\ frames' = frames /\ cb' = [cb EXCEPT ![c] = r]
    BY <1>1, <1>5 DEF StepBegin
  <2>3. /\ r \in Callback /\ r.of = cb[c].of /\ r.claimed = cb[c].claimed /\ r.raised = cb[c].raised
        /\ r.phase = "step"
    BY <1>1, <1>2 DEF Callback, Active
  <2> HIDE DEF r
  <2> QED
    BY <2>1, <2>3, ClaimPhase DEF Active
<1>6. CASE StepEnd(c)
  <2> DEFINE r == [cb[c] EXCEPT !.step = None, !.phase = "epoch"]
  <2>1. InRun(c, "step") /\ owned' = owned /\ frames' = frames /\ cb' = [cb EXCEPT ![c] = r]
    BY <1>1, <1>6 DEF StepEnd
  <2>3. /\ r \in Callback /\ r.of = cb[c].of /\ r.claimed = cb[c].claimed /\ r.raised = cb[c].raised
        /\ r.phase = "epoch" /\ r.step = None
    BY <1>1 DEF Callback, Active, None
  <2> HIDE DEF r
  <2> QED
    BY <2>1, <2>3, ClaimPhase DEF Active
<1>7. CASE EpochEnd(c)
  <2> DEFINE r == [cb[c] EXCEPT !.epoch = None, !.phase = "train"]
  <2>1. InRun(c, "epoch") /\ owned' = owned /\ frames' = frames /\ cb' = [cb EXCEPT ![c] = r]
    BY <1>1, <1>7 DEF EpochEnd
  <2>2. cb[c].step = None
    BY <1>1, <2>1 DEF ClaimOk, InRun
  <2>3. /\ r \in Callback /\ r.of = cb[c].of /\ r.claimed = cb[c].claimed /\ r.raised = cb[c].raised
        /\ r.phase = "train" /\ r.epoch = None /\ r.step = None
    BY <1>1, <2>2 DEF Callback, Active, None
  <2> HIDE DEF r
  <2> QED
    BY <2>1, <2>3, ClaimPhase DEF Active
<1>8. CASE TrainEnd(c)
  BY <1>8, ClaimTrainEnd
<1>9. CASE TrainRaises(c)
  BY <1>9, ClaimTrainRaises
<1> QED
  BY <1>3, <1>4, <1>5, <1>6, <1>7, <1>8, <1>9 DEF CallbackStep

\* The other steps own nothing and give nothing back.
LEMMA ClaimOthers ==
  ASSUME ClaimInv, WorldOk(sc),
         \/ Install \/ Uninstall \/ UserEnter \/ UserExit \/ TorchStep \/ UNCHANGED vars
  PROVE  ClaimInv'
<1>1. Pushed(sc) \in Nat /\ None \in Nat
  BY PushedNat DEF None
<1>2. CASE Install \/ Uninstall \/ DlIter \/ DlNext \/ EventDone \/ UNCHANGED vars
  <2>1. UNCHANGED <<owned, cb, frames>>
    BY <1>2 DEF Install, Uninstall, DlIter, DlNext, EventDone, vars
  <2> QED
    BY <2>1, ClaimFrames
<1>3. CASE UserEnter \/ ForwardPre \/ BackwardBegin \/ OptimizerPre
  <2>1. UNCHANGED <<owned, cb>>
    BY <1>3 DEF UserEnter, ForwardPre, BackwardBegin, OptimizerPre
  <2>2. \E what \in Ops \cup {"user"}, s \in Nat : Enter(what, s)
    BY <1>1, <1>3 DEF UserEnter, ForwardPre, BackwardBegin, OptimizerPre, Ops
  <2> QED
    BY <2>1, <2>2, ClaimFrames
<1>4. CASE UserExit \/ Raise \/ \E timed \in {FALSE, Cuda} :
              ForwardPost(timed) \/ BackwardEnd(timed) \/ OptimizerPost(timed)
  <2>1. UNCHANGED <<owned, cb>> /\ Leave
    BY <1>4 DEF UserExit, Raise, ForwardPost, BackwardEnd, OptimizerPost
  <2>2. frames # <<>> /\ Last(frames).what # "run"
    BY <1>4 DEF UserExit, Raise, ForwardPost, BackwardEnd, OptimizerPost, Innermost
  <2> QED
    BY <2>1, <2>2, ClaimFrames
<1> QED
  BY <1>2, <1>3, <1>4 DEF TorchStep

-------------------------------------------------------------------------------
(* The constructs that are open.  Within a hooked operation every construct    *)
(* that is to take a scope off still has one on the stack, and the outer ones  *)
(* lie below: no pop reaches the span of the operation before its own hook.    *)

IsOp(i)     == frames[i].what \in Ops
Within(i)   == \E p \in 1..i : IsOp(p)
Forwards    == {i \in 1..Len(frames) : frames[i].what = "forward"}
Outermost(i) == \A j \in 1..(i - 1) : frames[j].what # "forward"

\* torch.fwd is the span of the outermost forward: none of them has raised.
Sound == torch.depth = Cardinality(Forwards) /\ torch.fwd # None

Live(i) == /\ Within(i)
           /\ \/ frames[i].what \in Own /\ frames[i].scope # None
              \/ frames[i].what = "forward" /\ Outermost(i) /\ Sound

SpanAt(i) == IF frames[i].what = "forward" THEN torch.fwd ELSE frames[i].scope

SpanOk(s) == ~sc.all[s].ended /\ Left(sc, sc.all[s].within)

\* h gives each of them a scope on the stack, an operation its span.
Homes(h) ==
    /\ \A i \in 1..Len(frames) : Live(i) => h[i] \in On(sc)
    /\ \A i, j \in 1..Len(frames) : Live(i) /\ Live(j) /\ i < j => h[i] < h[j]
    /\ \A i \in 1..Len(frames) : Live(i) /\ IsOp(i) => h[i] = SpanAt(i) /\ SpanOk(SpanAt(i))

NestOk == \E h \in [1..Len(frames) -> Nat] : Homes(h)

DepthOk == Cardinality(Forwards) <= torch.depth

FrameOk(i) ==
    /\ frames[i].what \in Own => frames[i].scope \in 0..Len(sc.all)
    /\ frames[i].what \in Own /\ frames[i].scope # None =>
          sc.all[frames[i].scope].kind = frames[i].what
    /\ frames[i].what \notin {"user", "forward"} => \A j \in 1..(i - 1) : ~IsOp(j)

\* While a callback has a scope, the hook opens no epoch above it.
AboveEpoch(s) == s # None => /\ s \in 1..Len(sc.all) /\ sc.all[s].by # "torch"
                             /\ torch.epoch < s

CbOk(c) == AboveEpoch(cb[c].epoch) /\ AboveEpoch(cb[c].step)

BackOk == \A s \in 1..Len(sc.all) : sc.all[s].kind = "backward" /\ ~sc.all[s].ended =>
             \E i \in 1..Len(frames) : frames[i].what = "backward" /\ frames[i].scope = s

GoneOk == /\ "torch" \notin hooked => /\ torch.items = {} /\ torch.epoch = None
                                      /\ \A i \in 1..Len(frames) : ~IsOp(i)
          /\ torch.off => hooked = {}

HookInv == /\ Sane(sc, torch) /\ NestOk /\ DepthOk /\ BackOk /\ GoneOk
           /\ \A i \in 1..Len(frames) : FrameOk(i)
           /\ \A c \in Callbacks : CbOk(c)

LEMMA NoOps ==
  ASSUME frames \in Seq(FrameRec), torch.depth \in Nat
  PROVE  (~InOp <=> \A i \in 1..Len(frames) : ~IsOp(i)) /\ DOMAIN frames = 1..Len(frames)
         /\ IsFiniteSet(Forwards) /\ Cardinality(Forwards) \in Nat
<1>1. DOMAIN frames = 1..Len(frames) /\ Len(frames) \in Nat
  OBVIOUS
<1>2. ~InOp <=> \A i \in 1..Len(frames) : ~IsOp(i)
  BY <1>1 DEF InOp, IsOp, Ops
<1>3. IsFiniteSet(1..Len(frames))
  BY <1>1, FS_Interval
<1>4. IsFiniteSet(Forwards)
  BY <1>3, FS_Subset DEF Forwards
<1> QED
  BY <1>1, <1>2, <1>4, FS_CardinalityType

\* Outside of operations there is nothing to say.
LEMMA NestIdle ==
  ASSUME frames' \in Seq(FrameRec), torch'.depth \in Nat, \A i \in 1..Len(frames') : ~IsOp(i)'
  PROVE  NestOk' /\ DepthOk'
<1>1. Len(frames') \in Nat
  OBVIOUS
<1>2. \A i \in 1..Len(frames') : ~Live(i)'
  <2> SUFFICES ASSUME NEW i \in 1..Len(frames'), Within(i)'
               PROVE  FALSE
    BY DEF Live
  <2>1. PICK p \in 1..i : IsOp(p)'
    BY DEF Within
  <2>2. p \in 1..Len(frames')
    BY <1>1
  <2> QED
    BY <2>1, <2>2
<1>3. NestOk'
  <2> DEFINE h == [i \in 1..Len(frames') |-> 0]
  <2>1. h \in [1..Len(frames') -> Nat]
    OBVIOUS
  <2> HIDE DEF h
  <2>2. /\ \A i \in 1..Len(frames') : Live(i)' => h[i] \in On(sc')
        /\ \A i, j \in 1..Len(frames') : Live(i)' /\ Live(j)' /\ i < j => h[i] < h[j]
        /\ \A i \in 1..Len(frames') : Live(i)' /\ IsOp(i)' => h[i] = SpanAt(i)' /\ SpanOk(SpanAt(i))'
    BY <1>2
  <2> QED
    BY <2>1, <2>2 DEF NestOk, Homes
<1>4. Forwards' = {}
  BY DEF Forwards, IsOp, Ops
<1> QED
  BY <1>3, <1>4, FS_EmptySet DEF DepthOk

\* A construct is entered, with a new scope p on the stack or none.
LEMMA NestEntered ==
  ASSUME NestOk, WorldOk(sc), NEW p, NEW k, NEW b, Opens(sc, sc', p, k, b),
         Len(frames) \in Nat, Len(frames') = Len(frames) + 1,
         \A i \in 1..Len(frames) : Live(i)' => Live(i) /\ (IsOp(i)' => IsOp(i)) /\ SpanAt(i)' = SpanAt(i),
         NEW n, n = Len(frames) + 1,
         Live(n)' => p # None /\ (IsOp(n)' => SpanAt(n)' = p /\ Left(sc', torch.epoch))
  PROVE  NestOk'
<1>1. PICK h \in [1..Len(frames) -> Nat] : Homes(h)
  BY DEF NestOk
<1> DEFINE g == [i \in 1..n |-> IF i = n THEN p ELSE h[i]]
<1>2. p \in Nat /\ Len(sc.all) \in Nat /\ On(sc) \subseteq 1..Len(sc.all)
  BY DEF Opens, None, WorldOk, World
<1>3. g \in [1..n -> Nat] /\ g[n] = p /\ (\A i \in 1..Len(frames) : g[i] = h[i] /\ i \in 1..n)
      /\ \A i \in 1..n : i = n \/ i \in 1..Len(frames)
  BY <1>2
<1>4. n \in Nat /\ n = Len(frames')
  OBVIOUS
<1> HIDE DEF g
<1>5. /\ \A i \in 1..Len(frames) : Live(i) => h[i] \in On(sc)
      /\ \A i, j \in 1..Len(frames) : Live(i) /\ Live(j) /\ i < j => h[i] < h[j]
      /\ \A i \in 1..Len(frames) : Live(i) /\ IsOp(i) => h[i] = SpanAt(i) /\ SpanOk(SpanAt(i))
  BY <1>1 DEF Homes
<1>6. On(sc) \subseteq On(sc') /\ (p # None => p \in On(sc') /\ \A x \in On(sc) : x < p)
  BY <1>2 DEF Opens
<1>7. \A s \in On(sc) : SpanOk(s) => ~sc'.all[s].ended /\ Left(sc', sc'.all[s].within)
  <2> SUFFICES ASSUME NEW s \in On(sc), SpanOk(s)
               PROVE  ~sc'.all[s].ended /\ Left(sc', sc'.all[s].within)
    OBVIOUS
  <2>1. sc'.all[s] = sc.all[s]
    BY <1>2 DEF Opens
  <2>2. Left(sc', sc.all[s].within)
    BY LeftOpened DEF SpanOk
  <2> QED
    BY <2>1, <2>2 DEF SpanOk
<1>8. ASSUME NEW i \in 1..n, Live(i)'
      PROVE  /\ g[i] \in On(sc')
             /\ IsOp(i)' => g[i] = SpanAt(i)' /\ SpanOk(SpanAt(i))'
  <2>1. CASE i = n
    <3>1. p # None /\ (IsOp(n)' => SpanAt(n)' = p /\ Left(sc', torch.epoch))
      BY <1>8, <2>1
    <3>2. sc'.all[p].ended = FALSE /\ sc'.all[p].within = torch.epoch
      BY <3>1 DEF Opens
    <3>3. Left(sc', torch.epoch) => SpanOk(p)'
      BY <3>2 DEF SpanOk
    <3>4. IsOp(n)' => SpanOk(SpanAt(n))'
      <4> SUFFICES ASSUME IsOp(n)'
                   PROVE  SpanOk(SpanAt(n))'
        OBVIOUS
      <4>1. SpanAt(n)' = p /\ Left(sc', torch.epoch)
        BY <3>1
      <4> QED
        BY <3>2, <4>1 DEF SpanOk
    <3> QED
      BY <1>3, <1>6, <2>1, <3>1, <3>4
  <2>2. CASE i \in 1..Len(frames)
    <3>1. Live(i) /\ (IsOp(i)' => IsOp(i)) /\ SpanAt(i)' = SpanAt(i)
      BY <1>8, <2>2
    <3>2. g[i] = h[i] /\ h[i] \in On(sc)
      BY <1>3, <1>5, <2>2, <3>1
    <3>3. IsOp(i)' => g[i] = SpanAt(i)' /\ SpanOk(SpanAt(i))'
      <4> SUFFICES ASSUME IsOp(i)'
                   PROVE  g[i] = SpanAt(i)' /\ SpanOk(SpanAt(i))'
        OBVIOUS
      <4>1. h[i] = SpanAt(i) /\ SpanOk(SpanAt(i))
        BY <1>5, <2>2, <3>1
      <4>2. ~sc'.all[h[i]].ended /\ Left(sc', sc'.all[h[i]].within)
        BY <1>7, <3>2, <4>1
      <4> QED
        BY <3>1, <3>2, <4>1, <4>2 DEF SpanOk
    <3> QED
      BY <1>6, <3>2, <3>3
  <2> QED
    BY <1>3, <2>1, <2>2
<1>9. ASSUME NEW i \in 1..n, NEW j \in 1..n, Live(i)', Live(j)', i < j
      PROVE  g[i] < g[j]
  <2>1. i \in 1..Len(frames) /\ Live(i) /\ g[i] = h[i] /\ h[i] \in On(sc)
    <3>1. i \in 1..Len(frames)
      BY <1>4, <1>9
    <3> QED
      BY <1>3, <1>5, <1>9, <3>1
  <2>2. CASE j = n
    BY <1>3, <1>6, <1>9, <2>1, <2>2
  <2>3. CASE j \in 1..Len(frames)
    BY <1>3, <1>5, <1>9, <2>1, <2>3
  <2> QED
    BY <1>3, <2>2, <2>3
<1>10. /\ \A i \in 1..Len(frames') : Live(i)' => g[i] \in On(sc')
       /\ \A i, j \in 1..Len(frames') : Live(i)' /\ Live(j)' /\ i < j => g[i] < g[j]
       /\ \A i \in 1..Len(frames') : Live(i)' /\ IsOp(i)' => g[i] = SpanAt(i)' /\ SpanOk(SpanAt(i))'
  BY <1>4, <1>8, <1>9
<1>11. g \in [1..Len(frames') -> Nat]
  BY <1>3, <1>4
<1> QED
  BY <1>10, <1>11 DEF NestOk, Homes

\* The innermost construct is left, and the scope z that it takes off, if any, is
\* above those of the outer ones.
LEMMA NestDeparted ==
  ASSUME NestOk, WorldOk(sc), NEW z \in Nat,
         Len(frames) \in Nat, Len(frames) >= 1, Len(frames') = Len(frames) - 1,
         \A i \in 1..Len(frames') : Live(i)' => Live(i) /\ (IsOp(i)' => IsOp(i)) /\ SpanAt(i)' = SpanAt(i),
         z # None /\ Within(Len(frames)) =>
             Live(Len(frames)) /\ \A h : Homes(h) => h[Len(frames)] \in Nat /\ h[Len(frames)] <= z,
         On(sc) \ {z} \subseteq On(sc'),
         \A s \in 1..Len(sc.all) : /\ sc'.all[s].within = sc.all[s].within
                                   /\ sc'.all[s].ended <=> (sc.all[s].ended \/ s = z),
         \A e : Left(sc, e) => Left(sc', e)
  PROVE  NestOk'
<1>1. PICK h \in [1..Len(frames) -> Nat] : Homes(h)
  BY DEF NestOk
<1> DEFINE n == Len(frames)
           g == [i \in 1..Len(frames') |-> h[i]]
<1>2. /\ n \in Nat /\ Len(frames') \in Nat /\ n \in 1..n
      /\ \A i \in 1..Len(frames') : i \in 1..n /\ i < n
  OBVIOUS
<1>3. g \in [1..Len(frames') -> Nat] /\ \A i \in 1..Len(frames') : g[i] = h[i]
  BY <1>2
<1> HIDE DEF g
<1>4. On(sc) \subseteq 1..Len(sc.all) /\ Len(sc.all) \in Nat
  BY DEF WorldOk, World
<1>5. /\ \A i \in 1..n : Live(i) => h[i] \in On(sc)
      /\ \A i, j \in 1..n : Live(i) /\ Live(j) /\ i < j => h[i] < h[j]
      /\ \A i \in 1..n : Live(i) /\ IsOp(i) => h[i] = SpanAt(i) /\ SpanOk(SpanAt(i))
  BY <1>1 DEF Homes
<1>6. ASSUME NEW i \in 1..Len(frames'), Live(i)'
      PROVE  Live(i) /\ g[i] = h[i] /\ h[i] \in On(sc) /\ h[i] # z
  <2>1. Live(i) /\ g[i] = h[i] /\ h[i] \in On(sc) /\ i \in 1..n /\ i < n
    BY <1>2, <1>3, <1>5, <1>6
  <2>2. h[i] \in Nat /\ h[i] # None
    BY <1>4, <2>1 DEF None
  <2>3. CASE z = None
    BY <2>1, <2>2, <2>3
  <2>4. CASE z # None
    <3>1. Within(n)
      <4>1. PICK q \in 1..i : IsOp(q)
        BY <2>1 DEF Live, Within
      <4>2. q \in 1..n
        BY <2>1
      <4> QED
        BY <4>1, <4>2 DEF Within
    <3>2. Live(n) /\ h[n] \in Nat /\ h[n] <= z
      BY <1>1, <2>4, <3>1
    <3>3. h[i] < h[n]
      BY <1>2, <1>5, <2>1, <3>2
    <3> QED
      BY <2>1, <2>2, <3>2, <3>3
  <2> QED
    BY <2>3, <2>4
<1>7. ASSUME NEW i \in 1..Len(frames'), Live(i)'
      PROVE  /\ g[i] \in On(sc')
             /\ IsOp(i)' => g[i] = SpanAt(i)' /\ SpanOk(SpanAt(i))'
  <2>1. g[i] = h[i] /\ h[i] \in On(sc) /\ h[i] # z /\ g[i] \in On(sc') /\ h[i] \in 1..Len(sc.all) /\ i \in 1..n
    BY <1>2, <1>4, <1>6, <1>7
  <2>2. ASSUME IsOp(i)'
        PROVE  g[i] = SpanAt(i)' /\ SpanOk(SpanAt(i))'
    <3>1. SpanAt(i)' = SpanAt(i) /\ Live(i) /\ IsOp(i)
      BY <1>7, <2>2
    <3>2. h[i] = SpanAt(i) /\ SpanOk(SpanAt(i))
      BY <1>5, <2>1, <3>1
    <3>3. ~sc'.all[h[i]].ended /\ Left(sc', sc'.all[h[i]].within)
      BY <2>1, <3>2 DEF SpanOk
    <3> QED
      BY <2>1, <3>1, <3>2, <3>3 DEF SpanOk
  <2> QED
    BY <2>1, <2>2
<1>8. ASSUME NEW i \in 1..Len(frames'), NEW j \in 1..Len(frames'), Live(i)', Live(j)', i < j
      PROVE  g[i] < g[j]
  BY <1>2, <1>5, <1>6, <1>8
<1>9. /\ \A i \in 1..Len(frames') : Live(i)' => g[i] \in On(sc')
      /\ \A i, j \in 1..Len(frames') : Live(i)' /\ Live(j)' /\ i < j => g[i] < g[j]
      /\ \A i \in 1..Len(frames') : Live(i)' /\ IsOp(i)' => g[i] = SpanAt(i)' /\ SpanOk(SpanAt(i))'
  BY <1>7, <1>8
<1> QED
  BY <1>3, <1>9 DEF NestOk, Homes

-------------------------------------------------------------------------------
(* The parts of the invariant that a step of any kind keeps.                   *)

Same(i) == i \in 1..Len(frames) /\ \A j \in 1..i : frames'[j] = frames[j]

LEMMA FramesKept ==
  ASSUME HookInv, Keeps(sc, sc'), Len(sc.all) \in Nat, Len(sc'.all) \in Nat,
         NEW i \in 1..Len(frames'), Same(i)
  PROVE  FrameOk(i)'
<1>1. FrameOk(i) /\ frames'[i] = frames[i] /\ \A j \in 1..(i - 1) : frames'[j] = frames[j]
  BY DEF HookInv, Same
<1>2. frames[i].what \in Own => frames[i].scope \in 0..Len(sc'.all)
  BY <1>1 DEF FrameOk, Keeps
<1>3. frames[i].what \in Own /\ frames[i].scope # None => sc'.all[frames[i].scope].kind = frames[i].what
  <2> SUFFICES ASSUME frames[i].what \in Own, frames[i].scope # None
               PROVE  sc'.all[frames[i].scope].kind = frames[i].what
    OBVIOUS
  <2>1. frames[i].scope \in 1..Len(sc.all)
    BY <1>1 DEF FrameOk, None
  <2> QED
    BY <1>1, <2>1 DEF FrameOk, Keeps
<1>4. frames[i].what \notin {"user", "forward"} => \A j \in 1..(i - 1) : ~IsOp(j)'
  BY <1>1 DEF FrameOk, IsOp
<1> QED
  BY <1>1, <1>2, <1>3, <1>4 DEF FrameOk

LEMMA AboveKept ==
  ASSUME Keeps(sc, sc'), Len(sc.all) \in Nat, Len(sc'.all) \in Nat, NEW s, AboveEpoch(s),
         torch'.epoch = torch.epoch \/ torch'.epoch = None
  PROVE  AboveEpoch(s)'
<1>1. CASE s = None
  BY <1>1 DEF AboveEpoch
<1>2. CASE s # None
  <2>1. s \in 1..Len(sc.all) /\ sc.all[s].by # "torch" /\ torch.epoch < s
    BY <1>2 DEF AboveEpoch
  <2>2. s \in 1..Len(sc'.all) /\ sc'.all[s].by # "torch"
    BY <2>1 DEF Keeps
  <2>3. torch'.epoch < s
    BY <2>1 DEF None
  <2> QED
    BY <2>2, <2>3 DEF AboveEpoch
<1> QED
  BY <1>1, <1>2

LEMMA CbKept ==
  ASSUME HookInv, Keeps(sc, sc'), Len(sc.all) \in Nat, Len(sc'.all) \in Nat, cb' = cb,
         torch'.epoch = torch.epoch \/ torch'.epoch = None
  PROVE  \A c \in Callbacks : CbOk(c)'
<1> SUFFICES ASSUME NEW c \in Callbacks
             PROVE  CbOk(c)'
  OBVIOUS
<1>1. AboveEpoch(cb[c].epoch) /\ AboveEpoch(cb[c].step)
  BY DEF HookInv, CbOk
<1>2. AboveEpoch(cb[c].epoch)' /\ AboveEpoch(cb[c].step)'
  <2>1. ASSUME NEW s, AboveEpoch(s)
        PROVE  AboveEpoch(s)'
    BY <2>1, AboveKept
  <2> DEFINE e == cb[c].epoch
             q == cb[c].step
  <2>2. AboveEpoch(e) /\ AboveEpoch(q)
    BY <1>1
  <2>3. cb'[c].epoch = e /\ cb'[c].step = q
    OBVIOUS
  <2> QED
    BY <2>1, <2>2, <2>3 DEF AboveEpoch
<1> QED
  BY <1>2 DEF CbOk

LEMMA BackKept ==
  ASSUME HookInv, Keeps(sc, sc'),
         \A s \in 1..Len(sc'.all) : s \in 1..Len(sc.all) \/ sc'.all[s].kind # "backward",
         \A i \in 1..Len(frames) : frames[i].what = "backward" => i \in 1..Len(frames') /\ frames'[i] = frames[i]
  PROVE  BackOk'
<1> SUFFICES ASSUME NEW s \in 1..Len(sc'.all), sc'.all[s].kind = "backward", ~sc'.all[s].ended
             PROVE  \E i \in 1..Len(frames') : frames'[i].what = "backward" /\ frames'[i].scope = s
  BY DEF BackOk
<1>1. s \in 1..Len(sc.all) /\ sc.all[s].kind = "backward" /\ ~sc.all[s].ended
  BY DEF Keeps
<1>2. PICK i \in 1..Len(frames) : frames[i].what = "backward" /\ frames[i].scope = s
  BY <1>1 DEF HookInv, BackOk
<1> QED
  BY <1>2

LEMMA LiveKept ==
  ASSUME NEW i \in 1..Len(frames'), Same(i), Live(i)',
         frames[i].what = "forward" /\ Outermost(i) /\ Sound' => Sound /\ torch'.fwd = torch.fwd
  PROVE  Live(i) /\ (IsOp(i)' => IsOp(i)) /\ SpanAt(i)' = SpanAt(i)
<1>1. frames'[i] = frames[i] /\ (\A j \in 1..i : IsOp(j)' <=> IsOp(j)) /\ (Outermost(i)' <=> Outermost(i))
  <2>1. i \in Nat /\ i \in 1..i /\ 1..(i - 1) \subseteq 1..i
    BY DEF Same
  <2> QED
    BY <2>1 DEF Same, IsOp, Outermost
<1>2. Within(i)
  BY <1>1 DEF Live, Within
<1>3. CASE frames[i].what = "forward"
  BY <1>1, <1>2, <1>3 DEF Live, SpanAt, IsOp, Own
<1>4. CASE frames[i].what # "forward"
  BY <1>1, <1>2, <1>4 DEF Live, SpanAt, IsOp
<1> QED
  BY <1>3, <1>4

\* The number of forwards, when a construct is entered or left.
LEMMA ForwardsEntered ==
  ASSUME frames \in Seq(FrameRec), Len(frames') = Len(frames) + 1, NEW what,
         \A i \in 1..Len(frames) : frames'[i] = frames[i], frames'[Len(frames) + 1].what = what
  PROVE  /\ what # "forward" => Forwards' = Forwards /\ Cardinality(Forwards') = Cardinality(Forwards)
         /\ what = "forward" => Cardinality(Forwards') = Cardinality(Forwards) + 1
<1> DEFINE n == Len(frames) + 1
<1>1. Len(frames) \in Nat /\ \A i \in 1..Len(frames') : i = n \/ i \in 1..Len(frames)
  OBVIOUS
<1>2. n \in 1..Len(frames') /\ n \notin 1..Len(frames) /\ 1..Len(frames) \subseteq 1..Len(frames')
  BY <1>1
<1>3. IsFiniteSet(Forwards)
  <2>1. IsFiniteSet(1..Len(frames)) /\ Forwards \subseteq 1..Len(frames)
    BY <1>1, FS_Interval DEF Forwards
  <2> QED
    BY <2>1, FS_Subset
<1> HIDE DEF n
<1>4. frames'[n].what = what
  BY DEF n
<1>5. CASE what = "forward"
  <2>1. Forwards' = Forwards \cup {n} /\ n \notin Forwards
    BY <1>1, <1>2, <1>4, <1>5 DEF Forwards
  <2>2. Cardinality(Forwards \cup {n}) = Cardinality(Forwards) + 1
    BY <1>3, <2>1, FS_AddElement
  <2> QED
    BY <1>5, <2>1, <2>2
<1>6. CASE what # "forward"
  <2>1. Forwards' = Forwards
    BY <1>1, <1>2, <1>4, <1>6 DEF Forwards
  <2> QED
    BY <1>6, <2>1
<1> QED
  BY <1>5, <1>6

LEMMA ForwardsDeparted ==
  ASSUME frames \in Seq(FrameRec), Len(frames) >= 1, Len(frames') = Len(frames) - 1,
         \A i \in 1..Len(frames') : frames'[i] = frames[i]
  PROVE  LET what == frames[Len(frames)].what IN
         /\ what # "forward" => Forwards' = Forwards /\ Cardinality(Forwards') = Cardinality(Forwards)
         /\ what = "forward" => /\ Cardinality(Forwards') = Cardinality(Forwards) - 1
                                /\ Cardinality(Forwards') \in Nat
                                /\ Cardinality(Forwards) \in Nat
<1> DEFINE n == Len(frames)
           what == frames[n].what
<1>1. n \in Nat /\ n \in 1..n /\ n \notin 1..Len(frames') /\ 1..Len(frames') \subseteq 1..n
      /\ \A i \in 1..n : i = n \/ i \in 1..Len(frames')
  OBVIOUS
<1>2. IsFiniteSet(Forwards)
  <2>1. IsFiniteSet(1..Len(frames)) /\ Forwards \subseteq 1..Len(frames)
    BY <1>1, FS_Interval DEF Forwards
  <2> QED
    BY <2>1, FS_Subset
<1>3. IsFiniteSet(Forwards') /\ Forwards' = Forwards \ {n}
  <2>1. Forwards' = Forwards \ {n}
    BY <1>1 DEF Forwards
  <2> QED
    BY <1>2, <2>1, FS_Subset
<1>4. Cardinality(Forwards) \in Nat /\ Cardinality(Forwards') \in Nat
  BY <1>2, <1>3, FS_CardinalityType
<1>5. CASE what = "forward"
  <2>1. n \in Forwards
    BY <1>1, <1>5 DEF Forwards
  <2>2. Cardinality(Forwards \ {n}) = Cardinality(Forwards) - 1
    BY <1>2, <2>1, FS_RemoveElement
  <2> QED
    BY <1>3, <1>4, <1>5, <2>2
<1>6. CASE what # "forward"
  <2>1. n \notin Forwards
    BY <1>6 DEF Forwards
  <2>2. Forwards' = Forwards
    BY <1>3, <2>1
  <2> QED
    BY <1>6, <2>2
<1> QED
  BY <1>5, <1>6

\* What the invariant says of types.
LEMMA Typed ==
  ASSUME HookInv, ClaimInv
  PROVE  /\ X \in State /\ X.w = sc /\ X.t = torch
         /\ sc \in World /\ WorldOk(sc) /\ torch \in Closure /\ Len(sc.all) \in Nat
         /\ Sane(sc, torch)
         /\ frames \in Seq(FrameRec) /\ Len(frames) \in Nat /\ DOMAIN frames = 1..Len(frames)
         /\ ClaimType /\ cb \in [Callbacks -> Callback]
<1>1. Sane(sc, torch) /\ ClaimType
  BY DEF HookInv, ClaimInv
<1>2. sc \in World /\ WorldOk(sc) /\ torch \in Closure
  BY <1>1 DEF Sane, WorldOk
<1>3. Len(sc.all) \in Nat
  BY <1>2 DEF World
<1>4. frames \in Seq(FrameRec) /\ cb \in [Callbacks -> Callback]
  BY <1>1 DEF ClaimType
<1>5. X \in State /\ X.w = sc /\ X.t = torch
  BY <1>2 DEF X, State
<1> QED
  BY <1>1, <1>2, <1>3, <1>4, <1>5

\* A step outside of operations, after which none is open either.
LEMMA HookIdle ==
  ASSUME HookInv, ClaimInv, ClaimInv', \A i \in 1..Len(frames) : ~IsOp(i),
         Sane(sc', torch'), Keeps(sc, sc'),
         \A s \in 1..Len(sc'.all) : s \in 1..Len(sc.all) \/ sc'.all[s].kind # "backward",
         \A i \in 1..Len(frames') : Same(i) \/ frames'[i].what = "run",
         GoneOk', \A c \in Callbacks : CbOk(c)'
  PROVE  HookInv'
<1>1. Len(sc.all) \in Nat
  BY Typed
<1>2. Len(sc'.all) \in Nat /\ torch'.depth \in Nat
  BY DEF Sane, WorldOk, World, Closure
<1>3. frames' \in Seq(FrameRec)
  BY DEF ClaimInv, ClaimType
<1>4. \A i \in 1..Len(frames') : ~IsOp(i)'
  <2> SUFFICES ASSUME NEW i \in 1..Len(frames')
               PROVE  ~IsOp(i)'
    OBVIOUS
  <2>1. CASE Same(i)
    <3>1. frames'[i] = frames[i] /\ i \in 1..Len(frames)
      BY <1>3, <2>1 DEF Same
    <3> QED
      BY <3>1 DEF IsOp
  <2>2. CASE frames'[i].what = "run"
    BY <2>2 DEF IsOp, Ops
  <2> QED
    BY <2>1, <2>2
<1>5. NestOk' /\ DepthOk'
  BY <1>2, <1>3, <1>4, NestIdle
<1>6. BackOk'
  <2>1. \A s \in 1..Len(sc.all) : sc.all[s].kind = "backward" => sc.all[s].ended
    BY DEF HookInv, BackOk, IsOp, Ops
  <2> QED
    BY <2>1 DEF BackOk, Keeps
<1>7. \A i \in 1..Len(frames') : FrameOk(i)'
  <2> SUFFICES ASSUME NEW i \in 1..Len(frames')
               PROVE  FrameOk(i)'
    OBVIOUS
  <2>1. CASE Same(i)
    BY <1>1, <1>2, <2>1, FramesKept
  <2>2. CASE frames'[i].what = "run"
    <3>1. \A j \in 1..(i - 1) : j \in 1..Len(frames')
      BY <1>3
    <3>2. \A j \in 1..(i - 1) : ~IsOp(j)'
      BY <1>4, <3>1
    <3> QED
      BY <2>2, <3>2 DEF FrameOk, Own
  <2> QED
    BY <2>1, <2>2
<1> QED
  BY <1>5, <1>6, <1>7 DEF HookInv

-------------------------------------------------------------------------------
(* Steps outside of operations.                                                *)

LEMMA SaneFields ==
  ASSUME NEW w, NEW t, NEW u, Sane(w, t), u \in Closure,
         u.items = t.items, u.epoch = t.epoch, u.step = t.step, u.fwd = t.fwd
  PROVE  Sane(w, u)
BY DEF Sane, TrackOk, StepOk, FwdOk, HeldOk

LEMMA KeepsSame ==
  ASSUME NEW w, Len(w.all) \in Nat
  PROVE  Keeps(w, w)
BY DEF Keeps

LEMMA FramesSame ==
  ASSUME frames' = frames, Len(frames) \in Nat
  PROVE  \A i \in 1..Len(frames') : Same(i)
BY DEF Same

LEMMA HookDlIter ==
  ASSUME HookInv, ClaimInv, ClaimInv', DlIter
  PROVE  HookInv'
<1> DEFINE x == [X EXCEPT !.t.iter = TRUE]
           z == [x EXCEPT !.t.dl = TRUE]
           ti == [torch EXCEPT !.iter = TRUE]
           td == [ti EXCEPT !.dl = TRUE]
<1>1. /\ X \in State /\ X.w = sc /\ X.t = torch
      /\ sc \in World /\ torch \in Closure /\ Len(sc.all) \in Nat /\ Sane(sc, torch)
      /\ frames \in Seq(FrameRec) /\ Len(frames) \in Nat
  BY Typed
<1>2. ti \in Closure /\ ti.items = torch.items /\ ti.epoch = torch.epoch /\ ti.step = torch.step /\ ti.fwd = torch.fwd
      /\ ti.off = torch.off
  BY <1>1 DEF Closure
<1> HIDE DEF ti
<1>3. td \in Closure /\ td.items = torch.items /\ td.epoch = torch.epoch /\ td.step = torch.step /\ td.fwd = torch.fwd
      /\ td.off = torch.off
  BY <1>2 DEF Closure
<1> HIDE DEF td
<1>4. x.w = sc /\ x.t = ti /\ x \in State
  BY <1>1, <1>2 DEF X, State, ti
<1>5. z.w = sc /\ z.t = td /\ z \in State
  BY <1>1, <1>3, <1>4 DEF X, State, ti, td
<1> HIDE DEF x, z
<1>6. Sane(sc, ti) /\ Sane(sc, td)
  BY <1>1, <1>2, <1>3, SaneFields
<1>7. "torch" \in hooked /\ ~InOp /\ hooked' = hooked /\ frames' = frames /\ cb' = cb
  BY DEF DlIter
<1>8. \A i \in 1..Len(frames) : ~IsOp(i)
  <2>1. torch.depth \in Nat
    BY <1>1 DEF Closure
  <2> QED
    BY <1>1, <1>7, <2>1, NoOps
<1>9. torch.off = FALSE
  <2>1. torch.off \in BOOLEAN
    BY <1>1 DEF Closure
  <2> QED
    BY <1>7, <2>1 DEF HookInv, GoneOk
<1>10. CASE SkipEpoch
  <2>1. sc' = sc /\ torch' = ti
    BY <1>4, <1>10 DEF DlIter, Becomes, x
  <2>2. Sane(sc', torch') /\ Keeps(sc, sc')
    BY <1>1, <1>6, <2>1, KeepsSame
  <2>3. GoneOk'
    BY <1>2, <1>7, <1>9, <2>1 DEF GoneOk
  <2>4. \A c \in Callbacks : CbOk(c)'
    BY <1>1, <1>2, <1>7, <2>1, <2>2, CbKept
  <2> QED
    BY <1>1, <1>7, <1>8, <2>1, <2>2, <2>3, <2>4, HookIdle, FramesSame
<1>11. CASE ~SkipEpoch
  <2> DEFINE y == RotateEpoch(z)
  <2>1. owned["epoch"] = "none"
    BY <1>11 DEF SkipEpoch
  <2>2. ~SkipStep /\ \A c \in Callbacks : Clear(c)
    BY <2>1 DEF ClaimInv, OwnOk, SkipStep
  <2>3. sc' = y.w /\ torch' = y.t
    BY <1>11 DEF DlIter, Becomes, x, z
  <2>4. torch.epoch \in Nat
    BY <1>1 DEF Closure
  <2>5. /\ Sane(y.w, y.t) /\ Keeps(sc, y.w)
        /\ \A s \in 1..Len(y.w.all) : s \in 1..Len(sc.all) \/ y.w.all[s].kind = "epoch"
        /\ y.t.off = td.off
    BY <1>5, <1>6, <2>2, <2>4, RotateDoes
  <2> HIDE DEF y
  <2>6. GoneOk'
    BY <1>3, <1>7, <1>9, <2>3, <2>5 DEF GoneOk
  <2>7. \A c \in Callbacks : CbOk(c)'
    BY <1>7, <2>2 DEF CbOk, Clear, AboveEpoch
  <2> QED
    BY <1>1, <1>7, <1>8, <2>3, <2>5, <2>6, <2>7, HookIdle, FramesSame
<1> QED
  BY <1>10, <1>11

LEMMA HookDlNext ==
  ASSUME HookInv, ClaimInv, ClaimInv', DlNext
  PROVE  HookInv'
<1> DEFINE p == Pushed(sc)
           t == [torch EXCEPT !.step = p]
<1>1. /\ WorldOk(sc) /\ torch \in Closure /\ Len(sc.all) \in Nat /\ Sane(sc, torch)
      /\ frames \in Seq(FrameRec) /\ Len(frames) \in Nat
  BY Typed
<1>2. /\ ~InOp /\ torch.step = None /\ hooked' = hooked /\ frames' = frames /\ cb' = cb
      /\ sc' = Push(sc, "step", "torch") /\ torch' = t
  BY DEF DlNext, Becomes
<1>3. torch.epoch \in Nat /\ torch.depth \in Nat
  BY <1>1 DEF Closure
<1>4. Opens(sc, sc', p, "step", "torch")
  BY <1>1, <1>2, <1>3, PushDoes DEF Kinds, Makers
<1>5. p \in Nat
  BY <1>1, PushedNat
<1> HIDE DEF p
<1>6. /\ t \in Closure /\ t.items = torch.items /\ t.epoch = torch.epoch /\ t.step = p /\ t.fwd = torch.fwd
      /\ t.off = torch.off
  BY <1>1, <1>5 DEF Closure
<1> HIDE DEF t
<1>7. Keeps(sc, sc') /\ WorldOk(sc')
  BY <1>1, <1>4, OpensKeeps
<1>8. \A e : Left(sc, e) => Left(sc', e)
  BY <1>1, <1>4, LeftOpened
<1>9. \A s \in 1..Len(sc.all) : s \in 1..Len(sc'.all) /\ sc'.all[s] = sc.all[s]
  BY <1>1, <1>4 DEF Opens
<1>10. \A s \in 1..Len(sc'.all) : s \in 1..Len(sc.all) \/ (s = p /\ sc'.all[s].kind = "step")
  BY <1>1, <1>4 DEF Opens
<1>11. Sane(sc', t)
  <2>1. EmitOk(sc', t.items)
    BY <1>1, <1>4, <1>6, EmitOpened DEF Sane
  <2>2. TrackOk(sc', t)
    <3> SUFFICES ASSUME NEW s \in 1..Len(sc'.all), ~sc'.all[s].ended, sc'.all[s].by = "torch"
                 PROVE  /\ sc'.all[s].kind = "epoch" => t.epoch = s
                        /\ sc'.all[s].kind = "step" => t.step = s
      BY DEF TrackOk
    <3>1. CASE s \in 1..Len(sc.all)
      <4>1. sc'.all[s] = sc.all[s]
        BY <1>9, <3>1
      <4>2. /\ sc.all[s].kind = "epoch" => torch.epoch = s
            /\ sc.all[s].kind = "step" => torch.step = s
        BY <1>1, <3>1, <4>1 DEF Sane, TrackOk
      <4>3. torch.step # s
        BY <1>2, <3>1 DEF None
      <4> QED
        BY <1>6, <4>1, <4>2, <4>3
    <3>2. CASE s \notin 1..Len(sc.all)
      BY <1>6, <1>10, <3>2
    <3> QED
      BY <3>1, <3>2
  <2>3. StepOk(sc', t)
    BY <1>4, <1>6 DEF StepOk, Opens
  <2>4. FwdOk(sc', t)
    BY <1>1, <1>6, <1>9 DEF Sane, FwdOk
  <2>5. \A i \in t.items : sc'.all[i.span].within = sc.all[i.span].within
    BY <1>1, <1>6, <1>9 DEF Sane, EmitOk
  <2>6. HeldOk(sc', t)
    BY <1>1, <1>6, <1>8, <2>5 DEF Sane, HeldOk
  <2> QED
    BY <1>6, <1>7, <2>1, <2>2, <2>3, <2>4, <2>6 DEF Sane
<1>12. \A i \in 1..Len(frames) : ~IsOp(i)
  BY <1>1, <1>2, <1>3, NoOps
<1>13. GoneOk'
  BY <1>2, <1>6 DEF HookInv, GoneOk, IsOp
<1>14. \A c \in Callbacks : CbOk(c)'
  <2>1. Len(sc'.all) \in Nat
    BY <1>7 DEF WorldOk, World
  <2> QED
    BY <1>1, <1>2, <1>6, <1>7, <2>1, CbKept
<1> QED
  BY <1>1, <1>2, <1>7, <1>10, <1>11, <1>12, <1>13, <1>14, HookIdle, FramesSame

LEMMA HookUninstall ==
  ASSUME HookInv, ClaimInv, ClaimInv', Uninstall
  PROVE  HookInv'
<1>1. /\ X \in State /\ X.w = sc /\ X.t = torch
      /\ sc \in World /\ torch \in Closure /\ Len(sc.all) \in Nat /\ Sane(sc, torch)
      /\ frames \in Seq(FrameRec) /\ Len(frames) \in Nat
  BY Typed
<1>2. ~InOp /\ hooked' = {} /\ frames' = frames /\ cb' = cb
  BY DEF Uninstall
<1>3. torch.depth \in Nat
  BY <1>1 DEF Closure
<1>4. \A i \in 1..Len(frames) : ~IsOp(i)
  BY <1>1, <1>2, <1>3, NoOps
<1>5. CASE "torch" \notin hooked
  <2> DEFINE t == [torch EXCEPT !.off = TRUE]
  <2>1. sc' = sc /\ torch' = t
    <3>1. PICK x : x = [X EXCEPT !.t.off = TRUE]
      OBVIOUS
    <3>2. x.w = sc /\ x.t = t
      BY <1>1, <3>1 DEF State
    <3> QED
      BY <1>5, <3>1, <3>2 DEF Uninstall, Becomes
  <2>2. t \in Closure /\ t.items = torch.items /\ t.epoch = torch.epoch /\ t.step = torch.step /\ t.fwd = torch.fwd
    BY <1>1 DEF Closure
  <2> HIDE DEF t
  <2>3. Sane(sc', torch') /\ Keeps(sc, sc')
    BY <1>1, <2>1, <2>2, SaneFields, KeepsSame
  <2>4. GoneOk'
    BY <1>2, <1>4, <1>5, <2>1, <2>2 DEF HookInv, GoneOk, IsOp
  <2>5. \A c \in Callbacks : CbOk(c)'
    BY <1>1, <1>2, <2>1, <2>2, <2>3, CbKept
  <2> QED
    BY <1>1, <1>2, <1>4, <2>1, <2>3, <2>4, <2>5, HookIdle, FramesSame
<1>6. CASE "torch" \in hooked
  <2> DEFINE a == DrainCuda(X, TRUE)
             b == CloseStep(a)
             y == CloseEpoch(b)
             z == [y EXCEPT !.t.epoch = None, !.t.off = TRUE]
  <2>1. sc' = z.w /\ torch' = z.t
    BY <1>6 DEF Uninstall, Becomes
  <2>2. a \in State /\ Reaps(X, a) /\ a.t.items = {}
    BY <1>1, DrainDoes DEF Sane
  <2>3. Sane(a.w, a.t)
    BY <1>1, <2>2, ReapedSane
  <2> HIDE DEF a
  <2>4. /\ b \in State /\ Sane(b.w, b.t) /\ Ends(a.w, b.w, {a.t.step})
        /\ b.t = [a.t EXCEPT !.step = None]
    BY <2>2, <2>3, CloseStepDoes
  <2> HIDE DEF b
  <2>5. b.t.items = {} /\ b.t.step = None
    BY <2>2, <2>4 DEF State, Closure
  <2>6. /\ y \in State /\ y.t = b.t /\ Shuts(b.w, y.w) /\ WorldOk(y.w) /\ EmitOk(y.w, {})
        /\ \A s \in 1..Len(y.w.all) : y.w.all[s].by = "torch" /\ y.w.all[s].kind \in {"epoch", "step"}
                                      => y.w.all[s].ended
    BY <2>4, <2>5, CloseEpochDoes
  <2> HIDE DEF y
  <2>7. /\ z.w = y.w /\ z.t \in Closure /\ z.t.items = {} /\ z.t.step = None /\ z.t.epoch = None
        /\ z.t.fwd = b.t.fwd /\ z.t.off = TRUE
    BY <2>5, <2>6 DEF State, Closure, None
  <2> HIDE DEF z
  <2>8. FwdOk(z.w, z.t)
    <3>1. FwdOk(b.w, b.t)
      BY <2>4 DEF Sane
    <3> QED
      BY <2>6, <2>7, <3>1 DEF FwdOk, Shuts
  <2>9. Sane(z.w, z.t)
    BY <2>6, <2>7, <2>8 DEF Sane, TrackOk, StepOk, HeldOk, Left
  <2>10. Keeps(sc, z.w) /\ Len(z.w.all) = Len(sc.all)
    <3>1. Len(a.w.all) = Len(sc.all) /\ Len(b.w.all) = Len(sc.all) /\ Len(y.w.all) = Len(sc.all)
      BY <1>1, <2>2, <2>4, <2>6 DEF Reaps, Ends, Shuts
    <3>2. Keeps(sc, a.w)
      BY <1>1, <2>2, <3>1 DEF Reaps, Keeps
    <3>3. Keeps(a.w, b.w) /\ Keeps(b.w, y.w)
      BY <2>3, <2>4, <2>6, ShutsKeeps DEF Ends, Sane
    <3>4. Keeps(sc, b.w)
      BY <1>1, <3>1, <3>2, <3>3, KeepsOn
    <3>5. Keeps(sc, y.w)
      BY <1>1, <3>1, <3>3, <3>4, KeepsOn
    <3> QED
      BY <2>7, <3>1, <3>5
  <2>11. GoneOk'
    <3>1. \A i \in 1..Len(frames') : ~IsOp(i)'
      BY <1>2, <1>4 DEF IsOp
    <3> QED
      BY <1>2, <2>1, <2>7, <3>1 DEF GoneOk
  <2>12. \A c \in Callbacks : CbOk(c)'
    BY <1>1, <1>2, <2>1, <2>7, <2>10, CbKept
  <2>13. \A s \in 1..Len(sc'.all) : s \in 1..Len(sc.all)
    BY <2>1, <2>10
  <2> QED
    BY <1>1, <1>2, <1>4, <2>1, <2>9, <2>10, <2>11, <2>12, <2>13, HookIdle, FramesSame
<1> QED
  BY <1>5, <1>6

\* A callback's scope is above the epoch of the hook.  What it takes off leaves that
\* epoch alone, or takes it off unasked.
LEMMA CallbackCloseDoes ==
  ASSUME NEW c, NEW w, Sane(w, torch), NEW s \in Nat,
         s # None => s \in 1..Len(w.all) /\ w.all[s].by # "torch" /\ torch.epoch < s
  PROVE  LET v == CallbackClose(c, w, s)
         IN  Shuts(w, v) /\ Sane(v, torch)
<1> DEFINE v == CallbackClose(c, w, s)
<1>1. WorldOk(w) /\ TrackOk(w, torch) /\ Len(w.all) \in Nat /\ torch.epoch \in Nat
  BY DEF Sane, WorldOk, World, Closure
<1>2. /\ Shuts(w, v)
      /\ \A e \in 1..Len(w.all) : v.all[e].ended /\ ~w.all[e].ended => e = s \/ e > s \/ e \in v.swept
  <2>1. CASE cb[c].of = "transformers"
    <3>1. v = CloseThrough(w, s)
      BY <2>1 DEF CallbackClose
    <3> HIDE DEF v
    <3> QED
      BY <1>1, <3>1, CloseThroughDoes
  <2>2. CASE cb[c].of # "transformers"
    <3>1. v = Close(w, s)
      BY <2>2 DEF CallbackClose
    <3> HIDE DEF v
    <3>2. Ends(w, v, {s})
      BY <1>1, <3>1, CloseDoes
    <3> QED
      BY <3>2 DEF Ends
  <2> QED
    BY <2>1, <2>2
<1> HIDE DEF v
<1>3. ASSUME NEW e, Left(w, e)
      PROVE  Left(v, e)
  <2>1. CASE e = None
    BY <2>1 DEF Left
  <2>2. CASE e # None
    <3>1. e \in 1..Len(w.all) /\ w.all[e].kind = "epoch" /\ w.all[e].by = "torch"
      BY <1>3, <2>2 DEF Left
    <3>2. ~w.all[e].ended => torch.epoch = e
      BY <1>1, <3>1 DEF TrackOk
    <3>3. s # None /\ ~w.all[e].ended => e # s /\ ~(e > s)
      BY <1>1, <3>1, <3>2
    <3>4. v.all[e].ended /\ ~w.all[e].ended => e \in v.swept
      <4>1. CASE s = None
        <5>1. v = w
          BY <4>1 DEF v, CallbackClose, CloseThrough, Close
        <5> QED
          BY <5>1
      <4>2. CASE s # None
        BY <1>2, <3>1, <3>3, <4>2
      <4> QED
        BY <4>1, <4>2
    <3> QED
      BY <1>2, <1>3, <3>4, LeftKept
  <2> QED
    BY <2>1, <2>2
<1>4. Sane(v, torch)
  BY <1>2, <1>3, SaneKept
<1> QED
  BY <1>2, <1>4 DEF v

\* In the calls of a callback no operation is open.
LEMMA RunIdle ==
  ASSUME HookInv, ClaimInv, NEW c, NEW p \in Active, InRun(c, p)
  PROVE  \A i \in 1..Len(frames) : ~IsOp(i)
<1>1. /\ Len(frames) \in 1..Len(frames) /\ frames[Len(frames)].what = "run" /\ Len(frames) \in Nat
  <2>1. ClaimType /\ RunOk
    BY DEF ClaimInv
  <2> QED
    BY <2>1, Running, Typed
<1>2. FrameOk(Len(frames))
  BY <1>1 DEF HookInv
<1>3. \A j \in 1..(Len(frames) - 1) : ~IsOp(j)
  BY <1>1, <1>2 DEF FrameOk
<1>4. ~IsOp(Len(frames))
  BY <1>1 DEF IsOp, Ops
<1>5. \A i \in 1..Len(frames) : i = Len(frames) \/ i \in 1..(Len(frames) - 1)
  BY <1>1
<1> QED
  BY <1>3, <1>4, <1>5

LEMMA HookTrainBegin ==
  ASSUME HookInv, ClaimInv, ClaimInv', NEW c \in Callbacks, TrainBegin(c)
  PROVE  HookInv'
<1> DEFINE u == CallbackClose(c, sc, cb[c].step)
           v == CallbackClose(c, u, cb[c].epoch)
<1>1. /\ WorldOk(sc) /\ torch \in Closure /\ Len(sc.all) \in Nat /\ Sane(sc, torch)
      /\ frames \in Seq(FrameRec) /\ Len(frames) \in Nat /\ cb \in [Callbacks -> Callback]
      /\ ClaimType
  BY Typed
<1>2. /\ ~InOp /\ hooked' = hooked /\ torch' = torch /\ Enter("run", c) /\ sc' = v
  BY DEF TrainBegin, Drop
<1>3. cb[c].step \in Nat /\ cb[c].epoch \in Nat /\ CbOk(c)
  BY <1>1 DEF Callback, HookInv
<1>4. Shuts(sc, u) /\ Sane(u, torch)
  BY <1>1, <1>3, CallbackCloseDoes DEF CbOk, AboveEpoch
<1> HIDE DEF u
<1>5. cb[c].epoch # None => cb[c].epoch \in 1..Len(u.all) /\ u.all[cb[c].epoch].by # "torch" /\ torch.epoch < cb[c].epoch
  BY <1>3, <1>4 DEF CbOk, AboveEpoch, Shuts
<1>6. Shuts(u, v) /\ Sane(v, torch)
  BY <1>3, <1>4, <1>5, CallbackCloseDoes
<1> HIDE DEF v
<1>7. Shuts(sc, sc') /\ Sane(sc', torch') /\ Keeps(sc, sc') /\ Len(sc'.all) = Len(sc.all)
  <2>1. Shuts(sc, v)
    BY <1>4, <1>6, ShutsOn
  <2> QED
    BY <1>1, <1>2, <1>6, <2>1, ShutsKeeps DEF Shuts
<1>8. \A i \in 1..Len(frames) : ~IsOp(i)
  <2>1. torch.depth \in Nat
    BY <1>1 DEF Closure
  <2> QED
    BY <1>1, <1>2, <2>1, NoOps
<1>9. \A i \in 1..Len(frames') : Same(i) \/ frames'[i].what = "run"
  <2>1. /\ \A i \in 1..Len(frames) : frames'[i] = frames[i]
        /\ frames'[Len(frames) + 1].what = "run"
        /\ \A i \in 1..Len(frames') : i \in 1..Len(frames) \/ i = Len(frames) + 1
    BY <1>1, <1>2, Entered
  <2>2. \A i \in 1..Len(frames) : Same(i)
    BY <1>1, <2>1 DEF Same
  <2> QED
    BY <2>1, <2>2
<1>10. GoneOk'
  <2>1. \A i \in 1..Len(frames') : ~IsOp(i)'
    BY <1>8, <1>9 DEF Same, IsOp, Ops
  <2> QED
    BY <1>2, <2>1 DEF HookInv, GoneOk
<1>11. ASSUME NEW d \in Callbacks
       PROVE  CbOk(d)'
  <2>1. cb'[d].epoch = (IF d = c THEN None ELSE cb[d].epoch) /\ cb'[d].step = (IF d = c THEN None ELSE cb[d].step)
    <3> DEFINE r == [cb[c] EXCEPT !.epoch = None, !.step = None,
                                  !.claimed = {n \in Claimable(c) : owned[n] = "none"}, !.phase = "train"]
    <3>1. cb' = [cb EXCEPT ![c] = r]
      BY DEF TrainBegin
    <3>2. r.epoch = None /\ r.step = None
      BY <1>1 DEF Callback
    <3> HIDE DEF r
    <3> QED
      BY <1>1, <3>1, <3>2
  <2>2. CASE d = c
    BY <2>1, <2>2 DEF CbOk, AboveEpoch
  <2>3. CASE d # c
    <3>1. PICK e : e = cb[d].epoch
      OBVIOUS
    <3>2. PICK q : q = cb[d].step
      OBVIOUS
    <3>3. AboveEpoch(e) /\ AboveEpoch(q)
      BY <3>1, <3>2 DEF HookInv, CbOk
    <3>4. AboveEpoch(e)' /\ AboveEpoch(q)'
      BY <1>1, <1>2, <1>7, <3>3, AboveKept
    <3> QED
      BY <2>1, <2>3, <3>1, <3>2, <3>4 DEF CbOk, AboveEpoch
  <2> QED
    BY <2>2, <2>3
<1>12. \A s \in 1..Len(sc'.all) : s \in 1..Len(sc.all)
  BY <1>7
<1> QED
  BY <1>7, <1>8, <1>9, <1>10, <1>11, <1>12, HookIdle

\* A callback opens a scope of its own.
LEMMA HookOpens ==
  ASSUME HookInv, ClaimInv, ClaimInv', NEW c \in Callbacks, EpochBegin(c) \/ StepBegin(c)
  PROVE  HookInv'
<1>0. PICK p : p = Pushed(sc)
  OBVIOUS
<1> DEFINE k == IF EpochBegin(c) THEN "epoch" ELSE "step"
<1>1. /\ WorldOk(sc) /\ torch \in Closure /\ Len(sc.all) \in Nat /\ Sane(sc, torch)
      /\ frames \in Seq(FrameRec) /\ Len(frames) \in Nat /\ cb \in [Callbacks -> Callback]
  BY Typed
<1>2. /\ hooked' = hooked /\ torch' = torch /\ frames' = frames /\ k \in {"epoch", "step"}
      /\ sc' = Push(sc, k, cb[c].of) /\ \E q \in Active : InRun(c, q)
  BY DEF EpochBegin, StepBegin, Active
<1>3. cb[c].of \in Makers /\ cb[c].of # "torch" /\ torch.epoch \in Nat
  BY <1>1 DEF Callback, Makers, Others, Closure
<1> HIDE DEF k
<1>4. Opens(sc, sc', p, k, cb[c].of)
  BY <1>0, <1>1, <1>2, <1>3, PushDoes DEF Kinds
<1>5. ASSUME NEW d \in Callbacks
      PROVE  /\ cb'[d].epoch = cb[d].epoch \/ cb'[d].epoch = p
             /\ cb'[d].step = cb[d].step \/ cb'[d].step = p
  <2>2. CASE EpochBegin(c)
    <3>1. cb' = [cb EXCEPT ![c].epoch = p, ![c].phase = "epoch"]
      BY <1>0, <2>2 DEF EpochBegin
    <3> QED
      BY <1>1, <3>1 DEF Callback
  <2>3. CASE StepBegin(c)
    <3>1. cb' = [cb EXCEPT ![c].step = p, ![c].phase = "step"]
      BY <1>0, <2>3 DEF StepBegin
    <3> QED
      BY <1>1, <3>1 DEF Callback
  <2> QED
    BY <2>2, <2>3
<1>6. Sane(sc', torch') /\ Keeps(sc, sc') /\ WorldOk(sc') /\ Len(sc'.all) \in Nat
  <2>1. Sane(sc', torch)
    BY <1>1, <1>3, <1>4, OpenedSane
  <2>2. Keeps(sc, sc') /\ WorldOk(sc')
    BY <1>1, <1>4, OpensKeeps
  <2>3. Len(sc'.all) \in Nat
    BY <2>2 DEF WorldOk, World
  <2> QED
    BY <1>2, <2>1, <2>2, <2>3
<1>7. AboveEpoch(p)'
  <2>1. torch.epoch = None \/ torch.epoch \in 1..Len(sc.all)
    BY <1>1 DEF Sane, HeldOk, Left
  <2>2. CASE p = None
    BY <2>2 DEF AboveEpoch
  <2>3. CASE p # None
    <3>1. p = Len(sc.all) + 1 /\ Len(sc'.all) = p /\ sc'.all[p].by = cb[c].of
      BY <1>4, <2>3 DEF Opens
    <3>2. torch.epoch < p
      BY <1>1, <2>1, <3>1 DEF None
    <3> QED
      BY <1>1, <1>2, <1>3, <3>1, <3>2 DEF AboveEpoch
  <2> QED
    BY <2>2, <2>3
<1>8. ASSUME NEW d \in Callbacks
      PROVE  CbOk(d)'
  <2>1. PICK e : e = cb[d].epoch
    OBVIOUS
  <2>2. PICK q : q = cb[d].step
    OBVIOUS
  <2>3. AboveEpoch(e) /\ AboveEpoch(q)
    BY <2>1, <2>2 DEF HookInv, CbOk
  <2>4. AboveEpoch(e)' /\ AboveEpoch(q)'
    BY <1>1, <1>2, <1>6, <2>3, AboveKept
  <2>5. PICK x : x = cb'[d].epoch /\ (x = e \/ x = p)
    BY <1>5, <2>1
  <2>6. PICK y : y = cb'[d].step /\ (y = q \/ y = p)
    BY <1>5, <2>2
  <2>7. AboveEpoch(x)' /\ AboveEpoch(y)'
    BY <1>7, <2>4, <2>5, <2>6 DEF AboveEpoch
  <2> QED
    BY <2>5, <2>6, <2>7 DEF CbOk, AboveEpoch
<1>9. \A i \in 1..Len(frames) : ~IsOp(i)
  BY <1>2, RunIdle
<1>10. GoneOk'
  BY <1>2 DEF HookInv, GoneOk, IsOp
<1>11. \A s \in 1..Len(sc'.all) : s \in 1..Len(sc.all) \/ sc'.all[s].kind # "backward"
  <2>1. \A s \in 1..Len(sc'.all) : s \in 1..Len(sc.all) \/ sc'.all[s].kind = k
    BY <1>1, <1>4 DEF Opens
  <2> QED
    BY <1>2, <2>1
<1> QED
  BY <1>1, <1>2, <1>6, <1>8, <1>9, <1>10, <1>11, HookIdle, FramesSame

\* It closes it again.
LEMMA HookCloses ==
  ASSUME HookInv, ClaimInv, ClaimInv', NEW c \in Callbacks, StepEnd(c) \/ EpochEnd(c)
  PROVE  HookInv'
<1>1. /\ WorldOk(sc) /\ torch \in Closure /\ Len(sc.all) \in Nat /\ Sane(sc, torch)
      /\ frames \in Seq(FrameRec) /\ Len(frames) \in Nat /\ cb \in [Callbacks -> Callback]
  BY Typed
<1>2. PICK s : s \in {cb[c].step, cb[c].epoch} /\ sc' = CallbackClose(c, sc, s)
  BY DEF StepEnd, EpochEnd
<1>3. /\ hooked' = hooked /\ torch' = torch /\ frames' = frames
      /\ \E q \in Active : InRun(c, q)
  BY DEF StepEnd, EpochEnd, Active
<1>4. s \in Nat /\ AboveEpoch(s)
  BY <1>1, <1>2 DEF Callback, HookInv, CbOk
<1>5. Shuts(sc, sc') /\ Sane(sc', torch)
  BY <1>1, <1>2, <1>4, CallbackCloseDoes DEF AboveEpoch
<1>6. Keeps(sc, sc') /\ Len(sc'.all) = Len(sc.all)
  BY <1>1, <1>5, ShutsKeeps DEF Shuts
<1>7. ASSUME NEW d \in Callbacks
      PROVE  CbOk(d)'
  <2>1. PICK e : e = cb[d].epoch
    OBVIOUS
  <2>2. PICK q : q = cb[d].step
    OBVIOUS
  <2>3. AboveEpoch(e) /\ AboveEpoch(q)
    BY <2>1, <2>2 DEF HookInv, CbOk
  <2>4. AboveEpoch(e)' /\ AboveEpoch(q)'
    BY <1>1, <1>3, <1>6, <2>3, AboveKept
  <2>5. /\ cb'[d].epoch = e \/ cb'[d].epoch = None
        /\ cb'[d].step = q \/ cb'[d].step = None
    BY <1>1, <2>1, <2>2 DEF StepEnd, EpochEnd, Callback
  <2>6. AboveEpoch(None)'
    BY DEF AboveEpoch
  <2> QED
    BY <2>4, <2>5, <2>6 DEF CbOk, AboveEpoch
<1>8. \A i \in 1..Len(frames) : ~IsOp(i)
  BY <1>3, RunIdle
<1>9. GoneOk'
  BY <1>3 DEF HookInv, GoneOk, IsOp
<1>10. \A i \in 1..Len(sc'.all) : i \in 1..Len(sc.all)
  BY <1>6
<1> QED
  BY <1>1, <1>3, <1>5, <1>6, <1>7, <1>8, <1>9, <1>10, HookIdle, FramesSame

LEMMA HookRunEnds ==
  ASSUME HookInv, ClaimInv, ClaimInv', NEW c \in Callbacks, TrainEnd(c) \/ TrainRaises(c)
  PROVE  HookInv'
<1>1. /\ Len(sc.all) \in Nat /\ Sane(sc, torch) /\ ClaimType
      /\ frames \in Seq(FrameRec) /\ Len(frames) \in Nat /\ cb \in [Callbacks -> Callback]
  BY Typed
<1>2. /\ hooked' = hooked /\ torch' = torch /\ sc' = sc /\ Leave /\ \E q \in Active : InRun(c, q)
  BY DEF TrainEnd, TrainRaises, Active
<1>3. frames # <<>>
  BY <1>2 DEF InRun
<1>4. Sane(sc', torch') /\ Keeps(sc, sc')
  BY <1>1, <1>2, KeepsSame
<1>5. ASSUME NEW d \in Callbacks
      PROVE  CbOk(d)'
  <2>1. cb'[d].epoch = cb[d].epoch /\ cb'[d].step = cb[d].step
    <3>1. PICK r : /\ r.epoch = cb[c].epoch /\ r.step = cb[c].step
                   /\ cb' = [cb EXCEPT ![c] = r]
      <4>1. cb[c] \in Callback
        BY <1>1
      <4>2. CASE TrainEnd(c)
        <5>1. cb' = [cb EXCEPT ![c] = [cb[c] EXCEPT !.claimed = {}, !.phase = "idle"]]
          BY <4>2 DEF TrainEnd
        <5>2. PICK r : r = [cb[c] EXCEPT !.claimed = {}, !.phase = "idle"]
          OBVIOUS
        <5>3. r.epoch = cb[c].epoch /\ r.step = cb[c].step
          BY <4>1, <5>2 DEF Callback
        <5> QED
          BY <5>1, <5>2, <5>3
      <4>3. CASE TrainRaises(c)
        <5>1. cb' = [cb EXCEPT ![c] = [cb[c] EXCEPT !.phase = "idle", !.raised = TRUE]]
          BY <4>3 DEF TrainRaises
        <5>2. PICK r : r = [cb[c] EXCEPT !.phase = "idle", !.raised = TRUE]
          OBVIOUS
        <5>3. r.epoch = cb[c].epoch /\ r.step = cb[c].step
          BY <4>1, <5>2 DEF Callback
        <5> QED
          BY <5>1, <5>2, <5>3
      <4> QED
        BY <4>2, <4>3
    <3> QED
      BY <1>1, <3>1
  <2> QED
    BY <1>2, <2>1 DEF HookInv, CbOk, AboveEpoch
<1>6. \A i \in 1..Len(frames) : ~IsOp(i)
  BY <1>2, RunIdle
<1>7. \A i \in 1..Len(frames') : i \in 1..Len(frames) /\ frames'[i] = frames[i]
  BY <1>1, <1>2, <1>3, Departed
<1>8. \A i \in 1..Len(frames') : Same(i)
  <2>1. frames' \in Seq(FrameRec)
    BY DEF ClaimInv, ClaimType
  <2>2. \A i \in 1..Len(frames') : \A j \in 1..i : j \in 1..Len(frames')
    BY <2>1
  <2> QED
    BY <1>7, <2>2 DEF Same
<1>9. GoneOk'
  BY <1>2, <1>6, <1>7 DEF HookInv, GoneOk, IsOp
<1>10. \A s \in 1..Len(sc'.all) : s \in 1..Len(sc.all)
  BY <1>2
<1> QED
  BY <1>4, <1>5, <1>6, <1>8, <1>9, <1>10, HookIdle

LEMMA HookCallback ==
  ASSUME HookInv, ClaimInv, ClaimInv', NEW c \in Callbacks, CallbackStep(c)
  PROVE  HookInv'
BY HookTrainBegin, HookOpens, HookCloses, HookRunEnds DEF CallbackStep

-------------------------------------------------------------------------------
(* The constructs of the program that are entered.                             *)

\* A construct is entered, with a scope p that is pushed for it or none.
LEMMA HookEnters ==
  ASSUME HookInv, ClaimInv, ClaimInv', UNCHANGED <<hooked, owned, cb>>,
         NEW what \in Ops \cup {"user"}, NEW s \in Nat, Enter(what, s),
         NEW p, NEW k \in Own \cup {"forward"}, NEW b, Opens(sc, sc', p, k, b),
         Sane(sc', torch'), torch'.epoch = torch.epoch, torch'.items = torch.items,
         torch'.off = torch.off, DepthOk',
         what \in Own => s = p /\ k = what,
         k = "backward" => what = "backward",
         what \in Ops => "torch" \in hooked,
         what \notin {"user", "forward"} => ~InOp,
         Forwards # {} /\ Sound' => Sound /\ torch'.fwd = torch.fwd,
         NEW n, n = Len(frames) + 1,
         what = "forward" /\ Outermost(n)' /\ Sound' => p # None /\ torch'.fwd = p
  PROVE  HookInv'
<1>1. /\ WorldOk(sc) /\ torch \in Closure /\ Len(sc.all) \in Nat /\ Sane(sc, torch)
      /\ frames \in Seq(FrameRec) /\ Len(frames) \in Nat
  BY Typed
<1>2. /\ Len(frames') = Len(frames) + 1
      /\ \A i \in 1..Len(frames) : frames'[i] = frames[i]
      /\ frames'[n].what = what /\ frames'[n].scope = s
      /\ \A i \in 1..Len(frames') : i \in 1..Len(frames) \/ i = n
  BY Entered DEF ClaimInv
<1>3. n \in Nat /\ \A j \in 1..(n - 1) : j \in 1..Len(frames)
  BY <1>1
<1>4. Keeps(sc, sc') /\ WorldOk(sc') /\ Len(sc'.all) \in Nat
  <2>1. Keeps(sc, sc') /\ WorldOk(sc')
    BY <1>1, OpensKeeps
  <2> QED
    BY <2>1 DEF WorldOk, World
<1>5. ASSUME NEW i \in 1..Len(frames)
      PROVE  Same(i) /\ i \in 1..Len(frames')
  <2>1. \A j \in 1..i : j \in 1..Len(frames)
    BY <1>1
  <2> QED
    BY <1>1, <1>2, <2>1 DEF Same
<1>6. ASSUME NEW i \in 1..Len(frames), Live(i)'
      PROVE  Live(i) /\ (IsOp(i)' => IsOp(i)) /\ SpanAt(i)' = SpanAt(i)
  <2>1. i \in 1..Len(frames') /\ Same(i)
    BY <1>5
  <2>2. frames[i].what = "forward" /\ Outermost(i) /\ Sound' => Sound /\ torch'.fwd = torch.fwd
    BY DEF Forwards
  <2> QED
    BY <1>6, <2>1, <2>2, LiveKept
<1>7. Left(sc', torch.epoch)
  BY DEF Sane, HeldOk
<1>8. Live(n)' => p # None /\ (IsOp(n)' => SpanAt(n)' = p /\ Left(sc', torch.epoch))
  <2> SUFFICES ASSUME Live(n)'
               PROVE  p # None /\ (IsOp(n)' => SpanAt(n)' = p)
    BY <1>7
  <2>1. CASE what = "forward"
    <3>1. Outermost(n)' /\ Sound'
      BY <1>2, <2>1 DEF Live, Own
    <3> QED
      BY <1>2, <2>1, <3>1 DEF SpanAt
  <2>2. CASE what # "forward"
    <3>1. what \in Own
      BY <2>2 DEF Ops, Own
    <3>2. s # None
      BY <1>2, <2>2 DEF Live
    <3> QED
      BY <1>2, <2>2, <3>1, <3>2 DEF SpanAt
  <2> QED
    BY <2>1, <2>2
<1>9. NestOk'
  <2>1. NestOk
    BY DEF HookInv
  <2> QED
    BY <1>1, <1>2, <1>6, <1>8, <2>1, NestEntered
<1>10. ASSUME NEW i \in 1..Len(frames')
       PROVE  FrameOk(i)'
  <2>1. CASE i \in 1..Len(frames)
    BY <1>1, <1>4, <1>5, <2>1, FramesKept
  <2>2. CASE i = n
    <3>1. what \in Own => s \in 0..Len(sc'.all)
      BY <1>1, <1>4 DEF Opens, None
    <3>2. what \in Own /\ s # None => sc'.all[s].kind = what
      BY DEF Opens
    <3>3. what \notin {"user", "forward"} => \A j \in 1..(n - 1) : ~IsOp(j)'
      <4> SUFFICES ASSUME what \notin {"user", "forward"}, NEW j \in 1..(n - 1)
                   PROVE  ~IsOp(j)'
        OBVIOUS
      <4>1. j \in 1..Len(frames) /\ frames'[j] = frames[j]
        BY <1>2, <1>3
      <4>2. ~IsOp(j)
        BY <1>1, <4>1, NoOps DEF Closure
      <4> QED
        BY <4>1, <4>2 DEF IsOp
    <3> QED
      BY <1>2, <2>2, <3>1, <3>2, <3>3 DEF FrameOk
  <2> QED
    BY <1>2, <2>1, <2>2
<1>11. BackOk'
  <2> SUFFICES ASSUME NEW r \in 1..Len(sc'.all), sc'.all[r].kind = "backward", ~sc'.all[r].ended
               PROVE  \E i \in 1..Len(frames') : frames'[i].what = "backward" /\ frames'[i].scope = r
    BY DEF BackOk
  <2>1. CASE r \in 1..Len(sc.all)
    <3>1. sc'.all[r] = sc.all[r]
      BY <2>1 DEF Opens
    <3>2. PICK i \in 1..Len(frames) : frames[i].what = "backward" /\ frames[i].scope = r
      BY <2>1, <3>1 DEF HookInv, BackOk
    <3> QED
      BY <1>2, <1>5, <3>2
  <2>2. CASE r \notin 1..Len(sc.all)
    <3>1. r = p /\ k = "backward"
      BY <1>1, <2>2 DEF Opens
    <3>2. n \in 1..Len(frames') /\ frames'[n].what = "backward" /\ frames'[n].scope = r
      BY <1>1, <1>2, <3>1 DEF Own
    <3> QED
      BY <3>2
  <2> QED
    BY <2>1, <2>2
<1>12. \A c \in Callbacks : CbOk(c)'
  BY <1>1, <1>4, CbKept
<1>13. GoneOk'
  <2>1. ASSUME "torch" \notin hooked', NEW i \in 1..Len(frames')
        PROVE  ~IsOp(i)'
    <3>1. CASE i \in 1..Len(frames)
      BY <1>2, <2>1, <3>1 DEF HookInv, GoneOk, IsOp
    <3>2. CASE i = n
      BY <1>2, <2>1, <3>2 DEF IsOp
    <3> QED
      BY <1>2, <3>1, <3>2
  <2> QED
    BY <2>1 DEF HookInv, GoneOk
<1> QED
  BY <1>9, <1>10, <1>11, <1>12, <1>13 DEF HookInv

LEMMA HookOpensOwn ==
  ASSUME HookInv, ClaimInv, ClaimInv',
         \/ UserEnter
         \/ BackwardBegin
         \/ OptimizerPre
  PROVE  HookInv'
<1> DEFINE p == Pushed(sc)
<1>1. /\ WorldOk(sc) /\ torch \in Closure /\ Len(sc.all) \in Nat /\ Sane(sc, torch)
      /\ frames \in Seq(FrameRec) /\ Len(frames) \in Nat
  BY Typed
<1>2. PICK what \in Own : /\ sc' = Push(sc, what, IF what = "user" THEN "user" ELSE "torch")
                          /\ Enter(what, p)
                          /\ what # "user" => "torch" \in hooked /\ ~InOp
  BY DEF UserEnter, BackwardBegin, OptimizerPre, Own
<1>3. hooked' = hooked /\ owned' = owned /\ torch' = torch /\ cb' = cb
  BY DEF UserEnter, BackwardBegin, OptimizerPre
<1>4. PICK b : b = IF what = "user" THEN "user" ELSE "torch"
  OBVIOUS
<1>5. Opens(sc, sc', p, what, b)
  <2>1. what \in Kinds /\ b \in Makers /\ torch.epoch \in Nat
    BY <1>1, <1>4 DEF Kinds, Makers, Closure
  <2> QED
    BY <1>1, <1>2, <1>4, <2>1, PushDoes
<1>6. Sane(sc', torch')
  BY <1>1, <1>3, <1>5, OpenedSane DEF Own
<1>7. p \in Nat
  BY <1>1, PushedNat
<1> HIDE DEF p
<1>8. Cardinality(Forwards') = Cardinality(Forwards)
  <2>1. /\ Len(frames') = Len(frames) + 1
        /\ \A i \in 1..Len(frames) : frames'[i] = frames[i]
        /\ frames'[Len(frames) + 1].what = what
    BY <1>2, <1>7, Entered DEF ClaimInv, Own, Ops
  <2> QED
    BY <1>1, <2>1, ForwardsEntered DEF Own
<1>9. DepthOk' /\ (Sound' => Sound)
  BY <1>3, <1>8 DEF HookInv, DepthOk, Sound
<1>10. /\ what \in Ops \cup {"user"} /\ what \in Own \cup {"forward"} /\ what # "forward"
       /\ what \in Ops => "torch" \in hooked
       /\ what \notin {"user", "forward"} => ~InOp
  BY <1>2 DEF Own, Ops
<1>11. torch'.epoch = torch.epoch /\ torch'.items = torch.items /\ torch'.off = torch.off /\ torch'.fwd = torch.fwd
  BY <1>3
<1> QED
  BY <1>2, <1>3, <1>5, <1>6, <1>7, <1>9, <1>10, <1>11, HookEnters

LEMMA HookForwardPre ==
  ASSUME HookInv, ClaimInv, ClaimInv', ForwardPre
  PROVE  HookInv'
<1>1. /\ WorldOk(sc) /\ torch \in Closure /\ Len(sc.all) \in Nat /\ Sane(sc, torch)
      /\ frames \in Seq(FrameRec) /\ Len(frames) \in Nat
  BY Typed
<1>2. /\ "torch" \in hooked /\ Enter("forward", None)
      /\ hooked' = hooked /\ owned' = owned /\ cb' = cb
      /\ Becomes(IF torch.depth > 0 THEN [X EXCEPT !.t.depth = @ + 1]
               ELSE [w |-> Push(sc, "forward", "torch"),
                     t |-> [torch EXCEPT !.depth = 1, !.fwd = Pushed(sc)]])
  BY DEF ForwardPre
<1>3. /\ Len(frames') = Len(frames) + 1
      /\ \A i \in 1..Len(frames) : frames'[i] = frames[i]
      /\ frames'[Len(frames) + 1].what = "forward"
  BY <1>2, Entered DEF ClaimInv, Ops, None
<1>4. /\ Cardinality(Forwards') = Cardinality(Forwards) + 1
      /\ Cardinality(Forwards) \in Nat /\ IsFiniteSet(Forwards)
      /\ torch.depth \in Nat /\ Cardinality(Forwards) <= torch.depth
  <2>1. torch.depth \in Nat
    BY <1>1 DEF Closure
  <2> QED
    BY <1>1, <1>3, <2>1, ForwardsEntered, NoOps DEF HookInv, DepthOk
<1>5. torch.epoch \in Nat
  BY <1>1 DEF Closure
<1>6. "forward" \in Ops \cup {"user"} /\ "forward" \in Own \cup {"forward"} /\ None \in Nat
      /\ "forward" \notin Own
  BY DEF Ops, Own, None
<1>9. PICK n : n = Len(frames) + 1
  OBVIOUS
<1>7. CASE torch.depth > 0
  <2>1. PICK u : u = [torch EXCEPT !.depth = torch.depth + 1]
    OBVIOUS
  <2>2. sc' = sc /\ torch' = u
    BY <1>2, <1>7, <2>1 DEF Becomes, X
  <2>3. /\ u \in Closure /\ u.items = torch.items /\ u.epoch = torch.epoch /\ u.step = torch.step
        /\ u.fwd = torch.fwd /\ u.off = torch.off /\ u.depth = torch.depth + 1
    BY <1>1, <1>4, <2>1 DEF Closure
  <2>4. Sane(sc', torch')
    BY <1>1, <2>2, <2>3, SaneFields
  <2>5. Opens(sc, sc', None, "forward", "torch")
    BY <2>2 DEF Opens
  <2>6. DepthOk' /\ (Sound' => Sound) /\ torch'.fwd = torch.fwd
    BY <1>4, <2>2, <2>3 DEF DepthOk, Sound
  <2>7. ~(Outermost(n)' /\ Sound')
    <3> SUFFICES ASSUME Outermost(n)', Sound'
                 PROVE  FALSE
      OBVIOUS
    <3>1. ASSUME NEW i \in Forwards
          PROVE  FALSE
      <4>1. i \in 1..Len(frames) /\ frames'[i].what = "forward"
        BY <1>3 DEF Forwards
      <4>2. i \in 1..(n - 1)
        BY <1>1, <1>9, <4>1
      <4> QED
        BY <4>1, <4>2 DEF Outermost
    <3>2. Cardinality(Forwards) = 0
      BY <3>1, FS_EmptySet
    <3> QED
      BY <1>4, <1>7, <2>2, <2>3, <3>2 DEF Sound
  <2> QED
    BY <1>2, <1>6, <2>2, <2>3, <2>4, <2>5, <2>6, <2>7, <1>9, HookEnters
<1>8. CASE ~(torch.depth > 0)
  <2>1. PICK p : p = Pushed(sc)
    OBVIOUS
  <2>2. PICK u : u = [torch EXCEPT !.depth = 1, !.fwd = p]
    OBVIOUS
  <2>3. sc' = Push(sc, "forward", "torch") /\ torch' = u
    BY <1>2, <1>8, <2>1, <2>2 DEF Becomes
  <2>4. p \in Nat
    BY <1>1, <2>1, PushedNat
  <2>5. /\ u \in Closure /\ u.items = torch.items /\ u.epoch = torch.epoch /\ u.step = torch.step
        /\ u.fwd = p /\ u.off = torch.off /\ u.depth = 1
    BY <1>1, <2>2, <2>4 DEF Closure
  <2>6. Opens(sc, sc', p, "forward", "torch")
    BY <1>1, <1>5, <2>1, <2>3, PushDoes DEF Kinds, Makers
  <2>7. Sane(sc', torch)
    BY <1>1, <2>6, OpenedSane
  <2>8. Sane(sc', torch')
    <3>1. FwdOk(sc', u)
      BY <1>1, <2>5, <2>6 DEF FwdOk, Opens, None
    <3>2. EmitOk(sc', u.items) /\ TrackOk(sc', u) /\ StepOk(sc', u) /\ HeldOk(sc', u)
      BY <2>5, <2>7 DEF Sane, TrackOk, StepOk, HeldOk
    <3> QED
      BY <2>3, <2>5, <2>7, <3>1, <3>2 DEF Sane
  <2>9. Cardinality(Forwards) = 0 /\ Forwards = {}
    <3>1. Cardinality(Forwards) = 0
      BY <1>4, <1>8
    <3> QED
      BY <1>4, <3>1, FS_EmptySet
  <2>10. DepthOk'
    BY <1>4, <2>3, <2>5, <2>9 DEF DepthOk
  <2>11. Sound' => p # None /\ torch'.fwd = p
    BY <2>3, <2>5 DEF Sound
  <2> QED
    BY <1>2, <1>6, <2>3, <2>5, <2>6, <2>8, <2>9, <2>10, <2>11, <1>9, HookEnters
<1> QED
  BY <1>7, <1>8

-------------------------------------------------------------------------------
(* The constructs of the program that are left.                                *)

\* A construct is left, and the scope z ends and comes off the stack, or none does.
LEMMA HookLeaves ==
  ASSUME HookInv, ClaimInv, ClaimInv', UNCHANGED <<hooked, owned, cb>>, frames # <<>>, Leave,
         NEW z \in Nat, Sane(sc', torch'), Keeps(sc, sc'), Len(sc'.all) = Len(sc.all),
         On(sc) \ {z} \subseteq On(sc'),
         \A s \in 1..Len(sc.all) : sc'.all[s].ended <=> (sc.all[s].ended \/ s = z),
         \A e : Left(sc, e) => Left(sc', e),
         torch'.epoch = torch.epoch, torch'.items \subseteq torch.items \/ "torch" \in hooked,
         torch'.off = torch.off, DepthOk',
         z # None /\ Within(Len(frames)) =>
             Live(Len(frames)) /\ \A h : Homes(h) => h[Len(frames)] \in Nat /\ h[Len(frames)] <= z,
         Forwards' # {} /\ Sound' => Sound /\ torch'.fwd = torch.fwd,
         frames[Len(frames)].what = "backward" /\ frames[Len(frames)].scope # None =>
             sc'.all[frames[Len(frames)].scope].ended
  PROVE  HookInv'
<1>1. /\ WorldOk(sc) /\ torch \in Closure /\ Len(sc.all) \in Nat /\ Sane(sc, torch)
      /\ frames \in Seq(FrameRec) /\ Len(frames) \in Nat
  BY Typed
<1>2. /\ Len(frames') = Len(frames) - 1 /\ Len(frames) >= 1
      /\ \A i \in 1..Len(frames') : i \in 1..Len(frames) /\ i # Len(frames) /\ frames'[i] = frames[i]
      /\ \A i \in 1..Len(frames) : i # Len(frames) => i \in 1..Len(frames')
  BY Departed DEF ClaimInv
<1>3. ASSUME NEW i \in 1..Len(frames')
      PROVE  Same(i)
  <2>1. \A j \in 1..i : j \in 1..Len(frames')
    BY <1>1, <1>2
  <2> QED
    BY <1>2, <2>1 DEF Same
<1>4. ASSUME NEW i \in 1..Len(frames'), Live(i)'
      PROVE  Live(i) /\ (IsOp(i)' => IsOp(i)) /\ SpanAt(i)' = SpanAt(i)
  <2>1. frames[i].what = "forward" /\ Outermost(i) /\ Sound' => Sound /\ torch'.fwd = torch.fwd
    <3> SUFFICES ASSUME frames[i].what = "forward", Sound'
                 PROVE  Sound /\ torch'.fwd = torch.fwd
      OBVIOUS
    <3>1. frames'[i].what = "forward"
      BY <1>2
    <3>2. i \in Forwards'
      BY <3>1 DEF Forwards
    <3> QED
      BY <3>2
  <2> QED
    BY <1>3, <1>4, <2>1, LiveKept
<1>5. NestOk'
  <2>1. NestOk
    BY DEF HookInv
  <2>2. \A s \in 1..Len(sc.all) : sc'.all[s].within = sc.all[s].within
    BY DEF Keeps
  <2> QED
    BY <1>1, <1>2, <1>4, <2>1, <2>2, NestDeparted
<1>6. \A i \in 1..Len(frames') : FrameOk(i)'
  BY <1>1, <1>3, FramesKept
<1>7. BackOk'
  <2> SUFFICES ASSUME NEW r \in 1..Len(sc'.all), sc'.all[r].kind = "backward", ~sc'.all[r].ended
               PROVE  \E i \in 1..Len(frames') : frames'[i].what = "backward" /\ frames'[i].scope = r
    BY DEF BackOk
  <2>1. r \in 1..Len(sc.all) /\ sc.all[r].kind = "backward" /\ ~sc.all[r].ended
    BY DEF Keeps
  <2>2. PICK i \in 1..Len(frames) : frames[i].what = "backward" /\ frames[i].scope = r
    BY <2>1 DEF HookInv, BackOk
  <2>3. i # Len(frames)
    BY <1>1, <2>1, <2>2 DEF None
  <2> QED
    BY <1>2, <2>2, <2>3
<1>8. \A c \in Callbacks : CbOk(c)'
  BY <1>1, CbKept
<1>9. GoneOk'
  <2>1. \A i \in 1..Len(frames') : IsOp(i)' => i \in 1..Len(frames) /\ IsOp(i)
    BY <1>2 DEF IsOp
  <2>2. "torch" \notin hooked' => \A i \in 1..Len(frames') : ~IsOp(i)'
    BY <2>1 DEF HookInv, GoneOk
  <2>3. "torch" \notin hooked' => torch'.items = {}
    BY DEF HookInv, GoneOk
  <2> QED
    BY <2>2, <2>3 DEF HookInv, GoneOk
<1> QED
  BY <1>5, <1>6, <1>7, <1>8, <1>9 DEF HookInv

LEMMA HookUserExit ==
  ASSUME HookInv, ClaimInv, ClaimInv', UserExit
  PROVE  HookInv'
<1> DEFINE n == Len(frames)
           s == frames[n].scope
<1>1. /\ WorldOk(sc) /\ torch \in Closure /\ Len(sc.all) \in Nat /\ Sane(sc, torch)
      /\ frames \in Seq(FrameRec) /\ Len(frames) \in Nat
  BY Typed
<1>2. frames # <<>> /\ Last(frames).what = "user" /\ Leave
      /\ hooked' = hooked /\ owned' = owned /\ torch' = torch /\ cb' = cb
  BY DEF UserExit, Innermost
<1>3. /\ Len(frames') = Len(frames) - 1 /\ Len(frames) >= 1 /\ n \in 1..Len(frames)
      /\ Last(frames) = frames[n]
      /\ \A i \in 1..Len(frames') : frames'[i] = frames[i]
  BY <1>2, Departed DEF ClaimInv
<1>4. frames[n].what = "user"
  BY <1>2, <1>3
<1>5. Cardinality(Forwards') = Cardinality(Forwards)
  BY <1>1, <1>3, <1>4, ForwardsDeparted
<1>6. DepthOk' /\ (Sound' => Sound)
  BY <1>2, <1>5 DEF HookInv, DepthOk, Sound
<1>7. FrameOk(n)
  BY <1>3 DEF HookInv
<1>8. sc' = IF s = None THEN sc
            ELSE [Popped(sc) EXCEPT !.stolen = @ \cup ({Top(sc)} \ {s, None})]
  BY <1>3 DEF UserExit
<1>9. torch'.epoch = torch.epoch /\ torch'.items \subseteq torch.items
      /\ torch'.off = torch.off /\ torch'.fwd = torch.fwd
  BY <1>2
<1>10. CASE s = None
  <2>1. sc' = sc /\ None \in Nat
    BY <1>8, <1>10 DEF None
  <2>2. Keeps(sc, sc')
    BY <1>1, <2>1, KeepsSame
  <2>3. \A r \in 1..Len(sc.all) : r # None
    BY DEF None
  <2> QED
    BY <1>1, <1>2, <1>4, <1>6, <1>9, <2>1, <2>2, <2>3, HookLeaves
<1>11. CASE s # None
  <2> DEFINE v == Popped(sc)
  <2>1. PICK z : z = Top(sc)
    OBVIOUS
  <2>2. PICK T : T = v.stolen \cup ({z} \ {s, None})
    OBVIOUS
  <2>3. Ends(sc, v, {z}) /\ On(v) = On(sc) \ {z}
    BY <1>1, <2>1, PoppedDoes
  <2>4. sc' = [v EXCEPT !.stolen = T]
    BY <1>8, <1>11, <2>1, <2>2
  <2>5. /\ z \in Nat /\ (\A x \in On(sc) : x <= z) /\ On(sc) \subseteq Nat
        /\ z = None \/ z \in 1..Len(sc.all)
    <3>1. Rising(sc.stack) /\ On(sc) \subseteq 1..Len(sc.all)
      BY <1>1 DEF WorldOk
    <3> QED
      BY <1>1, <2>1, <3>1, OnStack DEF None
  <2>6. WorldOk(v) /\ v \in World
    BY <2>3 DEF Ends, Shuts, WorldOk
  <2> HIDE DEF v
  <2>7. T \in SUBSET Nat /\ v.stolen \subseteq T /\ v.stolen = sc.stolen /\ v.swept = sc.swept
    BY <2>2, <2>3, <2>5, <2>6 DEF World, Ends
  <2>8. /\ sc' \in World /\ sc'.stack = v.stack /\ sc'.all = v.all /\ sc'.stolen = T
        /\ sc'.swept = v.swept
    BY <2>4, <2>6, <2>7 DEF World
  <2>9. On(sc') = On(v)
    BY <2>8 DEF On
  <2>10. WorldOk(sc')
    BY <2>6, <2>8, <2>9 DEF WorldOk
  <2>11. Shuts(sc, sc')
    BY <2>3, <2>7, <2>8, <2>9, <2>10 DEF Ends, Shuts
  <2>12. \A r \in 1..Len(sc.all) : sc'.all[r].ended <=> (sc.all[r].ended \/ r = z)
    BY <2>3, <2>8 DEF Ends
  <2>13. ASSUME NEW e, Left(sc, e)
         PROVE  Left(sc', e)
    <3>1. \A r \in 1..Len(sc.all) : sc'.all[r].ended /\ ~sc.all[r].ended /\ r = e =>
             r \in sc'.stolen \cup sc'.swept
      <4> SUFFICES ASSUME NEW r \in 1..Len(sc.all), sc'.all[r].ended, ~sc.all[r].ended, r = e
                   PROVE  r \in T
        BY <2>8
      <4>1. r = z /\ r # None
        BY <2>12 DEF None
      <4>2. sc.all[r].kind = "epoch"
        BY <2>13, <4>1 DEF Left
      <4>3. sc.all[s].kind = "user"
        BY <1>4, <1>7, <1>11 DEF FrameOk, Own
      <4>4. r # s
        BY <4>2, <4>3
      <4> QED
        BY <2>2, <4>1, <4>4
    <3> QED
      BY <2>11, <2>13, <3>1, LeftKept
  <2>14. Sane(sc', torch')
    BY <1>1, <1>2, <2>11, <2>13, SaneKept
  <2>15. Keeps(sc, sc') /\ Len(sc'.all) = Len(sc.all) /\ On(sc) \ {z} \subseteq On(sc')
    BY <1>1, <2>3, <2>9, <2>11, ShutsKeeps DEF Shuts
  <2>16. ASSUME Within(n)
         PROVE  Live(n) /\ \A h : Homes(h) => h[n] \in Nat /\ h[n] <= z
    <3>1. Live(n)
      BY <1>4, <1>11, <2>16 DEF Live, Own
    <3>2. \A h : Homes(h) => h[n] \in On(sc)
      BY <1>3, <3>1 DEF Homes
    <3> QED
      BY <2>5, <3>1, <3>2
  <2> QED
    BY <1>1, <1>2, <1>4, <1>6, <1>9, <2>5, <2>12, <2>13, <2>14, <2>15, <2>16, HookLeaves
<1> QED
  BY <1>10, <1>11

LEMMA HookRaise ==
  ASSUME HookInv, ClaimInv, ClaimInv', Raise
  PROVE  HookInv'
<1> DEFINE n == Len(frames)
<1>1. /\ WorldOk(sc) /\ torch \in Closure /\ Len(sc.all) \in Nat /\ Sane(sc, torch)
      /\ frames \in Seq(FrameRec) /\ Len(frames) \in Nat
  BY Typed
<1>2. frames # <<>> /\ Last(frames).what \in {"forward", "optimizer_step"} /\ Leave
      /\ hooked' = hooked /\ owned' = owned /\ torch' = torch /\ cb' = cb /\ sc' = sc
  BY DEF Raise, Innermost
<1>3. /\ Len(frames') = Len(frames) - 1 /\ Len(frames) >= 1 /\ n \in 1..Len(frames)
      /\ Last(frames) = frames[n]
      /\ \A i \in 1..Len(frames') : frames'[i] = frames[i]
  BY <1>2, Departed DEF ClaimInv
<1>4. frames[n].what \in {"forward", "optimizer_step"}
  BY <1>2, <1>3
<1>5. /\ Cardinality(Forwards') <= Cardinality(Forwards) /\ torch.depth \in Nat
      /\ Cardinality(Forwards) \in Nat /\ Cardinality(Forwards') \in Nat
      /\ Cardinality(Forwards') = Cardinality(Forwards)
           \/ Cardinality(Forwards') = Cardinality(Forwards) - 1
  <2>1. torch.depth \in Nat
    BY <1>1 DEF Closure
  <2>2. Cardinality(Forwards) \in Nat
    BY <1>1, <2>1, NoOps
  <2> QED
    BY <1>1, <1>3, <1>4, <2>1, <2>2, ForwardsDeparted
<1>6. Cardinality(Forwards) <= torch.depth
  BY DEF HookInv, DepthOk
<1>7. DepthOk' /\ (Sound' => Sound)
  BY <1>2, <1>5, <1>6 DEF DepthOk, Sound
<1>8. Keeps(sc, sc')
  BY <1>1, <1>2, KeepsSame
<1>9. \A r \in 1..Len(sc.all) : r # None
  BY DEF None
<1>10. None \in Nat /\ torch'.epoch = torch.epoch /\ torch'.items \subseteq torch.items
       /\ torch'.off = torch.off /\ torch'.fwd = torch.fwd
  BY <1>2 DEF None
<1> QED
  BY <1>1, <1>2, <1>4, <1>7, <1>8, <1>9, <1>10, HookLeaves

\* The span of the operation that ends is still open, within an epoch that is.
LEMMA SpanFacts ==
  ASSUME HookInv, ClaimInv, NEW n \in 1..Len(frames), Live(n), IsOp(n)
  PROVE  LET s == SpanAt(n)
         IN  /\ s \in 1..Len(sc.all) /\ s # None /\ sc.all[s].kind \in Ops
             /\ ~sc.all[s].ended /\ Left(sc, sc.all[s].within)
             /\ \A h : Homes(h) => h[n] = s
<1> DEFINE s == SpanAt(n)
<1>1. WorldOk(sc) /\ Sane(sc, torch) /\ Len(sc.all) \in Nat
  BY Typed
<1>2. PICK h \in [1..Len(frames) -> Nat] : Homes(h)
  BY DEF HookInv, NestOk
<1>3. h[n] \in On(sc) /\ h[n] = s /\ SpanOk(s)
  BY <1>2 DEF Homes
<1>4. s \in 1..Len(sc.all) /\ s # None
  BY <1>1, <1>3 DEF WorldOk, None
<1>5. sc.all[s].kind \in Ops
  <2>1. CASE frames[n].what = "forward"
    <3>1. s = torch.fwd
      BY <2>1 DEF SpanAt
    <3> QED
      BY <1>1, <1>4, <3>1 DEF Sane, FwdOk, Ops
  <2>2. CASE frames[n].what # "forward"
    <3>1. s = frames[n].scope /\ frames[n].what \in Own
      BY <2>2 DEF SpanAt, IsOp, Ops, Own
    <3>2. FrameOk(n)
      BY DEF HookInv
    <3> QED
      BY <1>4, <3>1, <3>2 DEF FrameOk, IsOp
  <2> QED
    BY <2>1, <2>2
<1>6. \A g : Homes(g) => g[n] = s
  BY DEF Homes
<1> QED
  BY <1>3, <1>4, <1>5, <1>6 DEF SpanOk

LEMMA SettledKeeps ==
  ASSUME NEW x, NEW y, NEW s, Settles(x, y, s), Len(x.w.all) \in Nat,
         s # None => x.w.all[s].kind \in Ops
  PROVE  Keeps(x.w, y.w) /\ \A e : Left(x.w, e) => Left(y.w, e)
<1>1. Keeps(x.w, y.w)
  BY DEF Keeps, Settles
<1>2. ASSUME NEW e, Left(x.w, e)
      PROVE  Left(y.w, e)
  <2>1. CASE e = None
    BY <2>1 DEF Left
  <2>2. CASE e # None
    <3>1. e \in 1..Len(x.w.all) /\ x.w.all[e].kind = "epoch"
      BY <1>2, <2>2 DEF Left
    <3>2. e # s
      BY <2>2, <3>1 DEF Ops
    <3> QED
      BY <1>2, <2>2, <3>1, <3>2 DEF Left, Settles
  <2> QED
    BY <2>1, <2>2
<1> QED
  BY <1>1, <1>2

LEMMA HookForwardPost ==
  ASSUME HookInv, ClaimInv, ClaimInv', NEW timed \in BOOLEAN, ForwardPost(timed)
  PROVE  HookInv'
<1> DEFINE n == Len(frames)
<1>1. /\ WorldOk(sc) /\ torch \in Closure /\ Len(sc.all) \in Nat /\ Sane(sc, torch)
      /\ frames \in Seq(FrameRec) /\ Len(frames) \in Nat
      /\ X \in State /\ X.w = sc /\ X.t = torch
  BY Typed
<1>2. frames # <<>> /\ Last(frames).what = "forward" /\ Leave
      /\ hooked' = hooked /\ owned' = owned /\ cb' = cb
      /\ Becomes(IF torch.depth # 1 THEN [X EXCEPT !.t.depth = @ - 1]
               ELSE LET y == CloseOrDefer(X, torch.fwd, timed)
                    IN  [y EXCEPT !.t.depth = 0, !.t.fwd = None])
  BY DEF ForwardPost, Innermost
<1>3. /\ Len(frames') = Len(frames) - 1 /\ Len(frames) >= 1 /\ n \in 1..Len(frames)
      /\ Last(frames) = frames[n]
      /\ \A i \in 1..Len(frames') : frames'[i] = frames[i]
  BY <1>2, Departed DEF ClaimInv
<1>4. frames[n].what = "forward" /\ IsOp(n) /\ Within(n)
  BY <1>1, <1>2, <1>3 DEF IsOp, Within, Ops
<1>5. /\ Cardinality(Forwards') = Cardinality(Forwards) - 1
      /\ Cardinality(Forwards) \in Nat /\ Cardinality(Forwards') \in Nat
      /\ IsFiniteSet(Forwards) /\ torch.depth \in Nat /\ Cardinality(Forwards) <= torch.depth
  <2>1. torch.depth \in Nat
    BY <1>1 DEF Closure
  <2> QED
    BY <1>1, <1>3, <1>4, <2>1, NoOps, ForwardsDeparted DEF HookInv, DepthOk
<1>6. "torch" \in hooked
  BY <1>3, <1>4 DEF HookInv, GoneOk
<1>7. CASE torch.depth # 1
  <2>1. PICK u : u = [torch EXCEPT !.depth = torch.depth - 1]
    OBVIOUS
  <2>2. sc' = sc /\ torch' = u
    BY <1>2, <1>7, <2>1 DEF Becomes, X
  <2>3. /\ u \in Closure /\ u.items = torch.items /\ u.epoch = torch.epoch /\ u.step = torch.step
        /\ u.fwd = torch.fwd /\ u.off = torch.off /\ u.depth = torch.depth - 1
    <3>1. torch.depth - 1 \in Nat
      BY <1>5
    <3> QED
      BY <1>1, <2>1, <3>1 DEF Closure
  <2>4. Sane(sc', torch')
    BY <1>1, <2>2, <2>3, SaneFields
  <2>5. DepthOk' /\ (Sound' => Sound) /\ torch'.fwd = torch.fwd
    BY <1>5, <2>2, <2>3 DEF DepthOk, Sound
  <2>6. Keeps(sc, sc')
    BY <1>1, <2>2, KeepsSame
  <2>7. None \in Nat /\ \A r \in 1..Len(sc.all) : r # None
    BY DEF None
  <2> QED
    BY <1>1, <1>2, <1>4, <1>6, <2>2, <2>3, <2>4, <2>5, <2>6, <2>7, HookLeaves
<1>8. CASE torch.depth = 1
  <2>1. PICK z : z = torch.fwd
    OBVIOUS
  <2>2. z \in Nat
    BY <1>1, <2>1 DEF Closure
  <2>3. Cardinality(Forwards) = 1 /\ Cardinality(Forwards') = 0
    BY <1>5, <1>8
  <2>4. ASSUME z # None
        PROVE  Live(n) /\ SpanAt(n) = z
    <3>1. Sound
      BY <1>8, <2>1, <2>3, <2>4 DEF Sound
    <3>2. Outermost(n)
      <4>1. n \in Forwards
        BY <1>3, <1>4 DEF Forwards
      <4>2. PICK f : Forwards = {f}
        BY <1>5, <2>3, FS_Singleton
      <4>3. \A j \in 1..(n - 1) : j \in 1..Len(frames) /\ j # n
        BY <1>1
      <4> QED
        BY <4>1, <4>2, <4>3 DEF Outermost, Forwards
    <3> QED
      BY <1>4, <2>1, <3>1, <3>2 DEF Live, SpanAt
  <2>5. z # None => /\ z \in 1..Len(sc.all) /\ sc.all[z].kind \in Ops
                    /\ ~sc.all[z].ended /\ Left(sc, sc.all[z].within)
                    /\ \A h : Homes(h) => h[n] = z
    BY <1>3, <1>4, <2>4, SpanFacts
  <2>6. PICK y : y = CloseOrDefer(X, z, timed)
    OBVIOUS
  <2>7. y \in State /\ Sane(y.w, y.t) /\ Settles(X, y, z)
    BY <1>1, <2>2, <2>5, <2>6, SettleDoes
  <2>8. PICK u : u = [y.t EXCEPT !.depth = 0, !.fwd = None]
    OBVIOUS
  <2>9. sc' = y.w /\ torch' = u
    <3>1. Becomes([y EXCEPT !.t.depth = 0, !.t.fwd = None])
      BY <1>2, <1>8, <2>1, <2>6
    <3> QED
      BY <2>7, <2>8, <3>1 DEF Becomes, State
  <2>10. /\ u \in Closure /\ u.items = y.t.items /\ u.epoch = y.t.epoch /\ u.step = y.t.step
         /\ u.fwd = None /\ u.off = y.t.off /\ u.depth = 0
    BY <2>7, <2>8 DEF State, Closure, None
  <2>11. Sane(sc', torch')
    BY <2>7, <2>9, <2>10 DEF Sane, TrackOk, StepOk, FwdOk, HeldOk
  <2>12. Keeps(sc, sc') /\ \A e : Left(sc, e) => Left(sc', e)
    BY <1>1, <2>5, <2>7, <2>9, SettledKeeps
  <2>13. /\ Len(sc'.all) = Len(sc.all) /\ On(sc) \ {z} \subseteq On(sc')
         /\ \A r \in 1..Len(sc.all) : sc'.all[r].ended <=> (sc.all[r].ended \/ r = z)
         /\ torch'.epoch = torch.epoch /\ torch'.off = torch.off
    BY <1>1, <2>7, <2>9, <2>10 DEF Settles
  <2>14. DepthOk' /\ ~Sound'
    BY <2>3, <2>9, <2>10 DEF DepthOk, Sound
  <2>15. z # None => Live(n) /\ \A h : Homes(h) => h[n] \in Nat /\ h[n] <= z
    BY <2>2, <2>4, <2>5
  <2> QED
    BY <1>2, <1>4, <1>6, <2>2, <2>11, <2>12, <2>13, <2>14, <2>15, HookLeaves
<1> QED
  BY <1>7, <1>8

\* What the end of a backward or of an optimizer step does to its span.
LEMMA OwnSettles ==
  ASSUME HookInv, ClaimInv, NEW what \in {"backward", "optimizer_step"}, Innermost(what),
         Leave, NEW timed \in BOOLEAN
  PROVE  LET z == Last(frames).scope
             y == CloseOrDefer(X, z, timed)
         IN  /\ z \in Nat /\ y \in State /\ Sane(y.w, y.t) /\ Settles(X, y, z)
             /\ z # None => /\ z \in 1..Len(sc.all) /\ sc.all[z].kind \in Ops
                            /\ Live(Len(frames)) /\ \A h : Homes(h) => h[Len(frames)] = z
<1> DEFINE n == Len(frames)
           z == frames[n].scope
<1>1. /\ WorldOk(sc) /\ Len(sc.all) \in Nat /\ Sane(sc, torch) /\ Len(frames) \in Nat
      /\ X \in State /\ X.w = sc /\ X.t = torch
  BY Typed
<1>2. n \in 1..Len(frames) /\ Last(frames) = frames[n] /\ frames[n].what = what
  BY Departed DEF ClaimInv, Innermost
<1>3. IsOp(n) /\ Within(n) /\ FrameOk(n) /\ what \in Own
  BY <1>1, <1>2 DEF IsOp, Within, Ops, Own, HookInv
<1>4. z \in Nat
  BY <1>1, <1>2, <1>3 DEF FrameOk
<1>5. ASSUME z # None
      PROVE  Live(n) /\ SpanAt(n) = z
  BY <1>2, <1>3, <1>5 DEF Live, SpanAt, Own
<1>6. z # None => /\ z \in 1..Len(sc.all) /\ sc.all[z].kind \in Ops
                  /\ ~sc.all[z].ended /\ Left(sc, sc.all[z].within)
                  /\ \A h : Homes(h) => h[n] = z
  BY <1>2, <1>3, <1>5, SpanFacts
<1>7. PICK y : y = CloseOrDefer(X, z, timed)
  OBVIOUS
<1>8. y \in State /\ Sane(y.w, y.t) /\ Settles(X, y, z)
  BY <1>1, <1>4, <1>6, <1>7, SettleDoes
<1> QED
  BY <1>2, <1>4, <1>5, <1>6, <1>7, <1>8

LEMMA HookBackwardEnd ==
  ASSUME HookInv, ClaimInv, ClaimInv', NEW timed \in BOOLEAN, BackwardEnd(timed)
  PROVE  HookInv'
<1> DEFINE n == Len(frames)
<1>1. /\ WorldOk(sc) /\ torch \in Closure /\ Len(sc.all) \in Nat /\ Sane(sc, torch)
      /\ frames \in Seq(FrameRec) /\ Len(frames) \in Nat
      /\ X \in State /\ X.w = sc /\ X.t = torch
  BY Typed
<1>2. PICK z : z = Last(frames).scope
  OBVIOUS
<1>3. PICK y : y = CloseOrDefer(X, z, timed)
  OBVIOUS
<1>4. frames # <<>> /\ Innermost("backward") /\ Leave
      /\ hooked' = hooked /\ owned' = owned /\ cb' = cb /\ sc' = y.w /\ torch' = y.t
  BY <1>2, <1>3 DEF BackwardEnd, Innermost, Becomes
<1>5. /\ Len(frames') = Len(frames) - 1 /\ Len(frames) >= 1 /\ n \in 1..Len(frames)
      /\ Last(frames) = frames[n]
      /\ \A i \in 1..Len(frames') : frames'[i] = frames[i]
  BY <1>4, Departed DEF ClaimInv
<1>6. frames[n].what = "backward" /\ IsOp(n) /\ z = frames[n].scope
  BY <1>2, <1>4, <1>5 DEF Innermost, IsOp, Ops
<1>7. /\ z \in Nat /\ y \in State /\ Sane(y.w, y.t) /\ Settles(X, y, z)
      /\ z # None => /\ z \in 1..Len(sc.all) /\ sc.all[z].kind \in Ops
                     /\ Live(n) /\ \A h : Homes(h) => h[n] = z
  BY <1>2, <1>3, <1>4, OwnSettles
<1>8. "torch" \in hooked
  BY <1>5, <1>6 DEF HookInv, GoneOk
<1>9. Keeps(sc, sc') /\ \A e : Left(sc, e) => Left(sc', e)
  BY <1>1, <1>4, <1>7, SettledKeeps
<1>10. /\ Len(sc'.all) = Len(sc.all) /\ On(sc) \ {z} \subseteq On(sc')
       /\ \A r \in 1..Len(sc.all) : sc'.all[r].ended <=> (sc.all[r].ended \/ r = z)
       /\ torch'.epoch = torch.epoch /\ torch'.off = torch.off
       /\ torch'.depth = torch.depth /\ torch'.fwd = torch.fwd
  BY <1>1, <1>4, <1>7 DEF Settles
<1>11. Cardinality(Forwards') = Cardinality(Forwards)
  BY <1>1, <1>5, <1>6, ForwardsDeparted
<1>12. DepthOk' /\ (Sound' => Sound)
  BY <1>10, <1>11 DEF HookInv, DepthOk, Sound
<1>13. z # None => Live(n) /\ \A h : Homes(h) => h[n] \in Nat /\ h[n] <= z
  BY <1>7
<1>14. frames[n].what = "backward" /\ frames[n].scope # None => sc'.all[frames[n].scope].ended
  BY <1>6, <1>7, <1>10
<1> QED
  BY <1>4, <1>7, <1>8, <1>9, <1>10, <1>12, <1>13, <1>14, HookLeaves

LEMMA HookOptimizerPost ==
  ASSUME HookInv, ClaimInv, ClaimInv', NEW timed \in BOOLEAN, OptimizerPost(timed)
  PROVE  HookInv'
<1> DEFINE n == Len(frames)
<1>1. /\ WorldOk(sc) /\ torch \in Closure /\ Len(sc.all) \in Nat /\ Sane(sc, torch)
      /\ frames \in Seq(FrameRec) /\ Len(frames) \in Nat
      /\ X \in State /\ X.w = sc /\ X.t = torch
  BY Typed
<1>2. PICK s : s = Last(frames).scope
  OBVIOUS
<1>3. PICK y : y = CloseOrDefer(X, s, timed)
  OBVIOUS
<1>4. PICK z : z = IF SkipStep THEN y ELSE CloseStep(y)
  OBVIOUS
<1>5. PICK m : m = [z EXCEPT !.t.steps = @ + 1]
  OBVIOUS
<1>6. PICK x : x = IF SkipEpoch \/ torch.dl THEN z
                   ELSE IF m.t.steps >= EpochSteps THEN RotateEpoch(m) ELSE m
  OBVIOUS
<1>7. frames # <<>> /\ Innermost("optimizer_step") /\ Leave
      /\ hooked' = hooked /\ owned' = owned /\ cb' = cb /\ sc' = x.w /\ torch' = x.t
  BY <1>2, <1>3, <1>4, <1>5, <1>6 DEF OptimizerPost, Innermost, Becomes
<1>8. /\ Len(frames') = Len(frames) - 1 /\ Len(frames) >= 1 /\ n \in 1..Len(frames)
      /\ Last(frames) = frames[n] /\ frames' \in Seq(FrameRec)
      /\ \A i \in 1..Len(frames') : i \in 1..Len(frames) /\ i # Len(frames) /\ frames'[i] = frames[i]
      /\ \A i \in 1..Len(frames) : i # Len(frames) => i \in 1..Len(frames')
  BY <1>7, Departed DEF ClaimInv
<1>9. frames[n].what = "optimizer_step" /\ IsOp(n) /\ FrameOk(n)
  BY <1>7, <1>8 DEF Innermost, IsOp, Ops, HookInv
<1>10. /\ y \in State /\ Sane(y.w, y.t) /\ Settles(X, y, s)
       /\ s # None => sc.all[s].kind \in Ops
  BY <1>2, <1>3, <1>7, OwnSettles
<1>11. /\ Keeps(sc, y.w) /\ Len(y.w.all) = Len(sc.all)
       /\ y.t.epoch = torch.epoch /\ y.t.depth = torch.depth /\ y.t.off = torch.off
  <2>1. Keeps(sc, y.w)
    BY <1>1, <1>10, SettledKeeps
  <2> QED
    BY <1>1, <1>10, <2>1 DEF Settles
<1>12. /\ z \in State /\ Sane(z.w, z.t) /\ Keeps(sc, z.w) /\ Len(z.w.all) = Len(sc.all)
       /\ z.t.epoch = torch.epoch /\ z.t.depth = torch.depth /\ z.t.off = torch.off
  <2>1. CASE SkipStep
    BY <1>4, <1>10, <1>11, <2>1
  <2>2. CASE ~SkipStep
    <3>1. /\ z \in State /\ Sane(z.w, z.t) /\ Ends(y.w, z.w, {y.t.step})
          /\ z.t = [y.t EXCEPT !.step = None]
      BY <1>4, <1>10, <2>2, CloseStepDoes
    <3>2. Keeps(y.w, z.w) /\ Len(z.w.all) = Len(y.w.all)
      BY <1>10, <3>1, ShutsKeeps DEF Ends, Shuts, Sane
    <3>3. Keeps(sc, z.w)
      BY <1>1, <1>11, <3>2, KeepsOn
    <3>4. z.t.epoch = y.t.epoch /\ z.t.depth = y.t.depth /\ z.t.off = y.t.off
      BY <1>10, <3>1 DEF State, Closure
    <3> QED
      BY <1>11, <3>1, <3>2, <3>3, <3>4
  <2> QED
    BY <2>1, <2>2
<1>13. /\ m \in State /\ Sane(m.w, m.t) /\ m.w = z.w
       /\ m.t.epoch = z.t.epoch /\ m.t.depth = z.t.depth /\ m.t.off = z.t.off
  <2>1. PICK u : u = [z.t EXCEPT !.steps = @ + 1]
    OBVIOUS
  <2>2. /\ u \in Closure /\ u.items = z.t.items /\ u.epoch = z.t.epoch /\ u.step = z.t.step
        /\ u.fwd = z.t.fwd /\ u.off = z.t.off /\ u.depth = z.t.depth
    BY <1>12, <2>1 DEF State, Closure
  <2>3. Sane(z.w, u)
    BY <1>12, <2>2, SaneFields
  <2>4. m.w = z.w /\ m.t = u /\ m \in State
    BY <1>5, <1>12, <2>1, <2>2 DEF State
  <2> QED
    BY <2>2, <2>3, <2>4
<1>14. /\ Sane(sc', torch') /\ Keeps(sc, sc') /\ torch'.off = torch.off
       /\ \A r \in 1..Len(sc'.all) : r \in 1..Len(sc.all) \/ sc'.all[r].kind = "epoch"
       /\ torch'.epoch = torch.epoch \/ owned["epoch"] = "none"
  <2>1. CASE x = z \/ x = m
    BY <1>7, <1>12, <1>13, <2>1
  <2>2. CASE x # z /\ x # m
    <3>1. x = RotateEpoch(m) /\ owned["epoch"] = "none"
      BY <1>6, <2>2 DEF SkipEpoch
    <3>2. ~SkipStep
      BY <3>1 DEF SkipStep, ClaimInv, OwnOk
    <3>3. torch.epoch \in Nat
      BY <1>1 DEF Closure
    <3>4. /\ x \in State /\ Sane(x.w, x.t) /\ Keeps(m.w, x.w)
          /\ \A r \in 1..Len(x.w.all) : r \in 1..Len(m.w.all) \/ x.w.all[r].kind = "epoch"
          /\ x.t.off = m.t.off
      BY <1>13, <3>1, <3>2, <3>3, RotateDoes
    <3>5. Len(m.w.all) \in Nat /\ Len(x.w.all) \in Nat
      BY <1>13, <3>4 DEF Sane, WorldOk, World
    <3>6. Keeps(sc, x.w)
      BY <1>1, <1>12, <1>13, <3>4, <3>5, KeepsOn
    <3> QED
      BY <1>7, <1>12, <1>13, <3>1, <3>4, <3>6
  <2> QED
    BY <2>1, <2>2
<1>15. Len(sc'.all) \in Nat /\ torch'.depth \in Nat
  BY <1>14 DEF Sane, WorldOk, World, Closure
<1>16. ASSUME NEW i \in 1..Len(frames')
       PROVE  Same(i) /\ ~IsOp(i)'
  <2>1. \A j \in 1..i : j \in 1..Len(frames')
    BY <1>1, <1>8
  <2>2. Same(i)
    BY <1>8, <2>1 DEF Same
  <2>3. i \in 1..(n - 1)
    BY <1>1, <1>8
  <2>4. ~IsOp(i)
    BY <1>9, <2>3 DEF FrameOk
  <2> QED
    BY <1>8, <2>2, <2>4 DEF IsOp
<1>17. NestOk' /\ DepthOk'
  BY <1>8, <1>15, <1>16, NestIdle
<1>18. \A i \in 1..Len(frames') : FrameOk(i)'
  BY <1>1, <1>14, <1>15, <1>16, FramesKept
<1>19. BackOk'
  <2>1. \A i \in 1..Len(frames) : frames[i].what = "backward" => i \in 1..Len(frames') /\ frames'[i] = frames[i]
    BY <1>8, <1>9
  <2>2. \A r \in 1..Len(sc'.all) : r \in 1..Len(sc.all) \/ sc'.all[r].kind # "backward"
    BY <1>14
  <2> QED
    BY <1>14, <2>1, <2>2, BackKept
<1>20. GoneOk'
  <2>1. "torch" \in hooked
    BY <1>8, <1>9 DEF HookInv, GoneOk
  <2> QED
    BY <1>7, <1>14, <2>1 DEF HookInv, GoneOk
<1>21. \A c \in Callbacks : CbOk(c)'
  <2>1. CASE torch'.epoch = torch.epoch
    BY <1>1, <1>7, <1>14, <1>15, <2>1, CbKept
  <2>2. CASE owned["epoch"] = "none"
    BY <1>7, <2>2 DEF ClaimInv, OwnOk, Clear, CbOk, AboveEpoch
  <2> QED
    BY <1>14, <2>1, <2>2
<1> QED
  BY <1>14, <1>17, <1>18, <1>19, <1>20, <1>21 DEF HookInv

-------------------------------------------------------------------------------
(* The steps that move nothing on the stack, and the theorems.                 *)

LEMMA HookStill ==
  ASSUME HookInv, ClaimInv, sc' = sc, cb' = cb, frames' = frames, Sane(sc', torch'), GoneOk',
         torch'.epoch = torch.epoch, torch'.depth = torch.depth, torch'.fwd = torch.fwd
  PROVE  HookInv'
<1>1. Forwards' = Forwards /\ (Sound' <=> Sound)
  BY DEF Forwards, Sound
<1>2. \A i : (Live(i)' <=> Live(i)) /\ (IsOp(i)' <=> IsOp(i)) /\ SpanAt(i)' = SpanAt(i)
  BY <1>1 DEF Live, Within, IsOp, Outermost, SpanAt
<1>3. \A s : SpanOk(s)' <=> SpanOk(s)
  BY DEF SpanOk
<1>4. PICK h \in [1..Len(frames) -> Nat] : Homes(h)
  BY DEF HookInv, NestOk
<1>5. Homes(h)'
  BY <1>2, <1>3, <1>4 DEF Homes
<1>6. NestOk'
  BY <1>4, <1>5 DEF NestOk
<1>7. DepthOk'
  BY <1>1 DEF HookInv, DepthOk
<1>8. BackOk'
  BY DEF HookInv, BackOk
<1>9. \A i \in 1..Len(frames') : FrameOk(i)'
  BY DEF HookInv, FrameOk, IsOp
<1>10. \A c \in Callbacks : CbOk(c)'
  BY DEF HookInv, CbOk, AboveEpoch
<1> QED
  BY <1>6, <1>7, <1>8, <1>9, <1>10 DEF HookInv

LEMMA HookEventDone ==
  ASSUME HookInv, ClaimInv, EventDone
  PROVE  HookInv'
<1>1. /\ WorldOk(sc) /\ torch \in Closure /\ Len(sc.all) \in Nat /\ Sane(sc, torch)
      /\ frames \in Seq(FrameRec) /\ Len(frames) \in Nat
  BY Typed
<1>2. PICK i \in torch.items :
         torch' = [torch EXCEPT !.items = (@ \ {i}) \cup {[i EXCEPT !.ready = TRUE]}]
  BY DEF EventDone
<1>3. sc' = sc /\ hooked' = hooked /\ cb' = cb /\ frames' = frames
  BY DEF EventDone
<1>4. PICK j : j = [i EXCEPT !.ready = TRUE]
  OBVIOUS
<1>5. PICK I : I = (torch.items \ {i}) \cup {j}
  OBVIOUS
<1>6. torch' = [torch EXCEPT !.items = I]
  BY <1>2, <1>4, <1>5
<1>7. torch.items \in SUBSET Pair
  BY <1>1 DEF Closure
<1>8. j \in Pair /\ j.span = i.span
  BY <1>2, <1>4, <1>7 DEF Pair
<1>9. I \in SUBSET Pair
  BY <1>5, <1>7, <1>8
<1>10. /\ torch' \in Closure /\ torch'.items = I /\ torch'.epoch = torch.epoch /\ torch'.step = torch.step
       /\ torch'.fwd = torch.fwd /\ torch'.off = torch.off /\ torch'.depth = torch.depth
  BY <1>1, <1>6, <1>9 DEF Closure
<1>11. ASSUME NEW a \in I
       PROVE  \E b \in torch.items : b.span = a.span /\ (a # j => a = b) /\ (b = i <=> a = j)
  <2>1. CASE a = j
    BY <1>2, <1>8, <2>1
  <2>2. CASE a # j
    BY <1>5, <1>11, <2>2
  <2> QED
    BY <2>1, <2>2
<1>12. Spans(I) = Spans(torch.items)
  <2>1. \A s : s \in Spans(I) => s \in Spans(torch.items)
    BY <1>11 DEF Spans
  <2>2. ASSUME NEW b \in torch.items
        PROVE  \E a \in I : a.span = b.span
    <3>1. CASE b = i
      BY <1>5, <1>8, <3>1
    <3>2. CASE b # i
      BY <1>5, <3>2
    <3> QED
      BY <3>1, <3>2
  <2>3. \A s : s \in Spans(torch.items) => s \in Spans(I)
    BY <2>2 DEF Spans
  <2> QED
    BY <2>1, <2>3
<1>13. EmitOk(sc', I)
  <2>1. EmitOk(sc, torch.items)
    BY <1>1 DEF Sane
  <2>2. \A a \in I : a.span \in 1..Len(sc.all) /\ sc.all[a.span].ended
    BY <1>11, <2>1 DEF EmitOk
  <2>3. ASSUME NEW a \in I, NEW b \in I, a.span = b.span
        PROVE  a = b
    <3>1. PICK c \in torch.items : c.span = a.span /\ (a # j => a = c) /\ (c = i <=> a = j)
      BY <1>11
    <3>2. PICK d \in torch.items : d.span = b.span /\ (b # j => b = d) /\ (d = i <=> b = j)
      BY <1>11
    <3>3. c = d
      BY <2>1, <2>3, <3>1, <3>2 DEF EmitOk
    <3> QED
      BY <3>1, <3>2, <3>3
  <2> QED
    BY <1>3, <1>12, <2>1, <2>2, <2>3 DEF EmitOk
<1>14. HeldOk(sc', torch')
  <2>1. \A a \in I : Left(sc, sc.all[a.span].within)
    BY <1>1, <1>11 DEF Sane, HeldOk
  <2> QED
    BY <1>1, <1>3, <1>10, <2>1 DEF Sane, HeldOk
<1>15. Sane(sc', torch')
  BY <1>1, <1>3, <1>10, <1>13, <1>14 DEF Sane, TrackOk, StepOk, FwdOk
<1>16. GoneOk'
  BY <1>2, <1>3, <1>10 DEF HookInv, GoneOk, IsOp
<1> QED
  BY <1>3, <1>10, <1>15, <1>16, HookStill

LEMMA HookRest ==
  ASSUME HookInv, ClaimInv, Install \/ UNCHANGED vars
  PROVE  HookInv'
<1>1. sc' = sc /\ torch' = torch /\ cb' = cb /\ frames' = frames
  BY DEF Install, vars
<1>2. Sane(sc', torch')
  BY <1>1 DEF HookInv
<1>3. GoneOk'
  <2>1. CASE Install
    <3>1. hooked = {} /\ ~torch.off
      BY <2>1 DEF Install
    <3> QED
      BY <1>1, <3>1 DEF HookInv, GoneOk, IsOp
  <2>2. CASE UNCHANGED vars
    BY <2>2 DEF HookInv, GoneOk, IsOp, vars
  <2> QED
    BY <2>1, <2>2
<1> QED
  BY <1>1, <1>2, <1>3, HookStill

LEMMA HookStep ==
  ASSUME HookInv, ClaimInv, [Next]_vars
  PROVE  HookInv' /\ ClaimInv'
<1>1. WorldOk(sc)
  BY Typed
<1>2. ClaimInv'
  BY <1>1, ClaimCallback, ClaimOthers DEF Next
<1>3. CASE Install \/ UNCHANGED vars
  BY <1>2, <1>3, HookRest
<1>4. CASE Uninstall
  BY <1>2, <1>4, HookUninstall
<1>5. CASE UserEnter
  BY <1>2, <1>5, HookOpensOwn
<1>6. CASE UserExit
  BY <1>2, <1>6, HookUserExit
<1>7. CASE TorchStep
  <2>1. CASE DlIter \/ DlNext
    BY <1>2, <2>1, HookDlIter, HookDlNext
  <2>2. CASE ForwardPre
    BY <1>2, <2>2, HookForwardPre
  <2>3. CASE Raise
    BY <1>2, <2>3, HookRaise
  <2>4. CASE BackwardBegin \/ OptimizerPre
    BY <1>2, <2>4, HookOpensOwn
  <2>5. CASE EventDone
    BY <1>2, <2>5, HookEventDone
  <2>6. CASE \E timed \in {FALSE, Cuda} :
                ForwardPost(timed) \/ BackwardEnd(timed) \/ OptimizerPost(timed)
    <3>1. PICK timed \in {FALSE, Cuda} :
             ForwardPost(timed) \/ BackwardEnd(timed) \/ OptimizerPost(timed)
      BY <2>6
    <3>2. timed \in BOOLEAN
      BY HooksAssumption
    <3> QED
      BY <1>2, <3>1, <3>2, HookForwardPost, HookBackwardEnd, HookOptimizerPost
  <2> QED
    BY <1>7, <2>1, <2>2, <2>3, <2>4, <2>5, <2>6 DEF TorchStep
<1>8. CASE \E c \in Callbacks : CallbackStep(c)
  BY <1>2, <1>8, HookCallback
<1> QED
  BY <1>2, <1>3, <1>4, <1>5, <1>6, <1>7, <1>8 DEF Next

LEMMA HookInit == Init => HookInv /\ ClaimInv
<1> SUFFICES ASSUME Init
             PROVE  HookInv /\ ClaimInv
  OBVIOUS
<1>1. /\ sc = [stack |-> <<1>>, all |-> <<Root>>, stolen |-> {}, swept |-> {}]
      /\ hooked = {} /\ owned = [m \in {"epoch", "step"} |-> "none"] /\ frames = <<>>
  BY DEF Init
<1>2. torch = [epoch |-> None, step |-> None, steps |-> 0, dl |-> FALSE, depth |-> 0,
                 fwd |-> None, items |-> {}, ops |-> 0, iter |-> FALSE, off |-> FALSE]
  BY DEF Init
<1>3. cb \in [Callbacks -> {[of |-> f, epoch |-> None, step |-> None, claimed |-> {}, phase |-> "new", raised |-> FALSE] :
                                f \in Frameworks \ {"torch"}}]
  BY DEF Init
<1>4. /\ torch \in Closure /\ torch.epoch = 0 /\ torch.step = 0 /\ torch.items = {} /\ torch.depth = 0
      /\ torch.fwd = 0 /\ torch.off = FALSE
  BY <1>2 DEF Closure, None
<1>5. Root \in ScopeRec /\ Root.ended = FALSE /\ Root.emitted = 0 /\ Root.by = "user" /\ Root.kind = "session"
  BY DEF Root, ScopeRec, Kinds, Makers, None
<1>6. /\ sc \in World /\ sc.stack = <<1>> /\ sc.all = <<Root>> /\ Len(sc.stack) = 1 /\ Len(sc.all) = 1
      /\ sc.stack[1] = 1 /\ sc.all[1] = Root
  <2>1. <<1>> \in Seq(Nat) /\ <<Root>> \in Seq(ScopeRec)
    BY <1>5
  <2> QED
    BY <1>1, <2>1 DEF World
<1>7. WorldOk(sc)
  BY <1>6 DEF WorldOk, Rising, On
<1>8. \A s \in 1..Len(sc.all) : sc.all[s] = Root
  BY <1>6
<1>9. EmitOk(sc, torch.items)
  BY <1>4, <1>5, <1>8 DEF EmitOk
<1>10. Sane(sc, torch)
  BY <1>4, <1>5, <1>7, <1>8, <1>9 DEF Sane, TrackOk, StepOk, FwdOk, HeldOk, Left, None
<1>11. frames \in Seq(FrameRec) /\ Len(frames) = 0 /\ \A i \in 1..Len(frames) : FALSE
  BY <1>1
<1>12. NestOk
  <2> DEFINE h == [i \in 1..Len(frames) |-> 0]
  <2>1. h \in [1..Len(frames) -> Nat]
    OBVIOUS
  <2> HIDE DEF h
  <2>2. Homes(h)
    BY <1>11 DEF Homes
  <2> QED
    BY <2>1, <2>2 DEF NestOk
<1>13. DepthOk
  <2>1. Forwards = {}
    BY <1>11 DEF Forwards
  <2> QED
    BY <1>4, <2>1, FS_EmptySet DEF DepthOk
<1>14. BackOk /\ GoneOk /\ \A i \in 1..Len(frames) : FrameOk(i)
  BY <1>1, <1>4, <1>5, <1>8, <1>11 DEF BackOk, GoneOk, None
<1>15. ASSUME NEW c \in Callbacks
       PROVE  /\ cb[c] \in Callback /\ cb[c].epoch = None /\ cb[c].step = None /\ cb[c].phase = "new"
              /\ cb[c].claimed = {}
  <2>1. PICK f \in Frameworks \ {"torch"} :
           cb[c] = [of |-> f, epoch |-> None, step |-> None, claimed |-> {}, phase |-> "new", raised |-> FALSE]
    BY <1>3
  <2> QED
    BY <2>1 DEF Callback, Others, None
<1>16. \A c \in Callbacks : CbOk(c)
  BY <1>15 DEF CbOk, AboveEpoch
<1>17. ClaimType
  <2>1. owned \in [Names -> {"none"} \cup Others]
    BY <1>1 DEF Names
  <2>2. cb \in [Callbacks -> Callback]
    BY <1>3, <1>15
  <2> QED
    BY <1>11, <2>1, <2>2 DEF ClaimType
<1>18. RunOk
  BY <1>11, <1>15 DEF RunOk, Active
<1>19. OwnOk /\ (\A c \in Callbacks : ClaimOk(c)) /\ ClaimsOfRuns
  BY <1>1, <1>15 DEF OwnOk, ClaimOk, ClaimsOfRuns, Clear, Active
<1> QED
  BY <1>10, <1>12, <1>13, <1>14, <1>16, <1>17, <1>18, <1>19 DEF HookInv, ClaimInv

LEMMA Always == Spec => [](HookInv /\ ClaimInv)
<1>1. HookInv /\ ClaimInv /\ [Next]_vars => (HookInv /\ ClaimInv)'
  BY HookStep
<1> QED
  BY HookInit, <1>1, PTL DEF Spec

\* Whatever the order of hooks, callbacks and user scopes, a scope that has ended is
\* in the deque once, or is held for its GPU time and not in the deque yet: neither
\* _close nor _drain_cuda emits a span twice, and no span gets lost between them.
THEOREM EmitsOnce == Spec => []EmittedOrHeld
<1>1. HookInv /\ ClaimInv => EmittedOrHeld
  <2> SUFFICES ASSUME HookInv, ClaimInv
               PROVE  EmittedOrHeld
    OBVIOUS
  <2>1. EmitOk(sc, torch.items)
    BY DEF HookInv, Sane
  <2>2. Scopes = 1..Len(sc.all)
    BY Typed DEF Scopes, World
  <2>3. Held = Spans(torch.items)
    BY DEF Held, Spans
  <2> QED
    BY <2>1, <2>2, <2>3 DEF EmitOk, EmittedOrHeld
<1> QED
  BY Always, <1>1, PTL

\* An epoch or a step of the torch hook that is open is the one its closures name:
\* _rotate_epoch, the callbacks of other frameworks and the exits of user scopes
\* leave no other behind.
THEOREM TorchTracks == Spec => []TorchScopesTracked
<1>1. HookInv /\ ClaimInv => TorchScopesTracked
  <2> SUFFICES ASSUME HookInv, ClaimInv
               PROVE  TorchScopesTracked
    OBVIOUS
  <2>1. TrackOk(sc, torch)
    BY DEF HookInv, Sane
  <2>2. Scopes = 1..Len(sc.all)
    BY Typed DEF Scopes, World
  <2> QED
    BY <2>1, <2>2 DEF TrackOk, TorchScopesTracked
<1> QED
  BY Always, <1>1, PTL

\* The implicit step belongs to the epoch that is open, and a span held for its GPU
\* time is emitted before its epoch ends, unless something else than the hook took
\* the epoch off the stack.
THEOREM EpochsEndWhole == Spec => []EpochsWhole
<1>1. HookInv /\ ClaimInv => EpochsWhole
  <2> SUFFICES ASSUME HookInv, ClaimInv
               PROVE  EpochsWhole
    OBVIOUS
  <2>1. StepWithinEpoch
    BY DEF HookInv, Sane, StepOk, StepWithinEpoch
  <2>2. HeldWithinEpoch
    <3> SUFFICES ASSUME NEW s \in Held, sc.all[s].within # None
                 PROVE  LET e == sc.all[s].within
                        IN  ~sc.all[e].ended \/ e \in sc.stolen \cup sc.swept
      BY DEF HeldWithinEpoch
    <3>1. PICK i \in torch.items : s = i.span
      BY DEF Held
    <3>2. Left(sc, sc.all[s].within)
      BY <3>1 DEF HookInv, Sane, HeldOk
    <3> QED
      BY <3>2 DEF Left
  <2> QED
    BY <2>1, <2>2 DEF EpochsWhole
<1> QED
  BY Always, <1>1, PTL

\* The torch hook yields "epoch" or "step" to a framework only while a run of it is
\* under way, or after one has raised: on_train_end gives back what on_train_begin took.
THEOREM ClaimsFollowRuns == Spec => []ClaimsOfRuns
<1>1. HookInv /\ ClaimInv => ClaimsOfRuns
  BY DEF ClaimInv
<1> QED
  BY Always, <1>1, PTL

\* After TorchHookHandle.uninstall no span is held, and neither an epoch nor a backward
\* of the hook is open.
THEOREM UninstallLeavesNothing == Spec => []UninstallDrains
<1>1. HookInv /\ ClaimInv => UninstallDrains
  <2> SUFFICES ASSUME HookInv, ClaimInv, torch.off
               PROVE  /\ torch.items = {}
                      /\ \A s \in Scopes : sc.all[s].by = "torch" /\ sc.all[s].kind \in {"epoch", "backward"}
                                      => sc.all[s].ended
    BY DEF UninstallDrains
  <2>1. /\ torch.items = {} /\ torch.epoch = None
        /\ \A i \in 1..Len(frames) : ~IsOp(i)
    BY DEF HookInv, GoneOk
  <2>2. Scopes = 1..Len(sc.all) /\ \A s \in Scopes : s # None
    BY Typed DEF Scopes, World, None
  <2>3. ASSUME NEW s \in Scopes, sc.all[s].by = "torch", sc.all[s].kind = "epoch"
        PROVE  sc.all[s].ended
    BY <2>1, <2>2, <2>3 DEF HookInv, Sane, TrackOk
  <2>4. ASSUME NEW s \in Scopes, sc.all[s].kind = "backward"
        PROVE  sc.all[s].ended
    BY <2>1, <2>2, <2>4 DEF HookInv, BackOk, IsOp, Ops
  <2> QED
    BY <2>1, <2>3, <2>4
<1> QED
  BY Always, <1>1, PTL

==============================================================================

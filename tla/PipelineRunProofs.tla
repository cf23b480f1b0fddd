------------------------- MODULE PipelineRunProofs -------------------------
(***************************************************************************)
(* TLAPS proofs about PipelinePlan and PipelineRun, in this order: Kahn's  *)
(* algorithm computes a dependency order or refuses for a reason; the types; *)
(* the plan a run executes; the engine's inductive invariant EngineInv; what *)
(* it gives of failures, of the deploy and the finally phase and of the      *)
(* verdict; the refinement of DeploymentRun; and the consoles.               *)
(*                                                                         *)
(* The provers have no induction scheme to offer, so what a loop computes    *)
(* is proved from its least counterexample: a set of naturals that is not    *)
(* empty has a least member.                                                 *)
(***************************************************************************)
EXTENDS PipelineRun, FunctionTheorems, FiniteSetTheorems, TLAPS

LEMMA Least ==
  ASSUME NEW S \in SUBSET Nat, S # {}
  PROVE  \E n \in S : \A m \in S : n <= m
<1>. DEFINE R == OpToRel(<, Nat)
<1>1. IsWellFoundedOn(R, Nat) BY NatLessThanWellFounded, Zenon
<1>2. \A m, n \in Nat : m < n => <<m, n>> \in R BY DEF OpToRel
<1>. HIDE DEF R
<1>3. PICK n \in S : \A m \in S : ~ (<<m, n>> \in R)
  BY <1>1, WFMin
<1>4. \A m \in S : ~ (m < n)
  BY <1>2, <1>3, Zenon
<1>. QED BY <1>4

\* A set of counterexamples without a first one is empty.
LEMMA NoFirst ==
  ASSUME NEW N \in Nat, NEW S \in SUBSET (0 .. N), 0 \notin S,
         \A n \in 1 .. N : n \in S => n - 1 \in S
  PROVE  S = {}
<1>. SUFFICES ASSUME S # {} PROVE FALSE
  OBVIOUS
<1>1. PICK n \in S : \A m \in S : n <= m BY Least
<1>2. n \in 1 .. N /\ n - 1 < n BY <1>1
<1>3. n - 1 \in S BY <1>1, <1>2
<1>. QED BY <1>1, <1>2, <1>3

-----------------------------------------------------------------------------
(* Picked: a loop over the declared steps.                                  *)

PickedTo(steps, S, i, g) ==
  g = [j \in 0 .. i |-> IF j = 0 THEN <<>>
                        ELSE IF steps[j] \in S THEN Append(g[j - 1], steps[j])
                        ELSE g[j - 1]]

LEMMA PickedExists ==
  ASSUME NEW steps, Len(steps) \in Nat, NEW S
  PROVE  \E g : PickedTo(steps, S, Len(steps), g)
<1>. DEFINE N == Len(steps)
            Bad == {n \in 0 .. N : ~ \E g : PickedTo(steps, S, n, g)}
<1>1. 0 \notin Bad
  <2>. DEFINE h == [j \in 0 .. 0 |-> <<>>]
  <2>1. h = [j \in 0 .. 0 |-> IF j = 0 THEN <<>>
                              ELSE IF steps[j] \in S THEN Append(h[j - 1], steps[j])
                              ELSE h[j - 1]]
    OBVIOUS
  <2>. HIDE DEF h
  <2>2. PickedTo(steps, S, 0, h) BY <2>1 DEF PickedTo
  <2>. QED BY <2>2
<1>2. ASSUME NEW n \in 1 .. N, n - 1 \notin Bad PROVE n \notin Bad
  <2>1. n \in Nat /\ n # 0 /\ n - 1 \in 0 .. N /\ n - 1 \in Nat BY Z3
  <2>2. PICK g : PickedTo(steps, S, n - 1, g) BY <1>2, <2>1
  <2>. DEFINE last == IF steps[n] \in S THEN Append(g[n - 1], steps[n]) ELSE g[n - 1]
              h == [j \in 0 .. n |-> IF j = n THEN last ELSE g[j]]
  <2>3. \A j \in 0 .. (n - 1) : g[j] = IF j = 0 THEN <<>>
                                       ELSE IF steps[j] \in S THEN Append(g[j - 1], steps[j])
                                       ELSE g[j - 1]
    BY <2>2 DEF PickedTo
  <2>. HIDE DEF last
  <2>4. \A j \in 0 .. n : j # n => j \in 0 .. (n - 1) /\ (j # 0 => j - 1 \in 0 .. (n - 1))
    BY <2>1
  <2>5. \A j \in 0 .. n : h[j] = IF j = 0 THEN <<>>
                                 ELSE IF steps[j] \in S THEN Append(h[j - 1], steps[j])
                                 ELSE h[j - 1]
    <3>1. h[n] = last /\ h[n - 1] = g[n - 1] BY <2>1
    <3>2. \A j \in 0 .. n : j # n => h[j] = g[j] /\ (j # 0 => h[j - 1] = g[j - 1])
      BY <2>1, <2>4
    <3>. HIDE DEF h
    <3>. QED BY <2>1, <2>3, <2>4, <3>1, <3>2 DEF last
  <2>6. PickedTo(steps, S, n, h) BY <2>5 DEF PickedTo
  <2>. QED BY <2>6
<1>3. Bad \in SUBSET (0 .. N) OBVIOUS
<1>. HIDE DEF Bad
<1>4. Bad = {} BY <1>1, <1>2, <1>3, NoFirst
<1>. QED BY <1>4 DEF Bad

\* What is picked are the steps asked for, each one once.
LEMMA PickedIs ==
  ASSUME NEW X, NEW steps \in Seq(X), NEW S,
         \A i, j \in 1 .. Len(steps) : steps[i] = steps[j] => i = j
  PROVE  /\ Picked(steps, S) \in Seq(X) /\ ToSet(Picked(steps, S)) = ToSet(steps) \cap S
         /\ \A i, j \in 1 .. Len(Picked(steps, S)) :
              Picked(steps, S)[i] = Picked(steps, S)[j] => i = j
<1>. DEFINE N == Len(steps)
<1>0. N \in Nat OBVIOUS
<1>1. PICK g : PickedTo(steps, S, N, g) /\ Picked(steps, S) = g[N]
  <2>. DEFINE g == CHOOSE f : PickedTo(steps, S, N, f)
  <2>1. PickedTo(steps, S, N, g) BY <1>0, PickedExists
  <2>2. Picked(steps, S) = g[N] BY DEF Picked, PickedTo
  <2>. QED BY <2>1, <2>2
<1>2. g[0] = <<>> /\ \A n \in 1 .. N : g[n] = IF steps[n] \in S THEN Append(g[n - 1], steps[n])
                                             ELSE g[n - 1]
  <2>1. \A j \in 0 .. N : g[j] = IF j = 0 THEN <<>>
                                 ELSE IF steps[j] \in S THEN Append(g[j - 1], steps[j])
                                 ELSE g[j - 1]
    BY <1>1 DEF PickedTo
  <2>2. 0 \in 0 .. N /\ \A n \in 1 .. N : n \in 0 .. N /\ n # 0 BY <1>0
  <2>. QED BY <2>1, <2>2, Zenon
<1>. DEFINE Good(n) == /\ g[n] \in Seq(X)
                       /\ \A x : x \in ToSet(g[n]) <=> x \in S /\ \E i \in 1 .. n : x = steps[i]
                       /\ \A i, j \in 1 .. Len(g[n]) : g[n][i] = g[n][j] => i = j
            Bad == {n \in 0 .. N : ~Good(n)}
<1>3. Good(0) BY <1>2 DEF ToSet
<1>4. ASSUME NEW n \in 1 .. N, Good(n - 1) PROVE Good(n)
  <2>1. /\ n \in Nat /\ n - 1 \in Nat /\ steps[n] \in X /\ n \in 1 .. N
        /\ \A i \in 1 .. (n - 1) : steps[i] # steps[n] /\ i \in 1 .. n
        /\ \A i \in 1 .. n : i = n \/ i \in 1 .. (n - 1)
    BY <1>0
  <2>2. CASE steps[n] \notin S
    <3>1. g[n] = g[n - 1] BY <1>2, <2>2
    <3>. QED BY <1>4, <2>1, <2>2, <3>1
  <2>3. CASE steps[n] \in S
    <3>. DEFINE q == g[n - 1]
    <3>1. g[n] = Append(q, steps[n]) BY <1>2, <2>3
    <3>2. /\ q \in Seq(X) /\ \A x : x \in ToSet(q) <=> x \in S /\ \E i \in 1 .. (n - 1) : x = steps[i]
          /\ \A i, j \in 1 .. Len(q) : q[i] = q[j] => i = j
      BY <1>4
    <3>. HIDE DEF q
    <3>3. /\ g[n] \in Seq(X) /\ Len(g[n]) = Len(q) + 1 /\ Len(q) \in Nat
          /\ \A i \in 1 .. Len(q) : g[n][i] = q[i]
          /\ g[n][Len(q) + 1] = steps[n]
      BY <2>1, <3>1, <3>2
    <3>4. \A i \in 1 .. Len(g[n]) : i \in 1 .. Len(q) \/ i = Len(q) + 1 BY <3>3
    <3>5. \A x : x \in ToSet(g[n]) <=> x \in ToSet(q) \/ x = steps[n]
      <4>1. DOMAIN g[n] = 1 .. Len(g[n]) /\ DOMAIN q = 1 .. Len(q) BY <3>2, <3>3
      <4>2. \A i \in 1 .. Len(q) : i \in 1 .. Len(g[n]) BY <3>3
      <4>3. Len(q) + 1 \in 1 .. Len(g[n]) BY <3>3
      <4>4. ASSUME NEW x, x \in ToSet(g[n]) PROVE x \in ToSet(q) \/ x = steps[n]
        <5>1. PICK i \in 1 .. Len(g[n]) : x = g[n][i] BY <4>1, <4>4 DEF ToSet
        <5>2. CASE i \in 1 .. Len(q)
          <6>1. x = q[i] BY <3>3, <5>1, <5>2
          <6>. QED BY <4>1, <5>2, <6>1 DEF ToSet
        <5>. QED BY <3>3, <3>4, <5>1, <5>2
      <4>5. ASSUME NEW x, x \in ToSet(q) PROVE x \in ToSet(g[n])
        <5>1. PICK i \in 1 .. Len(q) : x = q[i] BY <4>1, <4>5 DEF ToSet
        <5>2. x = g[n][i] /\ i \in DOMAIN g[n] BY <3>3, <4>1, <4>2, <5>1
        <5>. QED BY <5>2 DEF ToSet
      <4>6. steps[n] \in ToSet(g[n]) BY <3>3, <4>1, <4>3 DEF ToSet
      <4>. QED BY <4>4, <4>5, <4>6
    <3>6. steps[n] \notin ToSet(q) BY <2>1, <3>2
    <3>7. \A i \in 1 .. Len(q) : q[i] # steps[n] BY <3>2, <3>6 DEF ToSet
    <3>8. \A i, j \in 1 .. Len(g[n]) : g[n][i] = g[n][j] => i = j
      BY <3>2, <3>3, <3>4, <3>7
    <3>9. \A x : x \in ToSet(g[n]) <=> x \in S /\ \E i \in 1 .. n : x = steps[i]
      BY <2>1, <2>3, <3>2, <3>5
    <3>. QED BY <3>3, <3>8, <3>9
  <2>. QED BY <2>2, <2>3
<1>5. Bad = {}
  <2>1. Bad \in SUBSET (0 .. N) /\ 0 \notin Bad BY <1>3
  <2>2. \A n \in 1 .. N : n \in Bad => n - 1 \in Bad
    <3>. SUFFICES ASSUME NEW n \in 1 .. N, n - 1 \notin Bad PROVE n \notin Bad
      OBVIOUS
    <3>1. n - 1 \in 0 .. N BY <1>0
    <3>2. Good(n - 1) BY <3>1
    <3>. QED BY <1>4, <3>2
  <2>. HIDE DEF Bad
  <2>. QED BY <1>0, <2>1, <2>2, NoFirst
<1>6. Good(N)
  <2>1. N \in 0 .. N BY <1>0
  <2>. QED BY <1>5, <2>1
<1>. HIDE DEF Good
<1>7. ToSet(g[N]) = ToSet(steps) \cap S
  BY <1>6 DEF Good, ToSet
<1>. QED BY <1>1, <1>6, <1>7 DEF Good

-----------------------------------------------------------------------------
(* Kahn: the loop over the queue.                                           *)

KahnTo(steps, needs, i, g) ==
  g = [n \in 0 .. i |->
         IF n = 0 THEN Picked(steps, {s \in ToSet(steps) : needs[s] = {}})
         ELSE IF n > Len(g[n - 1]) THEN g[n - 1]
         ELSE g[n - 1] \o Released(steps, needs, g[n - 1], n)]

LEMMA KahnExists ==
  ASSUME NEW steps, Len(steps) \in Nat, NEW needs
  PROVE  \E g : KahnTo(steps, needs, Len(steps), g)
<1>. DEFINE N == Len(steps)
            base == Picked(steps, {s \in ToSet(steps) : needs[s] = {}})
            turn(w, n) == IF n > Len(w) THEN w ELSE w \o Released(steps, needs, w, n)
            Bad == {n \in 0 .. N : ~ \E g : KahnTo(steps, needs, n, g)}
<1>0. \A i, g : KahnTo(steps, needs, i, g) <=>
                  g = [n \in 0 .. i |-> IF n = 0 THEN base ELSE turn(g[n - 1], n)]
  BY DEF KahnTo
<1>. HIDE DEF base, turn
<1>1. 0 \notin Bad
  <2>. DEFINE h == [j \in 0 .. 0 |-> base]
  <2>1. h = [j \in 0 .. 0 |-> IF j = 0 THEN base ELSE turn(h[j - 1], j)]
    OBVIOUS
  <2>. HIDE DEF h
  <2>2. KahnTo(steps, needs, 0, h) BY <1>0, <2>1
  <2>. QED BY <2>2
<1>2. ASSUME NEW n \in 1 .. N, n - 1 \notin Bad PROVE n \notin Bad
  <2>1. n \in Nat /\ n # 0 /\ n - 1 \in 0 .. N /\ n - 1 \in Nat BY Z3
  <2>2. PICK g : KahnTo(steps, needs, n - 1, g) BY <1>2, <2>1
  <2>. DEFINE h == [j \in 0 .. n |-> IF j = n THEN turn(g[n - 1], n) ELSE g[j]]
  <2>3. \A j \in 0 .. (n - 1) : g[j] = IF j = 0 THEN base ELSE turn(g[j - 1], j)
    <3>1. g = [j \in 0 .. (n - 1) |-> IF j = 0 THEN base ELSE turn(g[j - 1], j)]
      BY <1>0, <2>2
    <3>. QED BY <3>1
  <2>4. \A j \in 0 .. n : j # n => j \in 0 .. (n - 1) /\ (j # 0 => j - 1 \in 0 .. (n - 1))
    BY <2>1
  <2>5. \A j \in 0 .. n : h[j] = IF j = 0 THEN base ELSE turn(h[j - 1], j)
    <3>1. h[n] = turn(g[n - 1], n) /\ h[n - 1] = g[n - 1] BY <2>1
    <3>2. \A j \in 0 .. n : j # n => h[j] = g[j] /\ (j # 0 => h[j - 1] = g[j - 1])
      BY <2>1, <2>4
    <3>. HIDE DEF h
    <3>. QED BY <2>1, <2>3, <2>4, <3>1, <3>2
  <2>6. h = [j \in 0 .. n |-> IF j = 0 THEN base ELSE turn(h[j - 1], j)]
    BY <2>5
  <2>7. KahnTo(steps, needs, n, h) BY <1>0, <2>6
  <2>. QED BY <2>7
<1>3. Bad \in SUBSET (0 .. N) OBVIOUS
<1>. HIDE DEF Bad
<1>4. Bad = {} BY <1>1, <1>2, <1>3, NoFirst
<1>. QED BY <1>4 DEF Bad

Ready(steps, needs) == {s \in ToSet(steps) : needs[s] = {}}

\* The loop as equations.
LEMMA KahnLoop ==
  ASSUME NEW steps, Len(steps) \in Nat, NEW needs, NEW k, k = Kahn(steps, needs)
  PROVE  /\ k[0] = Picked(steps, Ready(steps, needs))
         /\ \A n \in 1 .. Len(steps) :
              k[n] = IF n > Len(k[n - 1]) THEN k[n - 1]
                     ELSE k[n - 1] \o Released(steps, needs, k[n - 1], n)
<1>. DEFINE f == CHOOSE h : KahnTo(steps, needs, Len(steps), h)
<1>1. KahnTo(steps, needs, Len(steps), f) BY KahnExists
<1>2. Kahn(steps, needs) = f BY DEF Kahn, KahnTo
<1>. HIDE DEF f
<1>3. \A n \in 0 .. Len(steps) :
        k[n] = IF n = 0 THEN Picked(steps, Ready(steps, needs))
               ELSE IF n > Len(k[n - 1]) THEN k[n - 1]
               ELSE k[n - 1] \o Released(steps, needs, k[n - 1], n)
  BY <1>1, <1>2 DEF KahnTo, Ready
<1>4. 0 \in 0 .. Len(steps) /\ \A n \in 1 .. Len(steps) : n \in 0 .. Len(steps) /\ n # 0
  OBVIOUS
<1>. QED BY <1>3, <1>4, Zenon

\* The names taken off the queue.
Out(w, n) == {w[i] : i \in {k \in 1 .. n : k \in 1 .. Len(w)}}

\* What the loop keeps: the names placed are different, each comes after all it
\* needs, and they are exactly those whose needs are out.
KahnInv(X, steps, needs, w, n) ==
  /\ w \in Seq(X)
  /\ \A i, j \in 1 .. Len(w) : w[i] = w[j] => i = j
  /\ \A s : s \in ToSet(w) <=> s \in ToSet(steps) /\ needs[s] \subseteq Out(w, n)
  /\ \A i \in 1 .. Len(w) : needs[w[i]] \subseteq {w[j] : j \in 1 .. (i - 1)}

\* A sequence without repetition has as many members as positions.
LEMMA SeqCount ==
  ASSUME NEW X, NEW w \in Seq(X), \A i, j \in 1 .. Len(w) : w[i] = w[j] => i = j
  PROVE  IsFiniteSet(ToSet(w)) /\ Cardinality(ToSet(w)) = Len(w)
<1>1. Len(w) \in Nat /\ w \in [1 .. Len(w) -> ToSet(w)] /\ DOMAIN w = 1 .. Len(w)
  BY DEF ToSet
<1>2. \A t \in ToSet(w) : \E i \in 1 .. Len(w) : w[i] = t BY <1>1 DEF ToSet
<1>3. w \in Bijection(1 .. Len(w), ToSet(w))
  BY <1>1, <1>2, Fun_IsBij
<1>4. ExistsBijection(1 .. Len(w), ToSet(w)) BY <1>3 DEF ExistsBijection
<1>. QED BY <1>1, <1>4, FS_CountingElements, FS_NatBijection

\* inDegree is zero when every dependency is out.
LEMMA InDegreeIs ==
  ASSUME NEW X, NEW w \in Seq(X), NEW n \in 1 .. Len(w), NEW needs, NEW s, IsFiniteSet(needs[s])
  PROVE  InDegree(needs, w, n, s) = 0 <=> needs[s] \subseteq Out(w, n)
<1>. DEFINE D == needs[s] \ {w[i] : i \in 1 .. n}
<1>1. {w[i] : i \in 1 .. n} = Out(w, n) BY DEF Out
<1>2. IsFiniteSet(D) BY FS_Subset
<1>3. Cardinality(D) = 0 <=> D = {} BY <1>2, FS_EmptySet
<1>. QED BY <1>1, <1>3 DEF InDegree

\* One turn of the loop keeps it.
LEMMA KahnStep ==
  ASSUME NEW X, NEW steps \in Seq(X),
         \A i, j \in 1 .. Len(steps) : steps[i] = steps[j] => i = j,
         NEW needs, KnownNeeds(steps, needs),
         NEW w, NEW n \in Nat \ {0}, KahnInv(X, steps, needs, w, n - 1)
  PROVE  KahnInv(X, steps, needs,
                 IF n > Len(w) THEN w ELSE w \o Released(steps, needs, w, n), n)
<1>1. /\ w \in Seq(X) /\ Len(w) \in Nat /\ DOMAIN w = 1 .. Len(w)
      /\ \A i, j \in 1 .. Len(w) : w[i] = w[j] => i = j
      /\ \A s : s \in ToSet(w) <=> s \in ToSet(steps) /\ needs[s] \subseteq Out(w, n - 1)
      /\ \A i \in 1 .. Len(w) : needs[w[i]] \subseteq {w[j] : j \in 1 .. (i - 1)}
  BY DEF KahnInv
<1>2. CASE n > Len(w)
  <2>1. \A k \in Int : k \in 1 .. Len(w) => k \in 1 .. n /\ k \in 1 .. (n - 1) BY <1>1, <1>2
  <2>2. {k \in 1 .. n : k \in 1 .. Len(w)} = {k \in 1 .. (n - 1) : k \in 1 .. Len(w)}
    BY <2>1
  <2>3. Out(w, n) = Out(w, n - 1) BY <2>2 DEF Out
  <2>. QED BY <1>1, <1>2, <2>3 DEF KahnInv
<1>3. CASE ~(n > Len(w))
  <2>. DEFINE r == Released(steps, needs, w, n)
              v == w \o r
              S == {s \in ToSet(steps) : w[n] \in needs[s] /\ InDegree(needs, w, n, s) = 0}
  <2>1. n \in 1 .. Len(w) /\ n - 1 \in Nat BY <1>1, <1>3
  <2>2. /\ r \in Seq(X) /\ ToSet(r) = ToSet(steps) \cap S
        /\ \A i, j \in 1 .. Len(r) : r[i] = r[j] => i = j
    <3>1. r = Picked(steps, S) BY DEF Released
    <3>. HIDE DEF S, r
    <3>. QED BY <3>1, PickedIs
  <2>3. \A s \in ToSet(steps) : IsFiniteSet(needs[s])
    BY SeqCount, FS_Subset DEF KnownNeeds
  <2>4. \A s : s \in ToSet(r) <=> s \in ToSet(steps) /\ w[n] \in needs[s] /\ needs[s] \subseteq Out(w, n)
    <3>1. \A s \in ToSet(steps) : InDegree(needs, w, n, s) = 0 <=> needs[s] \subseteq Out(w, n)
      BY <1>1, <2>1, <2>3, InDegreeIs
    <3>. HIDE DEF r
    <3>. QED BY <2>2, <3>1
  <2>. HIDE DEF r
  <2>5. /\ v \in Seq(X) /\ Len(r) \in Nat /\ Len(v) = Len(w) + Len(r)
        /\ \A i \in 1 .. Len(w) : v[i] = w[i]
        /\ \A i \in 1 .. Len(v) : i \notin 1 .. Len(w) =>
             i - Len(w) \in 1 .. Len(r) /\ v[i] = r[i - Len(w)]
        /\ \A i \in 1 .. Len(r) : i + Len(w) \in 1 .. Len(v) /\ v[i + Len(w)] = r[i]
        /\ \A i \in 1 .. Len(w) : i \in 1 .. Len(v)
    BY <1>1, <2>2
  <2>. HIDE DEF v
  <2>6. Out(w, n) = Out(w, n - 1) \cup {w[n]} /\ w[n] \notin Out(w, n - 1)
    <3>1. /\ \A k \in Int : k \in 1 .. n /\ k \in 1 .. Len(w) <=>
               k = n \/ (k \in 1 .. (n - 1) /\ k \in 1 .. Len(w))
          /\ n \notin 1 .. (n - 1)
      BY <1>1, <2>1
    <3>2. \A k \in 1 .. n : k \in Int OBVIOUS
    <3>3. \A k \in 1 .. (n - 1) : k \in Int OBVIOUS
    <3>4. Out(w, n) = Out(w, n - 1) \cup {w[n]}
      BY <2>1, <3>1, <3>2, <3>3 DEF Out
    <3>5. w[n] \notin Out(w, n - 1)
      BY <1>1, <2>1, <3>1 DEF Out
    <3>. QED BY <3>4, <3>5
  <2>7. Out(v, n) = Out(w, n)
    <3>1. {k \in 1 .. n : k \in 1 .. Len(v)} = 1 .. n BY <1>1, <2>1, <2>5
    <3>2. {k \in 1 .. n : k \in 1 .. Len(w)} = 1 .. n BY <1>1, <2>1, <2>5
    <3>3. \A k \in 1 .. n : v[k] = w[k] BY <1>1, <2>1, <2>5
    <3>. QED BY <3>1, <3>2, <3>3 DEF Out
  <2>8. \A s : s \in ToSet(v) <=> s \in ToSet(w) \/ s \in ToSet(r)
    <3>1. DOMAIN v = 1 .. Len(v) /\ DOMAIN r = 1 .. Len(r) BY <2>2, <2>5
    <3>2. ASSUME NEW s, s \in ToSet(v) PROVE s \in ToSet(w) \/ s \in ToSet(r)
      <4>1. PICK i \in 1 .. Len(v) : s = v[i] BY <3>1, <3>2 DEF ToSet
      <4>2. CASE i \in 1 .. Len(w)
        <5>1. i \in DOMAIN w /\ s = w[i] BY <1>1, <2>5, <4>1, <4>2
        <5>. QED BY <5>1 DEF ToSet
      <4>3. CASE i \notin 1 .. Len(w)
        <5>1. i - Len(w) \in DOMAIN r /\ s = r[i - Len(w)] BY <2>5, <3>1, <4>1, <4>3
        <5>. QED BY <5>1 DEF ToSet
      <4>. QED BY <4>2, <4>3
    <3>3. ASSUME NEW s, s \in ToSet(w) PROVE s \in ToSet(v)
      <4>1. PICK i \in 1 .. Len(w) : s = w[i] BY <1>1, <3>3 DEF ToSet
      <4>2. i \in DOMAIN v /\ s = v[i] BY <2>5, <3>1, <4>1
      <4>. QED BY <4>2 DEF ToSet
    <3>4. ASSUME NEW s, s \in ToSet(r) PROVE s \in ToSet(v)
      <4>1. PICK i \in 1 .. Len(r) : s = r[i] BY <3>1, <3>4 DEF ToSet
      <4>2. i + Len(w) \in DOMAIN v /\ s = v[i + Len(w)] BY <2>5, <3>1, <4>1
      <4>. QED BY <4>2 DEF ToSet
    <3>. QED BY <3>2, <3>3, <3>4
  <2>9. \A s : s \in ToSet(v) <=> s \in ToSet(steps) /\ needs[s] \subseteq Out(v, n)
    BY <1>1, <2>4, <2>6, <2>7, <2>8
  <2>10. \A i \in 1 .. Len(w) : w[i] \in ToSet(w) BY <1>1 DEF ToSet
  <2>11. \A i \in 1 .. Len(r) : r[i] \in ToSet(r)
    BY <2>2 DEF ToSet
  <2>12. \A s : s \in ToSet(r) => s \notin ToSet(w) BY <1>1, <2>4, <2>6
  <2>13. ASSUME NEW i \in 1 .. Len(v), NEW j \in 1 .. Len(v), v[i] = v[j] PROVE i = j
    <3>1. CASE i \in 1 .. Len(w) /\ j \in 1 .. Len(w) BY <1>1, <2>5, <2>13, <3>1
    <3>2. CASE i \notin 1 .. Len(w) /\ j \notin 1 .. Len(w)
      <4>1. /\ i - Len(w) \in 1 .. Len(r) /\ v[i] = r[i - Len(w)]
            /\ j - Len(w) \in 1 .. Len(r) /\ v[j] = r[j - Len(w)]
        BY <2>5, <3>2
      <4>2. i - Len(w) = j - Len(w) BY <2>2, <2>13, <4>1
      <4>. QED BY <1>1, <4>2
    <3>3. CASE i \in 1 .. Len(w) /\ j \notin 1 .. Len(w)
      BY <2>5, <2>10, <2>11, <2>12, <2>13, <3>3
    <3>4. CASE i \notin 1 .. Len(w) /\ j \in 1 .. Len(w)
      BY <2>5, <2>10, <2>11, <2>12, <2>13, <3>4
    <3>. QED BY <3>1, <3>2, <3>3, <3>4
  <2>14. ASSUME NEW i \in 1 .. Len(v) PROVE needs[v[i]] \subseteq {v[j] : j \in 1 .. (i - 1)}
    <3>1. CASE i \in 1 .. Len(w)
      <4>1. v[i] = w[i] /\ \A j \in 1 .. (i - 1) : v[j] = w[j] BY <1>1, <2>5, <3>1
      <4>2. needs[w[i]] \subseteq {w[j] : j \in 1 .. (i - 1)} BY <1>1, <3>1
      <4>. QED BY <4>1, <4>2
    <3>2. CASE i \notin 1 .. Len(w)
      <4>1. v[i] \in ToSet(r) BY <2>5, <2>11, <3>2
      <4>2. needs[v[i]] \subseteq Out(v, n) BY <2>4, <2>7, <4>1
      <4>3. \A k \in 1 .. n : k \in 1 .. (i - 1) BY <1>1, <2>1, <2>5, <3>2
      <4>. QED BY <4>2, <4>3 DEF Out
    <3>. QED BY <3>1, <3>2
  <2>15. KahnInv(X, steps, needs, v, n) BY <2>5, <2>9, <2>13, <2>14 DEF KahnInv
  <2>. QED BY <1>3, <2>15 DEF v, r
<1>. QED BY <1>2, <1>3

LEMMA KahnHolds ==
  ASSUME NEW X, NEW steps \in Seq(X),
         \A i, j \in 1 .. Len(steps) : steps[i] = steps[j] => i = j,
         NEW needs, KnownNeeds(steps, needs)
  PROVE  KahnInv(X, steps, needs, KahnOrder(steps, needs), Len(steps))
<1>. DEFINE N == Len(steps)
            k == Kahn(steps, needs)
            Good(n) == KahnInv(X, steps, needs, k[n], n)
            Bad == {n \in 0 .. N : ~Good(n)}
<1>0. N \in Nat OBVIOUS
<1>. HIDE DEF k
<1>1. /\ k[0] = Picked(steps, Ready(steps, needs))
      /\ \A n \in 1 .. N :
           k[n] = IF n > Len(k[n - 1]) THEN k[n - 1]
                  ELSE k[n - 1] \o Released(steps, needs, k[n - 1], n)
  <2>1. k = Kahn(steps, needs) BY DEF k
  <2>. QED BY <1>0, <2>1, KahnLoop
<1>2. Good(0)
  <2>. DEFINE S == Ready(steps, needs)
  <2>1. k[0] = Picked(steps, S) BY <1>1
  <2>2. /\ k[0] \in Seq(X) /\ ToSet(k[0]) = ToSet(steps) \cap S
        /\ \A i, j \in 1 .. Len(k[0]) : k[0][i] = k[0][j] => i = j
    <3>. HIDE DEF S
    <3>. QED BY <2>1, PickedIs
  <2>3. Out(k[0], 0) = {}
    <3>1. {i \in 1 .. 0 : i \in 1 .. Len(k[0])} = {} OBVIOUS
    <3>. QED BY <3>1 DEF Out
  <2>4. \A i \in 1 .. Len(k[0]) : k[0][i] \in ToSet(k[0]) BY <2>2 DEF ToSet
  <2>. QED BY <2>2, <2>3, <2>4 DEF KahnInv, Ready
<1>3. ASSUME NEW n \in 1 .. N, Good(n - 1) PROVE Good(n)
  <2>1. n \in Nat \ {0} OBVIOUS
  <2>. DEFINE w == k[n - 1]
  <2>2. k[n] = IF n > Len(w) THEN w ELSE w \o Released(steps, needs, w, n) BY <1>1
  <2>3. KahnInv(X, steps, needs, w, n - 1) BY <1>3
  <2>. HIDE DEF w
  <2>. QED BY <2>1, <2>2, <2>3, KahnStep
<1>4. Bad = {}
  <2>1. Bad \in SUBSET (0 .. N) /\ 0 \notin Bad BY <1>2
  <2>2. \A n \in 1 .. N : n \in Bad => n - 1 \in Bad
    <3>. SUFFICES ASSUME NEW n \in 1 .. N, n - 1 \notin Bad PROVE n \notin Bad
      OBVIOUS
    <3>1. n - 1 \in 0 .. N BY <1>0
    <3>. HIDE DEF Good
    <3>2. Good(n - 1) BY <3>1
    <3>. QED BY <1>3, <3>2
  <2>. HIDE DEF Bad
  <2>. QED BY <1>0, <2>1, <2>2, NoFirst
<1>5. Good(N)
  <2>1. N \in 0 .. N BY <1>0
  <2>. HIDE DEF Good
  <2>. QED BY <1>4, <2>1
<1>. QED BY <1>5 DEF KahnOrder, k

\* ValidateDAG accepts exactly the phases whose needs are known and free of
\* cycles, and what it returns puts every step after those it needs
\* (agent/pipeline/dag.go).
THEOREM PlannerIsCorrect ==
  ASSUME NEW X, NEW steps \in Seq(X),
         \A i, j \in 1 .. Len(steps) : steps[i] = steps[j] => i = j,
         NEW needs
  PROVE  LET r == ValidateDAG(steps, needs)
         IN  /\ r.ok \in BOOLEAN /\ r.steps \in Seq(X)
             /\ r.ok <=> KnownNeeds(steps, needs) /\ Acyclic(steps, needs)
             /\ r.ok => /\ IsDependencyOrder(r.steps, steps, needs)
                        /\ \A i, j \in 1 .. Len(r.steps) : r.steps[i] = r.steps[j] => i = j
<1>. DEFINE N == Len(steps)
            Names == ToSet(steps)
            w == KahnOrder(steps, needs)
<1>1. CASE ~KnownNeeds(steps, needs)
  BY <1>1 DEF ValidateDAG
<1>2. CASE KnownNeeds(steps, needs)
  <2>1. KahnInv(X, steps, needs, w, N) BY <1>2, KahnHolds
  <2>2. IsFiniteSet(Names) /\ Cardinality(Names) = N /\ N \in Nat BY SeqCount
  <2>. HIDE DEF w, Names
  <2>3. /\ w \in Seq(X) /\ DOMAIN w = 1 .. Len(w) /\ Len(w) \in Nat
        /\ \A i, j \in 1 .. Len(w) : w[i] = w[j] => i = j
        /\ \A s : s \in ToSet(w) <=> s \in Names /\ needs[s] \subseteq Out(w, N)
        /\ \A i \in 1 .. Len(w) : needs[w[i]] \subseteq {w[j] : j \in 1 .. (i - 1)}
    BY <2>1 DEF KahnInv, Names
  <2>4. IsFiniteSet(ToSet(w)) /\ Cardinality(ToSet(w)) = Len(w) BY <2>3, SeqCount
  <2>5. ToSet(w) \in SUBSET Names BY <2>3
  <2>6. Len(w) <= N /\ (Len(w) = N <=> ToSet(w) = Names)
    BY <2>2, <2>4, <2>5, FS_Subset
  <2>7. Out(w, N) = ToSet(w)
    <3>1. {k \in 1 .. N : k \in 1 .. Len(w)} = 1 .. Len(w) BY <2>2, <2>3, <2>6
    <3>. QED BY <2>3, <3>1 DEF Out, ToSet
  <2>8. CASE Len(w) # N
    <3>. DEFINE T == Names \ ToSet(w)
    <3>1. T # {} /\ T \in SUBSET Names BY <2>5, <2>6, <2>8
    <3>2. \A s \in T : needs[s] \cap T # {}
      <4>. SUFFICES ASSUME NEW s \in T PROVE \E d \in needs[s] : d \in T
        OBVIOUS
      <4>1. ~(needs[s] \subseteq ToSet(w)) BY <2>3, <2>7
      <4>2. needs[s] \subseteq Names BY <1>2 DEF KnownNeeds, Names
      <4>. QED BY <4>1, <4>2
    <3>. HIDE DEF T
    <3>3. ~Acyclic(steps, needs) BY <3>1, <3>2 DEF Acyclic, Names
    <3>4. ValidateDAG(steps, needs) = [ok |-> FALSE, steps |-> <<>>]
      BY <1>2, <2>8 DEF ValidateDAG, w
    <3>. QED BY <3>3, <3>4
  <2>9. CASE Len(w) = N
    <3>1. Acyclic(steps, needs)
      <4>. SUFFICES ASSUME NEW T \in SUBSET Names, T # {} PROVE \E s \in T : needs[s] \cap T = {}
        BY DEF Acyclic, Names
      <4>. DEFINE I == {i \in 1 .. Len(w) : w[i] \in T}
      <4>1. I \in SUBSET Nat /\ I # {}
        <5>1. PICK t \in T : t \in ToSet(w) BY <2>6, <2>9
        <5>2. PICK i \in 1 .. Len(w) : t = w[i] BY <2>3, <5>1 DEF ToSet
        <5>. QED BY <5>2
      <4>2. PICK i \in I : \A j \in I : i <= j
        <5>. HIDE DEF I
        <5>. QED BY <4>1, Least
      <4>3. \A j \in 1 .. (i - 1) : w[j] \notin T
        <5>1. \A j \in 1 .. (i - 1) : j \in 1 .. Len(w) /\ ~(i <= j) BY <2>3
        <5>. QED BY <4>2, <5>1
      <4>4. needs[w[i]] \subseteq {w[j] : j \in 1 .. (i - 1)} BY <2>3
      <4>. QED BY <4>3, <4>4
    <3>2. IsDependencyOrder(w, steps, needs)
      BY <2>3, <2>6, <2>9 DEF IsDependencyOrder, Names
    <3>3. ValidateDAG(steps, needs) = [ok |-> TRUE, steps |-> w]
      BY <1>2, <2>9 DEF ValidateDAG, w
    <3>. QED BY <1>2, <2>3, <3>1, <3>2, <3>3
  <2>. QED BY <2>8, <2>9
<1>. QED BY <1>1, <1>2

-----------------------------------------------------------------------------
(* Types, with what they rest on: the loop stays inside its phase, and no   *)
(* line or event has an id that the log has not given out.                  *)

Placed ==
  /\ pos >= 1
  /\ pc = "tasks" => pos <= Len(plan[phase])

LinesKnown == \A s \in Steps, i \in 1 .. MaxTasks : task[s][i].line <= logs

EventsKnown ==
  \A v \in Viewers : \A k \in 1 .. Len(sub[v].chan) :
    sub[v].chan[k].kind = "log" => sub[v].chan[k].id \in 1 .. logs

TypeInv == TypeOK /\ Placed /\ LinesKnown /\ EventsKnown

\* The types of the engine, of the store, of the hub and of the consoles.
EngineType ==
  /\ pipe \in Pipelines /\ rollback \in BOOLEAN
  /\ plan \in [Phases -> Seq(Steps)]
  /\ pc \in Pcs
  /\ phase \in Phases /\ pos \in Nat /\ from \in Nat
  /\ step \in [Steps -> StepStatus]
  /\ task \in [Steps -> [1 .. MaxTasks -> Task]]
  /\ status \in RunStatus
  /\ phaseErr \in BOOLEAN /\ buildFailed \in BOOLEAN /\ runErr \in BOOLEAN

StoreType == saved \in RunStatus /\ logs \in 0 .. MaxLogs /\ faults \in 0 .. MaxFaults

HubType ==
  /\ sub \in [Viewers -> Subscriber]
  /\ \A v \in Viewers : Len(sub[v].chan) <= Buffer
  /\ EventsKnown

TaskType == Placed /\ LinesKnown

ViewType == viewer \in [Viewers -> Console]

LEMMA TypeParts ==
  /\ TypeInv <=> EngineType /\ StoreType /\ HubType /\ TaskType /\ ViewType
  /\ TypeInv' <=> EngineType' /\ StoreType' /\ HubType' /\ TaskType' /\ ViewType'
  BY DEF TypeInv, TypeOK, EngineType, StoreType, HubType, TaskType, ViewType

LEMMA StoreCallType ==
  ASSUME StoreType, NEW ok \in BOOLEAN, StoreCall(ok)
  PROVE  faults' \in 0 .. MaxFaults
  BY RunConstants DEF StoreType, StoreCall, Fault

LEMMA SendType ==
  ASSUME NEW b \in Subscriber, Len(b.chan) <= Buffer, NEW e \in Event, NEW n \in Nat,
         e.kind = "log" => e.id \in 1 .. n,
         \A k \in 1 .. Len(b.chan) : b.chan[k].kind = "log" => b.chan[k].id \in 1 .. n
  PROVE  LET c == Send(b, e)
         IN  /\ c \in Subscriber /\ Len(c.chan) <= Buffer
             /\ \A k \in 1 .. Len(c.chan) : c.chan[k].kind = "log" => c.chan[k].id \in 1 .. n
<1>. Buffer \in Nat BY RunConstants
<1>1. CASE Len(b.chan) < Buffer
  <2>. DEFINE q == Append(b.chan, e)
  <2>1. Send(b, e) = [b EXCEPT !.chan = q] BY <1>1 DEF Send
  <2>2. /\ q \in Seq(Event) /\ Len(q) = Len(b.chan) + 1 /\ Len(b.chan) \in Nat
        /\ \A k \in 1 .. Len(b.chan) : q[k] = b.chan[k]
        /\ q[Len(b.chan) + 1] = e
    BY DEF Subscriber
  <2>3. \A k \in 1 .. Len(q) : k \in 1 .. Len(b.chan) \/ k = Len(b.chan) + 1 BY <2>2
  <2>4. \A k \in 1 .. Len(q) : q[k].kind = "log" => q[k].id \in 1 .. n BY <2>2, <2>3
  <2>. HIDE DEF q
  <2>. QED BY <1>1, <2>1, <2>2, <2>4 DEF Subscriber
<1>2. CASE ~(Len(b.chan) < Buffer) BY <1>2 DEF Send, Subscriber
<1>. QED BY <1>1, <1>2

LEMMA BroadcastType ==
  ASSUME HubType, StoreType, NEW e \in Event, e.kind = "log" => e.id \in 1 .. logs,
         Broadcast(e), logs' = logs
  PROVE  HubType'
<1>. logs \in Nat BY RunConstants DEF StoreType
<1>1. ASSUME NEW v \in Viewers
      PROVE  /\ sub'[v] \in Subscriber /\ Len(sub'[v].chan) <= Buffer
             /\ \A k \in 1 .. Len(sub'[v].chan) :
                  sub'[v].chan[k].kind = "log" => sub'[v].chan[k].id \in 1 .. logs
  <2>1. /\ sub[v] \in Subscriber /\ Len(sub[v].chan) <= Buffer
        /\ \A k \in 1 .. Len(sub[v].chan) :
             sub[v].chan[k].kind = "log" => sub[v].chan[k].id \in 1 .. logs
    BY DEF HubType, EventsKnown
  <2>2. sub'[v] = sub[v] \/ sub'[v] = Send(sub[v], e) BY DEF Broadcast
  <2>. QED BY <2>1, <2>2, SendType
<1>2. sub' = [v \in Viewers |-> sub'[v]] BY DEF Broadcast
<1>. QED BY <1>1, <1>2 DEF HubType, EventsKnown

LEMMA NotifyType ==
  ASSUME HubType, StoreType, NEW st \in RunStatus, NEW ok \in BOOLEAN, Notify(st, ok),
         logs' = logs
  PROVE  HubType' /\ StoreType'
<1>1. StatusEvent \in Event /\ StatusEvent.kind # "log" BY DEF StatusEvent, Event
<1>2. HubType' BY <1>1, BroadcastType DEF Notify
<1>3. StoreType' BY StoreCallType DEF Notify, StoreType
<1>. QED BY <1>2, <1>3

LEMMA PlannedType ==
  ASSUME NEW p \in Phases
  PROVE  /\ Planned(p).steps \in Seq(Steps)
         /\ Planned(p).ok <=> KnownNeeds(Declared[p], pipe.needs) /\ Acyclic(Declared[p], pipe.needs)
         /\ Planned(p).ok =>
              /\ IsDependencyOrder(Planned(p).steps, Declared[p], pipe.needs)
              /\ \A i, j \in 1 .. Len(Planned(p).steps) :
                   Planned(p).steps[i] = Planned(p).steps[j] => i = j
<1>. DEFINE d == Declared[p]
<1>1. d \in Seq(Steps) BY RunConstants
<1>2. \A i, j \in 1 .. Len(d) : d[i] = d[j] => i = j BY <1>1, RunConstants
<1>. HIDE DEF d
<1>3. Planned(p) = ValidateDAG(d, pipe.needs) BY DEF Planned, d
<1>. QED BY <1>1, <1>2, <1>3, PlannerIsCorrect DEF d

LEMMA SkipType ==
  ASSUME EngineType, LinesKnown, NEW s \in Steps
  PROVE  /\ SkipTasks(s) \in [1 .. MaxTasks -> Task]
         /\ \A i \in 1 .. MaxTasks : SkipTasks(s)[i].line = task[s][i].line
<1>1. \A i \in 1 .. MaxTasks : task[s][i] \in Task BY DEF EngineType
<1>2. \A i \in 1 .. MaxTasks : /\ [task[s][i] EXCEPT !.status = "skipped"] \in Task
                               /\ [task[s][i] EXCEPT !.status = "skipped"].line = task[s][i].line
  BY <1>1 DEF Task, StepStatus
<1>. QED BY <1>2 DEF SkipTasks

LEMMA SkipPhaseType ==
  ASSUME EngineType, LinesKnown, NEW p \in Phases, skipPhase(p), logs' = logs
  PROVE  /\ step' \in [Steps -> StepStatus]
         /\ task' \in [Steps -> [1 .. MaxTasks -> Task]]
         /\ LinesKnown'
<1>1. step' \in [Steps -> StepStatus]
  BY DEF skipPhase, EngineType, StepStatus
<1>2. \A s \in Steps : /\ task'[s] \in [1 .. MaxTasks -> Task]
                       /\ \A i \in 1 .. MaxTasks : task'[s][i].line = task[s][i].line
  <2>. SUFFICES ASSUME NEW s \in Steps
                PROVE  /\ task'[s] \in [1 .. MaxTasks -> Task]
                       /\ \A i \in 1 .. MaxTasks : task'[s][i].line = task[s][i].line
    OBVIOUS
  <2>1. task'[s] = SkipTasks(s) \/ task'[s] = task[s] BY DEF skipPhase
  <2>2. task[s] \in [1 .. MaxTasks -> Task] BY DEF EngineType
  <2>. QED BY <2>1, <2>2, SkipType
<1>3. task' = [s \in Steps |-> task'[s]] BY DEF skipPhase
<1>4. task' \in [Steps -> [1 .. MaxTasks -> Task]] BY <1>2, <1>3
<1>5. LinesKnown' BY <1>2 DEF LinesKnown
<1>. QED BY <1>1, <1>4, <1>5

\* One task is given another record.
LEMMA SetTaskType ==
  ASSUME EngineType, LinesKnown, Current \in Steps, NEW i \in 1 .. MaxTasks, NEW t \in Task,
         t.line <= logs', SetTask(i, t), logs <= logs', StoreType, StoreType'
  PROVE  /\ task' \in [Steps -> [1 .. MaxTasks -> Task]]
         /\ LinesKnown'
<1>. DEFINE c == Current
            f == [task[c] EXCEPT ![i] = t]
<1>1. task' = [task EXCEPT ![c] = f] BY DEF SetTask, EngineType
<1>2. task[c] \in [1 .. MaxTasks -> Task] BY DEF EngineType
<1>3. f \in [1 .. MaxTasks -> Task] BY <1>2
<1>4. \A j \in 1 .. MaxTasks : f[j] = IF j = i THEN t ELSE task[c][j] BY <1>2
<1>. HIDE DEF c, f
<1>5. task' \in [Steps -> [1 .. MaxTasks -> Task]] BY <1>1, <1>3 DEF EngineType, c
<1>6. \A s \in Steps : task'[s] = IF s = c THEN f ELSE task[s] BY <1>1 DEF EngineType
<1>7. \A s \in Steps, j \in 1 .. MaxTasks : task[s][j].line \in Nat
  BY DEF EngineType, Task
<1>8. logs \in Nat /\ logs' \in Nat BY RunConstants DEF StoreType
<1>9. \A s \in Steps, j \in 1 .. MaxTasks : task[s][j].line <= logs'
  BY <1>7, <1>8 DEF LinesKnown
<1>10. \A s \in Steps, j \in 1 .. MaxTasks : task'[s][j] = t \/ task'[s][j] = task[s][j]
  BY <1>4, <1>6
<1>. QED BY <1>5, <1>9, <1>10 DEF LinesKnown

LEMMA CurrentType ==
  ASSUME EngineType, Placed, pc = "tasks" \/ AtStep
  PROVE  Current \in Steps /\ pos \in 1 .. Len(plan[phase]) /\ Current = plan[phase][pos]
<1>1. plan[phase] \in Seq(Steps) BY DEF EngineType
<1>2. pos \in 1 .. Len(plan[phase]) BY <1>1 DEF EngineType, Placed, AtStep
<1>. QED BY <1>1, <1>2 DEF Current

LEMMA BatchType ==
  ASSUME EngineType, Placed, NEW i, InBatch(i)
  PROVE  /\ Current \in Steps /\ pc = "tasks" /\ i \in 1 .. pipe.tasks[Current]
         /\ i \in 1 .. MaxTasks /\ pipe.tasks[Current] \in 0 .. MaxTasks
         /\ from <= i /\ i < from + pipe.width[Current] /\ pipe.width[Current] \in Nat \ {0}
         /\ pipe.retries[Current] \in Nat
         /\ task[Current][i] \in Task
<1>1. pc = "tasks" /\ i \in Batch(Current) BY DEF InBatch
<1>2. Current \in Steps BY <1>1, CurrentType
<1>3. /\ pipe.tasks[Current] \in 0 .. MaxTasks /\ pipe.width[Current] \in Nat \ {0}
      /\ pipe.retries[Current] \in Nat
  BY <1>2, RunConstants DEF EngineType, Pipeline
<1>4. i \in 1 .. pipe.tasks[Current] /\ from <= i /\ i < from + pipe.width[Current]
  BY <1>1 DEF Batch
<1>5. i \in 1 .. MaxTasks BY <1>3, <1>4, RunConstants
<1>. QED BY <1>1, <1>2, <1>3, <1>4, <1>5 DEF EngineType

LEMMA TypeInit == Init => TypeInv
<1>. SUFFICES ASSUME Init PROVE TypeInv
  OBVIOUS
<1>. USE RunConstants
<1>1. EngineType
  <2>1. NoTask \in Task BY DEF NoTask, Task, StepStatus
  <2>2. <<>> \in Seq(Steps) OBVIOUS
  <2>3. "build" \in Phases BY DEF Phases
  <2>. QED BY <2>1, <2>2, <2>3 DEF Init, EngineType, Pcs, StepStatus, RunStatus
<1>2. StoreType BY DEF Init, StoreType, RunStatus
<1>3. HubType BY DEF Init, HubType, Absent, Subscriber, EventsKnown
<1>4. TaskType BY DEF Init, TaskType, Placed, LinesKnown, NoTask
<1>5. ViewType
  <2>1. [pc |-> "off", read |-> "none", seen |-> {}, end |-> "none"] \in Console
    BY DEF Console, RunStatus
  <2>. QED BY <2>1 DEF Init, ViewType
<1>. QED BY <1>1, <1>2, <1>3, <1>4, <1>5, TypeParts

\* The steps of the run's goroutine, outside its tasks.
LEMMA TypeControl ==
  ASSUME TypeInv, NEW ok \in BOOLEAN,
         \/ Prepare(ok) \/ StartRollback(ok) \/ SkipDeploy(ok) \/ RestoreFails(ok)
         \/ SettleStep(ok) \/ FinishStep(ok) \/ EndFinally(ok) \/ FinalSave(ok)
         \/ \E registered \in BOOLEAN : AfterBuild(registered, ok)
  PROVE  TypeInv'
<1>. USE RunConstants
<1>0. EngineType /\ StoreType /\ HubType /\ TaskType /\ Placed /\ LinesKnown /\ ViewType
  BY TypeParts DEF TaskType
<1>p. "build" \in Phases /\ "deploy" \in Phases /\ "finally" \in Phases BY DEF Phases
<1>s. status \in RunStatus /\ \A p \in Phases : plan[p] \in Seq(Steps)
  BY <1>0 DEF EngineType
<1>. USE DEF EnterPhase, Pcs
<1>1. CASE Prepare(ok)
  <2>1. plan' \in [Phases -> Seq(Steps)] BY <1>1, PlannedType DEF Prepare
  <2>2. EngineType'
    BY <1>0, <1>1, <2>1 DEF Prepare, EngineType, RunStatus
  <2>3. StoreType' BY <1>0, <1>1, StoreCallType DEF Prepare, StoreType, RunStatus
  <2>4. HubType' BY <1>0, <1>1 DEF Prepare, HubType, EventsKnown
  <2>5. TaskType' BY <1>0, <1>1 DEF Prepare, TaskType, Placed, LinesKnown
  <2>6. ViewType' BY <1>0, <1>1 DEF Prepare, ViewType
  <2>. QED BY <2>2, <2>3, <2>4, <2>5, <2>6, TypeParts
<1>2. CASE StartRollback(ok)
  <2>1. /\ step' \in [Steps -> StepStatus] /\ task' \in [Steps -> [1 .. MaxTasks -> Task]]
        /\ LinesKnown'
    BY <1>0, <1>2, <1>p, SkipPhaseType DEF StartRollback
  <2>2. EngineType' BY <1>0, <1>2, <2>1 DEF StartRollback, EngineType
  <2>3. HubType' /\ StoreType' BY <1>0, <1>2, <1>s, NotifyType DEF StartRollback
  <2>4. TaskType' BY <1>0, <1>2, <2>1 DEF StartRollback, TaskType, Placed
  <2>5. ViewType' BY <1>0, <1>2 DEF StartRollback, ViewType
  <2>. QED BY <2>2, <2>3, <2>4, <2>5, TypeParts
<1>3. CASE SkipDeploy(ok)
  <2>1. /\ step' \in [Steps -> StepStatus] /\ task' \in [Steps -> [1 .. MaxTasks -> Task]]
        /\ LinesKnown'
    BY <1>0, <1>3, <1>p, SkipPhaseType DEF SkipDeploy
  <2>2. EngineType' BY <1>0, <1>3, <1>p, <2>1 DEF SkipDeploy, EngineType
  <2>3. HubType' /\ StoreType' BY <1>0, <1>3, <1>s, NotifyType DEF SkipDeploy
  <2>4. TaskType' BY <1>0, <1>3, <2>1 DEF SkipDeploy, TaskType, Placed
  <2>5. ViewType' BY <1>0, <1>3 DEF SkipDeploy, ViewType
  <2>. QED BY <2>2, <2>3, <2>4, <2>5, TypeParts
<1>4. CASE RestoreFails(ok)
  <2>1. /\ step' \in [Steps -> StepStatus] /\ task' \in [Steps -> [1 .. MaxTasks -> Task]]
        /\ LinesKnown'
    BY <1>0, <1>4, <1>p, SkipPhaseType DEF RestoreFails
  <2>2. EngineType' BY <1>0, <1>4, <1>p, <2>1 DEF RestoreFails, EngineType
  <2>3. HubType' /\ StoreType' BY <1>0, <1>4, <1>s, NotifyType DEF RestoreFails
  <2>4. TaskType' BY <1>0, <1>4, <2>1 DEF RestoreFails, TaskType, Placed
  <2>5. ViewType' BY <1>0, <1>4 DEF RestoreFails, ViewType
  <2>. QED BY <2>2, <2>3, <2>4, <2>5, TypeParts
<1>5. CASE SettleStep(ok)
  <2>. DEFINE s == Current
              v == Verdict(s)
              b == (v = "failed")
  <2>1. s \in Steps /\ pos \in 1 .. Len(plan[phase]) /\ pos \in Nat
    BY <1>0, <1>5, CurrentType DEF SettleStep, EngineType
  <2>2. v # "execute" /\ v \in StepStatus
    BY <1>5 DEF SettleStep, Verdict, StepStatus
  <2>. HIDE DEF v, s
  <2>3. /\ step' = [step EXCEPT ![s] = v] /\ pos' = pos + 1
        /\ task' = IF v = "skipped" THEN [task EXCEPT ![s] = SkipTasks(s)] ELSE task
        /\ phaseErr' = (phaseErr \/ b)
    BY <1>5 DEF SettleStep, s, v
  <2>4. task' \in [Steps -> [1 .. MaxTasks -> Task]] /\ LinesKnown'
    <3>1. SkipTasks(s) \in [1 .. MaxTasks -> Task] /\ \A i \in 1 .. MaxTasks : SkipTasks(s)[i].line = task[s][i].line
      BY <1>0, <2>1, SkipType
    <3>2. task \in [Steps -> [1 .. MaxTasks -> Task]] BY <1>0 DEF EngineType
    <3>3. logs' = logs BY <1>5 DEF SettleStep
    <3>4. \A r \in Steps : task'[r] = task[r] \/ (r = s /\ task'[r] = SkipTasks(s))
      BY <2>1, <2>3, <3>2
    <3>5. \A r \in Steps : \A i \in 1 .. MaxTasks : task'[r][i].line = task[r][i].line
      BY <3>1, <3>4
    <3>. QED BY <1>0, <2>1, <2>3, <3>1, <3>2, <3>3, <3>5 DEF LinesKnown
  <2>5. EngineType'
    <3>1. step' \in [Steps -> StepStatus] /\ pos' \in Nat
      BY <1>0, <2>1, <2>2, <2>3 DEF EngineType
    <3>2. phaseErr' \in BOOLEAN BY <1>0, <2>3 DEF EngineType
    <3>. QED BY <1>0, <1>5, <2>4, <3>1, <3>2 DEF SettleStep, EngineType
  <2>6. HubType' /\ StoreType' BY <1>0, <1>5, <1>s, NotifyType DEF SettleStep
  <2>7. TaskType'
    <3>1. pc' = "step" BY <1>5 DEF SettleStep, AtStep
    <3>. QED BY <2>1, <2>3, <2>4, <3>1 DEF TaskType, Placed
  <2>8. ViewType' BY <1>0, <1>5 DEF SettleStep, ViewType
  <2>. QED BY <2>5, <2>6, <2>7, <2>8, TypeParts
<1>6. CASE FinishStep(ok)
  <2>. DEFINE r == IF BatchFailed THEN "failed" ELSE "success"
  <2>1. Current \in Steps /\ pos \in Nat /\ r \in StepStatus
    BY <1>0, <1>6, CurrentType DEF FinishStep, BatchDone, EngineType, StepStatus
  <2>2. step' = [step EXCEPT ![Current] = r] BY <1>6 DEF FinishStep
  <2>. HIDE DEF r
  <2>3. step' \in [Steps -> StepStatus] BY <1>0, <2>1, <2>2 DEF EngineType
  <2>4. phaseErr' \in BOOLEAN BY <1>6 DEF FinishStep
  <2>5. EngineType' BY <1>0, <1>6, <2>1, <2>3, <2>4 DEF FinishStep, EngineType
  <2>6. HubType' /\ StoreType' BY <1>0, <1>6, <1>s, NotifyType DEF FinishStep
  <2>7. TaskType' BY <1>0, <1>6, <2>1 DEF FinishStep, TaskType, Placed, LinesKnown
  <2>8. ViewType' BY <1>0, <1>6 DEF FinishStep, ViewType
  <2>. QED BY <2>5, <2>6, <2>7, <2>8, TypeParts
<1>7. CASE EndFinally(ok)
  <2>1. status' \in RunStatus BY <1>7 DEF EndFinally, RunStatus
  <2>2. runErr' \in BOOLEAN BY <1>7 DEF EndFinally, RunFailed
  <2>3. EngineType' BY <1>0, <1>7, <2>1, <2>2 DEF EndFinally, EngineType
  <2>4. HubType' /\ StoreType' BY <1>0, <1>7, <2>1, NotifyType DEF EndFinally
  <2>5. TaskType' BY <1>0, <1>7 DEF EndFinally, TaskType, Placed, LinesKnown
  <2>6. ViewType' BY <1>0, <1>7 DEF EndFinally, ViewType
  <2>. QED BY <2>3, <2>4, <2>5, <2>6, TypeParts
<1>8. CASE FinalSave(ok)
  <2>1. EngineType' BY <1>0, <1>8 DEF FinalSave, EngineType, engineVars
  <2>2. StoreType' BY <1>0, <1>8, <1>s, StoreCallType DEF FinalSave, StoreType
  <2>3. HubType' BY <1>0, <1>8 DEF FinalSave, HubType, EventsKnown
  <2>4. TaskType' BY <1>0, <1>8 DEF FinalSave, TaskType, Placed, LinesKnown, engineVars
  <2>5. ViewType' BY <1>0, <1>8 DEF FinalSave, ViewType
  <2>. QED BY <2>1, <2>2, <2>3, <2>4, <2>5, TypeParts
<1>9. ASSUME NEW registered \in BOOLEAN, AfterBuild(registered, ok) PROVE TypeInv'
  <2>1. EngineType'
    <3>1. CASE registered
      <4>1. /\ pc' = "step" /\ phase' = "deploy" /\ pos' = 1 /\ phaseErr' = FALSE
            /\ UNCHANGED <<buildFailed, runErr, pipe, rollback, plan, from, step, task, status>>
        BY <1>9, <3>1 DEF AfterBuild
      <4>. QED BY <1>0, <1>p, <4>1 DEF EngineType
    <3>2. CASE ~registered BY <1>0, <1>9, <1>p, <3>2 DEF AfterBuild, EngineType
    <3>. QED BY <3>1, <3>2
  <2>2. HubType' /\ StoreType' BY <1>0, <1>9, <1>s, NotifyType DEF AfterBuild
  <2>3. TaskType' BY <1>0, <1>9 DEF AfterBuild, TaskType, Placed, LinesKnown
  <2>4. ViewType' BY <1>0, <1>9 DEF AfterBuild, ViewType
  <2>. QED BY <2>1, <2>2, <2>3, <2>4, TypeParts
<1>. QED BY <1>1, <1>2, <1>3, <1>4, <1>5, <1>6, <1>7, <1>8, <1>9

LEMMA TypeMove ==
  ASSUME TypeInv,
         \/ Refuse \/ StartFails \/ StartBuild \/ EndBuild \/ RestoreArtifact \/ EndDeploy
         \/ ExecuteStep \/ NextBatch \/ BroadcastDone \/ Close \/ Crash
  PROVE  TypeInv'
<1>. USE RunConstants
<1>0. EngineType /\ StoreType /\ HubType /\ TaskType /\ Placed /\ LinesKnown /\ ViewType
  BY TypeParts DEF TaskType
<1>p. "build" \in Phases /\ "deploy" \in Phases /\ "finally" \in Phases BY DEF Phases
<1>1. CASE Refuse \/ StartFails \/ StartBuild \/ EndBuild \/ RestoreArtifact \/ EndDeploy
  <2>. USE DEF Refuse, StartFails, StartBuild, EndBuild, RestoreArtifact, EndDeploy, EnterPhase,
               engineVars
  <2>1. EngineType'
    <3>. USE DEF Pcs, EngineType, RunStatus
    <3>1. CASE Refuse BY <1>0, <3>1
    <3>5. CASE StartFails BY <1>0, <3>5
    <3>6. CASE StartBuild BY <1>0, <3>6, <1>p
    <3>2. CASE EndBuild BY <1>0, <3>2
    <3>3. CASE RestoreArtifact BY <1>0, <3>3, <1>p
    <3>4. CASE EndDeploy
      <4>1. runErr' \in BOOLEAN BY <3>4
      <4>2. status' \in RunStatus BY <1>0, <3>4
      <4>. QED BY <1>0, <3>4, <1>p, <4>1, <4>2
    <3>. QED BY <1>1, <3>1, <3>2, <3>3, <3>4, <3>5, <3>6
  <2>2. UNCHANGED <<saved, logs, faults, sub, viewer, task>> BY <1>1
  <2>3. pos' >= 1 /\ pc' # "tasks"
    BY <1>0, <1>1 DEF EngineType, Placed
  <2>4. StoreType' /\ HubType' /\ ViewType'
    BY <1>0, <2>2 DEF StoreType, HubType, ViewType, EventsKnown
  <2>5. TaskType' BY <1>0, <2>2, <2>3 DEF TaskType, Placed, LinesKnown
  <2>. QED BY <2>1, <2>4, <2>5, TypeParts
<1>2. CASE ExecuteStep \/ NextBatch
  <2>. USE DEF ExecuteStep, NextBatch
  <2>1. Current \in Steps /\ pos \in 1 .. Len(plan[phase])
    BY <1>0, <1>2, CurrentType DEF BatchDone
  <2>2. pipe.width[Current] \in Nat
    BY <1>0, <2>1, RunConstants DEF EngineType, Pipeline
  <2>3. step' \in [Steps -> StepStatus] /\ from' \in Nat /\ pc' = "tasks"
    <3>1. step \in [Steps -> StepStatus] /\ from \in Nat /\ "running" \in StepStatus
      BY <1>0 DEF EngineType, StepStatus
    <3>2. CASE ExecuteStep
      <4>1. step' = [step EXCEPT ![Current] = "running"] /\ from' = 1 /\ pc' = "tasks" BY <3>2
      <4>. QED BY <2>1, <3>1, <4>1
    <3>3. CASE NextBatch
      <4>1. step' = step /\ from' = from + pipe.width[Current] /\ pc' = "tasks"
        BY <3>3 DEF BatchDone
      <4>. QED BY <2>2, <3>1, <4>1
    <3>. QED BY <1>2, <3>2, <3>3
  <2>4. UNCHANGED <<pipe, rollback, plan, phase, pos, task, status, phaseErr, buildFailed, runErr,
                    saved, logs, faults, sub, viewer>>
    BY <1>2
  <2>5. EngineType' BY <1>0, <2>3, <2>4 DEF EngineType, Pcs
  <2>6. StoreType' /\ HubType' /\ ViewType'
    BY <1>0, <2>4 DEF StoreType, HubType, ViewType, EventsKnown
  <2>7. TaskType' BY <1>0, <2>1, <2>4 DEF TaskType, Placed, LinesKnown
  <2>. QED BY <2>5, <2>6, <2>7, TypeParts
<1>3. CASE BroadcastDone
  <2>1. EngineType' /\ StoreType' /\ TaskType' /\ ViewType'
    BY <1>0, <1>3 DEF BroadcastDone, EngineType, StoreType, TaskType, ViewType, Placed, LinesKnown,
       engineVars, Pcs
  <2>2. [kind |-> "done", id |-> 0] \in Event BY DEF Event
  <2>3. HubType' BY <1>0, <1>3, <2>2, BroadcastType DEF BroadcastDone
  <2>. QED BY <2>1, <2>3, TypeParts
<1>4. CASE Close
  <2>1. EngineType' /\ StoreType' /\ TaskType' /\ ViewType'
    BY <1>0, <1>4 DEF Close, EngineType, StoreType, TaskType, ViewType, Placed, LinesKnown,
       engineVars, Pcs
  <2>2. \A v \in Viewers : sub'[v] \in Subscriber /\ sub'[v].chan = sub[v].chan
    BY <1>0, <1>4 DEF Close, CloseSubscribers, HubType, Subscriber
  <2>3. sub' = [v \in Viewers |-> sub'[v]] BY <1>4 DEF Close, CloseSubscribers
  <2>4. sub' \in [Viewers -> Subscriber] BY <2>2, <2>3
  <2>5. logs' = logs BY <1>4 DEF Close
  <2>6. HubType' BY <1>0, <2>2, <2>4, <2>5 DEF HubType, EventsKnown
  <2>. QED BY <2>1, <2>6, TypeParts
<1>5. CASE Crash
  <2>1. EngineType' /\ TaskType'
    BY <1>0, <1>5 DEF Crash, EngineType, TaskType, Placed, LinesKnown, engineVars, Pcs
  <2>2. StoreType'
    <3>1. faults < MaxFaults /\ faults' = faults + 1 /\ saved' = saved /\ logs' = logs
      BY <1>5 DEF Crash, Fault
    <3>. QED BY <1>0, <3>1 DEF StoreType
  <2>3. HubType'
    <3>1. sub' = [v \in Viewers |-> Absent] BY <1>5 DEF Crash
    <3>2. Absent \in Subscriber /\ Len(Absent.chan) = 0 BY DEF Absent, Subscriber
    <3>3. \A v \in Viewers : sub'[v] = Absent BY <3>1
    <3>4. sub' \in [Viewers -> Subscriber] BY <3>1, <3>2
    <3>. QED BY <3>2, <3>3, <3>4 DEF HubType, EventsKnown
  <2>4. ViewType'
    <3>1. \A v \in Viewers : viewer'[v] \in Console
      BY ZenonT(30), <1>0, <1>5 DEF Crash, ViewType, Console
    <3>2. viewer' = [v \in Viewers |-> viewer'[v]] BY <1>5 DEF Crash
    <3>. QED BY <3>1, <3>2 DEF ViewType
  <2>. QED BY <2>1, <2>2, <2>3, <2>4, TypeParts
<1>. QED BY <1>1, <1>2, <1>3, <1>4, <1>5

LEMMA TypeTask ==
  ASSUME TypeInv, NEW i \in 1 .. MaxTasks, TaskStep(i)
  PROVE  TypeInv'
<1>. USE RunConstants
<1>. DEFINE t == task[Current][i]
<1>0. EngineType /\ StoreType /\ HubType /\ TaskType /\ Placed /\ LinesKnown /\ ViewType
  BY TypeParts DEF TaskType
<1>1. InBatch(i)
  BY DEF TaskStep, PluginStep, StartTask, AppendLine, AppendFails, BroadcastLine, AttemptSucceeds,
     AttemptFails, Panic, Running
<1>2. /\ Current \in Steps /\ pc = "tasks" /\ t \in Task /\ t.attempts \in Nat /\ t.line \in Nat
      /\ t.line <= logs /\ logs \in Nat
  BY <1>0, <1>1, BatchType DEF Task, LinesKnown, StoreType
<1>. HIDE DEF t
<1>3. StatusEvent \in Event /\ StatusEvent.kind # "log" BY DEF StatusEvent, Event
<1>4. CASE StartTask(i) \/ AppendLine(i) \/ BroadcastLine(i) \/ AttemptSucceeds(i) \/ AttemptFails(i)
  <2>1. PICK u \in Task : SetTask(i, u) /\ u.line <= logs'
    <3>1. CASE StartTask(i)
      <4>1. [t EXCEPT !.status = "running"] \in Task /\ [t EXCEPT !.status = "running"].line <= logs
        BY <1>2 DEF Task, StepStatus
      <4>. QED BY <3>1, <4>1 DEF StartTask, t
    <3>2. CASE AppendLine(i)
      <4>1. PICK n \in Nat : n = logs + 1 /\ n <= logs' BY <1>2, <3>2 DEF AppendLine
      <4>2. [t EXCEPT !.line = n] \in Task /\ [t EXCEPT !.line = n].line <= logs'
        BY <1>2, <4>1 DEF Task
      <4>. QED BY <3>2, <4>1, <4>2 DEF AppendLine, t
    <3>3. CASE BroadcastLine(i)
      <4>1. [t EXCEPT !.line = 0] \in Task /\ [t EXCEPT !.line = 0].line = 0
        BY <1>2 DEF Task
      <4>2. logs' = logs /\ 0 <= logs BY <1>2, <3>3 DEF BroadcastLine
      <4>. QED BY <3>3, <4>1, <4>2 DEF BroadcastLine, t
    <3>4. CASE AttemptSucceeds(i)
      <4>1. PICK n \in Nat : n = t.attempts + 1 BY <1>2
      <4>2. [status |-> "success", attempts |-> n, line |-> 0] \in Task BY DEF Task, StepStatus
      <4>. QED BY <1>2, <3>4, <4>1, <4>2 DEF AttemptSucceeds, t
    <3>5. CASE AttemptFails(i)
      <4>1. PICK n \in Nat : n = t.attempts + 1 BY <1>2
      <4>2. [status |-> "failed", attempts |-> n, line |-> 0] \in Task BY DEF Task, StepStatus
      <4>3. [t EXCEPT !.attempts = n] \in Task /\ [t EXCEPT !.attempts = n].line <= logs
        BY <1>2 DEF Task
      <4>4. \/ SetTask(i, [status |-> "failed", attempts |-> n, line |-> 0])
            \/ SetTask(i, [t EXCEPT !.attempts = n])
        BY <3>5, <4>1 DEF AttemptFails, t
      <4>5. logs' = logs BY <3>5 DEF AttemptFails
      <4>6. CASE SetTask(i, [t EXCEPT !.attempts = n]) BY <4>3, <4>5, <4>6
      <4>7. CASE SetTask(i, [status |-> "failed", attempts |-> n, line |-> 0])
        BY <1>2, <4>2, <4>5, <4>7
      <4>. QED BY <4>4, <4>6, <4>7
    <3>. QED BY <1>4, <3>1, <3>2, <3>3, <3>4, <3>5
  <2>2. /\ UNCHANGED <<pipe, rollback, plan, pc, phase, pos, from, step, status, phaseErr,
                       buildFailed, runErr, saved, faults, viewer>>
        /\ logs' = logs \/ (logs' = logs + 1 /\ logs < MaxLogs)
    BY <1>4 DEF StartTask, AppendLine, BroadcastLine, AttemptSucceeds, AttemptFails
  <2>3. StoreType' /\ ViewType' BY <1>0, <1>2, <2>2 DEF StoreType, ViewType
  <2>4. logs <= logs' BY <1>2, <2>2
  <2>5. task' \in [Steps -> [1 .. MaxTasks -> Task]] /\ LinesKnown'
    BY <1>0, <1>2, <2>1, <2>3, <2>4, SetTaskType
  <2>6. EngineType' BY <1>0, <2>2, <2>5 DEF EngineType
  <2>7. TaskType' BY <1>0, <2>2, <2>5 DEF TaskType, Placed
  <2>8. HubType'
    <3>1. CASE StartTask(i) BY <1>0, <1>3, <3>1, BroadcastType DEF StartTask
    <3>2. CASE AppendLine(i)
      <4>1. \A k : k \in 1 .. logs => k \in 1 .. logs' BY <1>2, <2>3, <2>4 DEF StoreType
      <4>2. sub' = sub BY <3>2 DEF AppendLine
      <4>. QED BY <1>0, <4>1, <4>2 DEF HubType, EventsKnown
    <3>3. CASE BroadcastLine(i)
      <4>. DEFINE e == [kind |-> "log", id |-> t.line]
      <4>1. e \in Event /\ e.id \in 1 .. logs
        BY <1>2, <3>3 DEF Event, BroadcastLine, t
      <4>2. Broadcast(e) /\ logs' = logs BY <3>3 DEF BroadcastLine, t
      <4>. HIDE DEF e
      <4>. QED BY <1>0, <4>1, <4>2, BroadcastType
    <3>4. CASE AttemptSucceeds(i) BY <1>0, <1>3, <3>4, BroadcastType DEF AttemptSucceeds
    <3>5. CASE AttemptFails(i)
      <4>1. logs' = logs /\ (UNCHANGED sub \/ Broadcast(StatusEvent)) BY <3>5 DEF AttemptFails
      <4>2. CASE UNCHANGED sub BY <1>0, <4>1, <4>2 DEF HubType, EventsKnown
      <4>. QED BY <1>0, <1>3, <4>1, <4>2, BroadcastType
    <3>. QED BY <1>4, <3>1, <3>2, <3>3, <3>4, <3>5
  <2>. QED BY <2>3, <2>6, <2>7, <2>8, TypeParts
<1>5. CASE AppendFails(i) \/ Panic(i)
  <2>1. EngineType' BY <1>0, <1>5 DEF AppendFails, Panic, EngineType, engineVars, Pcs, RunStatus
  <2>2. StoreType' BY <1>0, <1>5 DEF AppendFails, Panic, Fault, StoreType
  <2>3. HubType' /\ ViewType'
    BY <1>0, <1>5 DEF AppendFails, Panic, HubType, EventsKnown, ViewType
  <2>4. TaskType'
    BY <1>0, <1>5 DEF AppendFails, Panic, TaskType, Placed, LinesKnown, engineVars
  <2>. QED BY <2>1, <2>2, <2>3, <2>4, TypeParts
<1>. QED BY <1>4, <1>5 DEF TaskStep, PluginStep

LEMMA TypeView ==
  ASSUME TypeInv, NEW v \in Viewers, Connect(v) \/ Serve(v) \/ Leave(v)
  PROVE  TypeInv'
<1>. USE RunConstants
<1>0. EngineType /\ StoreType /\ HubType /\ TaskType /\ Placed /\ LinesKnown /\ ViewType
  BY TypeParts DEF TaskType
<1>1. runUnchanged
  BY DEF Connect, Serve, Subscribe, Replay, Receive, ChannelClosed, Leave
<1>2. EngineType' /\ StoreType' /\ TaskType' /\ logs' = logs
  BY <1>0, <1>1 DEF runUnchanged, EngineType, StoreType, TaskType, Placed, LinesKnown, engineVars
<1>3. /\ viewer[v] \in Console /\ sub[v] \in Subscriber /\ Len(sub[v].chan) <= Buffer
      /\ sub \in [Viewers -> Subscriber] /\ viewer \in [Viewers -> Console]
      /\ 1 .. logs \in SUBSET (1 .. MaxLogs)
  BY <1>0 DEF HubType, ViewType, StoreType
<1>4. ASSUME NEW c \in Console, viewer' = [viewer EXCEPT ![v] = c] PROVE ViewType'
  BY <1>3, <1>4 DEF ViewType
<1>5. ASSUME NEW b \in Subscriber, sub' = [sub EXCEPT ![v] = b], Len(b.chan) <= Buffer,
             \A k \in 1 .. Len(b.chan) : b.chan[k].kind = "log" => b.chan[k].id \in 1 .. logs
      PROVE  HubType'
  <2>1. sub' \in [Viewers -> Subscriber] BY <1>3, <1>5
  <2>2. \A u \in Viewers : sub'[u] = IF u = v THEN b ELSE sub[u] BY <1>3, <1>5
  <2>. QED BY <1>0, <1>2, <1>5, <2>1, <2>2 DEF HubType, EventsKnown
<1>6. UNCHANGED sub => HubType' BY <1>0, <1>2 DEF HubType, EventsKnown
<1>7. \A k \in 1 .. Len(sub[v].chan) : sub[v].chan[k].kind = "log" => sub[v].chan[k].id \in 1 .. logs
  BY <1>0 DEF HubType, EventsKnown
<1>8. ASSUME NEW b \in Subscriber, b.chan = sub[v].chan, sub' = [sub EXCEPT ![v] = b]
      PROVE  HubType'
  BY <1>3, <1>5, <1>7, <1>8
<1>9. HubType' /\ ViewType'
  <2>1. CASE Connect(v)
    <3>. DEFINE c == [viewer[v] EXCEPT !.pc = "read", !.read = saved]
    <3>1. viewer' = [viewer EXCEPT ![v] = c] BY <1>3, <2>1 DEF Connect
    <3>2. c \in Console BY <1>0, <1>3 DEF Console, StoreType
    <3>. HIDE DEF c
    <3>. QED BY <1>4, <1>6, <2>1, <3>1, <3>2 DEF Connect
  <2>2. CASE Subscribe(v)
    <3>. DEFINE c == [viewer[v] EXCEPT !.pc = "subscribed"]
    <3>1. viewer' = [viewer EXCEPT ![v] = c] BY <1>3, <2>2 DEF Subscribe
    <3>2. c \in Console BY <1>3 DEF Console
    <3>. DEFINE b == [sub[v] EXCEPT !.in = TRUE]
    <3>3. sub' = [sub EXCEPT ![v] = b] BY <2>2 DEF Subscribe
    <3>4. b \in Subscriber /\ b.chan = sub[v].chan BY <1>3 DEF Subscriber
    <3>. HIDE DEF b, c
    <3>. QED BY <1>4, <1>8, <3>1, <3>2, <3>3, <3>4
  <2>3. CASE Replay(v) /\ viewer[v].read \in Terminal
    <3>. DEFINE all == viewer[v].seen \cup 1 .. logs
                c == [viewer[v] EXCEPT !.pc = "ended", !.end = "done", !.seen = all]
    <3>1. viewer' = [viewer EXCEPT ![v] = c] BY <1>3, <2>3 DEF Replay
    <3>2. all \in SUBSET (1 .. MaxLogs) BY <1>3 DEF Console
    <3>. HIDE DEF all
    <3>3. c \in Console BY <1>3, <3>2 DEF Console
    <3>. DEFINE b == [sub[v] EXCEPT !.in = FALSE, !.closed = TRUE]
    <3>4. sub' = [sub EXCEPT ![v] = b] BY <2>3 DEF Replay
    <3>5. b \in Subscriber /\ b.chan = sub[v].chan BY <1>3 DEF Subscriber
    <3>. HIDE DEF b, c
    <3>. QED BY <1>4, <1>8, <3>1, <3>3, <3>4, <3>5
  <2>4. CASE Replay(v) /\ viewer[v].read \notin Terminal
    <3>. DEFINE all == viewer[v].seen \cup 1 .. logs
                c == [viewer[v] EXCEPT !.pc = "live", !.seen = all]
    <3>1. viewer' = [viewer EXCEPT ![v] = c] BY <1>3, <2>4 DEF Replay
    <3>2. all \in SUBSET (1 .. MaxLogs) BY <1>3 DEF Console
    <3>. HIDE DEF all
    <3>3. c \in Console BY <1>3, <3>2 DEF Console
    <3>. HIDE DEF c
    <3>. QED BY <1>4, <1>6, <2>4, <3>1, <3>3 DEF Replay
  <2>5. CASE Receive(v)
    <3>. DEFINE q == sub[v].chan
                e == Head(q)
                c == [viewer[v] EXCEPT
                        !.seen = IF e.kind = "log" THEN viewer[v].seen \cup {e.id} ELSE viewer[v].seen,
                        !.pc = IF e.kind = "done" THEN "ended" ELSE viewer[v].pc,
                        !.end = IF e.kind = "done" THEN "done" ELSE viewer[v].end]
                i == sub[v].in /\ e.kind # "done"
                d == sub[v].closed \/ e.kind = "done"
                b == [in |-> i, closed |-> d, chan |-> Tail(q)]
    <3>1. q \in Seq(Event) /\ q # <<>> /\ Len(q) <= Buffer
      BY <1>3, <2>5 DEF Receive, Subscriber
    <3>2. viewer' = [viewer EXCEPT ![v] = c] /\ sub' = [sub EXCEPT ![v] = b]
      BY <1>3, <2>5 DEF Receive
    <3>3. e = q[1] /\ 1 \in 1 .. Len(q) /\ e \in Event BY <3>1
    <3>4. e.kind = "log" => e.id \in 1 .. MaxLogs BY <1>3, <1>7, <3>3
    <3>5. i \in BOOLEAN /\ d \in BOOLEAN OBVIOUS
    <3>. HIDE DEF e, i, d, q
    <3>6. b \in Subscriber /\ b.chan = Tail(q) BY <3>1, <3>5 DEF Subscriber
    <3>7. /\ Len(Tail(q)) <= Buffer
          /\ \A k \in 1 .. Len(Tail(q)) : k + 1 \in 1 .. Len(q) /\ Tail(q)[k] = q[k + 1]
      BY <3>1
    <3>8. c \in Console BY <1>3, <3>3, <3>4 DEF Console
    <3>. HIDE DEF b, c
    <3>9. \A k \in 1 .. Len(b.chan) : b.chan[k].kind = "log" => b.chan[k].id \in 1 .. logs
      BY <1>7, <3>6, <3>7 DEF q
    <3>. QED BY <1>4, <1>5, <3>2, <3>6, <3>7, <3>8, <3>9
  <2>6. CASE ChannelClosed(v)
    <3>. DEFINE c == [viewer[v] EXCEPT !.pc = "ended", !.end = "closed"]
    <3>1. viewer' = [viewer EXCEPT ![v] = c] BY <1>3, <2>6 DEF ChannelClosed
    <3>2. c \in Console BY <1>3 DEF Console
    <3>. HIDE DEF c
    <3>. QED BY <1>4, <1>6, <2>6, <3>1, <3>2 DEF ChannelClosed
  <2>7. CASE Leave(v)
    <3>. DEFINE c == [viewer[v] EXCEPT !.pc = "ended", !.end = "left"]
    <3>1. viewer' = [viewer EXCEPT ![v] = c] BY <1>3, <2>7 DEF Leave
    <3>2. c \in Console BY <1>3 DEF Console
    <3>. DEFINE b == [sub[v] EXCEPT !.in = FALSE, !.closed = TRUE]
    <3>3. sub' = [sub EXCEPT ![v] = b] BY <2>7 DEF Leave
    <3>4. b \in Subscriber /\ b.chan = sub[v].chan BY <1>3 DEF Subscriber
    <3>. HIDE DEF b, c
    <3>. QED BY <1>4, <1>8, <3>1, <3>2, <3>3, <3>4
  <2>. QED BY <2>1, <2>2, <2>3, <2>4, <2>5, <2>6, <2>7 DEF Serve
<1>. QED BY <1>2, <1>9, TypeParts

LEMMA TypeStep ==
  ASSUME TypeInv, [Next]_vars
  PROVE  TypeInv'
<1>1. CASE UNCHANGED vars
  BY <1>1 DEF vars, engineVars, TypeInv, TypeOK, Placed, LinesKnown, EventsKnown
<1>2. CASE Engine BY <1>2, TypeControl, TypeMove, TypeTask DEF Engine, Service
<1>3. CASE Crash BY <1>3, TypeMove
<1>4. CASE \E v \in Viewers : Connect(v) \/ Serve(v) \/ Leave(v) BY <1>4, TypeView
<1>. QED BY <1>1, <1>2, <1>3, <1>4 DEF Next

\* Every variable keeps its type: what a step is set to, how full a channel is,
\* and that no console is sent a line the log does not hold.
THEOREM TypeCorrect == Spec => []TypeOK
<1>1. Spec => []TypeInv BY TypeInit, TypeStep, PTL DEF Spec
<1>2. TypeInv => TypeOK BY DEF TypeInv
<1>. QED BY <1>1, <1>2, PTL

-----------------------------------------------------------------------------
(* The plan.                                                                *)

InOrder(p) ==
  /\ KnownNeeds(Declared[p], pipe.needs) /\ Acyclic(Declared[p], pipe.needs)
  /\ IsDependencyOrder(plan[p], Declared[p], pipe.needs)
  /\ \A i, j \in 1 .. Len(plan[p]) : plan[p][i] = plan[p][j] => i = j

PlanInv ==
  /\ pc = "refused" /\ faults = 0 => \E p \in Phases : ~Planned(p).ok
  /\ pc \notin {"plan", "refused"} => \A p \in Phases : InOrder(p)

\* Only Prepare writes the plan and nothing writes the pipeline; a run that was
\* refused stays so.
LEMMA PlanFrame ==
  ASSUME [Next]_vars
  PROVE  /\ pipe' = pipe
         /\ (\E ok \in BOOLEAN : Prepare(ok)) \/ plan' = plan
         /\ \/ \E ok \in BOOLEAN : Prepare(ok)
            \/ Refuse
            \/ pc \notin {"plan", "refused"} /\ pc' \notin {"plan", "refused"}
            \/ pc' = pc /\ faults' = faults
<1>1. CASE UNCHANGED vars BY <1>1 DEF vars
<1>2. ASSUME NEW ok \in BOOLEAN,
             \/ StartRollback(ok) \/ SkipDeploy(ok) \/ RestoreFails(ok)
             \/ SettleStep(ok) \/ FinishStep(ok) \/ EndFinally(ok) \/ FinalSave(ok)
             \/ \E registered \in BOOLEAN : AfterBuild(registered, ok)
      PROVE  /\ pipe' = pipe /\ plan' = plan
             /\ pc \notin {"plan", "refused"} /\ pc' \notin {"plan", "refused"}
  <2>. USE DEF AtPhaseEnd, AtStep, BatchDone, EnterPhase
  <2>1. CASE StartRollback(ok) BY <2>1 DEF StartRollback
  <2>2. CASE SkipDeploy(ok) BY <2>2 DEF SkipDeploy
  <2>3. CASE RestoreFails(ok) BY <2>3 DEF RestoreFails
  <2>4. CASE SettleStep(ok) BY <2>4 DEF SettleStep
  <2>5. CASE FinishStep(ok) BY <2>5 DEF FinishStep
  <2>6. CASE EndFinally(ok) BY <2>6 DEF EndFinally
  <2>7. CASE FinalSave(ok) BY <2>7 DEF FinalSave
  <2>8. ASSUME NEW registered \in BOOLEAN, AfterBuild(registered, ok)
        PROVE  /\ pipe' = pipe /\ plan' = plan
               /\ pc \notin {"plan", "refused"} /\ pc' \notin {"plan", "refused"}
    <3>1. CASE registered BY <2>8, <3>1 DEF AfterBuild
    <3>2. CASE ~registered BY <2>8, <3>2 DEF AfterBuild
    <3>. QED BY <3>1, <3>2
  <2>. QED BY <1>2, <2>1, <2>2, <2>3, <2>4, <2>5, <2>6, <2>7, <2>8
<1>3. ASSUME NEW i \in 1 .. MaxTasks, TaskStep(i)
      PROVE  /\ pipe' = pipe /\ plan' = plan
             /\ pc \notin {"plan", "refused"} /\ pc' \notin {"plan", "refused"}
  BY <1>3 DEF TaskStep, PluginStep, StartTask, AppendLine, AppendFails, BroadcastLine, AttemptSucceeds,
     AttemptFails, Panic, Running, InBatch
<1>4. ASSUME \/ StartFails \/ StartBuild \/ EndBuild \/ RestoreArtifact \/ EndDeploy
             \/ ExecuteStep \/ NextBatch \/ BroadcastDone \/ Close \/ Crash
      PROVE  /\ pipe' = pipe /\ plan' = plan
             /\ pc \notin {"plan", "refused"} /\ pc' \notin {"plan", "refused"}
  BY <1>4 DEF StartFails, StartBuild, EndBuild, RestoreArtifact, EndDeploy, ExecuteStep, NextBatch,
     BroadcastDone, Close, Crash, AtPhaseEnd, AtStep, BatchDone, EnterPhase
<1>5. ASSUME \E v \in Viewers : Connect(v) \/ Serve(v) \/ Leave(v)
      PROVE  pipe' = pipe /\ plan' = plan /\ pc' = pc /\ faults' = faults
  <2>1. runUnchanged
    BY <1>5 DEF Connect, Serve, Subscribe, Replay, Receive, ChannelClosed, Leave
  <2>. QED BY <2>1 DEF runUnchanged
<1>6. CASE \E ok \in BOOLEAN : Prepare(ok) BY <1>6 DEF Prepare
<1>7. CASE Refuse BY <1>7 DEF Refuse
<1>8. CASE Engine
  BY <1>2, <1>3, <1>4, <1>6, <1>7, <1>8 DEF Engine, Service
<1>. QED BY <1>1, <1>4, <1>5, <1>8 DEF Next

LEMMA PlanInit == Init => PlanInv
  BY DEF Init, PlanInv

LEMMA PlanStep ==
  ASSUME TypeInv, PlanInv, [Next]_vars
  PROVE  PlanInv'
<1>1. pipe' = pipe BY PlanFrame
<1>2. ASSUME NEW ok \in BOOLEAN, Prepare(ok) PROVE PlanInv'
  <2>1. CASE ok
    <3>1. pc' = "start" BY <1>2, <2>1 DEF Prepare
    <3>2. \A p \in Phases : plan'[p] = Planned(p).steps /\ Planned(p).ok BY <1>2 DEF Prepare
    <3>3. \A p \in Phases : InOrder(p)' BY <1>1, <3>2, PlannedType DEF InOrder
    <3>. QED BY <3>1, <3>3 DEF PlanInv
  <2>2. CASE ~ok
    <3>1. pc' = "refused" /\ faults' = faults + 1 BY <1>2, <2>2 DEF Prepare, StoreCall, Fault
    <3>2. faults \in Nat BY RunConstants DEF TypeInv, TypeOK
    <3>. QED BY <3>1, <3>2 DEF PlanInv
  <2>. QED BY <2>1, <2>2
<1>3. CASE Refuse
  <2>1. pc' = "refused" /\ \E p \in Phases : ~Planned(p).ok BY <1>3 DEF Refuse
  <2>. QED BY <1>1, <2>1 DEF PlanInv, Planned
<1>4. CASE plan' = plan /\ pc \notin {"plan", "refused"} /\ pc' \notin {"plan", "refused"}
  BY <1>1, <1>4 DEF PlanInv, InOrder
<1>5. CASE plan' = plan /\ pc' = pc /\ faults' = faults
  BY <1>1, <1>5 DEF PlanInv, InOrder, Planned
<1>. QED BY <1>2, <1>3, <1>4, <1>5, PlanFrame

\* What the runs check of the planner on a few pipelines holds of every one:
\* prepareProjectPipelineRun refuses exactly the pipelines without an order,
\* and executes each phase in one.
THEOREM PlansAreCorrect == Spec => []PlanCorrect
<1>1. TypeInv /\ PlanInv => PlanCorrect
  <2>. SUFFICES ASSUME TypeInv, PlanInv PROVE PlanCorrect
    OBVIOUS
  <2>1. ASSUME pc = "refused", faults = 0
        PROVE  ~ \A p \in Phases : KnownNeeds(Declared[p], pipe.needs) /\ Acyclic(Declared[p], pipe.needs)
    BY <2>1, PlannedType DEF PlanInv
  <2>2. pc = "start" => \A p \in Phases : InOrder(p) BY DEF PlanInv
  <2>. QED BY <2>1, <2>2 DEF PlanCorrect, InOrder
<1>2. Spec => [](TypeInv /\ PlanInv)
  BY TypeInit, TypeStep, PlanInit, PlanStep, PTL DEF Spec
<1>. QED BY <1>1, <1>2, PTL

-----------------------------------------------------------------------------
(* The engine.  At a step of a phase, what comes after it is untouched, what *)
(* comes before it is settled, and the error variables say what is failed.   *)

Untouched(s) == step[s] = "pending" /\ task[s] = [i \in 1 .. MaxTasks |-> NoTask]

Settled == {"success", "failed", "skipped"}

Members(p) == ToSet(Declared[p])

InPhase == pc \in {"step", "tasks"}

Going == pc \in {"start", "step", "tasks", "afterBuild", "skipDeploy", "beforeDeploy"}

NoneFailed(p) == \A s \in Members(p) : step[s] # "failed"

\* Where the run can be, and what it has recorded of the build.
Where ==
  /\ pc \in {"plan", "start"} => \A s \in Steps : Untouched(s)
  /\ pc = "plan" => status = "none"
  /\ pc \in {"plan", "start"} => phase = "build" /\ ~buildFailed /\ ~runErr
  /\ pc = "afterBuild" => phase = "build" /\ ~buildFailed /\ ~runErr /\ NoneFailed("build")
  /\ pc = "beforeDeploy" => phase = "build" /\ ~buildFailed /\ ~runErr /\ NoneFailed("build")
  /\ pc = "skipDeploy" => phase = "build" /\ runErr
  /\ pc \in {"afterBuild", "beforeDeploy", "skipDeploy"} =>
       \A s \in Members("build") : step[s] \in Settled
  /\ pc = "step" => pos <= Len(plan[phase]) + 1
  /\ Going /\ phase # "finally" => status = "running"
  /\ Going /\ phase = "finally" => status = "running" \/ (status = "failed" /\ runErr)

Ahead ==
  /\ Going /\ phase = "build" =>
       \A s \in Members("deploy") \cup Members("finally") : Untouched(s)
  /\ Going /\ phase = "deploy" => \A s \in Members("finally") : Untouched(s)
  /\ InPhase => \A j \in 1 .. Len(plan[phase]) :
       (j > pos \/ (j = pos /\ pc = "step")) => Untouched(plan[phase][j])

\* A step that is usable, wanted, has a target and is not blocked.
Wanted(s) ==
  /\ pipe.usable[s] /\ pipe.runIf[s] = "run" /\ pipe.tasks[s] > 0
  /\ \A d \in pipe.needs[s] : step[d] = "success"

Behind ==
  InPhase =>
    /\ \A j \in 1 .. Len(plan[phase]) : j < pos =>
         /\ step[plan[phase][j]] \in Settled
         /\ Wanted(plan[phase][j]) => Started(plan[phase][j])
    /\ phase # "build" => \A s \in Members("build") : step[s] \in Settled
    /\ phase = "finally" => \A s \in Members("deploy") : step[s] \in Settled

Errors ==
  InPhase =>
    /\ phaseErr <=> \E j \in 1 .. Len(plan[phase]) : j < pos /\ step[plan[phase][j]] = "failed"
    /\ phase = "build" => ~buildFailed /\ ~runErr
    /\ phase = "deploy" => ~buildFailed /\ ~runErr /\ NoneFailed("build")
    /\ phase = "finally" =>
         /\ ~(NoneFailed("build") /\ NoneFailed("deploy")) => runErr
         /\ runErr /\ NoneFailed("build") /\ NoneFailed("deploy") =>
              \A s \in Members("deploy") : step[s] = "skipped"

\* The step that executes: batches before this one succeeded, later ones have
\* not begun, and an attempt is counted before the next.
AtTask(s, i) ==
  LET t == task[s][i]
  IN  /\ t.status \in {"pending", "running"} => t.attempts <= pipe.retries[s]
      /\ t.status \in {"success", "failed"} => t.attempts > 0
      /\ t.status = "failed" => t.attempts = pipe.retries[s] + 1

Rolling ==
  pc = "tasks" =>
    LET s == plan[phase][pos]
    IN  /\ step[s] = "running"
        /\ \E k \in 0 .. from : from = k * pipe.width[s] + 1
        /\ from <= pipe.tasks[s]
        /\ \A i \in 1 .. pipe.tasks[s] :
             /\ i < from => task[s][i].status = "success"
             /\ i >= from + pipe.width[s] => task[s][i] = NoTask
             /\ AtTask(s, i)

EngineInv == Where /\ Ahead /\ Behind /\ Errors /\ Rolling

EngineSafe == FailureContained /\ DeployNeedsArtifact /\ VerdictTrue /\ FinallyRuns

\* The plan as the engine sees it.
Shape ==
  /\ \A p \in Phases : /\ plan[p] \in Seq(Steps) /\ Len(plan[p]) \in Nat
                       /\ ToSet(plan[p]) = Members(p) /\ Members(p) \subseteq Steps
  /\ \A p \in Phases : \A j \in 1 .. Len(plan[p]) : plan[p][j] \in Members(p)
  /\ \A p \in Phases : \A s \in Members(p) : \E j \in 1 .. Len(plan[p]) : s = plan[p][j]
  /\ \A p \in Phases : \A i, j \in 1 .. Len(plan[p]) : plan[p][i] = plan[p][j] => i = j
  /\ \A p, q \in Phases : p # q => \A s \in Members(p) : s \notin Members(q)
  /\ \A s \in Steps : \E p \in Phases : s \in Members(p)
  /\ \A p \in Phases : \A j \in 1 .. Len(plan[p]) : \A d \in pipe.needs[plan[p][j]] :
       \E k \in 1 .. (j - 1) : d = plan[p][k]

LEMMA PlanShape ==
  ASSUME TypeInv, PlanInv, pc \notin {"plan", "refused"}
  PROVE  Shape
<1>1. \A p \in Phases : InOrder(p) BY DEF PlanInv
<1>2. \A p \in Phases : plan[p] \in Seq(Steps) /\ Len(plan[p]) \in Nat BY DEF TypeInv, TypeOK
<1>3. \A p \in Phases : ToSet(plan[p]) = Members(p)
  BY <1>1 DEF InOrder, IsDependencyOrder, Members
<1>4. /\ \A p \in Phases : Members(p) \subseteq Steps
      /\ \A s \in Steps : \E p \in Phases : s \in Members(p)
      /\ \A p, q \in Phases : p # q => \A s \in Members(p) : s \notin Members(q)
  BY RunConstants DEF Members
<1>5. \A p \in Phases : DOMAIN plan[p] = 1 .. Len(plan[p]) BY <1>2
<1>6. \A p \in Phases : \A j \in 1 .. Len(plan[p]) : plan[p][j] \in Members(p)
  BY <1>3, <1>5 DEF ToSet
<1>7. \A p \in Phases : \A s \in Members(p) : \E j \in 1 .. Len(plan[p]) : s = plan[p][j]
  BY <1>3, <1>5 DEF ToSet
<1>8. \A p \in Phases : \A j \in 1 .. Len(plan[p]) : \A d \in pipe.needs[plan[p][j]] :
        \E k \in 1 .. (j - 1) : d = plan[p][k]
  BY <1>1 DEF InOrder, IsDependencyOrder
<1>9. \A p \in Phases : \A i, j \in 1 .. Len(plan[p]) : plan[p][i] = plan[p][j] => i = j
  BY <1>1 DEF InOrder
<1>. QED BY <1>2, <1>3, <1>4, <1>6, <1>7, <1>8, <1>9 DEF Shape

Same(s) == step'[s] = step[s] /\ task'[s] = task[s]

LEMMA SameKeeps ==
  ASSUME NEW s, Same(s)
  PROVE  (Untouched(s)' <=> Untouched(s)) /\ (Started(s)' <=> Started(s))
  BY DEF Same, Untouched, Started

\* A run that has come to its end has no more to keep.
LEMMA Halts ==
  ASSUME pc' \in {"refused", "final", "done", "close", "over", "crashed"}
  PROVE  EngineInv'
  BY DEF EngineInv, Where, Ahead, Behind, Errors, Rolling, Going, InPhase

\* At the first step of a phase.
LEMMA Entering ==
  ASSUME Shape, NEW p \in Phases, EnterPhase(p), plan' = plan,
         \A s \in Members(p) : Untouched(s)'
  PROVE  /\ pos' <= Len(plan'[phase']) + 1
         /\ \A j \in 1 .. Len(plan'[phase']) : Untouched(plan[phase][j])'
         /\ \A j \in 1 .. Len(plan'[phase']) : ~(j < pos')
         /\ ~phaseErr'
<1>1. phase' = p /\ pos' = 1 /\ ~phaseErr' BY DEF EnterPhase
<1>2. \A j \in 1 .. Len(plan[p]) : plan[p][j] \in Members(p) BY DEF Shape
<1>3. Len(plan[p]) \in Nat BY DEF Shape
<1>4. \A j \in 1 .. Len(plan[p]) : /\ step'[plan[p][j]] = "pending"
                                   /\ task'[plan[p][j]] = [i \in 1 .. MaxTasks |-> NoTask]
  BY <1>2 DEF Untouched
<1>5. \A j \in 1 .. Len(plan'[phase']) : Untouched(plan[phase][j])'
  BY <1>1, <1>4 DEF Untouched
<1>. QED BY <1>1, <1>3, <1>5

LEMMA EngineInit == Init => EngineInv
<1>. SUFFICES ASSUME Init PROVE EngineInv
  OBVIOUS
<1>1. \A s \in Steps : Untouched(s) BY DEF Init, Untouched
<1>. QED BY <1>1 DEF Init, EngineInv, Where, Ahead, Behind, Errors, Rolling, Going, InPhase

\* Before the first phase.
LEMMA EngineStart ==
  ASSUME TypeInv, PlanInv, EngineInv, NEW ok \in BOOLEAN,
         Prepare(ok) \/ StartBuild \/ StartRollback(ok)
  PROVE  EngineInv'
<1>p. "build" \in Phases /\ "deploy" \in Phases /\ "finally" \in Phases BY DEF Phases
<1>m. \A p \in Phases : Members(p) \subseteq Steps BY RunConstants DEF Members
<1>1. CASE Prepare(ok)
  <2>1. CASE ~ok
    <3>1. pc' = "refused" BY <1>1, <2>1 DEF Prepare
    <3>. QED BY <3>1, Halts
  <2>2. CASE ok
    <3>1. /\ pc' = "start" /\ status' = "running" /\ pc = "plan"
          /\ UNCHANGED <<phase, step, task, buildFailed, runErr>>
      BY <1>1, <2>2 DEF Prepare
    <3>2. \A s \in Steps : Untouched(s)'
      BY <3>1 DEF EngineInv, Where, Untouched
    <3>3. phase' = "build" /\ ~buildFailed' /\ ~runErr' BY <3>1 DEF EngineInv, Where
    <3>4. \A s \in Members("deploy") \cup Members("finally") : Untouched(s)' BY <1>p, <1>m, <3>2
    <3>. HIDE DEF Untouched
    <3>. QED BY <3>1, <3>2, <3>3, <3>4
         DEF EngineInv, Where, Ahead, Behind, Errors, Rolling, Going, InPhase
  <2>. QED BY <2>1, <2>2
<1>2. CASE StartBuild
  <2>1. /\ pc' = "step" /\ phase' = "build" /\ pos' = 1 /\ pc = "start" /\ EnterPhase("build")
        /\ UNCHANGED <<plan, step, task, status, buildFailed, runErr>>
    BY <1>2 DEF StartBuild, EnterPhase
  <2>2. Shape BY <2>1, PlanShape
  <2>3. \A s \in Steps : Untouched(s)' BY <2>1 DEF EngineInv, Where, Untouched
  <2>4. status' = "running" /\ ~buildFailed' /\ ~runErr'
    BY <2>1 DEF EngineInv, Where, Going
  <2>5. /\ \A s \in Members("deploy") \cup Members("finally") : Untouched(s)'
        /\ \A s \in Members("build") : Untouched(s)'
    BY <1>p, <1>m, <2>3
  <2>6. /\ pos' <= Len(plan'[phase']) + 1
        /\ \A j \in 1 .. Len(plan'[phase']) : Untouched(plan[phase][j])'
        /\ \A j \in 1 .. Len(plan'[phase']) : ~(j < pos')
        /\ ~phaseErr'
    BY <1>p, <2>1, <2>2, <2>5, Entering
  <2>7. Where' BY <2>1, <2>4, <2>6 DEF Where
  <2>8. Ahead' BY <2>1, <2>5, <2>6 DEF Ahead
  <2>9. Behind' BY <2>1, <2>6 DEF Behind
  <2>10. Errors' BY <2>1, <2>4, <2>6 DEF Errors
  <2>11. Rolling' BY <2>1 DEF Rolling
  <2>. QED BY <2>7, <2>8, <2>9, <2>10, <2>11 DEF EngineInv
<1>3. CASE StartRollback(ok)
  <2>1. /\ pc' = "beforeDeploy" /\ pc = "start" /\ skipPhase("build")
        /\ UNCHANGED <<plan, phase, status, buildFailed, runErr>>
    BY <1>3 DEF StartRollback
  <2>2. Shape BY <2>1, PlanShape
  <2>3. /\ \A s \in Members("build") : step'[s] = "skipped"
        /\ \A s \in Steps : s \notin Members("build") => Same(s)
    BY <1>p, <2>1, <2>2 DEF skipPhase, Shape, Same
  <2>4. \A s \in Members("deploy") \cup Members("finally") : Same(s) /\ Untouched(s)
    BY <1>p, <1>m, <2>1, <2>2, <2>3 DEF Shape, EngineInv, Where
  <2>5. \A s \in Members("deploy") \cup Members("finally") : Untouched(s)'
    BY <2>4, SameKeeps
  <2>6. phase' = "build" /\ ~buildFailed' /\ ~runErr' /\ status' = "running"
    BY <2>1 DEF EngineInv, Where, Going
  <2>7. Where' BY <2>1, <2>3, <2>6 DEF Where, NoneFailed, Settled
  <2>8. Ahead' BY <2>1, <2>5, <2>6 DEF Ahead, InPhase
  <2>. QED BY <2>1, <2>7, <2>8 DEF EngineInv, Behind, Errors, Rolling, InPhase
<1>. QED BY <1>1, <1>2, <1>3

\* The end of the build phase and the hook after it.
LEMMA EngineBuilt ==
  ASSUME TypeInv, PlanInv, EngineInv, NEW ok \in BOOLEAN, NEW registered \in BOOLEAN,
         EndBuild \/ AfterBuild(registered, ok) \/ RestoreArtifact
  PROVE  EngineInv'
<1>p. "build" \in Phases /\ "deploy" \in Phases /\ "finally" \in Phases BY DEF Phases
<1>0. pc \notin {"plan", "refused"} BY DEF EndBuild, AfterBuild, RestoreArtifact, AtPhaseEnd
<1>s. Shape BY <1>0, PlanShape
<1>1. step' = step /\ task' = task /\ plan' = plan /\ status' = status
  BY DEF EndBuild, AfterBuild, RestoreArtifact
<1>2. \A s : Untouched(s)' <=> Untouched(s) BY <1>1 DEF Untouched
<1>3. CASE EndBuild
  <2>1. /\ pc = "step" /\ phase = "build" /\ phase' = "build" /\ pos > Len(plan["build"])
        /\ buildFailed' = phaseErr /\ runErr' = phaseErr
        /\ pc' = IF phaseErr THEN "skipDeploy" ELSE "afterBuild"
    BY <1>3 DEF EndBuild, AtPhaseEnd
  <2>2. /\ pos \in Nat /\ Len(plan["build"]) \in Nat /\ phaseErr \in BOOLEAN
    BY <1>p, <1>s DEF TypeInv, TypeOK, Shape
  <2>3. \A j \in 1 .. Len(plan["build"]) : j < pos BY <2>1, <2>2
  <2>4. /\ \A j \in 1 .. Len(plan["build"]) : step[plan["build"][j]] \in Settled
        /\ ~phaseErr => \A j \in 1 .. Len(plan["build"]) : step[plan["build"][j]] # "failed"
    BY <2>1, <2>3 DEF EngineInv, Behind, Errors, InPhase
  <2>5. /\ \A s \in Members("build") : step'[s] \in Settled
        /\ ~phaseErr => NoneFailed("build")'
    BY SMTT(30), <1>p, <1>s, <1>1, <2>4 DEF Shape, NoneFailed
  <2>6. status' = "running" /\ \A s \in Members("deploy") \cup Members("finally") : Untouched(s)'
    BY <1>1, <1>2, <2>1 DEF EngineInv, Where, Ahead, Going
  <2>7. Where' BY <2>1, <2>2, <2>5, <2>6 DEF Where
  <2>8. Ahead' BY <2>1, <2>6 DEF Ahead, InPhase
  <2>. QED BY <2>1, <2>7, <2>8 DEF EngineInv, Behind, Errors, Rolling, InPhase
<1>4. CASE AfterBuild(registered, ok) /\ ~registered
  <2>1. /\ pc = "afterBuild" /\ pc' = "skipDeploy" /\ phase' = phase /\ runErr'
    BY <1>4 DEF AfterBuild
  <2>2. /\ phase = "build" /\ status = "running"
        /\ \A s \in Members("build") : step[s] \in Settled
        /\ \A s \in Members("deploy") \cup Members("finally") : Untouched(s)
    BY <2>1 DEF EngineInv, Where, Ahead, Going
  <2>3. Where' BY <1>1, <2>1, <2>2 DEF Where
  <2>4. Ahead' BY <1>2, <2>1, <2>2 DEF Ahead, InPhase
  <2>. QED BY <2>1, <2>3, <2>4 DEF EngineInv, Behind, Errors, Rolling, InPhase
<1>5. CASE (AfterBuild(registered, ok) /\ registered) \/ RestoreArtifact
  <2>1. /\ pc \in {"afterBuild", "beforeDeploy"} /\ EnterPhase("deploy")
        /\ buildFailed' = buildFailed /\ runErr' = runErr
    BY <1>5 DEF AfterBuild, RestoreArtifact
  <2>2. /\ phase = "build" /\ status = "running" /\ ~buildFailed /\ ~runErr /\ NoneFailed("build")
        /\ \A s \in Members("build") : step[s] \in Settled
        /\ \A s \in Members("deploy") : Untouched(s)
        /\ \A s \in Members("finally") : Untouched(s)
    BY <2>1 DEF EngineInv, Where, Ahead, Going
  <2>3. pc' = "step" /\ phase' = "deploy" BY <2>1 DEF EnterPhase
  <2>4. /\ pos' <= Len(plan'[phase']) + 1
        /\ \A j \in 1 .. Len(plan'[phase']) : Untouched(plan[phase][j])'
        /\ \A j \in 1 .. Len(plan'[phase']) : ~(j < pos')
        /\ ~phaseErr'
    BY <1>p, <1>s, <1>1, <1>2, <2>1, <2>2, Entering
  <2>5. NoneFailed("build")' BY <1>1, <2>2 DEF NoneFailed
  <2>6. Where' BY <1>1, <2>2, <2>3, <2>4 DEF Where
  <2>7. Ahead' BY <1>2, <2>2, <2>3, <2>4 DEF Ahead
  <2>8. Behind' BY <1>1, <2>2, <2>3, <2>4 DEF Behind
  <2>9. Errors' BY <2>1, <2>2, <2>3, <2>4, <2>5 DEF Errors
  <2>10. Rolling' BY <2>3 DEF Rolling
  <2>. QED BY <2>6, <2>7, <2>8, <2>9, <2>10 DEF EngineInv
<1>. QED BY <1>3, <1>4, <1>5

\* Into the finally phase.
LEMMA EngineFinally ==
  ASSUME TypeInv, PlanInv, EngineInv, NEW ok \in BOOLEAN,
         SkipDeploy(ok) \/ RestoreFails(ok) \/ EndDeploy
  PROVE  EngineInv'
<1>p. "build" \in Phases /\ "deploy" \in Phases /\ "finally" \in Phases BY DEF Phases
<1>0. pc \notin {"plan", "refused"} BY DEF SkipDeploy, RestoreFails, EndDeploy, AtPhaseEnd
<1>s. Shape BY <1>0, PlanShape
<1>1. plan' = plan /\ EnterPhase("finally") BY DEF SkipDeploy, RestoreFails, EndDeploy
<1>2. pc' = "step" /\ phase' = "finally" BY <1>1 DEF EnterPhase
<1>3. ASSUME \A s \in Members("finally") : Untouched(s)',
             \A s \in Members("build") : step'[s] \in Settled,
             \A s \in Members("deploy") : step'[s] \in Settled,
             ~(NoneFailed("build") /\ NoneFailed("deploy"))' => runErr',
             (runErr /\ NoneFailed("build") /\ NoneFailed("deploy"))' =>
               \A s \in Members("deploy") : step'[s] = "skipped",
             status' = "running" \/ (status' = "failed" /\ runErr')
      PROVE  EngineInv'
  <2>4. /\ pos' <= Len(plan'[phase']) + 1
        /\ \A j \in 1 .. Len(plan'[phase']) : Untouched(plan[phase][j])'
        /\ \A j \in 1 .. Len(plan'[phase']) : ~(j < pos')
        /\ ~phaseErr'
    BY <1>p, <1>s, <1>1, <1>3, Entering
  <2>6. Where' BY <1>2, <1>3, <2>4 DEF Where
  <2>7. Ahead' BY <1>2, <1>3, <2>4 DEF Ahead
  <2>8. Behind' BY <1>2, <1>3, <2>4 DEF Behind
  <2>9. Errors' BY <1>2, <1>3, <2>4 DEF Errors
  <2>10. Rolling' BY <1>2 DEF Rolling
  <2>. QED BY <2>6, <2>7, <2>8, <2>9, <2>10 DEF EngineInv
<1>4. CASE SkipDeploy(ok) \/ RestoreFails(ok)
  <2>1. /\ pc \in {"skipDeploy", "beforeDeploy"} /\ skipPhase("deploy") /\ status' = status
        /\ runErr' = runErr \/ runErr'
        /\ pc = "skipDeploy" => runErr' = runErr
        /\ pc = "beforeDeploy" => runErr'
    BY <1>4 DEF SkipDeploy, RestoreFails
  <2>2. /\ phase = "build" /\ status = "running" /\ (pc = "skipDeploy" => runErr)
        /\ \A s \in Members("build") : step[s] \in Settled
        /\ \A s \in Members("finally") : Untouched(s)
    BY <2>1 DEF EngineInv, Where, Ahead, Going
  <2>3. runErr' BY <2>1, <2>2
  <2>4. /\ \A s \in Members("deploy") : step'[s] = "skipped"
        /\ \A s \in Steps : s \notin Members("deploy") => Same(s)
    BY <1>p, <1>s, <2>1 DEF skipPhase, Shape, Same
  <2>5. /\ \A s \in Members("build") : step'[s] = step[s]
        /\ \A s \in Members("finally") : Same(s)
    BY <1>p, <1>s, <2>4 DEF Shape, Same
  <2>6. \A s \in Members("finally") : Untouched(s)' BY <2>2, <2>5, SameKeeps
  <2>. QED BY <1>3, <2>1, <2>2, <2>3, <2>4, <2>5, <2>6 DEF Settled
<1>5. CASE EndDeploy
  <2>1. /\ pc = "step" /\ phase = "deploy" /\ pos > Len(plan["deploy"])
        /\ runErr' = (runErr \/ phaseErr) /\ step' = step /\ task' = task
        /\ status' = IF phaseErr THEN "failed" ELSE status
    BY <1>5 DEF EndDeploy, AtPhaseEnd
  <2>2. pos \in Nat /\ Len(plan["deploy"]) \in Nat BY <1>p, <1>s DEF TypeInv, TypeOK, Shape
  <2>3. \A j \in 1 .. Len(plan["deploy"]) : j < pos BY <2>1, <2>2
  <2>4. /\ \A j \in 1 .. Len(plan["deploy"]) : step[plan["deploy"][j]] \in Settled
        /\ phaseErr <=> \E j \in 1 .. Len(plan["deploy"]) : step[plan["deploy"][j]] = "failed"
        /\ ~runErr /\ NoneFailed("build") /\ \A s \in Members("build") : step[s] \in Settled
    BY <2>1, <2>3 DEF EngineInv, Behind, Errors, InPhase
  <2>5. /\ \A s \in Members("deploy") : step[s] \in Settled
        /\ ~phaseErr <=> NoneFailed("deploy")
    <3>1. /\ \A s \in Members("deploy") : \E j \in 1 .. Len(plan["deploy"]) : s = plan["deploy"][j]
          /\ \A j \in 1 .. Len(plan["deploy"]) : plan["deploy"][j] \in Members("deploy")
      BY <1>p, <1>s DEF Shape
    <3>2. \A s \in Members("deploy") : step[s] \in Settled BY <2>4, <3>1
    <3>3. phaseErr => ~NoneFailed("deploy") BY <2>4, <3>1 DEF NoneFailed
    <3>4. ~NoneFailed("deploy") => phaseErr BY <2>4, <3>1 DEF NoneFailed
    <3>. QED BY <3>2, <3>3, <3>4
  <2>6. status = "running" /\ \A s \in Members("finally") : Untouched(s)
    BY <2>1 DEF EngineInv, Where, Ahead, Going
  <2>7. /\ \A s \in Members("finally") : Untouched(s)'
        /\ NoneFailed("build")' /\ (NoneFailed("deploy")' <=> NoneFailed("deploy"))
    BY <2>1, <2>4, <2>6 DEF Untouched, NoneFailed
  <2>8. runErr' <=> phaseErr BY <2>1, <2>4
  <2>. QED BY <1>3, <2>1, <2>4, <2>5, <2>6, <2>7, <2>8
<1>. QED BY <1>4, <1>5

\* The step the loop is at is no other step of the plan, and what a step up to
\* it needs lies before it.
LEMMA AtCurrent ==
  ASSUME TypeInv, PlanInv, pc = "tasks" \/ AtStep
  PROVE  /\ Shape /\ InPhase
         /\ phase \in Phases /\ pos \in 1 .. Len(plan[phase]) /\ Len(plan[phase]) \in Nat
         /\ Current = plan[phase][pos] /\ Current \in Steps /\ Current \in Members(phase)
         /\ \A j \in 1 .. Len(plan[phase]) : j # pos => plan[phase][j] # Current
         /\ \A j \in 1 .. Len(plan[phase]) : plan[phase][j] \in Steps
         /\ \A p \in Phases : p # phase => \A s \in Members(p) : s # Current /\ s \in Steps
         /\ \A j \in 1 .. Len(plan[phase]) : j <= pos =>
              \A d \in pipe.needs[plan[phase][j]] : d # Current /\ d \in Steps
<1>1. pc \in {"step", "tasks"} BY DEF AtStep
<1>2. Shape BY <1>1, PlanShape
<1>3. /\ Current \in Steps /\ pos \in 1 .. Len(plan[phase]) /\ Current = plan[phase][pos]
      /\ phase \in Phases
  BY CurrentType, TypeParts DEF TaskType, EngineType
<1>4. /\ \A j \in 1 .. Len(plan[phase]) : j # pos => plan[phase][j] # Current
      /\ \A j \in 1 .. Len(plan[phase]) : plan[phase][j] \in Steps
      /\ Len(plan[phase]) \in Nat /\ Current \in Members(phase)
  BY <1>2, <1>3 DEF Shape
<1>5. \A p \in Phases : p # phase => \A s \in Members(p) : s # Current /\ s \in Steps
  BY <1>2, <1>3, <1>4 DEF Shape
<1>6. ASSUME NEW j \in 1 .. Len(plan[phase]), j <= pos, NEW d \in pipe.needs[plan[phase][j]]
      PROVE  d # Current /\ d \in Steps
  <2>s. \A p \in Phases : \A n \in 1 .. Len(plan[p]) : \A x \in pipe.needs[plan[p][n]] :
          \E k \in 1 .. (n - 1) : x = plan[p][k]
    BY <1>2 DEF Shape
  <2>1. PICK k \in 1 .. (j - 1) : d = plan[phase][k] BY <1>3, <2>s
  <2>2. k \in 1 .. Len(plan[phase]) /\ k # pos BY <1>3, <1>4, <1>6
  <2>. QED BY <1>4, <2>1, <2>2
<1>. QED BY <1>1, <1>2, <1>3, <1>4, <1>5, <1>6 DEF InPhase

\* The loop moves on: the step is settled, and has been started if wanted.
LEMMA StepDone ==
  ASSUME TypeInv, PlanInv, EngineInv, pc = "tasks" \/ AtStep,
         NEW v \in Settled, step' = [step EXCEPT ![Current] = v],
         \A s \in Steps : s # Current => task'[s] = task[s],
         pos' = pos + 1, pc' = "step", phaseErr' = (phaseErr \/ v = "failed"),
         Wanted(Current) => \E i \in 1 .. MaxTasks : task'[Current][i].attempts > 0,
         UNCHANGED <<pipe, plan, phase, status, buildFailed, runErr>>
  PROVE  EngineInv'
<1>l. PICK L : L = plan[phase] OBVIOUS
<1>c. PICK c : c = Current OBVIOUS
<1>n. PICK n : n = pos OBVIOUS
<1>1. /\ Shape /\ InPhase
      /\ phase \in Phases /\ n \in 1 .. Len(L) /\ Len(L) \in Nat
      /\ c = L[n] /\ c \in Steps /\ c \in Members(phase)
      /\ \A j \in 1 .. Len(L) : j # n => L[j] # c
      /\ \A j \in 1 .. Len(L) : L[j] \in Steps
      /\ \A p \in Phases : p # phase => \A s \in Members(p) : s # c /\ s \in Steps
      /\ \A j \in 1 .. Len(L) : j <= n => \A d \in pipe.needs[L[j]] : d # c /\ d \in Steps
  BY <1>l, <1>c, <1>n, AtCurrent
<1>2. /\ plan'[phase'] = L /\ plan[phase] = L /\ pos = n /\ pos' = n + 1 /\ pipe' = pipe
      /\ step \in [Steps -> StepStatus]
  BY <1>l, <1>n DEF TypeInv, TypeOK
<1>3. step'[c] = v /\ \A s \in Steps : s # c => Same(s)
  BY <1>c, <1>1, <1>2 DEF Same
<1>p. "build" \in Phases /\ "deploy" \in Phases /\ "finally" \in Phases BY DEF Phases
<1>4. ASSUME NEW p \in Phases, p # phase
      PROVE  /\ NoneFailed(p)' <=> NoneFailed(p)
             /\ \A s \in Members(p) : step'[s] = step[s] /\ (Untouched(s)' <=> Untouched(s))
  <2>1. \A s \in Members(p) : Same(s) BY <1>1, <1>3, <1>4
  <2>2. \A s \in Members(p) : step'[s] = step[s] /\ (Untouched(s)' <=> Untouched(s))
    BY <2>1, SameKeeps DEF Same
  <2>. QED BY <2>2 DEF NoneFailed
<1>5. ASSUME NEW j \in 1 .. Len(L), j # n
      PROVE  /\ step'[L[j]] = step[L[j]]
             /\ Untouched(L[j])' <=> Untouched(L[j])
             /\ Started(L[j])' <=> Started(L[j])
  <2>1. Same(L[j]) BY <1>1, <1>3, <1>5
  <2>. QED BY <2>1, SameKeeps DEF Same
<1>6. ASSUME NEW j \in 1 .. Len(L), j <= n PROVE Wanted(L[j])' <=> Wanted(L[j])
  <2>1. \A d \in pipe.needs[L[j]] : step'[d] = step[d] BY <1>1, <1>3, <1>6 DEF Same
  <2>. QED BY <1>2, <2>1 DEF Wanted
<1>7. /\ \A j \in 1 .. Len(L) : j > n => Untouched(L[j])
      /\ \A j \in 1 .. Len(L) : j < n =>
           step[L[j]] \in Settled /\ (Wanted(L[j]) => Started(L[j]))
      /\ phaseErr <=> \E j \in 1 .. Len(L) : j < n /\ step[L[j]] = "failed"
  BY <1>1, <1>2 DEF EngineInv, Ahead, Behind, Errors
<1>8. \A j \in 1 .. Len(L) : (j < n + 1 <=> j < n \/ j = n) /\ (j > n + 1 => j > n) /\ (j = n + 1 => j > n)
  BY <1>1
<1>9. Going BY <1>1 DEF Going, InPhase
<1>10. Where'
  <2>1. pos' <= Len(plan'[phase']) + 1 BY <1>n, <1>1, <1>2
  <2>. QED BY <1>9, <2>1 DEF EngineInv, Where, Going
<1>11. Ahead'
  <2>1. phase = "build" => \A s \in Members("deploy") \cup Members("finally") : Untouched(s)'
    BY <1>p, <1>4, <1>9 DEF EngineInv, Ahead
  <2>2. phase = "deploy" => \A s \in Members("finally") : Untouched(s)'
    BY <1>p, <1>4, <1>9 DEF EngineInv, Ahead
  <2>3. \A j \in 1 .. Len(L) : j > n => Untouched(L[j])'
    BY <1>1, <1>5, <1>7
  <2>4. \A j \in 1 .. Len(plan'[phase']) : (j > pos' \/ j = pos') => Untouched(plan[phase][j])'
    <3>. SUFFICES ASSUME NEW j \in 1 .. Len(L), j > n + 1 \/ j = n + 1
                  PROVE  Untouched(plan[phase][j])'
      BY <1>2
    <3>1. Untouched(L[j])' BY <1>8, <2>3
    <3>. QED BY <1>2, <3>1 DEF Untouched
  <2>. QED BY <2>1, <2>2, <2>4 DEF Ahead
<1>12. Behind'
  <2>1. ASSUME NEW j \in 1 .. Len(L), j < pos'
        PROVE  step'[L[j]] \in Settled /\ (Wanted(L[j])' => Started(L[j])')
    <3>1. CASE j < n BY <1>1, <1>5, <1>6, <1>7, <3>1
    <3>2. CASE j = n
      <4>1. Wanted(c)' => Wanted(c) BY <1>1, <1>6
      <4>2. Wanted(c) => Started(c)' BY <1>c DEF Started
      <4>. QED BY <1>1, <1>3, <3>2, <4>1, <4>2
    <3>. QED BY <1>2, <1>8, <2>1, <3>1, <3>2
  <2>2. phase # "build" => \A s \in Members("build") : step'[s] \in Settled
    BY <1>p, <1>1, <1>4 DEF EngineInv, Behind
  <2>3. phase = "finally" => \A s \in Members("deploy") : step'[s] \in Settled
    BY <1>p, <1>1, <1>4 DEF EngineInv, Behind
  <2>4. \A j \in 1 .. Len(plan'[phase']) : j < pos' =>
          /\ step'[plan'[phase'][j]] \in Settled
          /\ Wanted(plan[phase][j])' => Started(plan[phase][j])'
    BY <1>2, <2>1 DEF Wanted, Started
  <2>. QED BY <2>2, <2>3, <2>4 DEF Behind
<1>13. Errors'
  <2>1. phaseErr' <=> \E j \in 1 .. Len(L) : j < n + 1 /\ step'[L[j]] = "failed"
    <3>1. CASE v = "failed" BY <1>1, <1>3, <1>8, <3>1
    <3>2. CASE v # "failed"
      <4>1. \A j \in 1 .. Len(L) : j < n => j # n BY <1>1
      <4>2. \A j \in 1 .. Len(L) : j < n => step'[L[j]] = step[L[j]] BY <1>5, <4>1
      <4>3. step'[L[n]] # "failed" BY <1>1, <1>3, <3>2
      <4>. QED BY <1>7, <1>8, <3>2, <4>2, <4>3
    <3>. QED BY <3>1, <3>2
  <2>2. phase = "build" => ~buildFailed' /\ ~runErr' BY <1>1 DEF EngineInv, Errors
  <2>3. phase = "deploy" => ~buildFailed' /\ ~runErr' /\ NoneFailed("build")'
    BY <1>p, <1>1, <1>4 DEF EngineInv, Errors
  <2>4. phase = "finally" =>
          /\ ~(NoneFailed("build")' /\ NoneFailed("deploy")') => runErr'
          /\ runErr' /\ NoneFailed("build")' /\ NoneFailed("deploy")' =>
               \A s \in Members("deploy") : step'[s] = "skipped"
    BY <1>p, <1>1, <1>4 DEF EngineInv, Errors
  <2>. QED BY <1>2, <2>1, <2>2, <2>3, <2>4 DEF Errors
<1>14. Rolling' BY DEF Rolling
<1>. QED BY <1>10, <1>11, <1>12, <1>13, <1>14 DEF EngineInv

\* The loop stays at a step that executes.
LEMMA StepHeld ==
  ASSUME TypeInv, PlanInv, EngineInv, pc = "tasks" \/ AtStep,
         \A s \in Steps : s # Current => step'[s] = step[s] /\ task'[s] = task[s],
         pc' = "tasks", Rolling',
         UNCHANGED <<pipe, plan, phase, pos, status, phaseErr, buildFailed, runErr>>
  PROVE  EngineInv'
<1>l. PICK L : L = plan[phase] OBVIOUS
<1>c. PICK c : c = Current OBVIOUS
<1>n. PICK n : n = pos OBVIOUS
<1>1. /\ Shape /\ InPhase
      /\ phase \in Phases /\ n \in 1 .. Len(L) /\ Len(L) \in Nat
      /\ c = L[n] /\ c \in Steps /\ c \in Members(phase)
      /\ \A j \in 1 .. Len(L) : j # n => L[j] # c
      /\ \A j \in 1 .. Len(L) : L[j] \in Steps
      /\ \A p \in Phases : p # phase => \A s \in Members(p) : s # c /\ s \in Steps
      /\ \A j \in 1 .. Len(L) : j <= n => \A d \in pipe.needs[L[j]] : d # c /\ d \in Steps
  BY <1>l, <1>c, <1>n, AtCurrent
<1>2. plan'[phase'] = L /\ plan[phase] = L /\ pos = n /\ pos' = n /\ pipe' = pipe
  BY <1>l, <1>n
<1>3. \A s \in Steps : s # c => Same(s) BY <1>c DEF Same
<1>p. "build" \in Phases /\ "deploy" \in Phases /\ "finally" \in Phases BY DEF Phases
<1>4. ASSUME NEW p \in Phases, p # phase
      PROVE  /\ NoneFailed(p)' <=> NoneFailed(p)
             /\ \A s \in Members(p) : step'[s] = step[s] /\ (Untouched(s)' <=> Untouched(s))
  <2>1. \A s \in Members(p) : Same(s) BY <1>1, <1>3, <1>4
  <2>2. \A s \in Members(p) : step'[s] = step[s] /\ (Untouched(s)' <=> Untouched(s))
    BY <2>1, SameKeeps DEF Same
  <2>. QED BY <2>2 DEF NoneFailed
<1>5. ASSUME NEW j \in 1 .. Len(L), j # n
      PROVE  /\ step'[L[j]] = step[L[j]]
             /\ Untouched(L[j])' <=> Untouched(L[j])
             /\ Started(L[j])' <=> Started(L[j])
  <2>1. Same(L[j]) BY <1>1, <1>3, <1>5
  <2>. QED BY <2>1, SameKeeps DEF Same
<1>6. ASSUME NEW j \in 1 .. Len(L), j <= n PROVE Wanted(L[j])' <=> Wanted(L[j])
  <2>1. \A d \in pipe.needs[L[j]] : step'[d] = step[d] BY <1>1, <1>3, <1>6 DEF Same
  <2>. QED BY <1>2, <2>1 DEF Wanted
<1>7. /\ \A j \in 1 .. Len(L) : j > n => Untouched(L[j])
      /\ \A j \in 1 .. Len(L) : j < n =>
           step[L[j]] \in Settled /\ (Wanted(L[j]) => Started(L[j]))
      /\ phaseErr <=> \E j \in 1 .. Len(L) : j < n /\ step[L[j]] = "failed"
  BY <1>1, <1>2 DEF EngineInv, Ahead, Behind, Errors
<1>8. \A j \in 1 .. Len(L) : (j < n => j # n /\ j <= n) /\ (j > n => j # n) BY <1>1
<1>9. Going BY <1>1 DEF Going, InPhase
<1>10. Where' BY <1>9 DEF EngineInv, Where, Going
<1>11. Ahead'
  <2>1. phase = "build" => \A s \in Members("deploy") \cup Members("finally") : Untouched(s)'
    BY <1>p, <1>4, <1>9 DEF EngineInv, Ahead
  <2>2. phase = "deploy" => \A s \in Members("finally") : Untouched(s)'
    BY <1>p, <1>4, <1>9 DEF EngineInv, Ahead
  <2>3. \A j \in 1 .. Len(L) : j > n => Untouched(L[j])'
    BY <1>5, <1>7, <1>8
  <2>4. \A j \in 1 .. Len(plan'[phase']) : j > pos' => Untouched(plan[phase][j])'
    <3>. SUFFICES ASSUME NEW j \in 1 .. Len(L), j > n PROVE Untouched(plan[phase][j])'
      BY <1>2
    <3>1. Untouched(L[j])' BY <2>3
    <3>. QED BY <1>2, <3>1 DEF Untouched
  <2>. QED BY <2>1, <2>2, <2>4 DEF Ahead
<1>12. Behind'
  <2>1. \A j \in 1 .. Len(L) : j < n => step'[L[j]] \in Settled /\ (Wanted(L[j])' => Started(L[j])')
    BY <1>5, <1>6, <1>7, <1>8
  <2>2. phase # "build" => \A s \in Members("build") : step'[s] \in Settled
    BY <1>p, <1>1, <1>4 DEF EngineInv, Behind
  <2>3. phase = "finally" => \A s \in Members("deploy") : step'[s] \in Settled
    BY <1>p, <1>1, <1>4 DEF EngineInv, Behind
  <2>4. \A j \in 1 .. Len(plan'[phase']) : j < pos' =>
          /\ step'[plan'[phase'][j]] \in Settled
          /\ Wanted(plan[phase][j])' => Started(plan[phase][j])'
    BY <1>2, <2>1 DEF Wanted, Started
  <2>. QED BY <2>2, <2>3, <2>4 DEF Behind
<1>13. Errors'
  <2>1. phaseErr' <=> \E j \in 1 .. Len(L) : j < n /\ step'[L[j]] = "failed"
    BY <1>5, <1>7, <1>8
  <2>2. phase = "build" => ~buildFailed' /\ ~runErr' BY <1>1 DEF EngineInv, Errors
  <2>3. phase = "deploy" => ~buildFailed' /\ ~runErr' /\ NoneFailed("build")'
    BY <1>p, <1>1, <1>4 DEF EngineInv, Errors
  <2>4. phase = "finally" =>
          /\ ~(NoneFailed("build")' /\ NoneFailed("deploy")') => runErr'
          /\ runErr' /\ NoneFailed("build")' /\ NoneFailed("deploy")' =>
               \A s \in Members("deploy") : step'[s] = "skipped"
    BY <1>p, <1>1, <1>4 DEF EngineInv, Errors
  <2>. QED BY <1>2, <2>1, <2>2, <2>3, <2>4 DEF Errors
<1>. QED BY <1>10, <1>11, <1>12, <1>13 DEF EngineInv

\* A step that executes, with the constants it reads.
LEMMA RollingFacts ==
  ASSUME TypeInv, PlanInv, EngineInv, pc = "tasks"
  PROVE  LET w == pipe.width[Current]
             m == pipe.tasks[Current]
         IN  /\ Current \in Steps /\ w \in Nat \ {0} /\ m \in 0 .. MaxTasks /\ m \in Nat
             /\ pipe.retries[Current] \in Nat /\ from \in Nat \ {0}
             /\ \A i \in 1 .. m : i \in 1 .. MaxTasks /\ task[Current][i] \in Task
             /\ step[Current] = "running"
             /\ \E k \in 0 .. from : from = k * w + 1
             /\ from <= m
             /\ \A i \in 1 .. m : /\ i < from => task[Current][i].status = "success"
                                  /\ i >= from + w => task[Current][i] = NoTask
                                  /\ AtTask(Current, i)
<1>1. Current \in Steps /\ Current = plan[phase][pos] BY AtCurrent
<1>2. /\ pipe.width[Current] \in Nat \ {0} /\ pipe.tasks[Current] \in 0 .. MaxTasks
      /\ pipe.retries[Current] \in Nat /\ from \in Nat
      /\ task[Current] \in [1 .. MaxTasks -> Task]
  <2>1. pipe \in Pipeline BY RunConstants DEF TypeInv, TypeOK
  <2>2. /\ pipe.width[Current] \in Nat \ {0} /\ pipe.tasks[Current] \in 0 .. MaxTasks
        /\ pipe.retries[Current] \in Nat
    BY <1>1, <2>1 DEF Pipeline
  <2>3. from \in Nat /\ task \in [Steps -> [1 .. MaxTasks -> Task]] BY DEF TypeInv, TypeOK
  <2>. QED BY <1>1, <2>2, <2>3
<1>3. \A i \in 1 .. pipe.tasks[Current] : i \in 1 .. MaxTasks BY <1>2, RunConstants
<1>4. /\ step[Current] = "running"
      /\ \E k \in 0 .. from : from = k * pipe.width[Current] + 1
      /\ from <= pipe.tasks[Current]
      /\ \A i \in 1 .. pipe.tasks[Current] :
           /\ i < from => task[Current][i].status = "success"
           /\ i >= from + pipe.width[Current] => task[Current][i] = NoTask
           /\ AtTask(Current, i)
  BY <1>1 DEF EngineInv, Rolling
<1>5. from # 0
  <2>1. PICK k \in 0 .. from : from = k * pipe.width[Current] + 1 BY <1>4
  <2>2. PICK w \in Nat : w = pipe.width[Current] BY <1>2
  <2>3. k * w \in Nat BY <1>2, <2>1
  <2>. QED BY <2>1, <2>2, <2>3
<1>. QED BY <1>1, <1>2, <1>3, <1>4, <1>5, RunConstants

LEMMA EngineSettle ==
  ASSUME TypeInv, PlanInv, EngineInv, NEW ok \in BOOLEAN, SettleStep(ok)
  PROVE  EngineInv'
<1>. DEFINE v == Verdict(Current)
<1>1. AtStep /\ v # "execute" BY DEF SettleStep
<1>2. v \in Settled BY <1>1 DEF Verdict, Settled
<1>3. Current \in Steps BY <1>1, AtCurrent
<1>4. /\ step' = [step EXCEPT ![Current] = v]
      /\ task' = IF v = "skipped" THEN [task EXCEPT ![Current] = SkipTasks(Current)] ELSE task
      /\ phaseErr' = (phaseErr \/ v = "failed") /\ pos' = pos + 1
      /\ UNCHANGED <<pipe, plan, pc, phase, status, buildFailed, runErr>>
  BY DEF SettleStep
<1>5. \A s \in Steps : s # Current => task'[s] = task[s]
  BY <1>3, <1>4 DEF TypeInv, TypeOK
<1>6. ~Wanted(Current)
  <2>1. SUFFICES ASSUME Wanted(Current) PROVE v = "execute"
    BY <1>1
  <2>2. ~dependencyBlocked(Current) BY <2>1 DEF Wanted, dependencyBlocked
  <2>3. pipe.tasks[Current] # 0
    <3>1. pipe \in Pipeline BY RunConstants DEF TypeInv, TypeOK
    <3>2. pipe.tasks[Current] \in 0 .. MaxTasks BY <1>3, <3>1 DEF Pipeline
    <3>. QED BY <2>1, <3>2, RunConstants DEF Wanted
  <2>. QED BY <2>1, <2>2, <2>3 DEF Wanted, Verdict
<1>7. pc' = "step" BY <1>1, <1>4 DEF AtStep
<1>. HIDE DEF v
<1>. QED BY <1>1, <1>2, <1>4, <1>5, <1>6, <1>7, StepDone

LEMMA EngineFinish ==
  ASSUME TypeInv, PlanInv, EngineInv, NEW ok \in BOOLEAN, FinishStep(ok)
  PROVE  EngineInv'
<1>. DEFINE v == IF BatchFailed THEN "failed" ELSE "success"
<1>1. pc = "tasks" /\ BatchDone BY DEF FinishStep, BatchDone
<1>2. v \in Settled /\ (v = "failed" <=> BatchFailed) BY DEF Settled
<1>4. /\ step' = [step EXCEPT ![Current] = v]
      /\ phaseErr' = (phaseErr \/ BatchFailed) /\ pos' = pos + 1 /\ pc' = "step"
      /\ UNCHANGED <<pipe, plan, phase, task, status, buildFailed, runErr>>
  BY DEF FinishStep
<1>5. \E i \in 1 .. MaxTasks : task'[Current][i].attempts > 0
  <2>. DEFINE c == Current
              m == pipe.tasks[Current]
  <2>1. /\ from \in Nat \ {0} /\ m \in Nat /\ from <= m /\ pipe.width[c] \in Nat \ {0}
        /\ \A i \in 1 .. m : i \in 1 .. MaxTasks
        /\ \A i \in 1 .. m : i < from => task[c][i].status = "success"
        /\ \A i \in 1 .. m : AtTask(c, i)
    BY <1>1, RollingFacts
  <2>2. 1 \in 1 .. m BY <2>1
  <2>3. task[c][1].status \in {"success", "failed"}
    <3>1. CASE 1 < from BY <2>1, <2>2, <3>1
    <3>2. CASE ~(1 < from)
      <4>1. from = 1 /\ 1 < 1 + pipe.width[c] BY <2>1, <3>2
      <4>2. 1 \in Batch(c) BY <2>2, <4>1 DEF Batch
      <4>. QED BY <1>1, <4>2 DEF BatchDone
    <3>. QED BY <3>1, <3>2
  <2>4. task[c][1].attempts > 0 BY <2>1, <2>2, <2>3 DEF AtTask
  <2>. QED BY <1>4, <2>1, <2>2, <2>4
<1>6. phaseErr' = (phaseErr \/ v = "failed") BY <1>2, <1>4
<1>. HIDE DEF v
<1>. QED BY <1>1, <1>2, <1>4, <1>5, <1>6, StepDone

LEMMA EngineExecute ==
  ASSUME TypeInv, PlanInv, EngineInv, ExecuteStep
  PROVE  EngineInv'
<1>l. PICK c : c = Current OBVIOUS
<1>1. /\ AtStep /\ Verdict(c) = "execute" /\ step' = [step EXCEPT ![c] = "running"]
      /\ pc' = "tasks" /\ from' = 1
      /\ UNCHANGED <<pipe, plan, phase, pos, task, status, phaseErr, buildFailed, runErr>>
  BY <1>l DEF ExecuteStep
<1>2. /\ c \in Steps /\ c = plan[phase][pos] /\ pos \in 1 .. Len(plan[phase]) /\ InPhase
  BY <1>l, <1>1, AtCurrent
<1>3. /\ step'[c] = "running"
      /\ \A s \in Steps : s # c => step'[s] = step[s] /\ task'[s] = task[s]
  BY <1>1, <1>2 DEF TypeInv, TypeOK
<1>4. pipe \in Pipeline BY RunConstants DEF TypeInv, TypeOK
<1>5. /\ pipe.tasks[c] \in 0 .. MaxTasks /\ pipe.tasks[c] # 0
      /\ pipe.width[c] \in Nat \ {0} /\ pipe.retries[c] \in Nat
  BY <1>1, <1>2, <1>4 DEF Pipeline, Verdict
<1>6. Untouched(c)
  BY <1>1, <1>2 DEF EngineInv, Ahead, AtStep
<1>7. \A i \in 1 .. pipe.tasks[c] : task[c][i] = NoTask
  BY <1>5, <1>6, RunConstants DEF Untouched
<1>8. \A i \in 1 .. pipe.tasks[c] : AtTask(c, i)'
  BY <1>1, <1>5, <1>7 DEF AtTask, NoTask
<1>9. Rolling'
  <2>1. c = plan'[phase'][pos'] BY <1>1, <1>2
  <2>2. \E k \in 0 .. from' : from' = k * pipe'.width[c] + 1
    <3>1. 0 \in 0 .. from' /\ 0 * pipe.width[c] = 0 BY <1>1, <1>5
    <3>. QED BY <1>1, <3>1
  <2>3. from' <= pipe'.tasks[c] BY <1>1, <1>5, RunConstants
  <2>4. \A i \in 1 .. pipe'.tasks[c] :
          /\ ~(i < from')
          /\ task'[c][i] = NoTask
    BY <1>1, <1>5, <1>7
  <2>5. \A i \in 1 .. pipe'.tasks[c] : AtTask(c, i)' BY <1>1, <1>8
  <2>6. \A i : AtTask(c, i)' <=> AtTask(plan[phase][pos], i)' BY <2>1 DEF AtTask
  <2>. QED BY <1>3, <2>1, <2>2, <2>3, <2>4, <2>5, <2>6 DEF Rolling
<1>. QED BY <1>l, <1>1, <1>3, <1>9, StepHeld

LEMMA EngineNextBatch ==
  ASSUME TypeInv, PlanInv, EngineInv, NextBatch
  PROVE  EngineInv'
<1>l. PICK c : c = Current OBVIOUS
<1>w. PICK w : w = pipe.width[c] OBVIOUS
<1>m. PICK m : m = pipe.tasks[c] OBVIOUS
<1>f. PICK f : f = from OBVIOUS
<1>1. /\ pc = "tasks" /\ BatchDone /\ ~BatchFailed /\ f + w <= m /\ from' = f + w
      /\ UNCHANGED <<pipe, plan, pc, phase, pos, step, task, status, phaseErr, buildFailed, runErr>>
  BY <1>l, <1>w, <1>m, <1>f DEF NextBatch, BatchDone, MoreBatches
<1>2. /\ c \in Steps /\ w \in Nat \ {0} /\ m \in Nat /\ f \in Nat \ {0}
      /\ step[c] = "running"
      /\ \E k \in 0 .. f : f = k * w + 1
      /\ \A i \in 1 .. m : /\ i < f => task[c][i].status = "success"
                           /\ i >= f + w => task[c][i] = NoTask
                           /\ AtTask(c, i)
  BY <1>l, <1>w, <1>m, <1>f, <1>1, RollingFacts
<1>3. \A i \in 1 .. m : f <= i /\ i < f + w => task[c][i].status = "success"
  BY <1>l, <1>w, <1>m, <1>f, <1>1 DEF BatchDone, BatchFailed, Batch
<1>4. c = plan[phase][pos] BY <1>l, <1>1, AtCurrent
<1>5. Rolling'
  <2>1. c = plan'[phase'][pos'] /\ w = pipe'.width[c] /\ m = pipe'.tasks[c] /\ task' = task
        /\ step' = step
    BY <1>w, <1>m, <1>1, <1>4
  <2>2. \E k \in 0 .. from' : from' = k * w + 1
    <3>1. PICK k \in 0 .. f : f = k * w + 1 BY <1>2
    <3>2. k + 1 \in 0 .. (f + w) BY <1>2, <3>1
    <3>3. (k + 1) * w = k * w + w /\ k * w \in Nat BY <1>2, <3>1
    <3>4. f + w = (k + 1) * w + 1 BY <1>2, <3>1, <3>3
    <3>. QED BY <1>1, <3>2, <3>4
  <2>3. \A i \in 1 .. m : /\ i < f + w => task[c][i].status = "success"
                          /\ i >= f + w + w => task[c][i] = NoTask
    BY <1>2, <1>3
  <2>4. \A i \in 1 .. m : AtTask(plan[phase][pos], i)'
    BY <1>1, <1>2, <1>4 DEF AtTask
  <2>. QED BY <1>1, <1>2, <2>1, <2>2, <2>3, <2>4 DEF Rolling
<1>. QED BY <1>1, <1>5, StepHeld

\* A task of the batch is given another record.
LEMMA EngineSetTask ==
  ASSUME TypeInv, PlanInv, EngineInv, NEW i, InBatch(i), NEW u \in Task, SetTask(i, u),
         u.status \in {"pending", "running"} => u.attempts <= pipe.retries[Current],
         u.status \in {"success", "failed"} => u.attempts > 0,
         u.status = "failed" => u.attempts = pipe.retries[Current] + 1,
         UNCHANGED <<pipe, plan, pc, phase, pos, from, step, status, phaseErr, buildFailed, runErr>>
  PROVE  EngineInv'
<1>l. PICK c : c = Current OBVIOUS
<1>w. PICK w : w = pipe.width[c] OBVIOUS
<1>m. PICK m : m = pipe.tasks[c] OBVIOUS
<1>1. pc = "tasks" /\ i \in 1 .. m /\ from <= i /\ i < from + w
  BY <1>l, <1>w, <1>m DEF InBatch, Batch
<1>2. /\ c \in Steps /\ w \in Nat \ {0} /\ m \in Nat /\ from \in Nat \ {0} /\ from <= m
      /\ step[c] = "running"
      /\ \E k \in 0 .. from : from = k * w + 1
      /\ \A j \in 1 .. m : j \in 1 .. MaxTasks
      /\ \A j \in 1 .. m : /\ j < from => task[c][j].status = "success"
                           /\ j >= from + w => task[c][j] = NoTask
                           /\ AtTask(c, j)
  BY <1>l, <1>w, <1>m, <1>1, RollingFacts
<1>3. task \in [Steps -> [1 .. MaxTasks -> Task]] BY DEF TypeInv, TypeOK
<1>4. task' = [task EXCEPT ![c][i] = u] BY <1>l DEF SetTask
<1>5. /\ task'[c][i] = u
      /\ \A j \in 1 .. MaxTasks : j # i => task'[c][j] = task[c][j]
      /\ \A s \in Steps : s # c => task'[s] = task[s]
  BY <1>1, <1>2, <1>3, <1>4
<1>6. c = plan[phase][pos] BY <1>l, <1>1, AtCurrent
<1>7. \A j \in 1 .. m : AtTask(c, j)'
  <2>1. CASE pipe' = pipe BY <1>l, <1>2, <1>5, <2>1 DEF AtTask
  <2>. QED BY <2>1
<1>8. Rolling'
  <2>1. /\ c = plan'[phase'][pos'] /\ w = pipe'.width[c] /\ m = pipe'.tasks[c]
        /\ step' = step /\ from' = from
    BY <1>w, <1>m, <1>6
  <2>2. \A j \in 1 .. m : /\ j < from => task'[c][j].status = "success"
                          /\ j >= from + w => task'[c][j] = NoTask
    BY <1>1, <1>2, <1>5
  <2>3. \A j \in 1 .. m : AtTask(plan[phase][pos], j)' BY <1>7, <2>1 DEF AtTask
  <2>. QED BY <1>2, <2>1, <2>2, <2>3 DEF Rolling
<1>. QED BY <1>l, <1>1, <1>5, <1>8, StepHeld

LEMMA EngineTask ==
  ASSUME TypeInv, PlanInv, EngineInv, NEW i \in 1 .. MaxTasks,
         StartTask(i) \/ AppendLine(i) \/ BroadcastLine(i) \/ AttemptSucceeds(i) \/ AttemptFails(i)
  PROVE  /\ EngineInv'
         /\ \E u \in Task : SetTask(i, u)
<1>t. PICK t : t = task[Current][i] OBVIOUS
<1>1. InBatch(i)
  BY DEF StartTask, AppendLine, BroadcastLine, AttemptSucceeds, AttemptFails, Running
<1>2. /\ Current \in Steps /\ pc = "tasks" /\ t \in Task /\ t.attempts \in Nat
      /\ i \in 1 .. pipe.tasks[Current] /\ pipe.retries[Current] \in Nat
  BY <1>t, <1>1, BatchType, TypeParts DEF TaskType, Task
<1>3. /\ t.status \in {"pending", "running"} => t.attempts <= pipe.retries[Current]
      /\ t.status \in {"success", "failed"} => t.attempts > 0
      /\ t.status = "failed" => t.attempts = pipe.retries[Current] + 1
  <2>1. AtTask(Current, i) BY <1>2, RollingFacts
  <2>. QED BY <1>t, <2>1 DEF AtTask
<1>4. UNCHANGED <<pipe, plan, pc, phase, pos, from, step, status, phaseErr, buildFailed, runErr>>
  BY DEF StartTask, AppendLine, BroadcastLine, AttemptSucceeds, AttemptFails
<1>5. ASSUME NEW u \in Task, SetTask(i, u),
             u.status \in {"pending", "running"} => u.attempts <= pipe.retries[Current],
             u.status \in {"success", "failed"} => u.attempts > 0,
             u.status = "failed" => u.attempts = pipe.retries[Current] + 1
      PROVE  EngineInv' /\ \E x \in Task : SetTask(i, x)
  BY <1>1, <1>4, <1>5, EngineSetTask
<1>6. CASE StartTask(i)
  <2>1. t.status = "pending" BY <1>t, <1>6 DEF StartTask
  <2>2. PICK u : u = [t EXCEPT !.status = "running"] OBVIOUS
  <2>3. u \in Task /\ u.status = "running" /\ u.attempts = t.attempts
    BY <1>2, <2>2 DEF Task, StepStatus
  <2>4. SetTask(i, u) BY <1>t, <1>6, <2>2 DEF StartTask
  <2>. QED BY <1>3, <1>5, <2>1, <2>3, <2>4
<1>7. CASE AppendLine(i)
  <2>1. PICK n \in Nat : n = logs + 1 BY RunConstants DEF TypeInv, TypeOK
  <2>2. PICK u : u = [t EXCEPT !.line = n] OBVIOUS
  <2>3. u \in Task /\ u.status = t.status /\ u.attempts = t.attempts BY <1>2, <2>2 DEF Task
  <2>4. SetTask(i, u) BY <1>t, <1>7, <2>1, <2>2 DEF AppendLine
  <2>. QED BY <1>3, <1>5, <2>3, <2>4
<1>8. CASE BroadcastLine(i)
  <2>2. PICK u : u = [t EXCEPT !.line = 0] OBVIOUS
  <2>3. u \in Task /\ u.status = t.status /\ u.attempts = t.attempts BY <1>2, <2>2 DEF Task
  <2>4. SetTask(i, u) BY <1>t, <1>8, <2>2 DEF BroadcastLine
  <2>. QED BY <1>3, <1>5, <2>3, <2>4
<1>9. CASE AttemptSucceeds(i)
  <2>1. PICK n \in Nat : n = t.attempts + 1 BY <1>2
  <2>2. PICK u : u = [status |-> "success", attempts |-> n, line |-> 0] OBVIOUS
  <2>3. u \in Task /\ u.status = "success" /\ u.attempts > 0 BY <1>2, <2>1, <2>2 DEF Task, StepStatus
  <2>4. SetTask(i, u) BY <1>t, <1>9, <2>1, <2>2 DEF AttemptSucceeds
  <2>. QED BY <1>5, <2>3, <2>4
<1>10. CASE AttemptFails(i)
  <2>1. PICK n \in Nat : n = t.attempts + 1 BY <1>2
  <2>0. t.status = "running" BY <1>t, <1>10 DEF AttemptFails, Running
  <2>2. CASE n < pipe.retries[Current] + 1
    <3>2. PICK u : u = [t EXCEPT !.attempts = n] OBVIOUS
    <3>3. u \in Task /\ u.status = "running" /\ u.attempts = n BY <1>2, <2>0, <3>2 DEF Task
    <3>4. SetTask(i, u) BY <1>t, <1>10, <2>1, <2>2, <3>2 DEF AttemptFails, Attempts
    <3>. QED BY <1>2, <1>5, <2>2, <3>3, <3>4
  <2>3. CASE ~(n < pipe.retries[Current] + 1)
    <3>1. n = pipe.retries[Current] + 1 BY <1>2, <1>3, <2>0, <2>1, <2>3
    <3>2. PICK u : u = [status |-> "failed", attempts |-> n, line |-> 0] OBVIOUS
    <3>3. u \in Task /\ u.status = "failed" /\ u.attempts = n BY <3>2 DEF Task, StepStatus
    <3>4. SetTask(i, u) BY <1>t, <1>10, <2>1, <2>3, <3>2 DEF AttemptFails, Attempts
    <3>. QED BY <1>2, <1>5, <3>1, <3>3, <3>4
  <2>. QED BY <2>2, <2>3
<1>. QED BY <1>6, <1>7, <1>8, <1>9, <1>10

LEMMA EngineStays ==
  ASSUME EngineInv, UNCHANGED <<pipe, plan, pc, engineVars>>
  PROVE  EngineInv'
<1>1. /\ \A s : Untouched(s)' <=> Untouched(s)
      /\ \A s : Started(s)' <=> Started(s)
      /\ \A s : Wanted(s)' <=> Wanted(s)
      /\ \A p : NoneFailed(p)' <=> NoneFailed(p)
      /\ \A s, i : AtTask(s, i)' <=> AtTask(s, i)
  BY DEF Untouched, Started, Wanted, NoneFailed, AtTask, engineVars
<1>2. UNCHANGED <<pipe, plan, pc, phase, pos, from, step, task, status, phaseErr, buildFailed, runErr>>
  BY DEF engineVars
<1>3. Where' BY <1>1, <1>2 DEF EngineInv, Where, Going
<1>4. Ahead'
  <2>1. \A j \in 1 .. Len(plan[phase]) :
          (j > pos \/ (j = pos /\ pc = "step")) /\ InPhase => Untouched(plan[phase][j])'
    BY <1>2 DEF EngineInv, Ahead, Untouched
  <2>. QED BY <1>1, <1>2, <2>1 DEF EngineInv, Ahead, Going, InPhase
<1>5. Behind'
  <2>1. InPhase => \A j \in 1 .. Len(plan[phase]) : j < pos =>
          (Wanted(plan[phase][j])' => Started(plan[phase][j])')
    BY <1>2 DEF EngineInv, Behind, Wanted, Started
  <2>. QED BY <1>2, <2>1 DEF EngineInv, Behind, InPhase
<1>6. Errors' BY <1>1, <1>2 DEF EngineInv, Errors, InPhase
<1>7. Rolling' BY <1>2 DEF EngineInv, Rolling, AtTask
<1>. QED BY <1>3, <1>4, <1>5, <1>6, <1>7 DEF EngineInv

\* What a step of the whole system can be, for the engine: one of its actions,
\* the end of the run, or nothing.
LEMMA EngineKinds ==
  ASSUME [Next]_vars
  PROVE  \/ UNCHANGED <<pipe, plan, pc, engineVars>>
         \/ \E ok \in BOOLEAN : Prepare(ok) \/ StartRollback(ok)
         \/ StartBuild
         \/ \E ok, registered \in BOOLEAN : EndBuild \/ AfterBuild(registered, ok) \/ RestoreArtifact
         \/ \E ok \in BOOLEAN : SkipDeploy(ok) \/ RestoreFails(ok) \/ EndDeploy
         \/ \E ok \in BOOLEAN : SettleStep(ok) \/ FinishStep(ok)
         \/ ExecuteStep \/ NextBatch
         \/ \E i \in 1 .. MaxTasks : \/ StartTask(i) \/ AppendLine(i) \/ BroadcastLine(i)
                                     \/ AttemptSucceeds(i) \/ AttemptFails(i)
         \/ \E ok \in BOOLEAN : EndFinally(ok)
         \/ StartFails \/ (\E i \in 1 .. MaxTasks : Panic(i))
         \/ /\ pc' \in {"refused", "done", "close", "over", "crashed"}
            /\ UNCHANGED <<pipe, plan, engineVars>>
            /\ (pc' \in {"done", "close", "over"} => pc \in {"final", "done", "close"})
<1>1. CASE UNCHANGED vars BY <1>1 DEF vars
<1>2. ASSUME \/ Refuse \/ BroadcastDone \/ Close \/ Crash \/ \E ok \in BOOLEAN : FinalSave(ok)
      PROVE  /\ pc' \in {"refused", "done", "close", "over", "crashed"}
             /\ UNCHANGED <<pipe, plan, engineVars>>
             /\ (pc' \in {"done", "close", "over"} => pc \in {"final", "done", "close"})
  BY <1>2 DEF Refuse, BroadcastDone, Close, Crash, FinalSave
<1>3. ASSUME \/ \E v \in Viewers : Connect(v) \/ Serve(v) \/ Leave(v)
             \/ \E i \in 1 .. MaxTasks : AppendFails(i)
      PROVE  UNCHANGED <<pipe, plan, pc, engineVars>>
  BY <1>3 DEF Connect, Serve, Subscribe, Replay, Receive, ChannelClosed, Leave, runUnchanged,
     AppendFails
<1>4. CASE Engine BY <1>2, <1>3, <1>4 DEF Engine, Service, TaskStep, PluginStep
<1>. QED BY <1>1, <1>2, <1>3, <1>4 DEF Next

LEMMA EngineStep ==
  ASSUME TypeInv, PlanInv, EngineInv, [Next]_vars
  PROVE  EngineInv'
<1>1. ASSUME \/ \E ok \in BOOLEAN : EndFinally(ok)
             \/ StartFails \/ (\E i \in 1 .. MaxTasks : Panic(i))
             \/ pc' \in {"refused", "done", "close", "over", "crashed"}
      PROVE  EngineInv'
  <2>1. pc' \in {"refused", "final", "done", "close", "over", "crashed"}
    BY <1>1 DEF EndFinally, StartFails, Panic
  <2>. QED BY <2>1, Halts
<1>. QED BY <1>1, EngineKinds, EngineStays, EngineStart, EngineBuilt, EngineFinally, EngineSettle,
         EngineFinish, EngineExecute, EngineNextBatch, EngineTask

-----------------------------------------------------------------------------
(* What the engine's invariant is for.                                      *)

\* Rounding down: a later batch begins where this one ends.
LEMMA LaterBatch ==
  ASSUME NEW w \in Nat \ {0}, NEW k \in Nat, NEW x \in Nat, NEW y \in Nat,
         x >= k * w, y \div w > x \div w
  PROVE  y >= k * w + w
<1>1. PICK a \in Nat : a = x \div w /\ a * w <= x /\ x < a * w + w
  <2>. DEFINE a == x \div w
  <2>1. a \in Nat /\ a * w <= x /\ x < a * w + w OBVIOUS
  <2>. QED BY <2>1
<1>2. PICK b \in Nat : b = y \div w /\ b * w <= y
  <2>. DEFINE b == y \div w
  <2>1. b \in Nat /\ b * w <= y OBVIOUS
  <2>. QED BY <2>1
<1>3. k <= a
  <2>. SUFFICES ASSUME a + 1 <= k PROVE FALSE
    BY <1>1
  <2>1. PICK d \in Nat : k = a + 1 + d BY <1>1
  <2>2. k * w = a * w + w + d * w /\ d * w \in Nat BY <1>1, <2>1
  <2>3. a * w \in Nat BY <1>1
  <2>. QED BY <1>1, <2>2, <2>3
<1>4. k + 1 <= b BY <1>1, <1>2, <1>3
<1>5. PICK d \in Nat : b = k + 1 + d
  <2>1. PICK d \in Nat : d = b - (k + 1) BY <1>2, <1>4
  <2>. QED BY <1>2, <2>1
<1>6. b * w = k * w + w + d * w /\ d * w \in Nat /\ k * w \in Nat BY <1>5
<1>. QED BY <1>2, <1>6

ContainedIn(t, n, w, r) ==
  \A i \in 1 .. n : t[i].status = "failed" =>
    /\ t[i].attempts = r + 1
    /\ \A j \in 1 .. n : (j - 1) \div w > (i - 1) \div w => t[j] = NoTask

LEMMA RollingContains ==
  ASSUME NEW t, NEW n \in Nat, NEW w \in Nat \ {0}, NEW r, NEW f, NEW k \in Nat, f = k * w + 1,
         \A i \in 1 .. n : /\ i < f => t[i].status = "success"
                           /\ i >= f + w => t[i] = NoTask
                           /\ t[i].status = "failed" => t[i].attempts = r + 1
  PROVE  ContainedIn(t, n, w, r)
<1>. SUFFICES ASSUME NEW i \in 1 .. n, t[i].status = "failed",
                     NEW j \in 1 .. n, (j - 1) \div w > (i - 1) \div w
              PROVE  t[j] = NoTask
  BY DEF ContainedIn
<1>1. k * w \in Nat OBVIOUS
<1>2. i - 1 \in Nat /\ j - 1 \in Nat /\ i - 1 >= k * w BY <1>1
<1>3. j - 1 >= k * w + w BY <1>2, LaterBatch
<1>. QED BY <1>1, <1>3

Contained ==
  \A s \in Steps : ContainedIn(task[s], pipe.tasks[s], pipe.width[s], pipe.retries[s])

LEMMA SkipContains ==
  ASSUME TypeInv, NEW s \in Steps, NEW n \in 0 .. MaxTasks, NEW w, NEW r
  PROVE  /\ ContainedIn(SkipTasks(s), n, w, r)
         /\ \A i \in 1 .. MaxTasks : SkipTasks(s)[i].attempts = task[s][i].attempts
<1>1. \A i \in 1 .. n : i \in 1 .. MaxTasks BY RunConstants
<1>2. \A i \in 1 .. MaxTasks : task[s][i] \in Task BY DEF TypeInv, TypeOK
<1>3. \A i \in 1 .. MaxTasks : /\ SkipTasks(s)[i].status = "skipped"
                               /\ SkipTasks(s)[i].attempts = task[s][i].attempts
  BY <1>2 DEF SkipTasks, Task
<1>. QED BY <1>1, <1>3 DEF ContainedIn

\* What a step does to the tasks.
LEMMA TaskKinds ==
  ASSUME TypeInv, PlanInv, EngineInv, [Next]_vars
  PROVE  /\ pipe' = pipe
         /\ \/ task' = task
            \/ \A s \in Steps : task'[s] = task[s] \/ task'[s] = SkipTasks(s)
            \/ /\ pc = "tasks" /\ pc' = "tasks" /\ plan' = plan /\ phase' = phase /\ pos' = pos
               /\ from' = from
               /\ \A s \in Steps : s # Current => task'[s] = task[s]
<1>1. pipe' = pipe BY PlanFrame
<1>2. ASSUME NEW p \in Phases, skipPhase(p)
      PROVE  \A s \in Steps : task'[s] = task[s] \/ task'[s] = SkipTasks(s)
  BY <1>2 DEF skipPhase
<1>3. ASSUME NEW ok \in BOOLEAN, SettleStep(ok)
      PROVE  \A s \in Steps : task'[s] = task[s] \/ task'[s] = SkipTasks(s)
  <2>1. Current \in Steps BY <1>3, AtCurrent DEF SettleStep
  <2>2. task' = task \/ task' = [task EXCEPT ![Current] = SkipTasks(Current)]
    BY <1>3 DEF SettleStep
  <2>. QED BY <2>1, <2>2 DEF TypeInv, TypeOK
<1>4. ASSUME NEW i \in 1 .. MaxTasks,
             \/ StartTask(i) \/ AppendLine(i) \/ BroadcastLine(i)
             \/ AttemptSucceeds(i) \/ AttemptFails(i)
      PROVE  /\ pc = "tasks" /\ pc' = "tasks" /\ plan' = plan /\ phase' = phase /\ pos' = pos
             /\ from' = from
             /\ \A s \in Steps : s # Current => task'[s] = task[s]
  <2>1. /\ UNCHANGED <<plan, pc, phase, pos, from>> /\ InBatch(i)
    BY <1>4 DEF StartTask, AppendLine, BroadcastLine, AttemptSucceeds, AttemptFails, Running
  <2>2. pc = "tasks" BY <2>1 DEF InBatch
  <2>3. PICK u : SetTask(i, u) BY <1>4, EngineTask
  <2>. QED BY <2>1, <2>2, <2>3 DEF SetTask, TypeInv, TypeOK
<1>p. "build" \in Phases /\ "deploy" \in Phases BY DEF Phases
<1>5. ASSUME \/ \E ok \in BOOLEAN : StartRollback(ok) \/ SkipDeploy(ok) \/ RestoreFails(ok)
      PROVE  \A s \in Steps : task'[s] = task[s] \/ task'[s] = SkipTasks(s)
  BY <1>2, <1>5, <1>p DEF StartRollback, SkipDeploy, RestoreFails
<1>6. ASSUME \/ UNCHANGED <<pipe, plan, pc, engineVars>> \/ UNCHANGED <<pipe, plan, engineVars>>
             \/ StartBuild \/ EndBuild \/ RestoreArtifact \/ EndDeploy \/ ExecuteStep \/ NextBatch
             \/ StartFails \/ \E i \in 1 .. MaxTasks : Panic(i)
             \/ \E ok \in BOOLEAN : \/ Prepare(ok) \/ FinishStep(ok) \/ EndFinally(ok)
                                    \/ \E registered \in BOOLEAN : AfterBuild(registered, ok)
      PROVE  task' = task
  BY <1>6 DEF StartBuild, EndBuild, RestoreArtifact, EndDeploy, ExecuteStep, NextBatch, StartFails,
     Panic, Prepare, FinishStep, EndFinally, AfterBuild, engineVars
<1>. QED BY <1>1, <1>3, <1>4, <1>5, <1>6, EngineKinds

LEMMA ContainedStep ==
  ASSUME TypeInv, PlanInv, EngineInv, Contained, [Next]_vars
  PROVE  Contained'
<1>1. pipe' = pipe /\ pipe \in Pipeline BY PlanFrame, RunConstants DEF TypeInv, TypeOK
<1>2. \A s \in Steps : /\ pipe.tasks[s] \in 0 .. MaxTasks /\ pipe.tasks[s] \in Nat
                       /\ pipe.width[s] \in Nat \ {0}
  BY <1>1, RunConstants DEF Pipeline
<1>. SUFFICES ASSUME NEW s \in Steps
              PROVE  ContainedIn(task'[s], pipe.tasks[s], pipe.width[s], pipe.retries[s])
  BY <1>1 DEF Contained
<1>3. CASE task'[s] = task[s] BY <1>3 DEF Contained
<1>4. CASE task'[s] = SkipTasks(s) BY <1>2, <1>4, SkipContains
<1>5. CASE /\ pc = "tasks" /\ pc' = "tasks" /\ plan' = plan /\ phase' = phase /\ pos' = pos
           /\ from' = from /\ s = Current
  <2>1. EngineInv' BY EngineStep
  <2>2. s = plan'[phase'][pos'] BY <1>5, AtCurrent
  <2>3. /\ \E k \in 0 .. from : from = k * pipe.width[s] + 1
        /\ \A i \in 1 .. pipe.tasks[s] :
             /\ i < from => task'[s][i].status = "success"
             /\ i >= from + pipe.width[s] => task'[s][i] = NoTask
             /\ task'[s][i].status = "failed" => task'[s][i].attempts = pipe.retries[s] + 1
    BY <1>1, <1>5, <2>1, <2>2 DEF EngineInv, Rolling, AtTask
  <2>4. PICK k \in Nat : from = k * pipe.width[s] + 1
    <3>1. from \in Nat BY DEF TypeInv, TypeOK
    <3>. QED BY <2>3, <3>1
  <2>. QED BY <1>2, <2>3, <2>4, RollingContains
<1>. QED BY <1>3, <1>4, <1>5, TaskKinds

\* The invariant of the engine, and the three parts it stands on.
RunInv == TypeInv /\ PlanInv /\ EngineInv

LEMMA RunAlways == Spec => []RunInv
<1>1. Init => RunInv BY TypeInit, PlanInit, EngineInit DEF RunInv
<1>2. RunInv /\ [Next]_vars => RunInv' BY TypeStep, PlanStep, EngineStep DEF RunInv
<1>. QED BY <1>1, <1>2, PTL DEF Spec

\* executeTaskBatch waits for its batch and the loop stops at a failed one:
\* whatever tasks do at the same time, no target of a later batch is touched
\* once a target has failed for good, and that took every retry.
THEOREM FailuresAreContained == Spec => []FailureContained
<1>1. Init => Contained
  BY RunConstants DEF Init, Contained, ContainedIn, NoTask, Pipeline
<1>2. RunInv /\ Contained /\ [Next]_vars => Contained' BY ContainedStep DEF RunInv
<1>3. Contained => FailureContained BY DEF Contained, ContainedIn, FailureContained
<1>4. Spec => []Contained BY <1>1, <1>2, RunAlways, PTL DEF Spec
<1>. QED BY <1>3, <1>4, PTL

\* Nothing of the deploy phase has begun while the run is not past the build.
LEMMA DeployNotBegun ==
  ASSUME RunInv, pc \in {"plan", "start"} \/ (Going /\ phase = "build")
  PROVE  \A s \in Members("deploy") : ~Started(s)
<1>1. \A s \in Members("deploy") : Untouched(s)
  <2>1. Members("deploy") \subseteq Steps BY RunConstants DEF Members, Phases
  <2>2. CASE pc \in {"plan", "start"} BY <2>1, <2>2 DEF RunInv, EngineInv, Where
  <2>3. CASE Going /\ phase = "build" BY <2>3 DEF RunInv, EngineInv, Ahead
  <2>. QED BY <2>2, <2>3
<1>2. \A s \in Members("deploy") : \A i \in 1 .. MaxTasks : task[s][i] = NoTask
  BY <1>1 DEF Untouched
<1>3. ~(NoTask.attempts > 0) BY DEF NoTask
<1>. QED BY <1>2, <1>3 DEF Started

\* A run that was refused has done nothing.
NothingDone == pc \in {"plan", "refused"} => \A s \in Steps : ~Started(s)

LEMMA NothingStep ==
  ASSUME RunInv, NothingDone, [Next]_vars
  PROVE  NothingDone'
<1>i. TypeInv /\ PlanInv /\ EngineInv BY DEF RunInv
<1>. SUFFICES ASSUME pc' \in {"plan", "refused"}, NEW s \in Steps PROVE ~Started(s)'
  BY DEF NothingDone
<1>1. pc \in {"plan", "refused"} BY PlanFrame DEF Prepare, Refuse
<1>2. pipe \in Pipeline BY <1>i, RunConstants DEF TypeInv, TypeOK
<1>3. \A i \in 1 .. MaxTasks : SkipTasks(s)[i].attempts = task[s][i].attempts
  BY <1>i, <1>2, SkipContains DEF Pipeline
<1>4. task'[s] = task[s] \/ task'[s] = SkipTasks(s) BY <1>i, <1>1, TaskKinds
<1>5. \A i \in 1 .. MaxTasks : task'[s][i].attempts = task[s][i].attempts BY <1>3, <1>4
<1>. QED BY <1>1, <1>5 DEF NothingDone, Started

SoundBuild == ~buildFailed /\ NoneFailed("build")

OnArtifact == (\E s \in Members("deploy") : Started(s)) => SoundBuild

LEMMA OnArtifactStep ==
  ASSUME RunInv, OnArtifact, [Next]_vars
  PROVE  OnArtifact'
<1>i. TypeInv /\ PlanInv /\ EngineInv BY DEF RunInv
<1>p. /\ "build" \in Phases /\ "deploy" \in Phases /\ "finally" \in Phases
      /\ \A p \in Phases : Members(p) \subseteq Steps
  BY RunConstants DEF Phases, Members
\* Nothing that the property reads has changed.
<1>1. ASSUME UNCHANGED <<step, task, buildFailed>> PROVE OnArtifact'
  <2>1. \A s : Started(s)' <=> Started(s) BY <1>1 DEF Started
  <2>2. SoundBuild' <=> SoundBuild BY <1>1 DEF SoundBuild, NoneFailed
  <2>. QED BY <2>1, <2>2 DEF OnArtifact
\* No task has made an attempt.
<1>2. ASSUME \A s \in Members("deploy") : ~Started(s),
             \A s \in Steps : task'[s] = task[s] \/ task'[s] = SkipTasks(s)
      PROVE  OnArtifact'
  <2>1. ASSUME NEW s \in Members("deploy") PROVE ~Started(s)'
    <3>1. s \in Steps BY <1>p
    <3>2. pipe \in Pipeline BY <1>i, RunConstants DEF TypeInv, TypeOK
    <3>3. \A i \in 1 .. MaxTasks : SkipTasks(s)[i].attempts = task[s][i].attempts
      BY <1>i, <3>1, <3>2, SkipContains DEF Pipeline
    <3>4. \A i \in 1 .. MaxTasks : task'[s][i].attempts = task[s][i].attempts
      BY <1>2, <3>1, <3>3
    <3>. QED BY <1>2, <3>4 DEF Started
  <2>. QED BY <2>1 DEF OnArtifact
\* One step of the current phase.
<1>3. ASSUME pc = "tasks" \/ AtStep, buildFailed' = buildFailed,
             \A s \in Steps : s # Current => step'[s] = step[s] /\ task'[s] = task[s]
      PROVE  OnArtifact'
  <2>1. /\ InPhase /\ phase \in Phases
        /\ \A p \in Phases : p # phase => \A s \in Members(p) : s # Current /\ s \in Steps
    BY <1>i, <1>3, AtCurrent
  <2>2. ASSUME NEW p \in Phases, p # phase PROVE \A s \in Members(p) : Same(s)
    BY <1>3, <2>1, <2>2 DEF Same
  <2>3. phase # "build" => (SoundBuild' <=> SoundBuild)
    BY <1>p, <1>3, <2>2 DEF SoundBuild, NoneFailed, Same
  <2>4. phase # "deploy" => \A s \in Members("deploy") : Started(s)' <=> Started(s)
    BY <1>p, <2>2, SameKeeps
  <2>5. CASE phase = "build"
    <3>1. \A s \in Members("deploy") : ~Started(s)
      BY <2>1, <2>5, DeployNotBegun DEF Going, InPhase
    <3>. QED BY <2>4, <2>5, <3>1 DEF OnArtifact
  <2>6. CASE phase = "deploy"
    <3>1. SoundBuild BY <1>i, <2>1, <2>6 DEF EngineInv, Errors, SoundBuild
    <3>. QED BY <2>3, <2>6, <3>1 DEF OnArtifact
  <2>7. CASE phase = "finally" BY <2>3, <2>4, <2>7 DEF OnArtifact
  <2>. QED BY <2>1, <2>5, <2>6, <2>7 DEF Phases
<1>4. ASSUME NEW ok \in BOOLEAN, NEW registered \in BOOLEAN,
             \/ Prepare(ok) \/ StartRollback(ok) \/ EndBuild \/ AfterBuild(registered, ok)
             \/ SkipDeploy(ok) \/ RestoreFails(ok)
      PROVE  OnArtifact'
  <2>1. pc \in {"plan", "start"} \/ (Going /\ phase = "build")
    <3>1. CASE Prepare(ok) \/ StartRollback(ok) BY <3>1 DEF Prepare, StartRollback
    <3>2. CASE EndBuild BY <3>2 DEF EndBuild, AtPhaseEnd, Going
    <3>3. CASE AfterBuild(registered, ok) \/ SkipDeploy(ok) \/ RestoreFails(ok)
      <4>1. pc \in {"afterBuild", "skipDeploy", "beforeDeploy"}
        BY <3>3 DEF AfterBuild, SkipDeploy, RestoreFails
      <4>. QED BY <1>i, <4>1 DEF EngineInv, Where, Going
    <3>. QED BY <1>4, <3>1, <3>2, <3>3
  <2>2. \A s \in Steps : task'[s] = task[s] \/ task'[s] = SkipTasks(s)
    BY <1>4 DEF Prepare, StartRollback, EndBuild, AfterBuild, SkipDeploy, RestoreFails, skipPhase
  <2>. QED BY <1>2, <2>1, <2>2, DeployNotBegun
<1>5. ASSUME NEW ok \in BOOLEAN, SettleStep(ok) \/ FinishStep(ok) PROVE OnArtifact'
  <2>1. pc = "tasks" \/ AtStep BY <1>5 DEF SettleStep, FinishStep, BatchDone
  <2>2. Current \in Steps BY <1>i, <2>1, AtCurrent
  <2>3. buildFailed' = buildFailed BY <1>5 DEF SettleStep, FinishStep
  <2>4. \A s \in Steps : s # Current => step'[s] = step[s] /\ task'[s] = task[s]
    BY <1>i, <1>5, <2>2 DEF SettleStep, FinishStep, TypeInv, TypeOK
  <2>. QED BY <1>3, <2>1, <2>3, <2>4
<1>6. ASSUME ExecuteStep PROVE OnArtifact'
  <2>1. AtStep BY <1>6 DEF ExecuteStep
  <2>2. Current \in Steps BY <1>i, <2>1, AtCurrent
  <2>3. buildFailed' = buildFailed BY <1>6 DEF ExecuteStep
  <2>4. \A s \in Steps : s # Current => step'[s] = step[s] /\ task'[s] = task[s]
    BY <1>i, <1>6, <2>2 DEF ExecuteStep, TypeInv, TypeOK
  <2>. QED BY <1>3, <2>1, <2>3, <2>4
<1>7. ASSUME NEW i \in 1 .. MaxTasks,
             \/ StartTask(i) \/ AppendLine(i) \/ BroadcastLine(i)
             \/ AttemptSucceeds(i) \/ AttemptFails(i)
      PROVE  OnArtifact'
  <2>1. /\ UNCHANGED <<step, buildFailed>> /\ InBatch(i)
    BY <1>7 DEF StartTask, AppendLine, BroadcastLine, AttemptSucceeds, AttemptFails, Running
  <2>2. pc = "tasks" BY <2>1 DEF InBatch
  <2>3. PICK u : SetTask(i, u) BY <1>i, <1>7, EngineTask
  <2>4. \A s \in Steps : s # Current => task'[s] = task[s]
    BY <1>i, <2>3 DEF SetTask, TypeInv, TypeOK
  <2>. QED BY <1>3, <2>1, <2>2, <2>4
<1>8. ASSUME \/ UNCHANGED <<pipe, plan, pc, engineVars>> \/ UNCHANGED <<pipe, plan, engineVars>>
             \/ StartBuild \/ RestoreArtifact \/ EndDeploy \/ NextBatch
             \/ StartFails \/ (\E i \in 1 .. MaxTasks : Panic(i))
             \/ \E ok \in BOOLEAN : EndFinally(ok)
      PROVE  OnArtifact'
  <2>1. UNCHANGED <<step, task, buildFailed>>
    BY <1>8 DEF StartBuild, RestoreArtifact, EndDeploy, NextBatch, StartFails, Panic, EndFinally,
       engineVars
  <2>. QED BY <1>1, <2>1
<1>. QED BY <1>4, <1>5, <1>6, <1>7, <1>8, EngineKinds

\* Whatever fails, is skipped, is retried or is rolled back, no deploy step has
\* made an attempt after a build that failed or whose artifact was not
\* registered.
THEOREM DeploysOnArtifact == Spec => []DeployNeedsArtifact
<1>1. Init => OnArtifact /\ NothingDone
  <2>. SUFFICES ASSUME Init PROVE \A s \in Steps : ~Started(s)
    BY RunConstants DEF OnArtifact, NothingDone, Members, Phases
  <2>1. ~(NoTask.attempts > 0) BY DEF NoTask
  <2>2. \A s \in Steps : \A i \in 1 .. MaxTasks : task[s][i] = NoTask BY DEF Init
  <2>. QED BY <2>1, <2>2 DEF Started
<1>2. RunInv /\ OnArtifact /\ NothingDone /\ [Next]_vars => OnArtifact' /\ NothingDone'
  BY OnArtifactStep, NothingStep
<1>3. RunInv /\ OnArtifact /\ NothingDone => DeployNeedsArtifact
  <2>. SUFFICES ASSUME RunInv, OnArtifact, NothingDone PROVE DeployNeedsArtifact
    OBVIOUS
  <2>1. CASE pc \notin {"plan", "refused"}
    <3>1. Shape BY <2>1, PlanShape DEF RunInv
    <3>2. ToSet(plan["deploy"]) = Members("deploy") /\ ToSet(plan["build"]) = Members("build")
      BY <3>1 DEF Shape, Phases
    <3>. QED BY <3>2 DEF OnArtifact, DeployNeedsArtifact, SoundBuild, NoneFailed
  <2>2. CASE pc \in {"plan", "refused"}
    <3>1. plan["deploy"] \in Seq(Steps) BY DEF RunInv, TypeInv, TypeOK, Phases
    <3>2. \A s \in ToSet(plan["deploy"]) : s \in Steps BY <3>1 DEF ToSet
    <3>. QED BY <2>2, <3>2 DEF NothingDone, DeployNeedsArtifact
  <2>. QED BY <2>1, <2>2
<1>4. Spec => [](OnArtifact /\ NothingDone) BY <1>1, <1>2, RunAlways, PTL DEF Spec
<1>. QED BY <1>3, <1>4, RunAlways, PTL

EndHolds == VerdictTrue /\ FinallyRuns

LEMMA EndStep ==
  ASSUME RunInv, EndHolds, [Next]_vars
  PROVE  EndHolds'
<1>i. TypeInv /\ PlanInv /\ EngineInv BY DEF RunInv
<1>p. "build" \in Phases /\ "deploy" \in Phases /\ "finally" \in Phases BY DEF Phases
\* The run was over, and nothing it recorded has changed.
<1>1. ASSUME RanToEnd' => RanToEnd, UNCHANGED <<pipe, plan, step, task, status>>
      PROVE  EndHolds'
  BY <1>1 DEF EndHolds, VerdictTrue, FinallyRuns, Started
<1>2. ASSUME ~RanToEnd' PROVE EndHolds'
  BY <1>2 DEF EndHolds, VerdictTrue, FinallyRuns
\* It ends: the engine's invariant at the last position of the last phase.
<1>3. ASSUME NEW ok \in BOOLEAN, EndFinally(ok) PROVE EndHolds'
  <2>1. /\ pc = "step" /\ phase = "finally" /\ pos > Len(plan["finally"])
        /\ status' = IF runErr \/ phaseErr THEN "failed" ELSE "success"
        /\ UNCHANGED <<pipe, plan, step, task>>
    BY <1>3 DEF EndFinally, AtPhaseEnd, RunFailed
  <2>2. Shape /\ InPhase BY <1>i, <2>1, PlanShape DEF InPhase
  <2>3. pos \in Nat /\ Len(plan["finally"]) \in Nat
    BY <1>i, <1>p, <2>2 DEF TypeInv, TypeOK, Shape
  <2>4. \A j \in 1 .. Len(plan["finally"]) : j < pos BY <2>1, <2>3
  <2>5. /\ \A j \in 1 .. Len(plan["finally"]) :
             /\ step[plan["finally"][j]] \in Settled
             /\ Wanted(plan["finally"][j]) => Started(plan["finally"][j])
        /\ phaseErr <=> \E j \in 1 .. Len(plan["finally"]) : step[plan["finally"][j]] = "failed"
        /\ \A s \in Members("build") : step[s] \in Settled
        /\ \A s \in Members("deploy") : step[s] \in Settled
        /\ ~(NoneFailed("build") /\ NoneFailed("deploy")) => runErr
        /\ runErr /\ NoneFailed("build") /\ NoneFailed("deploy") =>
             \A s \in Members("deploy") : step[s] = "skipped"
    BY <1>i, <2>1, <2>2, <2>4 DEF EngineInv, Behind, Errors
  <2>6. /\ \A s \in Members("finally") : \E j \in 1 .. Len(plan["finally"]) : s = plan["finally"][j]
        /\ \A s \in Steps : s \in Members("build") \/ s \in Members("deploy") \/ s \in Members("finally")
        /\ \A p \in Phases : \A s \in Members(p) : s \in Steps
        /\ ToSet(plan["finally"]) = Members("finally") /\ ToSet(plan["deploy"]) = Members("deploy")
    BY <1>p, <2>2 DEF Shape, Phases
  <2>7. \A s \in Members("finally") : step[s] \in Settled /\ (Wanted(s) => Started(s))
    BY <2>5, <2>6
  <2>8. \A s \in Steps : step[s] \in Settled BY <2>5, <2>6, <2>7
  <2>9. ASSUME NEW s \in Steps, step[s] = "failed" PROVE runErr \/ phaseErr
    <3>1. CASE s \in Members("build") \/ s \in Members("deploy")
      BY <2>5, <2>9, <3>1 DEF NoneFailed
    <3>2. CASE s \in Members("finally") BY <2>5, <2>6, <2>9, <3>2
    <3>. QED BY <2>6, <3>1, <3>2
  <2>10. ASSUME runErr \/ phaseErr, \A s \in Steps : step[s] # "failed"
         PROVE  \A s \in Members("deploy") : step[s] = "skipped"
    <3>1. NoneFailed("build") /\ NoneFailed("deploy") /\ NoneFailed("finally")
      BY <1>p, <2>6, <2>10 DEF NoneFailed
    <3>2. ~phaseErr
      <4>1. \A j \in 1 .. Len(plan["finally"]) : plan["finally"][j] \in Members("finally")
        BY <1>p, <2>2 DEF Shape
      <4>. QED BY <2>5, <3>1, <4>1 DEF NoneFailed
    <3>. QED BY <2>5, <2>10, <3>1, <3>2
  <2>11. VerdictTrue'
    <3>1. \A s \in Steps : step'[s] \in {"success", "failed", "skipped"} BY <2>1, <2>8 DEF Settled
    <3>2. (\E s \in Steps : step'[s] = "failed") => status' = "failed" BY <2>1, <2>9
    <3>3. (status' = "failed" /\ \A s \in Steps : step'[s] # "failed") =>
            \A s \in ToSet(plan'["deploy"]) : step'[s] = "skipped"
      BY <2>1, <2>6, <2>10
    <3>. QED BY <3>1, <3>2, <3>3 DEF VerdictTrue
  <2>12. FinallyRuns'
    <3>1. \A s \in Members("finally") : Wanted(s)' => Started(s)'
      BY <2>1, <2>7 DEF Wanted, Started
    <3>2. ToSet(plan'["finally"]) = Members("finally") BY <2>1, <2>6
    <3>. QED BY <3>1, <3>2 DEF FinallyRuns, Wanted
  <2>. QED BY <2>11, <2>12 DEF EndHolds
<1>4. ASSUME StartFails \/ (\E i \in 1 .. MaxTasks : Panic(i)) PROVE EndHolds'
  <2>1. CASE StartFails
    <3>1. phase = "build" BY <1>i, <2>1 DEF StartFails, EngineInv, Where
    <3>2. phase' = "build" BY <2>1, <3>1 DEF StartFails
    <3>. QED BY <1>2, <3>2 DEF RanToEnd
  <2>2. CASE \E i \in 1 .. MaxTasks : Panic(i)
    <3>1. pc = "tasks" /\ UNCHANGED <<phase, pos, plan>>
      BY <2>2 DEF Panic, Running, InBatch
    <3>2. pos \in 1 .. Len(plan[phase]) /\ Len(plan[phase]) \in Nat BY <1>i, <3>1, AtCurrent
    <3>3. ~(phase = "finally" /\ pos > Len(plan["finally"])) BY <3>2
    <3>. QED BY <1>2, <3>1, <3>3 DEF RanToEnd
  <2>. QED BY <1>4, <2>1, <2>2
<1>5. ASSUME UNCHANGED <<pipe, plan, pc, engineVars>> PROVE EndHolds'
  BY <1>1, <1>5 DEF RanToEnd, engineVars
<1>6. ASSUME pc' \in {"refused", "done", "close", "over", "crashed"},
             UNCHANGED <<pipe, plan, engineVars>>,
             pc' \in {"done", "close", "over"} => pc \in {"final", "done", "close"}
      PROVE  EndHolds'
  BY <1>1, <1>6 DEF RanToEnd, engineVars
<1>7. ASSUME pc' \in Pcs \ {"final", "done", "close", "over"} PROVE EndHolds'
  BY <1>2, <1>7 DEF RanToEnd
<1>8. ASSUME NEW ok \in BOOLEAN, NEW registered \in BOOLEAN,
             \/ Prepare(ok) \/ StartRollback(ok) \/ StartBuild \/ EndBuild
             \/ AfterBuild(registered, ok) \/ RestoreArtifact \/ SkipDeploy(ok) \/ RestoreFails(ok)
             \/ EndDeploy \/ SettleStep(ok) \/ FinishStep(ok) \/ ExecuteStep \/ NextBatch
      PROVE  pc' \in Pcs \ {"final", "done", "close", "over"}
  BY <1>8 DEF Prepare, StartRollback, StartBuild, EndBuild, AfterBuild, RestoreArtifact, SkipDeploy,
     RestoreFails, EndDeploy, SettleStep, FinishStep, ExecuteStep, NextBatch, AtPhaseEnd, AtStep,
     BatchDone, EnterPhase, Pcs
<1>9. ASSUME NEW i \in 1 .. MaxTasks,
             \/ StartTask(i) \/ AppendLine(i) \/ BroadcastLine(i)
             \/ AttemptSucceeds(i) \/ AttemptFails(i)
      PROVE  pc' \in Pcs \ {"final", "done", "close", "over"}
  BY <1>9 DEF StartTask, AppendLine, BroadcastLine, AttemptSucceeds, AttemptFails, Running, InBatch, Pcs
<1>. QED BY <1>3, <1>4, <1>5, <1>6, <1>7, <1>8, <1>9, EngineKinds

LEMMA EndAlways == Spec => []EndHolds
<1>1. Init => EndHolds BY DEF Init, EndHolds, VerdictTrue, FinallyRuns, RanToEnd
<1>2. RunInv /\ EndHolds /\ [Next]_vars => EndHolds' BY EndStep
<1>. QED BY <1>1, <1>2, RunAlways, PTL DEF Spec

\* The status a run ends with is the truth about its steps, also of those that
\* were skipped and of the hooks between the phases (RunWithOptions).
THEOREM VerdictIsTrue == Spec => []VerdictTrue
<1>1. EndHolds => VerdictTrue BY DEF EndHolds
<1>. QED BY <1>1, EndAlways, PTL

\* The finally phase is executed whatever happened before it.
THEOREM FinallyAlwaysRuns == Spec => []FinallyRuns
<1>1. EndHolds => FinallyRuns BY DEF EndHolds
<1>. QED BY <1>1, EndAlways, PTL
-----------------------------------------------------------------------------
(* The refinement: the recorded states of the steps and the run's status     *)
(* are an execution of DeploymentRun.                                        *)

LEMMA AbstractSteps ==
  /\ Abstract!Step = Steps
  /\ Abstract!Step = Members("build") \cup Members("deploy") \cup Members("finally")
  BY RunConstants DEF Abstract!Step, Members, Phases

LEMMA RefineInit == Init => Abstract!AbsInit
<1>. SUFFICES ASSUME Init PROVE Abstract!AbsInit
  OBVIOUS
<1>1. pipe.needs \in [Steps -> SUBSET Steps] BY RunConstants DEF Init, Pipeline
<1>2. step = [s \in Steps |-> "pending"] /\ status = "none" BY DEF Init
<1>. QED BY <1>1, <1>2, AbstractSteps DEF Abstract!AbsInit

\* A whole phase is skipped, or one step.
LEMMA RefineSkip ==
  ASSUME NEW S \in SUBSET Steps, \A s \in S : step[s] = "pending",
         step' = [s \in Steps |-> IF s \in S THEN "skipped" ELSE step[s]],
         status \in {"running", "failed"}, UNCHANGED <<pipe, status>>
  PROVE  Abstract!AbsNext
<1>1. S \in SUBSET {s \in Abstract!Step : step[s] = "pending"} BY AbstractSteps
<1>2. step' = [s \in Abstract!Step |-> IF s \in S THEN "skipped" ELSE step[s]] BY AbstractSteps
<1>3. Abstract!Skip BY <1>1, <1>2 DEF Abstract!Skip
<1>. QED BY <1>3 DEF Abstract!AbsNext

LEMMA RefineSkipPhase ==
  ASSUME RunInv, pc \in {"start", "skipDeploy", "beforeDeploy"}, NEW p \in {"build", "deploy"},
         p = "build" => pc = "start", skipPhase(p), UNCHANGED <<pipe, status>>
  PROVE  Abstract!AbsNext
<1>i. TypeInv /\ PlanInv /\ EngineInv BY DEF RunInv
<1>1. Shape BY <1>i, PlanShape
<1>2. ToSet(plan[p]) = Members(p) /\ Members(p) \subseteq Steps BY <1>1 DEF Shape, Phases
<1>3. \A s \in Members(p) : step[s] = "pending"
  <2>1. CASE p = "build" BY <1>i, <1>2, <2>1 DEF EngineInv, Where, Untouched
  <2>2. CASE p = "deploy"
    <3>1. Going /\ phase = "build" BY <1>i DEF EngineInv, Where, Going
    <3>. QED BY <1>i, <2>2, <3>1 DEF EngineInv, Ahead, Untouched
  <2>. QED BY <2>1, <2>2
<1>4. status = "running" BY <1>i DEF EngineInv, Where, Going
<1>. QED BY <1>2, <1>3, <1>4, RefineSkip DEF skipPhase

\* runPhase only comes to a step whose predecessors are settled, and only runs
\* or judges it when all it needs has succeeded.
LEMMA RefineReady ==
  ASSUME RunInv, AtStep
  PROVE  /\ Current \in Steps /\ step[Current] = "pending" /\ status \in {"running", "failed"}
         /\ ~dependencyBlocked(Current) => Abstract!Ready(Current)
<1>i. TypeInv /\ PlanInv /\ EngineInv BY DEF RunInv
<1>p. "build" \in Phases /\ "deploy" \in Phases /\ "finally" \in Phases BY DEF Phases
<1>1. /\ Shape /\ InPhase /\ phase \in Phases /\ pos \in 1 .. Len(plan[phase])
      /\ Current = plan[phase][pos] /\ Current \in Steps /\ Current \in Members(phase)
  BY <1>i, AtCurrent
<1>2. pc = "step" BY DEF AtStep
<1>3. step[Current] = "pending" BY <1>i, <1>1, <1>2 DEF EngineInv, Ahead, Untouched
<1>4. status \in {"running", "failed"} /\ (phase # "finally" => status = "running")
  BY <1>i, <1>2 DEF EngineInv, Where, Going
<1>5. \A p \in Phases : Current \in Members(p) => p = phase BY <1>1 DEF Shape
<1>6. ASSUME Current \in Members("deploy")
      PROVE  /\ \A b \in Members("build") : step[b] \in {"success", "skipped"}
             /\ status = "running"
  <2>1. phase = "deploy" BY <1>p, <1>5, <1>6
  <2>2. \A b \in Members("build") : step[b] \in Settled /\ step[b] # "failed"
    BY <1>i, <1>1, <2>1 DEF EngineInv, Behind, Errors, NoneFailed
  <2>. QED BY <1>4, <2>1, <2>2 DEF Settled
<1>7. ASSUME Current \in Members("finally")
      PROVE  \A e \in Members("build") \cup Members("deploy") : step[e] \in Settled
  <2>1. phase = "finally" BY <1>p, <1>5, <1>7
  <2>. QED BY <1>i, <1>1, <2>1 DEF EngineInv, Behind
<1>8. ASSUME ~dependencyBlocked(Current) PROVE Abstract!Ready(Current)
  <2>1. \A d \in pipe.needs[Current] : step[d] = "success" BY <1>8 DEF dependencyBlocked
  <2>. QED BY <1>3, <1>4, <1>6, <1>7, <2>1 DEF Abstract!Ready, Abstract!Settled, Settled, Members
<1>. QED BY <1>1, <1>3, <1>4, <1>8

LEMMA RefineSettle ==
  ASSUME RunInv, NEW ok \in BOOLEAN, SettleStep(ok)
  PROVE  Abstract!AbsNext
<1>1. AtStep /\ UNCHANGED <<pipe, status>> BY DEF SettleStep
<1>2. PICK c : c = Current OBVIOUS
<1>3. PICK v : v = Verdict(c) OBVIOUS
<1>4. step' = [step EXCEPT ![c] = v] /\ v # "execute" BY <1>2, <1>3 DEF SettleStep
<1>5. /\ c \in Steps /\ step[c] = "pending" /\ status \in {"running", "failed"}
      /\ ~dependencyBlocked(c) => Abstract!Ready(c)
  BY <1>1, <1>2, RefineReady
<1>6. step \in [Steps -> StepStatus] BY DEF RunInv, TypeInv, TypeOK
<1>7. CASE v = "skipped"
  <2>1. step' = [s \in Steps |-> IF s \in {c} THEN "skipped" ELSE step[s]] BY <1>4, <1>6, <1>7
  <2>2. {c} \in SUBSET Steps /\ \A s \in {c} : step[s] = "pending" BY <1>5
  <2>. QED BY <1>1, <1>5, <2>1, <2>2, RefineSkip
<1>8. CASE v # "skipped"
  <2>1. v \in {"success", "failed"} /\ ~dependencyBlocked(c) BY <1>3, <1>4, <1>8 DEF Verdict
  <2>2. Abstract!Judge(c) BY <1>1, <1>4, <1>5, <2>1 DEF Abstract!Judge
  <2>. QED BY <1>5, <2>2, AbstractSteps DEF Abstract!AbsNext
<1>. QED BY <1>7, <1>8

LEMMA RefineExecute ==
  ASSUME RunInv, ExecuteStep
  PROVE  Abstract!AbsNext
<1>1. /\ AtStep /\ UNCHANGED <<pipe, status>> /\ step' = [step EXCEPT ![Current] = "running"]
      /\ ~dependencyBlocked(Current)
  BY DEF ExecuteStep, Verdict
<1>2. Current \in Steps /\ Abstract!Ready(Current) BY <1>1, RefineReady
<1>3. Abstract!Run(Current) BY <1>1, <1>2 DEF Abstract!Run
<1>. QED BY <1>2, <1>3, AbstractSteps DEF Abstract!AbsNext

LEMMA RefineFinish ==
  ASSUME RunInv, NEW ok \in BOOLEAN, FinishStep(ok)
  PROVE  Abstract!AbsNext
<1>i. TypeInv /\ PlanInv /\ EngineInv BY DEF RunInv
<1>1. pc = "tasks" /\ UNCHANGED <<pipe, status>> BY DEF FinishStep, BatchDone
<1>2. PICK r \in {"success", "failed"} : step' = [step EXCEPT ![Current] = r] BY DEF FinishStep
<1>3. Current \in Steps /\ Current = plan[phase][pos] BY <1>i, <1>1, AtCurrent
<1>4. step[Current] = "running" BY <1>i, <1>1, <1>3 DEF EngineInv, Rolling
<1>5. Abstract!Finish(Current) BY <1>1, <1>2, <1>4 DEF Abstract!Finish
<1>. QED BY <1>3, <1>5, AbstractSteps DEF Abstract!AbsNext

LEMMA RefineFails ==
  ASSUME status = "running", status' = "failed", UNCHANGED <<pipe, step>>
  PROVE  Abstract!AbsNext
  BY DEF Abstract!AbsNext, Abstract!Decide

\* The last verdict is success only when no step failed, which is VerdictTrue
\* in the state that EndFinally leads to.
LEMMA RefineEnd ==
  ASSUME RunInv, EndHolds, NEW ok \in BOOLEAN, EndFinally(ok), [Next]_vars
  PROVE  [Abstract!AbsNext]_(Abstract!absVars)
<1>1. /\ pc = "step" /\ phase = "finally" /\ pos > Len(plan["finally"])
      /\ pc' = "final" /\ UNCHANGED <<pipe, plan, phase, pos, step>>
      /\ status' = IF runErr \/ phaseErr THEN "failed" ELSE "success"
  BY DEF EndFinally, AtPhaseEnd, RunFailed
<1>2. status = "running" \/ (status = "failed" /\ runErr)
  BY <1>1 DEF RunInv, EngineInv, Where, Going
<1>3. RanToEnd' BY <1>1 DEF RanToEnd
<1>4. /\ \A s \in Steps : step[s] \in {"success", "failed", "skipped"}
      /\ (\E s \in Steps : step[s] = "failed") => status' = "failed"
  BY <1>1, <1>3, EndStep DEF EndHolds, VerdictTrue
<1>5. CASE status = "failed"
  <2>1. status' = status BY <1>1, <1>2, <1>5
  <2>. QED BY <1>1, <2>1 DEF Abstract!absVars
<1>6. CASE status = "running" /\ status' = "failed" BY <1>1, <1>6, RefineFails
<1>7. CASE status = "running" /\ status' = "success"
  <2>1. \A s \in Abstract!Step : step[s] \in {"success", "skipped"} BY <1>4, <1>7, AbstractSteps
  <2>2. Abstract!Decide BY <1>1, <1>7, <2>1 DEF Abstract!Decide
  <2>. QED BY <2>2 DEF Abstract!AbsNext
<1>. QED BY <1>1, <1>2, <1>5, <1>6, <1>7

LEMMA RefineStep ==
  ASSUME RunInv, EndHolds, [Next]_vars
  PROVE  [Abstract!AbsNext]_(Abstract!absVars)
<1>i. TypeInv /\ PlanInv /\ EngineInv BY DEF RunInv
<1>1. ASSUME UNCHANGED <<pipe, step, status>> PROVE UNCHANGED Abstract!absVars
  BY <1>1 DEF Abstract!absVars
<1>2. ASSUME \/ UNCHANGED <<pipe, plan, pc, engineVars>> \/ UNCHANGED <<pipe, plan, engineVars>>
             \/ StartBuild \/ RestoreArtifact \/ EndBuild \/ NextBatch
             \/ \E ok, registered \in BOOLEAN : AfterBuild(registered, ok)
             \/ \E i \in 1 .. MaxTasks : \/ StartTask(i) \/ AppendLine(i) \/ BroadcastLine(i)
                                         \/ AttemptSucceeds(i) \/ AttemptFails(i)
      PROVE  UNCHANGED <<pipe, step, status>>
  BY <1>2 DEF engineVars, StartBuild, RestoreArtifact, EndBuild, NextBatch, AfterBuild, StartTask,
     AppendLine, BroadcastLine, AttemptSucceeds, AttemptFails
<1>3. ASSUME NEW ok \in BOOLEAN, Prepare(ok) PROVE [Abstract!AbsNext]_(Abstract!absVars)
  <2>1. pc = "plan" /\ UNCHANGED <<pipe, step>> BY <1>3 DEF Prepare
  <2>2. status = "none" BY <1>i, <2>1 DEF EngineInv, Where
  <2>3. CASE ok
    <3>1. status' = "running" BY <1>3, <2>3 DEF Prepare
    <3>. QED BY <2>1, <2>2, <3>1 DEF Abstract!AbsNext, Abstract!StartRun
  <2>4. CASE ~ok
    <3>1. status' = status BY <1>3, <2>4 DEF Prepare
    <3>. QED BY <1>1, <2>1, <3>1
  <2>. QED BY <2>3, <2>4
<1>4. ASSUME NEW ok \in BOOLEAN, StartRollback(ok) \/ SkipDeploy(ok) \/ RestoreFails(ok)
      PROVE  Abstract!AbsNext
  BY <1>4, RefineSkipPhase DEF StartRollback, SkipDeploy, RestoreFails
<1>5. ASSUME EndDeploy PROVE [Abstract!AbsNext]_(Abstract!absVars)
  <2>1. /\ pc = "step" /\ phase = "deploy" /\ UNCHANGED <<pipe, step>>
        /\ status' = IF phaseErr THEN "failed" ELSE status
    BY <1>5 DEF EndDeploy, AtPhaseEnd
  <2>2. status = "running" BY <1>i, <2>1 DEF EngineInv, Where, Going
  <2>. QED BY <1>1, <2>1, <2>2, RefineFails
<1>6. ASSUME StartFails \/ \E i \in 1 .. MaxTasks : Panic(i)
      PROVE  [Abstract!AbsNext]_(Abstract!absVars)
  <2>1. pc \in {"start", "tasks"} /\ status' = "failed" /\ UNCHANGED <<pipe, step>>
    BY <1>6 DEF StartFails, Panic, Running, InBatch
  <2>2. status \in {"running", "failed"} BY <1>i, <2>1 DEF EngineInv, Where, Going
  <2>. QED BY <1>1, <2>1, <2>2, RefineFails
<1>. QED BY <1>1, <1>2, <1>3, <1>4, <1>5, <1>6, EngineKinds, RefineSettle, RefineExecute,
         RefineFinish, RefineEnd

\* However tasks, batches, retries, hooks, store failures, panics and crashes
\* interleave, what RunWithOptions records of the steps and of the run is an
\* execution of DeploymentRun.
THEOREM RunIsDeployment == Spec => ImplementsDeploymentRun
<1>1. Init => Abstract!AbsInit BY RefineInit
<1>2. RunInv /\ EndHolds /\ [Next]_vars => [Abstract!AbsNext]_(Abstract!absVars) BY RefineStep
<1>. QED BY <1>1, <1>2, RunAlways, EndAlways, PTL DEF Spec, ImplementsDeploymentRun, Abstract!AbsSpec
-----------------------------------------------------------------------------
(* The consoles.  A line is seen, on its way in the channel of whoever       *)
(* follows the run, or still in the hands of the task that stored it.        *)

LinesHere ==
  pc # "crashed" =>
    \A s \in Steps, i \in 1 .. MaxTasks : task[s][i].line # 0 =>
      /\ pc = "tasks" /\ s = plan[phase][pos] /\ i \in Batch(s)
      /\ task[s][i].status = "running"

Unsent(n) == \E s \in Steps, i \in 1 .. MaxTasks : task[s][i].line = n

InChan(n, q) == \E k \in 1 .. Len(q) : q[k].kind = "log" /\ q[k].id = n

HasDone(q) == \E k \in 1 .. Len(q) : q[k].kind = "done"

SeenKnown == \A v \in Viewers : viewer[v].seen \subseteq 1 .. logs

\* Nothing is broadcast after the done event.
DoneLast ==
  \A v \in Viewers : \A k \in 1 .. Len(sub[v].chan) : sub[v].chan[k].kind = "done" =>
    k = Len(sub[v].chan) /\ pc \in {"close", "over"}

EndKnown ==
  \A v \in Viewers :
    /\ viewer[v].pc # "ended" => viewer[v].end = "none"
    /\ viewer[v].end = "done" /\ viewer[v].read = "running" =>
         viewer[v].seen = 1 .. logs /\ pc \in {"close", "over", "crashed"}

FollowsRun(v) ==
  viewer[v].pc = "live" /\ (sub[v].in \/ HasDone(sub[v].chan)) =>
    \A n \in 1 .. logs : n \in viewer[v].seen \/ InChan(n, sub[v].chan) \/ Unsent(n)

Follows == \A v \in Viewers : FollowsRun(v)

GapInv == LinesHere /\ SeenKnown /\ DoneLast /\ EndKnown /\ Follows

LEMMA AppendGives ==
  ASSUME NEW q \in Seq(Event), NEW e \in Event
  PROVE  /\ \A n : InChan(n, q) => InChan(n, Append(q, e))
         /\ e.kind = "log" => InChan(e.id, Append(q, e))
         /\ e.kind = "done" <=> \E k \in 1 .. Len(Append(q, e)) :
              Append(q, e)[k].kind = "done" /\ k \notin 1 .. Len(q)
         /\ HasDone(Append(q, e)) => HasDone(q) \/ e.kind = "done"
         /\ \A k \in 1 .. Len(Append(q, e)) : Append(q, e)[k].kind = "done" =>
              (k \in 1 .. Len(q) /\ q[k].kind = "done") \/ (k = Len(Append(q, e)) /\ e.kind = "done")
<1>. DEFINE r == Append(q, e)
<1>1. /\ Len(r) = Len(q) + 1 /\ Len(q) \in Nat
      /\ \A k \in 1 .. Len(q) : r[k] = q[k]
      /\ r[Len(r)] = e
  OBVIOUS
<1>. HIDE DEF r
<1>2. Len(r) \in 1 .. Len(r) /\ \A k \in 1 .. Len(q) : k \in 1 .. Len(r) BY <1>1
<1>3. \A k \in 1 .. Len(r) : (k \in 1 .. Len(q) /\ r[k] = q[k]) \/ (k = Len(r) /\ r[k] = e /\ k \notin 1 .. Len(q))
  BY <1>1
<1>4. \A n : InChan(n, q) => InChan(n, r) BY <1>1, <1>2 DEF InChan
<1>5. e.kind = "log" => InChan(e.id, r) BY <1>1, <1>2 DEF InChan
<1>6. e.kind = "done" <=> \E k \in 1 .. Len(r) : r[k].kind = "done" /\ k \notin 1 .. Len(q)
  BY <1>1, <1>2, <1>3
<1>7. HasDone(r) => HasDone(q) \/ e.kind = "done" BY <1>3 DEF HasDone
<1>8. \A k \in 1 .. Len(r) : r[k].kind = "done" =>
        (k \in 1 .. Len(q) /\ q[k].kind = "done") \/ (k = Len(r) /\ e.kind = "done")
  BY <1>3
<1>. QED BY <1>4, <1>5, <1>6, <1>7, <1>8 DEF r

LEMMA TailGives ==
  ASSUME NEW q \in Seq(Event), q # <<>>
  PROVE  /\ Head(q) = q[1] /\ 1 \in 1 .. Len(q) /\ Len(Tail(q)) = Len(q) - 1
         /\ \A n : InChan(n, q) => (Head(q).kind = "log" /\ Head(q).id = n) \/ InChan(n, Tail(q))
         /\ HasDone(Tail(q)) => HasDone(q)
         /\ \A k \in 1 .. Len(Tail(q)) : Tail(q)[k] = q[k + 1] /\ k + 1 \in 1 .. Len(q)
<1>. DEFINE r == Tail(q)
<1>1. /\ Head(q) = q[1] /\ Len(q) \in Nat /\ Len(q) >= 1 /\ Len(r) = Len(q) - 1
      /\ \A k \in 1 .. Len(r) : r[k] = q[k + 1]
  OBVIOUS
<1>. HIDE DEF r
<1>2. \A k \in 1 .. Len(r) : k + 1 \in 1 .. Len(q) BY <1>1
<1>3. \A k \in 1 .. Len(q) : k = 1 \/ (k - 1 \in 1 .. Len(r) /\ q[k] = r[k - 1]) BY <1>1
<1>4. ASSUME NEW n, InChan(n, q) PROVE (Head(q).kind = "log" /\ Head(q).id = n) \/ InChan(n, r)
  BY <1>1, <1>3, <1>4 DEF InChan
<1>5. HasDone(r) => HasDone(q) BY <1>1, <1>2 DEF HasDone
<1>. QED BY <1>1, <1>2, <1>4, <1>5 DEF r

LEMMA BroadcastGives ==
  ASSUME HubType, NEW e \in Event, Broadcast(e), NEW v \in Viewers
  PROVE  \/ sub'[v].chan = sub[v].chan /\ ~sub'[v].in
         \/ sub[v].in /\ sub'[v].in /\ sub'[v].chan = Append(sub[v].chan, e)
<1>1. sub[v] \in Subscriber BY DEF HubType
<1>2. CASE ~sub[v].in BY <1>2 DEF Broadcast
<1>3. CASE sub[v].in
  <2>1. sub'[v] = Send(sub[v], e) BY <1>3 DEF Broadcast
  <2>2. CASE Len(sub[v].chan) < Buffer
    <3>1. PICK q : q = Append(sub[v].chan, e) OBVIOUS
    <3>2. sub'[v] = [sub[v] EXCEPT !.chan = q] BY <2>1, <2>2, <3>1 DEF Send
    <3>. QED BY <1>1, <1>3, <3>1, <3>2 DEF Subscriber
  <2>3. CASE ~(Len(sub[v].chan) < Buffer)
    <3>1. sub'[v] = [sub[v] EXCEPT !.in = FALSE, !.closed = TRUE] BY <2>1, <2>3 DEF Send
    <3>. QED BY <1>1, <3>1 DEF Subscriber
  <2>. QED BY <2>2, <2>3
<1>. QED BY <1>2, <1>3

\* One task is changed, the others are not.
LEMMA SetTaskGives ==
  ASSUME EngineType, Current \in Steps, NEW i \in 1 .. MaxTasks, NEW t, SetTask(i, t)
  PROVE  /\ task'[Current][i] = t
         /\ \A s \in Steps, j \in 1 .. MaxTasks :
              ~(s = Current /\ j = i) => task'[s][j] = task[s][j]
<1>. DEFINE c == Current
            f == [task[c] EXCEPT ![i] = t]
<1>1. task' = [task EXCEPT ![c] = f] BY DEF SetTask, EngineType
<1>2. task[c] \in [1 .. MaxTasks -> Task] BY DEF EngineType
<1>3. \A j \in 1 .. MaxTasks : f[j] = IF j = i THEN t ELSE task[c][j] BY <1>2
<1>. HIDE DEF f
<1>4. \A s \in Steps : task'[s] = IF s = c THEN f ELSE task[s] BY <1>1 DEF EngineType
<1>. QED BY <1>3, <1>4

SameLines == \A s \in Steps, i \in 1 .. MaxTasks : task'[s][i].line = task[s][i].line

NoLine == \A s \in Steps, i \in 1 .. MaxTasks : task[s][i].line = 0

LEMMA NoLineKept ==
  ASSUME NoLine, SameLines
  PROVE  LinesHere'
  BY DEF NoLine, SameLines, LinesHere

LEMMA NoLineAhead ==
  ASSUME LinesHere, pc \notin {"tasks", "crashed"}
  PROVE  NoLine
  BY DEF NoLine, LinesHere

\* Outside the tasks no line is touched.
LEMMA SkipLines ==
  ASSUME TypeInv, NEW ok \in BOOLEAN,
         \/ Prepare(ok) \/ StartRollback(ok) \/ SkipDeploy(ok) \/ RestoreFails(ok)
         \/ SettleStep(ok) \/ EndFinally(ok) \/ FinishStep(ok)
         \/ \E registered \in BOOLEAN : AfterBuild(registered, ok)
  PROVE  SameLines /\ UNCHANGED <<logs, viewer>>
<1>0. EngineType /\ TaskType /\ Placed /\ LinesKnown BY TypeParts DEF TaskType
<1>1. \A s \in Steps, i \in 1 .. MaxTasks : SkipTasks(s)[i].line = task[s][i].line
  BY <1>0, SkipType
<1>2. ASSUME UNCHANGED task PROVE SameLines BY <1>2 DEF SameLines
<1>3. ASSUME NEW p, skipPhase(p) PROVE SameLines
  BY <1>1, <1>3 DEF SameLines, skipPhase
<1>4. CASE Prepare(ok) BY <1>2, <1>4 DEF Prepare
<1>5. CASE StartRollback(ok) BY <1>3, <1>5 DEF StartRollback
<1>6. CASE SkipDeploy(ok) BY <1>3, <1>6 DEF SkipDeploy
<1>7. CASE RestoreFails(ok) BY <1>3, <1>7 DEF RestoreFails
<1>8. CASE SettleStep(ok)
  <2>1. AtStep /\ UNCHANGED <<logs, viewer>> BY <1>8 DEF SettleStep
  <2>2. PICK c \in Steps : c = Current BY <1>0, <2>1, CurrentType
  <2>3. task' = task \/ task' = [task EXCEPT ![c] = SkipTasks(c)] BY <1>8, <2>2 DEF SettleStep
  <2>4. \A s \in Steps : task'[s] = task[s] \/ task'[s] = SkipTasks(s)
    BY <1>0, <2>3 DEF EngineType
  <2>. QED BY <1>1, <2>1, <2>4 DEF SameLines
<1>9. CASE EndFinally(ok) BY <1>2, <1>9 DEF EndFinally
<1>10. CASE FinishStep(ok) BY <1>2, <1>10 DEF FinishStep
<1>11. CASE \E registered \in BOOLEAN : AfterBuild(registered, ok) BY <1>2, <1>11 DEF AfterBuild
<1>. QED BY <1>4, <1>5, <1>6, <1>7, <1>8, <1>9, <1>10, <1>11

LEMMA LinesTask ==
  ASSUME TypeInv, LinesHere, NEW i \in 1 .. MaxTasks, NEW u, InBatch(i), SetTask(i, u),
         u.line # 0 => u.status = "running", UNCHANGED <<pipe, plan, pc, phase, pos, from>>
  PROVE  LinesHere'
<1>0. EngineType /\ Placed BY TypeParts DEF TaskType
<1>1. pc = "tasks" /\ i \in Batch(Current) BY DEF InBatch
<1>2. Current \in Steps /\ Current = plan[phase][pos] BY <1>0, <1>1, CurrentType
<1>3. /\ task'[Current][i] = u
      /\ \A s \in Steps, j \in 1 .. MaxTasks : ~(s = Current /\ j = i) => task'[s][j] = task[s][j]
  BY <1>0, <1>2, SetTaskGives
<1>4. \A s : Batch(s)' = Batch(s) BY DEF Batch
<1>5. ASSUME NEW s \in Steps, NEW j \in 1 .. MaxTasks, task'[s][j].line # 0
      PROVE  /\ pc' = "tasks" /\ s = plan'[phase'][pos'] /\ j \in Batch(s)'
             /\ task'[s][j].status = "running"
  <2>1. CASE s = Current /\ j = i BY <1>1, <1>2, <1>3, <1>4, <1>5, <2>1
  <2>2. CASE ~(s = Current /\ j = i)
    <3>1. task'[s][j] = task[s][j] BY <1>3, <2>2
    <3>. QED BY <1>1, <1>4, <1>5, <3>1 DEF LinesHere
  <2>. QED BY <2>1, <2>2
<1>. QED BY <1>5 DEF LinesHere

\* A batch that is done has sent its lines, and a panic is of the only task.
LEMMA LinesOver ==
  ASSUME TypeInv, LinesHere, BatchDone \/ \E i \in 1 .. MaxTasks : Panic(i)
  PROVE  NoLine
<1>0. EngineType /\ Placed BY TypeParts DEF TaskType
<1>1. pc = "tasks" BY DEF BatchDone, Panic, Running, InBatch
<1>2. Current \in Steps /\ Current = plan[phase][pos] BY <1>0, <1>1, CurrentType
<1>3. SUFFICES ASSUME NEW s \in Steps, NEW j \in 1 .. MaxTasks, task[s][j].line # 0
               PROVE  FALSE
  BY DEF NoLine
<1>4. s = Current /\ j \in Batch(Current) /\ task[s][j].status = "running"
  BY <1>1, <1>2, <1>3 DEF LinesHere
<1>5. CASE BatchDone BY <1>4, <1>5 DEF BatchDone
<1>6. ASSUME NEW i \in 1 .. MaxTasks, Panic(i) PROVE FALSE
  <2>1. /\ i \in Batch(Current) /\ pipe.width[Current] = 1 /\ task[Current][i].line = 0
    BY <1>6 DEF Panic, Running, InBatch
  <2>2. from \in Nat BY <1>0 DEF EngineType
  <2>3. i = j BY <1>4, <2>1, <2>2 DEF Batch
  <2>. QED BY <1>3, <1>4, <2>1, <2>3
<1>. QED BY <1>5, <1>6

\* What a task puts in its place.
LEMMA LineOfTask ==
  ASSUME TypeInv, LinesHere, NEW i \in 1 .. MaxTasks,
         \/ StartTask(i) \/ AppendLine(i) \/ BroadcastLine(i)
         \/ AttemptSucceeds(i) \/ AttemptFails(i)
  PROVE  /\ InBatch(i) /\ pc = "tasks" /\ Current \in Steps
         /\ UNCHANGED <<pipe, plan, pc, phase, pos, from, viewer>>
         /\ \E u : /\ SetTask(i, u) /\ (u.line # 0 => u.status = "running")
                   /\ u.line = IF AppendLine(i) THEN logs + 1 ELSE 0
                   /\ ~BroadcastLine(i) => task[Current][i].line = 0
<1>0. EngineType /\ Placed BY TypeParts DEF TaskType
<1>1. InBatch(i) /\ UNCHANGED <<pipe, plan, pc, phase, pos, from, viewer>>
  BY DEF StartTask, AppendLine, BroadcastLine, AttemptSucceeds, AttemptFails, Running
<1>2. pc = "tasks" /\ Current \in Steps /\ task[Current][i] \in Task BY <1>0, <1>1, BatchType
<1>3. PICK t \in Task : t = task[Current][i] BY <1>2
<1>l. logs \in Nat BY RunConstants DEF TypeInv, TypeOK
<1>4. CASE StartTask(i)
  <2>1. t.status = "pending" BY <1>3, <1>4 DEF StartTask
  <2>2. t.line = 0 BY <1>1, <1>2, <1>3, <2>1 DEF LinesHere
  <2>3. ~AppendLine(i) BY <1>3, <2>1 DEF AppendLine, Running
  <2>4. PICK u : u = [t EXCEPT !.status = "running"] OBVIOUS
  <2>5. u.line = 0 BY <1>3, <2>2, <2>4 DEF Task
  <2>6. SetTask(i, u) BY <1>3, <1>4, <2>4 DEF StartTask
  <2>. QED BY <1>1, <1>2, <1>3, <2>2, <2>3, <2>5, <2>6
<1>5. CASE AppendLine(i)
  <2>1. t.status = "running" /\ t.line = 0 BY <1>3, <1>5 DEF AppendLine, Running
  <2>2. PICK n \in Nat : n = logs + 1 BY <1>l
  <2>3. PICK u : u = [t EXCEPT !.line = n] OBVIOUS
  <2>4. u.line = logs + 1 /\ u.status = "running" BY <1>3, <2>1, <2>2, <2>3 DEF Task
  <2>5. SetTask(i, u) BY <1>3, <1>5, <2>2, <2>3 DEF AppendLine
  <2>. QED BY <1>1, <1>2, <1>3, <1>5, <2>1, <2>4, <2>5
<1>6. CASE BroadcastLine(i)
  <2>1. t.line # 0 BY <1>3, <1>6 DEF BroadcastLine
  <2>2. ~AppendLine(i) BY <1>3, <2>1 DEF AppendLine, Running
  <2>3. PICK u : u = [t EXCEPT !.line = 0] OBVIOUS
  <2>4. u.line = 0 BY <1>3, <2>3 DEF Task
  <2>5. SetTask(i, u) BY <1>3, <1>6, <2>3 DEF BroadcastLine
  <2>. QED BY <1>1, <1>2, <1>6, <2>2, <2>4, <2>5
<1>7. ASSUME AttemptSucceeds(i) \/ AttemptFails(i)
      PROVE  \E u : SetTask(i, u) /\ u.line = 0 /\ task[Current][i].line = 0 /\ ~AppendLine(i)
  <2>1. t.line = 0 BY <1>3, <1>7 DEF AttemptSucceeds, AttemptFails, Running
  <2>2. PICK n : n = t.attempts + 1 OBVIOUS
  <2>3. \/ SetTask(i, [status |-> "success", attempts |-> n, line |-> 0])
        \/ SetTask(i, [status |-> "failed", attempts |-> n, line |-> 0])
        \/ SetTask(i, [t EXCEPT !.attempts = n])
    BY <1>3, <1>7, <2>2 DEF AttemptSucceeds, AttemptFails
  <2>4. /\ [status |-> "success", attempts |-> n, line |-> 0].line = 0
        /\ [status |-> "failed", attempts |-> n, line |-> 0].line = 0
        /\ [t EXCEPT !.attempts = n].line = 0
    BY <1>3, <2>1 DEF Task
  <2>5. logs' = logs BY <1>7 DEF AttemptSucceeds, AttemptFails
  <2>6. ~AppendLine(i) BY <1>l, <2>5 DEF AppendLine
  <2>. QED BY <1>3, <2>1, <2>3, <2>4, <2>6
<1>8. CASE (AttemptSucceeds(i) \/ AttemptFails(i)) /\ ~BroadcastLine(i)
  BY <1>1, <1>2, <1>7, <1>8
<1>. QED BY <1>4, <1>5, <1>6, <1>8

LEMMA LinesStep ==
  ASSUME RunInv, LinesHere, [Next]_vars
  PROVE  LinesHere'
<1>i. TypeInv /\ PlanInv /\ EngineInv BY DEF RunInv
<1>1. ASSUME UNCHANGED <<pipe, plan, pc, engineVars>> PROVE LinesHere'
  <2>1. \A s : Batch(s)' = Batch(s) BY <1>1 DEF engineVars, Batch
  <2>2. UNCHANGED <<plan, pc, phase, pos, task>> BY <1>1 DEF engineVars
  <2>. QED BY <2>1, <2>2 DEF LinesHere
<1>2. ASSUME NEW ok \in BOOLEAN, NEW registered \in BOOLEAN,
             \/ Prepare(ok) \/ StartRollback(ok) \/ StartBuild \/ EndBuild
             \/ AfterBuild(registered, ok) \/ RestoreArtifact \/ SkipDeploy(ok) \/ RestoreFails(ok)
             \/ EndDeploy \/ SettleStep(ok) \/ EndFinally(ok) \/ ExecuteStep \/ StartFails
      PROVE  LinesHere'
  <2>1. pc \notin {"tasks", "crashed"}
    BY <1>2 DEF Prepare, StartRollback, StartBuild, EndBuild, AfterBuild, RestoreArtifact,
       SkipDeploy, RestoreFails, EndDeploy, SettleStep, EndFinally, ExecuteStep, StartFails,
       AtPhaseEnd, AtStep
  <2>2. NoLine BY <2>1, NoLineAhead
  <2>3. ASSUME StartBuild \/ EndBuild \/ RestoreArtifact \/ EndDeploy \/ ExecuteStep \/ StartFails
        PROVE  SameLines
    BY <2>3 DEF StartBuild, EndBuild, RestoreArtifact, EndDeploy, ExecuteStep, StartFails, SameLines
  <2>4. SameLines BY <1>i, <1>2, <2>3, SkipLines
  <2>. QED BY <2>2, <2>4, NoLineKept
<1>3. ASSUME NEW ok \in BOOLEAN, FinishStep(ok) \/ NextBatch \/ \E i \in 1 .. MaxTasks : Panic(i)
      PROVE  LinesHere'
  <2>1. BatchDone \/ \E i \in 1 .. MaxTasks : Panic(i) BY <1>3 DEF FinishStep, NextBatch
  <2>2. task' = task BY <1>3 DEF FinishStep, NextBatch, Panic
  <2>. QED BY <1>i, <2>1, <2>2, LinesOver, NoLineKept DEF SameLines
<1>4. ASSUME NEW i \in 1 .. MaxTasks,
             \/ StartTask(i) \/ AppendLine(i) \/ BroadcastLine(i)
             \/ AttemptSucceeds(i) \/ AttemptFails(i)
      PROVE  LinesHere'
  BY <1>i, <1>4, LineOfTask, LinesTask
<1>5. ASSUME pc' \in {"refused", "done", "close", "over", "crashed"}, UNCHANGED <<pipe, plan, engineVars>>,
             (pc' \in {"done", "close", "over"} => pc \in {"final", "done", "close"})
      PROVE  LinesHere'
  <2>1. CASE pc' = "crashed" BY <2>1 DEF LinesHere
  <2>2. CASE pc' # "crashed"
    <3>1. pc \in {"plan", "refused", "final", "done", "close"}
      BY <1>5, <2>2, PlanFrame DEF Prepare, Refuse
    <3>2. task' = task BY <1>5 DEF engineVars
    <3>. QED BY <3>1, <3>2, NoLineAhead, NoLineKept DEF SameLines
  <2>. QED BY <2>1, <2>2
<1>. QED BY <1>1, <1>2, <1>3, <1>4, <1>5, EngineKinds

Late == {"close", "over", "crashed"}

\* What a step does to the log, the hub and the consoles.
LEMMA HubKinds ==
  ASSUME RunInv, LinesHere, [Next]_vars
  PROVE  \/ UNCHANGED <<logs, sub, viewer>> /\ SameLines /\ (pc' = pc \/ pc \notin Late)
         \/ UNCHANGED <<logs, viewer>> /\ SameLines /\ Broadcast(StatusEvent)
            /\ pc \notin Late /\ pc' \notin Late
         \/ \E i \in 1 .. MaxTasks : AppendLine(i) \/ BroadcastLine(i)
         \/ BroadcastDone \/ Close \/ Crash
         \/ \E v \in Viewers : Connect(v) \/ Serve(v) \/ Leave(v)
<1>i. TypeInv /\ PlanInv /\ EngineInv BY DEF RunInv
<1>1. ASSUME UNCHANGED task PROVE SameLines BY <1>1 DEF SameLines
<1>2. CASE UNCHANGED vars BY <1>1, <1>2 DEF vars, engineVars
<1>3. ASSUME NEW ok \in BOOLEAN,
             \/ StartRollback(ok) \/ SkipDeploy(ok) \/ RestoreFails(ok)
             \/ SettleStep(ok) \/ EndFinally(ok) \/ FinishStep(ok)
             \/ \E registered \in BOOLEAN : AfterBuild(registered, ok)
      PROVE  UNCHANGED <<logs, viewer>> /\ SameLines /\ Broadcast(StatusEvent)
             /\ pc \notin Late /\ pc' \notin Late
  <2>1. SameLines /\ UNCHANGED <<logs, viewer>> BY <1>i, <1>3, SkipLines
  <2>2. pc \notin Late /\ \E st : Notify(st, ok)
    BY <1>3 DEF StartRollback, SkipDeploy, RestoreFails, SettleStep, EndFinally, FinishStep,
       AfterBuild, AtStep, AtPhaseEnd, BatchDone, Late
  <2>3. pc' \notin Late
    BY <1>3 DEF StartRollback, SkipDeploy, RestoreFails, SettleStep, EndFinally, FinishStep,
       AfterBuild, AtStep, EnterPhase, Late
  <2>. QED BY <2>1, <2>2, <2>3 DEF Notify
<1>4. ASSUME \/ Refuse \/ StartFails \/ StartBuild \/ EndBuild \/ RestoreArtifact \/ EndDeploy
             \/ ExecuteStep \/ NextBatch \/ \E ok \in BOOLEAN : Prepare(ok) \/ FinalSave(ok)
             \/ \E i \in 1 .. MaxTasks : AppendFails(i) \/ Panic(i)
      PROVE  UNCHANGED <<logs, sub, viewer>> /\ SameLines /\ pc \notin Late
  <2>1. UNCHANGED <<logs, sub, viewer>> /\ UNCHANGED task
    BY <1>4 DEF Refuse, StartFails, StartBuild, EndBuild, RestoreArtifact, EndDeploy, ExecuteStep,
       NextBatch, Prepare, FinalSave, AppendFails, Panic, engineVars
  <2>2. pc \notin Late
    BY <1>4 DEF Refuse, StartFails, StartBuild, EndBuild, RestoreArtifact, EndDeploy, ExecuteStep,
       NextBatch, Prepare, FinalSave, AppendFails, Panic, Running, InBatch, AtStep, AtPhaseEnd,
       BatchDone, Late
  <2>. QED BY <1>1, <2>1, <2>2
<1>5. ASSUME NEW i \in 1 .. MaxTasks, StartTask(i) \/ AttemptSucceeds(i) \/ AttemptFails(i)
      PROVE  /\ UNCHANGED <<logs, viewer>> /\ SameLines /\ pc \notin Late /\ pc' \notin Late
             /\ Broadcast(StatusEvent) \/ UNCHANGED sub
             \/ \E j \in 1 .. MaxTasks : AppendLine(j) \/ BroadcastLine(j)
  <2>1. CASE AppendLine(i) \/ BroadcastLine(i) BY <2>1
  <2>2. CASE ~(AppendLine(i) \/ BroadcastLine(i))
    <3>1. EngineType BY <1>i, TypeParts
    <3>2. pc = "tasks" /\ pc' = pc /\ Current \in Steps BY <1>i, <1>5, LineOfTask
    <3>3. PICK u : SetTask(i, u) /\ u.line = 0 /\ task[Current][i].line = 0
      BY <1>i, <1>5, <2>2, LineOfTask
    <3>4. SameLines BY <3>1, <3>2, <3>3, SetTaskGives DEF SameLines
    <3>5. UNCHANGED <<logs, viewer>> /\ (Broadcast(StatusEvent) \/ UNCHANGED sub)
      BY <1>5 DEF StartTask, AttemptSucceeds, AttemptFails
    <3>. QED BY <3>2, <3>4, <3>5 DEF Late
  <2>. QED BY <2>1, <2>2
<1>6. CASE Engine BY <1>3, <1>4, <1>5, <1>6 DEF Engine, Service, TaskStep, PluginStep
<1>. QED BY <1>2, <1>6 DEF Next

\* Unsent lines stay unsent where none is stored or sent.
LEMMA UnsentKept ==
  ASSUME SameLines, NEW n
  PROVE  Unsent(n)' <=> Unsent(n)
  BY DEF SameLines, Unsent

\* The invariant without the lines in the tasks' hands.
ConsoleInv == SeenKnown /\ DoneLast /\ EndKnown /\ Follows

LEMMA ConsoleQuiet ==
  ASSUME ConsoleInv, UNCHANGED <<logs, sub, viewer>>, SameLines, pc' = pc \/ pc \notin Late
  PROVE  ConsoleInv'
<1>1. SeenKnown' BY DEF ConsoleInv, SeenKnown
<1>2. DoneLast' BY DEF ConsoleInv, DoneLast, Late
<1>3. EndKnown' BY DEF ConsoleInv, EndKnown, Late
<1>4. \A n : Unsent(n)' <=> Unsent(n) BY UnsentKept
<1>5. Follows'
  <2>1. \A v \in Viewers : FollowsRun(v)' BY <1>4 DEF ConsoleInv, Follows, FollowsRun
  <2>. QED BY <2>1 DEF Follows
<1>. QED BY <1>1, <1>2, <1>3, <1>5 DEF ConsoleInv

\* An event reaches everyone who stays in the hub.
LEMMA ConsoleBroadcast ==
  ASSUME TypeInv, ConsoleInv, NEW e \in Event, Broadcast(e), UNCHANGED <<logs, viewer>>,
         pc \notin Late, e.kind = "done" <=> pc' = "close", pc' # "over",
         \A n : Unsent(n) => Unsent(n)' \/ (e.kind = "log" /\ e.id = n)
  PROVE  ConsoleInv'
<1>0. HubType BY TypeParts
<1>1. SeenKnown' BY DEF ConsoleInv, SeenKnown
<1>2. EndKnown' BY DEF ConsoleInv, EndKnown, Late
<1>3. \A v \in Viewers : sub[v].chan \in Seq(Event) BY <1>0 DEF HubType, Subscriber
<1>4. \A v \in Viewers : \A k \in 1 .. Len(sub[v].chan) : sub[v].chan[k].kind # "done"
  BY DEF ConsoleInv, DoneLast, Late
<1>5. ASSUME NEW v \in Viewers
      PROVE  /\ \A k \in 1 .. Len(sub'[v].chan) : sub'[v].chan[k].kind = "done" =>
                  k = Len(sub'[v].chan) /\ pc' \in {"close", "over"}
             /\ FollowsRun(v)'
  <2>1. CASE sub'[v].chan = sub[v].chan /\ ~sub'[v].in
    <3>1. ~HasDone(sub'[v].chan) BY <1>4, <2>1 DEF HasDone
    <3>. QED BY <1>4, <2>1, <3>1 DEF FollowsRun
  <2>2. CASE sub[v].in /\ sub'[v].in /\ sub'[v].chan = Append(sub[v].chan, e)
    <3>1. /\ \A n : InChan(n, sub[v].chan) => InChan(n, sub'[v].chan)
          /\ e.kind = "log" => InChan(e.id, sub'[v].chan)
          /\ \A k \in 1 .. Len(sub'[v].chan) : sub'[v].chan[k].kind = "done" =>
               (k \in 1 .. Len(sub[v].chan) /\ sub[v].chan[k].kind = "done")
               \/ (k = Len(sub'[v].chan) /\ e.kind = "done")
      BY <1>3, <2>2, AppendGives
    <3>2. viewer[v].pc = "live" =>
            \A n \in 1 .. logs : n \in viewer[v].seen \/ InChan(n, sub[v].chan) \/ Unsent(n)
      BY <2>2 DEF ConsoleInv, Follows, FollowsRun
    <3>3. viewer[v].pc = "live" =>
            \A n \in 1 .. logs : n \in viewer[v].seen \/ InChan(n, sub'[v].chan) \/ Unsent(n)'
      BY <3>1, <3>2
    <3>. QED BY <1>4, <3>1, <3>3 DEF FollowsRun
  <2>. QED BY <1>0, <2>1, <2>2, BroadcastGives
<1>. QED BY <1>1, <1>2, <1>5 DEF ConsoleInv, DoneLast, Follows

\* A line is stored: its task has it.
LEMMA ConsoleAppend ==
  ASSUME TypeInv, LinesHere, ConsoleInv, NEW i \in 1 .. MaxTasks, AppendLine(i)
  PROVE  ConsoleInv'
<1>0. EngineType BY TypeParts
<1>1. /\ pc = "tasks" /\ pc' = pc /\ UNCHANGED <<sub, viewer>> /\ logs' = logs + 1
      /\ task[Current][i].line = 0 /\ logs \in Nat
  BY RunConstants DEF AppendLine, Running, InBatch, TypeInv, TypeOK
<1>2. Current \in Steps BY LineOfTask
<1>m. PICK m : m = logs + 1 OBVIOUS
<1>3. PICK u : SetTask(i, u) /\ u.line = m BY <1>m, LineOfTask
<1>4. /\ task'[Current][i] = u
      /\ \A s \in Steps, j \in 1 .. MaxTasks : ~(s = Current /\ j = i) => task'[s][j] = task[s][j]
  BY <1>0, <1>2, <1>3, SetTaskGives
<1>5. \A n \in 1 .. logs' : n = m \/ n \in 1 .. logs BY <1>m, <1>1
<1>6. Unsent(m)' BY <1>2, <1>3, <1>4 DEF Unsent
<1>7. \A n \in 1 .. logs : Unsent(n) => Unsent(n)' BY <1>1, <1>4 DEF Unsent
<1>8. \A n \in 1 .. logs : n \in 1 .. logs' BY <1>1
<1>9. SeenKnown' BY <1>1, <1>8 DEF ConsoleInv, SeenKnown
<1>10. DoneLast' /\ EndKnown' BY <1>1 DEF ConsoleInv, DoneLast, EndKnown
<1>11. ASSUME NEW v \in Viewers PROVE FollowsRun(v)'
  <2>1. SUFFICES ASSUME viewer[v].pc = "live", sub[v].in \/ HasDone(sub[v].chan)
                 PROVE  \A n \in 1 .. logs' : n \in viewer[v].seen \/ InChan(n, sub[v].chan) \/ Unsent(n)'
    BY <1>1 DEF FollowsRun
  <2>2. \A n \in 1 .. logs : n \in viewer[v].seen \/ InChan(n, sub[v].chan) \/ Unsent(n)
    BY <2>1 DEF ConsoleInv, Follows, FollowsRun
  <2>. QED BY <1>1, <1>5, <1>6, <1>7, <2>2
<1>. QED BY <1>9, <1>10, <1>11 DEF ConsoleInv, Follows

\* A line is sent: whoever is in the hub has it in the channel.
LEMMA ConsoleLine ==
  ASSUME TypeInv, LinesHere, ConsoleInv, NEW i \in 1 .. MaxTasks, BroadcastLine(i)
  PROVE  ConsoleInv'
<1>0. EngineType BY TypeParts
<1>1. pc = "tasks" /\ pc' = pc /\ UNCHANGED <<logs, viewer>>
  BY DEF BroadcastLine, InBatch
<1>2. Current \in Steps /\ task[Current][i] \in Task
  <2>1. Placed /\ InBatch(i) BY TypeParts DEF TaskType, BroadcastLine
  <2>. QED BY <1>0, <2>1, BatchType
<1>3. PICK m \in Nat : m = task[Current][i].line BY <1>2 DEF Task
<1>4. PICK e : e = [kind |-> "log", id |-> m] OBVIOUS
<1>5. e \in Event /\ e.kind = "log" /\ e.id = m BY <1>4 DEF Event
<1>6. Broadcast(e) BY <1>3, <1>4 DEF BroadcastLine
<1>7. PICK u : SetTask(i, u) BY DEF BroadcastLine
<1>8. \A s \in Steps, j \in 1 .. MaxTasks : ~(s = Current /\ j = i) => task'[s][j] = task[s][j]
  BY <1>0, <1>2, <1>7, SetTaskGives
<1>9. \A n : Unsent(n) => Unsent(n)' \/ e.id = n BY <1>3, <1>5, <1>8 DEF Unsent
<1>. QED BY <1>1, <1>5, <1>6, <1>9, ConsoleBroadcast DEF Late

\* The run's last steps, and the end of the agent.
LEMMA ConsoleEnd ==
  ASSUME TypeInv, ConsoleInv, BroadcastDone \/ Close \/ Crash
  PROVE  ConsoleInv'
<1>1. CASE BroadcastDone
  <2>1. PICK e : e = [kind |-> "done", id |-> 0] OBVIOUS
  <2>2. e \in Event /\ e.kind = "done" BY <2>1 DEF Event
  <2>3. /\ Broadcast(e) /\ pc = "done" /\ pc' = "close" /\ UNCHANGED <<logs, viewer, task>>
    BY <1>1, <2>1 DEF BroadcastDone, engineVars
  <2>4. \A n : Unsent(n) => Unsent(n)' BY <2>3 DEF Unsent
  <2>. QED BY <2>2, <2>3, <2>4, ConsoleBroadcast DEF Late
<1>2. CASE Close
  <2>1. /\ pc = "close" /\ pc' = "over" /\ UNCHANGED <<logs, viewer, task>>
    BY <1>2 DEF Close, engineVars
  <2>2. sub \in [Viewers -> Subscriber] BY DEF TypeInv, TypeOK
  <2>3. \A v \in Viewers : /\ sub'[v].chan = sub[v].chan /\ ~sub'[v].in
    BY <1>2, <2>2 DEF Close, CloseSubscribers, Subscriber
  <2>4. \A n : Unsent(n)' <=> Unsent(n) BY <2>1 DEF Unsent
  <2>5. SeenKnown' /\ EndKnown' BY <2>1 DEF ConsoleInv, SeenKnown, EndKnown
  <2>6. DoneLast' BY <2>1, <2>3 DEF ConsoleInv, DoneLast
  <2>7. \A v \in Viewers : FollowsRun(v)'
    BY <2>1, <2>3, <2>4 DEF ConsoleInv, Follows, FollowsRun
  <2>. QED BY <2>5, <2>6, <2>7 DEF ConsoleInv, Follows
<1>3. CASE Crash
  <2>1. /\ pc' = "crashed" /\ logs' = logs /\ sub' = [v \in Viewers |-> Absent]
        /\ \A v \in Viewers : viewer'[v] =
             IF viewer[v].pc \in {"off", "ended"} THEN viewer[v]
             ELSE [viewer[v] EXCEPT !.pc = "ended", !.end = "left"]
    BY <1>3 DEF Crash
  <2>2. viewer \in [Viewers -> Console] BY DEF TypeInv, TypeOK
  <2>3. \A v \in Viewers :
          /\ viewer'[v].seen = viewer[v].seen /\ viewer'[v].pc \in {"off", "ended"}
          /\ viewer'[v] = viewer[v] \/ (viewer'[v].pc = "ended" /\ viewer'[v].end = "left")
    BY <2>1, <2>2 DEF Console
  <2>4. \A v \in Viewers : ~sub'[v].in /\ Len(sub'[v].chan) = 0 BY <2>1 DEF Absent
  <2>5. SeenKnown' BY <2>1, <2>3 DEF ConsoleInv, SeenKnown
  <2>6. DoneLast' BY <2>4 DEF DoneLast
  <2>7. EndKnown' BY <2>1, <2>3 DEF ConsoleInv, EndKnown
  <2>8. \A v \in Viewers : FollowsRun(v)' BY <2>3 DEF FollowsRun
  <2>. QED BY <2>5, <2>6, <2>7, <2>8 DEF ConsoleInv, Follows
<1>. QED BY <1>1, <1>2, <1>3

\* One console moves, the others do not.
LEMMA ConsoleOne ==
  ASSUME ConsoleInv, NEW v \in Viewers, runUnchanged,
         \A u \in Viewers : u # v => viewer'[u] = viewer[u] /\ sub'[u] = sub[u],
         viewer'[v].seen \subseteq 1 .. logs,
         \A k \in 1 .. Len(sub'[v].chan) : sub'[v].chan[k].kind = "done" =>
           k = Len(sub'[v].chan) /\ pc \in {"close", "over"},
         viewer'[v].pc # "ended" => viewer'[v].end = "none",
         viewer'[v].end = "done" /\ viewer'[v].read = "running" =>
           viewer'[v].seen = 1 .. logs /\ pc \in {"close", "over", "crashed"},
         viewer'[v].pc = "live" /\ (sub'[v].in \/ HasDone(sub'[v].chan)) =>
           \A n \in 1 .. logs : n \in viewer'[v].seen \/ InChan(n, sub'[v].chan) \/ Unsent(n)
  PROVE  ConsoleInv'
<1>1. logs' = logs /\ pc' = pc /\ task' = task BY DEF runUnchanged, engineVars
<1>2. \A n : Unsent(n)' <=> Unsent(n) BY <1>1 DEF Unsent
<1>3. SeenKnown' BY <1>1 DEF ConsoleInv, SeenKnown
<1>4. DoneLast' BY <1>1 DEF ConsoleInv, DoneLast
<1>5. EndKnown' BY <1>1 DEF ConsoleInv, EndKnown
<1>6. ASSUME NEW u \in Viewers PROVE FollowsRun(u)'
  <2>1. CASE u = v BY <1>1, <1>2, <2>1 DEF FollowsRun
  <2>2. CASE u # v BY <1>1, <1>2, <2>2 DEF ConsoleInv, Follows, FollowsRun
  <2>. QED BY <2>1, <2>2
<1>. QED BY <1>3, <1>4, <1>5, <1>6 DEF ConsoleInv, Follows

\* Subscribing before the replay: from the replay on, everything in the log has
\* been seen, and what is stored later comes through the channel.
LEMMA ConsoleView ==
  ASSUME TypeInv, LinesHere, ConsoleInv, NEW v \in Viewers, Connect(v) \/ Serve(v) \/ Leave(v)
  PROVE  ConsoleInv'
<1>w. PICK w : w = viewer[v] OBVIOUS
<1>b. PICK b : b = sub[v] OBVIOUS
<1>t. /\ w \in Console /\ b \in Subscriber /\ logs \in Nat
      /\ viewer \in [Viewers -> Console] /\ sub \in [Viewers -> Subscriber]
      /\ \A k \in 1 .. Len(b.chan) : b.chan[k].kind = "log" => b.chan[k].id \in 1 .. logs
  BY <1>w, <1>b, RunConstants DEF TypeInv, TypeOK, EventsKnown
<1>c. /\ w.seen \subseteq 1 .. logs
      /\ \A k \in 1 .. Len(b.chan) : b.chan[k].kind = "done" =>
           k = Len(b.chan) /\ pc \in {"close", "over"}
      /\ w.pc # "ended" => w.end = "none"
      /\ w.end = "done" /\ w.read = "running" =>
           w.seen = 1 .. logs /\ pc \in {"close", "over", "crashed"}
      /\ w.pc = "live" /\ (b.in \/ HasDone(b.chan)) =>
           \A n \in 1 .. logs : n \in w.seen \/ InChan(n, b.chan) \/ Unsent(n)
  BY <1>w, <1>b DEF ConsoleInv, SeenKnown, DoneLast, EndKnown, Follows, FollowsRun
<1>r. runUnchanged
  BY DEF Connect, Serve, Subscribe, Replay, Receive, ChannelClosed, Leave
<1>1. CASE Connect(v)
  <2>1. PICK y : y = [w EXCEPT !.pc = "read", !.read = saved] OBVIOUS
  <2>2. viewer' = [viewer EXCEPT ![v] = y] /\ sub' = sub /\ w.pc = "off"
    BY <1>w, <1>1, <1>t, <2>1 DEF Connect
  <2>3. y.seen = w.seen /\ y.end = w.end /\ y.pc = "read" BY <1>t, <2>1 DEF Console
  <2>. QED BY <1>b, <1>c, <1>r, <1>t, <2>2, <2>3, ConsoleOne
<1>2. CASE Subscribe(v)
  <2>1. PICK y : y = [w EXCEPT !.pc = "subscribed"] OBVIOUS
  <2>2. PICK c : c = [b EXCEPT !.in = TRUE] OBVIOUS
  <2>3. viewer' = [viewer EXCEPT ![v] = y] /\ sub' = [sub EXCEPT ![v] = c] /\ w.pc = "read"
    BY <1>w, <1>b, <1>2, <1>t, <2>1, <2>2 DEF Subscribe
  <2>4. y.seen = w.seen /\ y.end = w.end /\ y.pc = "subscribed" BY <1>t, <2>1 DEF Console
  <2>5. c.chan = b.chan BY <1>t, <2>2 DEF Subscriber
  <2>. QED BY <1>c, <1>r, <1>t, <2>3, <2>4, <2>5, ConsoleOne
<1>3. CASE Replay(v)
  <2>1. PICK all : all = w.seen \cup 1 .. logs OBVIOUS
  <2>2. all = 1 .. logs BY <1>c, <2>1
  <2>3. CASE w.read \in Terminal
    <3>1. PICK y : y = [w EXCEPT !.pc = "ended", !.end = "done", !.seen = all] OBVIOUS
    <3>2. PICK c : c = [b EXCEPT !.in = FALSE, !.closed = TRUE] OBVIOUS
    <3>3. viewer' = [viewer EXCEPT ![v] = y] /\ sub' = [sub EXCEPT ![v] = c]
      BY <1>w, <1>b, <1>3, <1>t, <2>1, <2>3, <3>1, <3>2 DEF Replay
    <3>4. y.seen = all /\ y.pc = "ended" /\ y.read = w.read BY <1>t, <3>1 DEF Console
    <3>5. c.chan = b.chan BY <1>t, <3>2 DEF Subscriber
    <3>6. y.read # "running" BY <2>3, <3>4 DEF Terminal
    <3>. QED BY <1>c, <1>r, <1>t, <2>2, <3>3, <3>4, <3>5, <3>6, ConsoleOne
  <2>4. CASE w.read \notin Terminal
    <3>1. PICK y : y = [w EXCEPT !.pc = "live", !.seen = all] OBVIOUS
    <3>2. viewer' = [viewer EXCEPT ![v] = y] /\ sub' = sub /\ w.pc = "subscribed"
      BY <1>w, <1>3, <1>t, <2>1, <2>4, <3>1 DEF Replay
    <3>3. y.seen = all /\ y.pc = "live" /\ y.end = w.end BY <1>t, <3>1 DEF Console
    <3>. QED BY <1>b, <1>c, <1>r, <1>t, <2>2, <3>2, <3>3, ConsoleOne
  <2>. QED BY <2>3, <2>4
<1>4. CASE Receive(v)
  <2>q. PICK q : q = b.chan OBVIOUS
  <2>1. /\ w.pc = "live" /\ q # <<>> /\ q \in Seq(Event) BY <1>w, <1>b, <1>4, <1>t, <2>q DEF Receive, Subscriber
  <2>2. PICK e : e = Head(q) OBVIOUS
  <2>3. e = q[1] /\ 1 \in 1 .. Len(q) /\ Len(Tail(q)) = Len(q) - 1 BY <2>1, <2>2, TailGives
  <2>4. PICK r : r = Tail(q) OBVIOUS
  <2>5. /\ \A n : InChan(n, q) => (e.kind = "log" /\ e.id = n) \/ InChan(n, r)
        /\ HasDone(r) => HasDone(q)
        /\ \A k \in 1 .. Len(r) : r[k] = q[k + 1] /\ k + 1 \in 1 .. Len(q)
    BY <2>1, <2>2, <2>4, TailGives
  <2>6. \A k \in 1 .. Len(r) : r[k].kind = "done" => k = Len(r) /\ pc \in {"close", "over"}
    BY <1>c, <2>q, <2>3, <2>4, <2>5
  <2>7. CASE e.kind = "done"
    <3>1. Len(q) = 1 /\ pc \in {"close", "over"} /\ HasDone(q)
      BY <1>c, <2>q, <2>3, <2>7 DEF HasDone
    <3>2. \A n : ~InChan(n, q) BY <2>3, <2>7, <3>1 DEF InChan
    <3>3. \A n \in 1 .. logs : ~Unsent(n)
      <4>1. NoLine BY <3>1, NoLineAhead
      <4>. QED BY <1>t, <4>1 DEF NoLine, Unsent
    <3>4. w.seen = 1 .. logs BY <1>c, <2>q, <2>1, <3>1, <3>2, <3>3
    <3>5. PICK y : y = [w EXCEPT !.pc = "ended", !.end = "done"] OBVIOUS
    <3>6. PICK c : c = [in |-> FALSE, closed |-> TRUE, chan |-> r] OBVIOUS
    <3>7. viewer' = [viewer EXCEPT ![v] = y]
      <4>1. viewer' = [viewer EXCEPT ![v].seen = @, ![v].pc = "ended", ![v].end = "done"]
        BY <1>w, <1>b, <1>4, <1>t, <2>q, <2>2, <2>7 DEF Receive
      <4>. QED BY <1>w, <1>t, <3>5, <4>1 DEF Console
    <3>8. sub' = [sub EXCEPT ![v] = c] BY <1>b, <1>4, <1>t, <2>q, <2>2, <2>4, <2>7, <3>6 DEF Receive
    <3>9. y.seen = w.seen /\ y.pc = "ended" BY <1>t, <3>5 DEF Console
    <3>10. c.chan = r BY <3>6
    <3>. QED BY <1>r, <1>t, <2>6, <3>1, <3>4, <3>7, <3>8, <3>9, <3>10, ConsoleOne
  <2>8. CASE e.kind # "done"
    <3>1. PICK all : all = IF e.kind = "log" THEN w.seen \cup {e.id} ELSE w.seen OBVIOUS
    <3>2. PICK y : y = [w EXCEPT !.seen = all] OBVIOUS
    <3>3. PICK c : c = [in |-> b.in, closed |-> b.closed, chan |-> r] OBVIOUS
    <3>4. viewer' = [viewer EXCEPT ![v] = y]
      <4>1. viewer' = [viewer EXCEPT ![v].seen = IF e.kind = "log" THEN @ \cup {e.id} ELSE @,
                                     ![v].pc = @, ![v].end = @]
        BY <1>b, <1>4, <2>q, <2>2, <2>8 DEF Receive
      <4>. QED BY <1>w, <1>t, <3>1, <3>2, <4>1 DEF Console
    <3>5. sub' = [sub EXCEPT ![v] = c]
      BY <1>b, <1>4, <1>t, <2>q, <2>2, <2>4, <2>8, <3>3 DEF Receive, Subscriber
    <3>6. y.seen = all /\ y.pc = "live" /\ y.end = w.end /\ y.read = w.read
      BY <1>t, <2>1, <3>2 DEF Console
    <3>7. all \subseteq 1 .. logs BY <1>c, <1>t, <2>q, <2>3, <3>1
    <3>8. w.end = "none" BY <1>c, <2>1
    <3>9. b.in \/ HasDone(r) => \A n \in 1 .. logs : n \in all \/ InChan(n, r) \/ Unsent(n)
      BY <1>c, <2>q, <2>1, <2>5, <3>1
    <3>10. c.chan = r /\ c.in = b.in BY <3>3
    <3>. QED BY <1>r, <1>t, <2>6, <3>4, <3>5, <3>6, <3>7, <3>8, <3>9, <3>10, ConsoleOne
  <2>. QED BY <2>7, <2>8
<1>5. CASE ChannelClosed(v)
  <2>1. PICK y : y = [w EXCEPT !.pc = "ended", !.end = "closed"] OBVIOUS
  <2>2. viewer' = [viewer EXCEPT ![v] = y] /\ sub' = sub
    BY <1>w, <1>5, <1>t, <2>1 DEF ChannelClosed
  <2>3. y.seen = w.seen /\ y.end = "closed" /\ y.pc = "ended" BY <1>t, <2>1 DEF Console
  <2>. QED BY <1>b, <1>c, <1>r, <1>t, <2>2, <2>3, ConsoleOne
<1>6. CASE Leave(v)
  <2>1. PICK y : y = [w EXCEPT !.pc = "ended", !.end = "left"] OBVIOUS
  <2>2. PICK c : c = [b EXCEPT !.in = FALSE, !.closed = TRUE] OBVIOUS
  <2>3. viewer' = [viewer EXCEPT ![v] = y] /\ sub' = [sub EXCEPT ![v] = c]
    BY <1>w, <1>b, <1>6, <1>t, <2>1, <2>2 DEF Leave
  <2>4. y.seen = w.seen /\ y.end = "left" /\ y.pc = "ended" BY <1>t, <2>1 DEF Console
  <2>5. c.chan = b.chan BY <1>t, <2>2 DEF Subscriber
  <2>. QED BY <1>c, <1>r, <1>t, <2>3, <2>4, <2>5, ConsoleOne
<1>. QED BY <1>1, <1>2, <1>3, <1>4, <1>5, <1>6 DEF Serve

LEMMA ConsoleStep ==
  ASSUME RunInv, LinesHere, ConsoleInv, [Next]_vars
  PROVE  ConsoleInv'
<1>i. TypeInv BY DEF RunInv
<1>1. ASSUME UNCHANGED <<logs, viewer>>, SameLines, pc \notin Late, pc' \notin Late,
             Broadcast(StatusEvent)
      PROVE  ConsoleInv'
  <2>1. StatusEvent \in Event /\ StatusEvent.kind = "status" BY DEF StatusEvent, Event
  <2>2. pc' \notin {"close", "over"} BY <1>1 DEF Late
  <2>3. \A n : Unsent(n) => Unsent(n)' BY <1>1, UnsentKept
  <2>. QED BY <1>i, <1>1, <2>1, <2>2, <2>3, ConsoleBroadcast
<1>. QED BY <1>i, <1>1, HubKinds, ConsoleQuiet, ConsoleAppend, ConsoleLine, ConsoleEnd, ConsoleView

\* wsRunLogs subscribes before it replays, and the hub cuts a console off
\* rather than drop an event: a console that followed a running run to its done
\* event has seen every line, for any number of consoles, tasks and lines, any
\* buffer, and wherever one joins, leaves, lags or the agent dies.
THEOREM FollowersSeeAll == Spec => []NoGapBeforeDone
<1>1. Init => LinesHere /\ ConsoleInv
  BY DEF Init, LinesHere, ConsoleInv, SeenKnown, DoneLast, EndKnown, Follows, FollowsRun, NoTask, Absent
<1>2. RunInv /\ LinesHere /\ ConsoleInv /\ [Next]_vars => LinesHere' /\ ConsoleInv'
  BY LinesStep, ConsoleStep
<1>3. ConsoleInv => NoGapBeforeDone BY DEF ConsoleInv, EndKnown, NoGapBeforeDone
<1>4. Spec => []ConsoleInv BY <1>1, <1>2, RunAlways, PTL DEF Spec
<1>. QED BY <1>3, <1>4, PTL
=============================================================================

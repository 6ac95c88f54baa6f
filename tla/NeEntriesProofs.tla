--------------------------- MODULE NeEntriesProofs ----------------------------
(***************************************************************************)
(* The entry table of a New Executable, for tables of any length: what is  *)
(* filed so far is a prefix of the addresses of the table, and exports are *)
(* looked up in it.                                                        *)
(*                                                                         *)
(* FiledInOrder is not inductive: where the next address belongs follows   *)
(* from where the reader stands.  Begin, the places of the bundles in the  *)
(* list of all addresses, relates the two; the lemmas on joined sequences  *)
(* say what is found at those places.                                      *)
(***************************************************************************)
EXTENDS NeEntries, FiniteSetTheorems, SequenceTheorems, WellFoundedInduction, TLAPS

-------------------------------------------------------------------------------
(* Sequences joined to one                                                 *)

\* A set of natural numbers has a least one.
LEMMA LeastNumber ==
  ASSUME NEW T \in SUBSET Nat, T # {}
  PROVE  \E x \in T : \A y \in T : x <= y
  <1> DEFINE Less == {ss \in Nat \X Nat : ss[1] < ss[2]}
  <1>1. IsWellFoundedOn(Less, Nat)
    <2>1. Less = OpToRel(<, Nat)
      BY DEF Less, OpToRel
    <2>. QED BY <2>1, NatLessThanWellFounded
  <1> HIDE DEF Less
  <1>2. PICK x \in T : \A y \in T : ~(<<y, x>> \in Less)
    BY <1>1, WFMin, Zenon
  <1>3. ASSUME NEW y \in T
        PROVE  x <= y
    <2>1. x \in Nat /\ y \in Nat
      BY <1>2
    <2>2. y < x => <<y, x>> \in Less
      BY <2>1 DEF Less
    <2>. QED BY <1>2, <2>1, <2>2
  <1>. QED BY <1>3

\* The functions that go on from a first value step by step.
StepsFrom(V, n, first, G) ==
  {f \in [1..(n + 1) -> V] : f[1] = first /\ \A k \in 1..n : f[k + 1] = G[<<f[k], k>>]}

\* What is defined step by step from what the step before left is defined.
LEMMA StepByStep ==
  ASSUME NEW V, NEW n \in Nat, NEW first \in V, NEW G \in [V \X (1..n) -> V]
  PROVE  StepsFrom(V, n, first, G) # {}
  <1> DEFINE Path(m) ==
        \E f \in [1..(m + 1) -> V] :
          f[1] = first /\ \A k \in 1..m : f[k + 1] = G[<<f[k], k>>]
             T == {m \in 0..n : ~Path(m)}
  <1>1. ASSUME T # {}
        PROVE  FALSE
    <2>0. T \in SUBSET Nat
      OBVIOUS
    <2>1. PICK m \in T : \A y \in T : m <= y
      BY <1>1, <2>0, LeastNumber
    <2>2. Path(0)
      <3> DEFINE f == [k \in 1..(0 + 1) |-> first]
      <3>1. f \in [1..(0 + 1) -> V] /\ f[1] = first
        OBVIOUS
      <3>2. \A k \in 1..0 : f[k + 1] = G[<<f[k], k>>]
        OBVIOUS
      <3> HIDE DEF f
      <3>. QED BY <3>1, <3>2
    <2>m. m \in 0..n /\ ~Path(m)
      OBVIOUS
    <2>n. m # 0
      BY <2>m, <2>2, Zenon
    <2>3. m # 0 /\ m \in 1..n
      BY <2>m, <2>n
    <2>4. Path(m - 1)
      <3>1. m - 1 \in 0..n /\ ~(m <= m - 1)
        BY <2>3
      <3>. QED BY <2>1, <3>1
    <2>5. PICK f \in [1..m -> V] :
            f[1] = first /\ \A k \in 1..(m - 1) : f[k + 1] = G[<<f[k], k>>]
      <3>1. (m - 1) + 1 = m
        BY <2>3
      <3>. QED BY <2>4, <3>1
    <2> DEFINE g == [k \in 1..(m + 1) |-> IF k = m + 1 THEN G[<<f[m], m>>] ELSE f[k]]
    <2>6. g \in [1..(m + 1) -> V]
      <3>1. G[<<f[m], m>>] \in V
        BY <2>3, <2>5
      <3>2. \A k \in 1..(m + 1) : k # m + 1 => f[k] \in V
        BY <2>3, <2>5
      <3>. QED BY <3>1, <3>2
    <2>7. g[1] = first
      BY <2>3, <2>5
    <2>8. ASSUME NEW k \in 1..m
          PROVE  g[k + 1] = G[<<g[k], k>>]
      <3>1. g[k] = f[k]
        BY <2>3
      <3>2. CASE k = m
        <4>1. g[m + 1] = G[<<f[m], m>>]
          BY <2>3
        <4> HIDE DEF g
        <4>. QED BY <3>1, <3>2, <4>1
      <3>3. CASE k # m
        <4>1. k \in 1..(m - 1) /\ k + 1 \in 1..(m + 1) /\ k + 1 # m + 1
          BY <3>3, <2>3
        <4>2. g[k + 1] = f[k + 1]
          BY <4>1
        <4> HIDE DEF g
        <4>. QED BY <4>1, <4>2, <3>1, <2>5
      <3>. QED BY <3>2, <3>3
    <2>. QED BY <2>1, <2>6, <2>7, <2>8
  <1>2. n \in 0..n
    OBVIOUS
  <1>3. Path(n)
    BY <1>1, <1>2
  <1>4. PICK f \in [1..(n + 1) -> V] :
          f[1] = first /\ \A k \in 1..n : f[k + 1] = G[<<f[k], k>>]
    BY <1>3
  <1> HIDE DEF T, Path
  <1>5. f \in StepsFrom(V, n, first, G)
    BY <1>4, Zenon DEF StepsFrom
  <1>. QED BY <1>5

\* The steps in which a sequence of sequences is joined to one.
Joining(V, N, S) ==
  {F \in [1..N -> Seq(V)] :
     /\ F[1] = S[1]
     /\ \A k \in 1..(N - 1) : F[k + 1] = F[k] \o S[k + 1]}

\* What FlattenSeq returns is built up by appending one sequence after the other.
LEMMA Flattened ==
  ASSUME NEW V, NEW N \in Nat \ {0}, NEW S \in [1..N -> Seq(V)]
  PROVE  \E F \in Joining(V, N, S) : FlattenSeq(S) = F[N]
  <1> DEFINE n == N - 1
             G == [p \in Seq(V) \X (1..n) |-> p[1] \o S[p[2] + 1]]
             Def(e) == [k \in 1..N |-> IF k = 1 THEN S[k] ELSE e[k - 1] \o S[k]]
             flat == CHOOSE e : e = Def(e)
  <1>1. n \in Nat /\ n + 1 = N /\ 1 \in 1..N
    OBVIOUS
  <1>2. G \in [Seq(V) \X (1..n) -> Seq(V)]
    <2>1. ASSUME NEW p \in Seq(V) \X (1..n)
          PROVE  p[1] \o S[p[2] + 1] \in Seq(V)
      <3>1. p[1] \in Seq(V) /\ S[p[2] + 1] \in Seq(V)
        BY <2>1
      <3>. QED BY <3>1, ConcatProperties
    <2>. QED BY <2>1
  <1>3. \A s \in Seq(V), k \in 1..n : G[<<s, k>>] = s \o S[k + 1]
    OBVIOUS
  <1> HIDE DEF G
  <1>4. PICK f \in [1..(n + 1) -> Seq(V)] :
          f[1] = S[1] /\ \A k \in 1..n : f[k + 1] = G[<<f[k], k>>]
    <2> DEFINE W == Seq(V)
               first == S[1]
    <2>1. first \in W
      BY <1>1
    <2>2. n \in Nat /\ G \in [W \X (1..n) -> W]
      BY <1>1, <1>2
    <2> HIDE DEF n, W, first
    <2>3. StepsFrom(W, n, first, G) # {}
      BY <2>1, <2>2, StepByStep
    <2>4. PICK f \in StepsFrom(W, n, first, G) : TRUE
      BY <2>3
    <2>5. f \in [1..(n + 1) -> W] /\ f[1] = first /\ \A k \in 1..n : f[k + 1] = G[<<f[k], k>>]
      BY <2>4, Zenon DEF StepsFrom
    <2>. QED BY <2>5 DEF W, first
  <1>5. f \in [1..N -> Seq(V)]
    BY <1>1
  <1>6. \A k \in 1..n : f[k + 1] = f[k] \o S[k + 1]
    <2>1. ASSUME NEW k \in 1..n
          PROVE  f[k + 1] = f[k] \o S[k + 1]
      <3>1. f[k] \in Seq(V)
        BY <1>5, <1>1
      <3>. QED BY <3>1, <1>3, <1>4
    <2>. QED BY <2>1
  <1>7. f = Def(f)
    <2>1. ASSUME NEW k \in 1..N
          PROVE  f[k] = IF k = 1 THEN S[k] ELSE f[k - 1] \o S[k]
      <3>1. CASE k = 1
        BY <1>4, <3>1
      <3>2. CASE k # 1
        <4>1. k - 1 \in 1..n /\ (k - 1) + 1 = k
          BY <1>1, <3>2
        <4>2. f[(k - 1) + 1] = f[k - 1] \o S[(k - 1) + 1]
          BY <4>1, <1>6
        <4>. QED BY <4>1, <4>2, <3>2
      <3>. QED BY <3>1, <3>2
    <2> DEFINE d == Def(f)
    <2>2. DOMAIN d = 1..N /\ \A k \in 1..N : d[k] = f[k]
      BY <2>1
    <2>3. d = [k \in 1..N |-> d[k]] /\ f = [k \in 1..N |-> f[k]]
      BY <1>5
    <2> HIDE DEF d
    <2>. QED BY <2>2, <2>3, Zenon DEF d
  <1>8. flat = Def(flat)
    <2> HIDE DEF Def
    <2>. QED BY <1>7, Zenon
  <1>9. FlattenSeq(S) = flat[N]
    <2>1. Len(S) = N
      <3>1. S \in Seq(Seq(V))
        BY IsASeq
      <3>. QED BY <3>1, LenProperties
    <2>2. N # 0
      OBVIOUS
    <2>. QED BY <2>1, <2>2 DEF FlattenSeq
  <1> HIDE DEF flat
  <1>10. flat[1] = S[1] /\ \A k \in 1..n : flat[k + 1] = flat[k] \o S[k + 1]
    <2>1. flat[1] = S[1]
      BY <1>8, <1>1
    <2>2. ASSUME NEW k \in 1..n
          PROVE  flat[k + 1] = flat[k] \o S[k + 1]
      <3>1. k + 1 \in 1..N /\ k + 1 # 1 /\ (k + 1) - 1 = k
        BY <1>1
      <3>2. flat[k + 1] = flat[(k + 1) - 1] \o S[k + 1]
        BY <1>8, <3>1
      <3>. QED BY <3>1, <3>2
    <2>. QED BY <2>1, <2>2
  <1>11. \A k \in 1..N : flat[k] \in Seq(V)
    <2> DEFINE T == {k \in 1..N : flat[k] \notin Seq(V)}
    <2>1. ASSUME T # {}
          PROVE  FALSE
      <3>1. T \in SUBSET Nat
        OBVIOUS
      <3>2. PICK k \in T : \A y \in T : k <= y
        BY <2>1, <3>1, LeastNumber
      <3>k. k \in 1..N /\ flat[k] \notin Seq(V)
        OBVIOUS
      <3>3. k # 1
        BY <3>k, <1>10, <1>1
      <3>4. k - 1 \in 1..n /\ (k - 1) + 1 = k /\ k - 1 \in 1..N /\ ~(k <= k - 1)
        BY <1>1, <3>3, <3>k
      <3>5. flat[k - 1] \in Seq(V)
        BY <3>2, <3>4
      <3>6. flat[k] = flat[k - 1] \o S[k] /\ S[k] \in Seq(V)
        BY <3>4, <3>k, <1>10
      <3>. QED BY <3>5, <3>6, <3>k, ConcatProperties
    <2>. QED BY <2>1
  <1>12. flat \in [1..N -> Seq(V)]
    <2>1. DOMAIN flat = 1..N /\ flat = [k \in 1..N |-> flat[k]]
      BY <1>8
    <2>. QED BY <1>11, <2>1
  <1>13. \A k \in 1..(N - 1) : flat[k + 1] = flat[k] \o S[k + 1]
    BY <1>10
  <1>14. flat \in Joining(V, N, S)
    BY <1>10, <1>12, <1>13, Zenon DEF Joining
  <1>. QED BY <1>9, <1>14, Zenon

\* Where the sequences that are joined begin: each is found in the result at its
\* place, behind those in front of it.
IsPlacing(N, S, at) ==
  /\ at \in [1..(N + 1) -> Nat]
  /\ at[1] = 0
  /\ \A k \in 1..N : /\ at[k + 1] = at[k] + Len(S[k])
                     /\ at[k + 1] <= at[N + 1]
                     /\ \A j \in 1..Len(S[k]) : FlattenSeq(S)[at[k] + j] = S[k][j]
  /\ Len(FlattenSeq(S)) = at[N + 1]

\* There are such places.
LEMMA Places ==
  ASSUME NEW V, NEW N \in Nat, NEW S \in [1..N -> Seq(V)]
  PROVE  \E at : IsPlacing(N, S, at)
  <1>1. CASE N = 0
    <2> DEFINE at == [k \in 1..(N + 1) |-> 0]
    <2>1. at \in [1..(N + 1) -> Nat] /\ at[1] = 0 /\ at[N + 1] = 0
      BY <1>1
    <2>2. \A k \in 1..N : FALSE
      BY <1>1
    <2>3. S \in Seq(Seq(V)) /\ Len(S) = 0
      <3>1. S \in Seq(Seq(V))
        BY IsASeq
      <3>. QED BY <3>1, <1>1, LenProperties
    <2>4. Len(FlattenSeq(S)) = 0
      BY <2>3 DEF FlattenSeq
    <2> HIDE DEF at
    <2>5. IsPlacing(N, S, at)
      BY <2>1, <2>2, <2>4 DEF IsPlacing
    <2>. QED BY <2>5
  <1>2. CASE N # 0
    <2>a. PICK F \in Joining(V, N, S) : FlattenSeq(S) = F[N]
      BY <1>2, Flattened
    <2>1. /\ F \in [1..N -> Seq(V)]
          /\ F[1] = S[1]
          /\ \A k \in 1..(N - 1) : F[k + 1] = F[k] \o S[k + 1]
          /\ FlattenSeq(S) = F[N]
      BY <2>a, Zenon DEF Joining
    <2> DEFINE at == [k \in 1..(N + 1) |-> IF k = 1 THEN 0 ELSE Len(F[k - 1])]
    <2>2. \A k \in 1..N : at[k + 1] = Len(F[k])
      <3>1. ASSUME NEW k \in 1..N
            PROVE  at[k + 1] = Len(F[k])
        <4>1. k + 1 \in 1..(N + 1) /\ k + 1 # 1 /\ (k + 1) - 1 = k
          OBVIOUS
        <4>. QED BY <4>1
      <3>. QED BY <3>1
    <2>3. at[1] = 0 /\ at[N + 1] = Len(F[N])
      BY <1>2, <2>2
    <2>4. at \in [1..(N + 1) -> Nat]
      <3>1. ASSUME NEW k \in 1..(N + 1)
            PROVE  (IF k = 1 THEN 0 ELSE Len(F[k - 1])) \in Nat
        <4>1. k # 1 => k - 1 \in 1..N
          OBVIOUS
        <4>2. \A m \in 1..N : Len(F[m]) \in Nat
          BY LenProperties
        <4>. QED BY <4>1, <4>2
      <3>. QED BY <3>1
    <2> HIDE DEF at
    <2>5. \A k \in 1..N : /\ at[k + 1] = at[k] + Len(S[k])
                          /\ \A j \in 1..Len(S[k]) : F[k][at[k] + j] = S[k][j]
      <3>1. ASSUME NEW k \in 1..N
            PROVE  /\ at[k + 1] = at[k] + Len(S[k])
                   /\ \A j \in 1..Len(S[k]) : F[k][at[k] + j] = S[k][j]
        <4>0. S[k] \in Seq(V) /\ Len(S[k]) \in Nat
          BY LenProperties
        <4>1. CASE k = 1
          <5>1. at[k + 1] = Len(S[k]) /\ at[k] = 0 /\ F[k] = S[k]
            BY <2>1, <2>2, <2>3, <4>1
          <5>. QED BY <5>1, <4>0
        <4>2. CASE k # 1
          <5>1. k - 1 \in 1..(N - 1) /\ (k - 1) + 1 = k /\ k - 1 \in 1..N
            BY <4>2
          <5>2. F[k] = F[k - 1] \o S[k] /\ F[k - 1] \in Seq(V) /\ at[k] = Len(F[k - 1])
            BY <5>1, <2>1, <2>2
          <5> DEFINE a == F[k - 1]
                     b == S[k]
          <5>3. /\ Len(a \o b) = Len(a) + Len(b) /\ Len(a) \in Nat
                /\ \A m \in 1..(Len(a) + Len(b)) :
                     (a \o b)[m] = IF m <= Len(a) THEN a[m] ELSE b[m - Len(a)]
            <6> HIDE DEF a, b
            <6>1. a \in Seq(V) /\ b \in Seq(V)
              BY <5>2, <4>0 DEF a, b
            <6>. QED BY <6>1, ConcatProperties, LenProperties
          <5>4. at[k + 1] = at[k] + Len(S[k])
            BY <5>2, <5>3, <2>2
          <5>5. ASSUME NEW j \in 1..Len(b)
                PROVE  (a \o b)[Len(a) + j] = b[j]
            <6> HIDE DEF a, b
            <6>0. Len(b) \in Nat
              BY <4>0 DEF b
            <6>1. Len(a) + j \in 1..(Len(a) + Len(b)) /\ ~(Len(a) + j <= Len(a))
                  /\ (Len(a) + j) - Len(a) = j
              BY <5>3, <6>0
            <6>. QED BY <6>1, <5>3
          <5>. QED BY <5>2, <5>4, <5>5
        <4>. QED BY <4>1, <4>2
      <3>. QED BY <3>1
    <2>6. ASSUME NEW k \in 1..N
          PROVE  /\ at[k + 1] <= at[N + 1]
                 /\ \A j \in 1..Len(S[k]) : F[N][at[k] + j] = S[k][j]
      <3> DEFINE Kept(m) == /\ at[k + 1] <= Len(F[m])
                            /\ \A j \in 1..Len(S[k]) : F[m][at[k] + j] = S[k][j]
                 T == {m \in k..N : ~Kept(m)}
      <3>1. ASSUME T # {}
            PROVE  FALSE
        <4>1. T \in SUBSET Nat
          OBVIOUS
        <4>2. PICK m \in T : \A y \in T : m <= y
          BY <3>1, <4>1, LeastNumber
        <4>m. m \in k..N /\ ~Kept(m)
          OBVIOUS
        <4>0. /\ at[k + 1] = at[k] + Len(S[k]) /\ at[k] \in Nat /\ Len(S[k]) \in Nat
              /\ at[k + 1] \in Nat
          <5>1. k \in 1..(N + 1) /\ k + 1 \in 1..(N + 1)
            OBVIOUS
          <5>. QED BY <2>4, <2>5, <5>1, LenProperties
        <4>3. Kept(k)
          <5>1. at[k + 1] = Len(F[k])
            BY <2>2
          <5>2. at[k + 1] <= Len(F[k])
            BY <4>0, <5>1
          <5>. QED BY <2>5, <5>2
        <4>4. m # k
          <5> HIDE DEF Kept
          <5>. QED BY <4>3, <4>m
        <4>5. m - 1 \in k..N /\ m - 1 \in 1..(N - 1) /\ (m - 1) + 1 = m /\ ~(m <= m - 1)
          BY <4>4, <4>m
        <4>6. Kept(m - 1)
          BY <4>2, <4>5
        <4> DEFINE a == F[m - 1]
                   b == S[m]
        <4>7. F[m] = a \o b /\ a \in Seq(V) /\ b \in Seq(V)
          <5> HIDE DEF Kept, T
          <5>1. m \in 1..N /\ m - 1 \in 1..N
            BY <4>5, <4>m
          <5>2. F[(m - 1) + 1] = F[m - 1] \o S[(m - 1) + 1]
            BY <2>1, <4>5
          <5>3. S[m] \in Seq(V) /\ F[m - 1] \in Seq(V)
            BY <5>1, <2>1
          <5>. QED BY <4>5, <5>2, <5>3
        <4>8. /\ Len(a \o b) = Len(a) + Len(b) /\ Len(a) \in Nat /\ Len(b) \in Nat
              /\ \A x \in 1..(Len(a) + Len(b)) :
                   (a \o b)[x] = IF x <= Len(a) THEN a[x] ELSE b[x - Len(a)]
          <5> HIDE DEF a, b
          <5>. QED BY <4>7, ConcatProperties, LenProperties
        <4>9. at[k + 1] <= Len(a) /\ \A j \in 1..Len(S[k]) : a[at[k] + j] = S[k][j]
          BY <4>6
        <4> HIDE DEF a, b
        <4>10. at[k + 1] <= Len(F[m])
          <5>1. Len(F[m]) = Len(a) + Len(b)
            BY <4>7, <4>8
          <5> HIDE DEF Kept, T
          <5>. QED BY <4>0, <4>8, <4>9, <5>1
        <4>11. ASSUME NEW j \in 1..Len(S[k])
               PROVE  F[m][at[k] + j] = S[k][j]
          <5> HIDE DEF Kept, T
          <5>1. at[k] + j \in 1..(Len(a) + Len(b)) /\ at[k] + j <= Len(a)
            <6>1. j \in Nat \ {0} /\ j <= Len(S[k])
              BY <4>0
            <6>2. at[k] + j <= at[k + 1]
              BY <4>0, <6>1
            <6>3. at[k] + j <= Len(a)
              BY <4>0, <4>8, <4>9, <6>1, <6>2
            <6> DEFINE lb == Len(b)
                       la == Len(a)
                       s == at[k]
            <6>a. la \in Nat /\ lb \in Nat /\ s \in Nat /\ s + j <= la
              BY <4>0, <4>8, <6>3
            <6>4. at[k] + j \in Nat \ {0} /\ at[k] + j <= Len(a) + Len(b)
              <7>1. s + j \in Nat \ {0} /\ s + j <= la + lb
                <8> HIDE DEF la, lb, s
                <8>. QED BY <6>a, <6>1
              <7>. QED BY <7>1
            <6>5. Len(a) + Len(b) \in Nat
              BY <4>8
            <6> DEFINE x == at[k] + j
            <6> HIDE DEF x
            <6>. QED BY <6>3, <6>4, <6>5 DEF x
          <5>. QED BY <5>1, <4>7, <4>8, <4>9
        <4>. QED BY <4>m, <4>10, <4>11
      <3>2. N \in k..N
        OBVIOUS
      <3>3. Kept(N)
        BY <3>1, <3>2
      <3>. QED BY <3>3, <2>3
    <2>7. Len(FlattenSeq(S)) = at[N + 1]
      BY <2>1, <2>3
    <2>8. IsPlacing(N, S, at)
      BY <2>1, <2>3, <2>4, <2>5, <2>6, <2>7 DEF IsPlacing
    <2>. QED BY <2>8
  <1>. QED BY <1>1, <1>2

-------------------------------------------------------------------------------
(* The table as a list of addresses                                        *)

BundleCount == Cardinality(Bundles)

\* The bundles of the table are the first ones of the file.
LEMMA BundlesAreFirst ==
  ASSUME input \in Inputs
  PROVE  /\ BundleCount \in Nat /\ BundleCount <= Len(input.bundles)
         /\ Len(input.bundles) \in Nat
         /\ Bundles = 1..BundleCount
  <1> DEFINE L == Len(input.bundles)
             T == {n \in 1..L : input.bundles[n].count = 0}
  <1>1. L \in Nat
    BY InputsAssumption, LenProperties
  <1>2. ASSUME NEW B \in 0..L, Bundles = 1..B
        PROVE  BundleCount = B
    BY <1>2, FS_Interval DEF BundleCount
  <1>3. CASE T = {}
    <2>1. Bundles = 1..L
      <3>1. \A n \in 1..L : \A m \in 1..n : m \in 1..L
        BY <1>1
      <3>. QED BY <1>3, <3>1 DEF Bundles
    <2>2. L \in 0..L
      BY <1>1
    <2>3. BundleCount = L
      BY <1>2, <2>1, <2>2
    <2>. QED BY <1>1, <2>1, <2>3
  <1>4. CASE T # {}
    <2>1. T \in SUBSET Nat
      OBVIOUS
    <2>2. PICK z \in T : \A y \in T : z <= y
      BY <1>4, <2>1, LeastNumber
    <2>3. z \in 1..L /\ input.bundles[z].count = 0
      OBVIOUS
    <2>4. \A m \in 1..(z - 1) : input.bundles[m].count # 0
      <3>1. ASSUME NEW m \in 1..(z - 1)
            PROVE  input.bundles[m].count # 0
        <4>1. m \in 1..L /\ ~(z <= m)
          BY <1>1, <2>3
        <4>. QED BY <2>2, <4>1
      <3>. QED BY <3>1
    <2>5. Bundles = 1..(z - 1)
      <3>1. ASSUME NEW n \in Bundles
            PROVE  n \in 1..(z - 1)
        <4>1. n \in 1..L /\ \A m \in 1..n : input.bundles[m].count # 0
          BY DEF Bundles
        <4>2. ~(z \in 1..n)
          BY <4>1, <2>3
        <4>. QED BY <4>1, <4>2, <2>3
      <3>2. ASSUME NEW n \in 1..(z - 1)
            PROVE  n \in Bundles
        <4>1. n \in 1..L /\ \A m \in 1..n : m \in 1..(z - 1)
          BY <1>1, <2>3
        <4>. QED BY <4>1, <2>4 DEF Bundles
      <3>. QED BY <3>1, <3>2
    <2>6. z - 1 \in 0..L
      BY <1>1, <2>3
    <2>7. BundleCount = z - 1
      BY <1>2, <2>5, <2>6
    <2>. QED BY <1>1, <2>5, <2>6, <2>7
  <1>. QED BY <1>3, <1>4

Lists == [n \in 1..BundleCount |-> AddressesOf(input.bundles[n])]

\* Begin[n] ordinals have been assigned in front of bundle n.
Begin == CHOOSE at : IsPlacing(BundleCount, Lists, at)

\* A segment and an offset in it make an address.
LEMMA AddressIsNat ==
  ASSUME NEW s \in Nat, NEW off \in Nat
  PROVE  Address(s, off) \in Nat
  <1>1. s * Slot \in Nat
    BY SizesAssumption
  <1>. QED BY <1>1 DEF Address

\* A bundle as the file has it.
LEMMA BundleType ==
  ASSUME input \in Inputs, NEW n \in 1..Len(input.bundles)
  PROVE  /\ input.bundles[n].count \in Nat /\ input.bundles[n].seg \in Nat
         /\ Len(input.bundles[n].entries) \in Nat
         /\ \A k \in 1..Len(input.bundles[n].entries) :
              /\ input.bundles[n].entries[k].seg \in Nat
              /\ input.bundles[n].entries[k].off \in Nat
  <1> DEFINE E == [seg : Nat, off : Nat]
             b == input.bundles[n]
  <1>1. input.bundles \in Seq([count : Nat, seg : Nat, entries : Seq(E)])
    BY InputsAssumption
  <1>2. b \in [count : Nat, seg : Nat, entries : Seq(E)]
    BY <1>1, ElementOfSeq
  <1>3. b.count \in Nat /\ b.seg \in Nat /\ b.entries \in Seq(E)
    BY <1>2
  <1> HIDE DEF b
  <1>4. Len(b.entries) \in Nat /\ \A k \in 1..Len(b.entries) : b.entries[k] \in E
    BY <1>3, LenProperties, ElementOfSeq
  <1>. QED BY <1>3, <1>4 DEF b

\* The addresses of a bundle, one for each of its ordinals.
LEMMA AddressesOfBundle ==
  ASSUME input \in Inputs, Regular, NEW n \in 1..BundleCount
  PROVE  /\ AddressesOf(input.bundles[n]) \in Seq(Nat)
         /\ Len(AddressesOf(input.bundles[n])) = input.bundles[n].count
         /\ input.bundles[n].count \in Nat \ {0}
  <1> DEFINE b == input.bundles[n]
             A(k) == IF b.seg = Unused THEN 0
                     ELSE LET e == b.entries[k] IN
                          IF SegmentOf(b, e) \in 1 .. SegCount
                            THEN Address(SegmentOf(b, e), e.off) ELSE 0
  <1>1. n \in 1..Len(input.bundles) /\ n \in Bundles
    BY BundlesAreFirst
  <1>2. b.count \in Nat
    BY <1>1, BundleType
  <1>3. b.count # 0
    <2>1. n \in 1..n
      BY <1>1
    <2>. QED BY <1>1, <2>1 DEF Bundles
  <1>4. b.seg = Unused \/ Len(b.entries) >= b.count
    BY <1>1 DEF Regular
  <1>5. \A k \in 1..b.count : A(k) \in Nat
    <2>1. ASSUME NEW k \in 1..b.count, b.seg # Unused
          PROVE  b.entries[k].off \in Nat
      <3>1. k \in 1..Len(b.entries)
        BY <1>1, <1>2, <1>4, <2>1, BundleType
      <3>. QED BY <1>1, <3>1, BundleType
    <2>2. SegCount \in Nat
      BY InputsAssumption DEF SegCount
    <2>3. ASSUME NEW k \in 1..b.count
          PROVE  A(k) \in Nat
      <3>1. CASE b.seg = Unused
        BY <3>1
      <3>2. CASE b.seg # Unused /\ SegmentOf(b, b.entries[k]) \in 1 .. SegCount
        <4> DEFINE s == SegmentOf(b, b.entries[k])
                   off == b.entries[k].off
        <4>1. s \in Nat /\ off \in Nat
          BY <3>2, <2>1, <2>2
        <4> HIDE DEF s, off
        <4>2. Address(s, off) \in Nat
          BY <4>1, AddressIsNat
        <4>3. A(k) = Address(s, off)
          BY <3>2 DEF s, off
        <4>. QED BY <4>2, <4>3
      <3>3. CASE b.seg # Unused /\ SegmentOf(b, b.entries[k]) \notin 1 .. SegCount
        BY <3>3
      <3>. QED BY <3>1, <3>2, <3>3
    <2>. QED BY <2>3
  <1>6. AddressesOf(b) = [k \in 1..b.count |-> A(k)]
    BY DEF AddressesOf
  <1> HIDE DEF A, b
  <1>7. [k \in 1..b.count |-> A(k)] \in Seq(Nat)
    BY <1>2, <1>5, IsASeq
  <1>8. AddressesOf(b) \in Seq(Nat) /\ DOMAIN AddressesOf(b) = 1..b.count
    BY <1>6, <1>7
  <1>9. Len(AddressesOf(b)) = b.count
    BY <1>2, <1>8, LenProperties
  <1>. QED BY <1>2, <1>3, <1>8, <1>9 DEF b

\* The list of addresses, bundle by bundle.
LEMMA Begins ==
  ASSUME input \in Inputs, Regular
  PROVE  /\ Begin[1] = 0 /\ BundleCount \in Nat
         /\ \A n \in 1..(BundleCount + 1) : Begin[n] \in Nat /\ Begin[n] <= Len(Addresses)
         /\ \A n \in 1..BundleCount :
              /\ Begin[n + 1] = Begin[n] + input.bundles[n].count
              /\ \A j \in 1..input.bundles[n].count :
                   Addresses[Begin[n] + j] = AddressesOf(input.bundles[n])[j]
         /\ Len(Addresses) \in Nat
  <1> DEFINE N == BundleCount
  <1>1. N \in Nat
    BY BundlesAreFirst
  <1>2. Lists \in [1..N -> Seq(Nat)]
    BY AddressesOfBundle DEF Lists
  <1>3. IsPlacing(N, Lists, Begin)
    <2> HIDE DEF N
    <2>1. \E at : IsPlacing(N, Lists, at)
      BY <1>1, <1>2, Places
    <2>. QED BY <2>1, Zenon DEF Begin, N
  <1>4. Addresses = FlattenSeq(Lists)
    BY DEF Addresses, Lists, BundleCount
  <1>5. /\ Begin \in [1..(N + 1) -> Nat]
        /\ Begin[1] = 0
        /\ \A k \in 1..N : /\ Begin[k + 1] = Begin[k] + Len(Lists[k])
                           /\ Begin[k + 1] <= Begin[N + 1]
                           /\ \A j \in 1..Len(Lists[k]) : Addresses[Begin[k] + j] = Lists[k][j]
        /\ Len(Addresses) = Begin[N + 1]
    BY <1>3, <1>4, Zenon DEF IsPlacing
  <1>6. \A n \in 1..N : Lists[n] = AddressesOf(input.bundles[n])
                        /\ Len(Lists[n]) = input.bundles[n].count
    BY AddressesOfBundle DEF Lists
  <1>7. \A n \in 1..(N + 1) : Begin[n] \in Nat /\ Begin[n] <= Begin[N + 1]
    <2>0. Begin[N + 1] \in Nat
      BY <1>1, <1>5
    <2>1. ASSUME NEW n \in 1..(N + 1)
          PROVE  Begin[n] \in Nat /\ Begin[n] <= Begin[N + 1]
      <3>1. CASE n = 1
        BY <3>1, <1>5, <2>0
      <3>2. CASE n # 1
        <4>1. n - 1 \in 1..N /\ (n - 1) + 1 = n
          BY <1>1, <3>2
        <4>2. Begin[(n - 1) + 1] <= Begin[N + 1]
          BY <1>5, <4>1
        <4>. QED BY <4>1, <4>2, <1>5
      <3>. QED BY <3>1, <3>2
    <2>. QED BY <2>1
  <1> HIDE DEF N
  <1>8. Len(Addresses) \in Nat
    BY <1>1, <1>5, <1>7
  <1>9. \A n \in 1..(N + 1) : Begin[n] \in Nat /\ Begin[n] <= Len(Addresses)
    BY <1>5, <1>7
  <1>10. \A n \in 1..N :
              /\ Begin[n + 1] = Begin[n] + input.bundles[n].count
              /\ \A j \in 1..input.bundles[n].count :
                   Addresses[Begin[n] + j] = AddressesOf(input.bundles[n])[j]
    <2>1. ASSUME NEW n \in 1..N
          PROVE  /\ Begin[n + 1] = Begin[n] + input.bundles[n].count
                 /\ \A j \in 1..input.bundles[n].count :
                      Addresses[Begin[n] + j] = AddressesOf(input.bundles[n])[j]
      BY <1>5, <1>6
    <2>. QED BY <2>1
  <1>. QED BY <1>1, <1>5, <1>8, <1>9, <1>10 DEF N

-------------------------------------------------------------------------------
(* The inductive invariant                                                 *)

TypeInv ==
  /\ input \in Inputs
  /\ pc \in {"bundles", "entries", "names", "done"}
  /\ next \in Nat \ {0} /\ i \in Nat /\ ordinal \in Nat
  /\ data \in [1..MaxOrdinals(input) -> Nat]
  /\ pc = "entries" => next <= Len(input.bundles)

\* Where the walk of the table stands, and the ordinal it has come to: without
\* the second, FiledInOrder would not say where the next address belongs.
Walk ==
  /\ pc = "bundles" => /\ next \in 1..(BundleCount + 1)
                       /\ ordinal = Begin[next]
  /\ pc = "entries" => /\ next \in 1..BundleCount
                       /\ Bundle.seg # Unused
                       /\ i <= Bundle.count
                       /\ ordinal = Begin[next] + i
  /\ ordinal <= Len(Addresses)

\* Only ordinals of the allocation have been filed or looked up.
Touched == touched \subseteq 1..MaxOrdinals(input)

\* Before the names nothing is exported.
Unexported == pc \in {"bundles", "entries"} => exports = {} /\ functions = {}

IInv ==
  /\ TypeInv
  /\ Unexported
  /\ Regular => Walk /\ Touched /\ FiledInOrder /\ ExportsAreEntries

\* What is computed from the file stays as long as the file does.
LEMMA FileStays ==
  ASSUME input' = input
  PROVE  /\ Regular' = Regular /\ Addresses' = Addresses /\ Begin' = Begin
         /\ BundleCount' = BundleCount /\ Bundles' = Bundles
         /\ \A f : MaxOrdinals(f)' = MaxOrdinals(f)
         /\ \A a : Mapped(a)' = Mapped(a) /\ Executable(a)' = Executable(a)
  <1>1. Addresses' = Addresses
    BY DEF Addresses, Bundles, AddressesOf, SegmentOf, SegCount, Address
  <1>2. Regular' = Regular
    BY <1>1 DEF Regular, Bundles, MaxOrdinals
  <1>3. BundleCount' = BundleCount /\ Bundles' = Bundles
    BY DEF BundleCount, Bundles
  <1>4. Begin' = Begin
    BY DEF Begin, Lists, BundleCount, Bundles, AddressesOf, SegmentOf, SegCount, Address,
           IsPlacing
  <1>5. \A f : MaxOrdinals(f)' = MaxOrdinals(f)
    BY DEF MaxOrdinals
  <1>6. \A a : Mapped(a)' = Mapped(a) /\ Executable(a)' = Executable(a)
    BY DEF Mapped, Executable, SegCount, Address
  <1>. QED BY <1>1, <1>2, <1>3, <1>4, <1>5, <1>6, Zenon

\* As long as nothing is filed or exported, what has been stays as it is.
LEMMA NothingFiled ==
  ASSUME IInv, UNCHANGED <<input, data, exports, functions, touched>>, Regular,
         ordinal' \in Nat, ordinal <= ordinal',
         \A o \in DOMAIN data : ordinal < o /\ o <= ordinal' /\ o <= Len(Addresses)
                                  => Addresses[o] = 0
  PROVE  Touched' /\ FiledInOrder' /\ ExportsAreEntries'
  <1>1. Touched'
    BY DEF IInv, Touched, MaxOrdinals
  <1>2. FiledInOrder'
    <2>1. ASSUME NEW o \in DOMAIN data
          PROVE  data[o] = IF o <= ordinal' /\ o <= Len(Addresses) THEN Addresses[o] ELSE 0
      <3>1. o \in Nat /\ ordinal \in Nat
        BY DEF IInv, TypeInv
      <3>2. data[o] = IF o <= ordinal /\ o <= Len(Addresses) THEN Addresses[o] ELSE 0
        BY DEF IInv, FiledInOrder
      <3>3. CASE o <= ordinal
        BY <3>1, <3>2, <3>3
      <3>4. CASE ~(o <= ordinal)
        BY <3>1, <3>2, <3>4
      <3>. QED BY <3>3, <3>4
    <2>. QED BY <2>1, FileStays DEF FiledInOrder
  <1>3. ExportsAreEntries'
    BY FileStays DEF IInv, ExportsAreEntries
  <1>. QED BY <1>1, <1>2, <1>3

\* An allocation for the file.
LEMMA MaxOrdinalsIsNat ==
  ASSUME input \in Inputs
  PROVE  MaxOrdinals(input) \in Nat
  <1>1. input.length \in Nat
    BY InputsAssumption
  <1>2. input.length \div 3 \in Nat
    BY <1>1
  <1>. QED BY <1>2 DEF MaxOrdinals

-------------------------------------------------------------------------------
(* The actions keep it                                                     *)

\* Nothing is filed before the table is read.
LEMMA InitIInv ==
  ASSUME Init
  PROVE  IInv
  <1>1. TypeInv
    BY MaxOrdinalsIsNat DEF Init, TypeInv
  <1>2. Unexported
    BY DEF Init, Unexported
  <1>3. ASSUME Regular
        PROVE  Walk /\ Touched /\ FiledInOrder /\ ExportsAreEntries
    <2>1. Begin[1] = 0 /\ BundleCount \in Nat /\ Len(Addresses) \in Nat
      BY <1>1, <1>3, Begins DEF TypeInv
    <2>2. Walk
      BY <2>1 DEF Init, Walk
    <2>3. Touched
      BY DEF Init, Touched
    <2>4. FiledInOrder
      <3>1. ASSUME NEW o \in DOMAIN data
            PROVE  data[o] = 0 /\ ~(o <= ordinal)
        BY MaxOrdinalsIsNat DEF Init
      <3>. QED BY <3>1 DEF FiledInOrder
    <2>5. ExportsAreEntries
      BY DEF Init, ExportsAreEntries
    <2>. QED BY <2>2, <2>3, <2>4, <2>5
  <1>. QED BY <1>1, <1>2, <1>3 DEF IInv

\* The bundle the reader stands at is one of the table, if it has ordinals.
LEMMA AtBundle ==
  ASSUME IInv, Regular, pc = "bundles", next <= Len(input.bundles), Bundle.count # 0
  PROVE  /\ next \in 1..BundleCount
         /\ Bundle.count \in Nat \ {0}
         /\ Begin[next + 1] = ordinal + Bundle.count
         /\ Begin[next + 1] \in Nat /\ Begin[next + 1] <= Len(Addresses)
         /\ Len(Addresses) \in Nat /\ Len(Addresses) < Words
         /\ (ordinal + Bundle.count) % Words = ordinal + Bundle.count
  <1>1. input \in Inputs /\ next \in 1..(BundleCount + 1) /\ ordinal = Begin[next]
    BY DEF IInv, TypeInv, Walk
  <1>2. /\ BundleCount \in Nat /\ Len(input.bundles) \in Nat
        /\ Bundles = 1..BundleCount
    BY <1>1, BundlesAreFirst
  <1>3. next \in 1..BundleCount
    <2>1. CASE next = BundleCount + 1
      <3>1. next \in 1..Len(input.bundles)
        BY <1>1, <1>2
      <3>2. \A m \in 1..next : input.bundles[m].count # 0
        <4>1. ASSUME NEW m \in 1..next
              PROVE  input.bundles[m].count # 0
          <5>1. CASE m = next
            BY <5>1 DEF Bundle
          <5>2. CASE m # next
            <6>1. m \in Bundles /\ m \in 1..m
              BY <2>1, <1>2, <5>2
            <6>. QED BY <6>1 DEF Bundles
          <5>. QED BY <5>1, <5>2
        <4>. QED BY <4>1
      <3>3. next \in Bundles
        BY <3>1, <3>2 DEF Bundles
      <3>. QED BY <3>3, <1>2
    <2>. QED BY <1>1, <1>2, <2>1
  <1>4. Bundle.count \in Nat \ {0}
    BY <1>1, <1>3, AddressesOfBundle DEF Bundle
  <1>5. Begin[next + 1] = ordinal + Bundle.count
    BY <1>1, <1>3, Begins DEF Bundle
  <1>6. /\ Begin[next + 1] \in Nat /\ Begin[next + 1] <= Len(Addresses)
        /\ Len(Addresses) \in Nat
    <2>1. next + 1 \in 1..(BundleCount + 1)
      BY <1>2, <1>3
    <2>. QED BY <1>1, <2>1, Begins
  <1>7. Len(Addresses) < Words
    BY DEF Regular
  <1>8. (ordinal + Bundle.count) % Words = ordinal + Bundle.count
    <2> DEFINE e == ordinal + Bundle.count
    <2>1. e \in Nat /\ e < Words /\ Words \in Nat
      BY <1>5, <1>6, <1>7, SizesAssumption
    <2> HIDE DEF e
    <2>2. e % Words = e
      BY <2>1
    <2>. QED BY <2>2 DEF e
  <1>. QED BY <1>3, <1>4, <1>5, <1>6, <1>7, <1>8

\* A number of 16 bits.
LEMMA WrapIsNat ==
  ASSUME NEW n \in Nat
  PROVE  n % Words \in Nat
  BY SizesAssumption

\* The ordinals of an unused bundle go by, those of another one are to come.
LEMMA ReadBundleIInv ==
  ASSUME IInv, ReadBundle
  PROVE  IInv'
  <1>1. /\ pc = "bundles" /\ next <= Len(input.bundles) /\ Bundle.count # 0
        /\ UNCHANGED <<input, data, exports, functions, touched>>
    BY DEF ReadBundle
  <1>2. /\ input \in Inputs /\ next \in Nat \ {0} /\ i \in Nat /\ ordinal \in Nat
        /\ data \in [1..MaxOrdinals(input) -> Nat]
    BY DEF IInv, TypeInv
  <1>3. next \in 1..Len(input.bundles) /\ Bundle.count \in Nat
    <2>1. next \in 1..Len(input.bundles)
      BY <1>1, <1>2, BundlesAreFirst
    <2>. QED BY <1>2, <2>1, BundleType DEF Bundle
  <1>4. exports' = {} /\ functions' = {}
    BY <1>1 DEF IInv, Unexported
  <1>5. CASE Bundle.seg = Unused
    <2>1. /\ ordinal' = (ordinal + Bundle.count) % Words
          /\ next' = next + 1 /\ pc' = pc /\ i' = i
      BY <1>5 DEF ReadBundle, SkipOrdinals
    <2>2. TypeInv'
      <3>1. ordinal' \in Nat
        BY <1>2, <1>3, <2>1, WrapIsNat
      <3>2. next' \in Nat \ {0}
        BY <1>2, <2>1
      <3>. QED BY <1>1, <1>2, <2>1, <3>1, <3>2, FileStays DEF TypeInv, MaxOrdinals
    <2>3. ASSUME Regular
          PROVE  Walk' /\ Touched' /\ FiledInOrder' /\ ExportsAreEntries'
      <3>1. /\ next \in 1..BundleCount
            /\ Bundle.count \in Nat \ {0}
            /\ Begin[next + 1] = ordinal + Bundle.count
            /\ Begin[next + 1] \in Nat /\ Begin[next + 1] <= Len(Addresses)
            /\ Len(Addresses) \in Nat
            /\ (ordinal + Bundle.count) % Words = ordinal + Bundle.count
        BY <1>1, <2>3, AtBundle
      <3>2. ordinal' = Begin[next + 1]
        BY <2>1, <3>1
      <3>3. BundleCount \in Nat
        BY <1>2, BundlesAreFirst
      <3>4. Walk'
        BY <1>1, <2>1, <3>1, <3>2, <3>3, FileStays DEF Walk
      <3>5. ASSUME NEW o \in DOMAIN data, ordinal < o, o <= ordinal'
            PROVE  Addresses[o] = 0
        <4> DEFINE j == o - ordinal
        <4>1. j \in 1..Bundle.count /\ o = ordinal + j
          BY <1>2, <3>1, <3>2, <3>5
        <4>2. ordinal = Begin[next]
          BY <1>1, <2>3 DEF IInv, Walk
        <4> HIDE DEF j
        <4>3. Addresses[Begin[next] + j] = AddressesOf(Bundle)[j]
          BY <1>2, <2>3, <3>1, <4>1, Begins DEF Bundle
        <4>4. AddressesOf(Bundle)[j] = 0
          BY <1>5, <4>1 DEF AddressesOf
        <4>. QED BY <4>1, <4>2, <4>3, <4>4
      <3>6. ordinal' \in Nat /\ ordinal <= ordinal'
        BY <1>2, <3>1, <3>2
      <3>. QED BY <1>1, <2>3, <3>4, <3>5, <3>6, NothingFiled
    <2>. QED BY <1>1, <1>4, <2>2, <2>3, FileStays DEF IInv, Unexported
  <1>6. CASE Bundle.seg # Unused
    <2>1. ordinal' = ordinal /\ next' = next /\ pc' = "entries" /\ i' = 0
      BY <1>6 DEF ReadBundle, OpenBundle
    <2>2. TypeInv'
      BY <1>1, <1>2, <2>1 DEF TypeInv, MaxOrdinals
    <2>3. ASSUME Regular
          PROVE  Walk' /\ Touched' /\ FiledInOrder' /\ ExportsAreEntries'
      <3>1. next \in 1..BundleCount /\ Bundle.count \in Nat
        BY <1>1, <2>3, AtBundle
      <3>2. ordinal = Begin[next] /\ ordinal <= Len(Addresses)
        BY <1>1, <2>3 DEF IInv, Walk
      <3>3. Bundle' = Bundle
        BY <1>1, <2>1 DEF Bundle
      <3>4. Walk'
        BY <1>1, <1>2, <1>6, <2>1, <3>1, <3>2, <3>3, FileStays DEF Walk
      <3>5. \A o \in DOMAIN data : ~(ordinal < o /\ o <= ordinal')
        BY <1>2, <2>1
      <3>6. ordinal' \in Nat /\ ordinal <= ordinal'
        BY <1>2, <2>1
      <3>. QED BY <1>1, <2>3, <3>4, <3>5, <3>6, NothingFiled
    <2>. QED BY <1>1, <1>4, <2>2, <2>3, FileStays DEF IInv, Unexported
  <1>. QED BY <1>5, <1>6

\* Behind its last entry a bundle is left.
LEMMA CloseBundleIInv ==
  ASSUME IInv, CloseBundle
  PROVE  IInv'
  <1>1. /\ pc = "entries" /\ i >= Bundle.count /\ pc' = "bundles" /\ next' = next + 1
        /\ UNCHANGED <<input, i, ordinal, data, exports, functions, touched>>
    BY DEF CloseBundle
  <1>2. /\ input \in Inputs /\ next \in Nat \ {0} /\ i \in Nat /\ ordinal \in Nat
        /\ data \in [1..MaxOrdinals(input) -> Nat]
    BY DEF IInv, TypeInv
  <1>3. TypeInv'
    <2>1. next' \in Nat \ {0}
      BY <1>1, <1>2
    <2>. QED BY <1>1, <1>2, <2>1 DEF TypeInv, MaxOrdinals
  <1>4. Unexported'
    BY <1>1 DEF IInv, Unexported
  <1>5. ASSUME Regular
        PROVE  Walk' /\ Touched' /\ FiledInOrder' /\ ExportsAreEntries'
    <2>1. /\ next \in 1..BundleCount /\ i <= Bundle.count /\ ordinal = Begin[next] + i
          /\ ordinal <= Len(Addresses)
      BY <1>1, <1>5 DEF IInv, Walk
    <2>2. Bundle.count \in Nat
      BY <1>2, <1>5, <2>1, AddressesOfBundle DEF Bundle
    <2>3. i = Bundle.count
      BY <1>1, <1>2, <2>1, <2>2
    <2>4. ordinal = Begin[next + 1]
      BY <1>2, <1>5, <2>1, <2>3, Begins DEF Bundle
    <2>5. next + 1 \in 1..(BundleCount + 1)
      BY <1>2, <2>1, BundlesAreFirst
    <2>6. Walk'
      BY <1>1, <2>1, <2>4, <2>5, FileStays DEF Walk
    <2>7. \A o \in DOMAIN data : ~(ordinal < o /\ o <= ordinal')
      BY <1>1, <1>2
    <2>8. ordinal' \in Nat /\ ordinal <= ordinal'
      BY <1>1, <1>2
    <2>. QED BY <1>1, <1>5, <2>6, <2>7, <2>8, NothingFiled
  <1>. QED BY <1>1, <1>3, <1>4, <1>5, FileStays DEF IInv

\* A regular table is never left inside of a bundle, and nothing is filed there.
LEMMA TruncatedEntryIInv ==
  ASSUME IInv, TruncatedEntry
  PROVE  IInv'
  <1>1. /\ pc = "entries" /\ pc' = "names" /\ i < Bundle.count /\ i >= Len(Bundle.entries)
        /\ ordinal' = (ordinal + 1) % Words
        /\ UNCHANGED <<input, next, i, data, exports, functions, touched>>
    BY DEF TruncatedEntry
  <1>2. input \in Inputs /\ ordinal \in Nat /\ next \in Nat \ {0} /\ i \in Nat
    BY DEF IInv, TypeInv
  <1>3. ordinal' \in Nat
    BY <1>1, <1>2, WrapIsNat
  <1>4. TypeInv'
    BY <1>1, <1>3 DEF IInv, TypeInv, MaxOrdinals
  <1>5. Unexported'
    BY <1>1 DEF Unexported
  <1>6. ~Regular
    <2>1. SUFFICES ASSUME Regular
                   PROVE  FALSE
      OBVIOUS
    <2>2. next \in 1..BundleCount /\ Bundle.seg # Unused
      BY <1>1, <2>1 DEF IInv, Walk
    <2>3. next \in Bundles
      BY <1>2, <2>2, BundlesAreFirst
    <2>4. Len(Bundle.entries) >= Bundle.count
      BY <2>1, <2>2, <2>3 DEF Regular, Bundle
    <2>5. Len(Bundle.entries) \in Nat /\ Bundle.count \in Nat
      BY <1>2, <2>2, <2>3, BundleType DEF Bundle, Bundles
    <2>. QED BY <1>1, <1>2, <2>4, <2>5
  <1>. QED BY <1>1, <1>4, <1>5, <1>6, FileStays DEF IInv

\* The end of the table and of the names leave what has been filed.
LEMMA EndIInv ==
  ASSUME IInv, EndOfTable \/ EndOfNames
  PROVE  IInv'
  <1>1. /\ pc' \in {"names", "done"}
        /\ UNCHANGED <<input, next, i, ordinal, data, exports, functions, touched>>
    BY DEF EndOfTable, EndOfNames
  <1>2. /\ input \in Inputs /\ ordinal \in Nat
        /\ data \in [1..MaxOrdinals(input) -> Nat]
    BY DEF IInv, TypeInv
  <1>3. TypeInv'
    BY <1>1 DEF IInv, TypeInv, MaxOrdinals
  <1>4. Unexported'
    BY <1>1 DEF Unexported
  <1>5. ASSUME Regular
        PROVE  Walk' /\ Touched' /\ FiledInOrder' /\ ExportsAreEntries'
    <2>1. Walk'
      BY <1>1, <1>5, FileStays DEF IInv, Walk
    <2>2. \A o \in DOMAIN data : ~(ordinal < o /\ o <= ordinal')
      BY <1>1, <1>2
    <2>3. ordinal' \in Nat /\ ordinal <= ordinal'
      BY <1>1, <1>2
    <2>. QED BY <1>1, <1>5, <2>1, <2>2, <2>3, NothingFiled
  <1>. QED BY <1>1, <1>3, <1>4, <1>5, FileStays DEF IInv

\* An entry is filed under the ordinal it has in the list, if it is in a segment.
LEMMA ReadEntryIInv ==
  ASSUME IInv, ReadEntry
  PROVE  IInv'
  <1> DEFINE e == Bundle.entries[i + 1]
             s == SegmentOf(Bundle, e)
             off == e.off
             o == (ordinal + 1) % Words
  <1>1. /\ pc = "entries" /\ pc' = "entries" /\ i < Bundle.count
        /\ i < Len(Bundle.entries)
        /\ ordinal' = o /\ i' = i + 1
        /\ UNCHANGED <<input, next, exports, functions>>
    BY DEF ReadEntry
  <1>2. /\ input \in Inputs /\ next \in Nat \ {0} /\ i \in Nat /\ ordinal \in Nat
        /\ data \in [1..MaxOrdinals(input) -> Nat] /\ next <= Len(input.bundles)
    BY <1>1 DEF IInv, TypeInv
  <1>3. File(o, s, off)
    BY DEF ReadEntry
  <1>4. next \in 1..Len(input.bundles)
    BY <1>2, BundlesAreFirst
  <1>5. /\ Bundle.count \in Nat /\ Len(Bundle.entries) \in Nat /\ off \in Nat
    <2>1. Bundle.count \in Nat /\ Len(Bundle.entries) \in Nat
      BY <1>2, <1>4, BundleType DEF Bundle
    <2>2. i + 1 \in 1..Len(Bundle.entries)
      BY <1>1, <1>2, <2>1
    <2>. QED BY <1>2, <1>4, <2>1, <2>2, BundleType DEF Bundle
  <1>6. o \in Nat /\ i + 1 \in Nat
    BY <1>2, WrapIsNat
  <1>7. Bundle' = Bundle
    BY <1>1 DEF Bundle
  <1>8. SegCount \in Nat
    BY <1>2, InputsAssumption DEF SegCount
  <1>9. Unexported'
    BY <1>1 DEF IInv, Unexported
  <1>10. s = IF Bundle.seg = Movable THEN e.seg ELSE Bundle.seg
    BY DEF SegmentOf
  \* What the walk comes to in a table of the regular kind.
  <1>11. ASSUME Regular
         PROVE  /\ o = ordinal + 1 /\ o <= Len(Addresses) /\ o <= MaxOrdinals(input)
                /\ Addresses[o] = IF s \in 1..SegCount THEN Address(s, off) ELSE 0
                /\ Walk'
    <2>1. /\ next \in 1..BundleCount /\ Bundle.seg # Unused /\ ordinal = Begin[next] + i
      BY <1>1, <1>11 DEF IInv, Walk
    <2>2. /\ BundleCount \in Nat /\ Begin[next] \in Nat
          /\ Begin[next + 1] = Begin[next] + Bundle.count
          /\ Len(Addresses) \in Nat
          /\ \A j \in 1..Bundle.count : Addresses[Begin[next] + j] = AddressesOf(Bundle)[j]
      <3>1. BundleCount \in Nat
        BY <1>2, <1>11, Begins
      <3>2. next \in 1..(BundleCount + 1)
        BY <2>1, <3>1
      <3>. QED BY <1>2, <1>11, <2>1, <3>1, <3>2, Begins DEF Bundle
    <2>3. Begin[next + 1] <= Len(Addresses)
      <3>1. next + 1 \in 1..(BundleCount + 1)
        BY <2>1, <2>2
      <3>. QED BY <1>2, <1>11, <3>1, Begins
    <2>4. Len(Addresses) < Words /\ Len(Addresses) <= MaxOrdinals(input)
      BY <1>11 DEF Regular
    <2>5. ordinal + 1 <= Len(Addresses)
      BY <1>1, <1>2, <1>5, <2>1, <2>2, <2>3
    <2>6. o = ordinal + 1
      <3> DEFINE n == ordinal + 1
      <3>1. n \in Nat /\ n < Words /\ Words \in Nat
        BY <1>2, <2>2, <2>4, <2>5, SizesAssumption
      <3> HIDE DEF n
      <3>2. n % Words = n
        BY <3>1
      <3>. QED BY <3>2 DEF n
    <2>7. i + 1 \in 1..Bundle.count /\ o = Begin[next] + (i + 1)
      <3> HIDE DEF o
      <3>1. i + 1 \in 1..Bundle.count
        BY <1>1, <1>2, <1>5
      <3>2. Begin[next] \in Nat /\ ordinal + 1 = Begin[next] + (i + 1)
        BY <1>2, <2>1, <2>2
      <3>. QED BY <2>6, <3>1, <3>2
    <2>8. Addresses[o] = AddressesOf(Bundle)[i + 1]
      <3> DEFINE j == i + 1
      <3>1. j \in 1..Bundle.count /\ o = Begin[next] + j
        BY <2>7
      <3> HIDE DEF j, o
      <3>2. Addresses[o] = AddressesOf(Bundle)[j]
        BY <2>2, <3>1
      <3>. QED BY <3>2 DEF j
    <2>9. AddressesOf(Bundle)[i + 1] = IF s \in 1..SegCount THEN Address(s, off) ELSE 0
      BY <2>1, <2>7 DEF AddressesOf
    <2>10. o <= Len(Addresses) /\ o <= MaxOrdinals(input)
      <3>1. MaxOrdinals(input) \in Nat
        BY <1>2, MaxOrdinalsIsNat
      <3> HIDE DEF o
      <3>. QED BY <1>2, <2>2, <2>4, <2>5, <2>6, <3>1
    <2>11. Walk'
      <3> HIDE DEF o
      <3>1. i' <= Bundle.count /\ ordinal' = Begin[next] + i'
        BY <1>1, <2>7
      <3>. QED BY <1>1, <1>7, <2>1, <2>10, <3>1, FileStays DEF Walk
    <2> HIDE DEF o, s, off
    <2>. QED BY <2>6, <2>8, <2>9, <2>10, <2>11
  <1>12. CASE Filed(o, s)
    <2>1. /\ data' = [n \in DOMAIN data |-> IF n = o THEN Address(s, off) ELSE data[n]]
          /\ touched' = touched \cup {o}
          /\ o <= MaxOrdinals(input) /\ s \in 1..SegCount
      BY <1>3, <1>12 DEF File, Filed
    <2>2. s \in Nat
      BY <1>8, <2>1
    <2> DEFINE a == Address(s, off)
    <2>3. a \in Nat
      <3> HIDE DEF s, off
      <3>. QED BY <1>5, <2>2, AddressIsNat
    <2> HIDE DEF a, o, s, off, e
    <2>4. /\ data' = [n \in 1..MaxOrdinals(input) |-> IF n = o THEN a ELSE data[n]]
          /\ data' \in [1..MaxOrdinals(input) -> Nat]
      BY <1>2, <2>1, <2>3 DEF a
    <2>5. TypeInv'
      BY <1>1, <1>2, <1>6, <2>4 DEF TypeInv, MaxOrdinals
    <2>6. ASSUME Regular
          PROVE  Walk' /\ Touched' /\ FiledInOrder' /\ ExportsAreEntries'
      <3>1. /\ o = ordinal + 1 /\ o <= Len(Addresses) /\ Addresses[o] = a
            /\ o \in 1..MaxOrdinals(input) /\ Walk'
        BY <1>2, <1>11, <2>1, <2>6, MaxOrdinalsIsNat DEF a
      <3>2. Touched'
        BY <1>1, <2>1, <2>6, <3>1 DEF IInv, Touched, MaxOrdinals
      <3>3. FiledInOrder'
        <4>1. ASSUME NEW n \in DOMAIN data'
              PROVE  data'[n] = IF n <= ordinal' /\ n <= Len(Addresses) THEN Addresses[n] ELSE 0
          <5>1. n \in 1..MaxOrdinals(input) /\ n \in DOMAIN data /\ n \in Nat
            BY <1>2, <2>4
          <5>2. CASE n = o
            <6>1. data'[n] = a
              BY <2>4, <5>1, <5>2
            <6>. QED BY <1>1, <1>6, <3>1, <5>2, <6>1
          <5>3. CASE n # o
            <6>1. data'[n] = data[n]
              BY <2>4, <5>1, <5>3
            <6>2. data[n] = IF n <= ordinal /\ n <= Len(Addresses) THEN Addresses[n] ELSE 0
              BY <2>6, <5>1 DEF IInv, FiledInOrder
            <6>3. n <= ordinal' <=> n <= ordinal
              BY <1>1, <1>2, <3>1, <5>1, <5>3
            <6>. QED BY <6>1, <6>2, <6>3
          <5>. QED BY <5>2, <5>3
        <4>. QED BY <1>1, <4>1, FileStays DEF FiledInOrder
      <3>4. ExportsAreEntries'
        <4>1. exports' = {} /\ functions' = {}
          BY <1>1, <1>9 DEF Unexported
        <4>2. touched' \subseteq DOMAIN data'
          BY <2>1, <2>4, <2>6, <3>1, <1>2 DEF IInv, Touched
        <4>. QED BY <4>1, <4>2 DEF ExportsAreEntries
      <3>. QED BY <3>1, <3>2, <3>3, <3>4
    <2>. QED BY <1>1, <1>9, <2>5, <2>6, FileStays DEF IInv
  <1>13. CASE ~Filed(o, s)
    <2>1. data' = data /\ touched' = touched
      BY <1>3, <1>13 DEF File
    <2>2. TypeInv'
      <3> HIDE DEF o
      <3>. QED BY <1>1, <1>2, <1>6, <2>1 DEF TypeInv, MaxOrdinals
    <2>3. ASSUME Regular
          PROVE  Walk' /\ Touched' /\ FiledInOrder' /\ ExportsAreEntries'
      <3>1. /\ o = ordinal + 1 /\ Addresses[o] = 0 /\ Walk'
        BY <1>11, <1>13, <2>3 DEF Filed
      <3> HIDE DEF o, s, off, e
      <3>2. \A n \in DOMAIN data : ordinal < n /\ n <= ordinal' /\ n <= Len(Addresses)
                                     => Addresses[n] = 0
        <4>1. ASSUME NEW n \in DOMAIN data, ordinal < n, n <= ordinal'
              PROVE  n = o
          BY <1>1, <1>2, <3>1, <4>1
        <4>. QED BY <3>1, <4>1
      <3>3. ordinal' \in Nat /\ ordinal <= ordinal'
        BY <1>1, <1>2, <3>1
      <3>. QED BY <1>1, <2>1, <2>3, <3>1, <3>2, <3>3, NothingFiled
    <2>. QED BY <1>1, <1>9, <2>2, <2>3, FileStays DEF IInv
  <1>. QED BY <1>12, <1>13

\* A name is looked up where the address of its ordinal has been filed.
LEMMA ReadNameIInv ==
  ASSUME IInv, ReadName
  PROVE  IInv'
  <1> DEFINE n == input.names[line]
             o == n.ordinal
  <1>1. /\ pc = "names" /\ line <= Len(input.names)
        /\ UNCHANGED <<input, pc, next, i, ordinal, data>>
    BY DEF ReadName
  <1>2. /\ input \in Inputs /\ ordinal \in Nat
        /\ data \in [1..MaxOrdinals(input) -> Nat]
    BY DEF IInv, TypeInv
  <1>3. TypeInv' /\ Unexported'
    BY <1>1 DEF IInv, TypeInv, Unexported, MaxOrdinals
  <1>4. CASE UNCHANGED <<exports, functions, touched>>
    <2>1. ASSUME Regular
          PROVE  Walk' /\ Touched' /\ FiledInOrder' /\ ExportsAreEntries'
      <3>1. Walk'
        BY <1>1, <2>1, FileStays DEF IInv, Walk
      <3>2. \A m \in DOMAIN data : ~(ordinal < m /\ m <= ordinal')
        BY <1>1, <1>2
      <3>3. ordinal' \in Nat /\ ordinal <= ordinal'
        BY <1>1, <1>2
      <3>. QED BY <1>1, <1>4, <2>1, <3>1, <3>2, <3>3, NothingFiled
    <2>. QED BY <1>1, <1>3, <2>1, FileStays DEF IInv
  <1>5. CASE ~UNCHANGED <<exports, functions, touched>>
    <2>1. /\ o \in 1..ordinal /\ touched' = touched \cup {o}
          /\ \E a \in Looked(o) : Register(n.name, o, a)
      BY <1>5 DEF ReadName
    <2> DEFINE name == n.name
    <2>2. PICK a \in Looked(o) : Register(name, o, a)
      BY <2>1
    <2> HIDE DEF o, n, name
    <2>3. ASSUME Regular
          PROVE  Walk' /\ Touched' /\ FiledInOrder' /\ ExportsAreEntries'
      <3>1. Walk /\ Touched /\ FiledInOrder /\ ExportsAreEntries
        BY <2>3 DEF IInv
      <3>2. Walk'
        BY <1>1, <3>1, FileStays DEF Walk
      <3>3. ordinal <= Len(Addresses) /\ Len(Addresses) <= MaxOrdinals(input)
            /\ Len(Addresses) \in Nat /\ MaxOrdinals(input) \in Nat
        BY <1>2, <2>3, <3>1, Begins, MaxOrdinalsIsNat DEF Walk, Regular
      <3>4. o \in 1..MaxOrdinals(input) /\ o \in DOMAIN data /\ o <= Len(Addresses)
            /\ o <= ordinal
        <4>1. o \in Nat \ {0} /\ o <= ordinal
          BY <1>2, <2>1
        <4>2. o <= Len(Addresses) /\ o <= MaxOrdinals(input)
          BY <1>2, <3>3, <4>1
        <4>. QED BY <1>2, <3>3, <4>1, <4>2
      <3>5. Touched'
        BY <1>1, <2>1, <3>1, <3>4 DEF Touched, MaxOrdinals
      <3>6. FiledInOrder'
        BY <1>1, <3>1, FileStays DEF FiledInOrder
      <3>7. a = Addresses[o]
        BY <2>2, <2>3, <3>1, <3>4 DEF Looked, FiledInOrder
      <3>8. /\ \A x \in exports : /\ x.ordinal <= Len(Addresses)
                                  /\ x.addr = Addresses[x.ordinal]
                                  /\ x.addr # 0 /\ Mapped(x.addr)
            /\ touched \subseteq DOMAIN data
            /\ functions = {x.addr : x \in {y \in exports : Executable(y.addr)}}
        BY <2>3, <3>1 DEF ExportsAreEntries
      <3>9. touched' \subseteq DOMAIN data'
        BY <1>1, <2>1, <3>4, <3>8
      <3>10. CASE a # 0 /\ Mapped(a)
        <4> DEFINE r == [name |-> name, ordinal |-> o, addr |-> a]
        <4>1. r.ordinal = o /\ r.addr = a
          OBVIOUS
        <4>2. /\ exports' = exports \cup {r}
              /\ functions' = functions \cup (IF Executable(a) THEN {a} ELSE {})
          BY <2>2, <3>10 DEF Register
        <4> HIDE DEF r
        <4>3. \A x \in exports' : /\ x.ordinal <= Len(Addresses)
                                  /\ x.addr = Addresses[x.ordinal]
                                  /\ x.addr # 0 /\ Mapped(x.addr)
          BY <3>4, <3>7, <3>8, <3>10, <4>1, <4>2
        <4>4. functions' = {x.addr : x \in {y \in exports' : Executable(y.addr)}}
          <5>1. CASE Executable(a)
            <6>1. {y \in exports' : Executable(y.addr)}
                    = {y \in exports : Executable(y.addr)} \cup {r}
              BY <4>1, <4>2, <5>1
            <6>. QED BY <3>8, <4>1, <4>2, <5>1, <6>1
          <5>2. CASE ~Executable(a)
            <6>1. {y \in exports' : Executable(y.addr)} = {y \in exports : Executable(y.addr)}
              BY <4>1, <4>2, <5>2
            <6>. QED BY <3>8, <4>2, <5>2, <6>1
          <5>. QED BY <5>1, <5>2
        <4>5. ExportsAreEntries'
          <5>1. \A x \in exports' : Mapped(x.addr)' = Mapped(x.addr)
                                    /\ Executable(x.addr)' = Executable(x.addr)
            BY <1>1, FileStays
          <5>2. functions' = {x.addr : x \in {y \in exports' : Executable(y.addr)'}}
            BY <4>4, <1>1 DEF Executable, SegCount, Address
          <5>3. \A x \in exports' : Mapped(x.addr)'
            BY <4>3, <1>1 DEF Mapped, SegCount, Address
          <5>. QED BY <1>1, <3>9, <4>3, <5>2, <5>3, FileStays DEF ExportsAreEntries
        <4>. QED BY <3>2, <3>5, <3>6, <4>5
      <3>11. CASE ~(a # 0 /\ Mapped(a))
        <4>1. exports' = exports /\ functions' = functions
          BY <2>2, <3>11 DEF Register
        <4>2. ExportsAreEntries'
          BY <1>1, <3>8, <3>9, <4>1, FileStays DEF ExportsAreEntries
        <4>. QED BY <3>2, <3>5, <3>6, <4>2
      <3>. QED BY <3>10, <3>11
    <2>. QED BY <1>1, <1>3, <2>3, FileStays DEF IInv
  <1>. QED BY <1>4, <1>5

\* What the walk of the entry table and of the names carries from step to step.
THEOREM InductiveInvariant == Spec => []IInv
  <1>1. Init => IInv
    BY InitIInv
  <1>2. IInv /\ [Next]_vars => IInv'
    <2>1. ASSUME IInv, UNCHANGED vars
          PROVE  IInv'
      <3>1. UNCHANGED <<input, pc, next, i, ordinal, data, exports, functions, touched>>
        BY <2>1 DEF vars
      <3>2. TypeInv' /\ Unexported'
        BY <2>1, <3>1 DEF IInv, TypeInv, Unexported, MaxOrdinals
      <3>3. ASSUME Regular
            PROVE  Walk' /\ Touched' /\ FiledInOrder' /\ ExportsAreEntries'
        <4>1. Walk'
          <5>1. Bundle' = Bundle
            BY <3>1 DEF Bundle
          <5>. QED BY <2>1, <3>1, <3>3, <5>1, FileStays DEF IInv, Walk
        <4>2. ordinal \in Nat /\ data \in [1..MaxOrdinals(input) -> Nat]
          BY <2>1 DEF IInv, TypeInv
        <4>3. MaxOrdinals(input) \in Nat
          BY <2>1, MaxOrdinalsIsNat DEF IInv, TypeInv
        <4>4. \A o \in DOMAIN data : ~(ordinal < o /\ o <= ordinal')
          BY <3>1, <4>2, <4>3
        <4>5. ordinal' \in Nat /\ ordinal <= ordinal'
          BY <3>1, <4>2
        <4>. QED BY <2>1, <3>1, <3>3, <4>1, <4>4, <4>5, NothingFiled
      <3>. QED BY <3>1, <3>2, <3>3, FileStays DEF IInv
    <2>. QED BY <2>1, ReadBundleIInv, ReadEntryIInv, CloseBundleIInv, TruncatedEntryIInv,
               EndIInv, ReadNameIInv
         DEF Next, Step, Terminating
  <1>. QED BY <1>1, <1>2, PTL DEF Spec

\* In a regular table every address is filed under its own ordinal, unused ones
\* leave their gaps, and what is to come is empty (ne_entryslice_create).
THEOREM EntriesAreFiledInOrder == Spec => []FiledInOrder
  <1>1. IInv => FiledInOrder
    BY DEF IInv, FiledInOrder
  <1>. QED BY <1>1, InductiveInvariant, PTL

\* In a regular table an export is the entry its ordinal names, is a function
\* exactly in an executable segment, and nothing outside the allocation is read
\* or written (ne_load_exports).
THEOREM ExportsAreTheirEntries == Spec => []ExportsAreEntries
  <1>1. IInv => ExportsAreEntries
    BY DEF IInv, ExportsAreEntries
  <1>. QED BY <1>1, InductiveInvariant, PTL

-------------------------------------------------------------------------------
(* The loops end                                                           *)

\* The two functions follow one another.
Phase == CASE pc \in {"bundles", "entries"} -> 0 [] pc = "names" -> 1 [] pc = "done" -> 2

\* What the loops count has ends; all names have been gone through in the end.
LoopBounds ==
  /\ input \in Inputs
  /\ pc \in {"bundles", "entries", "names", "done"}
  /\ i \in Nat
  /\ next \in 1..(Len(input.bundles) + 1)
  /\ line \in 1..(Len(input.names) + 1)
  /\ pc = "entries" => next <= Len(input.bundles) /\ i <= Len(Bundle.entries)
  /\ pc = "done" => (ordinal # 0 => line > Len(input.names))

\* To the next function, bundle, loop, entry or name, the first that changes
\* changing forwards.
GoesOn ==
  \/ Phase' > Phase
  \/ Phase' = Phase /\ next' > next
  \/ Phase' = Phase /\ next' = next /\ pc = "bundles" /\ pc' = "entries"
  \/ Phase' = Phase /\ next' = next /\ pc' = pc /\ i' > i
  \/ Phase' = Phase /\ next' = next /\ pc' = pc /\ i' = i /\ line' > line

\* A step of the loops goes on and stays inside their bounds.
LEMMA StepGoesOn ==
  ASSUME LoopBounds, Step
  PROVE  LoopBounds' /\ GoesOn
  <1>1. /\ Len(input.bundles) \in Nat /\ Len(input.names) \in Nat
        /\ next \in Nat /\ line \in Nat
    BY InputsAssumption DEF LoopBounds
  <1>2. next \in 1..Len(input.bundles) => Len(Bundle.entries) \in Nat
    BY BundleType DEF LoopBounds, Bundle
  <1>3. CASE ReadBundle
    <2>1. next' = next + 1 \/ (next' = next /\ pc' = "entries" /\ i' = 0)
      BY <1>3 DEF ReadBundle, SkipOrdinals, OpenBundle
    <2>2. /\ pc = "bundles" /\ next <= Len(input.bundles) /\ input' = input /\ line' = line
          /\ (next' = next + 1 => pc' = pc /\ i' = i)
      BY <1>1, <1>3 DEF ReadBundle, SkipOrdinals, OpenBundle
    <2>3. LoopBounds'
      BY <1>1, <1>2, <2>1, <2>2 DEF LoopBounds, Bundle
    <2>4. GoesOn
      BY <1>1, <2>1, <2>2 DEF GoesOn, Phase
    <2>. QED BY <2>3, <2>4
  <1>4. CASE ReadEntry
    <2>1. /\ pc = "entries" /\ i < Len(Bundle.entries) /\ i' = i + 1
          /\ input' = input /\ pc' = pc /\ next' = next /\ line' = line
      BY <1>4 DEF ReadEntry
    <2>2. next \in 1..Len(input.bundles) /\ i \in Nat
      BY <1>1, <2>1 DEF LoopBounds
    <2>3. Bundle' = Bundle
      BY <2>1 DEF Bundle
    <2>4. LoopBounds'
      BY <1>1, <1>2, <2>1, <2>2, <2>3 DEF LoopBounds
    <2>5. GoesOn
      BY <2>1, <2>2 DEF GoesOn, Phase
    <2>. QED BY <2>4, <2>5
  <1>5. CASE CloseBundle
    <2>1. /\ pc = "entries" /\ pc' = "bundles" /\ next' = next + 1
          /\ input' = input /\ i' = i /\ line' = line
      BY <1>5 DEF CloseBundle
    <2>2. LoopBounds'
      BY <1>1, <2>1 DEF LoopBounds
    <2>3. GoesOn
      BY <1>1, <2>1 DEF GoesOn, Phase
    <2>. QED BY <2>2, <2>3
  <1>6. CASE EndOfTable \/ TruncatedEntry
    <2>1. /\ pc \in {"bundles", "entries"} /\ pc' = "names"
          /\ input' = input /\ next' = next /\ i' = i /\ line' = line
      BY <1>6 DEF EndOfTable, TruncatedEntry
    <2>2. LoopBounds'
      BY <2>1 DEF LoopBounds
    <2>3. GoesOn
      BY <2>1 DEF GoesOn, Phase
    <2>. QED BY <2>2, <2>3
  <1>7. CASE ReadName
    <2>1. /\ pc = "names" /\ line <= Len(input.names) /\ line' = line + 1
          /\ input' = input /\ pc' = pc /\ next' = next /\ i' = i
      BY <1>7 DEF ReadName
    <2>2. LoopBounds'
      BY <1>1, <2>1 DEF LoopBounds
    <2>3. GoesOn
      BY <1>1, <2>1 DEF GoesOn, Phase
    <2>. QED BY <2>2, <2>3
  <1>8. CASE EndOfNames
    <2>1. /\ pc = "names" /\ pc' = "done" /\ (ordinal # 0 => line > Len(input.names))
          /\ input' = input /\ next' = next /\ i' = i /\ line' = line /\ ordinal' = ordinal
      BY <1>8 DEF EndOfNames
    <2>2. LoopBounds'
      BY <2>1 DEF LoopBounds
    <2>3. GoesOn
      BY <2>1 DEF GoesOn, Phase
    <2>. QED BY <2>2, <2>3
  <1>. QED BY <1>3, <1>4, <1>5, <1>6, <1>7, <1>8 DEF Step

\* Whatever the table of a file says, what the loops of ne_entryslice_create and
\* ne_load_exports count stays inside of it, and the end of ne_load_exports is
\* behind the last name if there are ordinals.
THEOREM LoopsAreBounded == Spec => []LoopBounds
  <1>1. Init => LoopBounds
    BY InputsAssumption DEF Init, LoopBounds
  <1>2. LoopBounds /\ [Next]_vars => LoopBounds'
    <2>1. ASSUME LoopBounds, UNCHANGED vars
          PROVE  LoopBounds'
      <3>1. /\ input' = input /\ pc' = pc /\ next' = next /\ i' = i /\ line' = line
            /\ ordinal' = ordinal
        BY <2>1 DEF vars
      <3>2. Bundle' = Bundle
        BY <3>1 DEF Bundle
      <3>. QED BY <2>1, <3>1, <3>2 DEF LoopBounds
    <2>. QED BY <2>1, StepGoesOn DEF Next, Terminating
  <1>. QED BY <1>1, <1>2, PTL DEF Spec

\* No turn of these loops leaves the reader where it was: each goes on in an
\* order that LoopsAreBounded bounds, so there are only so many of them.
THEOREM LoopsGoOn == Spec => [][GoesOn]_vars
  <1>1. LoopBounds /\ [Next]_vars => [GoesOn]_vars
    BY StepGoesOn DEF Next, Terminating
  <1>. QED BY <1>1, LoopsAreBounded, PTL DEF Spec
===============================================================================

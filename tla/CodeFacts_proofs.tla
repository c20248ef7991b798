-------------------------- MODULE CodeFacts_proofs ---------------------------
(***************************************************************************)
(* Induction and recursion over natural numbers, stated of sets and        *)
(* functions: a property is the set of the numbers that have it, and a     *)
(* step of a recursion the function it applies.  And, for code of any      *)
(* length and any flow graph, what the sets of CodeFacts promise to the    *)
(* passes that use them.                                                   *)
(***************************************************************************)
EXTENDS CodeFacts, FiniteSetTheorems, WellFoundedInduction, TLAPS

-----------------------------------------------------------------------------
(* Every set of natural numbers has a least one. *)
LEMMA LeastOfNaturals ==
  ASSUME NEW T \in SUBSET Nat, T # {}
  PROVE  \E x \in T : \A y \in T : x <= y
<1>1. IsWellFoundedOn(OpToRel(<, Nat), Nat)
  BY NatLessThanWellFounded
<1>2. PICK x \in T : \A y \in T : ~(<<y, x>> \in OpToRel(<, Nat))
  BY <1>1, WFMin
<1>3. \A y \in T : ~(y < x)
  BY <1>2 DEF OpToRel
<1> QED BY <1>3

(* And every set of natural numbers up to m has a greatest one. *)
LEMMA GreatestOfNaturals ==
  ASSUME NEW m \in Nat, NEW T \in SUBSET (0 .. m), T # {}
  PROVE  \E x \in T : \A y \in T : y <= x
<1> DEFINE U == {n \in Nat : m - n \in T}
<1>1. U # {}
  <2>1. PICK y \in T : TRUE
    OBVIOUS
  <2>2. y \in 0 .. m /\ m - y \in Nat /\ m - (m - y) = y
    OBVIOUS
  <2> QED BY <2>1, <2>2
<1>2. PICK n \in U : \A k \in U : n <= k
  <2>1. U \in SUBSET Nat
    OBVIOUS
  <2> HIDE DEF U
  <2> QED BY <1>1, <2>1, LeastOfNaturals
<1>3. ASSUME NEW y \in T PROVE y <= m - n
  <2>1. y \in 0 .. m /\ m - y \in Nat /\ m - (m - y) = y
    OBVIOUS
  <2>2. m - y \in U
    BY <2>1
  <2> QED BY <1>2, <2>1, <2>2
<1> QED BY <1>2, <1>3

(* What 0 has, and n + 1 has when n does, all natural numbers have. *)
LEMMA AllNaturals ==
  ASSUME NEW T \in SUBSET Nat, 0 \in T, \A n \in T : n + 1 \in T
  PROVE  T = Nat
<1> SUFFICES ASSUME T # Nat PROVE FALSE
  OBVIOUS
<1>1. PICK x \in Nat \ T : \A y \in Nat \ T : x <= y
  <2>1. Nat \ T \in SUBSET Nat /\ Nat \ T # {}
    OBVIOUS
  <2> QED BY <2>1, LeastOfNaturals
<1>2. x # 0 /\ x - 1 \in Nat
  BY <1>1
<1>3. x - 1 \in T
  BY <1>1, <1>2
<1> QED BY <1>1, <1>2, <1>3

(* A function that a recursion on the numbers up to m defines, from x and  *)
(* a step F from a number and the value before.                            *)
IsIteration(g, F, x, m) ==
  /\ g[0] = x
  /\ \A n \in 0 .. m - 1 : g[n + 1] = F[<<n + 1, g[n]>>]

LEMMA IterationTo ==
  ASSUME NEW S, NEW F \in [Nat \X S -> S], NEW x \in S, NEW m \in Nat
  PROVE  \E g \in [0 .. m -> S] : IsIteration(g, F, x, m)
<1> DEFINE T == {k \in Nat : \E g \in [0 .. k -> S] : IsIteration(g, F, x, k)}
<1>1. 0 \in T
  <2> DEFINE g == [n \in 0 .. 0 |-> x]
  <2>1. g \in [0 .. 0 -> S] /\ IsIteration(g, F, x, 0)
    BY DEF IsIteration
  <2> QED BY <2>1
<1>2. ASSUME NEW k \in T PROVE k + 1 \in T
  <2>1. PICK g \in [0 .. k -> S] : IsIteration(g, F, x, k)
    OBVIOUS
  <2> DEFINE h == [n \in 0 .. k + 1 |-> IF n = k + 1 THEN F[<<k + 1, g[k]>>] ELSE g[n]]
  <2>2. k \in Nat /\ k \in 0 .. k
    OBVIOUS
  <2>3. h \in [0 .. k + 1 -> S]
    BY <2>2
  <2>4. IsIteration(h, F, x, k + 1)
    <3>1. h[0] = x
      BY <2>1, <2>2 DEF IsIteration
    <3>2. ASSUME NEW n \in 0 .. k PROVE h[n + 1] = F[<<n + 1, h[n]>>]
      <4>1. n # k + 1 /\ n \in 0 .. k + 1 /\ n + 1 \in 0 .. k + 1
        BY <2>2
      <4>2. h[n] = g[n]
        BY <4>1
      <4>3. CASE n = k
        BY <4>1, <4>2, <4>3
      <4>4. CASE n # k
        <5>1. n \in 0 .. k - 1 /\ n + 1 # k + 1
          BY <2>2, <4>4
        <5>2. h[n + 1] = g[n + 1]
          BY <4>1, <5>1
        <5>3. g[n + 1] = F[<<n + 1, g[n]>>]
          BY <2>1, <5>1 DEF IsIteration
        <5> QED BY <4>2, <5>2, <5>3
      <4> QED BY <4>3, <4>4
    <3>3. (k + 1) - 1 = k
      BY <2>2
    <3> HIDE DEF h
    <3> QED BY <3>1, <3>2, <3>3 DEF IsIteration
  <2> QED BY <2>2, <2>3, <2>4
<1>3. T = Nat
  <2> HIDE DEF T
  <2>1. T \in SUBSET Nat
    BY DEF T
  <2> QED BY <1>1, <1>2, <2>1, AllNaturals
<1> QED BY <1>3

(* Two of them agree as far as both go. *)
LEMMA IterationsAgree ==
  ASSUME NEW F, NEW x, NEW m \in Nat, NEW k \in Nat, k <= m, NEW g, NEW h,
         IsIteration(g, F, x, k), IsIteration(h, F, x, m)
  PROVE  \A n \in 0 .. k : g[n] = h[n]
<1> DEFINE T == {n \in Nat : n <= k => g[n] = h[n]}
<1>1. 0 \in T
  BY DEF IsIteration
<1>2. ASSUME NEW n \in T PROVE n + 1 \in T
  <2> SUFFICES ASSUME n + 1 <= k PROVE g[n + 1] = h[n + 1]
    BY <1>2
  <2>1. n \in 0 .. k - 1 /\ n \in 0 .. m - 1 /\ n <= k
    BY <1>2
  <2>2. g[n] = h[n]
    BY <1>2, <2>1
  <2> QED BY <2>1, <2>2 DEF IsIteration
<1>3. T = Nat
  <2> HIDE DEF T
  <2>1. T \in SUBSET Nat
    BY DEF T
  <2> QED BY <1>1, <1>2, <2>1, AllNaturals
<1> QED BY <1>3

Recursion(g, F, x) == g = [n \in Nat |-> IF n = 0 THEN x ELSE F[<<n, g[n - 1]>>]]

(* The recursion that applies F again and again has a solution, and all    *)
(* its values are in S.                                                    *)
LEMMA IterationExists ==
  ASSUME NEW S, NEW F \in [Nat \X S -> S], NEW x \in S
  PROVE  \E g \in [Nat -> S] : Recursion(g, F, x)
<1> DEFINE part(m) == CHOOSE g \in [0 .. m -> S] : IsIteration(g, F, x, m)
           g == [n \in Nat |-> part(n)[n]]
<1>1. \A m \in Nat : part(m) \in [0 .. m -> S] /\ IsIteration(part(m), F, x, m)
  BY IterationTo
<1> HIDE DEF part
<1>2. g \in [Nat -> S]
  BY <1>1
<1>3. g[0] = x
  BY <1>1 DEF IsIteration
<1>4. ASSUME NEW n \in Nat, n # 0 PROVE g[n] = F[<<n, g[n - 1]>>]
  <2>1. n - 1 \in Nat /\ n - 1 \in 0 .. n - 1 /\ n - 1 <= n
    BY <1>4
  <2>2. part(n)[n] = F[<<n, part(n)[n - 1]>>]
    <3>1. IsIteration(part(n), F, x, n)
      BY <1>1
    <3>2. (n - 1) + 1 = n
      OBVIOUS
    <3> QED BY <2>1, <3>1, <3>2 DEF IsIteration
  <2>3. part(n)[n - 1] = part(n - 1)[n - 1]
    <3>1. IsIteration(part(n), F, x, n) /\ IsIteration(part(n - 1), F, x, n - 1)
      BY <1>1, <2>1
    <3> QED BY <2>1, <3>1, IterationsAgree
  <2> QED BY <2>1, <2>2, <2>3
<1>5. Recursion(g, F, x)
  BY <1>2, <1>3, <1>4 DEF Recursion
<1> QED BY <1>2, <1>5
-----------------------------------------------------------------------------
(* The live-out sets.                                                      *)

(* One round: what is live at the ends of blocks, if near is at the ends   *)
(* of their successors.                                                    *)
LiveRound(c, s, near) ==
  [b \in DOMAIN c |-> UNION {UeVar(c, t) \cup (near[t] \ VarKill(c, t)) : t \in s[b]}]

(* The sets after each round. *)
IsRounds(c, s, V, L) ==
  /\ L \in [0 .. Cardinality(DOMAIN c) -> [DOMAIN c -> SUBSET V]]
  /\ LiveOut(c, s) = L[Cardinality(DOMAIN c)]
  /\ L[0] = [b \in DOMAIN c |-> {}]
  /\ \A n \in 0 .. Cardinality(DOMAIN c) - 1 : L[n + 1] = LiveRound(c, s, L[n])

(* LiveOut is what so many rounds as there are blocks give. *)
LEMMA LiveOutInRounds ==
  ASSUME NEW c, NEW s, NEW V,
         IsFiniteSet(DOMAIN c),
         \A b \in DOMAIN c : UeVar(c, b) \subseteq V /\ s[b] \subseteq DOMAIN c
  PROVE  \E L : IsRounds(c, s, V, L)
<1> DEFINE D == DOMAIN c
           N == Cardinality(D)
           S == [D -> SUBSET V]
           further(near) ==
             [b \in D |-> UNION {UeVar(c, t) \cup (near[t] \ VarKill(c, t)) : t \in s[b]}]
           nothing == [b \in D |-> {}]
           F == [q \in Nat \X S |-> further(q[2])]
           IsL(g) == g = [n \in 0 .. N |-> IF n = 0 THEN nothing ELSE further(g[n - 1])]
           L == CHOOSE g : IsL(g)
<1>1. N \in Nat
  BY FS_CardinalityType
<1>2. nothing \in S
  OBVIOUS
<1>3. ASSUME NEW near \in S PROVE further(near) \in S
  <2>1. ASSUME NEW b \in D
        PROVE  UNION {UeVar(c, t) \cup (near[t] \ VarKill(c, t)) : t \in s[b]} \in SUBSET V
    <3>1. \A t \in s[b] : UeVar(c, t) \subseteq V /\ near[t] \subseteq V
      BY <1>3
    <3> QED BY <3>1
  <2> QED BY <2>1
<1>4. \A near : LiveRound(c, s, near) = further(near)
  BY DEF LiveRound
<1> HIDE DEF further, nothing, N, S
<1>5. F \in [Nat \X S -> S]
  BY <1>3
<1>6. \E g : IsL(g)
  <2>1. PICK g \in [0 .. N -> S] : IsIteration(g, F, nothing, N)
    BY <1>1, <1>2, <1>5, IterationTo
  <2>2. g[0] = nothing
    BY <2>1 DEF IsIteration
  <2>3. ASSUME NEW n \in 0 .. N, n # 0 PROVE g[n] = further(g[n - 1])
    <3>1. n - 1 \in 0 .. N - 1 /\ n - 1 \in 0 .. N /\ (n - 1) + 1 = n /\ n \in Nat
      BY <1>1, <2>3
    <3>2. g[n] = F[<<n, g[n - 1]>>]
      BY <2>1, <3>1 DEF IsIteration
    <3>3. <<n, g[n - 1]>> \in Nat \X S
      BY <2>1, <3>1
    <3> QED BY <3>2, <3>3
  <2> QED BY <2>1, <2>2, <2>3
<1>7. IsL(L)
  BY <1>6
<1>8. LiveOut(c, s) = L[N]
  BY DEF LiveOut, further, nothing, N
<1> HIDE DEF L
<1>9. L[0] = nothing /\ DOMAIN L = 0 .. N
  BY <1>1, <1>7
<1>10. ASSUME NEW n \in 0 .. N - 1 PROVE L[n + 1] = further(L[n])
  <2>1. n + 1 \in 0 .. N /\ n + 1 # 0 /\ (n + 1) - 1 = n
    BY <1>1
  <2> QED BY <1>7, <2>1
<1> DEFINE T == {n \in Nat : n <= N => L[n] \in S}
<1>11. T = Nat
  <2>1. 0 \in T
    BY <1>1, <1>2, <1>9
  <2>2. ASSUME NEW n \in T PROVE n + 1 \in T
    <3> SUFFICES ASSUME n + 1 <= N PROVE L[n + 1] \in S
      BY <2>2
    <3>1. n <= N /\ n \in 0 .. N - 1
      BY <1>1, <2>2
    <3> QED BY <1>3, <1>10, <2>2, <3>1
  <2> HIDE DEF T
  <2>3. T \in SUBSET Nat
    BY DEF T
  <2> QED BY <2>1, <2>2, <2>3, AllNaturals
<1>12. L \in [0 .. N -> S]
  <2>1. \A n \in 0 .. N : L[n] \in S
    BY <1>1, <1>11
  <2> QED BY <1>7, <2>1
<1>13. \A n \in 0 .. N - 1 : L[n + 1] = LiveRound(c, s, L[n])
  BY <1>4, <1>10
<1>14. IsRounds(c, s, V, L)
  <2> HIDE DEF T, F, IsL
  <2> QED BY <1>8, <1>9, <1>12, <1>13 DEF N, S, nothing, IsRounds
<1> QED BY <1>14

(* Only vregs that are read somewhere are live at the end of a block. *)
LEMMA LiveOutIsRead ==
  ASSUME NEW c, NEW s, NEW V,
         IsFiniteSet(DOMAIN c),
         \A b \in DOMAIN c : UeVar(c, b) \subseteq V /\ s[b] \subseteq DOMAIN c
  PROVE  LiveOut(c, s) \in [DOMAIN c -> SUBSET V]
<1>1. Cardinality(DOMAIN c) \in Nat
  BY FS_CardinalityType
<1>2. PICK L : IsRounds(c, s, V, L)
  BY LiveOutInRounds
<1>3. Cardinality(DOMAIN c) \in 0 .. Cardinality(DOMAIN c)
  BY <1>1
<1> QED BY <1>2, <1>3 DEF IsRounds

(* And so many rounds are enough: the sets solve the equations.  A round   *)
(* that makes nothing more live at any end of a block is the last that     *)
(* does, and before it each one makes a vreg live at one more.             *)
LEMMA LiveOutSolves ==
  ASSUME NEW c, NEW s,
         IsFiniteSet(DOMAIN c),
         \A b \in DOMAIN c : s[b] \subseteq DOMAIN c,
         NEW b \in DOMAIN c, NEW t \in s[b], NEW v,
         v \in UeVar(c, t) \cup (LiveOut(c, s)[t] \ VarKill(c, t))
  PROVE  v \in LiveOut(c, s)[b]
<1> DEFINE D == DOMAIN c
           N == Cardinality(D)
           V == UNION {UeVar(c, d) : d \in D}
           Step(X) == {d \in D : \E e \in s[d] : v \in UeVar(c, e) \/ (e \in X /\ v \notin VarKill(c, e))}
<1>1. N \in Nat /\ IsFiniteSet(D)
  BY FS_CardinalityType
<1>2. PICK L : IsRounds(c, s, V, L)
  <2>1. \A d \in DOMAIN c : UeVar(c, d) \subseteq V /\ s[d] \subseteq DOMAIN c
    OBVIOUS
  <2> HIDE DEF V
  <2> QED BY <2>1, LiveOutInRounds
<1> DEFINE A(n) == {d \in D : v \in L[n][d]}
<1>3. A(0) = {}
  BY <1>2 DEF IsRounds
<1>4. ASSUME NEW n \in 0 .. N - 1 PROVE A(n + 1) = Step(A(n))
  <2>1. \A d \in D : L[n + 1][d] = UNION {UeVar(c, e) \cup (L[n][e] \ VarKill(c, e)) : e \in s[d]}
    <3>1. L[n + 1] = LiveRound(c, s, L[n])
      BY <1>2 DEF IsRounds
    <3> QED BY <3>1 DEF LiveRound
  <2>2. \A d \in D : s[d] \subseteq D
    OBVIOUS
  <2> QED BY <2>1, <2>2
<1>5. \A X, Y : X \subseteq Y => Step(X) \subseteq Step(Y)
  OBVIOUS
<1>6. \A X : Step(X) \subseteq D
  OBVIOUS
<1>7. \A n : A(n) \subseteq D
  OBVIOUS
<1>8. Step(A(N)) \subseteq A(N) => v \in LiveOut(c, s)[b]
  <2>1. t \in D
    OBVIOUS
  <2>2. LiveOut(c, s) = L[N]
    BY <1>2 DEF IsRounds
  <2>3. b \in Step(A(N))
    BY <2>1, <2>2
  <2> QED BY <2>2, <2>3
<1> HIDE DEF A, Step
<1> DEFINE T == {n \in Nat : n <= N => /\ A(n) \subseteq Step(A(n))
                                       /\ Step(A(n)) = A(n) \/ n <= Cardinality(A(n))}
<1>9. 0 \in T
  <2>1. IsFiniteSet(A(0))
    BY <1>1, <1>7, FS_Subset
  <2>2. Cardinality(A(0)) \in Nat
    BY <2>1, FS_CardinalityType
  <2> QED BY <1>3, <2>2
<1>10. ASSUME NEW n \in T PROVE n + 1 \in T
  <2> SUFFICES ASSUME n + 1 <= N
               PROVE  /\ A(n + 1) \subseteq Step(A(n + 1))
                      /\ Step(A(n + 1)) = A(n + 1) \/ n + 1 <= Cardinality(A(n + 1))
    BY <1>10
  <2>1. n \in Nat /\ n <= N /\ n \in 0 .. N - 1
    BY <1>1, <1>10
  <2>2. A(n + 1) = Step(A(n)) /\ A(n) \subseteq Step(A(n))
    BY <1>4, <1>10, <2>1
  <2>3. A(n + 1) \subseteq Step(A(n + 1))
    BY <1>5, <2>2
  <2>4. CASE Step(A(n)) = A(n)
    BY <2>2, <2>4
  <2>5. CASE Step(A(n)) # A(n)
    <3>1. n <= Cardinality(A(n))
      BY <1>10, <2>1, <2>5
    <3>2. A(n) \subseteq A(n + 1) /\ A(n) # A(n + 1)
      BY <2>2, <2>5
    <3>3. IsFiniteSet(A(n)) /\ IsFiniteSet(A(n + 1))
      BY <1>1, <1>7, FS_Subset
    <3>4. Cardinality(A(n)) \in Nat /\ Cardinality(A(n + 1)) \in Nat
      BY <3>3, FS_CardinalityType
    <3>5. Cardinality(A(n)) <= Cardinality(A(n + 1)) /\ Cardinality(A(n)) # Cardinality(A(n + 1))
      BY <3>2, <3>3, FS_Subset
    <3> QED BY <2>1, <2>3, <3>1, <3>4, <3>5
  <2> QED BY <2>3, <2>4, <2>5
<1>11. T = Nat
  <2> HIDE DEF T
  <2>1. T \in SUBSET Nat
    BY DEF T
  <2> QED BY <1>9, <1>10, <2>1, AllNaturals
<1>12. Step(A(N)) \subseteq A(N)
  <2>1. Step(A(N)) = A(N) \/ N <= Cardinality(A(N))
    BY <1>1, <1>11
  <2>2. CASE N <= Cardinality(A(N))
    <3>1. A(N) \subseteq D /\ Cardinality(A(N)) <= N /\ Cardinality(A(N)) \in Nat
      BY <1>1, <1>7, FS_Subset, FS_CardinalityType
    <3>2. A(N) = D
      BY <1>1, <2>2, <3>1, FS_Subset
    <3> QED BY <1>6, <3>2
  <2> QED BY <2>1, <2>2
<1> QED BY <1>8, <1>12

-----------------------------------------------------------------------------
(* What is live between two tacs.                                          *)

LEMMA LiveBeforeTac ==
  ASSUME NEW c, NEW lo, NEW b, Len(c[b]) \in Nat, NEW i \in 1 .. Len(c[b]), NEW v
  PROVE  LiveAfter(c, lo, b, i - 1, v) <=>
           v \in Operands(c[b][i]) \/ (c[b][i].dst # v /\ LiveAfter(c, lo, b, i, v))
<1>1. i \in Nat /\ i - 1 \in Nat /\ (i - 1) + 1 = i
  OBVIOUS
<1>2. ASSUME LiveAfter(c, lo, b, i - 1, v), v \notin Operands(c[b][i])
      PROVE  c[b][i].dst # v /\ LiveAfter(c, lo, b, i, v)
  <2>1. CASE \E j \in i .. Len(c[b]) :
               v \in Operands(c[b][j]) /\ \A k \in i .. j - 1 : c[b][k].dst # v
    <3>1. PICK j \in i .. Len(c[b]) :
                 v \in Operands(c[b][j]) /\ \A k \in i .. j - 1 : c[b][k].dst # v
      BY <2>1
    <3>2. j # i
      BY <1>2, <3>1
    <3>3. j \in i + 1 .. Len(c[b]) /\ i \in i .. j - 1 /\ \A k \in i + 1 .. j - 1 : k \in i .. j - 1
      BY <1>1, <3>2
    <3> QED BY <3>1, <3>3 DEF LiveAfter
  <2>2. CASE v \in lo[b] /\ \A k \in i .. Len(c[b]) : c[b][k].dst # v
    <3>1. i \in i .. Len(c[b]) /\ \A k \in i + 1 .. Len(c[b]) : k \in i .. Len(c[b])
      BY <1>1
    <3> QED BY <2>2, <3>1 DEF LiveAfter
  <2> QED BY <1>1, <1>2, <2>1, <2>2 DEF LiveAfter
<1>3. ASSUME v \in Operands(c[b][i]) PROVE LiveAfter(c, lo, b, i - 1, v)
  <2>1. i \in i .. Len(c[b]) /\ \A k \in i .. i - 1 : FALSE
    BY <1>1
  <2> QED BY <1>1, <1>3, <2>1 DEF LiveAfter
<1>4. ASSUME c[b][i].dst # v, LiveAfter(c, lo, b, i, v) PROVE LiveAfter(c, lo, b, i - 1, v)
  <2>1. CASE \E j \in i + 1 .. Len(c[b]) :
               v \in Operands(c[b][j]) /\ \A k \in i + 1 .. j - 1 : c[b][k].dst # v
    <3>1. PICK j \in i + 1 .. Len(c[b]) :
                 v \in Operands(c[b][j]) /\ \A k \in i + 1 .. j - 1 : c[b][k].dst # v
      BY <2>1
    <3>2. j \in i .. Len(c[b]) /\ \A k \in i .. j - 1 : k = i \/ k \in i + 1 .. j - 1
      BY <1>1
    <3>3. \A k \in i .. j - 1 : c[b][k].dst # v
      BY <1>4, <3>1, <3>2
    <3> QED BY <1>1, <3>1, <3>2, <3>3 DEF LiveAfter
  <2>2. CASE v \in lo[b] /\ \A k \in i + 1 .. Len(c[b]) : c[b][k].dst # v
    <3>1. \A k \in i .. Len(c[b]) : k = i \/ k \in i + 1 .. Len(c[b])
      BY <1>1
    <3> QED BY <1>1, <1>4, <2>2, <3>1 DEF LiveAfter
  <2> QED BY <1>4, <2>1, <2>2 DEF LiveAfter
<1> QED BY <1>2, <1>3, <1>4

LEMMA LiveAtTheEnd ==
  ASSUME NEW c, NEW lo, NEW b, Len(c[b]) \in Nat, NEW v
  PROVE  LiveAfter(c, lo, b, Len(c[b]), v) <=> v \in lo[b]
BY DEF LiveAfter

(* What is live where a block begins, is live at the ends of those before. *)
LEMMA LiveAtTheBegin ==
  ASSUME NEW c, NEW s,
         IsFiniteSet(DOMAIN c),
         \A b \in DOMAIN c : s[b] \subseteq DOMAIN c /\ Len(c[b]) \in Nat,
         NEW b \in DOMAIN c, NEW t \in s[b], NEW v,
         v # 0,
         LiveAfter(c, LiveOut(c, s), t, 0, v)
  PROVE  v \in LiveOut(c, s)[b]
<1>1. t \in DOMAIN c /\ Len(c[t]) \in Nat
  OBVIOUS
<1>2. CASE \E j \in 1 .. Len(c[t]) :
             v \in Operands(c[t][j]) /\ \A k \in 1 .. j - 1 : c[t][k].dst # v
  <2>1. v \in UeVar(c, t)
    BY <1>2 DEF UeVar
  <2> QED BY <2>1, LiveOutSolves
<1>3. CASE v \in LiveOut(c, s)[t] /\ \A k \in 1 .. Len(c[t]) : c[t][k].dst # v
  <2>1. v \notin VarKill(c, t)
    BY <1>3 DEF VarKill
  <2> QED BY <1>3, <2>1, LiveOutSolves
<1> QED BY <1>1, <1>2, <1>3 DEF LiveAfter
=============================================================================

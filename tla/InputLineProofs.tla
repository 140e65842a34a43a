-------------------------- MODULE InputLineProofs --------------------------
(***************************************************************************)
(* Proofs about InputLine, for all texts typed and pasted.                 *)
(***************************************************************************)
EXTENDS InputLine, WellFoundedInduction, TLAPS

-----------------------------------------------------------------------------
(* Least and greatest elements *)

LEMMA LessThan ==
  \E R : /\ IsWellFoundedOn(R, Nat)
         /\ \A x, y \in Nat : <<y, x>> \in R <=> y < x
<1>1. \A x, y \in Nat : <<y, x>> \in OpToRel(<, Nat) <=> y < x
  BY Zenon DEF OpToRel
<1>. QED  BY <1>1, NatLessThanWellFounded, Zenon

\* Every set of numbers has a least element: what the proofs about recursive
\* functions below do instead of an induction.
LEMMA Least ==
  ASSUME NEW T, T \subseteq Nat, T # {}
  PROVE  \E x \in T : \A y \in T : x <= y
<1>1. PICK R : IsWellFoundedOn(R, Nat) /\ \A x, y \in Nat : <<y, x>> \in R <=> y < x
  BY LessThan, Zenon
<1>2. PICK x \in T : \A y \in T : <<y, x>> \notin R
  BY <1>1, WFMin, Zenon
<1>3. ASSUME NEW y \in T PROVE x <= y
  <2>1. ~(y < x)
    BY <1>1, <1>2, Zenon
  <2>. QED  BY <2>1
<1>. QED  BY <1>3

LEMMA MinOf ==
  ASSUME NEW T, NEW a \in Int, NEW b \in Int, T \subseteq a .. b, T # {}
  PROVE  Min(T) \in T /\ Min(T) \in a .. b /\ \A y \in T : Min(T) <= y
<1>. DEFINE D == {x - a : x \in T}
<1>1. D \subseteq Nat /\ D # {}
  OBVIOUS
<1>2. PICK d \in D : \A e \in D : d <= e
  BY <1>1, Least
<1>3. PICK x \in T : d = x - a
  BY <1>2
<1>4. ASSUME NEW y \in T PROVE x <= y
  <2>1. y - a \in D
    OBVIOUS
  <2>2. x - a <= y - a
    BY <1>2, <1>3, <2>1
  <2>. QED  BY <2>2
<1>. QED  BY <1>4 DEF Min

LEMMA MaxOf ==
  ASSUME NEW T, NEW a \in Int, NEW b \in Int, T \subseteq a .. b, T # {}
  PROVE  Max(T) \in T /\ Max(T) \in a .. b /\ \A y \in T : Max(T) >= y
<1>. DEFINE D == {b - x : x \in T}
<1>1. D \subseteq Nat /\ D # {}
  OBVIOUS
<1>2. PICK d \in D : \A e \in D : d <= e
  BY <1>1, Least
<1>3. PICK x \in T : d = b - x
  BY <1>2
<1>4. ASSUME NEW y \in T PROVE x >= y
  <2>1. b - y \in D
    OBVIOUS
  <2>2. b - x <= b - y
    BY <1>2, <1>3, <2>1
  <2>. QED  BY <2>2
<1>. QED  BY <1>4 DEF Max

LEMMA OfTwo ==
  ASSUME NEW x \in Int, NEW y \in Int
  PROVE  /\ Max({x, y}) = IF x >= y THEN x ELSE y
         /\ Min({x, y}) = IF x <= y THEN x ELSE y
BY DEF Max, Min

-----------------------------------------------------------------------------
(* Induction and recursive functions *)

\* Induction from the last place back to the first, the places for which the
\* claim holds being a set.
LEMMA Backwards ==
  ASSUME NEW N \in Nat, NEW G, N + 1 \in G,
         \A i \in 1 .. N : (\A j \in i + 1 .. N + 1 : j \in G) => i \in G
  PROVE  \A i \in 1 .. N + 1 : i \in G
<1>. DEFINE Bad == {d \in 0 .. N : N + 1 - d \notin G}
<1>1. SUFFICES ASSUME Bad # {} PROVE FALSE
  <2>1. ASSUME NEW i \in 1 .. N + 1 PROVE i \in G
    <3>1. N + 1 - i \in 0 .. N /\ N + 1 - (N + 1 - i) = i
      OBVIOUS
    <3>. QED  BY <3>1
  <2>. QED  BY <2>1
<1>2. Bad \subseteq Nat
  OBVIOUS
<1>3. PICK d \in Bad : \A e \in Bad : d <= e
  BY <1>1, <1>2, Least
<1>4. d \in 1 .. N /\ N + 1 - d \notin G
  OBVIOUS
<1>5. ASSUME NEW j \in N + 1 - d + 1 .. N + 1 PROVE j \in G
  <2>1. N + 1 - j \in 0 .. N /\ N + 1 - (N + 1 - j) = j /\ N + 1 - j < d
    BY <1>4
  <2>. QED  BY <1>3, <1>4, <2>1
<1>6. N + 1 - d \in 1 .. N
  BY <1>4
<1>. QED  BY <1>4, <1>5, <1>6

\* Each of N places leads to one further on, and the last ones past the end.
Onwards(N, next) == \A i \in 1 .. N : next[i] > i /\ next[i] <= N + 1

\* f puts the piece of a place before what f is at the next place.
Chain(f, N, piece, next) ==
  \A i \in 1 .. N + 1 : f[i] = IF i > N THEN <<>> ELSE piece[i] \o f[next[i]]

\* A function that puts a piece before what another, later place begins with is
\* well defined, and what it yields is made of the pieces.
LEMMA Chained ==
  ASSUME NEW S, NEW N \in Nat, NEW piece \in [1 .. N -> Seq(S)], NEW next \in [1 .. N -> Int],
         Onwards(N, next)
  PROVE  \E f \in [1 .. N + 1 -> Seq(S)] : Chain(f, N, piece, next)
<1>. DEFINE Good(k) == \E f \in [k .. N + 1 -> Seq(S)] : \A i \in k .. N + 1 :
              f[i] = IF i > N THEN <<>> ELSE piece[i] \o f[next[i]]
<1>0. \A i \in 1 .. N : next[i] > i /\ next[i] <= N + 1
  BY DEF Onwards
<1>1. Good(N + 1)
  <2>. DEFINE f == [i \in N + 1 .. N + 1 |-> <<>>]
  <2>1. f \in [N + 1 .. N + 1 -> Seq(S)]
    OBVIOUS
  <2>2. ASSUME NEW i \in N + 1 .. N + 1
        PROVE  f[i] = IF i > N THEN <<>> ELSE piece[i] \o f[next[i]]
    <3>1. i > N
      OBVIOUS
    <3>2. f[i] = <<>>
      OBVIOUS
    <3>. QED  BY <3>1, <3>2
  <2>. QED  BY <2>1, <2>2
<1>2. ASSUME NEW k \in 1 .. N, Good(k + 1) PROVE Good(k)
  <2>1. k \in Int /\ 1 <= k /\ k <= N
    OBVIOUS
  <2>2. PICK g \in [k + 1 .. N + 1 -> Seq(S)] : \A i \in k + 1 .. N + 1 :
          g[i] = IF i > N THEN <<>> ELSE piece[i] \o g[next[i]]
    BY <1>2, <2>1
  <2>. DEFINE f == [i \in k .. N + 1 |-> IF i = k THEN piece[k] \o g[next[k]] ELSE g[i]]
  <2>3. piece[k] \in Seq(S) /\ next[k] \in k + 1 .. N + 1 /\ g[next[k]] \in Seq(S)
    BY <1>0, <2>1
  <2>4. f \in [k .. N + 1 -> Seq(S)]
    BY <2>1, <2>3
  <2>5. \A i \in k + 1 .. N + 1 : f[i] = g[i]
    BY <2>1
  <2>6. ASSUME NEW i \in k .. N + 1
        PROVE  f[i] = IF i > N THEN <<>> ELSE piece[i] \o f[next[i]]
    <3>1. CASE i = k
      <4>1. f[next[k]] = g[next[k]]
        BY <2>3, <2>5
      <4>2. f[k] = piece[k] \o g[next[k]]
        BY <2>1
      <4>3. ~(i > N)
        BY <2>1, <3>1
      <4>. HIDE DEF f
      <4>. QED  BY <3>1, <4>1, <4>2, <4>3
    <3>2. CASE i > N
      <4>1. i \in k + 1 .. N + 1
        BY <3>2, <2>1
      <4>. QED  BY <3>2, <2>2, <2>5, <4>1
    <3>3. CASE i \in k + 1 .. N
      <4>1. next[i] \in k + 1 .. N + 1 /\ i \in k + 1 .. N + 1
        BY <1>0, <2>1, <3>3
      <4>2. f[next[i]] = g[next[i]] /\ f[i] = g[i]
        BY <4>1, <2>5
      <4>3. g[i] = IF i > N THEN <<>> ELSE piece[i] \o g[next[i]]
        BY <2>2, <4>1
      <4>4. ~(i > N)
        BY <3>3
      <4>. QED  BY <4>2, <4>3, <4>4
    <3>. QED  BY <3>1, <3>2, <3>3, <2>1
  <2>. QED  BY <2>4, <2>6
<1>. HIDE DEF Good
<1>3. \A k \in 1 .. N + 1 : k \in {i \in 1 .. N + 1 : Good(i)}
  <2>. DEFINE G == {k \in 1 .. N + 1 : Good(k)}
  <2>1. N + 1 \in G
    BY <1>1
  <2>2. ASSUME NEW k \in 1 .. N, \A j \in k + 1 .. N + 1 : j \in G PROVE k \in G
    <3>1. k + 1 \in k + 1 .. N + 1 /\ k \in 1 .. N + 1
      OBVIOUS
    <3>. QED  BY <1>2, <2>2, <3>1
  <2>. HIDE DEF G
  <2>3. \A k \in 1 .. N + 1 : k \in G
    BY <2>1, <2>2, Backwards
  <2>. QED  BY <2>3 DEF G
<1>4. Good(1)
  BY <1>3
<1>. QED  BY <1>4 DEF Good, Chain

LEMMA ChainedType ==
  ASSUME NEW S, NEW N \in Nat, NEW piece \in [1 .. N -> Seq(S)], NEW next \in [1 .. N -> Int],
         Onwards(N, next),
         NEW T, NEW f \in [1 .. N + 1 -> T], Chain(f, N, piece, next)
  PROVE  f \in [1 .. N + 1 -> Seq(S)]
<1>1. f[N + 1] \in Seq(S)
  <2>1. N + 1 \in 1 .. N + 1 /\ N + 1 > N
    OBVIOUS
  <2>2. f[N + 1] = <<>>
    BY <2>1 DEF Chain
  <2>. QED  BY <2>2
<1>2. ASSUME NEW i \in 1 .. N, \A j \in i + 1 .. N + 1 : f[j] \in Seq(S)
      PROVE  f[i] \in Seq(S)
  <2>1. ~(i > N) /\ i \in 1 .. N + 1
    OBVIOUS
  <2>2. f[i] = piece[i] \o f[next[i]] /\ piece[i] \in Seq(S)
    BY <2>1 DEF Chain
  <2>3. next[i] \in i + 1 .. N + 1
    BY DEF Onwards
  <2>4. f[next[i]] \in Seq(S)
    BY <1>2, <2>3
  <2>. QED  BY <2>2, <2>4
<1>. DEFINE G == {i \in 1 .. N + 1 : f[i] \in Seq(S)}
<1>3. N + 1 \in G
  BY <1>1
<1>4. ASSUME NEW i \in 1 .. N, \A j \in i + 1 .. N + 1 : j \in G PROVE i \in G
  BY <1>2, <1>4
<1>. HIDE DEF G
<1>5. \A i \in 1 .. N + 1 : i \in G
  BY <1>3, <1>4, Backwards
<1>. QED  BY <1>5 DEF G

\* What str::replace yields from each place on.
LEMMA RestsReplacedDef ==
  ASSUME NEW S, NEW text \in Seq(S), NEW new \in Seq(S), NEW old, Len(old) \in Nat \ {0}
  PROVE  LET f == RestsReplaced(text, old, new) IN
         /\ f \in [1 .. Len(text) + 1 -> Seq(S)]
         /\ f[Len(text) + 1] = <<>>
         /\ \A i \in 1 .. Len(text) :
              f[i] = IF OccursAt(old, text, i) THEN new \o f[i + Len(old)]
                                               ELSE <<text[i]>> \o f[i + 1]
<1>. DEFINE N == Len(text)
            piece == [i \in 1 .. N |-> IF OccursAt(old, text, i) THEN new ELSE <<text[i]>>]
            next == [i \in 1 .. N |-> IF OccursAt(old, text, i) THEN i + Len(old) ELSE i + 1]
            R(f) == [i \in 1 .. N + 1 |-> IF i > N THEN <<>>
                                          ELSE IF OccursAt(old, text, i) THEN new \o f[i + Len(old)]
                                          ELSE <<text[i]>> \o f[i + 1]]
            C(f) == [i \in 1 .. N + 1 |-> IF i > N THEN <<>> ELSE piece[i] \o f[next[i]]]
            F == RestsReplaced(text, old, new)
<1>1. N \in Nat /\ piece \in [1 .. N -> Seq(S)]
  <2>1. \A i \in 1 .. N : text[i] \in S
    OBVIOUS
  <2>. QED  BY <2>1
<1>2. next \in [1 .. N -> Int]
  OBVIOUS
<1>3. Onwards(N, next)
  <2>1. \A i \in 1 .. N : OccursAt(old, text, i) => i + Len(old) <= N + 1
    BY DEF OccursAt
  <2>. QED  BY <2>1 DEF Onwards
<1>4. ASSUME NEW f PROVE R(f) = C(f)
  <2>1. ASSUME NEW i \in 1 .. N + 1 PROVE R(f)[i] = C(f)[i]
    <3>1. CASE i > N
      BY <3>1
    <3>2. CASE i \in 1 .. N
      <4>1. ~(i > N)
        BY <3>2
      <4>2. R(f)[i] = IF OccursAt(old, text, i) THEN new \o f[i + Len(old)] ELSE <<text[i]>> \o f[i + 1]
        BY <4>1
      <4>3. C(f)[i] = piece[i] \o f[next[i]]
        BY <4>1
      <4>4. /\ piece[i] = IF OccursAt(old, text, i) THEN new ELSE <<text[i]>>
            /\ next[i] = IF OccursAt(old, text, i) THEN i + Len(old) ELSE i + 1
        BY <3>2
      <4>. QED  BY <4>2, <4>3, <4>4
    <3>. QED  BY <1>1, <3>1, <3>2
  <2>. QED  BY <2>1
<1>5. F = CHOOSE f : f = R(f)
  BY DEF RestsReplaced
<1>. HIDE DEF piece, next, R, F
<1>6. PICK f \in [1 .. N + 1 -> Seq(S)] : Chain(f, N, piece, next)
  <2>. HIDE DEF N
  <2>. QED  BY <1>1, <1>2, <1>3, Chained
<1>7. f = C(f)
  BY <1>6 DEF Chain
<1>8. F = R(F)
  <2>1. f = R(f)
    BY <1>4, <1>7
  <2>. QED  BY <1>5, <2>1
<1>9. F = C(F)
  BY <1>4, <1>8
<1>10. F \in [1 .. N + 1 -> Seq(S)]
  <2>1. F \in [1 .. N + 1 -> {F[i] : i \in 1 .. N + 1}]
    BY <1>9
  <2>2. Chain(F, N, piece, next)
    BY <1>9 DEF Chain
  <2>. HIDE DEF N, C
  <2>. QED  BY <1>1, <1>2, <1>3, <2>1, <2>2, ChainedType
<1>11. F[N + 1] = <<>>
  <2>1. N + 1 \in 1 .. N + 1 /\ N + 1 > N
    BY <1>1
  <2>. QED  BY <1>8, <2>1 DEF R
<1>12. ASSUME NEW i \in 1 .. N
       PROVE  F[i] = IF OccursAt(old, text, i) THEN new \o F[i + Len(old)] ELSE <<text[i]>> \o F[i + 1]
  <2>1. i \in 1 .. N + 1 /\ ~(i > N)
    BY <1>1
  <2>. QED  BY <1>8, <2>1 DEF R
<1>. QED  BY <1>10, <1>11, <1>12 DEF F

\* What is filtered is of the sequence and of the set, no longer than the
\* sequence, and empty only when the sequence has nothing of the set.
LEMMA FilteredSeq ==
  ASSUME NEW T, NEW s \in Seq(T), NEW kept
  PROVE  /\ Filtered(s, kept) \in Seq(T \cap kept)
         /\ Len(Filtered(s, kept)) <= Len(s)
         /\ \A k \in 1 .. Len(s) : s[k] \in kept => Len(Filtered(s, kept)) > 0
<1>. DEFINE N == Len(s)
            piece == [i \in 1 .. N |-> IF s[i] \in kept THEN <<s[i]>> ELSE <<>>]
            next == [i \in 1 .. N |-> i + 1]
            R(f) == [i \in 1 .. N + 1 |->
                       IF i > N THEN <<>>
                       ELSE (IF s[i] \in kept THEN <<s[i]>> ELSE <<>>) \o f[i + 1]]
            C(f) == [i \in 1 .. N + 1 |-> IF i > N THEN <<>> ELSE piece[i] \o f[next[i]]]
            F == CHOOSE f : f = R(f)
<1>1. N \in Nat /\ piece \in [1 .. N -> Seq(T \cap kept)]
  <2>1. \A i \in 1 .. N : s[i] \in T
    OBVIOUS
  <2>2. ASSUME NEW i \in 1 .. N
        PROVE  (IF s[i] \in kept THEN <<s[i]>> ELSE <<>>) \in Seq(T \cap kept)
    <3>1. CASE s[i] \in kept
      <4>1. s[i] \in T \cap kept
        BY <2>1, <3>1
      <4>. QED  BY <3>1, <4>1
    <3>2. CASE s[i] \notin kept
      BY <3>2
    <3>. QED  BY <3>1, <3>2
  <2>. QED  BY <2>2
<1>2. next \in [1 .. N -> Int] /\ Onwards(N, next)
  BY DEF Onwards
<1>3. ASSUME NEW f PROVE R(f) = C(f)
  <2>1. ASSUME NEW i \in 1 .. N + 1 PROVE R(f)[i] = C(f)[i]
    <3>1. CASE i > N
      BY <3>1
    <3>2. CASE i \in 1 .. N
      <4>1. ~(i > N)
        BY <3>2
      <4>2. R(f)[i] = (IF s[i] \in kept THEN <<s[i]>> ELSE <<>>) \o f[i + 1]
        BY <4>1
      <4>3. C(f)[i] = piece[i] \o f[next[i]]
        BY <4>1
      <4>4. /\ piece[i] = IF s[i] \in kept THEN <<s[i]>> ELSE <<>>
            /\ next[i] = i + 1
        BY <3>2
      <4>. QED  BY <4>2, <4>3, <4>4
    <3>. QED  BY <1>1, <3>1, <3>2
  <2>. QED  BY <2>1
<1>4. Filtered(s, kept) = F[1]
  BY DEF Filtered
<1>5. \A i \in 1 .. N : Len(piece[i]) \in 0 .. 1 /\ (s[i] \in kept => Len(piece[i]) = 1)
  OBVIOUS
<1>6. \A i \in 1 .. N : next[i] = i + 1
  OBVIOUS
<1>. HIDE DEF piece, next, R
<1>7. PICK f \in [1 .. N + 1 -> Seq(T \cap kept)] : Chain(f, N, piece, next)
  <2>. HIDE DEF N
  <2>. QED  BY <1>1, <1>2, Chained
<1>8. F = R(F)
  <2>1. f = C(f)
    BY <1>7 DEF Chain
  <2>2. f = R(f)
    BY <1>3, <2>1
  <2>. QED  BY <2>2
<1>9. F = C(F)
  BY <1>3, <1>8
<1>. HIDE DEF F
<1>10. Chain(F, N, piece, next)
  BY <1>9 DEF Chain
<1>11. F \in [1 .. N + 1 -> Seq(T \cap kept)]
  <2>1. F \in [1 .. N + 1 -> {F[i] : i \in 1 .. N + 1}]
    BY <1>9
  <2>. HIDE DEF N, C
  <2>. QED  BY <1>1, <1>2, <2>1, <1>10, ChainedType
<1>. HIDE DEF N, C
<1>12. F[N + 1] = <<>>
  <2>1. N + 1 \in 1 .. N + 1 /\ N + 1 > N
    BY <1>1
  <2>. QED  BY <1>10, <2>1 DEF Chain
<1>13. ASSUME NEW i \in 1 .. N
       PROVE  /\ F[i] = piece[i] \o F[i + 1] /\ i + 1 \in 1 .. N + 1
              /\ Len(F[i]) = Len(piece[i]) + Len(F[i + 1])
              /\ Len(piece[i]) \in Nat /\ Len(F[i + 1]) \in Nat
  <2>1. i \in 1 .. N + 1 /\ ~(i > N) /\ i + 1 \in 1 .. N + 1
    BY <1>1
  <2>2. F[i] = piece[i] \o F[i + 1]
    BY <1>6, <1>10, <2>1 DEF Chain
  <2>. QED  BY <1>1, <1>11, <2>1, <2>2
<1>. DEFINE G == {i \in 1 .. N + 1 : Len(F[i]) <= N + 1 - i}
            H(k) == {i \in 1 .. k : Len(F[i]) > 0}
<1>14. Len(F[1]) <= N
  <2>1. N + 1 \in G
    BY <1>1, <1>12
  <2>2. ASSUME NEW i \in 1 .. N, \A j \in i + 1 .. N + 1 : j \in G PROVE i \in G
    <3>1. i + 1 \in G /\ i \in 1 .. N + 1
      BY <1>1, <2>2
    <3>2. Len(F[i + 1]) <= N + 1 - (i + 1)
      BY <3>1
    <3>3. /\ Len(F[i]) = Len(piece[i]) + Len(F[i + 1])
          /\ Len(piece[i]) \in 0 .. 1 /\ Len(F[i + 1]) \in Nat
      BY <1>5, <1>13
    <3>4. PICK a \in 0 .. 1, b \in Nat : a = Len(piece[i]) /\ b = Len(F[i + 1])
      BY <3>3
    <3>5. Len(F[i]) = a + b /\ b <= N - i
      BY <1>1, <3>2, <3>3, <3>4
    <3>6. Len(F[i]) <= N + 1 - i
      BY <1>1, <3>5
    <3>. QED  BY <3>1, <3>6
  <2>. HIDE DEF G
  <2>3. \A i \in 1 .. N + 1 : i \in G
    BY <1>1, <2>1, <2>2, Backwards
  <2>4. 1 \in G
    BY <1>1, <2>3
  <2>. QED  BY <1>1, <2>4 DEF G
<1>15. ASSUME NEW k \in 1 .. N, s[k] \in kept PROVE Len(F[1]) > 0
  <2>0. Len(F[k]) > 0
    <3>1. Len(piece[k]) = 1
      BY <1>5, <1>15
    <3>2. Len(F[k]) = Len(piece[k]) + Len(F[k + 1]) /\ Len(F[k + 1]) \in Nat
      BY <1>13
    <3>. QED  BY <3>1, <3>2
  <2>1. k - 1 \in Nat /\ (k - 1) + 1 = k /\ k \in H(k)
    BY <1>1, <2>0
  <2>2. ASSUME NEW i \in 1 .. k - 1, \A j \in i + 1 .. k : j \in H(k) PROVE i \in H(k)
    <3>1. i + 1 \in H(k) /\ i \in 1 .. N /\ i \in 1 .. k
      BY <1>1, <2>2
    <3>2. Len(F[i + 1]) > 0
      BY <3>1
    <3>3. /\ Len(F[i]) = Len(piece[i]) + Len(F[i + 1])
          /\ Len(piece[i]) \in Nat /\ Len(F[i + 1]) \in Nat
      BY <1>13, <3>1
    <3>4. PICK a \in Nat, b \in Nat : a = Len(piece[i]) /\ b = Len(F[i + 1])
      BY <3>3
    <3>5. Len(F[i]) = a + b /\ b > 0
      BY <3>2, <3>3, <3>4
    <3>6. Len(F[i]) > 0
      BY <3>5
    <3>. QED  BY <3>1, <3>6
  <2>. HIDE DEF H
  <2>3. \A i \in 1 .. k : i \in H(k)
    BY <2>1, <2>2, Backwards
  <2>4. 1 \in H(k)
    BY <2>1, <2>3
  <2>. QED  BY <2>4 DEF H
<1>16. F[1] \in Seq(T \cap kept)
  BY <1>1, <1>11
<1>. QED  BY <1>4, <1>14, <1>15, <1>16 DEF N

\* The expansion of the blocks, one after the other.
LEMMA ExpansionsDef ==
  ASSUME NEW text, NEW blocks, Len(blocks) \in Nat
  PROVE  LET f == Expansions(text, blocks) IN
         /\ f[Len(blocks) + 1] = text
         /\ \A i \in 1 .. Len(blocks) :
              f[i] = Replaced(f[i + 1], blocks[i].placeholder, blocks[i].text)
<1>. DEFINE N == Len(blocks)
            step(t, i) == Replaced(t, blocks[i].placeholder, blocks[i].text)
            R(f) == [i \in 1 .. N + 1 |-> IF i > N THEN text ELSE step(f[i + 1], i)]
            Good(k) == \E T : \E f \in [k .. N + 1 -> T] : \A i \in k .. N + 1 :
                         f[i] = IF i > N THEN text ELSE step(f[i + 1], i)
            G == {k \in 1 .. N + 1 : Good(k)}
<1>. HIDE DEF step
<1>1. Good(N + 1)
  <2>. DEFINE f == [i \in N + 1 .. N + 1 |-> text]
  <2>1. f \in [N + 1 .. N + 1 -> {text}]
    OBVIOUS
  <2>2. \A i \in N + 1 .. N + 1 : i > N /\ f[i] = text
    OBVIOUS
  <2>3. \A i \in N + 1 .. N + 1 : f[i] = IF i > N THEN text ELSE step(f[i + 1], i)
    BY <2>2
  <2>. HIDE DEF f
  <2>. QED  BY <2>1, <2>3
<1>2. ASSUME NEW k \in 1 .. N, Good(k + 1) PROVE Good(k)
  <2>1. PICK T : \E g \in [k + 1 .. N + 1 -> T] : \A i \in k + 1 .. N + 1 :
                   g[i] = IF i > N THEN text ELSE step(g[i + 1], i)
    BY <1>2
  <2>2. PICK g \in [k + 1 .. N + 1 -> T] : \A i \in k + 1 .. N + 1 :
          g[i] = IF i > N THEN text ELSE step(g[i + 1], i)
    BY <2>1
  <2>. DEFINE f == [i \in k .. N + 1 |-> IF i = k THEN step(g[k + 1], k) ELSE g[i]]
  <2>3. f \in [k .. N + 1 -> T \cup {step(g[k + 1], k)}]
    OBVIOUS
  <2>4. f[k] = step(g[k + 1], k) /\ \A i \in k + 1 .. N + 1 : f[i] = g[i]
    OBVIOUS
  <2>5. k + 1 \in k + 1 .. N + 1 /\ ~(k > N)
    OBVIOUS
  <2>. HIDE DEF f
  <2>6. ASSUME NEW i \in k .. N + 1
        PROVE  f[i] = IF i > N THEN text ELSE step(f[i + 1], i)
    <3>1. CASE i = k
      BY <2>4, <2>5, <3>1
    <3>2. CASE i > N
      <4>1. i \in k + 1 .. N + 1
        BY <3>2
      <4>. QED  BY <2>2, <2>4, <3>2, <4>1
    <3>3. CASE i \in k + 1 .. N
      <4>1. i \in k + 1 .. N + 1 /\ i + 1 \in k + 1 .. N + 1 /\ ~(i > N)
        BY <3>3
      <4>2. f[i] = g[i] /\ f[i + 1] = g[i + 1] /\ g[i] = step(g[i + 1], i)
        BY <2>2, <2>4, <4>1
      <4>. QED  BY <4>1, <4>2
    <3>. QED  BY <3>1, <3>2, <3>3
  <2>. QED  BY <2>3, <2>6
<1>. HIDE DEF Good
<1>3. Good(1)
  <2>1. N \in Nat /\ N + 1 \in G
    BY <1>1
  <2>2. ASSUME NEW k \in 1 .. N, \A j \in k + 1 .. N + 1 : j \in G PROVE k \in G
    <3>1. k + 1 \in k + 1 .. N + 1 /\ k \in 1 .. N + 1
      OBVIOUS
    <3>. QED  BY <1>2, <2>2, <3>1
  <2>3. 1 \in 1 .. N + 1
    OBVIOUS
  <2>. HIDE DEF G, N
  <2>4. 1 \in G
    BY <2>1, <2>2, <2>3, Backwards
  <2>. QED  BY <2>4 DEF G
<1>4. PICK T : \E f \in [1 .. N + 1 -> T] : \A i \in 1 .. N + 1 :
        f[i] = IF i > N THEN text ELSE step(f[i + 1], i)
  BY <1>3 DEF Good
<1>5. \E f : f = R(f)
  BY <1>4
<1>. DEFINE F == Expansions(text, blocks)
<1>6. F = CHOOSE g : g = R(g)
  BY DEF Expansions, step
<1>. HIDE DEF F, R
<1>7. F = R(F)
  BY <1>5, <1>6
<1>8. F[N + 1] = text
  <2>1. N + 1 \in 1 .. N + 1 /\ N + 1 > N
    OBVIOUS
  <2>. QED  BY <1>7, <2>1 DEF R
<1>9. ASSUME NEW i \in 1 .. N PROVE F[i] = step(F[i + 1], i)
  <2>1. i \in 1 .. N + 1 /\ ~(i > N)
    OBVIOUS
  <2>. QED  BY <1>7, <2>1 DEF R
<1>. QED  BY <1>8, <1>9 DEF F, step

-----------------------------------------------------------------------------
(* Texts *)

LEMMA CharactersOK ==
  /\ \A t \in Pastes : t \in Seq(Characters)
  /\ {"\n", "\r"} \cap Marks = {} /\ "\n" \in Characters \ Marks /\ " " \in Characters \ Marks
  /\ {"[Pasted", " ", "/", "h", "s", "t", "p", "c", "r", "d", "q"} \subseteq Characters
  /\ Marks \subseteq Characters /\ Chars \subseteq Characters
<1>1. Marks = {"[Pasted", "#1]", "#2]", "#3]"}
  BY DEF Marks, Mark, ToSet
<1>2. \A t \in Pastes : t \in Seq(Characters)
  BY InputAssumption DEF Texts
<1>3. {"\n", "\r", " "} \cap Marks = {}
  BY <1>1
<1>. DEFINE others == UNION {ToSet(t) : t \in Pastes}
<1>. HIDE DEF others
<1>4. Characters = Chars \cup others \cup Marks \cup {" ", "\n"}
                     \cup {"/", "h", "s", "t", "p", "c", "r", "d", "q"}
  BY DEF Characters, others
<1>5. {"\n", "[Pasted", " ", "/", "h", "s", "t", "p", "c", "r", "d", "q"} \subseteq Characters
  BY <1>1, <1>4
<1>6. Marks \subseteq Characters /\ Chars \subseteq Characters
  BY <1>4
<1>. HIDE DEF Characters
<1>. QED  BY <1>2, <1>3, <1>5, <1>6

LEMMA CommandsOK ==
  /\ SLASH_COMMANDS \in Seq(Texts) /\ Len(SLASH_COMMANDS) \in Nat /\ Len(SLASH_COMMANDS) > 0
  /\ Len(Commands) \in Nat /\ Commands \in Seq(Texts)
<1>1. \A i \in 1 .. 7 : Commands[i] \in Texts
  <2>1. /\ <<"/", "h">> \in Texts /\ <<"/", "s", "t">> \in Texts /\ <<"/", "p">> \in Texts
        /\ <<"/", "c">> \in Texts /\ <<"/", "r">> \in Texts /\ <<"/", "d">> \in Texts
        /\ <<"/", "q">> \in Texts
    <3>1. {"/", "h", "s", "t", "p", "c", "r", "d", "q"} \subseteq Characters
      BY CharactersOK
    <3>. HIDE DEF Characters
    <3>. QED  BY <3>1 DEF Texts
  <2>. QED  BY <2>1 DEF Commands
<1>2. Len(Commands) = 7 /\ Commands \in Seq(Texts)
  BY <1>1 DEF Commands
<1>3. PICK k \in 1 .. 7 : Commands[k] \in Offered
  BY <1>2, InputAssumption DEF ToSet
<1>4. SLASH_COMMANDS \in Seq(Texts \cap Offered) /\ Len(SLASH_COMMANDS) > 0
  BY <1>2, <1>3, FilteredSeq DEF SLASH_COMMANDS
<1>. QED  BY <1>2, <1>4

LEMMA TrimType ==
  ASSUME NEW text \in Texts
  PROVE  Trim(text) \in Texts
<1>. DEFINE solid == Letters(text, 1, Len(text))
<1>1. CASE solid = {}
  BY <1>1 DEF Trim, Texts
<1>2. CASE solid # {}
  <2>1. solid \subseteq 1 .. Len(text) /\ 1 \in Int /\ Len(text) \in Int
    BY DEF Letters, Texts
  <2>. HIDE DEF solid
  <2>2. Min(solid) \in 1 .. Len(text) /\ Max(solid) \in 1 .. Len(text)
    BY <1>2, <2>1, MinOf, MaxOf
  <2>3. SubSeq(text, Min(solid), Max(solid)) \in Texts
    BY <2>1, <2>2 DEF Texts
  <2>. QED  BY <1>2, <2>3 DEF Trim, solid
<1>. QED  BY <1>1, <1>2

LEMMA MatchesOK ==
  ASSUME NEW prefix
  PROVE  /\ SlashMatches(prefix) \in Seq(Texts)
         /\ Len(SlashMatches(prefix)) \in 0 .. Len(SLASH_COMMANDS)
         /\ StartsWithSlash(prefix) => Len(SlashMatches(prefix)) > 0
<1>. DEFINE kept == {name \in ToSet(SLASH_COMMANDS) : IsPrefix(Trim(prefix), name)}
            matches == Filtered(SLASH_COMMANDS, kept)
<1>. HIDE DEF kept
<1>1. matches \in Seq(Texts \cap kept) /\ Len(matches) <= Len(SLASH_COMMANDS)
  BY CommandsOK, FilteredSeq
<1>2. matches \in Seq(Texts) /\ Len(matches) \in 0 .. Len(SLASH_COMMANDS)
  BY <1>1, CommandsOK
<1>3. SlashMatches(prefix) = IF ~StartsWithSlash(prefix) THEN <<>>
                             ELSE IF matches = <<>> THEN SLASH_COMMANDS ELSE matches
  BY DEF SlashMatches, kept
<1>. HIDE DEF matches
<1>4. CASE ~StartsWithSlash(prefix)
  BY <1>3, <1>4, CommandsOK
<1>5. CASE StartsWithSlash(prefix) /\ matches = <<>>
  BY <1>3, <1>5, CommandsOK
<1>6. CASE StartsWithSlash(prefix) /\ matches # <<>>
  BY <1>2, <1>3, <1>6, CommandsOK
<1>. QED  BY <1>4, <1>5, <1>6

LEMMA SelectedType ==
  HasSelected => Selected \in Texts
BY MatchesOK DEF HasSelected, Selected

-----------------------------------------------------------------------------
(* Where the cursor goes *)

LEMMA WordMoves ==
  ASSUME NEW text \in Texts, NEW offset \in 0 .. Len(text)
  PROVE  WordLeft(text, offset) \in 0 .. offset /\ WordRight(text, offset) \in 0 .. Len(text)
<1>0. PICK n \in Nat : n = Len(text)
  BY DEF Texts
<1>1. WordLeft(text, offset) \in 0 .. offset
  <2>. DEFINE word == Letters(text, 1, offset)
              gaps == Spaces(text, 1, Max(word))
  <2>1. word \subseteq 1 .. offset /\ 1 \in Int /\ offset \in Int
    BY <1>0 DEF Letters
  <2>2. CASE word # {} /\ gaps # {}
    <3>1. Max(word) \in 1 .. offset
      <4>. HIDE DEF word
      <4>. QED  BY <2>1, <2>2, MaxOf
    <3>2. gaps \subseteq 1 .. Max(word) /\ Max(word) \in Int
      BY <3>1 DEF Spaces
    <3>. HIDE DEF gaps
    <3>3. Max(gaps) \in 1 .. Max(word)
      BY <2>1, <2>2, <3>2, MaxOf
    <3>4. Max(gaps) \in 0 .. offset
      BY <3>1, <3>3
    <3>. QED  BY <2>2, <3>4 DEF WordLeft, gaps
  <2>3. CASE word = {} \/ gaps = {}
    BY <2>1, <2>3 DEF WordLeft
  <2>. QED  BY <2>2, <2>3
<1>2. WordRight(text, offset) \in 0 .. Len(text)
  <2>. DEFINE gaps == Spaces(text, offset + 1, Len(text))
              word == Letters(text, Min(gaps) + 1, Len(text))
  <2>1. gaps \subseteq 1 .. n /\ 1 \in Int /\ n \in Int
    BY <1>0 DEF Spaces
  <2>2. CASE word # {} /\ gaps # {}
    <3>1. Min(gaps) \in 1 .. n
      <4>. HIDE DEF gaps
      <4>. QED  BY <2>1, <2>2, MinOf
    <3>2. word \subseteq Min(gaps) + 1 .. n /\ Min(gaps) + 1 \in Int
      BY <1>0, <3>1 DEF Letters
    <3>. HIDE DEF word
    <3>3. Min(word) \in Min(gaps) + 1 .. n
      BY <2>1, <2>2, <3>2, MinOf
    <3>4. Min(word) - 1 \in 0 .. Len(text)
      BY <1>0, <3>1, <3>3
    <3>. QED  BY <2>2, <3>4 DEF WordRight, word
  <2>3. CASE gaps = {} \/ word = {}
    <3>1. Len(text) \in 0 .. Len(text)
      BY <1>0
    <3>. QED  BY <2>3, <3>1 DEF WordRight
  <2>. QED  BY <2>2, <2>3
<1>. QED  BY <1>1, <1>2

LEMMA LineEnds ==
  ASSUME NEW text \in Texts, NEW offset \in 0 .. Len(text)
  PROVE  LineStart(text, offset) \in 0 .. offset /\ LineEnd(text, offset) \in offset .. Len(text)
<1>0. PICK n \in Nat : n = Len(text)
  BY DEF Texts
<1>1. LineStart(text, offset) \in 0 .. offset
  <2>. DEFINE T == {0} \cup {i \in 1 .. offset : text[i] = "\n"}
  <2>1. T \subseteq 0 .. offset /\ T # {} /\ 0 \in Int /\ offset \in Int
    BY <1>0
  <2>. HIDE DEF T
  <2>2. Max(T) \in 0 .. offset
    BY <2>1, MaxOf
  <2>. QED  BY <2>2 DEF LineStart, T
<1>2. LineEnd(text, offset) \in offset .. Len(text)
  <2>. DEFINE J == {j \in offset + 1 .. Len(text) : text[j] = "\n"}
              T == {Len(text)} \cup {i - 1 : i \in J}
  <2>1. T \subseteq offset .. n /\ T # {} /\ offset \in Int /\ n \in Int
    BY <1>0
  <2>. HIDE DEF T
  <2>2. Min(T) \in offset .. n
    BY <2>1, MinOf
  <2>3. LineEnd(text, offset) = Min(T)
    BY DEF LineEnd, T
  <2>. QED  BY <1>0, <2>2, <2>3
<1>. QED  BY <1>1, <1>2

LEMMA LineMoves ==
  ASSUME NEW text \in Texts, NEW offset \in 0 .. Len(text)
  PROVE  LineUp(text, offset) \in 0 .. Len(text) /\ LineDown(text, offset) \in 0 .. Len(text)
<1>0. PICK n \in Nat : n = Len(text)
  BY DEF Texts
<1>1. LineUp(text, offset) \in 0 .. Len(text)
  <2>1. PICK start \in 0 .. offset : start = LineStart(text, offset)
    BY LineEnds
  <2>2. CASE start = 0
    BY <2>1, <2>2 DEF LineUp
  <2>3. CASE start # 0
    <3>1. start - 1 \in 0 .. Len(text)
      BY <1>0, <2>3
    <3>2. PICK above \in 0 .. start - 1 : above = LineStart(text, start - 1)
      BY <3>1, LineEnds
    <3>3. LineUp(text, offset) = Min({above + (offset - start), start - 1})
      BY <2>1, <2>3, <3>2 DEF LineUp, AtColumn
    <3>4. PICK x \in 0 .. n : x = above + (offset - start)
      BY <1>0, <2>3
    <3>5. PICK y \in 0 .. n : y = start - 1
      BY <1>0, <2>3
    <3>6. Min({x, y}) \in 0 .. n
      <4>1. x \in Int /\ y \in Int
        OBVIOUS
      <4>2. Min({x, y}) = IF x <= y THEN x ELSE y
        BY <4>1, OfTwo, Zenon
      <4>. QED  BY <4>2
    <3>. QED  BY <1>0, <3>3, <3>4, <3>5, <3>6
  <2>. QED  BY <2>2, <2>3
<1>2. LineDown(text, offset) \in 0 .. Len(text)
  <2>1. PICK end \in offset .. n : end = LineEnd(text, offset)
    BY <1>0, LineEnds
  <2>2. PICK start \in 0 .. offset : start = LineStart(text, offset)
    BY LineEnds
  <2>3. CASE end >= n
    BY <1>0, <2>1, <2>3 DEF LineDown
  <2>4. CASE end < n
    <3>1. end + 1 \in 0 .. Len(text)
      BY <1>0, <2>4
    <3>2. PICK below \in end + 1 .. n : below = LineEnd(text, end + 1)
      BY <1>0, <3>1, LineEnds
    <3>3. LineDown(text, offset) = Min({end + 1 + (offset - start), below})
      BY <1>0, <2>1, <2>2, <2>4, <3>2 DEF LineDown, AtColumn
    <3>4. PICK x \in Nat : x = end + 1 + (offset - start)
      BY <1>0
    <3>5. below \in 0 .. n
      BY <1>0, <3>2
    <3>6. Min({x, below}) \in 0 .. n
      <4>1. x \in Int /\ below \in Int
        BY <3>5
      <4>2. Min({x, below}) = IF x <= below THEN x ELSE below
        BY <4>1, OfTwo, Zenon
      <4>. QED  BY <3>5, <4>2
    <3>. QED  BY <1>0, <3>3, <3>4, <3>6
  <2>. QED  BY <1>0, <2>3, <2>4
<1>. QED  BY <1>1, <1>2

-----------------------------------------------------------------------------
(* Pastes *)

LEMMA ReplacedType ==
  ASSUME NEW S, NEW text \in Seq(S), NEW new \in Seq(S), NEW old, Len(old) \in Nat \ {0}
  PROVE  Replaced(text, old, new) \in Seq(S)
<1>1. RestsReplaced(text, old, new) \in [1 .. Len(text) + 1 -> Seq(S)]
  BY RestsReplacedDef
<1>2. 1 \in 1 .. Len(text) + 1
  OBVIOUS
<1>. QED  BY <1>1, <1>2 DEF Replaced

\* A name for the provers, which have no strings with spaces.
Blank == " "

\* What a reference may stand for: any text but a mere space.
Pastable == {t \in Seq(Characters) : t # <<>> /\ t # <<Blank>>}

LEMMA NormalizedType ==
  ASSUME NEW t \in Pastes
  PROVE  /\ Normalized(t) \in Seq(Characters)
         /\ ShouldCollapse(Normalized(t)) => Normalized(t) \in Pastable
<1>1. /\ t \in Seq(Characters) /\ <<"\n">> \in Seq(Characters)
      /\ Len(<<"\r", "\n">>) \in Nat \ {0} /\ Len(<<"\r">>) \in Nat \ {0}
  <2>1. "\n" \in Characters /\ t \in Seq(Characters)
    BY CharactersOK
  <2>. QED  BY <2>1
<1>2. Replaced(t, <<"\r", "\n">>, <<"\n">>) \in Seq(Characters)
  BY <1>1, ReplacedType
<1>3. Normalized(t) \in Seq(Characters)
  BY <1>1, <1>2, ReplacedType DEF Normalized
<1>4. ASSUME NEW n \in Seq(Characters), ShouldCollapse(n) PROVE n # <<>> /\ n # <<Blank>>
  <2>1. CASE Len(n) > CollapseLimit
    <3>1. CollapseLimit \in Nat /\ CollapseLimit > 0
      BY InputAssumption
    <3>2. Len(<<>>) = 0 /\ Len(<<Blank>>) = 1
      OBVIOUS
    <3>3. Len(n) # 0 /\ Len(n) # 1
      <4>1. PICK k \in Nat : k = Len(n)
        OBVIOUS
      <4>2. k > CollapseLimit
        BY <2>1, <4>1
      <4>3. k # 0 /\ k # 1
        BY <3>1, <4>2
      <4>. QED  BY <4>1, <4>3
    <3>4. ASSUME n = <<>> PROVE FALSE
      BY <3>2, <3>3, <3>4, Zenon
    <3>5. ASSUME n = <<Blank>> PROVE FALSE
      BY <3>2, <3>3, <3>5, Zenon
    <3>. QED  BY <3>4, <3>5
  <2>2. CASE Contains(n, "\n")
    <3>1. PICK i \in 1 .. Len(n) : n[i] = "\n"
      BY <2>2 DEF Contains
    <3>2. ASSUME n = <<>> PROVE FALSE
      <4>1. Len(n) = 0
        BY <3>2
      <4>. QED  BY <4>1
    <3>3. ASSUME n = <<Blank>> PROVE FALSE
      <4>1. Len(n) = 1
        BY <3>3
      <4>2. i = 1
        BY <4>1
      <4>3. n[1] = Blank
        BY <3>3
      <4>4. Blank # "\n"
        BY Zenon DEF Blank
      <4>. QED  BY <3>1, <4>2, <4>3, <4>4
    <3>. QED  BY <3>2, <3>3
  <2>. QED  BY <1>4, <2>1, <2>2 DEF ShouldCollapse
<1>. QED  BY <1>3, <1>4 DEF Pastable

References == {Placeholder(id) : id \in 1 .. 3}

LEMMA ThreeOf ==
  ASSUME NEW S, NEW a \in S, NEW b \in S, NEW c \in S
  PROVE  <<a, b, c>> \in Seq(S) /\ Len(<<a, b, c>>) = 3
OBVIOUS

LEMMA PlaceholderType ==
  ASSUME NEW id \in 1 .. 3
  PROVE  /\ Placeholder(id) \in Seq(Marks \cup {" "}) /\ Len(Placeholder(id)) = 3
         /\ Placeholder(id) \in Texts
<1>1. Mark[id] \in Marks /\ "[Pasted" \in Marks
  BY DEF Mark, Marks, ToSet
<1>2. Mark[id] \in Characters /\ "[Pasted" \in Characters /\ " " \in Characters
  BY <1>1, CharactersOK
<1>3. /\ Mark[id] \in Marks \cup {" "} /\ "[Pasted" \in Marks \cup {" "}
      /\ " " \in Marks \cup {" "}
  <2>. HIDE DEF Mark, Marks
  <2>. QED  BY <1>1
<1>. HIDE DEF Mark, Marks, Characters
<1>4. Placeholder(id) \in Seq(Marks \cup {" "}) /\ Len(Placeholder(id)) = 3
  BY <1>3, ThreeOf, Zenon DEF Placeholder
<1>5. Placeholder(id) \in Seq(Characters)
  BY <1>2, ThreeOf, Zenon DEF Placeholder
<1>. QED  BY <1>4, <1>5 DEF Texts

Block == [id : 1 .. 3, text : Pastable, placeholder : References]

LEMMA BlockType ==
  ASSUME NEW b \in Block
  PROVE  b.text \in Texts /\ Len(b.placeholder) = 3
<1>1. b.text \in Seq(Characters) /\ b.placeholder \in References
  BY DEF Block, Pastable
<1>2. b.text \in Texts
  BY <1>1 DEF Texts
<1>. QED  BY <1>1, <1>2, PlaceholderType DEF References

LEMMA ExpandedType ==
  ASSUME NEW text \in Texts, NEW blocks \in Seq(Block)
  PROVE  ExpandPastedBlocks(text, blocks) \in Texts
<1>. DEFINE N == Len(blocks)
            F == Expansions(text, blocks)
            G == {i \in 1 .. N + 1 : F[i] \in Texts}
<1>0. N \in Nat
  OBVIOUS
<1>1. /\ F[N + 1] = text
      /\ \A i \in 1 .. N : F[i] = Replaced(F[i + 1], blocks[i].placeholder, blocks[i].text)
  BY <1>0, ExpansionsDef
<1>2. ASSUME NEW i \in 1 .. N, F[i + 1] \in Texts PROVE F[i] \in Texts
  <2>1. blocks[i].text \in Seq(Characters) /\ Len(blocks[i].placeholder) \in Nat \ {0}
    <3>1. blocks[i] \in Block
      OBVIOUS
    <3>2. blocks[i].text \in Texts /\ Len(blocks[i].placeholder) = 3
      BY <3>1, BlockType
    <3>. QED  BY <3>2 DEF Texts
  <2>. HIDE DEF F
  <2>2. Replaced(F[i + 1], blocks[i].placeholder, blocks[i].text) \in Seq(Characters)
    BY <1>2, <2>1, ReplacedType DEF Texts
  <2>. QED  BY <1>1, <2>2 DEF Texts
<1>. HIDE DEF F
<1>3. N + 1 \in G
  BY <1>0, <1>1
<1>4. ASSUME NEW i \in 1 .. N, \A j \in i + 1 .. N + 1 : j \in G PROVE i \in G
  <2>1. i + 1 \in i + 1 .. N + 1 /\ i \in 1 .. N + 1
    BY <1>0
  <2>. QED  BY <1>2, <1>4, <2>1
<1>. HIDE DEF G, N
<1>5. 1 \in G
  <2>1. 1 \in 1 .. N + 1
    BY <1>0
  <2>. QED  BY <1>0, <1>3, <1>4, <2>1, Backwards
<1>. QED  BY <1>5 DEF G, F, ExpandPastedBlocks

-----------------------------------------------------------------------------
(* The inductive invariant *)

LineOK ==
  /\ buffer \in Texts /\ cursor_offset \in 0 .. Len(buffer)
  /\ slash_selection \in 0 .. Len(SLASH_COMMANDS) - 1
  /\ edits \in 0 .. MaxEdits

HistoryOK ==
  /\ history \in Seq(Texts) /\ Len(history) <= MaxHistory
  /\ history_index \in 0 .. Len(history)
  /\ draft_buffer \in Texts /\ walkedFrom \in Texts

PastesOK ==
  /\ next_paste_id \in 1 .. 4 /\ pasted \in Seq(Pastable) /\ Len(pasted) = next_paste_id - 1
  /\ firstOfLine \in 1 .. next_paste_id
  /\ pasted_blocks \in Seq(Block)
  /\ \A b \in ToSet(pasted_blocks) :
       /\ b.id \in firstOfLine .. next_paste_id - 1
       /\ b.text = pasted[b.id] /\ b.placeholder = Placeholder(b.id)

SubmittedOK == submitted.display \in Texts /\ submitted.send \in Texts

ScreenOK == {transcript_scroll_mode, exit_prompted, running} \subseteq BOOLEAN

\* While the user walks through the history the draft is the line he began with.
DraftOK == history_index # 0 => draft_buffer = walkedFrom

IInv ==
  /\ LineOK
  /\ HistoryOK
  /\ PastesOK
  /\ SubmittedOK
  /\ ScreenOK
  /\ DraftOK

LEMMA EmptyText == <<>> \in Texts
BY DEF Texts

LEMMA InitOK == Init => IInv
<1>. SUFFICES ASSUME Init PROVE IInv
  OBVIOUS
<1>1. LineOK
  <2>1. MaxEdits \in Nat
    BY InputAssumption
  <2>2. Len(buffer) = 0
    BY DEF Init
  <2>. QED  BY <2>1, <2>2, EmptyText, CommandsOK DEF Init, LineOK
<1>2. HistoryOK
  <2>1. history \in Seq(Texts) /\ Len(history) <= MaxHistory
    BY InputAssumption DEF Init
  <2>. QED  BY <2>1, EmptyText DEF Init, HistoryOK
<1>3. PastesOK
  BY DEF Init, PastesOK, ToSet
<1>4. SubmittedOK
  BY EmptyText DEF Init, NotSubmitted, SubmittedOK
<1>5. ScreenOK
  BY DEF Init, ScreenOK
<1>6. DraftOK
  BY DEF Init, DraftOK
<1>. QED  BY <1>1, <1>2, <1>3, <1>4, <1>5, <1>6 DEF IInv

-----------------------------------------------------------------------------
(* What the actions have in common *)

LEMMA EditedOK ==
  ASSUME LineOK, HistoryOK, NEW text \in Texts, NEW offset \in 0 .. Len(text),
         Edited(text, offset), edits' \in 0 .. MaxEdits
  PROVE  LineOK' /\ DraftOK' /\ (UNCHANGED history => HistoryOK')
BY EmptyText, CommandsOK DEF Edited, LineOK, HistoryOK, DraftOK

LEMMA BoundedOK ==
  ASSUME LineOK, Bounded
  PROVE  edits' \in 0 .. MaxEdits
BY InputAssumption DEF LineOK, Bounded

LEMMA RedrawOK ==
  ASSUME ScreenOK, Redraw
  PROVE  SubmittedOK' /\ ScreenOK'
<1>1. SubmittedOK'
  BY EmptyText DEF Redraw, SubmittedOK, NotSubmitted
<1>2. ScreenOK'
  BY DEF Redraw, ScreenOK
<1>. QED  BY <1>1, <1>2

LEMMA PastesKept ==
  ASSUME PastesOK, UNCHANGED pasteVars, UNCHANGED firstOfLine
  PROVE  PastesOK'
BY DEF PastesOK, pasteVars

LEMMA HistoryKept ==
  ASSUME HistoryOK, DraftOK, UNCHANGED <<history, history_index, draft_buffer, walkedFrom>>
  PROVE  HistoryOK' /\ DraftOK'
BY DEF HistoryOK, DraftOK

LEMMA MovedOK ==
  ASSUME LineOK, HistoryOK, DraftOK, NEW offset \in 0 .. Len(buffer), Moved(offset),
         UNCHANGED <<history, edits>>
  PROVE  LineOK' /\ HistoryOK' /\ DraftOK'
<1>1. LineOK'
  BY DEF LineOK, Moved
<1>2. HistoryOK' /\ DraftOK'
  BY HistoryKept DEF Moved
<1>. QED  BY <1>1, <1>2

\* The line with what is before the cursor kept up to start, and a text put in.
LEMMA SplicedLine ==
  ASSUME LineOK, NEW start \in 0 .. cursor_offset, NEW text \in Texts
  PROVE  /\ SubSeq(buffer, 1, start) \o text \o After \in Texts
         /\ SubSeq(buffer, 1, start) \o After \in Texts
         /\ start + Len(text) \in 0 .. Len(SubSeq(buffer, 1, start) \o text \o After)
         /\ start \in 0 .. Len(SubSeq(buffer, 1, start) \o After)
<1>0. PICK n \in Nat : n = Len(buffer)
  BY DEF LineOK, Texts
<1>1. PICK c \in 0 .. n : c = cursor_offset /\ start \in 0 .. c
  BY <1>0 DEF LineOK
<1>2. SubSeq(buffer, 1, start) \in Seq(Characters) /\ Len(SubSeq(buffer, 1, start)) = start
  BY <1>0, <1>1 DEF LineOK, Texts
<1>3. After \in Seq(Characters) /\ Len(After) \in Nat
  BY <1>0, <1>1 DEF LineOK, Texts, After
<1>4. text \in Seq(Characters) /\ Len(text) \in Nat
  BY DEF Texts
<1>. DEFINE head == SubSeq(buffer, 1, start)
<1>. HIDE DEF head
<1>5. /\ head \o text \o After \in Seq(Characters) /\ head \o After \in Seq(Characters)
      /\ Len(head \o text \o After) = start + Len(text) + Len(After)
      /\ Len(head \o After) = start + Len(After)
  BY <1>2, <1>3, <1>4 DEF head
<1>6. PICK a \in Nat, t \in Nat : a = Len(After) /\ t = Len(text)
  BY <1>3, <1>4
<1>7. start + t \in 0 .. start + t + a /\ start \in 0 .. start + a
  BY <1>1
<1>. QED  BY <1>5, <1>6, <1>7 DEF Texts, head

LEMMA InsertOK ==
  ASSUME LineOK, HistoryOK, NEW text \in Texts, Insert(text)
  PROVE  LineOK' /\ DraftOK' /\ (UNCHANGED history => HistoryOK')
<1>1. cursor_offset \in 0 .. cursor_offset
  BY DEF LineOK, Texts
<1>2. /\ Before \o text \o After \in Texts
      /\ cursor_offset + Len(text) \in 0 .. Len(Before \o text \o After)
  BY <1>1, SplicedLine DEF Before
<1>. QED  BY <1>2, EditedOK, BoundedOK DEF Insert

LEMMA FewerBlocks ==
  ASSUME PastesOK, pasted_blocks' \in Seq(Block), ToSet(pasted_blocks') \subseteq ToSet(pasted_blocks),
         UNCHANGED <<next_paste_id, pasted, firstOfLine>>
  PROVE  PastesOK'
BY DEF PastesOK

-----------------------------------------------------------------------------
(* The actions *)

LEMMA TypeStep ==
  ASSUME IInv, NEW c \in Chars \cup {"\n"}, Type(c)
  PROVE  IInv'
<1>1. <<c>> \in Texts
  <2>1. c \in Characters
    BY CharactersOK
  <2>. QED  BY <2>1 DEF Texts
<1>2. LineOK' /\ DraftOK' /\ HistoryOK'
  BY <1>1, InsertOK DEF IInv, Type, lineVars
<1>3. SubmittedOK' /\ ScreenOK'
  BY RedrawOK DEF IInv, Type
<1>4. PastesOK'
  BY PastesKept DEF IInv, Type, lineVars
<1>. QED  BY <1>2, <1>3, <1>4 DEF IInv

LEMMA PasteStep ==
  ASSUME IInv, NEW t \in Pastes, Paste(t)
  PROVE  IInv'
<1>. DEFINE n == Normalized(t)
<1>1. n \in Seq(Characters) /\ (ShouldCollapse(n) => n \in Pastable)
  BY NormalizedType
<1>2. n \in Texts
  BY <1>1 DEF Texts
<1>3. SubmittedOK' /\ ScreenOK'
  BY RedrawOK DEF IInv, Paste
<1>4. UNCHANGED history /\ UNCHANGED firstOfLine
  BY DEF Paste, lineVars
<1>. HIDE DEF n
<1>5. CASE ShouldCollapse(n)
  <2>1. /\ next_paste_id <= 3
        /\ Insert(Placeholder(next_paste_id))
        /\ pasted_blocks' = Append(pasted_blocks, [id |-> next_paste_id, text |-> n,
                                                   placeholder |-> Placeholder(next_paste_id)])
        /\ next_paste_id' = next_paste_id + 1
        /\ pasted' = Append(pasted, n)
    BY <1>5 DEF Paste, n, Mark
  <2>2. next_paste_id \in 1 .. 3
    BY <2>1 DEF IInv, PastesOK
  <2>3. LineOK' /\ DraftOK' /\ HistoryOK'
    BY <1>4, <2>1, <2>2, PlaceholderType, InsertOK DEF IInv
  <2>. DEFINE b == [id |-> next_paste_id, text |-> n, placeholder |-> Placeholder(next_paste_id)]
  <2>4. b \in Block /\ b.id = next_paste_id /\ b.text = n /\ b.placeholder = Placeholder(next_paste_id)
    BY <1>1, <1>5, <2>2 DEF Block, References
  <2>5. PICK k \in 1 .. 3 : k = next_paste_id
    BY <2>2
  <2>6. pasted' \in Seq(Pastable) /\ Len(pasted') = k /\ pasted'[k] = n
        /\ \A i \in 1 .. k - 1 : pasted'[i] = pasted[i]
    BY <1>1, <1>5, <2>1, <2>5 DEF IInv, PastesOK
  <2>. HIDE DEF b
  <2>7. pasted_blocks' = Append(pasted_blocks, b) /\ pasted_blocks \in Seq(Block)
    BY <2>1 DEF b, IInv, PastesOK
  <2>8. pasted_blocks' \in Seq(Block) /\ ToSet(pasted_blocks') = ToSet(pasted_blocks) \cup {b}
    BY <2>4, <2>7 DEF ToSet
  <2>9. firstOfLine \in 1 .. k
    BY <2>5 DEF IInv, PastesOK
  <2>10. ASSUME NEW x \in ToSet(pasted_blocks')
         PROVE  /\ x.id \in firstOfLine' .. next_paste_id' - 1
                /\ x.text = pasted'[x.id] /\ x.placeholder = Placeholder(x.id)
    <3>1. CASE x = b
      BY <1>4, <2>1, <2>4, <2>5, <2>6, <2>9, <3>1
    <3>2. CASE x \in ToSet(pasted_blocks)
      <4>1. /\ x.id \in firstOfLine .. k - 1
            /\ x.text = pasted[x.id] /\ x.placeholder = Placeholder(x.id)
        BY <2>5, <3>2 DEF IInv, PastesOK
      <4>2. x.id \in 1 .. k - 1
        BY <2>9, <4>1
      <4>. QED  BY <1>4, <2>1, <2>5, <2>6, <2>9, <4>1, <4>2
    <3>. QED  BY <2>8, <3>1, <3>2
  <2>11. PastesOK'
    BY <1>4, <2>1, <2>5, <2>6, <2>8, <2>9, <2>10 DEF PastesOK
  <2>. QED  BY <1>3, <2>3, <2>11 DEF IInv
<1>6. CASE ~ShouldCollapse(n)
  <2>1. Insert(n) /\ UNCHANGED pasteVars
    BY <1>6 DEF Paste, n
  <2>2. LineOK' /\ DraftOK' /\ HistoryOK'
    BY <1>2, <1>4, <2>1, InsertOK DEF IInv
  <2>3. PastesOK'
    BY <1>4, <2>1, PastesKept DEF IInv
  <2>. QED  BY <1>3, <2>2, <2>3 DEF IInv
<1>. QED  BY <1>5, <1>6

\* Enter and Tab in the palette.
LEMMA CompletedOK ==
  ASSUME IInv, HasSelected, Completed, slash_selection' \in {0, slash_selection}
  PROVE  IInv'
<1>1. Selected \in Texts /\ Len(Selected) \in 0 .. Len(Selected)
  BY SelectedType DEF Texts
<1>2. LineOK'
  <2>1. buffer' \in Texts /\ cursor_offset' \in 0 .. Len(buffer')
    BY <1>1 DEF Completed
  <2>2. edits' \in 0 .. MaxEdits
    BY BoundedOK DEF Completed, IInv
  <2>3. slash_selection' \in 0 .. Len(SLASH_COMMANDS) - 1
    BY CommandsOK DEF IInv, LineOK
  <2>. QED  BY <2>1, <2>2, <2>3 DEF LineOK
<1>3. HistoryOK' /\ DraftOK'
  BY HistoryKept DEF IInv, Completed, lineVars
<1>4. SubmittedOK' /\ ScreenOK'
  BY RedrawOK DEF IInv, Completed
<1>5. PastesOK'
  BY PastesKept DEF IInv, Completed, lineVars
<1>. QED  BY <1>2, <1>3, <1>4, <1>5 DEF IInv

LEMMA EnterCompletesStep ==
  ASSUME IInv, EnterCompletes
  PROVE  IInv'
BY CompletedOK DEF EnterCompletes, CompletesOnEnter

LEMMA TabStep ==
  ASSUME IInv, Tab
  PROVE  IInv'
BY CompletedOK DEF Tab

LEMMA EnterTakesStep ==
  ASSUME IInv, EnterTakes
  PROVE  IInv'
<1>. DEFINE display == Trim(buffer)
            send == ExpandPastedBlocks(display, pasted_blocks)
<1>1. display \in Texts /\ send \in Texts
  BY TrimType, ExpandedType DEF IInv, LineOK, PastesOK
<1>. HIDE DEF display, send
<1>2. Edited(<<>>, 0) /\ 0 \in 0 .. Len(<<>>) /\ edits' \in 0 .. MaxEdits
  BY DEF EnterTakes, IInv, LineOK
<1>3. LineOK' /\ DraftOK' /\ (UNCHANGED history => HistoryOK')
  BY <1>2, EmptyText, EditedOK DEF IInv
<1>4. PastesOK'
  BY DEF IInv, PastesOK, EnterTakes, ToSet
<1>5. CASE Trim(send) = <<>>
  <2>1. submitted' = NotSubmitted /\ UNCHANGED <<history, running>>
    BY <1>5 DEF EnterTakes, display, send
  <2>2. SubmittedOK'
    BY <2>1, EmptyText DEF SubmittedOK, NotSubmitted
  <2>3. ScreenOK'
    BY <2>1 DEF EnterTakes, IInv, ScreenOK
  <2>. QED  BY <1>3, <1>4, <2>1, <2>2, <2>3 DEF IInv
<1>6. CASE Trim(send) # <<>>
  <2>1. /\ history' = Remembered(display) /\ Len(history') <= MaxHistory
        /\ submitted' = [display |-> display, send |-> send]
        /\ running' = (display \notin {Quit, Disconnect})
    BY <1>6 DEF EnterTakes, display, send
  <2>2. SubmittedOK'
    BY <1>1, <2>1 DEF SubmittedOK
  <2>3. ScreenOK'
    BY <2>1 DEF EnterTakes, IInv, ScreenOK
  <2>4. history' \in Seq(Texts)
    BY <1>1, <2>1 DEF Remembered, IInv, HistoryOK
  <2>5. HistoryOK'
    BY <1>2, <2>1, <2>4, EmptyText DEF HistoryOK, Edited
  <2>. QED  BY <1>3, <1>4, <2>2, <2>3, <2>5 DEF IInv
<1>. QED  BY <1>5, <1>6

LEMMA BackspaceBlockStep ==
  ASSUME IInv, BackspaceBlock
  PROVE  IInv'
<1>1. PICK i \in DOMAIN pasted_blocks :
        /\ EndsWithBlock(i)
        /\ LET start == cursor_offset - Len(pasted_blocks[i].placeholder) IN
           Edited(SubSeq(buffer, 1, start) \o After, start)
        /\ pasted_blocks' = RemoveAt(pasted_blocks, i)
  BY DEF BackspaceBlock
<1>2. pasted_blocks \in Seq(Block) /\ pasted_blocks[i] \in Block
  BY DEF IInv, PastesOK
<1>3. PICK old : old = pasted_blocks[i].placeholder
  OBVIOUS
<1>4. Len(old) = 3
  BY <1>2, <1>3, BlockType
<1>5. cursor_offset - 3 \in 0 .. cursor_offset
  <2>1. PICK k \in Nat : k = cursor_offset /\ k <= Len(buffer) /\ buffer \in Seq(Characters)
    BY DEF IInv, LineOK, Texts
  <2>2. Len(Before) = k /\ Before \in Seq(Characters)
    BY <2>1 DEF Before
  <2>3. Len(Reverse(old)) <= Len(Reverse(Before))
    BY <1>1, <1>3 DEF EndsWithBlock, IsSuffix, IsPrefix
  <2>4. Len(Reverse(old)) = 3 /\ Len(Reverse(Before)) = k
    BY <1>4, <2>2 DEF Reverse
  <2>. QED  BY <2>1, <2>3, <2>4
<1>6. Edited(SubSeq(buffer, 1, cursor_offset - 3) \o After, cursor_offset - 3)
  BY <1>1, <1>3, <1>4
<1>7. UNCHANGED <<history, firstOfLine, next_paste_id, pasted>> /\ edits' \in 0 .. MaxEdits
  BY BoundedOK DEF BackspaceBlock, lineVars, IInv
<1>8. LineOK' /\ DraftOK' /\ HistoryOK'
  BY <1>5, <1>6, <1>7, EmptyText, SplicedLine, EditedOK DEF IInv
<1>9. pasted_blocks' \in Seq(Block) /\ ToSet(pasted_blocks') \subseteq ToSet(pasted_blocks)
  <2>1. PICK n \in Nat : n = Len(pasted_blocks) /\ i \in 1 .. n
    BY <1>2
  <2>. DEFINE left == SubSeq(pasted_blocks, 1, i - 1)
              right == SubSeq(pasted_blocks, i + 1, Len(pasted_blocks))
  <2>2. left \in Seq(Block) /\ Len(left) = i - 1 /\ \A j \in 1 .. i - 1 : left[j] = pasted_blocks[j]
    BY <1>2, <2>1
  <2>3. right \in Seq(Block) /\ Len(right) = n - i
        /\ \A j \in 1 .. n - i : right[j] = pasted_blocks[i + j]
    BY <1>2, <2>1
  <2>4. pasted_blocks' = left \o right
    BY <1>1 DEF RemoveAt
  <2>. HIDE DEF left, right
  <2>5. ASSUME NEW j \in 1 .. Len(left \o right) PROVE (left \o right)[j] \in ToSet(pasted_blocks)
    <3>1. j \in 1 .. n - 1
      BY <2>1, <2>2, <2>3
    <3>2. CASE j \in 1 .. i - 1
      <4>1. (left \o right)[j] = pasted_blocks[j] /\ j \in DOMAIN pasted_blocks
        BY <1>2, <2>1, <2>2, <2>3, <3>2
      <4>. QED  BY <4>1 DEF ToSet
    <3>3. CASE j \in i .. n - 1
      <4>1. j - (i - 1) \in 1 .. n - i /\ i + (j - (i - 1)) = j + 1
        BY <2>1, <3>3
      <4>2. (left \o right)[j] = right[j - (i - 1)]
        <5>1. j \in 1 .. Len(left) + Len(right) /\ ~(j <= Len(left)) /\ j - Len(left) = j - (i - 1)
          BY <2>1, <2>2, <2>3, <3>3
        <5>. QED  BY <5>1, <2>2, <2>3
      <4>3. (left \o right)[j] = pasted_blocks[j + 1] /\ j + 1 \in DOMAIN pasted_blocks
        BY <1>2, <2>1, <2>3, <3>3, <4>1, <4>2
      <4>. QED  BY <4>3 DEF ToSet
    <3>. QED  BY <2>1, <3>1, <3>2, <3>3
  <2>6. left \o right \in Seq(Block)
    BY <2>2, <2>3
  <2>. QED  BY <2>4, <2>5, <2>6 DEF ToSet
<1>10. PastesOK'
  BY <1>7, <1>9, FewerBlocks DEF IInv
<1>11. SubmittedOK' /\ ScreenOK'
  BY RedrawOK DEF IInv, BackspaceBlock
<1>. QED  BY <1>8, <1>10, <1>11 DEF IInv

LEMMA DeleteToStep ==
  ASSUME IInv, NEW start \in 0 .. cursor_offset, DeleteTo(start)
  PROVE  IInv'
<1>1. UNCHANGED <<history, firstOfLine, next_paste_id, pasted>> /\ edits' \in 0 .. MaxEdits
  BY BoundedOK DEF DeleteTo, lineVars, IInv
<1>2. LineOK' /\ DraftOK' /\ HistoryOK'
  BY <1>1, EmptyText, SplicedLine, EditedOK DEF IInv, DeleteTo
<1>3. SubmittedOK' /\ ScreenOK'
  BY RedrawOK DEF IInv, DeleteTo
<1>4. PastesOK'
  <2>1. CASE cursor_offset = 0
    BY <1>1, <2>1, FewerBlocks DEF IInv, PastesOK, DeleteTo
  <2>2. CASE cursor_offset # 0
    <3>. DEFINE kept == {b \in ToSet(pasted_blocks) : Occurs(b.placeholder, buffer')}
                T == Block \cap ToSet(pasted_blocks)
    <3>1. pasted_blocks' = Filtered(pasted_blocks, kept)
      BY <2>2 DEF DeleteTo
    <3>. HIDE DEF kept
    <3>2. pasted_blocks \in Seq(T)
      BY DEF IInv, PastesOK, ToSet
    <3>3. pasted_blocks' \in Seq(T \cap kept)
      BY <3>1, <3>2, FilteredSeq
    <3>4. pasted_blocks' \in Seq(Block) /\ ToSet(pasted_blocks') \subseteq ToSet(pasted_blocks)
      BY <3>3 DEF ToSet
    <3>. QED  BY <1>1, <3>4, FewerBlocks DEF IInv
  <2>. QED  BY <2>1, <2>2
<1>. QED  BY <1>2, <1>3, <1>4 DEF IInv

LEMMA MovedStep ==
  ASSUME IInv, NEW offset \in 0 .. Len(buffer), Moved(offset), Redraw,
         UNCHANGED <<pasteVars, lineVars, edits>>
  PROVE  IInv'
<1>1. LineOK' /\ HistoryOK' /\ DraftOK'
  BY MovedOK DEF IInv, lineVars
<1>2. SubmittedOK' /\ ScreenOK'
  BY RedrawOK DEF IInv
<1>3. PastesOK'
  BY PastesKept DEF IInv, lineVars
<1>. QED  BY <1>1, <1>2, <1>3 DEF IInv

LEMMA BackspaceStep ==
  ASSUME IInv, Backspace \/ WordBackspace
  PROVE  IInv'
<1>0. PICK c \in Nat : c = cursor_offset /\ c \in 0 .. Len(buffer) /\ buffer \in Texts
  BY DEF IInv, LineOK, Texts
<1>1. CASE Backspace
  <2>1. 0 \in Int /\ c - 1 \in Int
    OBVIOUS
  <2>2. Max({0, c - 1}) = IF 0 >= c - 1 THEN 0 ELSE c - 1
    BY <2>1, OfTwo, Zenon
  <2>3. Max({0, c - 1}) \in 0 .. c
    BY <2>2
  <2>. QED  BY <1>0, <1>1, <2>3, DeleteToStep DEF Backspace
<1>2. CASE WordBackspace
  <2>1. WordLeft(buffer, cursor_offset) \in 0 .. cursor_offset
    BY <1>0, WordMoves
  <2>. QED  BY <1>2, <2>1, DeleteToStep DEF WordBackspace
<1>. QED  BY <1>1, <1>2

LEMMA MoveStep ==
  ASSUME IInv, Move
  PROVE  IInv'
<1>0. PICK c \in Nat, n \in Nat : c = cursor_offset /\ n = Len(buffer) /\ c <= n /\ buffer \in Texts
  BY DEF IInv, LineOK, Texts
<1>1. PICK offset : /\ Moved(offset)
                    /\ offset \in {Max({0, cursor_offset - 1}), Min({Len(buffer), cursor_offset + 1}),
                                   WordLeft(buffer, cursor_offset), WordRight(buffer, cursor_offset)}
  BY DEF Move
<1>2. Max({0, c - 1}) \in 0 .. n
  <2>1. 0 \in Int /\ c - 1 \in Int
    OBVIOUS
  <2>2. Max({0, c - 1}) = IF 0 >= c - 1 THEN 0 ELSE c - 1
    BY <2>1, OfTwo, Zenon
  <2>. QED  BY <1>0, <2>2
<1>3. Min({n, c + 1}) \in 0 .. n
  <2>1. n \in Int /\ c + 1 \in Int
    OBVIOUS
  <2>2. Min({n, c + 1}) = IF n <= c + 1 THEN n ELSE c + 1
    BY <2>1, OfTwo, Zenon
  <2>. QED  BY <1>0, <2>2
<1>4. WordLeft(buffer, cursor_offset) \in 0 .. n /\ WordRight(buffer, cursor_offset) \in 0 .. n
  BY <1>0, WordMoves
<1>5. offset \in 0 .. Len(buffer)
  BY <1>0, <1>1, <1>2, <1>3, <1>4
<1>. QED  BY <1>1, <1>5, MovedStep DEF Move

LEMMA ArrowMovesStep ==
  ASSUME IInv, ArrowMoves
  PROVE  IInv'
<1>1. buffer \in Texts /\ cursor_offset \in 0 .. Len(buffer)
  BY DEF IInv, LineOK
<1>2. /\ LineUp(buffer, cursor_offset) \in 0 .. Len(buffer)
      /\ LineDown(buffer, cursor_offset) \in 0 .. Len(buffer)
  BY <1>1, LineMoves
<1>. QED  BY <1>2, MovedStep DEF ArrowMoves

LEMMA ArrowSelectsStep ==
  ASSUME IInv, ArrowSelects
  PROVE  IInv'
<1>0. PICK n \in Nat : n = Len(SLASH_COMMANDS)
  BY CommandsOK
<1>1. PICK s \in 0 .. n - 1 : s = slash_selection
  BY <1>0 DEF IInv, LineOK
<1>2. PICK m \in 1 .. n : m = Len(SlashMatches(buffer))
  BY <1>0, MatchesOK DEF ArrowSelects
<1>3. slash_selection' \in 0 .. n - 1
  <2>1. 0 \in Int /\ s - 1 \in Int /\ s + 1 \in Int /\ m - 1 \in Int
    OBVIOUS
  <2>2. /\ Max({0, s - 1}) = IF 0 >= s - 1 THEN 0 ELSE s - 1
        /\ Min({s + 1, m - 1}) = IF s + 1 <= m - 1 THEN s + 1 ELSE m - 1
    BY <2>1, OfTwo, Zenon
  <2>3. Max({0, s - 1}) \in 0 .. n - 1 /\ Min({s + 1, m - 1}) \in 0 .. n - 1
    BY <1>0, <1>1, <2>2
  <2>. QED  BY <1>0, <1>1, <1>2, <2>3 DEF ArrowSelects
<1>4. LineOK'
  BY <1>0, <1>3 DEF IInv, LineOK, ArrowSelects
<1>5. HistoryOK' /\ DraftOK'
  BY HistoryKept DEF IInv, ArrowSelects, lineVars
<1>6. SubmittedOK' /\ ScreenOK'
  BY RedrawOK DEF IInv, ArrowSelects
<1>7. PastesOK'
  BY PastesKept DEF IInv, ArrowSelects, lineVars
<1>. QED  BY <1>4, <1>5, <1>6, <1>7 DEF IInv

\* What Up and Down have in common.
LEMMA RecalledOK ==
  ASSUME IInv, NEW index \in 0 .. Len(history), NEW text \in Texts, Recalled(index, text),
         draft_buffer' \in Texts, walkedFrom' \in Texts,
         index # 0 => draft_buffer' = walkedFrom'
  PROVE  IInv'
<1>1. LineOK'
  <2>1. Len(text) \in 0 .. Len(text)
    BY DEF Texts
  <2>. QED  BY <2>1 DEF IInv, LineOK, Recalled
<1>2. HistoryOK' /\ DraftOK'
  BY DEF IInv, HistoryOK, DraftOK, Recalled
<1>3. SubmittedOK' /\ ScreenOK'
  BY RedrawOK DEF IInv, Recalled
<1>4. PastesOK'
  BY PastesKept DEF IInv, Recalled
<1>. QED  BY <1>1, <1>2, <1>3, <1>4 DEF IInv

LEMMA UpStep ==
  ASSUME IInv, Up
  PROVE  IInv'
<1>. DEFINE index == IF history_index = 0 THEN Len(history) ELSE Max({1, history_index - 1})
<1>0. PICK h \in Nat, n \in Nat : h = history_index /\ n = Len(history) /\ h <= n /\ n # 0
  BY DEF IInv, HistoryOK, Up
<1>1. index \in 1 .. Len(history)
  <2>1. 1 \in Int /\ h - 1 \in Int
    OBVIOUS
  <2>2. Max({1, h - 1}) = IF 1 >= h - 1 THEN 1 ELSE h - 1
    BY <2>1, OfTwo, Zenon
  <2>. QED  BY <1>0, <2>2
<1>2. history[index] \in Texts
  BY <1>1 DEF IInv, HistoryOK
<1>3. Recalled(index, history[index])
  BY DEF Up
<1>. HIDE DEF index
<1>4. draft_buffer' \in Texts /\ walkedFrom' \in Texts /\ draft_buffer' = walkedFrom'
  BY DEF Up, Draft, IInv, LineOK, HistoryOK, DraftOK
<1>5. index \in 0 .. Len(history)
  BY <1>1
<1>. QED  BY <1>2, <1>3, <1>4, <1>5, RecalledOK

LEMMA DownStep ==
  ASSUME IInv, Down
  PROVE  IInv'
<1>0. PICK h \in Nat, n \in Nat : h = history_index /\ n = Len(history) /\ h <= n /\ h # 0
  BY DEF IInv, HistoryOK, Down
<1>1. CASE h < n
  <2>1. h + 1 \in 0 .. Len(history) /\ history[h + 1] \in Texts
    BY <1>0, <1>1 DEF IInv, HistoryOK
  <2>2. Recalled(h + 1, history[h + 1]) /\ UNCHANGED <<walkedFrom, draft_buffer>>
    BY <1>0, <1>1 DEF Down
  <2>3. draft_buffer' \in Texts /\ walkedFrom' \in Texts /\ draft_buffer' = walkedFrom'
    BY <1>0, <2>2 DEF IInv, HistoryOK, DraftOK
  <2>. QED  BY <2>1, <2>2, <2>3, RecalledOK
<1>2. CASE ~(h < n)
  <2>1. Recalled(0, draft_buffer) /\ draft_buffer' = <<>> /\ walkedFrom' = <<>>
    BY <1>0, <1>2 DEF Down
  <2>2. 0 \in 0 .. Len(history) /\ draft_buffer \in Texts
    BY <1>0 DEF IInv, HistoryOK
  <2>. QED  BY <2>1, <2>2, EmptyText, RecalledOK
<1>. QED  BY <1>1, <1>2

LEMMA LineStaysStep ==
  ASSUME IInv, LineStays, ScreenOK'
  PROVE  IInv'
<1>1. LineOK'
  BY DEF IInv, LineOK, LineStays, editVars
<1>2. HistoryOK' /\ DraftOK'
  BY HistoryKept DEF IInv, LineStays, editVars, lineVars
<1>3. SubmittedOK'
  BY EmptyText DEF LineStays, SubmittedOK, NotSubmitted
<1>4. PastesOK'
  BY PastesKept DEF IInv, LineStays, lineVars
<1>. QED  BY <1>1, <1>2, <1>3, <1>4 DEF IInv

LEMMA ScreenStep ==
  ASSUME IInv, Scroll \/ ScrollToBottom \/ CtrlC \/ CtrlD \/ Tick
  PROVE  IInv'
<1>1. LineStays
  BY DEF Scroll, ScrollToBottom, CtrlC, CtrlD, Tick
<1>2. CASE Scroll
  BY <1>1, <1>2, LineStaysStep DEF IInv, ScreenOK, Scroll
<1>3. CASE ScrollToBottom
  BY <1>1, <1>3, LineStaysStep DEF IInv, ScreenOK, ScrollToBottom
<1>4. CASE CtrlC
  BY <1>1, <1>4, LineStaysStep DEF IInv, ScreenOK, CtrlC
<1>5. CASE CtrlD
  BY <1>1, <1>5, LineStaysStep DEF IInv, ScreenOK, CtrlD
<1>6. CASE Tick
  BY <1>1, <1>6, LineStaysStep DEF IInv, ScreenOK, Tick
<1>. QED  BY <1>2, <1>3, <1>4, <1>5, <1>6

LEMMA Stuttering ==
  ASSUME IInv, UNCHANGED vars
  PROVE  IInv'
<1>1. LineOK' /\ HistoryOK' /\ DraftOK' /\ SubmittedOK' /\ ScreenOK'
  BY DEF IInv, LineOK, HistoryOK, DraftOK, SubmittedOK, ScreenOK, vars, editVars, lineVars, screenVars
<1>2. PastesOK'
  BY PastesKept DEF IInv, vars, lineVars
<1>. QED  BY <1>1, <1>2 DEF IInv

LEMMA InvariantStep == IInv /\ [Next]_vars => IInv'
<1>. SUFFICES ASSUME IInv, [Next]_vars PROVE IInv'
  OBVIOUS
<1>1. ASSUME NEW c \in Chars \cup {"\n"}, Type(c) PROVE IInv'
  BY <1>1, TypeStep
<1>2. ASSUME NEW t \in Pastes, Paste(t) PROVE IInv'
  BY <1>2, PasteStep
<1>3. CASE EnterCompletes
  BY <1>3, EnterCompletesStep
<1>4. CASE EnterTakes
  BY <1>4, EnterTakesStep
<1>5. CASE Tab
  BY <1>5, TabStep
<1>6. CASE BackspaceBlock
  BY <1>6, BackspaceBlockStep
<1>7. CASE Backspace \/ WordBackspace
  BY <1>7, BackspaceStep
<1>8. CASE Move
  BY <1>8, MoveStep
<1>9. CASE ArrowMoves
  BY <1>9, ArrowMovesStep
<1>10. CASE ArrowSelects
  BY <1>10, ArrowSelectsStep
<1>11. CASE Up
  BY <1>11, UpStep
<1>12. CASE Down
  BY <1>12, DownStep
<1>13. CASE Scroll \/ ScrollToBottom \/ CtrlC \/ CtrlD \/ Tick
  BY <1>13, ScreenStep
<1>14. CASE UNCHANGED vars
  BY <1>14, Stuttering
<1>. QED
  BY <1>1, <1>2, <1>3, <1>4, <1>5, <1>6, <1>7, <1>8, <1>9, <1>10, <1>11, <1>12, <1>13, <1>14 DEF Next

LEMMA InvariantOK == Spec => []IInv
BY InitOK, InvariantStep, PTL DEF Spec

-----------------------------------------------------------------------------
(* Where a text occurs in another *)

\* An occurrence, character by character.
LEMMA OccursAtDef ==
  ASSUME NEW part \in Texts, Len(part) > 0, NEW text \in Texts, NEW i \in 1 .. Len(text)
  PROVE  OccursAt(part, text, i) <=>
           /\ i + Len(part) - 1 <= Len(text)
           /\ \A k \in 1 .. Len(part) : text[i + k - 1] = part[k]
<1>0. PICK n \in Nat, m \in Nat : n = Len(text) /\ m = Len(part) /\ m > 0 /\ i \in 1 .. n
  <2>1. Len(text) \in Nat /\ Len(part) \in Nat
    BY DEF Texts
  <2>. QED  BY <2>1
<1>1. part \in Seq(Characters) /\ text \in Seq(Characters)
  BY DEF Texts
<1>2. CASE i + m - 1 > n
  <2>1. ~(i + Len(part) - 1 <= Len(text))
    BY <1>0, <1>2
  <2>. QED  BY <2>1 DEF OccursAt
<1>3. CASE i + m - 1 <= n
  <2>. DEFINE sub == SubSeq(text, i, i + m - 1)
  <2>1. sub \in Seq(Characters) /\ Len(sub) = m /\ \A k \in 1 .. m : sub[k] = text[i + k - 1]
    BY <1>0, <1>1, <1>3
  <2>2. OccursAt(part, text, i) <=> sub = part
    BY <1>0, <1>3 DEF OccursAt
  <2>. HIDE DEF sub
  <2>3. sub = part <=> \A k \in 1 .. m : sub[k] = part[k]
    <3>1. sub \in [1 .. m -> Characters] /\ part \in [1 .. m -> Characters]
      BY <1>0, <1>1, <2>1
    <3>. QED  BY <3>1
  <2>. QED  BY <1>0, <1>3, <2>1, <2>2, <2>3
<1>. QED  BY <1>0, <1>2, <1>3

\* Two texts, one after the other: a name, as the provers unfold what they see.
Joined(x, y) == x \o y

LEMMA ConcatAt ==
  ASSUME NEW x \in Texts, NEW y \in Texts
  PROVE  /\ Joined(x, y) \in Texts
         /\ Len(x) \in Nat /\ Len(y) \in Nat /\ Len(Joined(x, y)) = Len(x) + Len(y)
         /\ \A k \in 1 .. Len(x) : Joined(x, y)[k] = x[k]
         /\ \A k \in 1 .. Len(y) : Joined(x, y)[Len(x) + k] = y[k]
<1>1. x \in Seq(Characters) /\ y \in Seq(Characters) /\ Len(x) \in Nat /\ Len(y) \in Nat
  BY DEF Texts
<1>2. Joined(x, y) \in Seq(Characters) /\ Len(Joined(x, y)) = Len(x) + Len(y)
  BY <1>1 DEF Joined
<1>3. ASSUME NEW k \in 1 .. Len(x) PROVE Joined(x, y)[k] = x[k]
  <2>1. k \in 1 .. Len(x) + Len(y) /\ k <= Len(x)
    BY <1>1
  <2>. QED  BY <1>1, <2>1 DEF Joined
<1>4. ASSUME NEW k \in 1 .. Len(y) PROVE Joined(x, y)[Len(x) + k] = y[k]
  <2>1. /\ Len(x) + k \in 1 .. Len(x) + Len(y) /\ ~(Len(x) + k <= Len(x))
        /\ Len(x) + k - Len(x) = k
    BY <1>1
  <2>. QED  BY <1>1, <2>1 DEF Joined
<1>. QED  BY <1>1, <1>2, <1>3, <1>4 DEF Texts

LEMMA OccursInTail ==
  ASSUME NEW part \in Texts, Len(part) > 0, NEW x \in Texts, NEW y \in Texts, Occurs(part, y)
  PROVE  Occurs(part, Joined(x, y))
<1>0. PICK a \in Nat, b \in Nat, m \in Nat : a = Len(x) /\ b = Len(y) /\ m = Len(part) /\ m > 0
  <2>1. Len(x) \in Nat /\ Len(y) \in Nat /\ Len(part) \in Nat
    BY DEF Texts
  <2>. QED  BY <2>1
<1>1. PICK i \in 1 .. b : i + m - 1 <= b /\ \A k \in 1 .. m : y[i + k - 1] = part[k]
  <2>1. PICK i \in DOMAIN y : OccursAt(part, y, i)
    BY DEF Occurs
  <2>2. i \in 1 .. Len(y)
    BY <2>1 DEF Texts
  <2>. QED  BY <1>0, <2>1, <2>2, OccursAtDef
<1>2. Joined(x, y) \in Texts /\ Len(Joined(x, y)) = a + b /\ \A j \in 1 .. b : Joined(x, y)[a + j] = y[j]
  BY <1>0, ConcatAt
<1>3. a + i \in 1 .. Len(Joined(x, y)) /\ a + i + Len(part) - 1 <= Len(Joined(x, y))
  BY <1>0, <1>1, <1>2
<1>4. ASSUME NEW k \in 1 .. Len(part) PROVE Joined(x, y)[a + i + k - 1] = part[k]
  <2>1. i + k - 1 \in 1 .. b /\ a + i + k - 1 = a + (i + k - 1) /\ k \in 1 .. m
    BY <1>0, <1>1
  <2>. QED  BY <1>1, <1>2, <2>1
<1>5. OccursAt(part, Joined(x, y), a + i)
  BY <1>0, <1>2, <1>3, <1>4, OccursAtDef
<1>6. a + i \in DOMAIN Joined(x, y)
  BY <1>2, <1>3 DEF Texts
<1>. QED  BY <1>5, <1>6 DEF Occurs

\* A text occurs in what begins with it.
LEMMA OccursInFront ==
  ASSUME NEW part \in Texts, Len(part) > 0, NEW text \in Texts, Len(part) <= Len(text),
         \A k \in 1 .. Len(part) : text[k] = part[k]
  PROVE  Occurs(part, text)
<1>0. PICK n \in Nat, m \in Nat : n = Len(text) /\ m = Len(part) /\ m > 0 /\ m <= n
  <2>1. Len(text) \in Nat /\ Len(part) \in Nat
    BY DEF Texts
  <2>. QED  BY <2>1
<1>1. 1 \in 1 .. Len(text) /\ 1 + Len(part) - 1 <= Len(text)
  BY <1>0
<1>2. \A k \in 1 .. Len(part) : text[1 + k - 1] = part[k]
  BY <1>0
<1>3. OccursAt(part, text, 1)
  BY <1>0, <1>1, <1>2, OccursAtDef
<1>4. 1 \in DOMAIN text
  BY <1>1 DEF Texts
<1>. QED  BY <1>3, <1>4 DEF Occurs

LEMMA OccursInHead ==
  ASSUME NEW part \in Texts, Len(part) > 0, NEW y \in Texts
  PROVE  Occurs(part, Joined(part, y))
<1>1. PICK m \in Nat, b \in Nat : m = Len(part) /\ b = Len(y) /\ Len(Joined(part, y)) = m + b
  BY ConcatAt
<1>2. Len(part) <= Len(Joined(part, y))
  BY <1>1
<1>. QED  BY <1>2, ConcatAt, OccursInFront

LEMMA MarksOK ==
  "[Pasted" \in Marks /\ Blank \notin Marks /\ \A p \in 1 .. 3 : Mark[p] \in Marks
<1>1. Blank \notin Marks
  BY CharactersOK, Zenon DEF Blank
<1>2. "[Pasted" \in Marks /\ \A p \in 1 .. 3 : Mark[p] \in Marks
  BY DEF Mark, Marks, ToSet
<1>. QED  BY <1>1, <1>2

\* A reference, character by character.
LEMMA PlaceholderAt ==
  ASSUME NEW id \in 1 .. 3, NEW text \in Texts, NEW i \in 1 .. Len(text)
  PROVE  OccursAt(Placeholder(id), text, i) <=>
           i + 2 <= Len(text) /\ text[i] = "[Pasted" /\ text[i + 1] = Blank /\ text[i + 2] = Mark[id]
<1>0. PICK n \in Nat : n = Len(text) /\ i \in 1 .. n
  BY DEF Texts
<1>1. PICK q \in Texts : q = Placeholder(id) /\ Len(q) = 3
  BY PlaceholderType
<1>2. q[1] = "[Pasted" /\ q[2] = Blank /\ q[3] = Mark[id]
  <2>1. q = <<"[Pasted", Blank, Mark[id]>>
    BY <1>1, Zenon DEF Placeholder, Blank
  <2>. QED  BY <2>1
<1>3. OccursAt(q, text, i) <=>
        i + 3 - 1 <= n /\ \A k \in 1 .. 3 : text[i + k - 1] = q[k]
  <2>1. Len(q) > 0
    BY <1>1
  <2>2. OccursAt(q, text, i) <=>
          i + Len(q) - 1 <= Len(text) /\ \A k \in 1 .. Len(q) : text[i + k - 1] = q[k]
    BY <2>1, OccursAtDef
  <2>. QED  BY <1>0, <1>1, <2>2
<1>4. i + 1 - 1 = i /\ i + 2 - 1 = i + 1 /\ i + 3 - 1 = i + 2 /\ 1 .. 3 = {1, 2, 3}
  OBVIOUS
<1>5. (\A k \in 1 .. 3 : text[i + k - 1] = q[k]) <=>
        text[i] = "[Pasted" /\ text[i + 1] = Blank /\ text[i + 2] = Mark[id]
  BY <1>2, <1>4
<1>. QED  BY <1>0, <1>1, <1>3, <1>4, <1>5

-----------------------------------------------------------------------------
(* A text put in for a reference *)

\* F is what becomes of the text from each place on as new replaces a reference.
PutIn(F, text, id, new) ==
  /\ F \in [1 .. Len(text) + 1 -> Texts]
  /\ F[Len(text) + 1] = <<>>
  /\ \A i \in 1 .. Len(text) :
       F[i] = IF OccursAt(Placeholder(id), text, i) THEN Joined(new, F[i + 3])
                                                    ELSE Joined(<<text[i]>>, F[i + 1])

LEMMA PutInDef ==
  ASSUME NEW text \in Texts, NEW new \in Texts, NEW id \in 1 .. 3
  PROVE  PutIn(RestsReplaced(text, Placeholder(id), new), text, id, new)
<1>1. PICK q : q = Placeholder(id) /\ Len(q) = 3
  BY PlaceholderType
<1>2. Len(q) \in Nat \ {0} /\ text \in Seq(Characters) /\ new \in Seq(Characters)
  BY <1>1 DEF Texts
<1>3. /\ RestsReplaced(text, q, new) \in [1 .. Len(text) + 1 -> Seq(Characters)]
      /\ RestsReplaced(text, q, new)[Len(text) + 1] = <<>>
      /\ \A i \in 1 .. Len(text) :
           RestsReplaced(text, q, new)[i] =
             IF OccursAt(q, text, i) THEN new \o RestsReplaced(text, q, new)[i + Len(q)]
                                     ELSE <<text[i]>> \o RestsReplaced(text, q, new)[i + 1]
  BY <1>2, RestsReplacedDef
<1>. QED  BY <1>1, <1>3 DEF PutIn, Texts, Joined

\* The next place, and what is put before it.
LEMMA PutInThere ==
  ASSUME NEW text \in Texts, NEW new \in Texts, NEW id \in 1 .. 3, NEW F, PutIn(F, text, id, new),
         NEW i \in 1 .. Len(text), OccursAt(Placeholder(id), text, i)
  PROVE  i + 3 \in 1 .. Len(text) + 1 /\ F[i + 3] \in Texts /\ F[i] = Joined(new, F[i + 3])
<1>1. PICK n \in Nat : n = Len(text) /\ i \in 1 .. n
  BY DEF Texts
<1>2. i + 2 <= n
  BY <1>1, PlaceholderAt
<1>3. i + 3 \in 1 .. n + 1
  BY <1>2
<1>. QED  BY <1>1, <1>3 DEF PutIn

LEMMA PutInElsewhere ==
  ASSUME NEW text \in Texts, NEW new \in Texts, NEW id \in 1 .. 3, NEW F, PutIn(F, text, id, new),
         NEW i \in 1 .. Len(text), ~OccursAt(Placeholder(id), text, i)
  PROVE  /\ i + 1 \in 1 .. Len(text) + 1 /\ F[i + 1] \in Texts
         /\ <<text[i]>> \in Texts /\ F[i] = Joined(<<text[i]>>, F[i + 1])
<1>1. PICK n \in Nat : n = Len(text) /\ i \in 1 .. n
  BY DEF Texts
<1>2. i + 1 \in 1 .. n + 1
  BY <1>1
<1>3. <<text[i]>> \in Texts
  BY DEF Texts
<1>4. F[i + 1] \in Texts /\ F[i] = Joined(<<text[i]>>, F[i + 1])
  BY <1>1, <1>2 DEF PutIn
<1>. QED  BY <1>1, <1>2, <1>3, <1>4

\* What is put in is there,
LEMMA NewAppears ==
  ASSUME NEW text \in Texts, NEW new \in Texts, Len(new) > 0, NEW id \in 1 .. 3,
         Occurs(Placeholder(id), text)
  PROVE  Occurs(new, Replaced(text, Placeholder(id), new))
<1>. DEFINE F == RestsReplaced(text, Placeholder(id), new)
<1>1. PutIn(F, text, id, new)
  BY PutInDef
<1>. HIDE DEF F
<1>2. PICK q \in 1 .. Len(text) : OccursAt(Placeholder(id), text, q)
  BY DEF Occurs, Texts
<1>3. q \in Nat /\ Len(text) \in Nat /\ q - 1 \in Nat /\ (q - 1) + 1 = q
  BY DEF Texts
<1>. DEFINE G == {i \in 1 .. q : Occurs(new, F[i])}
<1>4. q \in G
  <2>1. F[q + 3] \in Texts /\ F[q] = Joined(new, F[q + 3])
    BY <1>1, <1>2, PutInThere
  <2>2. q \in 1 .. q
    BY <1>3
  <2>. QED  BY <2>1, <2>2, OccursInHead
<1>5. ASSUME NEW i \in 1 .. q - 1, \A j \in i + 1 .. q : j \in G PROVE i \in G
  <2>1. i \in 1 .. Len(text) /\ i + 1 \in G /\ i \in 1 .. q
    BY <1>3, <1>5
  <2>2. CASE OccursAt(Placeholder(id), text, i)
    <3>1. F[i + 3] \in Texts /\ F[i] = Joined(new, F[i + 3])
      BY <1>1, <2>1, <2>2, PutInThere
    <3>. QED  BY <2>1, <3>1, OccursInHead
  <2>3. CASE ~OccursAt(Placeholder(id), text, i)
    <3>1. F[i + 1] \in Texts /\ <<text[i]>> \in Texts /\ F[i] = Joined(<<text[i]>>, F[i + 1])
      BY <1>1, <2>1, <2>3, PutInElsewhere
    <3>2. Occurs(new, F[i + 1])
      BY <2>1
    <3>. QED  BY <2>1, <3>1, <3>2, OccursInTail
  <2>. QED  BY <2>2, <2>3
<1>. HIDE DEF G
<1>6. \A i \in 1 .. q : i \in G
  <2>1. PICK m \in Nat : m = q - 1
    BY <1>3
  <2>2. m + 1 = q
    BY <1>3, <2>1
  <2>3. ASSUME NEW i \in 1 .. m, \A j \in i + 1 .. m + 1 : j \in G PROVE i \in G
    BY <1>5, <2>1, <2>2, <2>3
  <2>4. \A i \in 1 .. m + 1 : i \in G
    BY <1>4, <2>2, <2>3, Backwards
  <2>. QED  BY <2>2, <2>4
<1>7. 1 \in G
  BY <1>3, <1>6
<1>. QED  BY <1>7 DEF F, G, Replaced


\* A reference does not begin in a text without its mark.
LEMMA NotAcross ==
  ASSUME NEW p \in 1 .. 3, NEW x \in Texts, NEW y \in Texts, Occurs(Placeholder(p), Joined(x, y)),
         \A k \in 1 .. Len(x) : x[k] # "[Pasted"
  PROVE  Occurs(Placeholder(p), y)
<1>0. PICK a \in Nat, b \in Nat : a = Len(x) /\ b = Len(y)
  <2>1. Len(x) \in Nat /\ Len(y) \in Nat
    BY ConcatAt
  <2>. QED  BY <2>1
<1>1. /\ Joined(x, y) \in Texts /\ Len(Joined(x, y)) = a + b
      /\ \A k \in 1 .. a : Joined(x, y)[k] = x[k]
      /\ \A k \in 1 .. b : Joined(x, y)[a + k] = y[k]
  BY <1>0, ConcatAt
<1>2. PICK k \in 1 .. a + b : OccursAt(Placeholder(p), Joined(x, y), k)
  BY <1>1 DEF Occurs, Texts
<1>3. /\ k + 2 <= a + b /\ Joined(x, y)[k] = "[Pasted"
      /\ Joined(x, y)[k + 1] = Blank /\ Joined(x, y)[k + 2] = Mark[p]
  BY <1>1, <1>2, PlaceholderAt
<1>4. k \notin 1 .. a
  BY <1>0, <1>1, <1>3
<1>5. PICK j \in 1 .. b : k = a + j
  <2>1. k - a \in 1 .. b /\ k = a + (k - a)
    BY <1>4
  <2>. QED  BY <2>1
<1>6. /\ j + 1 \in 1 .. b /\ j + 2 \in 1 .. b /\ j + 2 <= b
      /\ k + 1 = a + (j + 1) /\ k + 2 = a + (j + 2)
  BY <1>3, <1>5
<1>7. y[j] = "[Pasted" /\ y[j + 1] = Blank /\ y[j + 2] = Mark[p]
  BY <1>1, <1>3, <1>5, <1>6
<1>8. OccursAt(Placeholder(p), y, j)
  BY <1>0, <1>6, <1>7, PlaceholderAt
<1>9. j \in DOMAIN y
  BY <1>0 DEF Texts
<1>. QED  BY <1>8, <1>9 DEF Occurs

\* The rest begins with the character of the text.
Keeps(F, text, i) ==
  /\ F[i][1] = text[i] /\ Len(F[i]) = 1 + Len(F[i + 1]) /\ Len(F[i + 1]) \in Nat
  /\ \A k \in 1 .. Len(F[i + 1]) : F[i][1 + k] = F[i + 1][k]

\* What the rest begins with, at a place that is not replaced.
LEMMA PutInKeeps ==
  ASSUME NEW text \in Texts, NEW new \in Texts, NEW id \in 1 .. 3, NEW F, PutIn(F, text, id, new),
         NEW i \in 1 .. Len(text), ~OccursAt(Placeholder(id), text, i)
  PROVE  Keeps(F, text, i)
<1>. DEFINE c == <<text[i]>>
<1>1. F[i + 1] \in Texts /\ c \in Texts /\ F[i] = Joined(c, F[i + 1])
  BY PutInElsewhere
<1>2. Len(c) = 1 /\ c[1] = text[i] /\ 1 \in 1 .. 1
  OBVIOUS
<1>. HIDE DEF c
<1>3. PICK y \in Texts : y = F[i + 1] /\ F[i] = Joined(c, y)
  BY <1>1
<1>4. /\ Len(Joined(c, y)) = Len(c) + Len(y) /\ Len(y) \in Nat
      /\ \A k \in 1 .. Len(c) : Joined(c, y)[k] = c[k]
      /\ \A k \in 1 .. Len(y) : Joined(c, y)[Len(c) + k] = y[k]
  BY <1>1, ConcatAt
<1>. QED  BY <1>2, <1>3, <1>4 DEF Keeps

\* What the rest begins with, at a place that is replaced.
LEMMA PutInReplaces ==
  ASSUME NEW text \in Texts, NEW new \in Texts, NEW id \in 1 .. 3, NEW F, PutIn(F, text, id, new),
         NEW i \in 1 .. Len(text), OccursAt(Placeholder(id), text, i)
  PROVE  \A k \in 1 .. Len(new) : F[i][k] = new[k]
<1>1. F[i + 3] \in Texts /\ F[i] = Joined(new, F[i + 3])
  BY PutInThere
<1>2. PICK y \in Texts : F[i] = Joined(new, y)
  BY <1>1
<1>3. \A k \in 1 .. Len(new) : Joined(new, y)[k] = new[k]
  BY ConcatAt
<1>. QED  BY <1>2, <1>3

LEMMA PastableIs ==
  ASSUME NEW part \in Pastable
  PROVE  /\ part \in Texts /\ Len(part) \in Nat /\ Len(part) > 0
         /\ Len(part) = 1 => part[1] # Blank
<1>1. part \in Seq(Characters) /\ part # <<>> /\ part # <<Blank>>
  BY DEF Pastable
<1>2. ASSUME Len(part) = 1 PROVE part[1] # Blank
  <2>1. part = <<part[1]>>
    BY <1>1, <1>2
  <2>. QED  BY <1>1, <2>1
<1>3. part \in Texts /\ Len(part) \in Nat /\ Len(part) > 0
  BY <1>1 DEF Texts
<1>. QED  BY <1>2, <1>3

LEMMA UnmarkedIs ==
  ASSUME NEW part \in Pastable, Unmarked(part)
  PROVE  \A k \in 1 .. Len(part) : part[k] \notin Marks
BY DEF Unmarked, ToSet

\* and no reference that was nowhere but where it has been put in.
LEMMA NoneLeft ==
  ASSUME NEW text \in Texts, NEW new \in Pastable, Unmarked(new),
         NEW id \in 1 .. 3, NEW p \in 1 .. 3,
         \A i \in 1 .. Len(text) : OccursAt(Placeholder(p), text, i) => OccursAt(Placeholder(id), text, i)
  PROVE  ~Occurs(Placeholder(p), Replaced(text, Placeholder(id), new))
<1>. DEFINE F == RestsReplaced(text, Placeholder(id), new)
            N == Len(text)
            G == {i \in 1 .. N + 1 : ~Occurs(Placeholder(p), F[i])}
<1>0. /\ N \in Nat /\ new \in Texts /\ Len(new) \in Nat /\ Len(new) > 0
      /\ \A k \in 1 .. Len(new) : new[k] \notin Marks
      /\ Len(new) = 1 => new[1] # Blank
  <2>1. Len(text) \in Nat
    BY DEF Texts
  <2>. QED  BY <2>1, PastableIs, UnmarkedIs
<1>1. PutIn(F, text, id, new)
  BY <1>0, PutInDef
<1>2. "[Pasted" \in Marks /\ Mark[p] \in Marks /\ Blank \notin Marks
  BY MarksOK
<1>. HIDE DEF F, N
<1>3. N + 1 \in G
  <2>1. F[N + 1] = <<>> /\ N + 1 \in 1 .. N + 1
    BY <1>0, <1>1 DEF PutIn, N
  <2>2. ~Occurs(Placeholder(p), <<>>)
    BY DEF Occurs
  <2>. QED  BY <2>1, <2>2
<1>4. ASSUME NEW i \in 1 .. N, \A j \in i + 1 .. N + 1 : j \in G PROVE i \in G
  <2>0. i \in 1 .. N + 1 /\ i \in 1 .. Len(text) /\ i + 1 \in 1 .. N + 1 /\ ~Occurs(Placeholder(p), F[i + 1])
    <3>1. i \in 1 .. N + 1 /\ i + 1 \in i + 1 .. N + 1
      BY <1>0
    <3>. QED  BY <1>4, <3>1 DEF N
  <2>. SUFFICES ASSUME Occurs(Placeholder(p), F[i]) PROVE FALSE
    BY <2>0
  <2>1. CASE OccursAt(Placeholder(id), text, i)
    <3>1. F[i + 3] \in Texts /\ F[i] = Joined(new, F[i + 3]) /\ i + 3 \in 1 .. N + 1
      BY <1>0, <1>1, <2>0, <2>1, PutInThere DEF N
    <3>2. i + 3 \in G
      <4>1. i + 3 \in i + 1 .. N + 1
        BY <1>0, <3>1
      <4>. QED  BY <1>4, <4>1
    <3>3. \A k \in 1 .. Len(new) : new[k] # "[Pasted"
      BY <1>0, <1>2
    <3>. QED  BY <1>0, <3>1, <3>2, <3>3, NotAcross
  <2>2. CASE ~OccursAt(Placeholder(id), text, i)
    <3>. DEFINE r == F[i]
                s == F[i + 1]
    <3>1. /\ r[1] = text[i] /\ Len(r) = 1 + Len(s) /\ Len(s) \in Nat
          /\ \A k \in 1 .. Len(s) : r[1 + k] = s[k]
          /\ r \in Texts /\ s \in Texts
      <4>1. r \in Texts /\ s \in Texts
        BY <1>1, <2>0 DEF PutIn, N
      <4>2. /\ r[1] = text[i] /\ Len(r) = 1 + Len(s) /\ Len(s) \in Nat
            /\ \A k \in 1 .. Len(s) : r[1 + k] = s[k]
        BY <1>0, <1>1, <2>0, <2>2, PutInKeeps DEF Keeps
      <4>. QED  BY <4>1, <4>2
    <3>. HIDE DEF r, s
    <3>2. PICK m \in Nat : m = Len(s)
      BY <3>1
    <3>3. /\ text[i] = "[Pasted" /\ 2 <= m /\ s[1] = Blank /\ s[2] = Mark[p]
      <4>1. PICK k \in 1 .. 1 + m : OccursAt(Placeholder(p), r, k)
        BY <3>1, <3>2 DEF Occurs, Texts, r
      <4>2. k + 2 <= 1 + m /\ r[k] = "[Pasted" /\ r[k + 1] = Blank /\ r[k + 2] = Mark[p]
        BY <3>1, <3>2, <4>1, PlaceholderAt
      <4>3. k = 1
        <5>1. SUFFICES ASSUME k # 1 PROVE FALSE
          OBVIOUS
        <5>2. PICK j \in 1 .. m : k = 1 + j
          <6>1. k - 1 \in 1 .. m /\ k = 1 + (k - 1)
            BY <5>1
          <6>. QED  BY <6>1
        <5>3. j + 1 \in 1 .. m /\ j + 2 \in 1 .. m /\ k + 1 = 1 + (j + 1) /\ k + 2 = 1 + (j + 2) /\ j + 2 <= m
          BY <4>2, <5>2
        <5>4. s[j] = "[Pasted" /\ s[j + 1] = Blank /\ s[j + 2] = Mark[p]
          BY <3>1, <3>2, <4>2, <5>2, <5>3
        <5>5. OccursAt(Placeholder(p), s, j)
          BY <3>1, <3>2, <5>3, <5>4, PlaceholderAt
        <5>6. j \in DOMAIN s
          BY <3>1, <3>2 DEF Texts
        <5>. QED  BY <2>0, <5>5, <5>6 DEF Occurs, s
      <4>4. 1 \in 1 .. m /\ 2 \in 1 .. m /\ k + 1 = 1 + 1 /\ k + 2 = 1 + 2 /\ 2 <= m
        BY <4>2, <4>3
      <4>. QED  BY <3>1, <3>2, <4>2, <4>3, <4>4
    <3>4. i + 1 \in 1 .. Len(text)
      <4>1. i + 1 # N + 1
        <5>1. F[N + 1] = <<>>
          BY <1>1 DEF PutIn, N
        <5>2. Len(<<>>) = 0
          OBVIOUS
        <5>. QED  BY <3>2, <3>3, <5>1, <5>2 DEF s
      <4>. QED  BY <1>0, <2>0, <4>1 DEF N
    <3>5. CASE OccursAt(Placeholder(id), text, i + 1)
      <4>1. \A k \in 1 .. Len(new) : s[k] = new[k]
        BY <1>0, <1>1, <3>4, <3>5, PutInReplaces DEF s
      <4>2. 1 \in 1 .. Len(new) /\ (Len(new) # 1 => 2 \in 1 .. Len(new))
        <5>1. PICK l \in Nat : l = Len(new) /\ l > 0
          BY <1>0
        <5>. QED  BY <5>1
      <4>. QED  BY <1>0, <1>2, <3>3, <4>1, <4>2
    <3>6. CASE ~OccursAt(Placeholder(id), text, i + 1)
      <4>. DEFINE u == F[i + 1 + 1]
      <4>1. /\ s[1] = text[i + 1] /\ Len(s) = 1 + Len(u) /\ Len(u) \in Nat
            /\ \A k \in 1 .. Len(u) : s[1 + k] = u[k]
        <5>1. Keeps(F, text, i + 1)
          BY <1>0, <1>1, <3>4, <3>6, PutInKeeps
        <5>. QED  BY <5>1 DEF Keeps, s
      <4>. HIDE DEF u
      <4>2. PICK l \in Nat : l = Len(u) /\ m = 1 + l
        BY <3>2, <4>1
      <4>3. 1 \in 1 .. l /\ 1 + 1 = 2
        BY <3>3, <4>2
      <4>4. u[1] = Mark[p]
        BY <3>3, <4>1, <4>2, <4>3
      <4>5. i + 2 \in 1 .. Len(text) /\ i + 1 + 1 = i + 2 /\ i + 2 <= Len(text)
        <5>1. i + 2 # N + 1
          <6>1. F[N + 1] = <<>>
            BY <1>1 DEF PutIn, N
          <6>2. Len(<<>>) = 0 /\ i + 1 + 1 = i + 2
            BY <2>0
          <6>. QED  BY <4>2, <4>3, <6>1, <6>2 DEF u
        <5>. QED  BY <1>0, <2>0, <3>4, <5>1 DEF N
      <4>6. CASE OccursAt(Placeholder(id), text, i + 2)
        <5>1. \A k \in 1 .. Len(new) : u[k] = new[k]
          BY <1>0, <1>1, <4>5, <4>6, PutInReplaces DEF u
        <5>2. 1 \in 1 .. Len(new)
          BY <1>0
        <5>. QED  BY <1>0, <1>2, <4>4, <5>1, <5>2
      <4>7. CASE ~OccursAt(Placeholder(id), text, i + 2)
        <5>1. u[1] = text[i + 2]
          <6>1. Keeps(F, text, i + 2)
            BY <1>0, <1>1, <4>5, <4>7, PutInKeeps
          <6>. QED  BY <4>5, <6>1 DEF Keeps, u
        <5>2. OccursAt(Placeholder(p), text, i)
          BY <2>0, <3>3, <4>1, <4>4, <4>5, <5>1, PlaceholderAt
        <5>. QED  BY <2>0, <2>2, <5>2
      <4>. QED  BY <4>6, <4>7
    <3>. QED  BY <3>5, <3>6
  <2>. QED  BY <2>1, <2>2
<1>. HIDE DEF G
<1>5. 1 \in G
  <2>1. 1 \in 1 .. N + 1
    BY <1>0
  <2>. QED  BY <1>0, <1>3, <1>4, <2>1, Backwards
<1>. QED  BY <1>5 DEF F, G, Replaced

\* An occurrence that no replaced reference touches is there still.
LEMMA Survives ==
  ASSUME NEW text \in Texts, NEW new \in Texts, NEW id \in 1 .. 3, NEW part \in Texts, Len(part) > 0,
         \A i \in 1 .. Len(text), k \in 1 .. Len(text) :
           OccursAt(part, text, i) /\ OccursAt(Placeholder(id), text, k)
             => i + Len(part) <= k \/ k + 3 <= i,
         Occurs(part, text)
  PROVE  Occurs(part, Replaced(text, Placeholder(id), new))
<1>. DEFINE F == RestsReplaced(text, Placeholder(id), new)
<1>1. PutIn(F, text, id, new)
  BY PutInDef
<1>. HIDE DEF F
<1>2. PICK q \in 1 .. Len(text) : OccursAt(part, text, q)
  BY DEF Occurs, Texts
<1>3. PICK n \in Nat, m \in Nat : n = Len(text) /\ m = Len(part) /\ m > 0 /\ q \in 1 .. n
  <2>1. Len(text) \in Nat /\ Len(part) \in Nat
    BY DEF Texts
  <2>. QED  BY <1>2, <2>1
<1>4. q + m - 1 <= n /\ \A k \in 1 .. m : text[q + k - 1] = part[k]
  BY <1>2, <1>3, OccursAtDef
<1>5. ASSUME NEW i \in 1 .. n, i < q + m PROVE OccursAt(Placeholder(id), text, i) => i + 3 <= q
  BY <1>2, <1>3, <1>5
<1>. DEFINE Begins(i) == /\ q + m - i <= Len(F[i])
                         /\ \A k \in 1 .. q + m - i : F[i][k] = text[i + k - 1]
            B == {d \in 1 .. m + 1 : Begins(q + d - 1)}
<1>6. Begins(q)
  <2>1. m + 1 \in B
    <3>1. q + (m + 1) - 1 = q + m /\ q + m \in 1 .. n + 1 /\ q + m - (q + m) = 0 /\ m + 1 \in 1 .. m + 1
      BY <1>3, <1>4
    <3>2. F[q + m] \in Texts
      BY <1>1, <1>3, <3>1 DEF PutIn
    <3>3. Len(F[q + m]) \in Nat
      BY <3>2 DEF Texts
    <3>4. PICK i : i = q + m
      OBVIOUS
    <3>5. q + m - i <= Len(F[i]) /\ \A k \in 1 .. q + m - i : FALSE
      <4>1. q + m - i = 0 /\ Len(F[i]) \in Nat
        BY <3>1, <3>3, <3>4
      <4>. HIDE DEF F
      <4>. QED  BY <4>1
    <3>6. Begins(i)
      BY <3>5
    <3>7. Begins(q + m)
      BY <3>4, <3>6
    <3>. QED  BY <3>1, <3>7
  <2>2. ASSUME NEW d \in 1 .. m, \A e \in d + 1 .. m + 1 : e \in B PROVE d \in B
    <3>1. PICK i \in 1 .. n : i = q + d - 1 /\ q <= i /\ i < q + m /\ q + (d + 1) - 1 = i + 1
      <4>1. q + d - 1 \in 1 .. n /\ q <= q + d - 1 /\ q + d - 1 < q + m /\ q + (d + 1) - 1 = q + d - 1 + 1
        BY <1>3, <1>4
      <4>. QED  BY <4>1
    <3>2. d + 1 \in d + 1 .. m + 1 /\ d \in 1 .. m + 1
      BY <1>3
    <3>3. Begins(i + 1)
      <4>1. d + 1 \in B
        BY <2>2, <3>2
      <4>. HIDE DEF Begins
      <4>. QED  BY <3>1, <4>1
    <3>4. ~OccursAt(Placeholder(id), text, i)
      BY <1>5, <3>1
    <3>5. Keeps(F, text, i)
      BY <1>1, <1>3, <3>1, <3>4, PutInKeeps
    <3>6. q + m - i <= Len(F[i])
      <4>1. PICK l \in Nat : l = Len(F[i + 1])
        BY <3>5 DEF Keeps
      <4>2. Len(F[i]) = 1 + l /\ q + m - (i + 1) <= l
        BY <3>3, <3>5, <4>1 DEF Keeps
      <4>3. q + m - i <= 1 + l
        BY <1>3, <3>1, <4>2
      <4>. QED  BY <4>2, <4>3
    <3>7. ASSUME NEW k \in 1 .. q + m - i PROVE F[i][k] = text[i + k - 1]
      <4>1. CASE k = 1
        <5>1. F[i][1] = text[i] /\ i + 1 - 1 = i
          BY <3>5 DEF Keeps
        <5>. QED  BY <4>1, <5>1
      <4>2. CASE k # 1
        <5>1. PICK j \in 1 .. q + m - (i + 1) : k = 1 + j /\ i + k - 1 = i + 1 + j - 1
          <6>1. /\ k - 1 \in 1 .. q + m - (i + 1) /\ k = 1 + (k - 1)
                /\ i + k - 1 = i + 1 + (k - 1) - 1
            BY <1>3, <4>2
          <6>. QED  BY <6>1
        <5>2. F[i + 1][j] = text[i + 1 + j - 1] /\ q + m - (i + 1) <= Len(F[i + 1])
          BY <3>3, <5>1
        <5>3. j \in 1 .. Len(F[i + 1])
          <6>1. PICK l \in Nat : l = Len(F[i + 1])
            BY <3>5 DEF Keeps
          <6>2. j \in 1 .. l
            BY <1>3, <5>2, <6>1
          <6>. QED  BY <6>1, <6>2
        <5>4. F[i][1 + j] = F[i + 1][j]
          BY <3>5, <5>3 DEF Keeps
        <5>. QED  BY <5>1, <5>2, <5>4
      <4>. QED  BY <4>1, <4>2
    <3>8. Begins(i)
      BY <3>6, <3>7
    <3>. HIDE DEF Begins
    <3>. QED  BY <3>1, <3>2, <3>8
  <2>. HIDE DEF B
  <2>3. \A d \in 1 .. m + 1 : d \in B
    BY <1>3, <2>1, <2>2, Backwards
  <2>4. 1 \in B /\ q + 1 - 1 = q
    BY <1>3, <2>3
  <2>. HIDE DEF Begins
  <2>. QED  BY <2>4 DEF B
<1>7. Occurs(part, F[q])
  <2>1. F[q] \in Texts /\ q + m - q = m
    <3>1. q \in 1 .. n + 1
      BY <1>3
    <3>. QED  BY <1>1, <1>3, <3>1 DEF PutIn
  <2>2. Len(part) <= Len(F[q])
    BY <1>3, <1>6, <2>1
  <2>3. ASSUME NEW k \in 1 .. Len(part) PROVE F[q][k] = part[k]
    BY <1>3, <1>4, <1>6, <2>1
  <2>. QED  BY <1>3, <2>1, <2>2, <2>3, OccursInFront
<1>. DEFINE G == {i \in 1 .. q : Occurs(part, F[i])}
<1>. HIDE DEF Begins, B
<1>8. PICK p \in Nat : p + 1 = q
  <2>1. q - 1 \in Nat /\ q - 1 + 1 = q
    BY <1>3
  <2>. QED  BY <2>1
<1>9. ASSUME NEW i \in 1 .. p, \A j \in i + 1 .. p + 1 : j \in G PROVE i \in G
  <2>1. i \in 1 .. Len(text) /\ i \in 1 .. q /\ i + 1 \in i + 1 .. p + 1 /\ i < q + m /\ i \in 1 .. n
    BY <1>3, <1>8
  <2>2. CASE OccursAt(Placeholder(id), text, i)
    <3>1. i + 3 \in i + 1 .. p + 1
      BY <1>5, <1>8, <2>1, <2>2
    <3>2. Occurs(part, F[i + 3])
      BY <1>9, <3>1
    <3>3. F[i + 3] \in Texts /\ F[i] = Joined(new, F[i + 3])
      BY <1>1, <2>1, <2>2, PutInThere
    <3>4. Occurs(part, F[i])
      BY <1>3, <3>2, <3>3, OccursInTail
    <3>. QED  BY <2>1, <3>4
  <2>3. CASE ~OccursAt(Placeholder(id), text, i)
    <3>1. Occurs(part, F[i + 1])
      BY <1>9, <2>1
    <3>2. F[i + 1] \in Texts /\ <<text[i]>> \in Texts /\ F[i] = Joined(<<text[i]>>, F[i + 1])
      BY <1>1, <2>1, <2>3, PutInElsewhere
    <3>3. Occurs(part, F[i])
      BY <1>3, <3>1, <3>2, OccursInTail
    <3>. QED  BY <2>1, <3>3
  <2>. QED  BY <2>2, <2>3
<1>10. p + 1 \in G
  <2>1. q \in 1 .. q
    BY <1>3
  <2>. QED  BY <1>7, <1>8, <2>1
<1>. HIDE DEF G
<1>11. 1 \in G
  <2>1. 1 \in 1 .. p + 1
    BY <1>8
  <2>. QED  BY <1>9, <1>10, <2>1, Backwards
<1>. QED  BY <1>11 DEF F, G, Replaced

\* Other references are there still,
LEMMA OthersSurvive ==
  ASSUME NEW text \in Texts, NEW new \in Texts, NEW id \in 1 .. 3, NEW p \in 1 .. 3, p # id,
         Occurs(Placeholder(p), text)
  PROVE  Occurs(Placeholder(p), Replaced(text, Placeholder(id), new))
<1>0. PICK n \in Nat : n = Len(text)
  BY DEF Texts
<1>1. /\ Mark[p] # Mark[id] /\ Mark[p] # "[Pasted" /\ Mark[id] # "[Pasted"
      /\ Blank # Mark[p] /\ Blank # Mark[id] /\ Blank # "[Pasted"
  <2>1. Mark[p] # Mark[id] /\ Mark[p] # "[Pasted" /\ Mark[id] # "[Pasted"
    BY DEF Mark
  <2>2. Blank # Mark[p] /\ Blank # Mark[id] /\ Blank # "[Pasted"
    BY MarksOK
  <2>. QED  BY <2>1, <2>2
<1>2. PICK part \in Texts : part = Placeholder(p) /\ Len(part) = 3
  BY PlaceholderType
<1>3. ASSUME NEW i \in 1 .. Len(text), NEW k \in 1 .. Len(text),
             OccursAt(part, text, i), OccursAt(Placeholder(id), text, k)
      PROVE  i + Len(part) <= k \/ k + 3 <= i
  <2>1. text[i] = "[Pasted" /\ text[i + 1] = Blank /\ text[i + 2] = Mark[p]
    BY <1>2, <1>3, PlaceholderAt
  <2>2. text[k] = "[Pasted" /\ text[k + 1] = Blank /\ text[k + 2] = Mark[id]
    BY <1>3, PlaceholderAt
  <2>3. k # i /\ k # i + 1 /\ k # i + 2 /\ k + 1 # i /\ k + 2 # i
    BY <1>1, <2>1, <2>2
  <2>4. i + 3 <= k \/ k + 3 <= i
    BY <1>0, <2>3
  <2>. QED  BY <1>2, <2>4
<1>4. Occurs(part, text) /\ Len(part) > 0
  BY <1>2
<1>5. Occurs(part, Replaced(text, Placeholder(id), new))
  BY <1>2, <1>3, <1>4, Survives
<1>. QED  BY <1>2, <1>5

\* and what was put in before, if it is unmarked.
LEMMA PastedSurvives ==
  ASSUME NEW text \in Texts, NEW new \in Texts, NEW id \in 1 .. 3, NEW part \in Pastable,
         Unmarked(part), Occurs(part, text)
  PROVE  Occurs(part, Replaced(text, Placeholder(id), new))
<1>0. PICK n \in Nat, m \in Nat : n = Len(text) /\ m = Len(part) /\ m > 0
  <2>1. Len(text) \in Nat /\ Len(part) \in Nat /\ Len(part) > 0
    BY PastableIs DEF Texts
  <2>. QED  BY <2>1
<1>1. /\ part \in Texts
      /\ \A j \in 1 .. m : part[j] \notin Marks
      /\ m = 1 => part[1] # Blank
  BY <1>0, PastableIs, UnmarkedIs
<1>2. "[Pasted" \in Marks /\ Mark[id] \in Marks
  BY MarksOK
<1>3. ASSUME NEW i \in 1 .. Len(text), NEW k \in 1 .. Len(text),
             OccursAt(part, text, i), OccursAt(Placeholder(id), text, k)
      PROVE  i + Len(part) <= k \/ k + 3 <= i
  <2>1. \A j \in 1 .. m : text[i + j - 1] = part[j]
    BY <1>0, <1>1, <1>3, OccursAtDef
  <2>2. text[k] \in Marks /\ text[k + 1] = Blank /\ text[k + 2] \in Marks
    BY <1>2, <1>3, PlaceholderAt
  <2>3. ASSUME NEW c \in i .. i + m - 1 PROVE text[c] \notin Marks
    <3>1. c - i + 1 \in 1 .. m /\ i + (c - i + 1) - 1 = c
      BY <1>0
    <3>. QED  BY <1>1, <2>1, <3>1
  <2>4. k \notin i .. i + m - 1 /\ k + 2 \notin i .. i + m - 1
    BY <2>2, <2>3
  <2>5. ~(k + 1 = i /\ m = 1)
    <3>1. SUFFICES ASSUME k + 1 = i, m = 1 PROVE FALSE
      OBVIOUS
    <3>2. 1 \in 1 .. m /\ i + 1 - 1 = i
      BY <3>1
    <3>3. text[i] = part[1]
      BY <2>1, <3>2
    <3>. QED  BY <1>1, <2>2, <3>1, <3>3
  <2>6. i + m <= k \/ k + 3 <= i
    BY <1>0, <2>4, <2>5
  <2>. QED  BY <1>0, <2>6
<1>4. Len(part) > 0
  BY <1>0
<1>. QED  BY <1>1, <1>3, <1>4, Survives

-----------------------------------------------------------------------------
(* The expansion of a line *)

\* The blocks of a line are about what was pasted.
Truthful(blocks) ==
  \A i \in 1 .. Len(blocks) :
    /\ blocks[i].id \in 1 .. Len(pasted) /\ blocks[i].text = pasted[blocks[i].id]
    /\ blocks[i].placeholder = Placeholder(blocks[i].id)

AllUnmarked(blocks) == \A i \in 1 .. Len(blocks) : Unmarked(blocks[i].text)

\* A reference with a block has given way to its text, one without is there still.
LEMMA Expanded ==
  ASSUME NEW text \in Texts, NEW blocks \in Seq(Block), Truthful(blocks),
         pasted \in Seq(Pastable), Len(pasted) \in 0 .. 3,
         NEW id \in 1 .. Len(pasted), Occurs(Placeholder(id), text)
  PROVE  IF \E i \in 1 .. Len(blocks) : blocks[i].id = id
           THEN /\ Unmarked(pasted[id]) => Occurs(pasted[id], ExpandPastedBlocks(text, blocks))
                /\ AllUnmarked(blocks) => ~Occurs(Placeholder(id), ExpandPastedBlocks(text, blocks))
           ELSE Occurs(Placeholder(id), ExpandPastedBlocks(text, blocks))
<1>. DEFINE N == Len(blocks)
            F == Expansions(text, blocks)
            Has(i) == \E j \in i .. N : blocks[j].id = id
            In(t) == /\ Unmarked(pasted[id]) => Occurs(pasted[id], t)
                     /\ AllUnmarked(blocks) => ~Occurs(Placeholder(id), t)
            Good(i) == /\ F[i] \in Texts
                       /\ Has(i) => In(F[i])
                       /\ ~Has(i) => Occurs(Placeholder(id), F[i])
            G == {i \in 1 .. N + 1 : Good(i)}
<1>0. N \in Nat /\ id \in 1 .. 3 /\ pasted[id] \in Pastable
  BY DEF Truthful
<1>1. /\ F[N + 1] = text
      /\ \A i \in 1 .. N : F[i] = Replaced(F[i + 1], blocks[i].placeholder, blocks[i].text)
  BY <1>0, ExpansionsDef
<1>. HIDE DEF N, F
<1>2. N + 1 \in G
  <2>1. ~Has(N + 1) /\ N + 1 \in 1 .. N + 1
    BY <1>0
  <2>. QED  BY <1>1, <2>1
<1>3. ASSUME NEW i \in 1 .. N, Good(i + 1) PROVE Good(i)
  <2>1. PICK b \in Block : b = blocks[i]
    BY DEF N
  <2>2. PICK p \in 1 .. 3 : /\ p = b.id /\ p \in 1 .. Len(pasted) /\ b.text = pasted[p]
                            /\ b.placeholder = Placeholder(p)
    BY <2>1 DEF N, Truthful
  <2>3. pasted[p] \in Pastable /\ pasted[p] \in Texts /\ Len(pasted[p]) > 0
    <3>1. pasted[p] \in Pastable
      BY <2>2
    <3>. QED  BY <3>1, PastableIs
  <2>4. PICK new \in Pastable : new = pasted[p] /\ new \in Texts /\ Len(new) > 0
    BY <2>3
  <2>5. PICK t \in Texts : t = F[i + 1] /\ F[i] = Replaced(t, Placeholder(p), new)
    BY <1>1, <1>3, <2>1, <2>2, <2>4
  <2>6. F[i] \in Texts
    <3>1. PICK q : q = Placeholder(p) /\ Len(q) = 3
      BY PlaceholderType
    <3>2. Replaced(t, q, new) \in Seq(Characters)
      <4>1. t \in Seq(Characters) /\ new \in Seq(Characters) /\ Len(q) \in Nat \ {0}
        BY <2>4, <3>1 DEF Texts
      <4>. QED  BY <4>1, ReplacedType
    <3>. QED  BY <2>5, <3>1, <3>2 DEF Texts
  <2>7. Has(i) <=> p = id \/ Has(i + 1)
    BY <1>0, <2>1, <2>2
  <2>0. AllUnmarked(blocks) => Unmarked(new)
    BY <2>1, <2>2, <2>4 DEF AllUnmarked, N
  <2>8. CASE Has(i + 1)
    <3>1. In(t)
      BY <1>3, <2>5, <2>8
    <3>2. ASSUME Unmarked(pasted[id]) PROVE Occurs(pasted[id], F[i])
      BY <1>0, <2>4, <2>5, <3>1, <3>2, PastedSurvives
    <3>3. ASSUME AllUnmarked(blocks) PROVE ~Occurs(Placeholder(id), F[i])
      <4>0. ~Occurs(Placeholder(id), t) /\ Unmarked(new)
        BY <2>0, <3>1, <3>3
      <4>1. \A k \in 1 .. Len(t) : ~OccursAt(Placeholder(id), t, k)
        BY <4>0 DEF Occurs, Texts
      <4>. QED  BY <1>0, <2>4, <2>5, <4>0, <4>1, NoneLeft
    <3>. QED  BY <2>6, <2>7, <2>8, <3>2, <3>3
  <2>9. CASE ~Has(i + 1) /\ p = id
    <3>1. Occurs(Placeholder(id), t)
      BY <1>3, <2>5, <2>9
    <3>2. Occurs(new, F[i])
      BY <1>0, <2>4, <2>5, <2>9, <3>1, NewAppears
    <3>3. ASSUME AllUnmarked(blocks) PROVE ~Occurs(Placeholder(id), F[i])
      BY <1>0, <2>0, <2>4, <2>5, <2>9, <3>3, NoneLeft
    <3>. QED  BY <2>4, <2>6, <2>7, <2>9, <3>2, <3>3
  <2>10. CASE ~Has(i + 1) /\ p # id
    <3>1. Occurs(Placeholder(id), t)
      BY <1>3, <2>5, <2>10
    <3>2. Occurs(Placeholder(id), F[i])
      BY <1>0, <2>4, <2>5, <2>10, <3>1, OthersSurvive
    <3>. QED  BY <2>6, <2>7, <2>10, <3>2
  <2>. QED  BY <2>8, <2>9, <2>10
<1>4. ASSUME NEW i \in 1 .. N, \A j \in i + 1 .. N + 1 : j \in G PROVE i \in G
  <2>1. i + 1 \in i + 1 .. N + 1 /\ i \in 1 .. N + 1
    BY <1>0
  <2>2. Good(i + 1)
    BY <1>4, <2>1
  <2>. HIDE DEF Good
  <2>. QED  BY <1>3, <2>1, <2>2
<1>. HIDE DEF G
<1>5. 1 \in G
  <2>1. 1 \in 1 .. N + 1
    BY <1>0
  <2>. QED  BY <1>0, <1>2, <1>4, <2>1, Backwards
<1>6. Good(1)
  BY <1>5 DEF G
<1>. QED  BY <1>6 DEF F, N, ExpandPastedBlocks

-----------------------------------------------------------------------------
(* Results *)

\* The cursor stays in the line, the index in the history, the selection in the
\* palette, and a block is about the text that was pasted under its id: whatever
\* is typed and pasted, and however far the cursor moves by words and by lines.
THEOREM TypeCorrect == Spec => []TypeOK
<1>1. IInv => TypeOK
  <2>. SUFFICES ASSUME IInv PROVE TypeOK
    OBVIOUS
  <2>1. Len(Mark) = 3
    BY DEF Mark
  <2>2. \A b \in ToSet(pasted_blocks) :
           b.id \in DOMAIN pasted /\ b.text = pasted[b.id] /\ b.placeholder = Placeholder(b.id)
    BY DEF IInv, PastesOK
  <2>3. next_paste_id \in 1 .. Len(Mark) + 1 /\ Len(pasted) = next_paste_id - 1
        /\ firstOfLine \in 1 .. next_paste_id
    BY <2>1 DEF IInv, PastesOK
  <2>. QED  BY <2>2, <2>3 DEF IInv, LineOK, HistoryOK, SubmittedOK, ScreenOK, TypeOK
<1>. QED  BY <1>1, InvariantOK, PTL

\* Whatever way the walk through the history takes, Down ends it at the line it
\* began with.
THEOREM DraftKept == Spec => DraftComesBack
<1>1. IInv /\ [Next]_vars
        => [history_index # 0 /\ history_index' = 0 /\ Down => buffer' = walkedFrom]_vars
  <2>. SUFFICES ASSUME IInv, history_index # 0, history_index' = 0, Down
                PROVE  buffer' = walkedFrom
    OBVIOUS
  <2>1. history_index \in Nat /\ history_index + 1 # 0
    BY DEF IInv, HistoryOK
  <2>2. Recalled(0, draft_buffer)
    BY <2>1 DEF Down, Recalled
  <2>. QED  BY <2>2 DEF IInv, DraftOK, Recalled
<1>. QED  BY <1>1, InvariantOK, PTL DEF Spec, DraftComesBack

LEMMA OnlyEnterSubmits == Next => EnterTakes \/ submitted' = NotSubmitted
<1>. SUFFICES ASSUME Next, ~EnterTakes PROVE submitted' = NotSubmitted
  OBVIOUS
<1>1. CASE \/ \E c \in Chars \cup {"\n"} : Type(c)
           \/ \E text \in Pastes : Paste(text)
  BY <1>1 DEF Type, Paste, Redraw
<1>2. CASE EnterCompletes \/ Tab
  BY <1>2 DEF EnterCompletes, Tab, Completed, Redraw
<1>3. CASE BackspaceBlock \/ Backspace \/ WordBackspace
  BY <1>3 DEF BackspaceBlock, Backspace, WordBackspace, DeleteTo, Redraw
<1>4. CASE Move \/ ArrowMoves \/ ArrowSelects
  BY <1>4 DEF Move, ArrowMoves, ArrowSelects, Redraw
<1>5. CASE Up \/ Down
  BY <1>5 DEF Up, Down, Recalled, Redraw
<1>6. CASE Scroll \/ ScrollToBottom \/ CtrlC \/ CtrlD \/ Tick
  BY <1>6 DEF Scroll, ScrollToBottom, CtrlC, CtrlD, Tick, LineStays
<1>. QED  BY <1>1, <1>2, <1>3, <1>4, <1>5, <1>6 DEF Next

\* What a reference of the line stands for is what is sent, whatever else is in
\* the line and in whatever order the blocks stand in it: an unmarked text arrives
\* unchanged even if another block's text holds references, and no reference of
\* the line is left if all its texts are unmarked.  A reference of an earlier line,
\* recalled, is sent as it is.  Of a text that itself holds a mark it says nothing:
\* expand_pasted_blocks puts a block in wherever its reference stands, in another
\* block's text too.
THEOREM SentIsPasted == Spec => PastesAreSent
<1>. DEFINE Kept(id) ==
       Occurs(Placeholder(id), submitted'.display) =>
           /\ (\E b \in ToSet(pasted_blocks) : b.id = id) =>
                /\ Unmarked(pasted[id]) => Occurs(pasted[id], submitted'.send)
                /\ (\A b \in ToSet(pasted_blocks) : Unmarked(b.text)) =>
                     ~Occurs(Placeholder(id), submitted'.send)
           /\ id < firstOfLine => Occurs(Placeholder(id), submitted'.send)
<1>1. ASSUME IInv, EnterTakes, submitted' # NotSubmitted, NEW id \in DOMAIN pasted
      PROVE  Kept(id)
  <2>. DEFINE display == Trim(buffer)
              send == ExpandPastedBlocks(display, pasted_blocks)
  <2>1. submitted' = [display |-> display, send |-> send]
    BY <1>1 DEF EnterTakes
  <2>2. display \in Texts
    BY <1>1, TrimType DEF IInv, LineOK
  <2>3. /\ pasted_blocks \in Seq(Block) /\ pasted \in Seq(Pastable)
        /\ Len(pasted) \in 0 .. 3 /\ id \in 1 .. Len(pasted)
    BY <1>1 DEF IInv, PastesOK
  <2>4. /\ \A i \in 1 .. Len(pasted_blocks) : pasted_blocks[i] \in ToSet(pasted_blocks)
        /\ \A b \in ToSet(pasted_blocks) : \E i \in 1 .. Len(pasted_blocks) : b = pasted_blocks[i]
    BY <2>3 DEF ToSet
  <2>5. Truthful(pasted_blocks)
    <3>1. ASSUME NEW b \in ToSet(pasted_blocks)
          PROVE  /\ b.id \in 1 .. Len(pasted) /\ b.text = pasted[b.id]
                 /\ b.placeholder = Placeholder(b.id)
      BY <1>1 DEF IInv, PastesOK
    <3>. QED  BY <2>4, <3>1 DEF Truthful
  <2>. HIDE DEF display
  <2>6. Occurs(Placeholder(id), display) =>
          IF \E i \in 1 .. Len(pasted_blocks) : pasted_blocks[i].id = id
            THEN /\ Unmarked(pasted[id]) => Occurs(pasted[id], send)
                 /\ AllUnmarked(pasted_blocks) => ~Occurs(Placeholder(id), send)
            ELSE Occurs(Placeholder(id), send)
    BY <2>2, <2>3, <2>5, Expanded
  <2>. HIDE DEF send
  <2>7. (\E b \in ToSet(pasted_blocks) : b.id = id)
           <=> \E i \in 1 .. Len(pasted_blocks) : pasted_blocks[i].id = id
    BY <2>4
  <2>8. id < firstOfLine => ~\E b \in ToSet(pasted_blocks) : b.id = id
    BY <1>1 DEF IInv, PastesOK
  <2>9. AllUnmarked(pasted_blocks) <=> \A b \in ToSet(pasted_blocks) : Unmarked(b.text)
    BY <2>4 DEF AllUnmarked
  <2>. QED  BY <2>1, <2>6, <2>7, <2>8, <2>9
<1>. HIDE DEF Kept
<1>2. IInv /\ [Next]_vars
        => [submitted' # NotSubmitted => \A id \in DOMAIN pasted : Kept(id)]_vars
  BY <1>1, OnlyEnterSubmits
<1>. QED  BY <1>2, InvariantOK, PTL DEF Spec, PastesAreSent, Kept

=============================================================================

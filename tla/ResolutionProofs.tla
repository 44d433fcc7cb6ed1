-------------------------- MODULE ResolutionProofs --------------------------
(***************************************************************************)
(* What a client of Resolution holds, for any stores, zones, names, calls  *)
(* and number of edits: its types, that the calls a matcher names are      *)
(* caught, that names lead to the hosts of their backends and never past   *)
(* the end of a list, and that the hosts hinted for a zone come first.     *)
(* The first part proves what the recursive functions of Names compute,    *)
(* from the well-foundedness of <.                                         *)
(***************************************************************************)
EXTENDS Resolution, WellFoundedInduction, TLAPS

(***************************************************************************)
(* Recursion. A function that recurs on one smaller argument exists: there *)
(* is one on the arguments up to any size, and two of them agree.          *)
(***************************************************************************)
LEMMA Smallest ==
  ASSUME NEW N \in SUBSET Nat, N # {}
  PROVE  \E n \in N : \A m \in N : n <= m
<1> DEFINE R == OpToRel(<, Nat)
<1>1. IsWellFoundedOn(R, Nat)
  BY NatLessThanWellFounded, Zenon
<1>2. PICK n \in N : \A m \in N : ~(<<m, n>> \in R)
  BY <1>1, WFMin, Zenon
<1>3. \A m \in N : m < n => <<m, n>> \in R
  BY DEF OpToRel
<1>4. \A m \in N : ~(m < n)
  BY <1>2, <1>3, Zenon
<1> HIDE DEF R
<1> QED BY <1>4

Recurs(S, T, B, size, pred, base, step) ==
  /\ size \in [S -> Nat] /\ pred \in [S -> S]
  /\ base \in [S -> T] /\ step \in [S -> [T -> T]]
  /\ \A x \in S : x \notin B => size[pred[x]] < size[x]

Computes(f, S, B, pred, base, step) ==
  \A x \in S : f[x] = IF x \in B THEN base[x] ELSE step[x][f[pred[x]]]

LEMMA Recursion ==
  ASSUME NEW S, NEW T, NEW B, NEW size, NEW pred, NEW base, NEW step,
         Recurs(S, T, B, size, pred, base, step)
  PROVE  \E f \in [S -> T] : Computes(f, S, B, pred, base, step)
<1> USE DEF Recurs
<1> DEFINE UpTo(k) == {x \in S : size[x] <= k}
           Solves(g, k) ==
             /\ g \in [UpTo(k) -> T]
             /\ \A x \in UpTo(k) : g[x] = IF x \in B THEN base[x] ELSE step[x][g[pred[x]]]
<1>0. ASSUME NEW k \in Nat, NEW x \in UpTo(k), x \notin B
      PROVE  pred[x] \in UpTo(k) /\ pred[x] \in UpTo(k - 1) /\ k # 0 /\ size[pred[x]] < size[x]
  BY <1>0
<1>1. ASSUME NEW j \in Nat, NEW k \in Nat, j <= k, NEW g, NEW h, Solves(g, j), Solves(h, k),
             NEW x \in UpTo(j)
      PROVE  g[x] = h[x]
  <2> DEFINE Apart == {y \in UpTo(j) : g[y] # h[y]}
             N == {size[y] : y \in Apart}
  <2> SUFFICES ASSUME x \in Apart PROVE FALSE
    OBVIOUS
  <2>1. N \in SUBSET Nat /\ N # {}
    <3>1. size[x] \in N /\ \A y \in Apart : size[y] \in Nat
      BY Zenon
    <3> QED BY <3>1, Zenon
  <2>2. PICK y \in Apart : \A z \in Apart : size[y] <= size[z]
    <3>1. PICK n \in N : \A m \in N : n <= m
      BY <2>1, Smallest, Zenon
    <3>2. PICK y \in Apart : n = size[y]
      BY <3>1, Zenon
    <3>3. \A z \in Apart : size[z] \in N
      BY Zenon
    <3> QED BY <3>1, <3>2, <3>3, Zenon
  <2>3. UpTo(j) \subseteq UpTo(k)
    BY <1>1
  <2>4. CASE y \in B
    BY <1>1, <2>2, <2>3, <2>4, Zenon
  <2>5. CASE y \notin B
    <3>1. pred[y] \in UpTo(j) /\ size[pred[y]] < size[y]
      BY <1>0, <2>2, <2>5, Zenon
    <3>2. pred[y] \notin Apart
      BY <2>2, <3>1
    <3>3. g[pred[y]] = h[pred[y]]
      BY <3>1, <3>2, Zenon
    <3>4. /\ y \in UpTo(j) /\ y \in UpTo(k) /\ g[y] # h[y]
          /\ g[y] = step[y][g[pred[y]]] /\ h[y] = step[y][h[pred[y]]]
      <4> HIDE DEF Recurs
      <4> QED BY <1>1, <2>2, <2>3, <2>5, Zenon
    <3> QED BY <3>3, <3>4, Zenon
  <2> QED BY <2>4, <2>5, Zenon
<1>2. ASSUME NEW k \in Nat PROVE \E g : Solves(g, k)
  <2> DEFINE N == {n \in Nat : ~\E g : Solves(g, n)}
  <2> SUFFICES ASSUME N # {} PROVE FALSE
    BY Zenon
  <2>1. PICK n \in N : \A m \in N : n <= m
    BY Smallest, Zenon
  <2>2. CASE n = 0
    <3> DEFINE g == [x \in UpTo(n) |-> base[x]]
    <3>1. \A x \in UpTo(n) : x \in B
      BY <1>0, <2>1, <2>2, Zenon
    <3>2. g \in [UpTo(n) -> T]
      OBVIOUS
    <3>3. Solves(g, n)
      BY <3>1, <3>2, Zenon
    <3> QED BY <2>1, <3>3, Zenon
  <2>3. CASE n # 0
    <3>1. n - 1 \in Nat /\ ~(n <= n - 1)
      BY <2>1, <2>3
    <3>2. PICK h : Solves(h, n - 1)
      BY <2>1, <3>1, Zenon
    <3> DEFINE g == [x \in UpTo(n) |-> IF x \in B THEN base[x] ELSE step[x][h[pred[x]]]]
    <3>3. UpTo(n - 1) \subseteq UpTo(n)
      BY <2>1, <3>1
    <3>4. \A y \in UpTo(n - 1) : g[y] = h[y]
      BY <3>2, <3>3, Zenon
    <3>5. \A x \in UpTo(n) : x \notin B => h[pred[x]] \in T /\ g[pred[x]] = h[pred[x]]
      BY <1>0, <2>1, <3>2, <3>4, Zenon
    <3>6. g \in [UpTo(n) -> T]
      <4>1. \A x \in UpTo(n) :
              base[x] \in T /\ (x \notin B => step[x][h[pred[x]]] \in T)
        <5>1. \A x \in S : base[x] \in T /\ step[x] \in [T -> T]
          BY Zenon
        <5> HIDE DEF Recurs
        <5> QED BY <3>5, <5>1, Zenon
      <4> QED BY <4>1, Zenon
    <3>7. Solves(g, n)
      BY <3>5, <3>6, Zenon
    <3> QED BY <2>1, <3>7, Zenon
  <2> QED BY <2>2, <2>3, Zenon
<1> DEFINE G(k) == CHOOSE g : Solves(g, k)
           f == [x \in S |-> G(size[x])[x]]
<1>3. ASSUME NEW k \in Nat PROVE Solves(G(k), k)
  BY <1>2, <1>3, Zenon
<1>4. \A x \in S : size[x] \in Nat /\ x \in UpTo(size[x])
  OBVIOUS
<1> HIDE DEF G
<1>5. f \in [S -> T]
  <2>1. ASSUME NEW x \in S PROVE G(size[x])[x] \in T
    <3>1. size[x] \in Nat /\ x \in UpTo(size[x])
      BY <1>4, Zenon
    <3>2. G(size[x]) \in [UpTo(size[x]) -> T]
      <4>1. Solves(G(size[x]), size[x])
        <5> HIDE DEF Solves
        <5> QED BY <1>3, <3>1, Zenon
      <4> QED BY <4>1, Zenon
    <3> QED BY <3>1, <3>2, Zenon
  <2> QED BY <2>1, Zenon
<1>6. ASSUME NEW x \in S PROVE f[x] = IF x \in B THEN base[x] ELSE step[x][f[pred[x]]]
  <2>1. CASE x \in B
    BY <1>3, <1>4, <2>1, Zenon
  <2>2. CASE x \notin B
    <3> DEFINE y == pred[x]
    <3>1. y \in S /\ size[y] \in Nat /\ size[x] \in Nat /\ size[y] <= size[x] /\ y \in UpTo(size[y])
      BY <2>2
    <3>2. G(size[y])[y] = G(size[x])[y]
      <4>1. Solves(G(size[y]), size[y]) /\ Solves(G(size[x]), size[x])
        BY <1>3, <3>1, Zenon
      <4> HIDE DEF Solves, UpTo, y
      <4> QED BY <1>1, <3>1, <4>1
    <3>3. G(size[x])[x] = step[x][G(size[x])[y]]
      BY <1>3, <1>4, <2>2, Zenon
    <3> QED BY <2>2, <3>1, <3>2, <3>3, Zenon
  <2> QED BY <2>1, <2>2, Zenon
<1> QED BY <1>5, <1>6, Zenon DEF Computes
-----------------------------------------------------------------------------
(* Sequences and the sets of their elements. *)

LEMMA SeqElements ==
  ASSUME NEW A, NEW s \in Seq(A)
  PROVE  /\ DOMAIN s = 1..Len(s) /\ Len(s) \in Nat
         /\ \A i \in DOMAIN s : s[i] \in A
         /\ Range(s) \subseteq A /\ s \in Seq(Range(s))
         /\ s = <<>> <=> Range(s) = {}
BY DEF Range

LEMMA ConcatElements ==
  ASSUME NEW A, NEW s \in Seq(A), NEW t \in Seq(A)
  PROVE  s \o t \in Seq(A) /\ Range(s \o t) = Range(s) \cup Range(t)
<1>1. s \o t \in Seq(A) /\ Len(s \o t) = Len(s) + Len(t)
  OBVIOUS
<1>2. ASSUME NEW i \in DOMAIN (s \o t) PROVE (s \o t)[i] \in Range(s) \cup Range(t)
  BY <1>1 DEF Range
<1>3. ASSUME NEW i \in DOMAIN s PROVE s[i] \in Range(s \o t)
  <2>1. i \in DOMAIN (s \o t) /\ (s \o t)[i] = s[i]
    OBVIOUS
  <2> QED BY <2>1, Zenon DEF Range
<1>4. ASSUME NEW i \in DOMAIN t PROVE t[i] \in Range(s \o t)
  <2>1. Len(s) + i \in DOMAIN (s \o t) /\ (s \o t)[Len(s) + i] = t[i]
    OBVIOUS
  <2> QED BY <2>1, Zenon DEF Range
<1> QED BY <1>1, <1>2, <1>3, <1>4, Zenon DEF Range

LEMMA FlattenElements ==
  ASSUME NEW A, NEW seqs \in Seq(Seq(A))
  PROVE  /\ FlattenSeq(seqs) \in Seq(A)
         /\ Range(FlattenSeq(seqs)) = UNION {Range(seqs[i]) : i \in DOMAIN seqs}
<1> DEFINE n == Len(seqs)
           flat == CHOOSE fl : fl = [i \in 0..n |-> IF i = 0 THEN <<>>
                                                    ELSE fl[i - 1] \o seqs[i]]
<1>0. n \in Nat /\ DOMAIN seqs = 1..n /\ \A i \in 1..n : seqs[i] \in Seq(A)
  OBVIOUS
<1>1. FlattenSeq(seqs) = flat[n]
  BY Zenon DEF FlattenSeq
<1>2. \E fl \in [0..n -> Seq(A)] :
         \A i \in 0..n : fl[i] = IF i = 0 THEN <<>> ELSE fl[i - 1] \o seqs[i]
  <2> DEFINE I == 0..n
             T == Seq(A)
             B == {0}
             size == [i \in I |-> i]
             pred == [i \in I |-> IF i = 0 THEN 0 ELSE i - 1]
             base == [i \in I |-> <<>>]
             step == [i \in I |-> [t \in T |-> IF i = 0 THEN t ELSE t \o seqs[i]]]
  <2>1. size \in [I -> Nat] /\ pred \in [I -> I] /\ base \in [I -> T]
    BY <1>0
  <2>2. step \in [I -> [T -> T]]
    BY <1>0, ConcatElements
  <2>3. \A i \in I : i \notin B => size[pred[i]] < size[i]
    BY <1>0
  <2> HIDE DEF I, T, B, size, pred, base, step
  <2>4. PICK fl \in [I -> T] : Computes(fl, I, B, pred, base, step)
    <3>1. Recurs(I, T, B, size, pred, base, step)
      BY <2>1, <2>2, <2>3, Zenon DEF Recurs
    <3> QED BY <3>1, Recursion, Zenon
  <2>5. ASSUME NEW i \in I PROVE fl[i] = IF i = 0 THEN <<>> ELSE fl[i - 1] \o seqs[i]
    <3>1. pred[i] \in I /\ fl[pred[i]] \in T
      BY <2>1, <2>4, Zenon
    <3>2. base[i] = <<>> /\ (i # 0 => step[i][fl[pred[i]]] = fl[pred[i]] \o seqs[i])
      BY <3>1, Zenon DEF base, step
    <3>3. i # 0 => pred[i] = i - 1
      BY Zenon DEF pred
    <3> QED BY <2>4, <3>2, <3>3, Zenon DEF B, Computes
  <2> QED BY <2>5, Zenon DEF I, T
<1>3. flat = [i \in 0..n |-> IF i = 0 THEN <<>> ELSE flat[i - 1] \o seqs[i]]
  <2>1. \E fl : fl = [i \in 0..n |-> IF i = 0 THEN <<>> ELSE fl[i - 1] \o seqs[i]]
    BY <1>2, Zenon
  <2> QED BY <2>1, Zenon
<1> HIDE DEF flat
<1> DEFINE Good(i) == /\ flat[i] \in Seq(A)
                      /\ Range(flat[i]) = UNION {Range(seqs[j]) : j \in 1..i}
           N == {i \in 0..n : ~Good(i)}
<1> HIDE DEF Good
<1>4. N = {}
  <2> SUFFICES ASSUME N # {} PROVE FALSE
    OBVIOUS
  <2>1. PICK i \in N : \A j \in N : i <= j
    <3>1. N \in SUBSET Nat
      BY <1>0
    <3> QED BY <3>1, Smallest, Zenon
  <2>2. CASE i = 0
    <3>1. flat[i] = <<>>
      BY <1>3, <2>1, <2>2, Zenon
    <3>2. 1..i = {} /\ <<>> \in Seq(A) /\ DOMAIN <<>> = {}
      BY <2>2
    <3>3. Range(<<>>) = {}
      BY <3>2, Zenon DEF Range
    <3>4. UNION {Range(seqs[j]) : j \in 1..i} = {}
      BY <3>2, Zenon
    <3> QED BY <2>1, <3>1, <3>2, <3>3, <3>4, Zenon DEF Good
  <2>3. CASE i # 0
    <3>1. /\ i - 1 \in 0..n /\ i - 1 \notin N /\ 1..i = (1..(i - 1)) \cup {i}
          /\ i \in 0..n /\ i \in 1..n
      BY <1>0, <2>1, <2>3
    <3>2. Good(i - 1)
      BY <3>1, Zenon
    <3>3. flat[i] = flat[i - 1] \o seqs[i] /\ seqs[i] \in Seq(A)
      BY <1>0, <1>3, <2>3, <3>1, Zenon
    <3>4. flat[i] \in Seq(A) /\ Range(flat[i]) = Range(flat[i - 1]) \cup Range(seqs[i])
      <4>1. flat[i - 1] \in Seq(A)
        BY <3>2, Zenon DEF Good
      <4>2. /\ flat[i - 1] \o seqs[i] \in Seq(A)
            /\ Range(flat[i - 1] \o seqs[i]) = Range(flat[i - 1]) \cup Range(seqs[i])
        <5>1. seqs[i] \in Seq(A)
          BY <3>3, Zenon
        <5> QED BY <4>1, <5>1, ConcatElements
      <4> QED BY <3>3, <4>2, Zenon
    <3> DEFINE U(J) == UNION {Range(seqs[j]) : j \in J}
    <3>5. U((1..(i - 1)) \cup {i}) = U(1..(i - 1)) \cup Range(seqs[i])
      BY Zenon
    <3>6. U(1..i) = U(1..(i - 1)) \cup Range(seqs[i])
      BY <3>1, <3>5, Zenon
    <3>7. Range(flat[i - 1]) = U(1..(i - 1))
      BY <3>2, Zenon DEF Good
    <3>8. Range(flat[i]) = U(1..i)
      BY <3>4, <3>6, <3>7, Zenon
    <3> QED BY <2>1, <3>4, <3>8, Zenon DEF Good
  <2> QED BY <2>2, <2>3, Zenon
<1>5. n \in 0..n
  BY <1>0
<1>6. Good(n)
  BY <1>4, <1>5, Zenon
<1> QED BY <1>0, <1>1, <1>6, Zenon DEF Good

LEMMA DivMod ==
  ASSUME NEW n \in Nat
  PROVE  /\ n \div 10 \in Nat /\ n % 10 \in 0..9
         /\ n >= 10 => n \div 10 < n
         /\ n = 10 * (n \div 10) + (n % 10)
OBVIOUS

LEMMA DigitsDef ==
  ASSUME NEW n \in Nat
  PROVE  /\ Digits[n] = IF n < 10 THEN <<n>> ELSE Append(Digits[n \div 10], n % 10)
         /\ Digits[n] \in Seq(0..9)
<1> DEFINE T == Seq(0..9)
           B == 0..9
           size == [k \in Nat |-> k]
           pred == [k \in Nat |-> k \div 10]
           base == [k \in Nat |-> IF k < 10 THEN <<k>> ELSE <<>>]
           step == [k \in Nat |-> [t \in T |-> Append(t, k % 10)]]
<1>1. size \in [Nat -> Nat] /\ pred \in [Nat -> Nat]
  BY DivMod, Zenon
<1>2. base \in [Nat -> T]
  <2>1. <<>> \in T /\ \A k \in Nat : k < 10 => <<k>> \in T
    OBVIOUS
  <2> QED BY <2>1, Zenon
<1>3. step \in [Nat -> [T -> T]]
  <2>1. \A k \in Nat : k % 10 \in 0..9
    OBVIOUS
  <2>2. \A d \in 0..9, t \in T : Append(t, d) \in T
    OBVIOUS
  <2> QED BY <2>1, <2>2, Zenon
<1>4. \A k \in Nat : k \notin B => size[pred[k]] < size[k]
  OBVIOUS
<1>5. \A k \in Nat : k \in B <=> k < 10
  OBVIOUS
<1> HIDE DEF T, B, size, pred, base, step
<1>6. PICK f \in [Nat -> T] : Computes(f, Nat, B, pred, base, step)
  <2>1. Recurs(Nat, T, B, size, pred, base, step)
    BY <1>1, <1>2, <1>3, <1>4, Zenon DEF Recurs
  <2> QED BY <2>1, Recursion, Zenon
<1> DEFINE D == CHOOSE g : g = [k \in Nat |-> IF k < 10 THEN <<k>>
                                              ELSE Append(g[k \div 10], k % 10)]
<1>7. ASSUME NEW k \in Nat PROVE f[k] = IF k < 10 THEN <<k>> ELSE Append(f[k \div 10], k % 10)
  <2>1. pred[k] = k \div 10 /\ pred[k] \in Nat /\ f[pred[k]] \in T
    BY <1>1, <1>6, Zenon DEF pred
  <2>2. step[k][f[pred[k]]] = Append(f[pred[k]], k % 10)
    BY <2>1, Zenon DEF step
  <2>3. k < 10 => base[k] = <<k>>
    BY Zenon DEF base
  <2> QED BY <1>5, <1>6, <2>1, <2>2, <2>3, Zenon DEF Computes
<1>8. D = [k \in Nat |-> IF k < 10 THEN <<k>> ELSE Append(D[k \div 10], k % 10)]
  <2>1. f = [k \in Nat |-> IF k < 10 THEN <<k>> ELSE Append(f[k \div 10], k % 10)]
    BY <1>6, <1>7, Zenon
  <2> QED BY <2>1, Zenon
<1>9. Digits = D
  BY Zenon DEF Digits
<1> HIDE DEF D
<1>10. ASSUME NEW k \in Nat PROVE D[k] \in T
  <2> DEFINE N == {i \in Nat : D[i] \notin T}
  <2> SUFFICES ASSUME N # {} PROVE FALSE
    BY Zenon
  <2>1. PICK i \in N : \A j \in N : i <= j
    BY Smallest, Zenon
  <2>2. CASE i < 10
    <3>1. <<i>> \in T
      BY <2>1, <2>2 DEF T
    <3> QED BY <1>8, <2>1, <2>2, <3>1, Zenon
  <2>3. CASE ~(i < 10)
    <3>1. i \div 10 \in Nat /\ ~(i <= i \div 10) /\ i % 10 \in 0..9
      BY <2>1, <2>3
    <3>2. D[i \div 10] \in T
      BY <2>1, <3>1, Zenon
    <3>3. Append(D[i \div 10], i % 10) \in T
      BY <3>1, <3>2 DEF T
    <3> QED BY <1>8, <2>1, <2>3, <3>3, Zenon
  <2> QED BY <2>2, <2>3, Zenon
<1> QED BY <1>8, <1>9, <1>10, Zenon DEF T

LEMMA NumberDef ==
  ASSUME NEW s \in Seq(0..9)
  PROVE  Number[s] = IF s = <<>> THEN 0 ELSE 10 * Number[Front(s)] + Last(s)
<1> DEFINE S == Seq(0..9)
           B == {<<>>}
           size == [t \in S |-> Len(t)]
           pred == [t \in S |-> Front(t)]
           base == [t \in S |-> 0]
           step == [t \in S |-> [n \in Nat |-> IF t = <<>> THEN 0 ELSE 10 * n + Last(t)]]
<1>1. size \in [S -> Nat] /\ base \in [S -> Nat]
  OBVIOUS
<1>2. \A t \in S : Front(t) \in S /\ (t # <<>> => Len(Front(t)) < Len(t) /\ Last(t) \in Nat)
  BY SMTT(20) DEF Front, Last
<1>3. pred \in [S -> S]
  BY <1>2, Zenon
<1>4. step \in [S -> [Nat -> Nat]]
  BY <1>2
<1>5. \A t \in S : t \notin B => size[pred[t]] < size[t]
  BY <1>2
<1> HIDE DEF S, B, size, pred, base, step
<1>6. PICK f \in [S -> Nat] : Computes(f, S, B, pred, base, step)
  <2>1. Recurs(S, Nat, B, size, pred, base, step)
    BY <1>1, <1>3, <1>4, <1>5, Zenon DEF Recurs
  <2> QED BY <2>1, Recursion, Zenon
<1>7. ASSUME NEW t \in S PROVE f[t] = IF t = <<>> THEN 0 ELSE 10 * f[Front(t)] + Last(t)
  <2>1. pred[t] = Front(t) /\ pred[t] \in S /\ f[pred[t]] \in Nat
    BY <1>3, <1>6, Zenon DEF pred
  <2>2. t # <<>> => step[t][f[pred[t]]] = 10 * f[pred[t]] + Last(t)
    BY <2>1, Zenon DEF step
  <2>3. base[t] = 0
    BY Zenon DEF base
  <2> QED BY <1>6, <2>1, <2>2, <2>3, Zenon DEF Computes, B
<1> DEFINE V == CHOOSE g : g = [t \in S |-> IF t = <<>> THEN 0 ELSE 10 * g[Front(t)] + Last(t)]
<1>8. V = [t \in S |-> IF t = <<>> THEN 0 ELSE 10 * V[Front(t)] + Last(t)]
  <2>1. f = [t \in S |-> IF t = <<>> THEN 0 ELSE 10 * f[Front(t)] + Last(t)]
    BY <1>6, <1>7, Zenon
  <2> QED BY <2>1, Zenon
<1>9. Number = V
  BY Zenon DEF Number, S
<1> HIDE DEF V
<1> QED BY <1>8, <1>9, Zenon DEF S

LEMMA AtoiItoa == ASSUME NEW n \in Nat PROVE Atoi(Itoa(n)) = n
<1> DEFINE N == {i \in Nat : Number[Digits[i]] # i}
<1>1. N = {}
  <2> SUFFICES ASSUME N # {} PROVE FALSE
    OBVIOUS
  <2>1. PICK i \in N : \A j \in N : i <= j
    BY Smallest, Zenon
  <2>2. CASE i < 10
    <3> DEFINE s == <<i>>
    <3>1. s \in Seq(0..9) /\ s # <<>> /\ Front(s) = <<>> /\ Last(s) = i /\ <<>> \in Seq(0..9)
      BY <2>1, <2>2 DEF Front, Last
    <3>2. Digits[i] = s
      BY <2>1, <2>2, DigitsDef, Zenon
    <3> HIDE DEF s
    <3>3. Number[<<>>] = 0 /\ Number[s] = 10 * Number[Front(s)] + Last(s)
      BY <3>1, NumberDef, Zenon
    <3>4. Number[s] = i
      BY <2>1, <3>1, <3>3
    <3> QED BY <2>1, <3>2, <3>4, Zenon
  <2>3. CASE ~(i < 10)
    <3> DEFINE d == Digits[i \div 10]
               s == Append(d, i % 10)
    <3>1. i \div 10 \in Nat /\ ~(i <= i \div 10) /\ i % 10 \in 0..9
      BY <2>1, <2>3
    <3>2. d \in Seq(0..9) /\ Digits[i] = s
      BY <2>1, <2>3, <3>1, DigitsDef, Zenon
    <3>3. Number[d] = i \div 10
      BY <2>1, <3>1, Zenon
    <3> HIDE DEF d
    <3>4. s \in Seq(0..9) /\ s # <<>> /\ Front(s) = d /\ Last(s) = i % 10
      BY <3>1, <3>2 DEF Front, Last
    <3> HIDE DEF s
    <3>5. Number[s] = 10 * Number[Front(s)] + Last(s)
      BY <3>4, NumberDef, Zenon
    <3>6. i = 10 * (i \div 10) + (i % 10)
      BY <2>1, DivMod, Zenon
    <3>7. Number[s] = i
      BY <3>3, <3>4, <3>5, <3>6, Zenon
    <3> QED BY <2>1, <3>2, <3>7, Zenon
  <2> QED BY <2>2, <2>3, Zenon
<1>2. Number[Digits[n]] = n
  BY <1>1, Zenon
<1>3. "digits" \in DOMAIN Itoa(n) /\ Itoa(n).digits = Digits[n] /\ Itoa(n).sign # "-"
  BY DEF Itoa
<1> QED BY <1>2, <1>3, Zenon DEF Atoi

\* The names that makeWeightedClusters writes are read back by parseBackendName
\* and written again by parsedBackendName.String.
ReadsBack(ref, ns, nm, i, j) ==
  /\ ref.namespace = ns /\ ref.listener = nm
  /\ ref.routeID = i /\ ref.backendID = j
  /\ BackendString(ref) = backendName(ns, nm, i, j)

LEMMA NamesReadBack ==
  ASSUME NEW ns, NEW nm, NEW i \in Nat, NEW j \in Nat
  PROVE  ReadsBack(parseBackendName(backendName(ns, nm, i, j)), ns, nm, i, j)
<1> DEFINE path == backendName(ns, nm, i, j)
           ref == parseBackendName(path)
<1>1. /\ Len(path) = 6 /\ path[1] = Word(ns) /\ path[2] = Word(nm)
      /\ path[4] = Itoa(i) /\ path[6] = Itoa(j)
  BY DEF backendName
<1>2. Word(ns).word = ns /\ Word(nm).word = nm
  BY DEF Word
<1>3. Atoi(path[4]) = i /\ Atoi(path[6]) = j
  BY <1>1, AtoiItoa, Zenon
<1>a. Atoi(path[4]) \notin Failures /\ Atoi(path[6]) \notin Failures
  BY <1>3, FailuresAssumption, Zenon
<1> HIDE DEF path
<1>4. ref = [namespace |-> path[1].word, listener |-> path[2].word,
             routeID |-> Atoi(path[4]), backendID |-> Atoi(path[6])]
  BY <1>1, <1>a, Zenon DEF parseBackendName, Then
<1>5. ref = [namespace |-> ns, listener |-> nm, routeID |-> i, backendID |-> j]
  BY <1>1, <1>2, <1>3, <1>4, Zenon
<1>6. /\ ref.namespace = ns /\ ref.listener = nm
      /\ ref.routeID = i /\ ref.backendID = j
  BY <1>5
<1> QED BY <1>6, Zenon DEF ReadsBack, BackendString, path
-----------------------------------------------------------------------------
(* The answers of the resolvers that are no errors. *)

LEMMA ClusterAnswer ==
  ASSUME NEW path, resolveCluster(path) \notin Failures
  PROVE  resolveCluster(path).name = path /\ resolveCluster(path).serviceName = path
<1>1. PICK backend : resolveCluster(path) = makeCluster(path, backend)
  BY Zenon DEF resolveCluster, Then
<1> QED BY <1>1 DEF makeCluster

LEMMA EndpointAnswer ==
  ASSUME NEW path, resolveEndpoint(path) \notin Failures
  PROVE  LET ref == parseBackendName(path)
         IN  /\ ref \notin Failures /\ findBackend(ref) \notin Failures
             /\ resolveEndpoint(path) =
                  makeLoadAssignment(zone, ref, store.listener, findBackend(ref), store)
BY Zenon DEF resolveEndpoint, Then

\* A service wins over localities.
Groups(z, l, backend, s) ==
  CASE backend.service # Nil ->
         makeServiceLoadAssignment(z, l, backend.service, s)
    [] backend.service = Nil /\ backend.localities # <<>> ->
         makeLocalitiesLoadAssignment(l, backend.localities, s)
    [] OTHER -> Error

IsAssignment(answer, name, groups) ==
  answer.clusterName = name /\ answer.endpoints = groups /\ groups \notin Failures

LEMMA AssignmentAnswer ==
  ASSUME NEW ref, NEW backend, NEW z, NEW l, NEW s,
         makeLoadAssignment(z, ref, l, backend, s) \notin Failures
  PROVE  IsAssignment(makeLoadAssignment(z, ref, l, backend, s),
                      BackendString(ref), Groups(z, l, backend, s))
<1> DEFINE answer == makeLoadAssignment(z, ref, l, backend, s)
           name == BackendString(ref)
           groups == Groups(z, l, backend, s)
<1>1. groups \notin Failures /\ answer = [clusterName |-> name, endpoints |-> groups]
  BY Zenon DEF makeLoadAssignment, Then, Groups
<1> HIDE DEF answer, name, groups
<1>2. answer.clusterName = name /\ answer.endpoints = groups
  BY <1>1
<1> QED BY <1>1, <1>2, Zenon DEF IsAssignment, answer, name, groups

LEMMA EachAnswer ==
  ASSUME NEW results, Each(results) \notin Failures
  PROVE  Each(results) = results /\ \A i \in DOMAIN results : results[i] \notin Failures
BY Zenon DEF Each, Failures

\* The clusters of a route: one for each backend, with its name.
AreClusters(clusters, ns, nm, id, route) ==
  /\ clusters = [b \in DOMAIN route.backends |-> makeWeightedCluster(ns, nm, id, route, b)]
  /\ \A b \in DOMAIN route.backends : clusters[b].name = backendName(ns, nm, id, b - 1)

LEMMA ClustersAnswer ==
  ASSUME NEW ns, NEW nm, NEW id, NEW route, makeWeightedClusters(ns, nm, id, route) \notin Failures
  PROVE  AreClusters(makeWeightedClusters(ns, nm, id, route).clusters, ns, nm, id, route)
<1> DEFINE answer == makeWeightedClusters(ns, nm, id, route)
           results == [b \in DOMAIN route.backends |->
                         makeWeightedCluster(ns, nm, id, route, b)]
<1>1. PICK total : Each(results) \notin Failures /\ answer = [total |-> total, clusters |-> Each(results)]
  BY Zenon DEF makeWeightedClusters, Then
<1> HIDE DEF answer, results
<1>2. Each(results) = results /\ \A b \in DOMAIN results : results[b] \notin Failures
  BY <1>1, EachAnswer, Zenon
<1>3. /\ DOMAIN results = DOMAIN route.backends
      /\ \A b \in DOMAIN route.backends : results[b] = makeWeightedCluster(ns, nm, id, route, b)
  BY Zenon DEF results
<1>4. answer.clusters = results
  BY <1>1, <1>2
<1>5. ASSUME NEW b \in DOMAIN route.backends
      PROVE  results[b].name = backendName(ns, nm, id, b - 1)
  <2> DEFINE name == backendName(ns, nm, id, b - 1)
  <2>1. makeWeightedCluster(ns, nm, id, route, b) \notin Failures
    BY <1>2, <1>3, Zenon
  <2>2. PICK weight, overrides :
           makeWeightedCluster(ns, nm, id, route, b) =
             [name |-> name, weight |-> weight, overrides |-> overrides]
    BY <2>1, Zenon DEF makeWeightedCluster, Then
  <2> HIDE DEF name
  <2>3. results[b].name = name
    BY <1>3, <2>2
  <2> QED BY <2>3, Zenon DEF name
<1>6. AreClusters(results, ns, nm, id, route)
  BY <1>5, Zenon DEF AreClusters, results
<1> QED BY <1>4, <1>6, Zenon DEF answer

IsRoute(answer, l, id, route) ==
  /\ makeRouteMatch(route) \notin Failures /\ answer.match = makeRouteMatch(route)
  /\ AreClusters(answer.clusters.clusters, l.namespace, l.name, id, route)

LEMMA RouteAnswer ==
  ASSUME NEW l, NEW id, NEW route, makeRoute(l, id, route) \notin Failures
  PROVE  IsRoute(makeRoute(l, id, route), l, id, route)
<1> DEFINE answer == makeRoute(l, id, route)
           match == makeRouteMatch(route)
           clusters == makeWeightedClusters(l.namespace, l.name, id, route)
<1>1. match \notin Failures /\ clusters \notin Failures
  BY Zenon DEF makeRoute, Then
<1>p. PICK overrides, hashPolicy :
        answer = [match |-> match, overrides |-> overrides,
                  clusters |-> clusters, hashPolicy |-> hashPolicy]
  BY Zenon DEF makeRoute, Then
<1>2. AreClusters(clusters.clusters, l.namespace, l.name, id, route)
  BY <1>1, ClustersAnswer, Zenon
<1> HIDE DEF answer, match, clusters
<1>3. answer.match = match /\ answer.clusters = clusters
  BY <1>p
<1> QED BY <1>1, <1>2, <1>3, Zenon DEF IsRoute, answer, match

\* The message of a listener: its routes in order.
IsMessage(answer, path, l) ==
  /\ l # Nil /\ answer.name = path
  /\ answer.routes = [r \in DOMAIN l.routes |-> makeRoute(l, r - 1, l.routes[r])]
  /\ \A r \in DOMAIN l.routes : makeRoute(l, r - 1, l.routes[r]) \notin Failures

LEMMA ListenerAnswer ==
  ASSUME NEW path, NEW s, makeListener(path, s) \notin Failures
  PROVE  IsMessage(makeListener(path, s), path, s.listener)
<1> DEFINE l == s.listener
           results == [r \in DOMAIN l.routes |-> makeRoute(l, r - 1, l.routes[r])]
<1>1. PICK filters :
        /\ l # Nil /\ makeRouteConfig(l) \notin Failures
        /\ makeListener(path, s) =
             [name |-> path, filters |-> filters, routes |-> makeRouteConfig(l)]
  BY Zenon DEF makeListener, lookup, Then, Failures
<1>2. makeRouteConfig(l) = results /\ \A r \in DOMAIN results : results[r] \notin Failures
  BY <1>1, EachAnswer, Zenon DEF makeRouteConfig
<1>3. makeListener(path, s).name = path /\ makeListener(path, s).routes = makeRouteConfig(l)
  BY <1>1
<1> QED BY <1>1, <1>2, <1>3, Zenon DEF IsMessage
-----------------------------------------------------------------------------
(* What a client holds. *)

\* The name of a backend of some listener that the caches may hold.
IsBackendName(n) ==
  \E s \in Stores :
    /\ s.listener # Nil
    /\ \E r \in DOMAIN s.listener.routes :
         \E b \in DOMAIN s.listener.routes[r].backends :
           n = backendName(s.listener.namespace, s.listener.name, r - 1, b - 1)

\* TypeOK is not inductive: that an assignment carries the name it was asked for
\* needs the name to be one that the routes write, and one cluster to ask for
\* itself.
ResolutionInv ==
  /\ TypeOK
  /\ lds # Nil => lds \notin Failures /\ \A n \in ClusterNames(lds) : IsBackendName(n)
  /\ \A n \in DOMAIN cds : cds[n].serviceName = n
  /\ \A n \in DOMAIN eds : eds[n] \notin Failures

LEMMA SequenceDomain ==
  ASSUME NEW s, IsSeq(s)
  PROVE  /\ Len(s) \in Nat /\ DOMAIN s = 1..Len(s)
         /\ \A i \in DOMAIN s : i \in Nat /\ i - 1 \in Nat /\ s[i] \in Range(s)
BY DEF IsSeq, Range

\* The lists of a listener, by index.
LEMMA ListenerLists ==
  ASSUME NEW s \in Stores, s.listener # Nil
  PROVE  LET routes == s.listener.routes
         IN  /\ IsSeq(routes)
             /\ \A r \in DOMAIN routes :
                  /\ IsSeq(routes[r].backends)
                  /\ \A b \in DOMAIN routes[r].backends :
                       IsSeq(routes[r].backends[b].localities)
<1>1. IsListener(s.listener)
  BY StoresAssumption, Zenon
<1>2. IsSeq(s.listener.routes)
  BY <1>1, Zenon DEF IsListener
<1>3. ASSUME NEW r \in DOMAIN s.listener.routes
      PROVE  /\ s.listener.routes[r] \in Range(s.listener.routes)
             /\ IsSeq(s.listener.routes[r].backends)
  BY <1>1, <1>2, SequenceDomain, Zenon DEF IsListener
<1>4. ASSUME NEW r \in DOMAIN s.listener.routes, NEW b \in DOMAIN s.listener.routes[r].backends
      PROVE  IsSeq(s.listener.routes[r].backends[b].localities)
  <2>1. s.listener.routes[r].backends[b] \in Range(s.listener.routes[r].backends)
    BY <1>3, SequenceDomain, Zenon
  <2> QED BY <1>1, <1>3, <2>1, Zenon DEF IsListener
<1> QED BY <1>2, <1>3, <1>4, Zenon

\* The routes write names of backends only.
LEMMA ClustersAreBackends ==
  ASSUME NEW path, NEW s \in Stores, makeListener(path, s) \notin Failures,
         NEW n \in ClusterNames(makeListener(path, s))
  PROVE  IsBackendName(n)
<1> DEFINE l == s.listener
           answer == makeListener(path, s)
<1>1. PICK route \in Range(answer.routes) :
        \E c \in Range(route.clusters.clusters) : n = c.name
  BY Zenon DEF ClusterNames
<1>2. PICK r \in DOMAIN answer.routes : route = answer.routes[r]
  BY <1>1, Zenon DEF Range
<1>a. IsMessage(answer, path, l)
  BY ListenerAnswer, Zenon
<1> HIDE DEF answer, l
<1>3. /\ r \in DOMAIN l.routes
      /\ route = makeRoute(l, r - 1, l.routes[r]) /\ route \notin Failures
  BY <1>2, <1>a, Zenon DEF IsMessage
<1>4. AreClusters(route.clusters.clusters, l.namespace, l.name, r - 1, l.routes[r])
  BY <1>3, RouteAnswer, Zenon DEF IsRoute
<1>5. PICK b \in DOMAIN route.clusters.clusters : n = route.clusters.clusters[b].name
  BY <1>1, Zenon DEF Range
<1>6. b \in DOMAIN l.routes[r].backends /\ n = backendName(l.namespace, l.name, r - 1, b - 1)
  BY <1>4, <1>5, Zenon DEF AreClusters
<1> QED BY <1>3, <1>6, <1>a, Zenon DEF IsBackendName, IsMessage, l

\* The indices in a name are not negative.
LEMMA BackendIndices ==
  ASSUME NEW n, IsBackendName(n)
  PROVE  \E ns, nm : \E i, j \in Nat : n = backendName(ns, nm, i, j)
<1>1. PICK s \in Stores :
        /\ s.listener # Nil
        /\ \E r \in DOMAIN s.listener.routes :
             \E b \in DOMAIN s.listener.routes[r].backends :
               n = backendName(s.listener.namespace, s.listener.name, r - 1, b - 1)
  BY Zenon DEF IsBackendName
<1>2. PICK r \in DOMAIN s.listener.routes :
        \E b \in DOMAIN s.listener.routes[r].backends :
          n = backendName(s.listener.namespace, s.listener.name, r - 1, b - 1)
  BY <1>1, Zenon
<1>3. PICK b \in DOMAIN s.listener.routes[r].backends :
          n = backendName(s.listener.namespace, s.listener.name, r - 1, b - 1)
  BY <1>2, Zenon
<1>4. r - 1 \in Nat /\ b - 1 \in Nat
  BY <1>1, ListenerLists, SequenceDomain, Zenon
<1> QED BY <1>3, <1>4, Zenon

\* An assignment carries the name it was asked for.
LEMMA AssignmentsKeepNames ==
  ASSUME NEW n, IsBackendName(n), resolveEndpoint(n) \notin Failures
  PROVE  resolveEndpoint(n).clusterName = n
<1>1. PICK ns, nm : \E i, j \in Nat : n = backendName(ns, nm, i, j)
  BY BackendIndices, Zenon
<1>2. PICK i \in Nat, j \in Nat : n = backendName(ns, nm, i, j)
  BY <1>1, Zenon
<1>3. ReadsBack(parseBackendName(n), ns, nm, i, j)
  BY <1>2, NamesReadBack, Zenon
<1> DEFINE ref == parseBackendName(n)
           answer == makeLoadAssignment(zone, ref, store.listener, findBackend(ref), store)
<1>4. resolveEndpoint(n) = answer /\ answer \notin Failures
  BY EndpointAnswer, Zenon
<1>5. IsAssignment(answer, BackendString(ref),
                   Groups(zone, store.listener, findBackend(ref), store))
  BY <1>4, AssignmentAnswer, Zenon
<1> QED BY <1>2, <1>3, <1>4, <1>5, Zenon DEF ReadsBack, IsAssignment

LEMMA ResolutionInit == Init => ResolutionInv
<1> SUFFICES ASSUME Init PROVE ResolutionInv
  OBVIOUS
<1>1. edits \in 0..MaxEdits
  BY ResolutionAssumption DEF Init
<1>2. DOMAIN cds = {} /\ DOMAIN eds = {}
  BY DEF Init
<1> QED BY <1>1, <1>2, Zenon DEF Init, ResolutionInv, TypeOK

LEMMA ResolutionStep == ResolutionInv /\ [Next]_vars => ResolutionInv'
<1> SUFFICES ASSUME ResolutionInv, [Next]_vars PROVE ResolutionInv'
  OBVIOUS
<1>1. ASSUME NEW target \in Targets, pullListener(target)
      PROVE  ResolutionInv'
  <2> DEFINE answer == makeListener(target, store)
  <2>1. /\ answer \notin Failures /\ answer # Nil /\ answer.name = target
        /\ \A n \in ClusterNames(answer) : IsBackendName(n)
    BY <1>1, NilAssumption, ListenerAnswer, ClustersAreBackends, Zenon
    DEF pullListener, resolveListener, ResolutionInv, TypeOK, IsMessage
  <2>2. lds' = answer
    BY <1>1, Zenon DEF pullListener, resolveListener
  <2>3. /\ DOMAIN cds' \subseteq ClusterNames(answer)
        /\ \A n \in DOMAIN cds' : cds'[n].name = n /\ cds'[n].serviceName = n
    BY <1>1, Zenon
    DEF pullListener, resolveListener, ResolutionInv, TypeOK, RestrictDomain, Restrict
  <2>4. \A n \in DOMAIN eds' : eds'[n].clusterName = n /\ eds'[n] \notin Failures
    BY <1>1, Zenon
    DEF pullListener, ResolutionInv, TypeOK, RestrictDomain, Restrict
  <2> HIDE DEF answer
  <2>5. UNCHANGED <<store, edits, zone>>
    BY <1>1, Zenon DEF pullListener
  <2> QED BY <2>1, <2>2, <2>3, <2>4, <2>5, Zenon DEF ResolutionInv, TypeOK, IsBackendName
<1>2. ASSUME lds # Nil, pullClusters
      PROVE  ResolutionInv'
  <2>1. /\ DOMAIN cds' = ClusterNames(lds)
        /\ \A n \in DOMAIN cds' : cds'[n] = resolveCluster(n) /\ resolveCluster(n) \notin Failures
    BY <1>2, Zenon DEF pullClusters
  <2>2. \A n \in DOMAIN cds' : cds'[n].name = n /\ cds'[n].serviceName = n
    BY <2>1, ClusterAnswer, Zenon
  <2>3. UNCHANGED <<store, edits, zone, lds, eds>>
    BY <1>2, Zenon DEF pullClusters
  <2> QED BY <1>2, <2>1, <2>2, <2>3, Zenon DEF ResolutionInv, TypeOK, IsBackendName
<1>3. ASSUME lds # Nil, NEW n \in ClusterNames(lds), pullCluster(n)
      PROVE  ResolutionInv'
  <2>1. /\ DOMAIN cds' = DOMAIN cds \cup {n}
        /\ \A m \in DOMAIN cds' : cds'[m] = IF m = n THEN resolveCluster(n) ELSE cds[m]
        /\ resolveCluster(n) \notin Failures
    BY <1>3, Zenon DEF pullCluster
  <2>2. resolveCluster(n).name = n /\ resolveCluster(n).serviceName = n
    BY <2>1, ClusterAnswer, Zenon
  <2>3. \A m \in DOMAIN cds' : cds'[m].name = m /\ cds'[m].serviceName = m
    BY <2>1, <2>2, Zenon DEF ResolutionInv, TypeOK
  <2>4. DOMAIN cds' \subseteq ClusterNames(lds)
    BY <1>3, <2>1, Zenon DEF ResolutionInv, TypeOK
  <2>5. UNCHANGED <<store, edits, zone, lds, eds>>
    BY <1>3, Zenon DEF pullCluster
  <2> QED BY <1>3, <2>3, <2>4, <2>5, Zenon DEF ResolutionInv, TypeOK, IsBackendName
<1>s. \A n \in ServiceNames(cds) : IsBackendName(n)
  <2>1. \A n \in ServiceNames(cds) : n \in DOMAIN cds
    BY Zenon DEF ServiceNames, ResolutionInv
  <2>2. \A n \in DOMAIN cds : lds # Nil /\ n \in ClusterNames(lds)
    BY Zenon DEF ResolutionInv, TypeOK
  <2> QED BY <2>1, <2>2, Zenon DEF ResolutionInv
<1>4. ASSUME pullAllEndpoints
      PROVE  ResolutionInv'
  <2>1. /\ DOMAIN eds' = ServiceNames(cds)
        /\ \A n \in DOMAIN eds' : eds'[n] = resolveEndpoint(n) /\ resolveEndpoint(n) \notin Failures
    BY <1>4, Zenon DEF pullAllEndpoints
  <2>2. \A n \in DOMAIN eds' : eds'[n].clusterName = n /\ eds'[n] \notin Failures
    BY <1>s, <2>1, AssignmentsKeepNames, Zenon
  <2>3. UNCHANGED <<store, edits, zone, lds, cds>>
    BY <1>4, Zenon DEF pullAllEndpoints
  <2> QED BY <2>2, <2>3, Zenon DEF ResolutionInv, TypeOK, IsBackendName
<1>5. ASSUME NEW n \in ServiceNames(cds), pullEndpoints(n)
      PROVE  ResolutionInv'
  <2>1. /\ DOMAIN eds' = DOMAIN eds \cup {n}
        /\ \A m \in DOMAIN eds' : eds'[m] = IF m = n THEN resolveEndpoint(n) ELSE eds[m]
        /\ resolveEndpoint(n) \notin Failures
    BY <1>5, Zenon DEF pullEndpoints
  <2>2. resolveEndpoint(n).clusterName = n
    BY <1>s, <2>1, AssignmentsKeepNames, Zenon
  <2>3. \A m \in DOMAIN eds' : eds'[m].clusterName = m /\ eds'[m] \notin Failures
    BY <2>1, <2>2, Zenon DEF ResolutionInv, TypeOK
  <2>4. UNCHANGED <<store, edits, zone, lds, cds>>
    BY <1>5, Zenon DEF pullEndpoints
  <2> QED BY <2>3, <2>4, Zenon DEF ResolutionInv, TypeOK, IsBackendName
<1>6. ASSUME NEW new \in Edits, edit(new)
      PROVE  ResolutionInv'
  <2>1. new \in Stores
    BY ResolutionAssumption, Zenon
  <2>2. edits' \in 0..MaxEdits
    BY <1>6, ResolutionAssumption DEF edit, ResolutionInv, TypeOK
  <2>3. store' = new /\ UNCHANGED <<zone, lds, cds, eds>>
    BY <1>6, Zenon DEF edit
  <2> QED BY <2>1, <2>2, <2>3, Zenon DEF ResolutionInv, TypeOK, IsBackendName
<1>7. CASE UNCHANGED vars
  BY <1>7, Zenon DEF vars, ResolutionInv, TypeOK, IsBackendName
<1> QED BY <1>1, <1>2, <1>3, <1>4, <1>5, <1>6, <1>7, Zenon DEF Next

\* TypeOK, for any set of stores, calls, zones and edits: what a client holds
\* goes under the name it asked for, and an assignment of makeLoadAssignment
\* carries the name of the cluster it was asked for by.
THEOREM TypeCorrect == Spec => []TypeOK
<1>1. ResolutionInv => TypeOK
  BY Zenon DEF ResolutionInv
<1> QED BY <1>1, ResolutionInit, ResolutionStep, PTL DEF Spec

\* A listener and its routes are no failures.
LEMMA ListenerIsNoFailure ==
  ASSUME NEW s \in Stores, s.listener # Nil
  PROVE  /\ s.listener \notin Failures
         /\ \A r \in DOMAIN s.listener.routes : s.listener.routes[r] \notin Failures
<1>1. IsListener(s.listener)
  BY StoresAssumption, Zenon
<1>2. \A r \in DOMAIN s.listener.routes : s.listener.routes[r] \in Range(s.listener.routes)
  BY <1>1, SequenceDomain, Zenon DEF IsListener
<1> QED BY <1>1, <1>2, Zenon DEF IsListener

\* An index that is not negative is rejected or followed to an element.
LEMMA IndexInRange ==
  ASSUME NEW s, IsSeq(s), NEW i \in Nat, ~(i > Len(s) - 1)
  PROVE  i + 1 \in DOMAIN s /\ At(s, i) = s[i + 1] /\ s[i + 1] \in Range(s)
<1>1. Len(s) \in Nat /\ DOMAIN s = 1..Len(s)
  BY SequenceDomain, Zenon
<1>2. i \in 0..(Len(s) - 1) /\ i + 1 \in 1..Len(s)
  BY <1>1
<1> QED BY <1>1, <1>2, SequenceDomain, Zenon DEF At

FindsBackend(found, l) ==
  \/ found = Error
  \/ \E r \in DOMAIN l.routes : found \in Range(l.routes[r].backends)

LEMMA FoundInRange ==
  ASSUME store \in Stores, NEW ref, NEW ns, NEW nm, NEW i \in Nat, NEW j \in Nat,
         ReadsBack(ref, ns, nm, i, j)
  PROVE  FindsBackend(findBackend(ref), store.listener)
<1> DEFINE l == store.listener
           routes == l.routes
           looked == lookup(store, Word(ref.namespace), <<Word(ref.listener)>>)
<1>1. ref.routeID = i /\ ref.backendID = j
  BY Zenon DEF ReadsBack
<1>2. looked = Error \/ (looked = l /\ l # Nil)
  BY Zenon DEF lookup
<1>3. CASE looked = Error
  BY <1>3, Zenon DEF findBackend, Then, Failures, FindsBackend
<1>4. CASE looked = l /\ l # Nil
  <2>1. /\ l \notin Failures /\ IsSeq(routes)
        /\ \A r \in DOMAIN routes : routes[r] \notin Failures /\ IsSeq(routes[r].backends)
    BY <1>4, ListenerIsNoFailure, ListenerLists, Zenon
  <2>2. findBackend(ref) = findBackendSpec(ref, l)
    BY <1>4, <2>1, Zenon DEF findBackend, Then
  <2> HIDE DEF l, looked
  <2>3. CASE i > Len(routes) - 1
    <3>1. findBackendSpec(ref, l) = Error
      BY <1>1, <2>3, Zenon DEF findBackendSpec
    <3> QED BY <2>2, <3>1, Zenon DEF FindsBackend
  <2>4. CASE ~(i > Len(routes) - 1)
    <3> DEFINE backends == routes[i + 1].backends
    <3>1. i + 1 \in DOMAIN routes /\ At(routes, i) = routes[i + 1]
      BY <2>1, <2>4, IndexInRange, Zenon
    <3>2. /\ At(routes, i) \notin Failures
          /\ At(routes, i).backends = backends /\ IsSeq(backends)
      BY <2>1, <3>1, Zenon
    <3>3. findBackendSpec(ref, l) =
            IF j > Len(backends) - 1 THEN Error ELSE At(backends, j)
      BY <1>1, <2>4, <3>2, Zenon DEF findBackendSpec, Then
    <3> HIDE DEF backends
    <3>4. findBackendSpec(ref, l) = Error \/ findBackendSpec(ref, l) \in Range(backends)
      BY <3>2, <3>3, IndexInRange, Zenon
    <3> QED BY <2>2, <3>1, <3>4, Zenon DEF FindsBackend, backends, l
  <2> QED BY <2>3, <2>4, Zenon DEF l
<1> QED BY <1>2, <1>3, <1>4, Zenon

\* HeldNamesStayInRange, for any stores and any number of edits: a name the
\* client got from makeWeightedClusters carries two indices that are not
\* negative, and findBackendSpec rejects those past the end.
THEOREM HeldNamesInRange == Spec => []HeldNamesStayInRange
<1>1. ResolutionInv => HeldNamesStayInRange
  <2> SUFFICES ASSUME ResolutionInv,
                      NEW n \in DOMAIN cds \cup (IF lds = Nil THEN {} ELSE ClusterNames(lds))
               PROVE  FindsBackend(findBackend(parseBackendName(n)), store.listener)
    BY Zenon DEF HeldNamesStayInRange, FindsBackend
  <2>1. IsBackendName(n)
    BY Zenon DEF ResolutionInv, TypeOK
  <2>2. PICK ns, nm : \E i, j \in Nat : n = backendName(ns, nm, i, j)
    BY <2>1, BackendIndices, Zenon
  <2>3. PICK i \in Nat, j \in Nat : n = backendName(ns, nm, i, j)
    BY <2>2, Zenon
  <2>4. ReadsBack(parseBackendName(n), ns, nm, i, j)
    BY <2>3, NamesReadBack, Zenon
  <2> QED BY <2>4, FoundInRange, Zenon DEF ResolutionInv, TypeOK
<1> QED BY <1>1, ResolutionInit, ResolutionStep, PTL DEF Spec
-----------------------------------------------------------------------------
(* The calls that the routes catch. *)

LEMMA PrefixOfJoin ==
  ASSUME NEW S, NEW s \in Seq(S), NEW t \in Seq(S)
  PROVE  s \o t \in Seq(S) /\ HasPrefix(s \o t, s)
BY DEF HasPrefix

LEMMA PrefixTransitive ==
  ASSUME NEW S, NEW s \in Seq(S), NEW t \in Seq(S), NEW u \in Seq(S),
         HasPrefix(t, s), HasPrefix(u, t)
  PROVE  HasPrefix(u, s)
BY DEF HasPrefix

LEMMA SeqMonotone ==
  ASSUME NEW S, NEW T, S \subseteq T, NEW s \in Seq(S)
  PROVE  s \in Seq(T)
OBVIOUS

LEMMA Singleton ==
  ASSUME NEW S, NEW x \in S
  PROVE  <<x>> \in Seq(S)
OBVIOUS

Associate(s, t, u) == s \o (t \o u) = (s \o t) \o u

LEMMA JoinAssociates ==
  ASSUME NEW S, NEW s \in Seq(S), NEW t \in Seq(S), NEW u \in Seq(S)
  PROVE  Associate(s, t, u)
BY DEF Associate

\* The parts of a call and the two separators, as sequences over one set.
LEMMA CallParts ==
  ASSUME NEW call \in Calls
  PROVE  \E S : /\ <<"/">> \in Seq(S) /\ Dot \in Seq(S) /\ call.namespace \in Seq(S)
                /\ call.service \in Seq(S) /\ call.method \in Seq(S)
<1> DEFINE S == STRING \cup {"/", "."}  \* the provers know no member of STRING
<1>a. call \in [namespace : Seq(STRING), service : Seq(STRING), method : Seq(STRING)]
  BY CallsAssumption, Zenon
<1>b. /\ call.namespace \in Seq(STRING) /\ call.service \in Seq(STRING)
      /\ call.method \in Seq(STRING)
  BY <1>a
<1>s. "/" \in S /\ "." \in S /\ STRING \subseteq S
  BY Zenon
<1> HIDE DEF S
<1>c. <<"/">> \in Seq(S) /\ Dot \in Seq(S)
  BY <1>s, Singleton, Zenon DEF Dot
<1> QED BY <1>b, <1>c, <1>s, SeqMonotone, Zenon

\* The path of a call of a service in a package.
PackagePath(call) ==
  <<"/">> \o call.namespace \o Dot \o call.service \o <<"/">> \o call.method

LEMMA PathInPackage ==
  ASSUME NEW call \in Calls, call.namespace # <<>>
  PROVE  FullMethod(call) = PackagePath(call)
<1> DEFINE slash == <<"/">>
           ns == call.namespace
           dot == Dot
<1>1. PICK S : slash \in Seq(S) /\ dot \in Seq(S) /\ ns \in Seq(S)
  BY CallParts, Zenon
<1> HIDE DEF slash, ns, dot
<1>2. Associate(slash, ns, dot)
  BY <1>1, JoinAssociates, Zenon
<1>3. slash \o (ns \o dot) = slash \o ns \o dot
  BY <1>2, Zenon DEF Associate
<1> QED BY <1>3, Zenon DEF FullMethod, PackagePath, slash, ns, dot

LEMMA NoDot ==
  ASSUME NEW n, IsName(n)
  PROVE  n # <<>> /\ n # Dot /\ n # DotDot
BY DEF IsName, IsPackage, Dot, DotDot, Range

LEMMA NotADot ==
  ASSUME NEW S, NEW s \in Seq(S), NEW t \in Seq(S), s # <<>>, Dot \in Seq(S)
  PROVE  s \o Dot \o t # Dot
BY DEF Dot

\* MethodMatcher.Path writes the path of a call of a service in a package:
\* path.Join has nothing to clean.
LEMMA MethodPath ==
  ASSUME NEW call \in Calls, call.namespace # <<>>
  PROVE  Path(call) = FullMethod(call)
<1> DEFINE slash == <<"/">>
           dot == Dot
           ns == call.namespace
           sv == call.service
           mt == call.method
           a == ns \o dot \o sv
<1>1. PICK S : /\ slash \in Seq(S) /\ dot \in Seq(S) /\ ns \in Seq(S)
               /\ sv \in Seq(S) /\ mt \in Seq(S)
  BY CallParts, Zenon
<1>2. mt # <<>> /\ mt # Dot /\ mt # DotDot
  BY CallsAssumption, NoDot, Zenon
<1>3. a # Dot
  BY <1>1, NotADot, Zenon
<1>4. Path(call) = slash \o (a \o slash \o mt)
  <2> HIDE DEF a
  <2>1. Join(a, mt) = a \o slash \o mt
    BY <1>2, <1>3, Zenon DEF Join
  <2> QED BY <2>1, Zenon DEF Path, a
<1> HIDE DEF slash, dot, ns, sv, mt
<1>5. /\ ns \o dot \in Seq(S) /\ a \in Seq(S) /\ a \o slash \in Seq(S)
      /\ slash \o ns \in Seq(S) /\ slash \o ns \o dot \in Seq(S)
  BY <1>1, PrefixOfJoin, Zenon
<1>6. Associate(slash, ns, dot) /\ Associate(slash, ns \o dot, sv)
  BY <1>1, <1>5, JoinAssociates, Zenon
<1>7. slash \o a = slash \o ns \o dot \o sv
  BY <1>6, Zenon DEF Associate
<1> HIDE DEF a
<1>8. Associate(slash, a, slash) /\ Associate(slash, a \o slash, mt)
  BY <1>1, <1>5, JoinAssociates, Zenon
<1>9. slash \o (a \o slash \o mt) = slash \o a \o slash \o mt
  BY <1>8, Zenon DEF Associate
<1>a. Path(call) = slash \o a \o slash \o mt
  BY <1>4, <1>9, Zenon
<1>10. Path(call) = slash \o ns \o dot \o sv \o slash \o mt
  BY <1>7, <1>a, Zenon
<1>11. FullMethod(call) = PackagePath(call)
  BY PathInPackage, Zenon DEF ns
<1> QED BY <1>10, <1>11, Zenon DEF PackagePath, slash, dot, ns, sv, mt

\* The paths that the matchers of a namespace and of a service are made of.
LEMMA PathPrefixes ==
  ASSUME NEW call \in Calls
  PROVE  /\ HasPrefix(FullMethod(call), <<"/">>)
         /\ HasPrefix(FullMethod(call), <<"/">> \o call.namespace)
         /\ call.namespace # <<>> =>
               HasPrefix(FullMethod(call), <<"/">> \o call.namespace \o Dot \o call.service)
<1> DEFINE slash == <<"/">>
           dot == Dot
           ns == call.namespace
           sv == call.service
           mt == call.method
<1>1. PICK S : /\ slash \in Seq(S) /\ dot \in Seq(S) /\ ns \in Seq(S)
               /\ sv \in Seq(S) /\ mt \in Seq(S)
  BY CallParts, Zenon
<1>2. CASE ns = <<>>
  <2> DEFINE full == slash \o ns \o sv \o slash \o mt
  <2>1. full = FullMethod(call)
    BY <1>2, Zenon DEF FullMethod
  <2> HIDE DEF slash, dot, sv, mt, ns
  <2>2. slash \o ns \in Seq(S) /\ HasPrefix(slash \o ns, slash)
    BY <1>1, PrefixOfJoin, Zenon
  <2>3. slash \o ns \o sv \in Seq(S) /\ HasPrefix(slash \o ns \o sv, slash \o ns)
    BY <1>1, <2>2, PrefixOfJoin, Zenon
  <2>4. /\ slash \o ns \o sv \o slash \in Seq(S)
        /\ HasPrefix(slash \o ns \o sv \o slash, slash \o ns \o sv)
    BY <1>1, <2>3, PrefixOfJoin, Zenon
  <2>5. full \in Seq(S) /\ HasPrefix(full, slash \o ns \o sv \o slash)
    BY <1>1, <2>4, PrefixOfJoin, Zenon
  <2> HIDE DEF full
  <2>6. HasPrefix(full, slash \o ns \o sv)
    BY <2>3, <2>4, <2>5, PrefixTransitive, Zenon
  <2>7. HasPrefix(full, slash \o ns)
    BY <2>2, <2>3, <2>5, <2>6, PrefixTransitive, Zenon
  <2>8. HasPrefix(full, slash)
    BY <1>1, <2>2, <2>5, <2>7, PrefixTransitive, Zenon
  <2> QED BY <1>2, <2>1, <2>7, <2>8, Zenon DEF slash, ns
<1>3. CASE ns # <<>>
  <2> DEFINE full == slash \o ns \o dot \o sv \o slash \o mt
  <2>1. full = FullMethod(call)
    BY <1>3, PathInPackage, Zenon DEF PackagePath
  <2> HIDE DEF slash, dot, ns, sv, mt
  <2>2. slash \o ns \in Seq(S) /\ HasPrefix(slash \o ns, slash)
    BY <1>1, PrefixOfJoin, Zenon
  <2>3. slash \o ns \o dot \in Seq(S) /\ HasPrefix(slash \o ns \o dot, slash \o ns)
    BY <1>1, <2>2, PrefixOfJoin, Zenon
  <2>4. /\ slash \o ns \o dot \o sv \in Seq(S)
        /\ HasPrefix(slash \o ns \o dot \o sv, slash \o ns \o dot)
    BY <1>1, <2>3, PrefixOfJoin, Zenon
  <2>5. /\ slash \o ns \o dot \o sv \o slash \in Seq(S)
        /\ HasPrefix(slash \o ns \o dot \o sv \o slash, slash \o ns \o dot \o sv)
    BY <1>1, <2>4, PrefixOfJoin, Zenon
  <2>6. full \in Seq(S) /\ HasPrefix(full, slash \o ns \o dot \o sv \o slash)
    BY <1>1, <2>5, PrefixOfJoin, Zenon
  <2> HIDE DEF full
  <2>7. HasPrefix(full, slash \o ns \o dot \o sv)
    BY <2>4, <2>5, <2>6, PrefixTransitive, Zenon
  <2>8. HasPrefix(full, slash \o ns \o dot)
    BY <2>3, <2>4, <2>6, <2>7, PrefixTransitive, Zenon
  <2>9. HasPrefix(full, slash \o ns)
    BY <2>2, <2>3, <2>6, <2>8, PrefixTransitive, Zenon
  <2>10. HasPrefix(full, slash)
    BY <1>1, <2>2, <2>6, <2>9, PrefixTransitive, Zenon
  <2> QED BY <2>1, <2>7, <2>9, <2>10, Zenon DEF slash, dot, ns, sv
<1> QED BY <1>2, <1>3, Zenon

\* The path of a match is that of the most specific field of the matcher.
LEMMA MatchAnswer ==
  ASSUME NEW route, route.matcher # Nil, makeRouteMatch(route) \notin Failures
  PROVE  /\ makeRouteMatch(route).kind = PathSpecifier(route.matcher).kind
         /\ makeRouteMatch(route).path = PathSpecifier(route.matcher).path
<1> DEFINE k == PathSpecifier(route.matcher).kind
           p == PathSpecifier(route.matcher).path
<1>1. PICK fraction, headers :
        makeRouteMatch(route) =
          [kind |-> k, path |-> p, fraction |-> fraction, headers |-> headers]
  BY Zenon DEF makeRouteMatch, Then
<1> HIDE DEF k, p
<1>2. makeRouteMatch(route).kind = k /\ makeRouteMatch(route).path = p
  BY <1>1
<1> QED BY <1>2, Zenon DEF k, p

LEMMA NamedCallMatches ==
  ASSUME NEW route, NEW call \in Calls,
         makeRouteMatch(route) \notin Failures, IsNamed(route.matcher, call),
         ~IsOutsidePackage(route.matcher, call)
  PROVE  pathMatches(makeRouteMatch(route), call)
<1> DEFINE m == route.matcher
           match == makeRouteMatch(route)
<1>1. CASE m = Nil
  <2>1. match.kind = "prefix" /\ match.path = <<"/">>
    BY <1>1, Zenon DEF makeRouteMatch, MatchAll
  <2> QED BY <2>1, PathPrefixes DEF pathMatches
<1>2. CASE m # Nil /\ m.method # Nil
  <2>1. PathSpecifier(m).kind = "path" /\ PathSpecifier(m).path = Path(m.method)
    BY <1>2 DEF PathSpecifier
  <2>2. m.method = call
    BY <1>2, Zenon DEF IsNamed
  <2>3. Path(call) = FullMethod(call)
    BY <1>2, MethodPath, Zenon DEF IsOutsidePackage
  <2> QED BY <1>2, <2>1, <2>2, <2>3, MatchAnswer, Zenon DEF pathMatches
<1>3. CASE m # Nil /\ m.method = Nil /\ m.service # Nil
  <2>1. PathSpecifier(m).kind = "prefix" /\ PathSpecifier(m).path = Prefix(m.service)
    BY <1>3 DEF PathSpecifier
  <2>2. m.service.namespace = call.namespace /\ m.service.service = call.service
    BY <1>3, Zenon DEF IsNamed
  <2>3. HasPrefix(FullMethod(call), Prefix(m.service))
    BY <1>3, <2>2, PathPrefixes, Zenon DEF Prefix, IsOutsidePackage
  <2>4. match.kind = "prefix" /\ match.path = Prefix(m.service)
    BY <1>3, <2>1, MatchAnswer, Zenon
  <2> QED BY <2>3, <2>4 DEF pathMatches
<1>4. CASE m # Nil /\ m.method = Nil /\ m.service = Nil /\ m.namespace # Nil
  <2>1. PathSpecifier(m).kind = "prefix" /\ PathSpecifier(m).path = <<"/">> \o m.namespace
    BY <1>4 DEF PathSpecifier
  <2>2. m.namespace = call.namespace
    BY <1>4, Zenon DEF IsNamed
  <2>3. HasPrefix(FullMethod(call), <<"/">> \o m.namespace)
    BY <2>2, PathPrefixes, Zenon
  <2>4. match.kind = "prefix" /\ match.path = <<"/">> \o m.namespace
    BY <1>4, <2>1, MatchAnswer, Zenon
  <2> QED BY <2>3, <2>4 DEF pathMatches
<1>5. CASE m # Nil /\ m.method = Nil /\ m.service = Nil /\ m.namespace = Nil
  <2>1. PathSpecifier(m).kind = "prefix" /\ PathSpecifier(m).path = <<"/">>
    BY <1>5 DEF PathSpecifier, MatchAll
  <2>2. match.kind = "prefix" /\ match.path = <<"/">>
    BY <1>5, <2>1, MatchAnswer, Zenon
  <2> QED BY <2>2, PathPrefixes DEF pathMatches
<1> QED BY <1>1, <1>2, <1>3, <1>4, <1>5, Zenon

\* A listener that is up to date is the message of the one in the caches.
LEMMA CurrentMessage ==
  ASSUME ResolutionInv, ListenerIsCurrent
  PROVE  IsMessage(lds, lds.name, store.listener)
<1>1. lds = makeListener(lds.name, store) /\ makeListener(lds.name, store) \notin Failures
  BY Zenon DEF ListenerIsCurrent, resolveListener, ResolutionInv
<1> QED BY <1>1, ListenerAnswer, Zenon

\* NamedCallsAreCaught, for any stores and any calls with protobuf names:
\* makeRouteMatch turns a matcher into the path of every call it names, or into a
\* prefix of it, although MethodMatcher.Path cleans what it joins.  A name of a
\* service or method is never a dot or two, so that cleaning removes no part of it.
THEOREM CallsAreCaught == Spec => []NamedCallsAreCaught
<1>1. ResolutionInv => NamedCallsAreCaught
  <2> SUFFICES ASSUME ResolutionInv, ListenerIsCurrent, NEW call \in Calls,
                      NEW r \in DOMAIN lds.routes,
                      IsNamed(store.listener.routes[r].matcher, call),
                      ~IsOutsidePackage(store.listener.routes[r].matcher, call)
               PROVE  \E q \in 1..r : pathMatches(lds.routes[q].match, call)
    BY Zenon DEF NamedCallsAreCaught
  <2> DEFINE l == store.listener
             route == l.routes[r]
  <2>1. IsMessage(lds, lds.name, l)
    BY CurrentMessage, Zenon
  <2>2. /\ l # Nil /\ r \in DOMAIN l.routes
        /\ lds.routes[r] = makeRoute(l, r - 1, route)
        /\ makeRoute(l, r - 1, route) \notin Failures
    BY <2>1, Zenon DEF IsMessage
  <2>m. IsRoute(lds.routes[r], l, r - 1, route)
    BY <2>2, RouteAnswer, Zenon
  <2>3. makeRouteMatch(route) \notin Failures /\ lds.routes[r].match = makeRouteMatch(route)
    BY <2>m, Zenon DEF IsRoute
  <2>4. pathMatches(lds.routes[r].match, call)
    BY <2>3, NamedCallMatches, Zenon
  <2>5. IsSeq(l.routes)
    BY <2>2, ListenerLists, Zenon DEF ResolutionInv, TypeOK
  <2>6. r \in 1..Len(l.routes) /\ Len(l.routes) \in Nat
    BY <2>2, <2>5, SequenceDomain, Zenon
  <2>7. r \in 1..r
    BY <2>6
  <2> QED BY <2>4, <2>7, Zenon
<1> QED BY <1>1, ResolutionInit, ResolutionStep, PTL DEF Spec
-----------------------------------------------------------------------------
(* The hosts of an answer. *)

\* A list made of another, element by element.
IsMap(t, s) ==
  IsSeq(t) /\ DOMAIN t = DOMAIN s /\ Len(t) = Len(s) /\ Range(t) = {t[i] : i \in DOMAIN s}

LEMMA MapIsSeq ==
  ASSUME NEW s, NEW t, IsSeq(s), t = [i \in DOMAIN s |-> t[i]]
  PROVE  IsMap(t, s)
<1>1. Len(s) \in Nat /\ DOMAIN s = 1..Len(s) /\ DOMAIN t = 1..Len(s)
  BY SequenceDomain, Zenon
<1>2. Range(t) = {t[i] : i \in DOMAIN s}
  BY Zenon DEF Range
<1>3. t \in [1..Len(s) -> Range(t)]
  BY <1>1, <1>2, Zenon
<1> HIDE DEF Range
<1>4. t \in Seq(Range(t)) /\ Len(t) = Len(s)
  BY <1>1, <1>3
<1> QED BY <1>1, <1>2, <1>4, Zenon DEF IsMap, IsSeq

\* What FlattenSeq makes of a list of lists.
IsFlat(flat, seqs) == IsSeq(flat) /\ Range(flat) = UNION {Range(seqs[i]) : i \in DOMAIN seqs}

LEMMA FlattenIsSeq ==
  ASSUME NEW seqs, IsSeq(seqs), \A i \in DOMAIN seqs : IsSeq(seqs[i])
  PROVE  IsFlat(FlattenSeq(seqs), seqs)
<1> DEFINE A == UNION {Range(seqs[i]) : i \in DOMAIN seqs}
           flat == FlattenSeq(seqs)
<1>1. Len(seqs) \in Nat /\ DOMAIN seqs = 1..Len(seqs)
  BY SequenceDomain, Zenon
<1>2. ASSUME NEW i \in DOMAIN seqs PROVE seqs[i] \in Seq(A)
  <2>1. seqs[i] \in Seq(Range(seqs[i])) /\ Range(seqs[i]) \subseteq A
    BY Zenon DEF IsSeq
  <2> HIDE DEF A
  <2> QED BY <2>1, SeqMonotone, Zenon
<1>3. seqs \in Seq(Seq(A))
  <2>1. Range(seqs) \subseteq Seq(A)
    BY <1>2, Zenon DEF Range
  <2>2. seqs \in Seq(Range(seqs))
    BY Zenon DEF IsSeq
  <2> HIDE DEF A
  <2> QED BY <2>1, <2>2, SeqMonotone, Zenon
<1> HIDE DEF A
<1>4. flat \in Seq(A) /\ Range(flat) = UNION {Range(seqs[i]) : i \in DOMAIN seqs}
  BY <1>3, FlattenElements, Zenon
<1>5. flat \in Seq(Range(flat))
  BY <1>4, Zenon DEF A
<1> QED BY <1>4, <1>5, Zenon DEF IsFlat, IsSeq

\* What Keep makes of a list, P being the elements that pass its test.
Filters(seqs, s, P) ==
  /\ seqs = [i \in DOMAIN s |-> seqs[i]]
  /\ \A i \in DOMAIN s : s[i] \in P => seqs[i] = <<s[i]>>
  /\ \A i \in DOMAIN s : s[i] \notin P => seqs[i] = <<>>

LEMMA EmptyAndSingle ==
  /\ IsSeq(<<>>) /\ Range(<<>>) = {}
  /\ \A x : IsSeq(<<x>>) /\ Range(<<x>>) = {x}
<1>1. IsSeq(<<>>) /\ Range(<<>>) = {}
  BY DEF IsSeq, Range
<1>2. ASSUME NEW x PROVE IsSeq(<<x>>) /\ Range(<<x>>) = {x}
  BY DEF IsSeq, Range
<1> QED BY <1>1, <1>2, Zenon

LEMMA KeepElements ==
  ASSUME NEW s, NEW P, NEW seqs, IsSeq(s), Filters(seqs, s, P)
  PROVE  IsSeq(FlattenSeq(seqs)) /\ Range(FlattenSeq(seqs)) = Range(s) \cap P
<1>1. IsMap(seqs, s)
  BY MapIsSeq, Zenon DEF Filters
<1>2. IsSeq(seqs) /\ DOMAIN seqs = DOMAIN s
  BY <1>1, Zenon DEF IsMap
<1>3. ASSUME NEW i \in DOMAIN s
      PROVE  IsSeq(seqs[i]) /\ Range(seqs[i]) = {s[i]} \cap P
  <2>1. CASE s[i] \in P
    BY <2>1, EmptyAndSingle, Zenon DEF Filters
  <2>2. CASE s[i] \notin P
    BY <2>2, EmptyAndSingle, Zenon DEF Filters
  <2> QED BY <2>1, <2>2, Zenon
<1>4. IsFlat(FlattenSeq(seqs), seqs)
  BY <1>2, <1>3, FlattenIsSeq, Zenon
<1>5. Range(s) = {s[i] : i \in DOMAIN s}
  BY Zenon DEF Range
<1> DEFINE U == UNION {Range(seqs[i]) : i \in DOMAIN seqs}
<1>6. U = Range(s) \cap P
  <2>1. ASSUME NEW x \in U PROVE x \in Range(s) /\ x \in P
    <3>1. PICK i \in DOMAIN s : x \in Range(seqs[i])
      BY <1>2, Zenon
    <3>2. x = s[i] /\ x \in P
      BY <1>3, <3>1, Zenon
    <3> QED BY <1>5, <3>2, Zenon
  <2>2. \A i \in DOMAIN s : s[i] \in P => s[i] \in U
    BY <1>2, <1>3, Zenon
  <2> HIDE DEF U
  <2> QED BY <1>5, <2>1, <2>2, Zenon
<1> QED BY <1>4, <1>6, Zenon DEF IsFlat

\* The endpoints of some data, and their hosts.
EndpointsOf(datas) == {d.endpoint : d \in Range(datas)}
HostsOf(endpoints) == UNION {Range(e.addresses) : e \in endpoints}

AreData(datas, endpoints) == IsSeq(datas) /\ EndpointsOf(datas) = endpoints

LEMMA DataFields ==
  \A endpoint, port :
    endpointData(endpoint, port).endpoint = endpoint /\ endpointData(endpoint, port).port = port
BY DEF endpointData

\* The ready endpoints of a slice.
LEMMA ReadyOnSlice ==
  ASSUME NEW slice, NEW port, IsSlice(slice)
  PROVE  AreData(ReadyOn(slice, port), ReadyIn(slice))
<1> DEFINE s == slice.endpoints
           P == ReadyIn(slice)
           seqs == [i \in DOMAIN s |-> IF derefBool(s[i].ready) THEN <<s[i]>> ELSE <<>>]
           ready == FlattenSeq(seqs)
           datas == ReadyOn(slice, port)
<1>1. IsSeq(s)
  BY Zenon DEF IsSlice
<1>2. \A i \in DOMAIN s : s[i] \in Range(s)
  BY Zenon DEF Range
<1>3. \A i \in DOMAIN s : derefBool(s[i].ready) <=> s[i] \in P
  BY <1>2, Zenon DEF ReadyIn, derefBool
<1>4. Filters(seqs, s, P)
  <2> HIDE DEF P
  <2> QED BY <1>3, Zenon DEF Filters
<1>5. datas = [i \in DOMAIN ready |-> endpointData(ready[i], port)]
  BY Zenon DEF ReadyOn, Keep
<1>6. P \subseteq Range(s)
  BY Zenon DEF ReadyIn
<1> HIDE DEF s, P, seqs, datas
<1>7. IsSeq(ready) /\ Range(ready) = Range(s) \cap P
  BY <1>1, <1>4, KeepElements, Zenon
<1> HIDE DEF ready
<1>8. IsMap(datas, ready)
  <2>1. datas = [i \in DOMAIN ready |-> datas[i]]
    BY <1>5, Zenon
  <2> QED BY <1>7, <2>1, MapIsSeq, Zenon
<1>9. \A i \in DOMAIN ready : datas[i].endpoint = ready[i]
  BY <1>5, DataFields, Zenon
<1>10. Range(ready) = P /\ Range(ready) = {ready[i] : i \in DOMAIN ready}
  BY <1>6, <1>7, Zenon DEF Range
<1>11. EndpointsOf(datas) = {ready[i] : i \in DOMAIN ready}
  <2>1. Range(datas) = {datas[i] : i \in DOMAIN ready}
    BY <1>8, Zenon DEF IsMap
  <2>2. EndpointsOf(datas) = {datas[i].endpoint : i \in DOMAIN ready}
    BY <2>1, Zenon DEF EndpointsOf
  <2> QED BY <1>9, <2>2, Zenon
<1> QED BY <1>8, <1>10, <1>11, Zenon DEF AreData, IsMap, datas, P

\* The lists of slices that the caches hold.
AreSlices(slices) == IsSeq(slices) /\ \A i \in DOMAIN slices : IsSlice(slices[i])

AllReady(slices) == UNION {ReadyIn(slices[i]) : i \in DOMAIN slices}

LEMMA ListedSlices ==
  ASSUME NEW s \in Stores, NEW ns, NEW name
  PROVE  AreSlices(list(s, ns, name))
<1>1. CASE <<ns, name>> \in DOMAIN s.slices
  <2>1. list(s, ns, name) = s.slices[<<ns, name>>]
    BY <1>1, Zenon DEF list
  <2>2. /\ IsSeq(s.slices[<<ns, name>>])
        /\ \A slice \in Range(s.slices[<<ns, name>>]) : IsSlice(slice)
    BY <1>1, StoresAssumption, Zenon
  <2>3. \A i \in DOMAIN s.slices[<<ns, name>>] :
          s.slices[<<ns, name>>][i] \in Range(s.slices[<<ns, name>>])
    BY Zenon DEF Range
  <2> QED BY <2>1, <2>2, <2>3, Zenon DEF AreSlices
<1>2. CASE <<ns, name>> \notin DOMAIN s.slices
  <2>1. list(s, ns, name) = <<>>
    BY <1>2, Zenon DEF list
  <2>2. DOMAIN <<>> = {}
    OBVIOUS
  <2> QED BY <2>1, <2>2, EmptyAndSingle, Zenon DEF AreSlices
<1> QED BY <1>1, <1>2, Zenon

\* The data of a list of slices: their ready endpoints.
LEMMA ReadyAnswer ==
  ASSUME NEW ref, NEW slices, AreSlices(slices), ReadyOf(ref, slices) \notin Failures
  PROVE  AreData(ReadyOf(ref, slices), AllReady(slices))
<1> DEFINE results == [s \in DOMAIN slices |->
                         Then(lookupK8sPort(ref, slices[s].ports),
                              LAMBDA port : ReadyOn(slices[s], port))]
           datas == ReadyOf(ref, slices)
<1>1. datas = FlattenSeq(Each(results)) /\ Each(results) \notin Failures
  BY Zenon DEF ReadyOf, Then
<1>2. Each(results) = results /\ \A i \in DOMAIN results : results[i] \notin Failures
  BY <1>1, EachAnswer, Zenon
<1>3. \A i \in DOMAIN slices : \E port : results[i] = ReadyOn(slices[i], port)
  BY <1>2, Zenon DEF Then
<1>4. results = [i \in DOMAIN slices |-> results[i]]
  OBVIOUS
<1> HIDE DEF results, datas
<1>5. \A i \in DOMAIN slices : AreData(results[i], ReadyIn(slices[i]))
  BY <1>3, ReadyOnSlice, Zenon DEF AreSlices
<1>6. IsMap(results, slices)
  BY <1>4, MapIsSeq, Zenon DEF AreSlices
<1>7. IsFlat(datas, results)
  BY <1>1, <1>2, <1>5, <1>6, FlattenIsSeq, Zenon DEF AreData, IsMap
<1>8. EndpointsOf(datas) = AllReady(slices)
  <2>1. ASSUME NEW d \in Range(datas)
        PROVE  d.endpoint \in AllReady(slices)
    <3>1. PICK i \in DOMAIN slices : d \in Range(results[i])
      BY <1>6, <1>7, Zenon DEF IsFlat, IsMap
    <3>2. d.endpoint \in ReadyIn(slices[i])
      BY <1>5, <3>1, Zenon DEF AreData, EndpointsOf
    <3> QED BY <3>2, Zenon DEF AllReady
  <2>2. ASSUME NEW i \in DOMAIN slices, NEW e \in ReadyIn(slices[i])
        PROVE  e \in EndpointsOf(datas)
    <3>1. PICK d \in Range(results[i]) : e = d.endpoint
      BY <1>5, Zenon DEF AreData, EndpointsOf
    <3>2. d \in Range(datas)
      BY <1>6, <1>7, <3>1, Zenon DEF IsFlat, IsMap
    <3> QED BY <3>1, <3>2, Zenon DEF EndpointsOf
  <2> QED BY <2>1, <2>2, Zenon DEF EndpointsOf, AllReady
<1> QED BY <1>7, <1>8, Zenon DEF AreData, IsFlat, datas

LEMMA EmptyList ==
  ASSUME NEW s, IsSeq(s)
  PROVE  s = <<>> <=> Range(s) = {}
BY SeqElements, Zenon DEF IsSeq

HasAddresses(e) == IsSeq(e.addresses) /\ e.addresses # <<>>

LEMMA ReadyHaveAddresses ==
  ASSUME NEW slices, AreSlices(slices), NEW e \in AllReady(slices)
  PROVE  HasAddresses(e)
<1>1. PICK i \in DOMAIN slices : e \in ReadyIn(slices[i])
  BY Zenon DEF AllReady
<1>2. e \in Range(slices[i].endpoints) /\ IsSlice(slices[i])
  BY <1>1, Zenon DEF ReadyIn, AreSlices
<1> QED BY <1>2, Zenon DEF IsSlice, HasAddresses

\* The hosts of a list of load balancing endpoints.
AddressesOf(lbs) == {lb.address : lb \in Range(lbs)}

LEMMA OneEndpointHosts ==
  ASSUME NEW d, IsSeq(d.endpoint.addresses)
  PROVE  /\ IsSeq(makeLbEndpoints(d))
         /\ AddressesOf(makeLbEndpoints(d)) = Range(d.endpoint.addresses)
<1> DEFINE s == d.endpoint.addresses
           lbs == makeLbEndpoints(d)
<1>1. lbs = [a \in DOMAIN s |-> [address |-> s[a], port |-> d.port]]
  BY Zenon DEF makeLbEndpoints
<1> HIDE DEF s, lbs
<1>2. \A a \in DOMAIN s : lbs[a].address = s[a]
  BY <1>1
<1>3. lbs = [a \in DOMAIN s |-> lbs[a]]
  BY <1>1, Zenon
<1>4. IsMap(lbs, s)
  BY <1>3, MapIsSeq, Zenon DEF s
<1>5. AddressesOf(lbs) = {lbs[a].address : a \in DOMAIN s}
  BY <1>4, Zenon DEF AddressesOf, IsMap
<1>6. Range(s) = {s[a] : a \in DOMAIN s}
  BY Zenon DEF Range
<1>7. AddressesOf(lbs) = Range(s)
  BY <1>2, <1>5, <1>6, Zenon
<1> QED BY <1>4, <1>7, Zenon DEF IsMap, s, lbs

LEMMA LbHosts ==
  ASSUME NEW datas, IsSeq(datas), \A e \in EndpointsOf(datas) : HasAddresses(e)
  PROVE  AddressesOf(LbEndpoints(datas)) = HostsOf(EndpointsOf(datas))
<1> DEFINE seqs == [i \in DOMAIN datas |-> makeLbEndpoints(datas[i])]
           lbs == LbEndpoints(datas)
<1>1. lbs = FlattenSeq(seqs) /\ seqs = [i \in DOMAIN datas |-> seqs[i]]
  BY Zenon DEF LbEndpoints
<1>2. \A i \in DOMAIN datas : seqs[i] = makeLbEndpoints(datas[i])
  BY Zenon
<1> HIDE DEF seqs, lbs
<1>3. \A i \in DOMAIN datas : datas[i] \in Range(datas)
  BY Zenon DEF Range
<1>4. ASSUME NEW i \in DOMAIN datas
      PROVE  IsSeq(seqs[i]) /\ AddressesOf(seqs[i]) = Range(datas[i].endpoint.addresses)
  <2>1. IsSeq(datas[i].endpoint.addresses)
    BY <1>3, Zenon DEF EndpointsOf, HasAddresses
  <2> QED BY <1>2, <2>1, OneEndpointHosts, Zenon
<1>5. IsMap(seqs, datas)
  BY <1>1, MapIsSeq, Zenon
<1>6. IsFlat(lbs, seqs)
  BY <1>1, <1>4, <1>5, FlattenIsSeq, Zenon DEF IsMap
<1>7. ASSUME NEW lb \in Range(lbs)
      PROVE  lb.address \in HostsOf(EndpointsOf(datas))
  <2>1. PICK i \in DOMAIN datas : lb \in Range(seqs[i])
    BY <1>5, <1>6, Zenon DEF IsFlat, IsMap
  <2>2. lb.address \in Range(datas[i].endpoint.addresses)
    BY <1>4, <2>1, Zenon DEF AddressesOf
  <2>3. datas[i].endpoint \in EndpointsOf(datas)
    BY <1>3, Zenon DEF EndpointsOf
  <2> QED BY <2>2, <2>3, Zenon DEF HostsOf
<1>8. ASSUME NEW d \in Range(datas), NEW h \in Range(d.endpoint.addresses)
      PROVE  h \in AddressesOf(lbs)
  <2>1. PICK i \in DOMAIN datas : d = datas[i]
    BY Zenon DEF Range
  <2>2. PICK lb \in Range(seqs[i]) : h = lb.address
    BY <1>4, <2>1, Zenon DEF AddressesOf
  <2>3. lb \in Range(lbs)
    BY <1>5, <1>6, <2>2, Zenon DEF IsFlat, IsMap
  <2> QED BY <2>2, <2>3, Zenon DEF AddressesOf
<1>9. AddressesOf(lbs) \subseteq HostsOf(EndpointsOf(datas))
  BY <1>7, Zenon DEF AddressesOf
<1>10. HostsOf(EndpointsOf(datas)) \subseteq AddressesOf(lbs)
  BY <1>8, Zenon DEF HostsOf, EndpointsOf
<1> QED BY <1>9, <1>10, Zenon DEF lbs

\* The endpoints of one priority.
AtPriority(endpoints, prio, z) == {e \in endpoints : Priority(e, z) = prio}

LEMMA GroupData ==
  ASSUME NEW datas, NEW endpoints, NEW prio, NEW z, AreData(datas, endpoints)
  PROVE  AreData(Group(datas, prio, z), AtPriority(endpoints, prio, z))
<1> DEFINE P == {d \in Range(datas) : Priority(d.endpoint, z) = prio}
           seqs == [i \in DOMAIN datas |->
                      IF Priority(datas[i].endpoint, z) = prio THEN <<datas[i]>> ELSE <<>>]
           group == Group(datas, prio, z)
<1>1. group = FlattenSeq(seqs)
  BY Zenon DEF Group, Keep
<1>2. \A i \in DOMAIN datas : datas[i] \in P <=> Priority(datas[i].endpoint, z) = prio
  BY Zenon DEF Range
<1>3. Filters(seqs, datas, P)
  <2> HIDE DEF P
  <2> QED BY <1>2, Zenon DEF Filters
<1>4. P \subseteq Range(datas)
  BY Zenon
<1>5. IsSeq(group) /\ Range(group) = Range(datas) \cap P
  <2> HIDE DEF P, seqs, group
  <2> QED BY <1>1, <1>3, KeepElements, Zenon DEF AreData
<1>6. Range(group) = P
  <2> HIDE DEF P, group
  <2> QED BY <1>4, <1>5, Zenon
<1>7. EndpointsOf(group) = AtPriority(EndpointsOf(datas), prio, z)
  <2> HIDE DEF group
  <2>1. \A d \in Range(group) : d \in Range(datas) /\ Priority(d.endpoint, z) = prio
    BY <1>6, Zenon
  <2>2. \A d \in Range(datas) : Priority(d.endpoint, z) = prio => d \in Range(group)
    BY <1>6, Zenon
  <2> QED BY <2>1, <2>2, Zenon DEF EndpointsOf, AtPriority
<1> QED BY <1>5, <1>7, Zenon DEF AreData

LEMMA LocalityFields ==
  ASSUME NEW datas, NEW endpoints, NEW prio,
         AreData(datas, endpoints), \A e \in endpoints : HasAddresses(e)
  PROVE  /\ GroupHosts(makeLocality(datas, prio)) = HostsOf(endpoints)
         /\ makeLocality(datas, prio).priority = prio
<1> DEFINE zoneOf == ZoneOf(datas)
           lbs == LbEndpoints(datas)
           group == makeLocality(datas, prio)
<1>1. group = [zone |-> zoneOf, priority |-> prio, weight |-> 1, endpoints |-> lbs]
  BY Zenon DEF makeLocality
<1>2. AddressesOf(lbs) = HostsOf(endpoints)
  BY LbHosts, Zenon DEF AreData
<1> HIDE DEF zoneOf, lbs, group
<1>3. group.endpoints = lbs /\ group.priority = prio
  BY <1>1
<1>4. GroupHosts(group) = HostsOf(endpoints)
  BY <1>2, <1>3, Zenon DEF GroupHosts, AddressesOf
<1> QED BY <1>3, <1>4, Zenon DEF group

\* The groups of a service: x for the hinted endpoints and y for the others,
\* without the empty ones.
TwoGroups(groups, x, y, first, rest) ==
  /\ groups = (IF first = {} THEN <<>> ELSE <<x>>) \o (IF rest = {} THEN <<>> ELSE <<y>>)
  /\ GroupHosts(x) = HostsOf(first) /\ x.priority = 0
  /\ GroupHosts(y) = HostsOf(rest) /\ y.priority = IF first = {} THEN 0 ELSE 1

LEMMA ServiceAnswer ==
  ASSUME NEW z, NEW ref, NEW slices, AreSlices(slices),
         makeServiceEndpoints(z, ref, slices) \notin Failures
  PROVE  \E x, y : TwoGroups(makeServiceEndpoints(z, ref, slices), x, y,
                             AtPriority(AllReady(slices), 0, z),
                             AtPriority(AllReady(slices), 1, z))
<1> DEFINE datas == ReadyOf(ref, slices)
           first == AtPriority(AllReady(slices), 0, z)
           rest == AtPriority(AllReady(slices), 1, z)
           hinted == Group(datas, 0, z)
           others == Group(datas, 1, z)
           x == makeLocality(hinted, appliedPrio(0, hinted))
           y == makeLocality(others, appliedPrio(1, hinted))
           groups == makeServiceEndpoints(z, ref, slices)
<1>1. /\ datas \notin Failures
      /\ groups = (IF hinted = <<>> THEN <<>> ELSE <<x>>) \o (IF others = <<>> THEN <<>> ELSE <<y>>)
  BY Zenon DEF makeServiceEndpoints, Then
<1>2. AreData(datas, AllReady(slices))
  BY <1>1, ReadyAnswer, Zenon
<1>3. AreData(hinted, first) /\ AreData(others, rest)
  <2> HIDE DEF datas
  <2> QED BY <1>2, GroupData, Zenon
<1>4. \A e \in first \cup rest : HasAddresses(e)
  BY ReadyHaveAddresses, Zenon DEF AtPriority
<1> HIDE DEF datas, first, rest, hinted, others, groups
<1>5. (hinted = <<>> <=> first = {}) /\ (others = <<>> <=> rest = {})
  <2>1. (hinted = <<>> <=> Range(hinted) = {}) /\ (others = <<>> <=> Range(others) = {})
    BY <1>3, EmptyList, Zenon DEF AreData
  <2>2. (Range(hinted) = {} <=> first = {}) /\ (Range(others) = {} <=> rest = {})
    BY <1>3, Zenon DEF AreData, EndpointsOf
  <2> QED BY <2>1, <2>2, Zenon
<1>6. GroupHosts(x) = HostsOf(first) /\ x.priority = appliedPrio(0, hinted)
  BY <1>3, <1>4, LocalityFields, Zenon
<1>7. GroupHosts(y) = HostsOf(rest) /\ y.priority = appliedPrio(1, hinted)
  BY <1>3, <1>4, LocalityFields, Zenon
<1> HIDE DEF x, y
<1>8. x.priority = 0 /\ y.priority = IF first = {} THEN 0 ELSE 1
  BY <1>5, <1>6, <1>7, Zenon DEF appliedPrio
<1>9. TwoGroups(groups, x, y, first, rest)
  BY <1>1, <1>5, <1>6, <1>7, <1>8, Zenon DEF TwoGroups
<1> QED BY <1>9, Zenon DEF groups, first, rest

LEMMA Joins ==
  ASSUME NEW x, NEW y
  PROVE  /\ <<>> \o <<>> = <<>> /\ <<>> \o <<y>> = <<y>>
         /\ <<x>> \o <<>> = <<x>> /\ <<x>> \o <<y>> = <<x, y>>
         /\ Range(<<x, y>>) = {x, y}
<1>1. <<>> \o <<>> = <<>>
  OBVIOUS
<1>2. <<>> \o <<y>> = <<y>>
  OBVIOUS
<1>3. <<x>> \o <<>> = <<x>>
  OBVIOUS
<1>4. <<x>> \o <<y>> = <<x, y>>
  <2> DEFINE s == <<x>> \o <<y>>
             t == <<x, y>>
  <2>1. s \in Seq({x, y}) /\ Len(s) = 2 /\ s[1] = x /\ s[2] = y
    OBVIOUS
  <2>2. t \in Seq({x, y}) /\ Len(t) = 2 /\ t[1] = x /\ t[2] = y
    OBVIOUS
  <2> HIDE DEF s, t
  <2>3. /\ s = [i \in 1..2 |-> s[i]] /\ t = [i \in 1..2 |-> t[i]]
        /\ \A i \in 1..2 : i = 1 \/ i = 2
    BY <2>1, <2>2
  <2>4. s = t
    BY <2>1, <2>2, <2>3, Zenon
  <2> QED BY <2>4, Zenon DEF s, t
<1>5. Range(<<x, y>>) = {x, y}
  BY DEF Range
<1> QED BY <1>1, <1>2, <1>3, <1>4, <1>5, Zenon

LEMMA TwoGroupsCases ==
  ASSUME NEW groups, NEW x, NEW y, NEW first, NEW rest, TwoGroups(groups, x, y, first, rest)
  PROVE  /\ first = {} /\ rest = {} => groups = <<>>
         /\ first = {} /\ rest # {} => groups = <<y>>
         /\ first # {} /\ rest = {} => groups = <<x>>
         /\ first # {} /\ rest # {} => groups = <<x, y>>
<1>1. groups = (IF first = {} THEN <<>> ELSE <<x>>) \o (IF rest = {} THEN <<>> ELSE <<y>>)
  BY Zenon DEF TwoGroups
<1>2. CASE first = {} /\ rest = {}
  BY <1>1, <1>2, Joins, Zenon
<1>3. CASE first = {} /\ rest # {}
  BY <1>1, <1>3, Joins, Zenon
<1>4. CASE first # {} /\ rest = {}
  BY <1>1, <1>4, Joins, Zenon
<1>5. CASE first # {} /\ rest # {}
  BY <1>1, <1>5, Joins, Zenon
<1> QED BY <1>2, <1>3, <1>4, <1>5, Zenon

\* Every endpoint has one of the two priorities.
LEMMA PrioritiesCover ==
  ASSUME NEW endpoints, NEW z
  PROVE  endpoints = AtPriority(endpoints, 0, z) \cup AtPriority(endpoints, 1, z)
BY Zenon DEF AtPriority, Priority

\* The hosts that all the groups of an answer serve.
HostsServed(groups) == UNION {GroupHosts(g) : g \in Range(groups)}

LEMMA ServiceHosts ==
  ASSUME NEW z, NEW ref, NEW slices, AreSlices(slices),
         makeServiceEndpoints(z, ref, slices) \notin Failures
  PROVE  HostsServed(makeServiceEndpoints(z, ref, slices)) = HostsOf(AllReady(slices))
<1> DEFINE groups == makeServiceEndpoints(z, ref, slices)
           all == AllReady(slices)
           first == AtPriority(all, 0, z)
           rest == AtPriority(all, 1, z)
<1>1. PICK x, y : TwoGroups(groups, x, y, first, rest)
  BY ServiceAnswer, Zenon
<1>2. all = first \cup rest
  BY PrioritiesCover, Zenon
<1> HIDE DEF groups, all, first, rest
<1>3. Range(groups) = (IF first = {} THEN {} ELSE {x}) \cup (IF rest = {} THEN {} ELSE {y})
  <2>1. /\ first = {} /\ rest = {} => groups = <<>>
        /\ first = {} /\ rest # {} => groups = <<y>>
        /\ first # {} /\ rest = {} => groups = <<x>>
        /\ first # {} /\ rest # {} => groups = <<x, y>>
    BY <1>1, TwoGroupsCases, Zenon
  <2>2. Range(<<>>) = {} /\ Range(<<x>>) = {x} /\ Range(<<y>>) = {y} /\ Range(<<x, y>>) = {x, y}
    BY EmptyAndSingle, Joins, Zenon
  <2> QED BY <2>1, <2>2, Zenon
<1>4. GroupHosts(x) = HostsOf(first) /\ GroupHosts(y) = HostsOf(rest)
  BY <1>1, Zenon DEF TwoGroups
<1>5. (first = {} => HostsOf(first) = {}) /\ (rest = {} => HostsOf(rest) = {})
  BY Zenon DEF HostsOf
<1>6. HostsServed(groups) = HostsOf(first) \cup HostsOf(rest)
  BY <1>3, <1>4, <1>5, Zenon DEF HostsServed
<1>7. HostsOf(all) = HostsOf(first) \cup HostsOf(rest)
  BY <1>2, Zenon DEF HostsOf
<1> QED BY <1>6, <1>7, Zenon DEF groups, all

LEMMA FlatHosts ==
  ASSUME NEW ref, NEW slices, NEW weight, NEW prio, AreSlices(slices),
         makeFlatLocalityLbEndpoints(ref, slices, weight, prio) \notin Failures
  PROVE  GroupHosts(makeFlatLocalityLbEndpoints(ref, slices, weight, prio))
           = HostsOf(AllReady(slices))
<1> DEFINE datas == ReadyOf(ref, slices)
           lbs == LbEndpoints(datas)
           group == makeFlatLocalityLbEndpoints(ref, slices, weight, prio)
<1>1. /\ datas \notin Failures
      /\ group = [zone |-> "", priority |-> prio, weight |-> weight, endpoints |-> lbs]
  BY Zenon DEF makeFlatLocalityLbEndpoints, Then
<1>2. AreData(datas, AllReady(slices))
  BY <1>1, ReadyAnswer, Zenon
<1> HIDE DEF group, datas
<1>3. AddressesOf(lbs) = HostsOf(AllReady(slices))
  BY <1>2, ReadyHaveAddresses, LbHosts, Zenon DEF AreData
<1> HIDE DEF lbs
<1>4. group.endpoints = lbs
  BY <1>1, Zenon
<1> QED BY <1>3, <1>4, Zenon DEF GroupHosts, AddressesOf, group

\* The slices of a service of the listener in the caches.
SlicesOf(service) == list(store, namespaceOf(service, store.listener), service.name)

\* What the properties say of hosts, in the terms used here.
LEMMA HostsAreReady ==
  ASSUME NEW service
  PROVE  AllHosts(service) = HostsOf(AllReady(SlicesOf(service)))
<1> DEFINE slices == SlicesOf(service)
           all == AllHosts(service)
<1>1. ServiceSlices(service) = {slices[i] : i \in DOMAIN slices}
  BY Zenon DEF ServiceSlices, SlicesOf, namespaceOf, Range
<1> DEFINE Ready(s) == {e \in ReadyIn(s) : TRUE}
<1>2. all = UNION {HostsOf(Ready(s)) : s \in ServiceSlices(service)}
  BY Zenon DEF AllHosts, Hosts, HostsOf
<1>r. \A s : Ready(s) = ReadyIn(s)
  BY Zenon
<1> HIDE DEF slices, all, Ready
<1>3. ASSUME NEW h \in all PROVE h \in HostsOf(AllReady(slices))
  <2>1. PICK i \in DOMAIN slices : h \in HostsOf(ReadyIn(slices[i]))
    BY <1>1, <1>2, <1>3, <1>r, Zenon
  <2> QED BY <2>1, Zenon DEF HostsOf, AllReady
<1>4. ASSUME NEW h \in HostsOf(AllReady(slices)) PROVE h \in all
  <2>1. PICK e \in AllReady(slices) : h \in Range(e.addresses)
    BY <1>4, Zenon DEF HostsOf
  <2>2. PICK i \in DOMAIN slices : e \in ReadyIn(slices[i])
    BY <2>1, Zenon DEF AllReady
  <2>3. h \in HostsOf(ReadyIn(slices[i])) /\ slices[i] \in ServiceSlices(service)
    BY <1>1, <2>1, <2>2, Zenon DEF HostsOf
  <2> QED BY <1>2, <1>r, <2>3, Zenon
<1> QED BY <1>3, <1>4, Zenon DEF slices, all

LEMMA HintedAreFirst ==
  ASSUME NEW service
  PROVE  HintedHosts(service) = HostsOf(AtPriority(AllReady(SlicesOf(service)), 0, zone))
<1> DEFINE slices == SlicesOf(service)
           Hinted(e) == e.hints # Nil /\ \E z \in e.hints : FoldZone[z] = FoldZone[zone]
           first == AtPriority(AllReady(slices), 0, zone)
           hosts == HintedHosts(service)
<1>1. ServiceSlices(service) = {slices[i] : i \in DOMAIN slices}
  BY Zenon DEF ServiceSlices, SlicesOf, namespaceOf, Range
<1>2. hosts = UNION {HostsOf({e \in ReadyIn(s) : Hinted(e)}) : s \in ServiceSlices(service)}
  BY Zenon DEF HintedHosts, Hosts, HostsOf
<1>3. 0 # 1
  OBVIOUS
<1>4. \A e : Priority(e, zone) = 0 <=> Hinted(e)
  BY <1>3, Zenon DEF Priority, containsZone
<1> HIDE DEF slices, Hinted, hosts
<1>5. ASSUME NEW h \in hosts PROVE h \in HostsOf(first)
  <2>1. PICK i \in DOMAIN slices : h \in HostsOf({e \in ReadyIn(slices[i]) : Hinted(e)})
    BY <1>1, <1>2, <1>5, Zenon
  <2>2. PICK e \in ReadyIn(slices[i]) : Hinted(e) /\ h \in Range(e.addresses)
    BY <2>1, Zenon DEF HostsOf
  <2>3. e \in first
    BY <1>4, <2>1, <2>2, Zenon DEF AtPriority, AllReady
  <2> QED BY <2>2, <2>3, Zenon DEF HostsOf
<1>6. ASSUME NEW h \in HostsOf(first) PROVE h \in hosts
  <2>1. PICK e \in first : h \in Range(e.addresses)
    BY <1>6, Zenon DEF HostsOf
  <2>2. e \in AllReady(slices) /\ Hinted(e)
    BY <1>4, <2>1, Zenon DEF AtPriority
  <2>3. PICK i \in DOMAIN slices : e \in ReadyIn(slices[i])
    BY <2>2, Zenon DEF AllReady
  <2>4. /\ h \in HostsOf({d \in ReadyIn(slices[i]) : Hinted(d)})
        /\ slices[i] \in ServiceSlices(service)
    BY <1>1, <2>1, <2>2, <2>3, Zenon DEF HostsOf
  <2> QED BY <1>2, <2>4, Zenon
<1> QED BY <1>5, <1>6, Zenon DEF slices, hosts

\* The groups of a backend serve the hosts of its services.
LEMMA BackendHosts ==
  ASSUME store \in Stores, NEW backend, IsSeq(backend.localities),
         Groups(zone, store.listener, backend, store) \notin Failures
  PROVE  HostsServed(Groups(zone, store.listener, backend, store))
           = UNION {AllHosts(s) : s \in Services(backend)}
<1> DEFINE groups == Groups(zone, store.listener, backend, store)
<1>0. \A service : AreSlices(SlicesOf(service))
  BY ListedSlices, Zenon DEF SlicesOf
<1>1. CASE backend.service # Nil
  <2> DEFINE service == backend.service
             answer == makeServiceEndpoints(zone, service.port, SlicesOf(service))
  <2>1. groups = answer
    BY <1>1, Zenon DEF Groups, makeServiceLoadAssignment, SlicesOf
  <2>2. HostsServed(answer) = HostsOf(AllReady(SlicesOf(service)))
    BY <1>0, <2>1, ServiceHosts, Zenon
  <2>3. Services(backend) = {service}
    BY <1>1, Zenon DEF Services
  <2>4. HostsServed(groups) = AllHosts(service)
    BY <2>1, <2>2, HostsAreReady, Zenon
  <2> HIDE DEF groups, service
  <2>5. UNION {AllHosts(s) : s \in Services(backend)} = AllHosts(service)
    BY <2>3, Zenon
  <2> QED BY <2>4, <2>5, Zenon DEF groups
<1>2. CASE backend.service = Nil
  <2> DEFINE ls == backend.localities
             flat(l) == makeFlatLocalityLbEndpoints(l.service.port, SlicesOf(l.service),
                                                    l.weight, l.priority)
             group(l) == IF l.service = Nil THEN Panic ELSE flat(l)
             results == [i \in DOMAIN ls |-> group(ls[i])]
  <2>1. groups = Each(results)
    BY <1>2, Zenon DEF Groups, makeLocalitiesLoadAssignment, SlicesOf, Failures
  <2>a. DOMAIN results = DOMAIN ls /\ \A i \in DOMAIN ls : results[i] = group(ls[i])
    BY Zenon
  <2> HIDE DEF results, ls
  <2>2. groups = results /\ \A i \in DOMAIN results : results[i] \notin Failures
    BY <2>1, EachAnswer, Zenon
  <2>3. ASSUME NEW i \in DOMAIN ls
        PROVE  GroupHosts(results[i]) = HostsOf(AllReady(SlicesOf(ls[i].service)))
    <3> DEFINE l == ls[i]
    <3>1. results[i] = flat(l) /\ flat(l) \notin Failures
      BY <2>a, <2>2, Zenon DEF Failures
    <3> HIDE DEF l
    <3>2. GroupHosts(flat(l)) = HostsOf(AllReady(SlicesOf(l.service)))
      BY <1>0, <3>1, FlatHosts, Zenon
    <3> QED BY <3>1, <3>2, Zenon DEF l
  <2>4. Range(groups) = {results[i] : i \in DOMAIN ls}
    BY <2>a, <2>2, Zenon DEF Range
  <2> HIDE DEF flat, groups
  <2>5. \A i \in DOMAIN ls : GroupHosts(results[i]) = AllHosts(ls[i].service)
    BY <2>3, HostsAreReady, Zenon
  <2>6. Services(backend) = {ls[i].service : i \in DOMAIN ls}
    BY <1>2, Zenon DEF Services, Range, ls
  <2>7. HostsServed(groups) = UNION {GroupHosts(results[i]) : i \in DOMAIN ls}
    BY <2>4, Zenon DEF HostsServed
  <2>8. UNION {AllHosts(s) : s \in Services(backend)} = UNION {AllHosts(ls[i].service) : i \in DOMAIN ls}
    BY <2>6, Zenon
  <2>9. HostsServed(groups) = UNION {AllHosts(s) : s \in Services(backend)}
    BY <2>5, <2>7, <2>8, Zenon
  <2> QED BY <2>9, Zenon DEF groups
<1> QED BY <1>1, <1>2, Zenon
-----------------------------------------------------------------------------
(* From the names of the routes to the hosts of their backends. *)

\* findBackendSpec finds the backend whose indices are in the name.
LEMMA BackendFound ==
  ASSUME NEW l, l = store.listener, l # Nil,
         IsSeq(l.routes), NEW r \in DOMAIN l.routes,
         IsSeq(l.routes[r].backends), NEW b \in DOMAIN l.routes[r].backends,
         NEW ref, ReadsBack(ref, l.namespace, l.name, r - 1, b - 1), findBackend(ref) \notin Failures
  PROVE  findBackend(ref) = l.routes[r].backends[b]
<1> DEFINE routes == l.routes
           backends == routes[r].backends
<1>1. ref.namespace = l.namespace /\ ref.listener = l.name
  BY Zenon DEF ReadsBack
<1>2. lookup(store, Word(ref.namespace), <<Word(ref.listener)>>) = l
  BY <1>1, Zenon DEF lookup
<1>3. findBackend(ref) = findBackendSpec(ref, l)
  BY <1>2, Zenon DEF findBackend, Then
<1>4. ref.routeID = r - 1 /\ ref.backendID = b - 1
  BY Zenon DEF ReadsBack
<1>5. Len(routes) \in Nat /\ Len(backends) \in Nat /\ r \in 1..Len(routes) /\ b \in 1..Len(backends)
  BY SequenceDomain, Zenon
<1> HIDE DEF routes, backends
<1>6. /\ ~(r - 1 > Len(routes) - 1) /\ ~(b - 1 > Len(backends) - 1)
      /\ r - 1 \in 0..(Len(routes) - 1) /\ b - 1 \in 0..(Len(backends) - 1)
      /\ r - 1 + 1 = r /\ b - 1 + 1 = b
  BY <1>5
<1>7. At(routes, r - 1) = routes[r] /\ At(backends, b - 1) = backends[b]
  BY <1>6, Zenon DEF At
<1>8. findBackendSpec(ref, l) = backends[b]
  BY <1>3, <1>4, <1>6, <1>7, Zenon DEF findBackendSpec, Then, routes, backends
<1> QED BY <1>3, <1>8, Zenon DEF routes, backends

\* What a client that is up to date holds for a name: the groups of the backend
\* that the name is of.
LEMMA CurrentGroups ==
  ASSUME ResolutionInv, NEW n, EndpointsAreCurrent(n)
  PROVE  LET ref == parseBackendName(n)
             groups == Groups(zone, store.listener, findBackend(ref), store)
         IN  /\ cds[n].serviceName = n
             /\ ref \notin Failures /\ findBackend(ref) \notin Failures
             /\ groups \notin Failures /\ eds[n].endpoints = groups
<1> DEFINE ref == parseBackendName(n)
           backend == findBackend(ref)
           answer == makeLoadAssignment(zone, ref, store.listener, backend, store)
           groups == Groups(zone, store.listener, backend, store)
<1>1. cds[n].serviceName = n
  BY Zenon DEF ResolutionInv, EndpointsAreCurrent
<1>2. eds[n] = resolveEndpoint(n) /\ resolveEndpoint(n) \notin Failures
  BY <1>1, Zenon DEF ResolutionInv, EndpointsAreCurrent
<1>3. ref \notin Failures /\ backend \notin Failures /\ resolveEndpoint(n) = answer
  BY <1>2, EndpointAnswer, Zenon
<1>4. IsAssignment(answer, BackendString(ref), groups)
  BY <1>2, <1>3, AssignmentAnswer, Zenon
<1> QED BY <1>1, <1>2, <1>3, <1>4, Zenon DEF IsAssignment

\* The hosts served under the name of a backend.
LEMMA NameReachesBackend ==
  ASSUME ResolutionInv, store.listener # Nil,
         NEW r \in DOMAIN store.listener.routes,
         NEW b \in DOMAIN store.listener.routes[r].backends,
         NEW n, n = backendName(store.listener.namespace, store.listener.name, r - 1, b - 1),
         EndpointsAreCurrent(n)
  PROVE  ServedHosts(cds[n].serviceName)
           = UNION {AllHosts(s) : s \in Services(store.listener.routes[r].backends[b])}
<1> DEFINE l == store.listener
           ref == parseBackendName(n)
           backend == l.routes[r].backends[b]
           groups == Groups(zone, l, findBackend(ref), store)
<1>1. store \in Stores
  BY Zenon DEF ResolutionInv, TypeOK
<1>2. IsSeq(l.routes) /\ IsSeq(l.routes[r].backends) /\ IsSeq(backend.localities)
  BY <1>1, ListenerLists, Zenon
<1>3. r - 1 \in Nat /\ b - 1 \in Nat
  BY <1>2, SequenceDomain, Zenon
<1>4. /\ cds[n].serviceName = n
      /\ ref \notin Failures /\ findBackend(ref) \notin Failures
      /\ groups \notin Failures /\ eds[n].endpoints = groups
  BY CurrentGroups, Zenon
<1>5. ReadsBack(ref, l.namespace, l.name, r - 1, b - 1)
  <2> DEFINE ns == l.namespace
             nm == l.name
  <2> HIDE DEF ns, nm
  <2>1. ReadsBack(parseBackendName(backendName(ns, nm, r - 1, b - 1)), ns, nm, r - 1, b - 1)
    BY <1>3, NamesReadBack, Zenon
  <2> QED BY <2>1, Zenon DEF ns, nm
<1>6. findBackend(ref) = backend
  <2>1. findBackend(ref) \notin Failures /\ IsSeq(l.routes) /\ IsSeq(l.routes[r].backends)
    BY <1>2, <1>4, Zenon
  <2> HIDE DEF ref
  <2> QED BY <1>5, <2>1, BackendFound, Zenon
<1>7. HostsServed(groups) = UNION {AllHosts(s) : s \in Services(backend)}
  BY <1>1, <1>2, <1>4, <1>6, BackendHosts, Zenon
<1>8. ServedHosts(n) = HostsServed(groups)
  BY <1>4, Zenon DEF ServedHosts, HostsServed
<1> QED BY <1>4, <1>7, <1>8, Zenon

\* RoutesReachTheirBackends, for any stores and zones: along the names that
\* makeWeightedClusters writes and parseBackendName and findBackendSpec read, a
\* client that is up to date reaches the ready hosts of the backend and no other.
THEOREM NamesReachBackends == Spec => []RoutesReachTheirBackends
<1>1. ResolutionInv => RoutesReachTheirBackends
  <2> SUFFICES ASSUME ResolutionInv, ListenerIsCurrent
               PROVE  RoutesReachTheirBackends
    BY Zenon DEF RoutesReachTheirBackends
  <2> DEFINE l == store.listener
  <2>1. IsMessage(lds, lds.name, l)
    BY CurrentMessage, Zenon
  <2>2. /\ l # Nil /\ lds.routes = [r \in DOMAIN l.routes |-> makeRoute(l, r - 1, l.routes[r])]
        /\ \A r \in DOMAIN l.routes : makeRoute(l, r - 1, l.routes[r]) \notin Failures
    BY <2>1, Zenon DEF IsMessage
  <2>3. IsSeq(l.routes) /\ \A r \in DOMAIN l.routes : IsSeq(l.routes[r].backends)
    BY <2>2, ListenerLists, Zenon DEF ResolutionInv, TypeOK
  <2>4. IsMap(lds.routes, l.routes)
    <3>1. lds.routes = [r \in DOMAIN l.routes |-> lds.routes[r]]
      BY <2>2, Zenon
    <3> QED BY <2>3, <3>1, MapIsSeq, Zenon
  <2>5. Len(lds.routes) = Len(l.routes) /\ DOMAIN lds.routes = DOMAIN l.routes
    BY <2>4, Zenon DEF IsMap
  <2>6. ASSUME NEW r \in DOMAIN lds.routes
        PROVE  LET clusters == lds.routes[r].clusters.clusters
                   backends == l.routes[r].backends
               IN  /\ Len(clusters) = Len(backends)
                   /\ \A b \in DOMAIN clusters :
                        EndpointsAreCurrent(clusters[b].name) =>
                          ServedHosts(cds[clusters[b].name].serviceName)
                            = UNION {AllHosts(s) : s \in Services(backends[b])}
    <3> DEFINE route == l.routes[r]
               clusters == lds.routes[r].clusters.clusters
               backends == route.backends
    <3>1. r \in DOMAIN l.routes
      BY <2>5, Zenon
    <3>2. lds.routes[r] = makeRoute(l, r - 1, route) /\ makeRoute(l, r - 1, route) \notin Failures
      BY <2>2, <3>1, Zenon
    <3>3. IsRoute(lds.routes[r], l, r - 1, route)
      BY <3>2, RouteAnswer, Zenon
    <3>4. AreClusters(clusters, l.namespace, l.name, r - 1, route)
      BY <3>3, Zenon DEF IsRoute
    <3>5. IsMap(clusters, backends)
      <4>1. clusters = [b \in DOMAIN backends |-> clusters[b]]
        BY <3>4, Zenon DEF AreClusters
      <4>2. IsSeq(backends)
        BY <2>3, <3>1, Zenon
      <4> QED BY <4>1, <4>2, MapIsSeq, Zenon
    <3>6. Len(clusters) = Len(backends) /\ DOMAIN clusters = DOMAIN backends
      BY <3>5, Zenon DEF IsMap
    <3>7. ASSUME NEW b \in DOMAIN clusters, EndpointsAreCurrent(clusters[b].name)
          PROVE  ServedHosts(cds[clusters[b].name].serviceName)
                   = UNION {AllHosts(s) : s \in Services(backends[b])}
      <4>1. /\ b \in DOMAIN backends
            /\ clusters[b].name = backendName(l.namespace, l.name, r - 1, b - 1)
        BY <3>4, <3>6, <3>7, Zenon DEF AreClusters
      <4> QED BY <2>2, <3>1, <3>7, <4>1, NameReachesBackend, Zenon
    <3> QED BY <3>6, <3>7, Zenon
  <2> QED BY <2>5, <2>6, Zenon DEF RoutesReachTheirBackends
<1> QED BY <1>1, ResolutionInit, ResolutionStep, PTL DEF Spec

\* The first group of a service, and the priorities of its groups.
LEMMA FirstGroup ==
  ASSUME NEW groups, NEW x, NEW y, NEW first, NEW rest, TwoGroups(groups, x, y, first, rest)
  PROVE  /\ \A g \in DOMAIN groups : groups[g].priority = g - 1
         /\ groups # <<>> => GroupHosts(groups[1]) = IF first = {} THEN HostsOf(rest)
                                                                 ELSE HostsOf(first)
<1>1. /\ GroupHosts(x) = HostsOf(first) /\ x.priority = 0
      /\ GroupHosts(y) = HostsOf(rest)
      /\ first = {} => y.priority = 0
      /\ first # {} => y.priority = 1
  BY Zenon DEF TwoGroups
<1>2. /\ DOMAIN <<>> = {} /\ DOMAIN <<x>> = {1} /\ DOMAIN <<y>> = {1} /\ DOMAIN <<x, y>> = {1, 2}
      /\ <<x>>[1] = x /\ <<y>>[1] = y /\ <<x, y>>[1] = x /\ <<x, y>>[2] = y
      /\ 1 - 1 = 0 /\ 2 - 1 = 1
  OBVIOUS
<1>3. /\ first = {} /\ rest = {} => groups = <<>>
      /\ first = {} /\ rest # {} => groups = <<y>>
      /\ first # {} /\ rest = {} => groups = <<x>>
      /\ first # {} /\ rest # {} => groups = <<x, y>>
  BY TwoGroupsCases, Zenon
<1>4. CASE first = {} /\ rest = {}
  BY <1>2, <1>3, <1>4, Zenon
<1>5. CASE first = {} /\ rest # {}
  BY <1>1, <1>2, <1>3, <1>5, Zenon
<1>6. CASE first # {} /\ rest = {}
  BY <1>1, <1>2, <1>3, <1>6, Zenon
<1>7. CASE first # {} /\ rest # {}
  BY <1>1, <1>2, <1>3, <1>7, Zenon
<1> QED BY <1>4, <1>5, <1>6, <1>7, Zenon

\* HintedHostsComeFirst, for any stores and zones: makeServiceEndpoints puts the
\* hosts hinted for the zone of the client first and alone, or all hosts when
\* none is hinted.
THEOREM HintsComeFirst == Spec => []HintedHostsComeFirst
<1>1. ResolutionInv => HintedHostsComeFirst
  <2> SUFFICES ASSUME ResolutionInv, NEW n \in DOMAIN eds, EndpointsAreCurrent(n),
                      findBackend(parseBackendName(n)).service # Nil
               PROVE  LET groups == eds[n].endpoints
                          service == findBackend(parseBackendName(n)).service
                          hinted == HintedHosts(service)
                      IN  /\ \A g \in DOMAIN groups : groups[g].priority = g - 1
                          /\ groups # <<>> =>
                               GroupHosts(groups[1]) =
                                 IF hinted = {} THEN AllHosts(service) ELSE hinted
    BY Zenon DEF HintedHostsComeFirst
  <2> DEFINE backend == findBackend(parseBackendName(n))
             service == backend.service
             slices == SlicesOf(service)
             groups == eds[n].endpoints
             all == AllReady(slices)
             first == AtPriority(all, 0, zone)
             rest == AtPriority(all, 1, zone)
  <2>1. /\ groups = Groups(zone, store.listener, backend, store)
        /\ Groups(zone, store.listener, backend, store) \notin Failures
    BY CurrentGroups, Zenon
  <2>2. groups = makeServiceEndpoints(zone, service.port, slices) /\ groups \notin Failures
    BY <2>1, Zenon DEF Groups, makeServiceLoadAssignment, SlicesOf
  <2>3. AreSlices(slices)
    BY ListedSlices, Zenon DEF SlicesOf, ResolutionInv, TypeOK
  <2>4. HintedHosts(service) = HostsOf(first) /\ AllHosts(service) = HostsOf(all)
    BY HintedAreFirst, HostsAreReady, Zenon
  <2> HIDE DEF backend, service, slices, groups
  <2>5. PICK x, y : TwoGroups(groups, x, y, first, rest)
    BY <2>2, <2>3, ServiceAnswer, Zenon
  <2>6. all = first \cup rest
    BY PrioritiesCover, Zenon
  <2>7. first # {} => HostsOf(first) # {}
    <3> SUFFICES ASSUME NEW e \in first PROVE HostsOf(first) # {}
      BY Zenon
    <3>1. HasAddresses(e)
      BY <2>3, ReadyHaveAddresses, Zenon DEF AtPriority
    <3>2. Range(e.addresses) # {}
      BY <3>1, EmptyList, Zenon DEF HasAddresses
    <3> QED BY <3>2, Zenon DEF HostsOf
  <2> HIDE DEF all, first, rest
  <2>8. first = {} => HostsOf(first) = {} /\ all = rest
    BY <2>6, Zenon DEF HostsOf
  <2>9. /\ \A g \in DOMAIN groups : groups[g].priority = g - 1
        /\ groups # <<>> => GroupHosts(groups[1]) = IF first = {} THEN HostsOf(rest)
                                                                ELSE HostsOf(first)
    BY <2>5, FirstGroup, Zenon
  <2>10. groups # <<>> =>
           GroupHosts(groups[1]) = IF HintedHosts(service) = {} THEN AllHosts(service)
                                                               ELSE HintedHosts(service)
    BY <2>4, <2>7, <2>8, <2>9, Zenon
  <2> QED BY <2>9, <2>10, Zenon DEF groups, service, backend
<1> QED BY <1>1, ResolutionInit, ResolutionStep, PTL DEF Spec
=============================================================================

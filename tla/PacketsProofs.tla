---------------------------- MODULE PacketsProofs ----------------------------
(***************************************************************************)
(* Proofs about Packets, in the composition of MCRecall, for any memories, *)
(* documents, cards and sections, any sizes, any limits and any ranking.   *)
(***************************************************************************)
EXTENDS RecallProofs, FiniteSetTheorems

-----------------------------------------------------------------------------
(* Recursion over a list *)

\* What holds at 0 and is kept by each step holds up to N.
LEMMA UpTo ==
    ASSUME NEW N \in Nat, NEW G, 0 \in G,
           \A n \in 1..N : n - 1 \in G => n \in G
    PROVE  \A n \in 0..N : n \in G
<1> DEFINE Bad == {n \in 0..N : n \notin G}
<1> SUFFICES ASSUME Bad # {} PROVE FALSE
  OBVIOUS
<1>1. Bad \subseteq Nat
  OBVIOUS
<1>2. PICK k \in Bad : \A j \in Bad : k <= j
  <2> HIDE DEF Bad
  <2>1. QED BY <1>1, Least
<1>3. k \in 1..N /\ k - 1 \in 0..N /\ k - 1 < k
  OBVIOUS
<1>4. k - 1 \notin Bad
  <2> HIDE DEF Bad
  <2>1. QED BY <1>1, <1>2, <1>3
<1>5. QED BY <1>3, <1>4

\* f is given at 0 and step by step.
Follows(f, N, v, step) == f[0] = v /\ \A n \in 1..N : f[n] = step[n][f[n - 1]]

\* There is such a function.
LEMMA Unfolds ==
    ASSUME NEW N \in Nat, NEW V, NEW v \in V, NEW step \in [1..N -> [V -> V]]
    PROVE  \E f \in [0..N -> V] : Follows(f, N, v, step)
<1> DEFINE Fits(f, m) == f[0] = v /\ \A n \in 1..m : f[n] = step[n][f[n - 1]]
           G == {m \in 0..N : \E f \in [0..N -> V] : Fits(f, m)}
<1>1. 0 \in G
  <2>1. [n \in 0..N |-> v] \in [0..N -> V] /\ Fits([n \in 0..N |-> v], 0)
    OBVIOUS
  <2>2. \E f \in [0..N -> V] : Fits(f, 0)
    <3> HIDE DEF Fits
    <3>1. QED BY <2>1
  <2>3. QED BY <2>2
<1>2. ASSUME NEW m \in 1..N, m - 1 \in G PROVE m \in G
  <2>1. PICK f \in [0..N -> V] : Fits(f, m - 1)
    BY <1>2
  <2> DEFINE w == step[m][f[m - 1]]
             g == [f EXCEPT ![m] = w]
  <2>2. m - 1 \in 0..N /\ m \in 0..N /\ 1..m = (1..(m - 1)) \union {m}
    OBVIOUS
  <2>3. w \in V
    BY <2>2
  <2>4. g \in [0..N -> V] /\ g[m] = w /\ g[0] = f[0] /\ \A n \in 0..(m - 1) : g[n] = f[n]
    <3> HIDE DEF w
    <3>1. QED BY <2>2, <2>3
  <2>5. Fits(g, m)
    <3> HIDE DEF g
    <3>1. \A n \in 1..(m - 1) : n \in 0..(m - 1) /\ n - 1 \in 0..(m - 1)
      OBVIOUS
    <3>2. \A n \in 1..(m - 1) : g[n] = step[n][g[n - 1]]
      BY <2>1, <2>4, <3>1
    <3>3. g[m] = step[m][g[m - 1]]
      BY <2>4
    <3>4. QED BY <2>1, <2>2, <2>4, <3>2, <3>3
  <2>6. \E h \in [0..N -> V] : Fits(h, m)
    <3> HIDE DEF Fits, g
    <3>1. QED BY <2>4, <2>5
  <2>7. QED BY <2>2, <2>6
<1>3. \A n \in 0..N : n \in G
  <2> HIDE DEF G
  <2>1. QED BY <1>1, <1>2, UpTo
<1>4. N \in G
  BY <1>3
<1>5. QED BY <1>4 DEF Follows

-----------------------------------------------------------------------------
(* Sums *)

\* Total adds up one number after the other.
LEMMA TotalSteps ==
    ASSUME NEW s \in Seq(Nat)
    PROVE  \E t \in [0..Len(s) -> Nat] :
               t[0] = 0 /\ Total(s) = t[Len(s)] /\ \A n \in 1..Len(s) : t[n] = t[n - 1] + s[n]
<1> DEFINE N == Len(s)
           step == [n \in 1..N |-> [k \in Nat |-> k + s[n]]]
<1>1. N \in Nat /\ 0 \in Nat /\ \A n \in 1..N : s[n] \in Nat
  OBVIOUS
<1>2. step \in [1..N -> [Nat -> Nat]] /\ \A n \in 1..N, k \in Nat : step[n][k] = k + s[n]
  BY <1>1
<1>3. PICK t \in [0..N -> Nat] : Follows(t, N, 0, step)
  <2>1. N \in Nat /\ 0 \in Nat /\ step \in [1..N -> [Nat -> Nat]]
    BY <1>1, <1>2
  <2> HIDE DEF N, step
  <2>2. QED BY <2>1, Unfolds
<1>4. \A n \in 1..N : n \in 0..N /\ n - 1 \in 0..N
  BY <1>1
<1>5. t[0] = 0 /\ \A n \in 1..N : t[n] = t[n - 1] + s[n]
  <2> HIDE DEF N, step
  <2>1. QED BY <1>2, <1>3, <1>4 DEF Follows
<1> HIDE DEF step
<1> DEFINE Step(f, n) == IF n = 0 THEN 0 ELSE f[n - 1] + s[n]
<1>6. t = [n \in 0..N |-> Step(t, n)]
  <2>1. \A n \in 0..N : t[n] = Step(t, n)
    BY <1>1, <1>3, <1>5
  <2>2. t = [n \in 0..N |-> t[n]]
    OBVIOUS
  <2> HIDE DEF Step
  <2>3. QED BY <2>1, <2>2
<1> DEFINE f == CHOOSE g : g = [n \in 0..N |-> Step(g, n)]
<1>7. f = [n \in 0..N |-> Step(f, n)]
  BY <1>6
<1>8. Total(s) = f[N]
  BY DEF Total
<1> HIDE DEF f
<1>9. \A n \in 0..N : f[n] = t[n]
  <2> DEFINE G == {n \in 0..N : f[n] = t[n]}
  <2>1. 0 \in G
    BY <1>1, <1>3, <1>7
  <2>2. ASSUME NEW n \in 1..N, n - 1 \in G PROVE n \in G
    <3>1. f[n] = f[n - 1] + s[n]
      BY <1>7, <1>4
    <3>2. QED BY <1>4, <1>5, <2>2, <3>1
  <2>3. \A n \in 0..N : n \in G
    <3> HIDE DEF G
    <3>1. QED BY <1>1, <2>1, <2>2, UpTo
  <2>4. QED BY <2>3
<1>10. QED BY <1>1, <1>3, <1>5, <1>8, <1>9

LEMMA TotalType ==
    ASSUME NEW s \in Seq(Nat) PROVE Total(s) \in Nat
<1>1. Len(s) \in 0..Len(s)
  OBVIOUS
<1>2. QED BY <1>1, TotalSteps

\* Of two running sums the one with more at place k is ahead from there.
LEMMA RunningLess ==
    ASSUME NEW N \in Nat, NEW k \in 1..N,
           NEW a \in [1..N -> Nat], NEW b \in [1..N -> Nat],
           \A n \in 1..N : a[n] <= b[n], a[k] < b[k],
           NEW t \in [0..N -> Nat], NEW w \in [0..N -> Nat], t[0] = w[0],
           \A n \in 1..N : t[n] = t[n - 1] + a[n] /\ w[n] = w[n - 1] + b[n]
    PROVE  t[N] < w[N]
<1> DEFINE Less(n) == t[n] <= w[n] /\ (k <= n => t[n] < w[n])
           G == {n \in 0..N : Less(n)}
<1>1. 0 \in G
  OBVIOUS
<1>2. ASSUME NEW n \in 1..N, n - 1 \in G PROVE n \in G
  <2>1. n \in 0..N /\ n - 1 \in 0..N /\ (k <= n => k <= n - 1 \/ k = n) /\ ~ (k <= k - 1)
    OBVIOUS
  <2>2. a[n] \in Nat /\ b[n] \in Nat /\ t[n - 1] \in Nat /\ w[n - 1] \in Nat
    BY <2>1
  <2>3. t[n] = t[n - 1] + a[n] /\ w[n] = w[n - 1] + b[n] /\ a[n] <= b[n]
    OBVIOUS
  <2>4. Less(n - 1)
    BY <1>2
  <2>5. Less(n)
    <3>1. PICK x \in Nat, y \in Nat, v \in Nat, z \in Nat :
              x = a[n] /\ y = b[n] /\ v = t[n - 1] /\ z = w[n - 1]
      BY <2>2
    <3>2. t[n] = v + x /\ w[n] = z + y /\ x <= y /\ v <= z
      BY <2>3, <2>4, <3>1
    <3>3. k = n => x < y
      BY <3>1
    <3>4. k <= n - 1 => v < z
      BY <2>4, <3>1
    <3>5. t[n] <= w[n] /\ (x < y \/ v < z => t[n] < w[n])
      BY ONLY <3>2, x \in Nat, y \in Nat, v \in Nat, z \in Nat
    <3>6. QED BY <2>1, <3>3, <3>4, <3>5
  <2>6. QED BY <2>1, <2>5
<1>3. \A n \in 0..N : n \in G
  <2> HIDE DEF G
  <2>1. QED BY <1>1, <1>2, UpTo
<1>4. Less(N)
  BY <1>3
<1>5. QED BY <1>4

\* A sum grows with what is summed.
LEMMA TotalLess ==
    ASSUME NEW s \in Seq(Nat), NEW u \in Seq(Nat), Len(s) = Len(u),
           \A n \in 1..Len(s) : s[n] <= u[n],
           \E n \in 1..Len(s) : s[n] < u[n]
    PROVE  Total(s) < Total(u)
<1>1. PICK N \in Nat : N = Len(s)
  OBVIOUS
<1>2. s \in [1..N -> Nat] /\ u \in [1..N -> Nat] /\ Len(u) = N
  BY <1>1
<1>3. PICK t \in [0..N -> Nat] :
          t[0] = 0 /\ Total(s) = t[N] /\ \A n \in 1..N : t[n] = t[n - 1] + s[n]
  BY <1>1, TotalSteps
<1>4. PICK w \in [0..N -> Nat] :
          w[0] = 0 /\ Total(u) = w[N] /\ \A n \in 1..N : w[n] = w[n - 1] + u[n]
  BY <1>2, TotalSteps
<1>5. PICK k \in 1..N : s[k] < u[k]
  BY <1>1
<1>6. \A n \in 1..N : s[n] <= u[n]
  BY <1>1
<1>7. t[N] < w[N]
  BY ONLY <1>2, <1>3, <1>4, <1>5, <1>6, N \in Nat, RunningLess
<1>8. QED BY <1>3, <1>4, <1>7

LEMMA TotalOfTwo ==
    ASSUME NEW x \in Nat, NEW y \in Nat PROVE Total(<<x, y>>) = x + y
<1>1. <<x, y>> \in Seq(Nat) /\ Len(<<x, y>>) = 2 /\ <<x, y>>[1] = x /\ <<x, y>>[2] = y
  OBVIOUS
<1>2. PICK t \in [0..2 -> Nat] :
          t[0] = 0 /\ Total(<<x, y>>) = t[2] /\ \A n \in 1..2 : t[n] = t[n - 1] + <<x, y>>[n]
  BY <1>1, TotalSteps
<1>3. t[1] = t[0] + x /\ t[2] = t[1] + y
  <2>1. t[1] = t[1 - 1] + <<x, y>>[1] /\ t[2] = t[2 - 1] + <<x, y>>[2]
    BY <1>2
  <2>2. QED BY <1>1, <2>1
<1>4. QED BY <1>2, <1>3

-----------------------------------------------------------------------------
(* Picking, continued *)

\* The elements of s stay in their order.
LEMMA PickedOrder ==
    ASSUME NEW T, NEW s \in Seq(T), NEW S, NEW k \in 1..Len(Picked(s, S)),
           NEW l \in 1..Len(Picked(s, S)), k < l
    PROVE  \E m, n \in 1..Len(s) : m < n /\ s[m] = Picked(s, S)[k] /\ s[n] = Picked(s, S)[l]
<1>1. PICK p : /\ \A n \in 0..Len(s) :
                        p[n] = IF n = 0 THEN <<>>
                               ELSE IF s[n] \in S THEN Append(p[n - 1], s[n]) ELSE p[n - 1]
               /\ Picked(s, S) = p[Len(s)]
  BY PickedSteps
<1> DEFINE N == Len(s)
           From(q, j, n) == \E m \in 1..n : s[m] = q[j]
           Ordered(q, n) == \A i, j \in 1..Len(q) :
               i < j => \E m, h \in 1..n : m < h /\ s[m] = q[i] /\ s[h] = q[j]
           Good(q, n) == /\ q \in Seq(T) /\ Ordered(q, n)
                         /\ \A j \in 1..Len(q) : From(q, j, n)
           G == {n \in 0..N : Good(p[n], n)}
<1>2. N \in Nat /\ \A n \in 1..N : s[n] \in T
  OBVIOUS
<1>3. 0 \in G
  <2>1. p[0] = <<>> /\ 0 \in 0..N
    BY <1>1, <1>2
  <2>2. Good(<<>>, 0)
    OBVIOUS
  <2> HIDE DEF Good
  <2>3. QED BY <2>1, <2>2
<1>4. ASSUME NEW n \in 1..N, n - 1 \in G PROVE n \in G
  <2> DEFINE q == p[n - 1]
  <2>1. n \in 0..N /\ n \in 1..n /\ 1..(n - 1) \subseteq 1..n /\ s[n] \in T
        /\ \A m \in 1..(n - 1) : m < n
    BY <1>2
  <2>2. Good(q, n - 1)
    BY <1>4
  <2>3. CASE s[n] \in S
    <3>1. p[n] = Append(q, s[n])
      <4>1. n \in 0..Len(s) /\ n # 0
        BY <2>1
      <4>2. QED BY <1>1, <2>3, <4>1
    <3> HIDE DEF q
    <3>2. /\ Append(q, s[n]) \in Seq(T) /\ Len(Append(q, s[n])) = Len(q) + 1 /\ Len(q) \in Nat
          /\ Append(q, s[n])[Len(q) + 1] = s[n]
          /\ \A j \in 1..Len(q) : Append(q, s[n])[j] = q[j]
      BY <2>1, <2>2
    <3> DEFINE r == Append(q, s[n])
    <3>3. r \in Seq(T) /\ Len(r) = Len(q) + 1 /\ Len(q) \in Nat
          /\ r[Len(q) + 1] = s[n] /\ \A j \in 1..Len(q) : r[j] = q[j]
      BY <3>2
    <3> HIDE DEF r
    <3>4. ASSUME NEW j \in 1..Len(r) PROVE From(r, j, n)
      <4>1. CASE j = Len(q) + 1
        BY <2>1, <3>3, <4>1
      <4>2. CASE j # Len(q) + 1
        <5>1. j \in 1..Len(q) /\ r[j] = q[j]
          BY <3>3, <4>2
        <5>2. QED BY <2>1, <2>2, <5>1
      <4>3. QED BY <4>1, <4>2
    <3>5. ASSUME NEW i \in 1..Len(r), NEW j \in 1..Len(r), i < j
          PROVE  \E m, h \in 1..n : m < h /\ s[m] = r[i] /\ s[h] = r[j]
      <4>1. i \in 1..Len(q) /\ r[i] = q[i]
        BY <3>3, <3>5
      <4>2. CASE j = Len(q) + 1
        <5>1. PICK m \in 1..(n - 1) : s[m] = q[i]
          BY <2>2, <4>1
        <5>2. m < n /\ s[m] = r[i] /\ s[n] = r[j] /\ m \in 1..n
          BY <2>1, <3>3, <4>1, <4>2, <5>1
        <5>3. QED BY <2>1, <5>2
      <4>3. CASE j # Len(q) + 1
        <5>1. j \in 1..Len(q) /\ r[j] = q[j]
          BY <3>3, <4>3
        <5>2. \E m, h \in 1..(n - 1) : m < h /\ s[m] = q[i] /\ s[h] = q[j]
          BY <2>2, <3>5, <4>1, <5>1
        <5>3. QED BY <2>1, <4>1, <5>1, <5>2
      <4>4. QED BY <4>2, <4>3
    <3>6. Good(r, n)
      BY <3>3, <3>4, <3>5
    <3>7. p[n] = r
      BY <3>1 DEF r
    <3> HIDE DEF Good
    <3>8. QED BY <2>1, <3>6, <3>7
  <2>4. CASE s[n] \notin S
    <3>1. p[n] = q
      <4>1. n \in 0..Len(s) /\ n # 0
        BY <2>1
      <4>2. QED BY <1>1, <2>4, <4>1
    <3> HIDE DEF q
    <3>2. \A j \in 1..Len(q) : From(q, j, n)
      BY <2>1, <2>2
    <3>3. Ordered(q, n)
      BY <2>1, <2>2
    <3>4. Good(q, n)
      BY <2>2, <3>2, <3>3
    <3> HIDE DEF Good
    <3>5. QED BY <2>1, <3>1, <3>4
  <2>5. QED BY <2>3, <2>4
<1>5. \A n \in 0..N : n \in G
  <2> HIDE DEF G, N
  <2>1. QED BY <1>2, <1>3, <1>4, UpTo
<1>6. Good(Picked(s, S), N)
  <2>1. N \in G
    <3> HIDE DEF G, N
    <3>1. QED BY <1>2, <1>5
  <2> HIDE DEF Good
  <2>2. QED BY <1>1, <2>1
<1>7. QED BY <1>6

LEMMA PickedInjective ==
    ASSUME NEW T, NEW s \in Seq(T), NEW S, IsInjective(s)
    PROVE  IsInjective(Picked(s, S))
<1> DEFINE p == Picked(s, S)
<1>1. p \in Seq(T)
  BY PickedFacts
<1>2. ASSUME NEW k \in 1..Len(p), NEW l \in 1..Len(p), k < l PROVE p[k] # p[l]
  <2>1. PICK m \in 1..Len(s), n \in 1..Len(s) : m < n /\ s[m] = p[k] /\ s[n] = p[l]
    BY <1>2, PickedOrder
  <2>2. DOMAIN s = 1..Len(s) /\ m # n
    BY <2>1
  <2>3. QED BY <2>1, <2>2 DEF IsInjective
<1> HIDE DEF p
<1>3. DOMAIN p = 1..Len(p) /\ Len(p) \in Nat
  BY <1>1
<1>4. \A k, l \in 1..Len(p) : p[k] = p[l] => k = l
  <2> SUFFICES ASSUME NEW k \in 1..Len(p), NEW l \in 1..Len(p), k # l PROVE p[k] # p[l]
    OBVIOUS
  <2>1. k < l \/ l < k
    BY <1>3
  <2>2. QED BY <1>2, <2>1
<1>5. IsInjective(p)
  BY <1>3, <1>4 DEF IsInjective
<1>6. QED BY <1>5 DEF p

LEMMA PrefixStep ==
    ASSUME NEW T, NEW s \in Seq(T), NEW n \in 1..Len(s)
    PROVE  Append(SubSeq(s, 1, n - 1), s[n]) = SubSeq(s, 1, n)
<1>1. n \in Nat /\ n - 1 \in Nat /\ \A k \in 1..n : k \in 1..Len(s)
  OBVIOUS
<1>2. SubSeq(s, 1, n - 1) \in Seq(T) /\ SubSeq(s, 1, n) \in Seq(T)
  BY <1>1
<1>3. Len(SubSeq(s, 1, n - 1)) = n - 1 /\ Len(SubSeq(s, 1, n)) = n
  BY <1>1
<1>4. /\ \A k \in 1..(n - 1) : SubSeq(s, 1, n - 1)[k] = s[k]
      /\ \A k \in 1..n : SubSeq(s, 1, n)[k] = s[k]
  BY <1>1
<1> DEFINE a == Append(SubSeq(s, 1, n - 1), s[n])
<1>5. a \in Seq(T) /\ Len(a) = n
  BY <1>2, <1>3
<1>6. ASSUME NEW k \in 1..n PROVE a[k] = s[k]
  <2>1. CASE k = n
    BY <1>2, <1>3, <2>1
  <2>2. CASE k # n
    <3>1. k \in 1..(n - 1)
      BY <2>2
    <3>2. a[k] = SubSeq(s, 1, n - 1)[k]
      BY <1>2, <1>3, <3>1
    <3>3. QED BY <1>4, <3>1, <3>2
  <2>3. QED BY <2>1, <2>2
<1> HIDE DEF a
<1>7. a = SubSeq(s, 1, n)
  BY <1>2, <1>3, <1>4, <1>5, <1>6
<1>8. QED BY <1>7 DEF a

\* If only the first m elements are in S, they are what is picked.
LEMMA PickedPrefix ==
    ASSUME NEW T, NEW s \in Seq(T), NEW S, NEW m \in 0..Len(s),
           \A n \in 1..m : s[n] \in S, \A n \in (m + 1)..Len(s) : s[n] \notin S
    PROVE  Picked(s, S) = SubSeq(s, 1, m)
<1>1. PICK p : /\ \A n \in 0..Len(s) :
                        p[n] = IF n = 0 THEN <<>>
                               ELSE IF s[n] \in S THEN Append(p[n - 1], s[n]) ELSE p[n - 1]
               /\ Picked(s, S) = p[Len(s)]
  BY PickedSteps
<1> DEFINE N == Len(s)
           Cap(n) == IF n <= m THEN n ELSE m
           G == {n \in 0..N : p[n] = SubSeq(s, 1, Cap(n))}
<1>2. N \in Nat /\ m \in Nat /\ m <= N
  OBVIOUS
<1>3. 0 \in G
  <2>1. p[0] = <<>> /\ Cap(0) = 0 /\ 0 \in 0..N
    BY <1>1, <1>2
  <2>2. SubSeq(s, 1, 0) = <<>>
    OBVIOUS
  <2>3. QED BY <2>1, <2>2
<1>4. ASSUME NEW n \in 1..N, n - 1 \in G PROVE n \in G
  <2>1. n \in 0..Len(s) /\ n # 0 /\ n - 1 \in 0..N
    BY <1>2
  <2>2. p[n] = IF s[n] \in S THEN Append(p[n - 1], s[n]) ELSE p[n - 1]
    BY <1>1, <2>1
  <2>3. p[n - 1] = SubSeq(s, 1, Cap(n - 1))
    BY <1>4
  <2>4. CASE n <= m
    <3>1. s[n] \in S /\ Cap(n - 1) = n - 1 /\ Cap(n) = n
      BY <1>2, <2>4
    <3>2. QED BY <2>1, <2>2, <2>3, <3>1, PrefixStep
  <2>5. CASE ~ (n <= m)
    <3>1. n \in (m + 1)..Len(s)
      BY <1>2, <2>5
    <3>2. s[n] \notin S
      BY <3>1
    <3>3. Cap(n - 1) = m /\ Cap(n) = m
      BY <1>2, <2>5
    <3>4. QED BY <2>1, <2>2, <2>3, <3>2, <3>3
  <2>6. QED BY <2>4, <2>5
<1>5. \A n \in 0..N : n \in G
  <2> HIDE DEF G, N
  <2>1. QED BY <1>2, <1>3, <1>4, UpTo
<1>6. N \in G
  <2> HIDE DEF G, N
  <2>1. QED BY <1>2, <1>5
<1>7. Cap(N) = m
  BY <1>2
<1>8. QED BY <1>1, <1>6, <1>7

\* Two parts of what a list can have are picked in as many elements.
LEMMA PickedSplit ==
    ASSUME NEW S, NEW U, S \intersect U = {}, NEW s \in Seq(S \union U)
    PROVE  Len(Picked(s, S)) + Len(Picked(s, U)) = Len(s)
<1> DEFINE T == S \union U
<1>1. PICK p : /\ \A n \in 0..Len(s) :
                        p[n] = IF n = 0 THEN <<>>
                               ELSE IF s[n] \in S THEN Append(p[n - 1], s[n]) ELSE p[n - 1]
               /\ Picked(s, S) = p[Len(s)]
  BY PickedSteps
<1>2. PICK q : /\ \A n \in 0..Len(s) :
                        q[n] = IF n = 0 THEN <<>>
                               ELSE IF s[n] \in U THEN Append(q[n - 1], s[n]) ELSE q[n - 1]
               /\ Picked(s, U) = q[Len(s)]
  BY PickedSteps
<1> DEFINE N == Len(s)
           Good(x, y, n) == x \in Seq(T) /\ y \in Seq(T) /\ Len(x) + Len(y) = n
           G == {n \in 0..N : Good(p[n], q[n], n)}
<1>3. N \in Nat /\ \A n \in 1..N : s[n] \in T
  OBVIOUS
<1>4. 0 \in G
  <2>1. p[0] = <<>> /\ q[0] = <<>> /\ 0 \in 0..N
    BY <1>1, <1>2, <1>3
  <2>2. Good(<<>>, <<>>, 0)
    OBVIOUS
  <2> HIDE DEF Good
  <2>3. QED BY <2>1, <2>2
<1>5. ASSUME NEW n \in 1..N, n - 1 \in G PROVE n \in G
  <2>1. n \in 0..Len(s) /\ n # 0 /\ s[n] \in T
    BY <1>3
  <2>2. PICK x, y : x = p[n - 1] /\ y = q[n - 1]
    OBVIOUS
  <2>3. Good(x, y, n - 1)
    BY <1>5, <2>2
  <2>4. CASE s[n] \in S
    <3>1. p[n] = Append(x, s[n]) /\ q[n] = y
      BY <1>1, <1>2, <2>1, <2>2, <2>4
    <3>2. Good(Append(x, s[n]), y, n)
      BY <2>1, <2>3
    <3> HIDE DEF Good
    <3>3. QED BY <2>1, <3>1, <3>2
  <2>5. CASE s[n] \notin S
    <3>1. p[n] = x /\ q[n] = Append(y, s[n])
      BY <1>1, <1>2, <2>1, <2>2, <2>5
    <3>2. Good(x, Append(y, s[n]), n)
      BY <2>1, <2>3
    <3> HIDE DEF Good
    <3>3. QED BY <2>1, <3>1, <3>2
  <2>6. QED BY <2>4, <2>5
<1>6. \A n \in 0..N : n \in G
  <2> HIDE DEF G, N
  <2>1. QED BY <1>3, <1>4, <1>5, UpTo
<1>7. Good(p[N], q[N], N)
  <2>1. N \in G
    <3> HIDE DEF G, N
    <3>1. QED BY <1>3, <1>6
  <2> HIDE DEF Good
  <2>2. QED BY <2>1
<1>8. QED BY <1>1, <1>2, <1>7

-----------------------------------------------------------------------------
(* Lists without repetition *)

LEMMA RangeOfList ==
    ASSUME NEW T, NEW s \in Seq(T)
    PROVE  /\ DOMAIN s = 1..Len(s) /\ Len(s) \in Nat
           /\ Range(s) \subseteq T
           /\ \A x : x \in Range(s) <=> \E n \in 1..Len(s) : s[n] = x
           /\ IsFiniteSet(Range(s))
<1>1. DOMAIN s = 1..Len(s) /\ Len(s) \in Nat /\ \A n \in 1..Len(s) : s[n] \in T
  OBVIOUS
<1>2. Range(s) \subseteq T /\ \A x : x \in Range(s) <=> \E n \in 1..Len(s) : s[n] = x
  BY <1>1 DEF Range
<1>3. s \in [1..Len(s) -> Range(s)]
  BY <1>1, <1>2
<1>4. s \in Surjection(1..Len(s), Range(s))
  BY <1>2, <1>3 DEF Surjection
<1>5. IsFiniteSet(1..Len(s))
  BY <1>1, FS_Interval
<1>6. QED BY <1>1, <1>2, <1>4, <1>5, FS_Surjection

\* A list without repetition is no longer than what it is made of.
LEMMA LengthBound ==
    ASSUME NEW T, IsFiniteSet(T), NEW s \in Seq(T), IsInjective(s)
    PROVE  Len(s) <= Cardinality(T)
<1>1. Len(s) \in Nat /\ s \in [1..Len(s) -> T]
  OBVIOUS
<1>2. s \in Injection(1..Len(s), T)
  BY <1>1 DEF Injection
<1>3. Cardinality(1..Len(s)) <= Cardinality(T)
  BY <1>2, FS_Injection
<1>4. Cardinality(1..Len(s)) = Len(s)
  BY <1>1, FS_Interval
<1>5. QED BY <1>3, <1>4

LEMMA PrefixOf ==
    ASSUME NEW T, NEW s \in Seq(T), NEW m \in 0..Len(s)
    PROVE  /\ SubSeq(s, 1, m) \in Seq(T) /\ Len(SubSeq(s, 1, m)) = m
           /\ \A n \in 1..m : SubSeq(s, 1, m)[n] = s[n] /\ n \in 1..Len(s)
           /\ Range(SubSeq(s, 1, m)) \subseteq Range(s)
           /\ IsInjective(s) => IsInjective(SubSeq(s, 1, m))
<1> DEFINE p == SubSeq(s, 1, m)
<1>1. p \in Seq(T) /\ Len(p) = m /\ \A n \in 1..m : p[n] = s[n] /\ n \in 1..Len(s)
  OBVIOUS
<1> HIDE DEF p
<1>2. DOMAIN p = 1..m /\ DOMAIN s = 1..Len(s)
  BY <1>1
<1>3. Range(p) \subseteq Range(s)
  BY <1>1, <1>2 DEF Range
<1>4. IsInjective(s) => IsInjective(p)
  BY <1>1, <1>2 DEF IsInjective
<1>5. QED BY <1>1, <1>3, <1>4 DEF p

LEMMA FrontOf ==
    ASSUME NEW T, NEW s \in Seq(T), s # <<>>
    PROVE  /\ Front(s) \in Seq(T) /\ Len(Front(s)) = Len(s) - 1 /\ Len(s) \in Nat \ {0}
           /\ \A n \in 1..(Len(s) - 1) : Front(s)[n] = s[n] /\ n \in 1..Len(s)
           /\ Range(Front(s)) \subseteq Range(s)
           /\ IsInjective(s) => IsInjective(Front(s)) /\ Range(Front(s)) = Range(s) \ {Last(s)}
           /\ Last(s) \in T /\ Last(s) \in Range(s) /\ Last(s) = s[Len(s)]
<1>1. Len(s) \in Nat \ {0} /\ Len(s) - 1 \in 0..Len(s)
      /\ 1..Len(s) = (1..(Len(s) - 1)) \union {Len(s)}
  OBVIOUS
<1>2. /\ Front(s) \in Seq(T) /\ Len(Front(s)) = Len(s) - 1
      /\ \A n \in 1..(Len(s) - 1) : Front(s)[n] = s[n] /\ n \in 1..Len(s)
      /\ Range(Front(s)) \subseteq Range(s)
      /\ IsInjective(s) => IsInjective(Front(s))
  BY <1>1, PrefixOf DEF Front
<1>3. Last(s) = s[Len(s)] /\ Last(s) \in T /\ Last(s) \in Range(s)
  BY <1>1, RangeOfList DEF Last
<1>4. ASSUME IsInjective(s) PROVE Range(Front(s)) = Range(s) \ {Last(s)}
  <2>1. \A x : x \in Range(Front(s)) <=> \E n \in 1..(Len(s) - 1) : s[n] = x
    <3>1. \A x : x \in Range(Front(s)) <=> \E n \in 1..Len(Front(s)) : Front(s)[n] = x
      BY <1>2, RangeOfList
    <3>2. QED BY <1>2, <3>1
  <2>2. \A x : x \in Range(s) <=> \E n \in 1..Len(s) : s[n] = x
    BY RangeOfList
  <2>3. \A n \in 1..(Len(s) - 1) : n \in 1..Len(s) /\ n # Len(s)
    BY <1>1
  <2>4. \A n \in 1..(Len(s) - 1) : s[n] # s[Len(s)]
    BY <1>1, <1>4, <2>3, RangeOfList DEF IsInjective
  <2>5. \A x : x \in Range(Front(s)) <=> x \in Range(s) /\ x # Last(s)
    BY <1>1, <1>3, <2>1, <2>2, <2>4
  <2>6. QED BY <2>5
<1>5. QED BY <1>1, <1>2, <1>3, <1>4

LEMMA ConcatOf ==
    ASSUME NEW S, NEW T, NEW s \in Seq(S), NEW t \in Seq(T)
    PROVE  /\ s \o t \in Seq(S \union T) /\ Len(s \o t) = Len(s) + Len(t)
           /\ \A n \in 1..Len(s) : (s \o t)[n] = s[n]
           /\ \A n \in 1..Len(t) : (s \o t)[Len(s) + n] = t[n]
<1>1. s \in Seq(S \union T) /\ t \in Seq(S \union T)
  OBVIOUS
<1>2. QED BY <1>1

LEMMA ConcatRange ==
    ASSUME NEW S, NEW T, NEW s \in Seq(S), NEW t \in Seq(T)
    PROVE  Range(s \o t) = Range(s) \union Range(t)
<1>1. s \in Seq(S \union T) /\ t \in Seq(S \union T) /\ Len(s) \in Nat /\ Len(t) \in Nat
  OBVIOUS
<1> DEFINE c == s \o t
<1>2. /\ c \in Seq(S \union T) /\ Len(c) = Len(s) + Len(t)
      /\ \A n \in 1..Len(s) : c[n] = s[n]
      /\ \A n \in 1..Len(t) : c[Len(s) + n] = t[n]
  BY <1>1
<1> HIDE DEF c
<1>3. \A n \in 1..Len(c) : n \in 1..Len(s) \/ (n - Len(s) \in 1..Len(t) /\ n = Len(s) + (n - Len(s)))
  BY <1>1, <1>2
<1>4. \A n \in 1..Len(s) : n \in 1..Len(c)
  BY <1>1, <1>2
<1>5. \A n \in 1..Len(t) : Len(s) + n \in 1..Len(c)
  BY <1>1, <1>2
<1>6. ASSUME NEW x PROVE x \in Range(c) <=> x \in Range(s) \/ x \in Range(t)
  <2>1. ASSUME x \in Range(c) PROVE x \in Range(s) \/ x \in Range(t)
    <3>1. PICK n \in 1..Len(c) : c[n] = x
      BY <1>2, <2>1, RangeOfList
    <3>2. CASE n \in 1..Len(s)
      BY <1>2, <3>1, <3>2, RangeOfList
    <3>3. CASE n - Len(s) \in 1..Len(t) /\ n = Len(s) + (n - Len(s))
      <4>1. c[n] = t[n - Len(s)]
        BY <1>2, <3>3
      <4>2. QED BY <3>1, <3>3, <4>1, RangeOfList
    <3>4. QED BY <1>3, <3>2, <3>3
  <2>2. x \in Range(s) => x \in Range(c)
    BY <1>2, <1>4, RangeOfList
  <2>3. x \in Range(t) => x \in Range(c)
    BY <1>2, <1>5, RangeOfList
  <2>4. QED BY <2>1, <2>2, <2>3
<1>7. Range(c) = Range(s) \union Range(t)
  BY <1>6
<1>8. QED BY <1>2, <1>7 DEF c

LEMMA ConcatInjective ==
    ASSUME NEW S, NEW T, NEW s \in Seq(S), NEW t \in Seq(T), S \intersect T = {},
           IsInjective(s), IsInjective(t)
    PROVE  IsInjective(s \o t)
<1> DEFINE c == s \o t
<1>1. /\ c \in Seq(S \union T) /\ Len(c) = Len(s) + Len(t)
      /\ \A n \in 1..Len(s) : c[n] = s[n]
      /\ \A n \in 1..Len(t) : c[Len(s) + n] = t[n]
  BY ConcatOf
<1>2. /\ DOMAIN s = 1..Len(s) /\ Len(s) \in Nat /\ DOMAIN t = 1..Len(t) /\ Len(t) \in Nat
      /\ \A n \in 1..Len(s) : s[n] \in S /\ s[n] \notin T
      /\ \A n \in 1..Len(t) : t[n] \in T
  OBVIOUS
<1> HIDE DEF c
<1>3. ASSUME NEW m \in 1..Len(c), NEW n \in 1..Len(c), c[m] = c[n] PROVE m = n
  <2>1. CASE m \in 1..Len(s) /\ n \in 1..Len(s)
    BY <1>1, <1>2, <1>3, <2>1 DEF IsInjective
  <2>2. CASE m \notin 1..Len(s) /\ n \notin 1..Len(s)
    <3>1. PICK i \in 1..Len(t) : i = m - Len(s)
      <4>1. m - Len(s) \in 1..Len(t)
        BY <1>1, <1>2, <2>2
      <4>2. QED BY <4>1
    <3>2. PICK j \in 1..Len(t) : j = n - Len(s)
      <4>1. n - Len(s) \in 1..Len(t)
        BY <1>1, <1>2, <2>2
      <4>2. QED BY <4>1
    <3>3. c[m] = t[i] /\ c[n] = t[j]
      <4>1. m = Len(s) + i /\ n = Len(s) + j
        BY <1>2, <3>1, <3>2
      <4>2. QED BY <1>1, <4>1
    <3>4. i = j
      BY <1>2, <1>3, <3>3 DEF IsInjective
    <3>5. QED BY <1>2, <3>1, <3>2, <3>4
  <2>3. CASE m \in 1..Len(s) /\ n \notin 1..Len(s)
    <3>1. PICK j \in 1..Len(t) : n = Len(s) + j
      <4>1. n - Len(s) \in 1..Len(t) /\ n = Len(s) + (n - Len(s))
        BY <1>1, <1>2, <2>3
      <4>2. QED BY <4>1
    <3>2. c[m] = s[m] /\ c[n] = t[j]
      BY <1>1, <2>3, <3>1
    <3>3. QED BY <1>2, <1>3, <2>3, <3>2
  <2>4. CASE m \notin 1..Len(s) /\ n \in 1..Len(s)
    <3>1. PICK j \in 1..Len(t) : m = Len(s) + j
      <4>1. m - Len(s) \in 1..Len(t) /\ m = Len(s) + (m - Len(s))
        BY <1>1, <1>2, <2>4
      <4>2. QED BY <4>1
    <3>2. c[n] = s[n] /\ c[m] = t[j]
      BY <1>1, <2>4, <3>1
    <3>3. QED BY <1>2, <1>3, <2>4, <3>2
  <2>5. QED BY <2>1, <2>2, <2>3, <2>4
<1>4. DOMAIN c = 1..Len(c)
  BY <1>1
<1>5. IsInjective(c)
  BY <1>3, <1>4 DEF IsInjective
<1>6. QED BY <1>5 DEF c

LEMMA FrontOfConcat ==
    ASSUME NEW S, NEW T, NEW s \in Seq(S), NEW t \in Seq(T), t # <<>>
    PROVE  /\ s \o t # <<>> /\ Last(s \o t) = Last(t)
           /\ Front(s \o t) = s \o Front(t)
           /\ Len(Front(s \o t)) = Len(s \o t) - 1 /\ Len(s \o t) \in Nat
<1> DEFINE c == s \o t
           x == Front(c)
           y == s \o Front(t)
<1>1. /\ Len(s) \in Nat /\ Len(t) \in Nat \ {0} /\ Len(c) = Len(s) + Len(t)
      /\ \A n \in 1..Len(s) : c[n] = s[n]
      /\ \A n \in 1..Len(t) : c[Len(s) + n] = t[n]
      /\ c \in Seq(S \union T)
  BY ConcatOf
<1>2. c # <<>> /\ Last(c) = Last(t)
  <2> HIDE DEF c
  <2>1. QED BY <1>1 DEF Last
<1>3. /\ Front(t) \in Seq(T) /\ Len(Front(t)) = Len(t) - 1
      /\ \A n \in 1..(Len(t) - 1) : Front(t)[n] = t[n]
  BY FrontOf
<1>4. /\ x \in Seq(S \union T) /\ Len(x) = Len(c) - 1
      /\ \A n \in 1..(Len(c) - 1) : x[n] = c[n]
  <2>1. PICK U : U = S \union T /\ c \in Seq(U)
    BY <1>1
  <2> HIDE DEF c
  <2>2. /\ Front(c) \in Seq(U) /\ Len(Front(c)) = Len(c) - 1
        /\ \A n \in 1..(Len(c) - 1) : Front(c)[n] = c[n]
    BY <1>2, <2>1, FrontOf
  <2>3. QED BY <2>1, <2>2
<1>5. /\ y \in Seq(S \union T) /\ Len(y) = Len(s) + Len(Front(t))
      /\ \A n \in 1..Len(s) : y[n] = s[n]
      /\ \A n \in 1..Len(Front(t)) : y[Len(s) + n] = Front(t)[n]
  <2>1. Front(t) \in Seq(T)
    BY <1>3
  <2>2. QED BY <2>1, ConcatOf
<1> HIDE DEF c, x, y
<1>6. ASSUME NEW n \in 1..Len(x) PROVE x[n] = y[n]
  <2>1. CASE n \in 1..Len(s)
    <3>1. n \in 1..(Len(c) - 1)
      BY <1>4
    <3>2. QED BY <1>1, <1>4, <1>5, <2>1, <3>1
  <2>2. CASE n \notin 1..Len(s)
    <3>1. PICK k \in 1..(Len(t) - 1) : n = Len(s) + k
      <4>1. n - Len(s) \in 1..(Len(t) - 1) /\ n = Len(s) + (n - Len(s))
        BY <1>1, <1>4, <2>2
      <4>2. QED BY <4>1
    <3>2. k \in 1..Len(t) /\ k \in 1..Len(Front(t)) /\ n \in 1..(Len(c) - 1)
      BY <1>1, <1>3, <1>4
    <3>3. c[n] = t[k] /\ y[n] = Front(t)[k] /\ Front(t)[k] = t[k] /\ x[n] = c[n]
      BY <1>1, <1>3, <1>4, <1>5, <3>1, <3>2
    <3>4. QED BY <3>3
  <2>3. QED BY <2>1, <2>2
<1>7. Len(x) = Len(y)
  BY <1>1, <1>3, <1>4, <1>5
<1>8. x = y
  BY <1>4, <1>5, <1>6, <1>7
<1>9. QED BY <1>1, <1>2, <1>4, <1>8 DEF c, x, y

\* Dropping what a list does not have, or its last element.
LEMMA WithoutNone ==
    ASSUME NEW T, NEW s \in Seq(T), NEW D, Range(s) \intersect D = {}
    PROVE  Without(s, D) = s
<1>1. Len(s) \in 0..Len(s) /\ (Len(s) + 1)..Len(s) = {} /\ SubSeq(s, 1, Len(s)) = s
  OBVIOUS
<1>2. \A n \in 1..Len(s) : s[n] \in Range(s) \ D
  BY RangeOfList
<1>3. QED BY <1>1, <1>2, PickedPrefix DEF Without

LEMMA WithoutLast ==
    ASSUME NEW T, NEW s \in Seq(T), s # <<>>, IsInjective(s)
    PROVE  Without(s, {Last(s)}) = Front(s)
<1>1. /\ Len(s) \in Nat \ {0} /\ Last(s) = s[Len(s)] /\ Range(Front(s)) = Range(s) \ {Last(s)}
      /\ Front(s) \in Seq(T) /\ Len(Front(s)) = Len(s) - 1
      /\ \A n \in 1..(Len(s) - 1) : Front(s)[n] = s[n]
  BY FrontOf
<1>2. Len(s) - 1 \in 0..Len(s) /\ ((Len(s) - 1) + 1)..Len(s) = {Len(s)}
  BY <1>1
<1>3. \A n \in 1..(Len(s) - 1) : s[n] \in Range(s) \ {Last(s)}
  <2>1. \A n \in 1..(Len(s) - 1) : Front(s)[n] \in Range(Front(s))
    BY <1>1, RangeOfList
  <2>2. QED BY <1>1, <2>1
<1>4. \A n \in {Len(s)} : s[n] \notin Range(s) \ {Last(s)}
  BY <1>1
<1>5. QED BY <1>2, <1>3, <1>4, PickedPrefix DEF Without, Front

LEMMA MinOfTwo ==
    ASSUME NEW a \in Int, NEW b \in Int
    PROVE  Min({a, b}) = IF a <= b THEN a ELSE b
BY DEF Min

LEMMA MaxOfTwo ==
    ASSUME NEW a \in Int, NEW b \in Int
    PROVE  Max({a, b}) = IF a >= b THEN a ELSE b
BY DEF Max

\* A cut keeps the first elements, up to its limit.
LEMMA CutOf ==
    ASSUME NEW T, NEW s \in Seq(T), NEW limit \in Nat
    PROVE  \E m \in 0..Len(s) : Cut(s, limit) = SubSeq(s, 1, m) /\ m <= limit
<1>1. Len(s) \in Nat
  OBVIOUS
<1>2. Min({limit, Len(s)}) = IF limit <= Len(s) THEN limit ELSE Len(s)
  BY <1>1, MinOfTwo
<1>3. PICK m \in 0..Len(s) : m = Min({limit, Len(s)}) /\ m <= limit
  BY <1>1, <1>2
<1>4. Cut(s, limit) = SubSeq(s, 1, m)
  BY <1>3 DEF Cut
<1>5. QED BY <1>3, <1>4

\* What SetToSeqs orders is a list of it without repetition.
LEMMA OrderedOf ==
    ASSUME NEW S, IsFiniteSet(S), NEW s \in SetToSeqs(S)
    PROVE  s \in Seq(S) /\ IsInjective(s) /\ Len(s) = Cardinality(S)
<1>1. Cardinality(S) \in Nat
  BY FS_CardinalityType
<1>2. s \in [1..Cardinality(S) -> S] /\ \A i, j \in 1..Cardinality(S) : i # j => s[i] # s[j]
  BY DEF SetToSeqs
<1>3. IsInjective(s)
  BY <1>2 DEF IsInjective
<1>4. s \in Seq(S) /\ Len(s) = Cardinality(S)
  BY <1>1, <1>2
<1>5. QED BY <1>3, <1>4

-----------------------------------------------------------------------------
(* Sizes and estimates *)

\* The estimate of a text is a quarter of its length, rounded up.
LEMMA TokensOf ==
    ASSUME NEW chars \in Nat, chars # 0
    PROVE  Tokens(chars) \in Nat /\ chars <= 4 * Tokens(chars) /\ 4 * Tokens(chars) <= chars + 3
<1>1. (chars + 3) \div 4 \in Int /\ (chars + 3) \div 4 >= 1
  OBVIOUS
<1>2. Tokens(chars) = (chars + 3) \div 4
  BY <1>1, MaxOfTwo DEF Tokens
<1>3. QED BY <1>1, <1>2

LEMMA DigitsOf ==
    ASSUME NEW n \in Nat
    PROVE  /\ Digits(n) \in Nat \ {0} /\ Digits(0) = 1
           /\ n < 10000 => Digits(n) <= 4
BY DEF Digits

LEMMA SizeOfList ==
    ASSUME NEW T, T \subseteq Facts \union Papers \union Cards \union Sections, NEW s \in Seq(T)
    PROVE  SizeOf(s) \in Nat
<1> DEFINE sizes == [n \in DOMAIN s |-> Size[s[n]]]
<1>1. DOMAIN s = 1..Len(s) /\ Len(s) \in Nat /\ \A n \in 1..Len(s) : s[n] \in T
  OBVIOUS
<1>2. \A n \in 1..Len(s) : Size[s[n]] \in Nat
  <2>1. Size \in [Facts \union Papers \union Cards \union Sections -> Nat]
    BY SizeAssumption DEF SizeAssumption
  <2>2. QED BY <1>1, <2>1
<1>3. sizes \in [1..Len(s) -> Nat]
  BY <1>1, <1>2
<1>4. sizes \in Seq(Nat)
  <2> HIDE DEF sizes
  <2>1. QED BY <1>1, <1>3
<1>5. QED BY <1>4, TotalType DEF SizeOf

-----------------------------------------------------------------------------
(* The brief *)

\* A compilation is under way, for what was asked.
Asked ==
    /\ stage \in {"recall", "pack", "rank", "brief", "draft", "drafted", "refused"}
    /\ request \in Requests

Briefed == stage \in {"brief", "draft", "drafted", "refused"}

\* Receipts are those of what is shown; what a document takes along is tied to it.
BriefInv ==
    /\ DOMAIN brief = DOMAIN NoBrief
    /\ brief.documents \in Seq(Cards) /\ IsInjective(brief.documents)
    /\ brief.sections \in Seq(Sections) /\ IsInjective(brief.sections)
    /\ brief.sources = brief.documents \o brief.sections
    /\ \A s \in Range(brief.sections) : ParentOf[s] \in Range(brief.documents)
    /\ IsFiniteSet(brief.paths) /\ \A p \in brief.paths : p[1] \in Range(brief.documents)
    /\ {brief.candidates, brief.omitted} \subseteq Nat
    /\ brief.omitted + Len(brief.sources) = brief.candidates
    /\ Briefed => brief.estimate = Tokens(BriefChars(brief) + Digits(0))
    /\ stage \in {"draft", "drafted", "refused"} => ~TooLong(brief, BriefBudget)

LEMMA FiniteImage ==
    ASSUME NEW S, IsFiniteSet(S), NEW f, DOMAIN f = S, f = [x \in S |-> f[x]]
    PROVE  IsFiniteSet({f[x] : x \in S})
<1>1. f \in Surjection(S, {f[x] : x \in S})
  BY DEF Surjection
<1>2. QED BY <1>1, FS_Surjection

\* Paths start at the cards they are asked for.
LEMMA PathsOf ==
    ASSUME NEW roots, roots \subseteq Cards
    PROVE  IsFiniteSet(Paths(roots)) /\ \A p \in Paths(roots) : p[1] \in roots
<1> DEFINE short == {<<a, b>> : a \in roots, b \in Cards}
           one == {p \in short : p[2] \in Targets[p[1]] \ {p[1]}}
           long == {Append(q, c) : q \in short, c \in Cards}
           two == {p \in long : /\ p[2] \in Targets[p[1]] \ {p[1]}
                                /\ p[3] \in Targets[p[2]] \ {p[1], p[2]}}
           none(a) == {<<a, ref>> : ref \in Unresolved[a]}
           nones == {none(a) : a \in roots}
<1>1. Paths(roots) = one \union two \union UNION nones
  BY DEF Paths
<1>2. IsFiniteSet(Cards) /\ IsFiniteSet(roots)
  BY ItemAssumption, FS_Subset DEF ItemAssumption
<1>3. IsFiniteSet(short)
  <2>1. short = roots \X Cards
    OBVIOUS
  <2>2. QED BY <1>2, <2>1, FS_Product
<1>4. IsFiniteSet(one)
  BY <1>3, FS_Subset
<1>5. IsFiniteSet(two)
  <2> DEFINE f == [x \in short \X Cards |-> Append(x[1], x[2])]
             image == {f[x] : x \in short \X Cards}
  <2>1. IsFiniteSet(short \X Cards)
    BY <1>2, <1>3, FS_Product
  <2>2. IsFiniteSet(image)
    <3>1. DOMAIN f = short \X Cards /\ f = [x \in short \X Cards |-> f[x]]
      OBVIOUS
    <3> HIDE DEF f, short
    <3>2. QED BY <2>1, <3>1, FiniteImage
  <2>3. long \subseteq image
    <3> HIDE DEF short
    <3>1. ASSUME NEW q \in short, NEW c \in Cards
          PROVE  Append(q, c) \in image
      <4>1. <<q, c>> \in short \X Cards /\ f[<<q, c>>] = Append(q, c)
        OBVIOUS
      <4> HIDE DEF f
      <4>2. QED BY <4>1
    <3>2. ASSUME NEW x \in long PROVE x \in image
      <4>1. PICK q \in short, c \in Cards : x = Append(q, c)
        OBVIOUS
      <4> HIDE DEF image
      <4>2. QED BY <3>1, <4>1
    <3> HIDE DEF image, long
    <3>3. QED BY <3>2
  <2>4. two \subseteq image
    <3> HIDE DEF image, long
    <3>1. QED BY <2>3
  <2> HIDE DEF image, two
  <2>5. QED BY <2>2, <2>4, FS_Subset
<1>6. IsFiniteSet(UNION nones)
  <2>1. IsFiniteSet(nones)
    <3> DEFINE f == [a \in roots |-> none(a)]
    <3>1. DOMAIN f = roots /\ f = [a \in roots |-> f[a]] /\ nones = {f[a] : a \in roots}
      OBVIOUS
    <3> HIDE DEF f, nones
    <3>2. QED BY <1>2, <3>1, FiniteImage
  <2>2. ASSUME NEW a \in roots PROVE IsFiniteSet(none(a))
    <3> DEFINE f == [ref \in Unresolved[a] |-> <<a, ref>>]
    <3>1. IsFiniteSet(Unresolved[a])
      BY TieAssumption DEF TieAssumption
    <3>2. DOMAIN f = Unresolved[a] /\ f = [ref \in Unresolved[a] |-> f[ref]]
          /\ none(a) = {f[ref] : ref \in Unresolved[a]}
      OBVIOUS
    <3> HIDE DEF f, none
    <3>3. QED BY <3>1, <3>2, FiniteImage
  <2>3. \A T \in nones : IsFiniteSet(T)
    <3> HIDE DEF none
    <3>1. QED BY <2>2
  <2> HIDE DEF nones
  <2>4. QED BY <2>1, <2>3, FS_UNION
<1>7. IsFiniteSet(Paths(roots))
  <2> HIDE DEF one, two, nones
  <2>1. IsFiniteSet(one \union two)
    BY <1>4, <1>5, FS_Union
  <2>2. QED BY <1>1, <1>6, <2>1, FS_Union
<1>8. ASSUME NEW p \in Paths(roots) PROVE p[1] \in roots
  <2>1. CASE p \in one
    BY <2>1
  <2>2. CASE p \in two
    <3>1. PICK q \in short, c \in Cards : p = Append(q, c)
      BY <2>2
    <3>2. PICK a \in roots, b \in Cards : q = <<a, b>>
      BY <3>1
    <3>3. QED BY <3>1, <3>2
  <2>3. CASE p \in UNION nones
    BY <2>3
  <2> HIDE DEF one, two, nones
  <2>4. QED BY <1>1, <1>8, <2>1, <2>2, <2>3
<1>9. QED BY <1>7, <1>8

Fields == {"documents", "sections", "sources", "paths", "candidates", "omitted", "estimate"}

\* The new estimate is that of the brief it is written into.
LEMMA RecomputedOf ==
    ASSUME NEW b, DOMAIN b = Fields
    PROVE  /\ DOMAIN Recomputed(b) = Fields
           /\ Recomputed(b).documents = b.documents /\ Recomputed(b).sections = b.sections
           /\ Recomputed(b).sources = b.sources /\ Recomputed(b).paths = b.paths
           /\ Recomputed(b).candidates = b.candidates /\ Recomputed(b).omitted = b.omitted
           /\ Recomputed(b).estimate = Tokens(BriefChars(Recomputed(b)) + Digits(0))
<1> DEFINE tokens == Tokens(BriefChars(b) + Digits(0))
           r == [b EXCEPT !.estimate = tokens]
<1>1. /\ DOMAIN r = Fields
      /\ r.documents = b.documents /\ r.sections = b.sections /\ r.sources = b.sources
      /\ r.paths = b.paths /\ r.candidates = b.candidates /\ r.omitted = b.omitted
      /\ r.estimate = tokens
  <2> HIDE DEF tokens
  <2>1. QED BY DEF Fields
<1>2. Recomputed(b) = r
  BY DEF Recomputed
<1> HIDE DEF r
<1>3. BriefChars(r) = BriefChars(b)
  BY <1>1 DEF BriefChars
<1>4. QED BY <1>1, <1>2, <1>3

LEMMA BriefStart == brief = NoBrief /\ stage = "recall" => BriefInv
<1>1. /\ <<>> \in Seq(Cards) /\ <<>> \in Seq(Sections) /\ IsInjective(<<>>)
      /\ <<>> = <<>> \o <<>> /\ Range(<<>>) = {} /\ Len(<<>>) = 0
  BY DEF IsInjective, Range
<1>2. IsFiniteSet({})
  BY FS_EmptySet
<1>3. QED BY <1>1, <1>2 DEF BriefInv, NoBrief, Briefed

LEMMA EmptyBrief == (brief = NoBrief /\ stage = "recall")' => BriefInv'
BY BriefStart, PTL

\* A brief that is recomputed holds if its parts do.
LEMMA BriefMade ==
    ASSUME NEW b, DOMAIN b = Fields, brief' = Recomputed(b), stage' = "brief",
           b.documents \in Seq(Cards), IsInjective(b.documents),
           b.sections \in Seq(Sections), IsInjective(b.sections),
           b.sources = b.documents \o b.sections,
           \A s \in Range(b.sections) : ParentOf[s] \in Range(b.documents),
           IsFiniteSet(b.paths), \A p \in b.paths : p[1] \in Range(b.documents),
           b.candidates \in Nat, b.omitted \in Nat,
           b.omitted + Len(b.sources) = b.candidates
    PROVE  BriefInv'
<1>1. /\ DOMAIN brief' = DOMAIN NoBrief
      /\ brief'.documents = b.documents /\ brief'.sections = b.sections
      /\ brief'.sources = b.sources /\ brief'.paths = b.paths
      /\ brief'.candidates = b.candidates /\ brief'.omitted = b.omitted
      /\ brief'.estimate = Tokens(BriefChars(brief') + Digits(0))
  <2>1. DOMAIN NoBrief = Fields
    BY DEF NoBrief, Fields
  <2>2. QED BY <2>1, RecomputedOf
<1>2. QED BY <1>1 DEF BriefInv, Briefed

LEMMA RankCardsBriefs == Asked /\ RankCards => BriefInv'
<1> SUFFICES ASSUME Asked, RankCards PROVE BriefInv'
  OBVIOUS
<1> DEFINE chosenOf(cards) == Cut(cards, request.documents)
           eligibleOf(chosen) == {s \in Sections : ParentOf[s] \in Range(chosen)}
           candidatesOf(eligible) == Cardinality(Cards) + Cardinality(eligible)
<1>1. PICK cards \in SetToSeqs(Cards) :
          \E list \in SetToSeqs(eligibleOf(chosenOf(cards))) :
          LET chosen == chosenOf(cards)
              candidates == candidatesOf(eligibleOf(chosen))
              parts == Cut(list, request.sections) IN
          brief' = Recomputed([documents |-> chosen, sections |-> parts,
                               sources |-> chosen \o parts, paths |-> Paths(Range(chosen)),
                               candidates |-> candidates,
                               omitted |-> candidates - Len(chosen \o parts), estimate |-> 0])
  BY DEF RankCards, Scored
<1>2. PICK chosen : chosen = chosenOf(cards)
  OBVIOUS
<1>3. PICK eligible : eligible = eligibleOf(chosen)
  OBVIOUS
<1>4. PICK list \in SetToSeqs(eligible) :
          LET candidates == candidatesOf(eligible)
              parts == Cut(list, request.sections) IN
          brief' = Recomputed([documents |-> chosen, sections |-> parts,
                               sources |-> chosen \o parts, paths |-> Paths(Range(chosen)),
                               candidates |-> candidates,
                               omitted |-> candidates - Len(chosen \o parts), estimate |-> 0])
  BY <1>1, <1>2, <1>3
<1>5. PICK parts : parts = Cut(list, request.sections)
  OBVIOUS
<1>6. request.documents \in Nat /\ request.sections \in Nat
  BY RequestAssumption DEF RequestAssumption, Asked
<1>7. IsFiniteSet(Cards) /\ IsFiniteSet(Sections) /\ IsFiniteSet(eligible) /\ eligible \subseteq Sections
  BY <1>3, ItemAssumption, FS_Subset DEF ItemAssumption
<1>8. Cardinality(Cards) \in Nat /\ Cardinality(eligible) \in Nat
  BY <1>7, FS_CardinalityType
<1>9. chosen \in Seq(Cards) /\ IsInjective(chosen) /\ Len(chosen) <= Cardinality(Cards)
  <2>1. cards \in Seq(Cards) /\ IsInjective(cards) /\ Len(cards) = Cardinality(Cards)
    BY <1>7, OrderedOf
  <2>2. PICK m \in 0..Len(cards) : chosen = SubSeq(cards, 1, m)
    BY <1>2, <1>6, <2>1, CutOf
  <2>3. QED BY <1>8, <2>1, <2>2, PrefixOf
<1>10. parts \in Seq(eligible) /\ IsInjective(parts) /\ Len(parts) <= Cardinality(eligible)
  <2>1. list \in Seq(eligible) /\ IsInjective(list) /\ Len(list) = Cardinality(eligible)
    BY <1>7, OrderedOf
  <2>2. PICK m \in 0..Len(list) : parts = SubSeq(list, 1, m)
    BY <1>5, <1>6, <2>1, CutOf
  <2>3. QED BY <1>8, <2>1, <2>2, PrefixOf
<1>11. parts \in Seq(Sections) /\ \A s \in Range(parts) : ParentOf[s] \in Range(chosen)
  <2>1. Range(parts) \subseteq eligible
    BY <1>10, RangeOfList
  <2>2. QED BY <1>3, <1>7, <1>10, <2>1
<1>12. IsFiniteSet(Paths(Range(chosen))) /\ \A p \in Paths(Range(chosen)) : p[1] \in Range(chosen)
  <2>1. Range(chosen) \subseteq Cards
    BY <1>9, RangeOfList
  <2>2. QED BY <2>1, PathsOf
<1>13. Len(chosen \o parts) = Len(chosen) + Len(parts) /\ Len(chosen) \in Nat /\ Len(parts) \in Nat
  BY <1>9, <1>10
<1>14. PICK candidates \in Nat : candidates = candidatesOf(eligible)
  BY <1>8
<1>15. PICK omitted \in Nat : omitted = candidates - Len(chosen \o parts)
  BY <1>8, <1>9, <1>10, <1>13, <1>14
<1> DEFINE b == [documents |-> chosen, sections |-> parts,
                 sources |-> chosen \o parts, paths |-> Paths(Range(chosen)),
                 candidates |-> candidates, omitted |-> omitted, estimate |-> 0]
<1>16. brief' = Recomputed(b)
  BY <1>4, <1>5, <1>14, <1>15
<1>17. /\ DOMAIN b = Fields /\ b.documents = chosen /\ b.sections = parts
       /\ b.sources = chosen \o parts /\ b.paths = Paths(Range(chosen))
       /\ b.candidates = candidates /\ b.omitted = omitted
  BY DEF Fields
<1>18. omitted + Len(chosen \o parts) = candidates
  BY <1>13, <1>15
<1>19. stage' = "brief"
  BY DEF RankCards
<1> HIDE DEF b, chosenOf, eligibleOf, candidatesOf
<1>20. QED BY <1>9, <1>10, <1>11, <1>12, <1>16, <1>17, <1>18, <1>19, BriefMade

LEMMA NothingBriefs == NothingToBrief => BriefInv'
<1> SUFFICES ASSUME NothingToBrief PROVE BriefInv'
  OBVIOUS
<1>1. /\ <<>> \in Seq(Cards) /\ <<>> \in Seq(Sections) /\ IsInjective(<<>>)
      /\ <<>> = <<>> \o <<>> /\ Range(<<>>) = {} /\ Len(<<>>) = 0
  BY DEF IsInjective, Range
<1>2. IsFiniteSet({})
  BY FS_EmptySet
<1> DEFINE b == NoBrief
<1>3. /\ DOMAIN b = Fields /\ b.documents = <<>> /\ b.sections = <<>>
      /\ b.sources = <<>> /\ b.paths = {} /\ b.candidates = 0 /\ b.omitted = 0
  BY DEF NoBrief, Fields
<1>4. brief' = Recomputed(b) /\ stage' = "brief"
  BY DEF NothingToBrief
<1>5. b.omitted + Len(b.sources) = b.candidates /\ 0 \in Nat
  BY <1>1, <1>3
<1> HIDE DEF b
<1>6. QED BY <1>1, <1>2, <1>3, <1>4, <1>5, BriefMade

\* The last section leaves both lists; the last document leaves only when no
\* section is left, and with it the paths that start at it.
LEMMA DropSectionBriefs == BriefInv /\ DropSection => BriefInv'
<1> SUFFICES ASSUME BriefInv, DropSection PROVE BriefInv'
  OBVIOUS
<1> DEFINE docs == brief.documents
           parts == brief.sections
           b == [brief EXCEPT !.sources = Front(@),
                              !.sections = Without(@, {Last(brief.sources)}),
                              !.omitted = @ + 1]
<1>1. /\ docs \in Seq(Cards) /\ parts \in Seq(Sections) /\ IsInjective(docs) /\ IsInjective(parts)
      /\ brief.sources = docs \o parts /\ DOMAIN brief = Fields
      /\ \A s \in Range(parts) : ParentOf[s] \in Range(docs)
      /\ brief.candidates \in Nat /\ brief.omitted \in Nat
      /\ brief.omitted + Len(brief.sources) = brief.candidates
  BY DEF BriefInv, Fields, NoBrief
<1>2. brief.sources # <<>> /\ Last(brief.sources) \in Sections
  BY DEF DropSection, TooLong
<1>3. parts # <<>>
  <2> SUFFICES ASSUME parts = <<>> PROVE FALSE
    OBVIOUS
  <2>1. brief.sources = docs
    BY <1>1
  <2>2. Last(brief.sources) \in Cards
    BY <1>1, <1>2, <2>1, FrontOf
  <2>3. QED BY <1>2, <2>2, ItemAssumption DEF ItemAssumption
<1>4. Last(brief.sources) = Last(parts) /\ Front(brief.sources) = docs \o Front(parts)
      /\ Len(Front(brief.sources)) = Len(brief.sources) - 1 /\ Len(brief.sources) \in Nat
  <2> HIDE DEF docs, parts
  <2>1. /\ Last(docs \o parts) = Last(parts) /\ Front(docs \o parts) = docs \o Front(parts)
        /\ Len(Front(docs \o parts)) = Len(docs \o parts) - 1 /\ Len(docs \o parts) \in Nat
    BY <1>1, <1>3, FrontOfConcat
  <2>2. QED BY <1>1, <2>1
<1>5. Without(parts, {Last(brief.sources)}) = Front(parts)
  BY <1>1, <1>3, <1>4, WithoutLast
<1>6. /\ DOMAIN b = Fields /\ b.documents = docs /\ b.sections = Front(parts)
      /\ b.sources = docs \o Front(parts) /\ b.paths = brief.paths
      /\ b.candidates = brief.candidates /\ b.omitted = brief.omitted + 1
  BY <1>1, <1>4, <1>5 DEF Fields
<1>7. /\ Front(parts) \in Seq(Sections) /\ IsInjective(Front(parts))
      /\ Range(Front(parts)) \subseteq Range(parts)
  BY <1>1, <1>3, FrontOf
<1>8. \A s \in Range(Front(parts)) : ParentOf[s] \in Range(docs)
  BY <1>1, <1>7
<1>9. IsFiniteSet(brief.paths) /\ \A p \in brief.paths : p[1] \in Range(docs)
  BY DEF BriefInv
<1>10. brief.omitted + 1 \in Nat /\ (brief.omitted + 1) + Len(Front(brief.sources)) = brief.candidates
  <2> HIDE DEF docs, parts
  <2>1. PICK k \in Nat : k = Len(brief.sources) /\ Len(Front(brief.sources)) = k - 1
    BY <1>4
  <2>2. QED BY <1>1, <2>1
<1>11. brief' = Recomputed(b) /\ stage' = "brief"
  BY DEF DropSection
<1> HIDE DEF b, docs, parts
<1>12. QED BY <1>1, <1>4, <1>6, <1>7, <1>8, <1>9, <1>10, <1>11, BriefMade

LEMMA DropCardBriefs == BriefInv /\ DropCard => BriefInv'
<1> SUFFICES ASSUME BriefInv, DropCard PROVE BriefInv'
  OBVIOUS
<1> DEFINE docs == brief.documents
           parts == brief.sections
           removed == Last(brief.sources)
           b == [brief EXCEPT !.sources = Without(Front(@), SectionsOf(removed)),
                              !.documents = Without(@, {removed}),
                              !.sections = Without(@, SectionsOf(removed)),
                              !.paths = {p \in @ : p[1] # removed},
                              !.omitted = @ + 1]
<1>1. /\ docs \in Seq(Cards) /\ parts \in Seq(Sections) /\ IsInjective(docs)
      /\ brief.sources = docs \o parts /\ DOMAIN brief = Fields
      /\ brief.candidates \in Nat /\ brief.omitted \in Nat
      /\ brief.omitted + Len(brief.sources) = brief.candidates
      /\ IsFiniteSet(brief.paths) /\ \A p \in brief.paths : p[1] \in Range(docs)
  BY DEF BriefInv, Fields, NoBrief
<1>2. brief.sources # <<>> /\ removed \in Cards
  BY DEF DropCard, TooLong
<1>3. parts = <<>>
  <2> SUFFICES ASSUME parts # <<>> PROVE FALSE
    OBVIOUS
  <2>1. Last(brief.sources) = Last(parts)
    BY <1>1, FrontOfConcat
  <2>2. Last(parts) \in Sections
    BY <1>1, FrontOf
  <2>3. QED BY <1>2, <2>1, <2>2, ItemAssumption DEF ItemAssumption
<1>4. brief.sources = docs /\ docs # <<>>
  BY <1>1, <1>2, <1>3
<1>5. /\ Front(docs) \in Seq(Cards) /\ IsInjective(Front(docs))
      /\ Len(Front(docs)) = Len(docs) - 1 /\ Len(docs) \in Nat \ {0}
      /\ Range(Front(docs)) = Range(docs) \ {removed}
      /\ Without(docs, {removed}) = Front(docs)
  BY <1>1, <1>4, FrontOf, WithoutLast
<1>6. Without(Front(docs), SectionsOf(removed)) = Front(docs)
  <2>1. Range(Front(docs)) \subseteq Cards
    BY <1>5, RangeOfList
  <2>2. Range(Front(docs)) \intersect SectionsOf(removed) = {}
    BY <2>1, ItemAssumption DEF ItemAssumption, SectionsOf
  <2>3. QED BY <1>5, <2>2, WithoutNone
<1>7. Without(parts, SectionsOf(removed)) = <<>>
  <2>1. <<>> \in Seq(Sections) /\ Range(<<>>) = {}
    BY DEF Range
  <2>2. QED BY <1>3, <2>1, WithoutNone
<1>8. Front(docs) = Front(docs) \o <<>> /\ <<>> \in Seq(Sections) /\ IsInjective(<<>>)
      /\ Range(<<>>) = {}
  BY <1>5 DEF IsInjective, Range
<1> DEFINE left == {p \in brief.paths : p[1] # removed}
<1>9. IsFiniteSet(left) /\ \A p \in left : p[1] \in Range(Front(docs))
  BY <1>1, <1>5, FS_Subset
<1>10. /\ DOMAIN b = Fields /\ b.documents = Front(docs) /\ b.sections = <<>>
       /\ b.sources = Front(docs) /\ b.paths = left
       /\ b.candidates = brief.candidates /\ b.omitted = brief.omitted + 1
  <2>1. Without(Front(brief.sources), SectionsOf(removed)) = Front(docs)
    BY <1>4, <1>6
  <2> HIDE DEF removed
  <2>2. QED BY <1>1, <1>5, <1>7, <2>1 DEF Fields
<1>11. brief.omitted + 1 \in Nat /\ (brief.omitted + 1) + Len(Front(docs)) = brief.candidates
  BY <1>1, <1>4, <1>5
<1>12. brief' = Recomputed(b) /\ stage' = "brief"
  BY DEF DropCard
<1> HIDE DEF b, docs, parts, removed, left
<1>13. QED BY <1>1, <1>5, <1>8, <1>9, <1>10, <1>11, <1>12, BriefMade

LEMMA BriefKept ==
    ASSUME BriefInv, brief' = brief, request' = request,
           Briefed' => Briefed,
           stage' \in {"draft", "drafted", "refused"} => ~TooLong(brief, BriefBudget)
    PROVE  BriefInv'
<1>1. BriefChars(brief)' = BriefChars(brief) /\ TooLong(brief, BriefBudget)' = TooLong(brief, BriefBudget)
  BY DEF BriefChars, TooLong, BriefBudget
<1>2. QED BY <1>1 DEF BriefInv

LEMMA BriefStep == Asked /\ BriefInv /\ [PacketNext]_packetVars => BriefInv'
<1> SUFFICES ASSUME Asked, BriefInv, [PacketNext]_packetVars PROVE BriefInv'
  OBVIOUS
<1>1. CASE UNCHANGED packetVars
  BY <1>1, BriefKept DEF packetVars, BriefInv, Briefed
<1>2. CASE RankAndSelect \/ DropSource \/ PackReady
  BY <1>2, BriefKept DEF RankAndSelect, DropSource, PackReady, Briefed
<1>3. CASE RankCards
  BY <1>3, RankCardsBriefs
<1>4. CASE NothingToBrief
  BY <1>4, NothingBriefs
<1>5. CASE DropSection
  BY <1>5, DropSectionBriefs
<1>6. CASE DropCard
  BY <1>6, DropCardBriefs
<1>7. CASE BriefReady
  BY <1>7, BriefKept DEF BriefReady, Briefed
<1>8. CASE DropEvidence \/ DropPoint \/ DropRisk \/ Refuse \/ InsertDraft
  <2>1. /\ stage = "draft" /\ stage' \in {"draft", "drafted", "refused"}
        /\ brief' = brief /\ request' = request
    BY <1>8 DEF DropEvidence, DropPoint, DropRisk, Refuse, InsertDraft, Drafting
  <2>2. ~TooLong(brief, BriefBudget)
    BY <2>1 DEF BriefInv
  <2>3. QED BY <2>1, <2>2, BriefKept DEF Briefed
<1>9. CASE NextRequest
  <2>1. brief' = NoBrief /\ stage' = "recall"
    BY <1>9 DEF NextRequest
  <2>2. QED BY <2>1, EmptyBrief DEF NoBrief
<1>10. QED BY <1>1, <1>2, <1>3, <1>4, <1>5, <1>6, <1>7, <1>8, <1>9 DEF PacketNext

-----------------------------------------------------------------------------
(* In the composition *)

\* Packets are made, or nothing of them changes.
LEMMA PacketsStart == Init => PacketInit
<1>1. (CHOOSE r \in Requests : TRUE) \in Requests
  BY RequestAssumption DEF RequestAssumption
<1>2. QED BY <1>1 DEF Init, PacketInit, PacketIdle

LEMMA PacketsPart == [Next]_vars => [PacketNext]_packetVars
<1> SUFFICES ASSUME [Next]_vars, ~PacketNext PROVE UNCHANGED packetVars
  OBVIOUS
<1>1. CASE UNCHANGED vars
  BY <1>1 DEF vars
<1>2. CASE NextMemories \/ NextDocuments \/ NextLoad
  BY <1>2 DEF NextMemories, NextDocuments, NextLoad
<1>3. QED BY <1>1, <1>2 DEF Next, NextPackets

LEMMA AskedStart == PacketInit => Asked
BY DEF PacketInit, Asked

LEMMA AskedStep == Asked /\ [PacketNext]_packetVars => Asked'
<1> SUFFICES ASSUME Asked, [PacketNext]_packetVars PROVE Asked'
  OBVIOUS
<1>1. CASE UNCHANGED packetVars
  BY <1>1 DEF packetVars, Asked
<1>2. CASE RankAndSelect \/ DropSource \/ PackReady
  BY <1>2 DEF RankAndSelect, DropSource, PackReady, Asked
<1>3. CASE RankCards \/ NothingToBrief \/ DropSection \/ DropCard \/ BriefReady
  BY <1>3 DEF RankCards, NothingToBrief, DropSection, DropCard, BriefReady, Asked
<1>4. CASE DropEvidence \/ DropPoint \/ DropRisk \/ Refuse \/ InsertDraft
  BY <1>4 DEF DropEvidence, DropPoint, DropRisk, Refuse, InsertDraft, Drafting, Asked
<1>5. CASE NextRequest
  BY <1>5 DEF NextRequest, Asked
<1>6. QED BY <1>1, <1>2, <1>3, <1>4, <1>5 DEF PacketNext

LEMMA BriefSize ==
    ASSUME BriefInv PROVE BriefChars(brief) \in Nat
<1>1. SizeOf(brief.documents) \in Nat /\ SizeOf(brief.sections) \in Nat
  <2>1. brief.documents \in Seq(Cards) /\ brief.sections \in Seq(Sections)
    BY DEF BriefInv
  <2>2. QED BY <2>1, SizeOfList
<1>2. Cardinality(brief.paths) \in Nat
  BY FS_CardinalityType DEF BriefInv
<1>3. PathSize \in Nat /\ BriefFrame \in Nat
  BY SizeAssumption DEF SizeAssumption
<1>4. PathSize * Cardinality(brief.paths) \in Nat
  BY <1>2, <1>3
<1>5. QED BY <1>1, <1>3, <1>4 DEF BriefChars

LEMMA BudgetOfBrief ==
    ASSUME Asked PROVE BriefBudget \in Nat /\ BriefBudget <= 1600
<1>1. request.budget \in Nat
  BY RequestAssumption DEF RequestAssumption, Asked
<1>2. PICK half \in Int : half = request.budget \div 2
  BY <1>1
<1>3. Max({512, request.budget \div 2}) = IF 512 >= half THEN 512 ELSE half
  BY <1>2, MaxOfTwo
<1>4. PICK most \in Int : most = Max({512, request.budget \div 2}) /\ most >= 512
  BY <1>2, <1>3
<1>5. Min({1600, most}) = IF 1600 <= most THEN 1600 ELSE most
  BY MinOfTwo
<1>6. QED BY <1>4, <1>5 DEF BriefBudget

LEMMA BriefFits ==
    ASSUME Asked, BriefInv, stage \in {"draft", "drafted", "refused"}, brief.sources # <<>>
    PROVE  Tokens(BriefChars(brief) + Digits(brief.estimate)) <= BriefBudget + 1
<1>1. PICK size \in Nat : size = BriefChars(brief)
  BY BriefSize
<1>2. PICK budget \in Nat : budget = BriefBudget /\ budget <= 1600
  <2>1. BriefBudget \in Nat /\ BriefBudget <= 1600
    BY BudgetOfBrief
  <2>2. QED BY <2>1
<1>3. PICK estimate \in Nat :
          estimate = brief.estimate /\ estimate <= budget /\ 4 * estimate >= size + 1
  <2>1. brief.estimate = Tokens(size + 1)
    BY <1>1, DigitsOf DEF BriefInv, Briefed
  <2>2. PICK e \in Nat : e = Tokens(size + 1) /\ 4 * e >= size + 1
    BY TokensOf
  <2>3. ~ (e > budget)
    BY <1>2, <2>1, <2>2 DEF BriefInv, TooLong
  <2>4. QED BY <2>1, <2>2, <2>3
<1>4. PICK digits \in 1..4 : digits = Digits(estimate)
  <2>1. estimate < 10000
    BY <1>2, <1>3
  <2>2. Digits(estimate) \in Nat \ {0} /\ Digits(estimate) <= 4
    BY <2>1, DigitsOf
  <2>3. QED BY <2>2
<1>5. PICK tokens \in Nat : tokens = Tokens(size + digits) /\ 4 * tokens <= size + digits + 3
  <2>1. size + digits \in Nat /\ size + digits # 0
    OBVIOUS
  <2>2. Tokens(size + digits) \in Nat /\ 4 * Tokens(size + digits) <= (size + digits) + 3
    BY <2>1, TokensOf
  <2>3. QED BY <2>2
<1>6. tokens <= budget + 1
  BY <1>3, <1>5
<1>7. QED BY <1>1, <1>2, <1>3, <1>4, <1>5, <1>6

\* A brief shows what it has receipts for and nothing else, its sections and
\* paths are those of documents it shows, every candidate is shown or counted,
\* and it exceeds its budget by a token at most.
THEOREM BriefIsWhole == Spec => []BriefKeepsReceipts
<1>1. Init => Asked /\ BriefInv
  BY PacketsStart, AskedStart, BriefStart DEF PacketInit
<1>2. Asked /\ BriefInv /\ [Next]_vars => (Asked /\ BriefInv)'
  BY PacketsPart, AskedStep, BriefStep
<1>3. Asked /\ BriefInv => BriefKeepsReceipts
  <2> SUFFICES ASSUME Asked, BriefInv PROVE BriefKeepsReceipts
    OBVIOUS
  <2>1. Range(brief.sources) = Range(brief.documents) \union Range(brief.sections)
    <3>1. PICK docs \in Seq(Cards), parts \in Seq(Sections) :
              docs = brief.documents /\ parts = brief.sections /\ brief.sources = docs \o parts
      BY DEF BriefInv
    <3>2. Range(docs \o parts) = Range(docs) \union Range(parts)
      BY ConcatRange
    <3>3. QED BY <3>1, <3>2
  <2>2. QED BY <2>1, BriefFits DEF BriefKeepsReceipts, BriefInv
<1>4. QED BY <1>1, <1>2, <1>3, PTL DEF Spec

-----------------------------------------------------------------------------
(* Sorting *)

\* In the n-th place is what has n - 1 elements before it.
InPlace(E, R) ==
    [n \in 1..Cardinality(E) |->
        CHOOSE e \in E : Cardinality({o \in E : <<o, e>> \in R}) = n - 1]

StrictOrder(E, R) ==
    /\ \A a, b \in E : ~ (<<a, b>> \in R /\ <<b, a>> \in R)
    /\ \A a, b, c \in E : <<a, b>> \in R /\ <<b, c>> \in R => <<a, c>> \in R
    /\ \A a, b \in E : a # b => <<a, b>> \in R \/ <<b, a>> \in R

\* What a strict order puts in each place is a list of the whole set.
LEMMA SortedBy ==
    ASSUME NEW E, IsFiniteSet(E), NEW R, StrictOrder(E, R), NEW s, s = InPlace(E, R)
    PROVE  /\ s \in Seq(E) /\ Len(s) = Cardinality(E)
           /\ \A e \in E : \E n \in 1..Len(s) : s[n] = e
           /\ \A m, n \in 1..Len(s) : m < n => <<s[m], s[n]>> \in R
           /\ \A m, n \in 1..Len(s) : s[m] = s[n] => m = n
<1> DEFINE N == Cardinality(E)
           below(e) == {o \in E : <<o, e>> \in R}
           place == [e \in E |-> Cardinality(below(e)) + 1]
           At(n) == CHOOSE e \in E : Cardinality(below(e)) = n - 1
<1>1. N \in Nat
  BY FS_CardinalityType
<1>2. ASSUME NEW e \in E
      PROVE  IsFiniteSet(below(e)) /\ Cardinality(below(e)) \in Nat /\ Cardinality(below(e)) < N
  <2>1. below(e) \in SUBSET E /\ e \in E \ below(e)
    BY DEF StrictOrder
  <2> HIDE DEF below
  <2>2. IsFiniteSet(below(e)) /\ Cardinality(below(e)) <= N /\ Cardinality(below(e)) # N
    BY <2>1, FS_Subset
  <2>3. Cardinality(below(e)) \in Nat
    BY <2>2, FS_CardinalityType
  <2>4. QED BY <1>1, <2>2, <2>3
<1>3. ASSUME NEW a \in E, NEW b \in E, <<a, b>> \in R
      PROVE  Cardinality(below(a)) < Cardinality(below(b))
  <2>1. below(a) \subseteq below(b) /\ a \in below(b) /\ a \notin below(a)
    BY <1>3 DEF StrictOrder
  <2> HIDE DEF below
  <2>2. IsFiniteSet(below(b)) /\ Cardinality(below(b)) \in Nat /\ Cardinality(below(a)) \in Nat
    BY <1>2
  <2>3. Cardinality(below(a)) <= Cardinality(below(b)) /\ Cardinality(below(a)) # Cardinality(below(b))
    BY <2>1, <2>2, FS_Subset
  <2>4. QED BY <2>2, <2>3
<1>4. s = [n \in 1..N |-> At(n)]
  BY DEF InPlace
<1> HIDE DEF below, At
<1>6. \A e \in E : place[e] = Cardinality(below(e)) + 1
  OBVIOUS
<1> HIDE DEF N
<1>5. \A n \in 1..N : s[n] = At(n)
  BY ONLY <1>4
<1>7. place \in [E -> 1..N]
  <2>1. ASSUME NEW e \in E PROVE Cardinality(below(e)) + 1 \in 1..N
    <3>1. PICK k \in Nat : k = Cardinality(below(e)) /\ k < N
      BY <1>2
    <3>2. k + 1 \in 1..N
      BY <1>1, <3>1
    <3>3. QED BY <3>1, <3>2
  <2>2. QED BY <2>1
<1> HIDE DEF place
<1>8. \A a, b \in E : <<a, b>> \in R => place[a] < place[b]
  <2> SUFFICES ASSUME NEW a \in E, NEW b \in E, <<a, b>> \in R PROVE place[a] < place[b]
    OBVIOUS
  <2>1. PICK k \in Nat, l \in Nat : k = Cardinality(below(a)) /\ l = Cardinality(below(b))
    BY <1>2
  <2>2. k < l
    BY <1>3, <2>1
  <2>3. QED BY <1>6, <2>1, <2>2
<1>9. IsInjective(place)
  <2>1. ASSUME NEW a \in E, NEW b \in E, a # b PROVE place[a] # place[b]
    <3>1. PICK k \in 1..N, l \in 1..N : k = place[a] /\ l = place[b]
      BY <1>7
    <3>2. k < l \/ l < k
      BY <1>8, <2>1, <3>1 DEF StrictOrder
    <3>3. QED BY <3>1, <3>2
  <2>2. QED BY <1>7, <2>1 DEF IsInjective
<1>10. \A n \in 1..N : \E e \in E : place[e] = n
  <2>1. place \in Injection(E, 1..N)
    BY <1>7, <1>9 DEF Injection
  <2>2. IsFiniteSet(1..N) /\ Cardinality(1..N) = N
    BY <1>1, FS_Interval
  <2>3. place \in Surjection(E, 1..N)
    BY <2>1, <2>2, FS_Injection DEF N
  <2>4. QED BY <2>3 DEF Surjection
<1>11. ASSUME NEW n \in 1..N PROVE s[n] \in E /\ place[s[n]] = n
  <2>1. PICK e \in E : place[e] = n
    BY <1>10
  <2>2. \A x \in E : place[x] = n <=> Cardinality(below(x)) = n - 1
    <3> SUFFICES ASSUME NEW x \in E PROVE place[x] = n <=> Cardinality(below(x)) = n - 1
      OBVIOUS
    <3>1. PICK k \in Nat : k = Cardinality(below(x))
      BY <1>2
    <3>2. QED BY <1>1, <1>6, <3>1
  <2>3. At(n) \in E /\ Cardinality(below(At(n))) = n - 1
    <3>1. e \in E /\ Cardinality(below(e)) = n - 1
      BY <2>1, <2>2
    <3>2. QED BY ONLY <3>1 DEF At
  <2>4. QED BY <1>5, <2>2, <2>3
<1>12. s \in Seq(E) /\ Len(s) = N
  <2>1. s \in [1..N -> E]
    <3>1. \A n \in 1..N : At(n) \in E
      BY <1>5, <1>11
    <3>2. QED BY ONLY <1>4, <3>1
  <2>2. QED BY ONLY <1>1, <2>1
<1>13. \A e \in E : \E n \in 1..N : s[n] = e
  <2> SUFFICES ASSUME NEW e \in E PROVE \E n \in 1..N : s[n] = e
    OBVIOUS
  <2>1. PICK n \in 1..N : n = place[e]
    BY <1>7
  <2>2. s[n] \in E /\ place[s[n]] = place[e]
    BY <1>11, <2>1
  <2>3. QED BY <1>7, <1>9, <2>2 DEF IsInjective
<1>14. \A m, n \in 1..N : m < n => <<s[m], s[n]>> \in R
  <2> SUFFICES ASSUME NEW m \in 1..N, NEW n \in 1..N, m < n PROVE <<s[m], s[n]>> \in R
    OBVIOUS
  <2>1. s[m] \in E /\ s[n] \in E /\ place[s[m]] = m /\ place[s[n]] = n
    BY <1>11
  <2>2. ~ (n < m) /\ m # n
    OBVIOUS
  <2>3. <<s[n], s[m]>> \notin R
    <3>1. <<s[n], s[m]>> \in R => place[s[n]] < place[s[m]]
      BY <1>8, <2>1
    <3>2. QED BY <2>1, <2>2, <3>1
  <2>4. s[m] # s[n]
    BY <2>1, <2>2
  <2>5. QED BY <2>1, <2>3, <2>4 DEF StrictOrder
<1>15. \A m, n \in 1..N : s[m] = s[n] => m = n
  <2> SUFFICES ASSUME NEW m \in 1..N, NEW n \in 1..N, s[m] = s[n] PROVE m = n
    OBVIOUS
  <2>1. QED BY <1>11
<1>16. QED BY ONLY <1>12, <1>13, <1>14, <1>15 DEF N

-----------------------------------------------------------------------------
(* Fusion *)

\* The place at which a list has an item.
LEMMA RankOf ==
    ASSUME NEW T, NEW list \in Seq(T), NEW item \in Range(list)
    PROVE  RankIn(list, item) \in 1..Len(list) /\ list[RankIn(list, item)] = item
<1>1. DOMAIN list = 1..Len(list) /\ \E n \in 1..Len(list) : list[n] = item
  BY RangeOfList
<1>2. QED BY <1>1 DEF RankIn

LEMMA RankAt ==
    ASSUME NEW T, NEW list \in Seq(T), IsInjective(list), NEW n \in 1..Len(list)
    PROVE  list[n] \in Range(list) /\ RankIn(list, list[n]) = n
<1>1. DOMAIN list = 1..Len(list) /\ list[n] \in Range(list)
  BY RangeOfList
<1>2. RankIn(list, list[n]) \in 1..Len(list) /\ list[RankIn(list, list[n])] = list[n]
  BY <1>1, RankOf
<1>3. QED BY <1>1, <1>2 DEF IsInjective

\* The shares of an item at a rank that the constants know of.
LEMMA ShareType ==
    ASSUME NEW T, NEW list \in Seq(T), NEW item, NEW weight \in Nat
    PROVE  Share(item, list, weight) \in Nat
<1>1. CASE item \in Range(list)
  <2>1. PICK rank \in Nat \ {0} : rank = RankIn(list, item)
    BY <1>1, RankOf
  <2>2. 60 + rank \in Nat \ {0}
    OBVIOUS
  <2>3. Unit \div (60 + rank) \in Nat
    <3>1. PICK d \in Nat \ {0} : d = 60 + rank
      BY <2>2
    <3>2. PICK u \in Nat : u = Unit
      BY RankAssumption DEF RankAssumption
    <3>3. u \div d \in Nat
      BY ONLY d \in Nat \ {0}, u \in Nat
    <3>4. QED BY <3>1, <3>2, <3>3
  <2>4. PICK q \in Nat : q = Unit \div (60 + RankIn(list, item))
    BY <2>1, <2>3
  <2>5. weight * q \in Nat
    OBVIOUS
  <2>6. QED BY <1>1, <2>4, <2>5 DEF Share
<1>2. CASE item \notin Range(list)
  BY <1>2 DEF Share
<1>3. QED BY <1>1, <1>2

\* A better rank has the larger share.
LEMMA ShareFalls ==
    ASSUME NEW T, NEW list \in Seq(T), Len(list) <= MaxRank,
           NEW other \in Seq(T), Len(other) <= MaxRank,
           NEW a \in Range(list), NEW b \in Range(other), RankIn(list, a) < RankIn(other, b),
           NEW weight \in Nat \ {0}
    PROVE  Share(b, other, weight) < Share(a, list, weight)
<1>1. MaxRank \in Nat /\ Unit \in Nat \ {0}
      /\ \A rank \in 1..MaxRank : (Unit \div (60 + rank)) * (60 + rank) = Unit
  BY RankAssumption DEF RankAssumption
<1>2. PICK k \in 1..MaxRank : k = RankIn(list, a)
  BY <1>1, RankOf
<1>3. PICK l \in 1..MaxRank : l = RankIn(other, b)
  BY <1>1, RankOf
<1>4. k < l
  BY <1>2, <1>3
<1>5. ASSUME NEW r \in 1..MaxRank PROVE Unit \div (60 + r) \in Nat
  <2>1. PICK d \in Nat \ {0} : d = 60 + r
    <3>1. 60 + r \in Nat \ {0}
      BY <1>1
    <3>2. QED BY <3>1
  <2>2. PICK u \in Nat : u = Unit
    BY <1>1
  <2>3. u \div d \in Nat
    BY ONLY d \in Nat \ {0}, u \in Nat
  <2>4. QED BY <2>1, <2>2, <2>3
<1>6. PICK p \in Nat, q \in Nat : p = Unit \div (60 + k) /\ q = Unit \div (60 + l)
  BY <1>5
<1>7. p * (60 + k) = q * (60 + l) /\ q * (60 + l) # 0
  BY <1>1, <1>6
<1>8. q < p
  <2> SUFFICES ASSUME p <= q PROVE FALSE
    OBVIOUS
  <2>1. q # 0 /\ k \in Nat /\ l \in Nat /\ 60 + k < 60 + l
    BY <1>1, <1>4, <1>7
  <2>2. p * (60 + k) <= q * (60 + k)
    BY <2>1
  <2>3. q * (60 + k) < q * (60 + l)
    BY <2>1
  <2>4. QED BY <1>7, <2>1, <2>2, <2>3
<1>9. weight * q < weight * p
  BY <1>8
<1>10. QED BY <1>2, <1>3, <1>6, <1>9 DEF Share

LEMMA MetFinite ==
    ASSUME NEW T, NEW lists \in Seq(Seq(T))
    PROVE  IsFiniteSet(Met(lists)) /\ Met(lists) \subseteq T
<1> DEFINE N == Len(lists)
           f == [l \in 1..N |-> Range(lists[l])]
<1>1. DOMAIN lists = 1..N /\ N \in Nat /\ \A l \in 1..N : lists[l] \in Seq(T)
  OBVIOUS
<1>2. IsFiniteSet(1..N)
  BY <1>1, FS_Interval
<1>3. DOMAIN f = 1..N /\ f = [l \in 1..N |-> f[l]] /\ \A l \in 1..N : f[l] = Range(lists[l])
  OBVIOUS
<1>4. Met(lists) = UNION {f[l] : l \in 1..N}
  BY <1>1, <1>3 DEF Met
<1>5. \A l \in 1..N : IsFiniteSet(f[l]) /\ f[l] \subseteq T
  BY <1>1, <1>3, RangeOfList
<1> HIDE DEF f, N
<1> DEFINE parts == {f[l] : l \in 1..N}
<1>6. IsFiniteSet(parts)
  BY <1>2, <1>3, FiniteImage
<1>7. \A P \in parts : IsFiniteSet(P) /\ P \subseteq T
  BY <1>5
<1> HIDE DEF parts
<1>8. IsFiniteSet(UNION parts) /\ UNION parts \subseteq T
  BY <1>6, <1>7, FS_UNION
<1>9. QED BY <1>4, <1>8 DEF parts

LEMMA ScoreType ==
    ASSUME NEW T, NEW lists \in Seq(Seq(T)), NEW weights,
           \A l \in 1..Len(lists) : weights[l] \in Nat, NEW item
    PROVE  Score(item, lists, weights) \in Nat
<1> DEFINE shares == [l \in DOMAIN lists |-> Share(item, lists[l], weights[l])]
<1>1. DOMAIN lists = 1..Len(lists) /\ Len(lists) \in Nat /\ \A l \in 1..Len(lists) : lists[l] \in Seq(T)
  OBVIOUS
<1>2. \A l \in 1..Len(lists) : Share(item, lists[l], weights[l]) \in Nat
  BY <1>1, ShareType
<1>3. shares \in [1..Len(lists) -> Nat]
  BY <1>1, <1>2
<1>4. shares \in Seq(Nat)
  <2>1. PICK n \in Nat : n = Len(lists)
    BY <1>1
  <2> HIDE DEF shares
  <2>2. shares \in [1..n -> Nat]
    BY <1>3, <2>1
  <2>3. QED BY ONLY <2>2, n \in Nat
<1>5. QED BY <1>4, TotalType DEF Score

\* The first list that has an item.
LEMMA FirstOf ==
    ASSUME NEW T, NEW lists \in Seq(Seq(T)), NEW item \in Met(lists)
    PROVE  /\ FirstList(item, lists) \in 1..Len(lists)
           /\ item \in Range(lists[FirstList(item, lists)])
           /\ \A l \in 1..Len(lists) : item \in Range(lists[l]) => FirstList(item, lists) <= l
<1> DEFINE S == {l \in DOMAIN lists : item \in Range(lists[l])}
<1>1. DOMAIN lists = 1..Len(lists) /\ Len(lists) \in Nat
  OBVIOUS
<1>2. S \subseteq Nat /\ S # {}
  BY <1>1 DEF Met
<1>3. PICK k \in S : \A j \in S : k <= j
  <2> HIDE DEF S
  <2>1. QED BY <1>2, Least
<1>4. Min(S) \in S /\ \A j \in S : Min(S) <= j
  <2> HIDE DEF S
  <2>1. k \in S /\ \A j \in S : k =< j
    BY <1>3
  <2>2. QED BY ONLY <2>1 DEF Min
<1>5. FirstList(item, lists) = Min(S)
  BY DEF FirstList
<1>6. QED BY <1>1, <1>4, <1>5

\* Where an item is met first.
LEMMA MetAt ==
    ASSUME NEW T, NEW lists \in Seq(Seq(T)), NEW item \in Met(lists)
    PROVE  \E k \in 1..Len(lists), r \in Nat :
               /\ k = FirstList(item, lists) /\ r = RankIn(lists[k], item)
               /\ r \in 1..Len(lists[k]) /\ lists[k][r] = item
<1>1. PICK k \in 1..Len(lists) : k = FirstList(item, lists) /\ item \in Range(lists[k])
  BY FirstOf
<1>2. lists[k] \in Seq(T)
  OBVIOUS
<1>3. PICK r \in 1..Len(lists[k]) : r = RankIn(lists[k], item) /\ lists[k][r] = item
  BY <1>1, <1>2, RankOf
<1>4. r \in Nat
  BY <1>2
<1>5. QED BY <1>1, <1>3, <1>4

LEMMA MetOrder ==
    ASSUME NEW T, NEW lists \in Seq(Seq(T)),
           NEW a \in Met(lists), NEW b \in Met(lists), NEW c \in Met(lists)
    PROVE  /\ ~ (MetBefore(a, b, lists) /\ MetBefore(b, a, lists))
           /\ MetBefore(a, b, lists) /\ MetBefore(b, c, lists) => MetBefore(a, c, lists)
           /\ a # b => MetBefore(a, b, lists) \/ MetBefore(b, a, lists)
<1>1. PICK ka \in Nat, ra \in Nat :
          ka = FirstList(a, lists) /\ ra = RankIn(lists[ka], a) /\ lists[ka][ra] = a
  BY MetAt
<1>2. PICK kb \in Nat, rb \in Nat :
          kb = FirstList(b, lists) /\ rb = RankIn(lists[kb], b) /\ lists[kb][rb] = b
  BY MetAt
<1>3. PICK kc \in Nat, rc \in Nat :
          kc = FirstList(c, lists) /\ rc = RankIn(lists[kc], c) /\ lists[kc][rc] = c
  BY MetAt
<1>4. /\ MetBefore(a, b, lists) <=> ka < kb \/ (ka = kb /\ ra < rb)
      /\ MetBefore(b, a, lists) <=> kb < ka \/ (kb = ka /\ rb < ra)
      /\ MetBefore(b, c, lists) <=> kb < kc \/ (kb = kc /\ rb < rc)
      /\ MetBefore(a, c, lists) <=> ka < kc \/ (ka = kc /\ ra < rc)
  BY <1>1, <1>2, <1>3 DEF MetBefore
<1>5. a # b => ka # kb \/ ra # rb
  BY <1>1, <1>2
<1>6. QED BY <1>4, <1>5

LEMMA EntryOf ==
    ASSUME NEW T, NEW lists \in Seq(Seq(T)), NEW weights,
           \A l \in 1..Len(lists) : weights[l] \in Nat, NEW e \in Entries(lists, weights)
    PROVE  e[1] \in Met(lists) /\ e[2] \in Nat /\ e[2] = Score(e[1], lists, weights)
           /\ e = <<e[1], Score(e[1], lists, weights)>>
<1>1. PICK item \in Met(lists) : e = <<item, Score(item, lists, weights)>>
  BY DEF Entries
<1>2. Score(item, lists, weights) \in Nat
  BY ScoreType
<1>3. QED BY <1>1, <1>2

\* No two entries are level.
LEMMA AboveOrder ==
    ASSUME NEW T, NEW lists \in Seq(Seq(T)), NEW weights,
           \A l \in 1..Len(lists) : weights[l] \in Nat,
           NEW a \in Entries(lists, weights), NEW b \in Entries(lists, weights),
           NEW c \in Entries(lists, weights)
    PROVE  /\ ~ (Above(a, b, lists) /\ Above(b, a, lists))
           /\ Above(a, b, lists) /\ Above(b, c, lists) => Above(a, c, lists)
           /\ a # b => Above(a, b, lists) \/ Above(b, a, lists)
<1>1. PICK x \in Met(lists), s \in Nat : x = a[1] /\ s = a[2] /\ s = Score(x, lists, weights) /\ a = <<x, s>>
  BY EntryOf
<1>2. PICK y \in Met(lists), t \in Nat : y = b[1] /\ t = b[2] /\ t = Score(y, lists, weights) /\ b = <<y, t>>
  BY EntryOf
<1>3. PICK z \in Met(lists), u \in Nat : z = c[1] /\ u = c[2] /\ u = Score(z, lists, weights) /\ c = <<z, u>>
  BY EntryOf
<1>4. /\ ~ (MetBefore(x, y, lists) /\ MetBefore(y, x, lists))
      /\ MetBefore(x, y, lists) /\ MetBefore(y, z, lists) => MetBefore(x, z, lists)
      /\ x # y => MetBefore(x, y, lists) \/ MetBefore(y, x, lists)
  BY MetOrder
<1>5. /\ Above(a, b, lists) <=> s > t \/ (s = t /\ MetBefore(x, y, lists))
      /\ Above(b, a, lists) <=> t > s \/ (t = s /\ MetBefore(y, x, lists))
      /\ Above(b, c, lists) <=> t > u \/ (t = u /\ MetBefore(y, z, lists))
      /\ Above(a, c, lists) <=> s > u \/ (s = u /\ MetBefore(x, z, lists))
  BY <1>1, <1>2, <1>3 DEF Above
<1>6. a # b => x # y
  BY <1>1, <1>2
<1>7. QED BY <1>4, <1>5, <1>6

\* The fused list has what any list has, each item once and by falling score.
LEMMA FusedSorted ==
    ASSUME NEW T, NEW lists \in Seq(Seq(T)), NEW weights,
           \A l \in 1..Len(lists) : weights[l] \in Nat, NEW fused, fused = Fused(lists, weights)
    PROVE  /\ fused \in Seq(Met(lists))
           /\ \A x \in Met(lists) : \E n \in 1..Len(fused) : fused[n] = x
           /\ \A m, n \in 1..Len(fused) : m < n =>
                  Above(<<fused[m], Score(fused[m], lists, weights)>>,
                        <<fused[n], Score(fused[n], lists, weights)>>, lists)
           /\ \A m, n \in 1..Len(fused) : fused[m] = fused[n] => m = n
<1> DEFINE E == Entries(lists, weights)
           R == {p \in E \X E : Above(p[1], p[2], lists)}
           s == Sorted(E, lists)
           score == [x \in Met(lists) |-> <<x, Score(x, lists, weights)>>]
<1>1. \A e \in E : e[1] \in Met(lists) /\ e = <<e[1], Score(e[1], lists, weights)>>
  BY EntryOf
<1>2. \A x \in Met(lists) : <<x, Score(x, lists, weights)>> \in E
  BY DEF Entries
<1>3. IsFiniteSet(E)
  <2>1. IsFiniteSet(Met(lists))
    BY MetFinite
  <2>2. DOMAIN score = Met(lists) /\ score = [x \in Met(lists) |-> score[x]]
        /\ E = {score[x] : x \in Met(lists)}
    BY DEF Entries
  <2> HIDE DEF score, E
  <2>3. QED BY <2>1, <2>2, FiniteImage
<1>4. \A a, b \in E : <<a, b>> \in R <=> Above(a, b, lists)
  <2> HIDE DEF E
  <2>1. QED OBVIOUS
<1>5. StrictOrder(E, R)
  <2> HIDE DEF R
  <2>1. \A a, b, c \in E :
            /\ ~ (Above(a, b, lists) /\ Above(b, a, lists))
            /\ Above(a, b, lists) /\ Above(b, c, lists) => Above(a, c, lists)
            /\ a # b => Above(a, b, lists) \/ Above(b, a, lists)
    BY AboveOrder
  <2> HIDE DEF E
  <2>2. QED BY <1>4, <2>1 DEF StrictOrder
<1>6. s = InPlace(E, R)
  <2> HIDE DEF E
  <2>1. \A e \in E : {o \in E : Above(o, e, lists)} = {o \in E : <<o, e>> \in R}
    BY <1>4
  <2> HIDE DEF R
  <2> DEFINE At(n) == CHOOSE e \in E : Cardinality({o \in E : Above(o, e, lists)}) = n - 1
             In(n) == CHOOSE e \in E : Cardinality({o \in E : <<o, e>> \in R}) = n - 1
  <2>2. \A n \in 1..Cardinality(E) : At(n) = In(n)
    BY <2>1
  <2>3. s = [n \in 1..Cardinality(E) |-> At(n)]
    BY DEF Sorted
  <2>4. InPlace(E, R) = [n \in 1..Cardinality(E) |-> In(n)]
    BY DEF InPlace
  <2> HIDE DEF At, In, s
  <2>5. QED BY ONLY <2>2, <2>3, <2>4
<1> HIDE DEF E, R, s
<1>7. /\ s \in Seq(E) /\ Len(s) = Cardinality(E)
      /\ \A e \in E : \E n \in 1..Len(s) : s[n] = e
      /\ \A m, n \in 1..Len(s) : m < n => <<s[m], s[n]>> \in R
      /\ \A m, n \in 1..Len(s) : s[m] = s[n] => m = n
  BY ONLY <1>3, <1>5, <1>6, SortedBy
<1>8. fused = [n \in 1..Len(s) |-> s[n][1]]
  <2>1. DOMAIN s = 1..Len(s)
    BY <1>7
  <2>2. QED BY <2>1 DEF Fused, s, E
<1>9. PICK N \in Nat : N = Len(s)
  BY <1>7
<1>10. \A n \in 1..N : s[n] \in E /\ fused[n] = s[n][1]
  BY <1>7, <1>8, <1>9
<1>11. \A n \in 1..N : fused[n] \in Met(lists)
                       /\ s[n] = <<fused[n], Score(fused[n], lists, weights)>>
  BY <1>1, <1>10
<1>12. fused \in Seq(Met(lists)) /\ Len(fused) = N
  <2>1. fused \in [1..N -> Met(lists)]
    BY <1>8, <1>9, <1>11
  <2>2. QED BY ONLY <2>1, N \in Nat
<1>13. \A x \in Met(lists) : \E n \in 1..N : fused[n] = x
  <2> SUFFICES ASSUME NEW x \in Met(lists) PROVE \E n \in 1..N : fused[n] = x
    OBVIOUS
  <2>1. PICK n \in 1..N : s[n] = <<x, Score(x, lists, weights)>>
    BY <1>2, <1>7, <1>9
  <2>2. QED BY <1>10, <2>1
<1>14. ASSUME NEW m \in 1..N, NEW n \in 1..N
       PROVE  /\ m < n => Above(<<fused[m], Score(fused[m], lists, weights)>>,
                                <<fused[n], Score(fused[n], lists, weights)>>, lists)
              /\ fused[m] = fused[n] => m = n
  <2>1. s[m] \in E /\ s[n] \in E /\ (m < n => <<s[m], s[n]>> \in R) /\ (s[m] = s[n] => m = n)
    BY <1>7, <1>9, <1>10
  <2>2. m < n => Above(s[m], s[n], lists)
    BY <1>4, <2>1
  <2>3. QED BY <1>11, <2>1, <2>2
<1>15. QED BY <1>12, <1>13, <1>14

-----------------------------------------------------------------------------
(* What a recall of documents answers *)

LEMMA RankedOf ==
    ASSUME NEW S, IsFiniteSet(S), NEW s \in Ranked(S)
    PROVE  s \in Seq(S) /\ IsInjective(s) /\ Len(s) <= Cardinality(S)
<1>1. PICK T \in SUBSET S : s \in SetToSeqs(T)
  BY DEF Ranked
<1>2. IsFiniteSet(T) /\ Cardinality(T) <= Cardinality(S)
  BY FS_Subset
<1>3. s \in Seq(T) /\ IsInjective(s) /\ Len(s) = Cardinality(T)
  BY <1>1, <1>2, OrderedOf
<1>4. QED BY <1>2, <1>3

\* Every signal is a ranking within the bound, with a weight of its own.
Fusible(lists, weights) ==
    /\ lists \in Seq(Seq(Papers))
    /\ \A l \in 1..Len(lists) : Len(lists[l]) <= MaxRank /\ weights[l] \in Nat \ {0}

LEMMA ListsFuse ==
    ASSUME NEW lists \in Lists, NEW weights \in Weights PROVE Fusible(lists, weights)
<1> DEFINE Short(list) == list \in Seq(Papers) /\ Len(list) <= MaxRank
<1>1. IsFiniteSet(Papers) /\ Cardinality(Papers) <= MaxRank /\ MaxRank \in Nat
      /\ Cardinality(Papers) \in Nat
  BY ItemAssumption, RankAssumption, FS_CardinalityType DEF ItemAssumption, RankAssumption
<1>2. \A list \in Ranked(Papers) : Short(list)
  <2> SUFFICES ASSUME NEW list \in Ranked(Papers) PROVE Short(list)
    OBVIOUS
  <2>1. list \in Seq(Papers) /\ Len(list) <= Cardinality(Papers)
    BY <1>1, RankedOf
  <2>2. QED BY <1>1, <2>1
<1>3. \A list \in ByDimensions : Short(list)
  <2> SUFFICES ASSUME NEW list \in SetToSeqs(Papers) PROVE Short(list)
    BY DEF ByDimensions
  <2>1. list \in Seq(Papers) /\ Len(list) = Cardinality(Papers)
    BY <1>1, OrderedOf
  <2>2. QED BY <1>1, <2>1
<1> HIDE DEF Short
<1>4. PICK s \in Signals : \/ lists = <<s.lexical>>
                           \/ lists = <<s.lexical, s.structural, s.declared>>
                           \/ lists = <<s.lexical, s.structural, s.declared, s.dense>>
  BY DEF Lists
<1>5. Short(s.lexical) /\ Short(s.structural) /\ Short(s.declared) /\ Short(s.dense)
  BY <1>2, <1>3 DEF Signals
<1>6. PICK a, b, c, d : a = s.lexical /\ b = s.structural /\ c = s.declared /\ d = s.dense
  OBVIOUS
<1>7. Len(lists) \in 1..4 /\ lists \in Seq(Seq(Papers)) /\ \A l \in 1..Len(lists) : Short(lists[l])
  <2>1. a \in Seq(Papers) /\ b \in Seq(Papers) /\ c \in Seq(Papers) /\ d \in Seq(Papers)
    BY <1>5, <1>6 DEF Short
  <2>2. CASE lists = <<a>>
    BY <1>5, <1>6, <2>1, <2>2
  <2>3. CASE lists = <<a, b, c>>
    BY <1>5, <1>6, <2>1, <2>3
  <2>4. CASE lists = <<a, b, c, d>>
    BY <1>5, <1>6, <2>1, <2>4
  <2>5. QED BY <1>4, <1>6, <2>2, <2>3, <2>4
<1>8. \A l \in 1..4 : weights[l] \in Nat \ {0}
  BY RankAssumption DEF Weights, RankAssumption
<1>9. \A l \in 1..Len(lists) : l \in 1..4
  <2>1. PICK n \in 1..4 : n = Len(lists)
    BY <1>7
  <2>2. \A l \in 1..n : l \in 1..4
    OBVIOUS
  <2>3. QED BY <2>1, <2>2
<1>10. QED BY <1>7, <1>8, <1>9 DEF Fusible, Short

\* What is better in every signal has the higher score.
LEMMA BeatenScore ==
    ASSUME NEW lists, NEW weights, Fusible(lists, weights),
           NEW p \in Beats(lists), p[2] \in Met(lists)
    PROVE  p[1] \in Met(lists) /\ Score(p[2], lists, weights) < Score(p[1], lists, weights)
<1> DEFINE N == Len(lists)
           s == [l \in DOMAIN lists |-> Share(p[2], lists[l], weights[l])]
           u == [l \in DOMAIN lists |-> Share(p[1], lists[l], weights[l])]
<1>1. /\ DOMAIN lists = 1..N /\ N \in Nat
      /\ \A l \in 1..N : lists[l] \in Seq(Papers) /\ Len(lists[l]) <= MaxRank
      /\ \A l \in 1..N : weights[l] \in Nat \ {0} /\ weights[l] \in Nat
  BY DEF Fusible
<1>2. \A l \in 1..N : p[2] \in Range(lists[l]) =>
          /\ p[1] \in Range(lists[l])
          /\ RankIn(lists[l], p[1]) < RankIn(lists[l], p[2])
  BY <1>1 DEF Beats
<1>3. PICK k \in 1..N : p[2] \in Range(lists[k])
  BY <1>1 DEF Met
<1>4. p[1] \in Met(lists)
  BY <1>1, <1>2, <1>3 DEF Met
<1>5. \A l \in 1..N : s[l] \in Nat /\ u[l] \in Nat
  BY <1>1, ShareType
<1>6. ASSUME NEW l \in 1..N, p[2] \in Range(lists[l]) PROVE s[l] < u[l]
  <2>1. p[1] \in Range(lists[l]) /\ RankIn(lists[l], p[1]) < RankIn(lists[l], p[2])
    BY <1>2, <1>6
  <2>2. Share(p[2], lists[l], weights[l]) < Share(p[1], lists[l], weights[l])
    BY <1>1, <1>6, <2>1, ShareFalls
  <2>3. QED BY <1>1, <2>2
<1>7. ASSUME NEW l \in 1..N PROVE s[l] <= u[l]
  <2>1. CASE p[2] \in Range(lists[l])
    <3>1. PICK x \in Nat, y \in Nat : x = s[l] /\ y = u[l]
      BY <1>5
    <3>2. x < y
      BY <1>6, <2>1, <3>1
    <3>3. QED BY <3>1, <3>2
  <2>2. CASE p[2] \notin Range(lists[l])
    <3>1. s[l] = 0
      BY <1>1, <2>2 DEF Share
    <3>2. QED BY <1>5, <3>1
  <2>3. QED BY <2>1, <2>2
<1>8. s \in Seq(Nat) /\ u \in Seq(Nat) /\ Len(s) = N /\ Len(u) = N
  <2>1. PICK n \in Nat : n = N
    BY <1>1
  <2>2. DOMAIN s = 1..n /\ DOMAIN u = 1..n /\ s = [l \in 1..n |-> s[l]] /\ u = [l \in 1..n |-> u[l]]
    BY <1>1, <2>1
  <2> HIDE DEF s, u
  <2>3. s \in [1..n -> Nat] /\ u \in [1..n -> Nat]
    BY <1>5, <2>1, <2>2
  <2>4. s \in Seq(Nat) /\ u \in Seq(Nat) /\ Len(s) = n /\ Len(u) = n
    BY ONLY <2>3, n \in Nat
  <2>5. QED BY <2>1, <2>4
<1>9. Score(p[2], lists, weights) = Total(s) /\ Score(p[1], lists, weights) = Total(u)
  BY DEF Score
<1> HIDE DEF s, u
<1>10. Total(s) < Total(u)
  <2>1. \A l \in 1..Len(s) : s[l] <= u[l]
    BY <1>7, <1>8
  <2>2. \E l \in 1..Len(s) : s[l] < u[l]
    BY <1>3, <1>6, <1>8
  <2>3. QED BY <1>8, <2>1, <2>2, TotalLess
<1>11. QED BY <1>4, <1>9, <1>10

\* Wherever the fused list is cut, the better of two documents stays.
LEMMA BeatenLater ==
    ASSUME NEW lists, NEW weights, Fusible(lists, weights), NEW p \in Beats(lists),
           NEW limit \in Nat, NEW papers, papers = Cut(Fused(lists, weights), limit),
           p[2] \in Range(papers)
    PROVE  p[1] \in Range(papers) /\ RankIn(papers, p[1]) < RankIn(papers, p[2])
<1> DEFINE fused == Fused(lists, weights)
<1>1. lists \in Seq(Seq(Papers)) /\ \A l \in 1..Len(lists) : weights[l] \in Nat
  BY DEF Fusible
<1>2. /\ fused \in Seq(Met(lists))
      /\ \A x \in Met(lists) : \E n \in 1..Len(fused) : fused[n] = x
      /\ \A m, n \in 1..Len(fused) : m < n =>
             Above(<<fused[m], Score(fused[m], lists, weights)>>,
                   <<fused[n], Score(fused[n], lists, weights)>>, lists)
      /\ \A m, n \in 1..Len(fused) : fused[m] = fused[n] => m = n
  BY <1>1, FusedSorted
<1> HIDE DEF fused
<1>3. IsInjective(fused) /\ Len(fused) \in Nat
  BY <1>2 DEF IsInjective
<1>4. PICK m \in 0..Len(fused) : papers = SubSeq(fused, 1, m)
  BY <1>2, CutOf DEF fused
<1>5. /\ papers \in Seq(Met(lists)) /\ Len(papers) = m /\ IsInjective(papers)
      /\ \A n \in 1..m : papers[n] = fused[n] /\ n \in 1..Len(fused)
  BY <1>2, <1>3, <1>4, PrefixOf
<1>6. PICK j \in 1..m : papers[j] = p[2] /\ fused[j] = p[2] /\ j \in 1..Len(fused)
  BY <1>5, RangeOfList
<1>7. p[2] \in Met(lists)
  BY <1>2, <1>6
<1>8. p[1] \in Met(lists) /\ Score(p[2], lists, weights) < Score(p[1], lists, weights)
  BY <1>7, BeatenScore
<1>9. PICK i \in 1..Len(fused) : fused[i] = p[1]
  BY <1>2, <1>8
<1>10. i < j
  <2>1. PICK x \in Nat, y \in Nat :
            x = Score(p[2], lists, weights) /\ y = Score(p[1], lists, weights) /\ x < y
    BY <1>1, <1>8, ScoreType
  <2>2. i # j
    BY <1>6, <1>9, <2>1
  <2>3. ~ (j < i)
    <3> SUFFICES ASSUME j < i PROVE FALSE
      OBVIOUS
    <3>1. Above(<<p[2], x>>, <<p[1], y>>, lists)
      BY <1>2, <1>6, <1>9, <2>1
    <3>2. x > y \/ x = y
      BY <3>1 DEF Above
    <3>3. QED BY <2>1, <3>2
  <2>4. QED BY <1>3, <2>2, <2>3
<1>11. i \in 1..m /\ papers[i] = p[1]
  <2>1. i \in 1..m
    BY <1>3, <1>10
  <2>2. QED BY <1>5, <1>9, <2>1
<1>12. /\ p[1] \in Range(papers) /\ RankIn(papers, p[1]) = i
       /\ RankIn(papers, p[2]) = j
  BY <1>5, <1>6, <1>11, RankAt
<1>13. QED BY <1>10, <1>12

LEMMA FoundOf ==
    ASSUME NEW lists, NEW weights, Fusible(lists, weights), NEW limit \in Nat,
           NEW papers, papers = Cut(Fused(lists, weights), limit)
    PROVE  papers \in Seq(Papers) /\ IsInjective(papers)
<1> DEFINE fused == Fused(lists, weights)
<1>1. lists \in Seq(Seq(Papers)) /\ \A l \in 1..Len(lists) : weights[l] \in Nat
  BY DEF Fusible
<1>2. /\ fused \in Seq(Met(lists))
      /\ \A m, n \in 1..Len(fused) : fused[m] = fused[n] => m = n
  BY <1>1, FusedSorted
<1>3. Met(lists) \subseteq Papers
  BY <1>1, MetFinite
<1> HIDE DEF fused
<1>4. fused \in Seq(Papers) /\ IsInjective(fused)
  BY <1>2, <1>3 DEF IsInjective
<1>5. PICK m \in 0..Len(fused) : papers = SubSeq(fused, 1, m)
  BY <1>4, CutOf DEF fused
<1>6. QED BY <1>4, <1>5, PrefixOf

LEMMA RoomOf ==
    ASSUME NEW limit \in Nat PROVE Room(limit) \in Nat
<1>1. PICK n \in Nat : n = 2 * limit
  OBVIOUS
<1>2. Max({1, n}) = IF 1 >= n THEN 1 ELSE n
  BY MaxOfTwo
<1>3. QED BY <1>1, <1>2 DEF Room

\* What is ranked is there once, and after what is better in every signal.
HitsInv ==
    /\ DOMAIN hits = DOMAIN NoHits
    /\ hits.memories \in Seq(Facts) /\ IsInjective(hits.memories)
    /\ hits.documents \in Seq(Papers) /\ IsInjective(hits.documents)
    /\ hits.better \subseteq Papers \X Papers
    /\ \A p \in hits.better : p[2] \in Range(hits.documents) =>
           /\ p[1] \in Range(hits.documents)
           /\ RankIn(hits.documents, p[1]) < RankIn(hits.documents, p[2])

LEMMA NoHitsYet == hits = NoHits => HitsInv
<1>1. <<>> \in Seq(Facts) /\ <<>> \in Seq(Papers) /\ IsInjective(<<>>)
  BY DEF IsInjective
<1>2. QED BY <1>1 DEF HitsInv, NoHits

LEMMA HitsGone == (hits = NoHits)' => HitsInv'
BY NoHitsYet, PTL

LEMMA HitsMade ==
    ASSUME Asked, RankAndSelect
    PROVE  HitsInv' /\ pack' = Packed(Selected(hits'.memories, hits'.documents))
<1>1. PICK order \in Remembered, answer \in Recalls :
          /\ hits' = [memories |-> Cut(order, Room(request.memories)),
                      documents |-> Cut(answer.found, Room(request.documents)),
                      better |-> answer.better]
          /\ pack' = Packed(Selected(hits'.memories, hits'.documents))
  BY DEF RankAndSelect
<1>2. PICK lists \in Lists, weights \in Weights :
          answer.found = Fused(lists, weights) /\ answer.better = Beats(lists)
  BY DEF Recalls
<1>3. request.memories \in Nat /\ request.documents \in Nat
  BY RequestAssumption DEF RequestAssumption, Asked
<1>4. PICK most \in Nat : most = Room(request.memories)
  BY <1>3, RoomOf
<1>5. PICK limit \in Nat : limit = Room(request.documents)
  BY <1>3, RoomOf
<1>6. PICK first : first = Cut(order, most)
  OBVIOUS
<1>7. PICK papers : papers = Cut(Fused(lists, weights), limit)
  OBVIOUS
<1>8. first \in Seq(Facts) /\ IsInjective(first)
  <2>1. order \in Seq(Facts) /\ IsInjective(order)
    BY ItemAssumption, RankedOf DEF ItemAssumption, Remembered
  <2>2. PICK m \in 0..Len(order) : first = SubSeq(order, 1, m)
    BY <1>6, <2>1, CutOf
  <2>3. QED BY <2>1, <2>2, PrefixOf
<1>9. Fusible(lists, weights)
  BY ListsFuse
<1>10. papers \in Seq(Papers) /\ IsInjective(papers)
  BY <1>7, <1>9, FoundOf
<1>11. ASSUME NEW p \in Beats(lists), p[2] \in Range(papers)
       PROVE  p[1] \in Range(papers) /\ RankIn(papers, p[1]) < RankIn(papers, p[2])
  BY <1>7, <1>9, <1>11, BeatenLater
<1>12. /\ DOMAIN hits' = {"memories", "documents", "better"}
       /\ hits'.memories = first /\ hits'.documents = papers /\ hits'.better = Beats(lists)
  BY <1>1, <1>2, <1>4, <1>5, <1>6, <1>7
<1>13. DOMAIN NoHits = {"memories", "documents", "better"}
  BY DEF NoHits
<1>14. HitsInv'
  <2>1. Beats(lists) \subseteq Papers \X Papers
    BY DEF Beats
  <2>2. QED BY <1>8, <1>10, <1>11, <1>12, <1>13, <2>1 DEF HitsInv
<1>15. QED BY <1>1, <1>14

LEMMA HitsStep == Asked /\ HitsInv /\ [PacketNext]_packetVars => HitsInv'
<1> SUFFICES ASSUME Asked, HitsInv, [PacketNext]_packetVars PROVE HitsInv'
  OBVIOUS
<1>1. CASE UNCHANGED hits
  BY <1>1 DEF HitsInv
<1>2. CASE RankAndSelect
  BY <1>2, HitsMade
<1>3. CASE NextRequest
  BY <1>3, HitsGone DEF NextRequest
<1>4. CASE UNCHANGED packetVars
  BY <1>1, <1>4 DEF packetVars
<1>5. CASE DropSource \/ PackReady \/ RankCards \/ NothingToBrief \/ DropSection \/ DropCard
           \/ BriefReady \/ DropEvidence \/ DropPoint \/ DropRisk \/ Refuse \/ InsertDraft
  <2>1. UNCHANGED hits
    BY <1>5 DEF DropSource, PackReady, RankCards, NothingToBrief, DropSection, DropCard,
                BriefReady, DropEvidence, DropPoint, DropRisk, Refuse, InsertDraft, Drafting
  <2>2. QED BY <1>1, <2>1
<1>6. QED BY <1>2, <1>3, <1>4, <1>5 DEF PacketNext

-----------------------------------------------------------------------------
(* The order in which memories and documents are taken *)

\* Where an item is in the ranking of its kind.
PlaceIn(mems, docs, i) == IF i \in Facts THEN RankIn(mems, i) ELSE RankIn(docs, i)
Ahead(mems, docs, a, b) ==
    \/ PlaceIn(mems, docs, a) < PlaceIn(mems, docs, b)
    \/ PlaceIn(mems, docs, a) = PlaceIn(mems, docs, b) /\ a \in Facts

\* Rankings of either kind, within the bound.
TwoLists(mems, docs) ==
    /\ mems \in Seq(Facts) /\ IsInjective(mems) /\ Len(mems) <= MaxRank
    /\ docs \in Seq(Papers) /\ IsInjective(docs) /\ Len(docs) <= MaxRank

LEMMA TwoListsOf ==
    ASSUME NEW mems, NEW docs, TwoLists(mems, docs), NEW lists, lists = <<mems, docs>>
    PROVE  /\ lists \in Seq(Seq(Facts \union Papers)) /\ Len(lists) = 2 /\ DOMAIN lists = 1..2
           /\ lists[1] = mems /\ lists[2] = docs
           /\ Met(lists) = Range(mems) \union Range(docs)
<1>1. mems \in Seq(Facts \union Papers) /\ docs \in Seq(Facts \union Papers)
  BY DEF TwoLists
<1>2. lists \in Seq(Seq(Facts \union Papers)) /\ Len(lists) = 2 /\ DOMAIN lists = 1..2
      /\ lists[1] = mems /\ lists[2] = docs
  BY <1>1
<1>3. Met(lists) = UNION {Range(lists[l]) : l \in 1..2}
  BY <1>2 DEF Met
<1>4. 1..2 = {1, 2}
  OBVIOUS
<1>5. Met(lists) = Range(mems) \union Range(docs)
  BY <1>2, <1>3, <1>4
<1>6. QED BY <1>2, <1>5

\* An item is in the list of its kind, and that is its place.
LEMMA PlaceOf ==
    ASSUME NEW mems, NEW docs, TwoLists(mems, docs), NEW x \in Range(mems) \union Range(docs)
    PROVE  \E r \in 1..MaxRank :
               /\ r = PlaceIn(mems, docs, x)
               /\ \/ /\ x \in Facts /\ x \notin Papers /\ x \in Range(mems) /\ x \notin Range(docs)
                     /\ r \in 1..Len(mems) /\ r = RankIn(mems, x) /\ mems[r] = x
                  \/ /\ x \in Papers /\ x \notin Facts /\ x \in Range(docs) /\ x \notin Range(mems)
                     /\ r \in 1..Len(docs) /\ r = RankIn(docs, x) /\ docs[r] = x
<1>1. /\ Range(mems) \subseteq Facts /\ Range(docs) \subseteq Papers /\ Facts \intersect Papers = {}
      /\ MaxRank \in Nat /\ Len(mems) \in Nat /\ Len(docs) \in Nat
      /\ mems \in Seq(Facts) /\ docs \in Seq(Papers)
      /\ Len(mems) <= MaxRank /\ Len(docs) <= MaxRank
  BY RangeOfList, ItemAssumption, RankAssumption DEF TwoLists, ItemAssumption, RankAssumption
<1>2. CASE x \in Range(mems)
  <2>1. PICK r \in 1..Len(mems) : r = RankIn(mems, x) /\ mems[r] = x
    BY <1>1, <1>2, RankOf
  <2>2. r \in 1..MaxRank
    BY <1>1
  <2>3. x \in Facts /\ x \notin Papers /\ x \notin Range(docs)
    BY <1>1, <1>2
  <2>4. QED BY <1>2, <2>1, <2>2, <2>3 DEF PlaceIn
<1>3. CASE x \in Range(docs)
  <2>1. PICK r \in 1..Len(docs) : r = RankIn(docs, x) /\ docs[r] = x
    BY <1>1, <1>3, RankOf
  <2>2. r \in 1..MaxRank
    BY <1>1
  <2>3. x \in Papers /\ x \notin Facts /\ x \notin Range(mems)
    BY <1>1, <1>3
  <2>4. QED BY <1>3, <2>1, <2>2, <2>3 DEF PlaceIn
<1>4. QED BY <1>2, <1>3

\* An item's score is its share of the one list that has it.
LEMMA ScoreOfTwo ==
    ASSUME NEW mems, NEW docs, TwoLists(mems, docs), NEW x \in Range(mems) \union Range(docs)
    PROVE  Score(x, <<mems, docs>>, <<1, 1>>) = Unit \div (60 + PlaceIn(mems, docs, x))
<1>1. PICK p \in Nat, q \in Nat : p = Share(x, mems, 1) /\ q = Share(x, docs, 1)
  BY ShareType DEF TwoLists
<1> DEFINE lists == <<mems, docs>>
           shares == [l \in DOMAIN lists |-> Share(x, lists[l], <<1, 1>>[l])]
<1>2. Score(x, <<mems, docs>>, <<1, 1>>) = Total(shares)
  BY DEF Score
<1>3. DOMAIN lists = 1..2 /\ lists[1] = mems /\ lists[2] = docs /\ <<1, 1>>[1] = 1 /\ <<1, 1>>[2] = 1
  OBVIOUS
<1>4. shares = <<p, q>>
  <2>1. DOMAIN shares = 1..2 /\ shares[1] = p /\ shares[2] = q
    BY <1>1, <1>3
  <2>2. shares = [l \in 1..2 |-> shares[l]]
    BY <1>3
  <2> HIDE DEF shares
  <2>3. QED BY <2>1, <2>2
<1>5. Total(<<p, q>>) = p + q
  BY TotalOfTwo
<1>6. PICK r \in 1..MaxRank :
               /\ r = PlaceIn(mems, docs, x)
               /\ \/ /\ x \in Range(mems) /\ x \notin Range(docs) /\ r = RankIn(mems, x)
                  \/ /\ x \in Range(docs) /\ x \notin Range(mems) /\ r = RankIn(docs, x)
  BY PlaceOf
<1>7. PICK u \in Int : u = Unit \div (60 + r)
  <2>1. 60 + r \in Nat \ {0} /\ Unit \in Nat
    BY RankAssumption DEF RankAssumption
  <2>2. QED BY <2>1
<1>8. \/ p = 1 * u /\ q = 0
      \/ q = 1 * u /\ p = 0
  BY <1>1, <1>6, <1>7 DEF Share
<1>9. p + q = u
  BY <1>8
<1> HIDE DEF shares
<1>10. QED BY <1>2, <1>4, <1>5, <1>6, <1>7, <1>9

\* The list that is met first is that of the memories.
LEMMA FirstOfTwo ==
    ASSUME NEW mems, NEW docs, TwoLists(mems, docs), NEW x \in Range(mems) \union Range(docs)
    PROVE  FirstList(x, <<mems, docs>>) = IF x \in Facts THEN 1 ELSE 2
<1>1. PICK lists : lists = <<mems, docs>>
  OBVIOUS
<1>2. /\ lists \in Seq(Seq(Facts \union Papers)) /\ Len(lists) = 2
      /\ lists[1] = mems /\ lists[2] = docs
      /\ Met(lists) = Range(mems) \union Range(docs)
  BY <1>1, TwoListsOf
<1>3. PICK k \in 1..2 : k = FirstList(x, lists) /\ x \in Range(lists[k])
                        /\ \A l \in 1..2 : x \in Range(lists[l]) => k <= l
  BY <1>2, FirstOf
<1>4. \/ x \in Facts /\ x \in Range(mems)
      \/ x \notin Facts /\ x \notin Range(mems)
  BY PlaceOf
<1>5. 1 \in 1..2 /\ (k = 1 \/ k = 2) /\ (k <= 1 => k = 1)
  OBVIOUS
<1>6. k = IF x \in Facts THEN 1 ELSE 2
  BY <1>2, <1>3, <1>4, <1>5
<1>7. QED BY <1>1, <1>3, <1>6

LEMMA AboveIsAhead ==
    ASSUME NEW mems, NEW docs, TwoLists(mems, docs),
           NEW a \in Range(mems) \union Range(docs), NEW b \in Range(mems) \union Range(docs),
           a # b,
           Above(<<a, Score(a, <<mems, docs>>, <<1, 1>>)>>,
                 <<b, Score(b, <<mems, docs>>, <<1, 1>>)>>, <<mems, docs>>)
    PROVE  Ahead(mems, docs, a, b)
<1>1. PICK lists : lists = <<mems, docs>>
  OBVIOUS
<1>2. /\ lists[1] = mems /\ lists[2] = docs
  BY <1>1, TwoListsOf
<1>3. PICK r \in 1..MaxRank :
          /\ r = PlaceIn(mems, docs, a)
          /\ \/ a \in Facts /\ a \in Range(mems) /\ r \in 1..Len(mems) /\ mems[r] = a
             \/ a \notin Facts /\ a \in Range(docs) /\ r \in 1..Len(docs) /\ docs[r] = a
  BY PlaceOf
<1>4. PICK q \in 1..MaxRank :
          /\ q = PlaceIn(mems, docs, b)
          /\ \/ b \in Facts /\ b \in Range(mems) /\ q \in 1..Len(mems) /\ mems[q] = b
             \/ b \notin Facts /\ b \in Range(docs) /\ q \in 1..Len(docs) /\ docs[q] = b
  BY PlaceOf
<1>5. /\ Score(a, <<mems, docs>>, <<1, 1>>) = Unit \div (60 + r)
      /\ Score(b, <<mems, docs>>, <<1, 1>>) = Unit \div (60 + q)
  BY <1>3, <1>4, ScoreOfTwo
<1>6. PICK s \in Nat, t \in Nat : s = Unit \div (60 + r) /\ t = Unit \div (60 + q)
  <2>1. /\ mems \in Seq(Facts \union Papers) /\ docs \in Seq(Facts \union Papers)
    BY DEF TwoLists
  <2>2. <<mems, docs>> \in Seq(Seq(Facts \union Papers)) /\ \A l \in 1..Len(<<mems, docs>>) : <<1, 1>>[l] \in Nat
    BY <2>1
  <2>3. Score(a, <<mems, docs>>, <<1, 1>>) \in Nat /\ Score(b, <<mems, docs>>, <<1, 1>>) \in Nat
    BY <2>2, ScoreType
  <2>4. QED BY <1>5, <2>3
<1>7. s > t \/ (s = t /\ MetBefore(a, b, lists))
  <2>1. Above(<<a, s>>, <<b, t>>, lists)
    BY <1>1, <1>5, <1>6
  <2>2. QED BY <2>1 DEF Above
<1>8. r \in Nat /\ q \in Nat
  BY RankAssumption DEF RankAssumption
<1>9. ~ (q < r)
  <2> SUFFICES ASSUME q < r PROVE FALSE
    OBVIOUS
  <2>1. s < t
    <3>1. /\ MaxRank \in Nat
          /\ (Unit \div (60 + r)) * (60 + r) = Unit /\ (Unit \div (60 + q)) * (60 + q) = Unit
          /\ Unit \in Nat \ {0}
      BY RankAssumption DEF RankAssumption
    <3>2. s * (60 + r) = t * (60 + q) /\ t * (60 + q) # 0
      BY <1>6, <3>1
    <3>3. SUFFICES ASSUME t <= s PROVE FALSE
      OBVIOUS
    <3>4. t # 0 /\ 60 + q < 60 + r
      BY <1>8, <3>2
    <3>5. t * (60 + r) <= s * (60 + r)
      BY <1>8, <3>3
    <3>6. t * (60 + q) < t * (60 + r)
      BY <1>8, <3>4
    <3>7. QED BY <1>8, <3>2, <3>5, <3>6
  <2>2. QED BY <1>7, <2>1
<1>10. r = q => a \in Facts
  <2> SUFFICES ASSUME r = q, a \notin Facts PROVE FALSE
    OBVIOUS
  <2>1. b \in Facts
    BY <1>3, <1>4
  <2>2. FirstList(a, lists) = 2 /\ FirstList(b, lists) = 1
    BY <1>1, <2>1, FirstOfTwo
  <2>3. ~ MetBefore(a, b, lists)
    BY <2>2 DEF MetBefore
  <2>4. s = t
    BY <1>6
  <2>5. QED BY <1>7, <2>3, <2>4
<1>11. QED BY <1>3, <1>4, <1>8, <1>9, <1>10 DEF Ahead

\* The fused order has each item of both rankings once, and what is ahead first.
LEMMA OrderOfTwo ==
    ASSUME NEW mems, NEW docs, TwoLists(mems, docs),
           NEW order, order = Fused(<<mems, docs>>, <<1, 1>>)
    PROVE  /\ order \in Seq(Facts \union Papers) /\ IsInjective(order)
           /\ Range(order) = Range(mems) \union Range(docs)
           /\ \A m, n \in 1..Len(order) : m < n => Ahead(mems, docs, order[m], order[n])
<1>1. PICK lists : lists = <<mems, docs>>
  OBVIOUS
<1>2. PICK weights : weights = <<1, 1>>
  OBVIOUS
<1>3. /\ lists \in Seq(Seq(Facts \union Papers)) /\ Len(lists) = 2
      /\ Met(lists) = Range(mems) \union Range(docs)
  BY <1>1, TwoListsOf
<1>4. PICK T : T = Facts \union Papers
  OBVIOUS
<1>5. lists \in Seq(Seq(T))
  BY <1>3, <1>4
<1>6. \A l \in 1..Len(lists) : weights[l] \in Nat
  BY <1>2, <1>3
<1>7. order = Fused(lists, weights)
  BY <1>1, <1>2
<1>8. /\ order \in Seq(Met(lists))
      /\ \A x \in Met(lists) : \E n \in 1..Len(order) : order[n] = x
      /\ \A m, n \in 1..Len(order) : m < n =>
             Above(<<order[m], Score(order[m], lists, weights)>>,
                   <<order[n], Score(order[n], lists, weights)>>, lists)
      /\ \A m, n \in 1..Len(order) : order[m] = order[n] => m = n
  BY ONLY <1>5, <1>6, <1>7, FusedSorted
<1>9. Met(lists) \subseteq T
  BY <1>5, MetFinite
<1>10. order \in Seq(T) /\ IsInjective(order) /\ Len(order) \in Nat
  <2>1. order \in Seq(T) /\ DOMAIN order = 1..Len(order) /\ Len(order) \in Nat
    BY ONLY <1>8, <1>9
  <2>2. QED BY ONLY <1>8, <2>1 DEF IsInjective
<1>11. Range(order) = Met(lists)
  <2>1. Range(order) \subseteq Met(lists)
    BY <1>8, RangeOfList
  <2>2. Met(lists) \subseteq Range(order)
    <3>1. \A x : x \in Range(order) <=> \E n \in 1..Len(order) : order[n] = x
      BY <1>10, RangeOfList
    <3>2. QED BY ONLY <1>8, <3>1
  <2>3. QED BY <2>1, <2>2
<1>12. ASSUME NEW m \in 1..Len(order), NEW n \in 1..Len(order), m < n
       PROVE  Ahead(mems, docs, order[m], order[n])
  <2>1. order[m] \in Range(mems) \union Range(docs) /\ order[n] \in Range(mems) \union Range(docs)
    BY <1>3, <1>8
  <2>2. order[m] # order[n]
    <3>1. m # n
      BY <1>10, <1>12
    <3>2. QED BY <1>8, <3>1
  <2>3. PICK a, b : a = order[m] /\ b = order[n]
    OBVIOUS
  <2>4. Above(<<a, Score(a, <<mems, docs>>, <<1, 1>>)>>,
              <<b, Score(b, <<mems, docs>>, <<1, 1>>)>>, <<mems, docs>>)
    BY <1>1, <1>2, <1>8, <1>12, <2>3
  <2>5. QED BY <2>1, <2>2, <2>3, <2>4, AboveIsAhead
<1>13. QED BY <1>3, <1>4, <1>10, <1>11, <1>12

\* The first i of a list are those that the first n of an order have.
Covers(order, n, list, i) ==
    \A k \in 1..Len(list) : k <= i <=> \E m \in 1..n : order[m] = list[k]

\* An order that keeps the ranks of a list comes to its elements one by one.
LEMMA NextInRank ==
    ASSUME NEW T, NEW order \in Seq(T), IsInjective(order), NEW n \in 1..Len(order),
           NEW list \in Seq(T), IsInjective(list), Range(list) \subseteq Range(order),
           order[n] \in Range(list), NEW i \in 0..Len(list), Covers(order, n - 1, list, i),
           \A m \in (n + 1)..Len(order) :
               order[m] \in Range(list) => RankIn(list, order[n]) <= RankIn(list, order[m])
    PROVE  /\ i + 1 \in 1..Len(list) /\ RankIn(list, order[n]) = i + 1
           /\ Covers(order, n, list, i + 1)
<1>1. /\ DOMAIN order = 1..Len(order) /\ Len(order) \in Nat
      /\ DOMAIN list = 1..Len(list) /\ Len(list) \in Nat /\ i \in Nat /\ n \in Nat
  BY RangeOfList
<1>2. PICK r \in 1..Len(list) : r = RankIn(list, order[n]) /\ list[r] = order[n]
  BY RankOf
<1>3. ~ (r <= i)
  <2> SUFFICES ASSUME r <= i PROVE FALSE
    OBVIOUS
  <2>1. PICK m \in 1..(n - 1) : order[m] = list[r]
    BY DEF Covers
  <2>2. m \in 1..Len(order) /\ m # n
    BY <1>1
  <2>3. QED BY <1>1, <1>2, <2>1, <2>2 DEF IsInjective
<1>4. i + 1 \in 1..Len(list) /\ i + 1 <= r
  BY <1>1, <1>3
<1>5. PICK k \in 1..Len(order) : order[k] = list[i + 1]
  <2>1. list[i + 1] \in Range(order)
    BY <1>4, RangeOfList
  <2>2. QED BY <2>1, RangeOfList
<1>6. ~ (k \in 1..(n - 1))
  <2> SUFFICES ASSUME k \in 1..(n - 1) PROVE FALSE
    OBVIOUS
  <2>1. i + 1 <= i
    BY <1>4, <1>5 DEF Covers
  <2>2. QED BY <1>1, <2>1
<1>7. r <= i + 1
  <2>1. list[i + 1] \in Range(list) /\ RankIn(list, list[i + 1]) = i + 1
    BY <1>4, RankAt
  <2>2. CASE k = n
    BY <1>1, <1>2, <1>5, <2>1, <2>2
  <2>3. CASE k # n
    <3>1. k \in (n + 1)..Len(order)
      BY <1>1, <1>6, <2>3
    <3>2. QED BY <1>2, <1>5, <2>1, <3>1
  <2>4. QED BY <2>2, <2>3
<1>8. r = i + 1
  BY <1>1, <1>4, <1>7
<1>9. ASSUME NEW l \in 1..Len(list)
      PROVE  l <= i + 1 <=> \E m \in 1..n : order[m] = list[l]
  <2>1. CASE l = i + 1
    <3>1. n \in 1..n /\ order[n] = list[l] /\ l <= i + 1
      BY <1>1, <1>2, <1>8, <2>1
    <3>2. QED BY <3>1
  <2>2. CASE l # i + 1
    <3>1. l <= i + 1 <=> l <= i
      BY <1>1, <2>2
    <3>2. order[n] # list[l]
      BY <1>1, <1>2, <1>8, <2>2 DEF IsInjective
    <3>3. \A m \in 1..n : m = n \/ m \in 1..(n - 1)
      BY <1>1
    <3>4. \A m \in 1..(n - 1) : m \in 1..n
      BY <1>1
    <3>5. l <= i <=> \E m \in 1..(n - 1) : order[m] = list[l]
      BY DEF Covers
    <3>6. QED BY <3>1, <3>2, <3>3, <3>4, <3>5
  <2>3. QED BY <2>1, <2>2
<1>10. QED BY <1>2, <1>4, <1>8, <1>9 DEF Covers

LEMMA CoversStays ==
    ASSUME NEW T, NEW order \in Seq(T), NEW n \in 1..Len(order), NEW list \in Seq(T),
           order[n] \notin Range(list), NEW i, Covers(order, n - 1, list, i)
    PROVE  Covers(order, n, list, i)
<1>1. ASSUME NEW l \in 1..Len(list)
      PROVE  l <= i <=> \E m \in 1..n : order[m] = list[l]
  <2>1. order[n] # list[l]
    BY RangeOfList
  <2>2. \A m \in 1..n : m = n \/ m \in 1..(n - 1)
    OBVIOUS
  <2>3. \A m \in 1..(n - 1) : m \in 1..n
    OBVIOUS
  <2>4. l <= i <=> \E m \in 1..(n - 1) : order[m] = list[l]
    BY DEF Covers
  <2>5. QED BY <2>1, <2>2, <2>3, <2>4
<1>2. QED BY <1>1 DEF Covers

\* The walk over the order, item by item.
Walks(T) == [sources : Seq(T), memories : Nat, documents : Nat]

LEMMA TakesType ==
    ASSUME NEW T, NEW k \in Walks(T), NEW item \in T
    PROVE  Takes(k, item) \in Walks(T)
<1>1. k.sources \in Seq(T) /\ k.memories \in Nat /\ k.documents \in Nat
  BY DEF Walks
<1>2. Append(k.sources, item) \in Seq(T) /\ k.memories + 1 \in Nat /\ k.documents + 1 \in Nat
  BY <1>1
<1>3. [k EXCEPT !.sources = Append(@, item), !.memories = @ + 1] \in Walks(T)
  BY <1>2 DEF Walks
<1>4. [k EXCEPT !.sources = Append(@, item), !.documents = @ + 1] \in Walks(T)
  BY <1>2 DEF Walks
<1>5. QED BY <1>3, <1>4 DEF Takes

LEMMA TakenSteps ==
    ASSUME NEW T, NEW order \in Seq(T)
    PROVE  \E t \in [0..Len(order) -> Walks(T)] :
               /\ t[0] = [sources |-> <<>>, memories |-> 0, documents |-> 0]
               /\ Taken(order) = t[Len(order)].sources
               /\ \A n \in 1..Len(order) : t[n] = Takes(t[n - 1], order[n])
<1> DEFINE N == Len(order)
           V == Walks(T)
           none == [sources |-> <<>>, memories |-> 0, documents |-> 0]
           step == [n \in 1..N |-> [k \in V |-> Takes(k, order[n])]]
<1>1. N \in Nat /\ \A n \in 1..N : order[n] \in T
  OBVIOUS
<1>2. none \in V
  BY DEF Walks
<1>3. step \in [1..N -> [V -> V]] /\ \A n \in 1..N, k \in V : step[n][k] = Takes(k, order[n])
  <2>1. \A n \in 1..N, k \in V : Takes(k, order[n]) \in V
    BY <1>1, TakesType
  <2> HIDE DEF V, N
  <2>2. QED BY <2>1
<1>4. PICK t \in [0..N -> V] : Follows(t, N, none, step)
  <2> HIDE DEF N, step, V, none
  <2>1. QED BY <1>1, <1>2, <1>3, Unfolds
<1>5. \A n \in 1..N : n \in 0..N /\ n - 1 \in 0..N
  BY <1>1
<1>6. t[0] = none /\ \A n \in 1..N : t[n] = Takes(t[n - 1], order[n])
  <2> HIDE DEF N, step, V, none
  <2>1. QED BY <1>3, <1>4, <1>5 DEF Follows
<1> HIDE DEF step
<1> DEFINE Step(f, n) == IF n = 0 THEN none ELSE Takes(f[n - 1], order[n])
<1>7. t = [n \in 0..N |-> Step(t, n)]
  <2>1. \A n \in 0..N : t[n] = Step(t, n)
    <3> HIDE DEF none, V
    <3>1. QED BY <1>1, <1>4, <1>6
  <2>2. t = [n \in 0..N |-> t[n]]
    OBVIOUS
  <2> HIDE DEF Step
  <2>3. QED BY <2>1, <2>2
<1> DEFINE f == CHOOSE g : g = [n \in 0..N |-> Step(g, n)]
<1>8. f = [n \in 0..N |-> Step(f, n)]
  BY <1>7
<1>9. Taken(order) = f[N].sources
  BY DEF Taken
<1> HIDE DEF f
<1>10. \A n \in 0..N : f[n] = t[n]
  <2> DEFINE G == {n \in 0..N : f[n] = t[n]}
  <2> HIDE DEF none, V
  <2>1. 0 \in G
    BY <1>1, <1>4, <1>8, <1>6
  <2>2. ASSUME NEW n \in 1..N, n - 1 \in G PROVE n \in G
    <3>1. f[n] = Takes(f[n - 1], order[n])
      BY <1>8, <1>5
    <3>2. QED BY <1>5, <1>6, <2>2, <3>1
  <2>3. \A n \in 0..N : n \in G
    <3> HIDE DEF G
    <3>1. QED BY <1>1, <2>1, <2>2, UpTo
  <2>4. QED BY <2>3
<1>11. N \in 0..N
  BY <1>1
<1> HIDE DEF V
<1>12. QED BY <1>4, <1>6, <1>9, <1>10, <1>11 DEF V

\* What exceeds the limit of its kind, and what does not.
Beyond(mems, docs, i) ==
    PlaceIn(mems, docs, i) > IF i \in Facts THEN request.memories ELSE request.documents
Within(mems, docs) == {i \in Facts \union Papers : ~Beyond(mems, docs, i)}

\* The rankings and the order they are fused to.
Ordered(mems, docs, order) ==
    /\ TwoLists(mems, docs)
    /\ order \in Seq(Facts \union Papers) /\ IsInjective(order)
    /\ Range(order) = Range(mems) \union Range(docs)
    /\ \A m, n \in 1..Len(order) : m < n => Ahead(mems, docs, order[m], order[n])

\* The next memory of the order is the next of its ranking, and so is a document.
LEMMA NextMemory ==
    ASSUME NEW mems, NEW docs, NEW order, Ordered(mems, docs, order), NEW n \in 1..Len(order),
           order[n] \in Facts, NEW i \in 0..Len(mems), Covers(order, n - 1, mems, i),
           NEW j, Covers(order, n - 1, docs, j)
    PROVE  /\ i + 1 \in 0..Len(mems) /\ PlaceIn(mems, docs, order[n]) = i + 1
           /\ Covers(order, n, mems, i + 1) /\ Covers(order, n, docs, j)
<1>1. PICK T : T = Facts \union Papers /\ order \in Seq(T) /\ mems \in Seq(T) /\ docs \in Seq(T)
  BY DEF Ordered, TwoLists
<1>2. order[n] \in Range(mems) \union Range(docs)
  BY <1>1, RangeOfList DEF Ordered
<1>3. TwoLists(mems, docs)
  BY DEF Ordered
<1>4. /\ order[n] \in Range(mems) /\ order[n] \notin Range(docs)
      /\ PlaceIn(mems, docs, order[n]) = RankIn(mems, order[n])
      /\ PlaceIn(mems, docs, order[n]) \in Nat
  <2>1. PICK r \in 1..MaxRank :
            /\ r = PlaceIn(mems, docs, order[n])
            /\ \/ order[n] \in Range(mems) /\ order[n] \notin Range(docs) /\ r = RankIn(mems, order[n])
               \/ order[n] \notin Facts
    BY <1>2, <1>3, PlaceOf
  <2>2. r \in Nat
    BY RankAssumption DEF RankAssumption
  <2>3. QED BY <2>1, <2>2
<1>5. ASSUME NEW m \in (n + 1)..Len(order), order[m] \in Range(mems)
      PROVE  RankIn(mems, order[n]) <= RankIn(mems, order[m])
  <2>1. m \in 1..Len(order) /\ n < m
    BY <1>1
  <2>2. Ahead(mems, docs, order[n], order[m])
    BY <2>1 DEF Ordered
  <2>3. PICK r \in 1..MaxRank :
            /\ r = PlaceIn(mems, docs, order[m])
            /\ \/ order[m] \in Range(mems) /\ r = RankIn(mems, order[m])
               \/ order[m] \notin Range(mems)
    BY <1>3, <1>5, PlaceOf
  <2>4. r = RankIn(mems, order[m]) /\ r \in Nat
    BY <1>5, <2>3, RankAssumption DEF RankAssumption
  <2>5. PICK k \in Nat : k = RankIn(mems, order[n]) /\ k = PlaceIn(mems, docs, order[n])
    BY <1>4
  <2>6. k < r \/ k = r
    BY <2>2, <2>3, <2>5 DEF Ahead
  <2>7. QED BY <2>4, <2>5, <2>6
<1>6. IsInjective(order) /\ IsInjective(mems) /\ Range(mems) \subseteq Range(order)
  BY DEF Ordered, TwoLists
<1>7. /\ i + 1 \in 1..Len(mems) /\ RankIn(mems, order[n]) = i + 1
      /\ Covers(order, n, mems, i + 1)
  BY <1>1, <1>4, <1>5, <1>6, NextInRank
<1>8. Covers(order, n, docs, j)
  BY <1>1, <1>4, CoversStays
<1>9. i + 1 \in 0..Len(mems)
  BY <1>1, <1>7
<1>10. QED BY <1>4, <1>7, <1>8, <1>9

LEMMA NextDocument ==
    ASSUME NEW mems, NEW docs, NEW order, Ordered(mems, docs, order), NEW n \in 1..Len(order),
           order[n] \notin Facts, NEW j \in 0..Len(docs), Covers(order, n - 1, docs, j),
           NEW i, Covers(order, n - 1, mems, i)
    PROVE  /\ j + 1 \in 0..Len(docs) /\ PlaceIn(mems, docs, order[n]) = j + 1
           /\ Covers(order, n, docs, j + 1) /\ Covers(order, n, mems, i)
<1>1. PICK T : T = Facts \union Papers /\ order \in Seq(T) /\ mems \in Seq(T) /\ docs \in Seq(T)
  BY DEF Ordered, TwoLists
<1>2. order[n] \in Range(mems) \union Range(docs)
  BY <1>1, RangeOfList DEF Ordered
<1>3. TwoLists(mems, docs)
  BY DEF Ordered
<1>4. /\ order[n] \in Range(docs) /\ order[n] \notin Range(mems)
      /\ PlaceIn(mems, docs, order[n]) = RankIn(docs, order[n])
      /\ PlaceIn(mems, docs, order[n]) \in Nat
  <2>1. PICK r \in 1..MaxRank :
            /\ r = PlaceIn(mems, docs, order[n])
            /\ \/ order[n] \in Range(docs) /\ order[n] \notin Range(mems) /\ r = RankIn(docs, order[n])
               \/ order[n] \in Facts
    BY <1>2, <1>3, PlaceOf
  <2>2. r \in Nat
    BY RankAssumption DEF RankAssumption
  <2>3. QED BY <2>1, <2>2
<1>5. ASSUME NEW m \in (n + 1)..Len(order), order[m] \in Range(docs)
      PROVE  RankIn(docs, order[n]) <= RankIn(docs, order[m])
  <2>1. m \in 1..Len(order) /\ n < m
    BY <1>1
  <2>2. Ahead(mems, docs, order[n], order[m])
    BY <2>1 DEF Ordered
  <2>3. PICK r \in 1..MaxRank :
            /\ r = PlaceIn(mems, docs, order[m])
            /\ \/ order[m] \in Range(docs) /\ r = RankIn(docs, order[m])
               \/ order[m] \notin Range(docs)
    BY <1>3, <1>5, PlaceOf
  <2>4. r = RankIn(docs, order[m]) /\ r \in Nat
    BY <1>5, <2>3, RankAssumption DEF RankAssumption
  <2>5. PICK k \in Nat : k = RankIn(docs, order[n]) /\ k = PlaceIn(mems, docs, order[n])
    BY <1>4
  <2>6. k < r \/ k = r
    BY <2>2, <2>3, <2>5 DEF Ahead
  <2>7. QED BY <2>4, <2>5, <2>6
<1>6. IsInjective(order) /\ IsInjective(docs) /\ Range(docs) \subseteq Range(order)
  BY DEF Ordered, TwoLists
<1>7. /\ j + 1 \in 1..Len(docs) /\ RankIn(docs, order[n]) = j + 1
      /\ Covers(order, n, docs, j + 1)
  BY <1>1, <1>4, <1>5, <1>6, NextInRank
<1>8. Covers(order, n, mems, i)
  BY <1>1, <1>4, CoversStays
<1>9. j + 1 \in 0..Len(docs)
  BY <1>1, <1>7
<1>10. QED BY <1>4, <1>7, <1>8, <1>9

\* How far the walk is in either ranking, and what it has taken.
Capped(i, limit) == IF i <= limit THEN i ELSE limit
Alike(mems, docs, order, n, k, q, i, j) ==
    /\ Covers(order, n, mems, i) /\ Covers(order, n, docs, j)
    /\ k.sources = q
    /\ k.memories = Capped(i, request.memories) /\ k.documents = Capped(j, request.documents)

\* An item is taken if its place is within the limit of its kind.
LEMMA TakesAlike ==
    ASSUME Asked, NEW mems, NEW docs, NEW order, Ordered(mems, docs, order),
           NEW n \in 1..Len(order), NEW k \in Walks(Facts \union Papers), NEW q,
           NEW i \in 0..Len(mems), NEW j \in 0..Len(docs),
           Alike(mems, docs, order, n - 1, k, q, i, j),
           NEW r, r = IF order[n] \in Within(mems, docs) THEN Append(q, order[n]) ELSE q
    PROVE  \E i2 \in 0..Len(mems), j2 \in 0..Len(docs) :
               Alike(mems, docs, order, n, Takes(k, order[n]), r, i2, j2)
<1>1. PICK x : x = order[n] /\ x \in Facts \union Papers
  BY DEF Ordered
<1>2. PICK most \in Nat, limit \in Nat : most = request.memories /\ limit = request.documents
  BY RequestAssumption DEF RequestAssumption, Asked
<1>3. i \in Nat /\ j \in Nat
  OBVIOUS
<1>4. /\ Covers(order, n - 1, mems, i) /\ Covers(order, n - 1, docs, j)
      /\ k.sources = q /\ k.memories = Capped(i, most) /\ k.documents = Capped(j, limit)
  BY <1>2 DEF Alike
<1>5. DOMAIN k = {"sources", "memories", "documents"}
  BY DEF Walks
<1>6. CASE x \in Facts
  <2>1. /\ i + 1 \in 0..Len(mems) /\ PlaceIn(mems, docs, x) = i + 1
        /\ Covers(order, n, mems, i + 1) /\ Covers(order, n, docs, j)
    <3>1. order[n] \in Facts
      BY <1>1, <1>6
    <3>2. /\ i + 1 \in 0..Len(mems) /\ PlaceIn(mems, docs, order[n]) = i + 1
          /\ Covers(order, n, mems, i + 1) /\ Covers(order, n, docs, j)
      BY <1>4, <3>1, NextMemory
    <3>3. QED BY <1>1, <3>2
  <2>2. x \in Within(mems, docs) <=> i + 1 <= most
    <3>1. Beyond(mems, docs, x) <=> i + 1 > most
      BY <1>2, <1>6, <2>1 DEF Beyond
    <3>2. QED BY <1>1, <1>2, <1>3, <3>1 DEF Within
  <2>3. CASE i + 1 <= most
    <3>1. /\ Capped(i, most) = i /\ Capped(i + 1, most) = i + 1
      BY <1>2, <1>3, <2>3 DEF Capped
    <3>2. Takes(k, x) = [k EXCEPT !.sources = Append(@, x), !.memories = @ + 1]
      <4>1. k.memories < request.memories
        BY <1>2, <1>3, <1>4, <2>3, <3>1
      <4>2. QED BY <1>6, <4>1 DEF Takes
    <3>3. r = Append(q, x)
      BY <1>1, <2>2, <2>3
    <3>4. /\ Takes(k, x).sources = r /\ Takes(k, x).memories = i + 1
          /\ Takes(k, x).documents = k.documents
      BY <1>4, <1>5, <3>1, <3>2, <3>3
    <3>5. QED BY <1>1, <1>2, <1>4, <2>1, <3>1, <3>4 DEF Alike
  <2>4. CASE ~ (i + 1 <= most)
    <3>1. Capped(i, most) = most /\ Capped(i + 1, most) = most
      BY <1>2, <1>3, <2>4 DEF Capped
    <3>2. Takes(k, x) = k
      <4>1. ~ (k.memories < request.memories)
        BY <1>2, <1>4, <3>1
      <4>2. QED BY <1>6, <4>1 DEF Takes
    <3>3. r = q
      BY <1>1, <2>2, <2>4
    <3>4. QED BY <1>1, <1>2, <1>4, <2>1, <3>1, <3>2, <3>3 DEF Alike
  <2>5. QED BY <2>3, <2>4
<1>7. CASE x \notin Facts
  <2>1. /\ j + 1 \in 0..Len(docs) /\ PlaceIn(mems, docs, x) = j + 1
        /\ Covers(order, n, docs, j + 1) /\ Covers(order, n, mems, i)
    <3>1. order[n] \notin Facts
      BY <1>1, <1>7
    <3>2. /\ j + 1 \in 0..Len(docs) /\ PlaceIn(mems, docs, order[n]) = j + 1
          /\ Covers(order, n, docs, j + 1) /\ Covers(order, n, mems, i)
      BY <1>4, <3>1, NextDocument
    <3>3. QED BY <1>1, <3>2
  <2>2. x \in Within(mems, docs) <=> j + 1 <= limit
    <3>1. Beyond(mems, docs, x) <=> j + 1 > limit
      BY <1>2, <1>7, <2>1 DEF Beyond
    <3>2. QED BY <1>1, <1>2, <1>3, <3>1 DEF Within
  <2>3. CASE j + 1 <= limit
    <3>1. /\ Capped(j, limit) = j /\ Capped(j + 1, limit) = j + 1
      BY <1>2, <1>3, <2>3 DEF Capped
    <3>2. Takes(k, x) = [k EXCEPT !.sources = Append(@, x), !.documents = @ + 1]
      <4>1. k.documents < request.documents
        BY <1>2, <1>3, <1>4, <2>3, <3>1
      <4>2. QED BY <1>7, <4>1 DEF Takes
    <3>3. r = Append(q, x)
      BY <1>1, <2>2, <2>3
    <3>4. /\ Takes(k, x).sources = r /\ Takes(k, x).documents = j + 1
          /\ Takes(k, x).memories = k.memories
      BY <1>4, <1>5, <3>1, <3>2, <3>3
    <3>5. QED BY <1>1, <1>2, <1>4, <2>1, <3>1, <3>4 DEF Alike
  <2>4. CASE ~ (j + 1 <= limit)
    <3>1. Capped(j, limit) = limit /\ Capped(j + 1, limit) = limit
      BY <1>2, <1>3, <2>4 DEF Capped
    <3>2. Takes(k, x) = k
      <4>1. ~ (k.documents < request.documents)
        BY <1>2, <1>4, <3>1
      <4>2. QED BY <1>7, <4>1 DEF Takes
    <3>3. r = q
      BY <1>1, <2>2, <2>4
    <3>4. QED BY <1>1, <1>2, <1>4, <2>1, <3>1, <3>2, <3>3 DEF Alike
  <2>5. QED BY <2>3, <2>4
<1>8. QED BY <1>6, <1>7

\* The walk takes what is within the limits, in its order.
LEMMA TakenIsPicked ==
    ASSUME Asked, NEW mems, NEW docs, NEW order, Ordered(mems, docs, order)
    PROVE  Taken(order) = Picked(order, Within(mems, docs))
<1>1. PICK T : T = Facts \union Papers /\ order \in Seq(T)
  BY DEF Ordered
<1>2. PICK t \in [0..Len(order) -> Walks(T)] :
          /\ t[0] = [sources |-> <<>>, memories |-> 0, documents |-> 0]
          /\ Taken(order) = t[Len(order)].sources
          /\ \A n \in 1..Len(order) : t[n] = Takes(t[n - 1], order[n])
  BY <1>1, TakenSteps
<1>3. PICK W : W = Within(mems, docs)
  OBVIOUS
<1>4. PICK p : /\ \A n \in 0..Len(order) :
                        p[n] = IF n = 0 THEN <<>>
                               ELSE IF order[n] \in W THEN Append(p[n - 1], order[n]) ELSE p[n - 1]
               /\ Picked(order, W) = p[Len(order)]
  BY <1>1, PickedSteps
<1> DEFINE N == Len(order)
           Good(n) == \E i \in 0..Len(mems), j \in 0..Len(docs) :
                          Alike(mems, docs, order, n, t[n], p[n], i, j)
           G == {n \in 0..N : Good(n)}
<1>5. N \in Nat /\ Len(mems) \in Nat /\ Len(docs) \in Nat
      /\ \A n \in 1..N : n \in 0..N /\ n - 1 \in 0..N /\ n # 0
  BY <1>1 DEF Ordered, TwoLists
<1>6. 0 \in G
  <2>1. \A k \in 1..Len(mems) : ~ (k <= 0)
    BY <1>5
  <2>2. \A k \in 1..Len(docs) : ~ (k <= 0)
    BY <1>5
  <2>3. Covers(order, 0, mems, 0) /\ Covers(order, 0, docs, 0)
    BY <2>1, <2>2 DEF Covers
  <2>4. Capped(0, request.memories) = 0 /\ Capped(0, request.documents) = 0
    BY RequestAssumption DEF Capped, RequestAssumption, Asked
  <2>5. p[0] = <<>> /\ t[0].sources = <<>> /\ t[0].memories = 0 /\ t[0].documents = 0
    BY <1>2, <1>4, <1>5
  <2>6. Alike(mems, docs, order, 0, t[0], p[0], 0, 0)
    BY <2>3, <2>4, <2>5 DEF Alike
  <2>7. 0 \in 0..Len(mems) /\ 0 \in 0..Len(docs) /\ 0 \in 0..N
    BY <1>5
  <2>8. QED BY <2>6, <2>7
<1>7. ASSUME NEW n \in 1..N, n - 1 \in G PROVE n \in G
  <2>1. PICK i \in 0..Len(mems), j \in 0..Len(docs) :
            Alike(mems, docs, order, n - 1, t[n - 1], p[n - 1], i, j)
    BY <1>7
  <2>2. PICK k \in Walks(T) : k = t[n - 1]
    BY <1>5
  <2>3. PICK q : q = p[n - 1]
    OBVIOUS
  <2>4. t[n] = Takes(k, order[n])
    BY <1>2, <2>2
  <2>5. p[n] = IF order[n] \in Within(mems, docs) THEN Append(q, order[n]) ELSE q
    BY <1>3, <1>4, <1>5, <2>3
  <2>6. \E i2 \in 0..Len(mems), j2 \in 0..Len(docs) :
            Alike(mems, docs, order, n, Takes(k, order[n]), p[n], i2, j2)
    <3>1. Alike(mems, docs, order, n - 1, k, q, i, j)
      BY <2>1, <2>2, <2>3
    <3>2. k \in Walks(Facts \union Papers)
      BY <1>1
    <3>3. QED BY ONLY <2>5, <3>1, <3>2, Asked, Ordered(mems, docs, order), n \in 1..Len(order),
                      TakesAlike
  <2>7. Good(n)
    BY <2>4, <2>6
  <2>8. QED BY <1>5, <2>7
<1>8. \A n \in 0..N : n \in G
  <2> HIDE DEF G, N
  <2>1. QED BY <1>5, <1>6, <1>7, UpTo
<1>9. Good(N)
  <2>1. N \in G
    BY <1>5, <1>8
  <2>2. QED BY <2>1
<1>10. QED BY <1>2, <1>3, <1>4, <1>9 DEF Alike

\* Of two items that are ahead of each other both are the same.
LEMMA AheadOnce ==
    ASSUME NEW mems, NEW docs, TwoLists(mems, docs),
           NEW a \in Range(mems) \union Range(docs), NEW b \in Range(mems) \union Range(docs),
           Ahead(mems, docs, a, b), Ahead(mems, docs, b, a)
    PROVE  a = b
<1>1. PICK r \in 1..MaxRank :
          r = PlaceIn(mems, docs, a) /\ (a \in Facts => r \in 1..Len(mems) /\ mems[r] = a)
  BY PlaceOf
<1>2. PICK q \in 1..MaxRank :
          q = PlaceIn(mems, docs, b) /\ (b \in Facts => q \in 1..Len(mems) /\ mems[q] = b)
  BY PlaceOf
<1>3. r \in Nat /\ q \in Nat
  BY RankAssumption DEF RankAssumption
<1>4. r = q /\ a \in Facts /\ b \in Facts
  BY <1>1, <1>2, <1>3 DEF Ahead
<1>5. QED BY <1>1, <1>2, <1>4

\* What is kept of both rankings is within the limits, and with an item is
\* kept, before it, what is ahead of it and within the limits.
Keeps(mems, docs, s) ==
    /\ s \in Seq(Facts \union Papers) /\ IsInjective(s)
    /\ \A n \in 1..Len(s) :
           /\ s[n] \in Range(mems) \union Range(docs) /\ ~Beyond(mems, docs, s[n])
           /\ \A a \in Range(mems) \union Range(docs) :
                  Ahead(mems, docs, a, s[n]) /\ ~Beyond(mems, docs, a) /\ a # s[n] =>
                      \E m \in 1..(n - 1) : s[m] = a

LEMMA SelectedKeeps ==
    ASSUME Asked, NEW mems, NEW docs, TwoLists(mems, docs),
           NEW s, s = Selected(mems, docs)
    PROVE  Keeps(mems, docs, s)
<1>1. PICK order : order = Fused(<<mems, docs>>, <<1, 1>>)
  OBVIOUS
<1>2. Ordered(mems, docs, order)
  BY <1>1, OrderOfTwo DEF Ordered
<1>3. PICK W : W = Within(mems, docs)
  OBVIOUS
<1>4. s = Picked(order, W)
  BY <1>1, <1>2, <1>3, TakenIsPicked DEF Selected
<1>5. PICK T : T = Facts \union Papers
  OBVIOUS
<1>6. /\ order \in Seq(T) /\ IsInjective(order)
      /\ \A x : x \in Range(order) <=> \E n \in 1..Len(order) : order[n] = x
  BY <1>2, <1>5, RangeOfList DEF Ordered
<1>7. /\ s \in Seq(T)
      /\ \A k \in 1..Len(s) : s[k] \in W /\ \E n \in 1..Len(order) : order[n] = s[k]
      /\ \A n \in 1..Len(order) : order[n] \in W => \E k \in 1..Len(s) : s[k] = order[n]
  BY <1>4, <1>6, PickedFacts
<1>8. IsInjective(s)
  BY <1>4, <1>6, PickedInjective
<1>9. ASSUME NEW n \in 1..Len(s)
      PROVE  s[n] \in Range(mems) \union Range(docs) /\ ~Beyond(mems, docs, s[n])
  <2>1. s[n] \in Range(order) /\ s[n] \in W
    BY <1>6, <1>7
  <2>2. QED BY <1>2, <1>3, <2>1 DEF Ordered, Within
<1>10. ASSUME NEW n \in 1..Len(s), NEW a \in Range(mems) \union Range(docs),
              Ahead(mems, docs, a, s[n]), ~Beyond(mems, docs, a), a # s[n]
       PROVE  \E m \in 1..(n - 1) : s[m] = a
  <2>1. a \in W
    <3>1. a \in T
      BY <1>5, RangeOfList DEF TwoLists
    <3>2. QED BY <1>3, <1>5, <1>10, <3>1 DEF Within
  <2>2. PICK h \in 1..Len(order) : order[h] = a
    BY <1>2, <1>6 DEF Ordered
  <2>3. PICK k \in 1..Len(s) : s[k] = a
    BY <1>7, <2>1, <2>2
  <2>4. Len(s) \in Nat /\ k # n
    BY <1>7, <1>10, <2>3
  <2>5. ~ (n < k)
    <3> SUFFICES ASSUME n < k PROVE FALSE
      OBVIOUS
    <3>1. PICK x \in 1..Len(order), y \in 1..Len(order) : x < y /\ order[x] = s[n] /\ order[y] = s[k]
      BY <1>4, <1>6, PickedOrder
    <3>2. Ahead(mems, docs, s[n], a)
      BY <1>2, <2>3, <3>1 DEF Ordered
    <3>3. QED BY <1>9, <1>10, <3>2, AheadOnce
  <2>6. k \in 1..(n - 1)
    BY <2>4, <2>5
  <2>7. QED BY <2>3, <2>6
<1>11. QED BY <1>5, <1>7, <1>8, <1>9, <1>10 DEF Keeps

\* So it stays when the last one is dropped.
LEMMA FrontKeeps ==
    ASSUME NEW mems, NEW docs, NEW s, Keeps(mems, docs, s), s # <<>>
    PROVE  Keeps(mems, docs, Front(s))
<1>1. PICK T : T = Facts \union Papers
  OBVIOUS
<1>2. s \in Seq(T) /\ IsInjective(s)
  BY <1>1 DEF Keeps
<1>3. PICK r : r = Front(s)
  OBVIOUS
<1>4. /\ r \in Seq(T) /\ Len(r) = Len(s) - 1 /\ Len(s) \in Nat
      /\ \A n \in 1..(Len(s) - 1) : r[n] = s[n] /\ n \in 1..Len(s)
      /\ IsInjective(r)
  BY <1>2, <1>3, FrontOf
<1>5. ASSUME NEW n \in 1..Len(r)
      PROVE  /\ r[n] \in Range(mems) \union Range(docs) /\ ~Beyond(mems, docs, r[n])
             /\ \A a \in Range(mems) \union Range(docs) :
                    Ahead(mems, docs, a, r[n]) /\ ~Beyond(mems, docs, a) /\ a # r[n] =>
                        \E m \in 1..(n - 1) : r[m] = a
  <2>1. n \in 1..Len(s) /\ r[n] = s[n] /\ n <= Len(s) - 1
    BY <1>4
  <2>2. \A m \in 1..(n - 1) : r[m] = s[m]
    <3>1. \A m \in 1..(n - 1) : m \in 1..(Len(s) - 1)
      BY <1>4, <2>1
    <3>2. QED BY <1>4, <3>1
  <2>3. QED BY <2>1, <2>2 DEF Keeps
<1>6. QED BY <1>1, <1>3, <1>4, <1>5 DEF Keeps

-----------------------------------------------------------------------------
(* The context packet *)

\* Whatever has been dropped, what is left keeps what is ahead of it, and the
\* packet is measured as it is.
PackInv ==
    /\ Keeps(hits.memories, hits.documents, pack.sources)
    /\ IF stage = "recall" THEN pack = NoPack ELSE pack = Packed(pack.sources)
    /\ stage \notin {"recall", "pack"} => ~TooLong(pack, request.budget)

LEMMA PackStart == pack = NoPack /\ stage = "recall" => PackInv
<1>1. <<>> \in Seq(Facts \union Papers) /\ IsInjective(<<>>) /\ Len(<<>>) = 0
  BY DEF IsInjective
<1>2. QED BY <1>1 DEF PackInv, NoPack, Keeps

LEMMA EmptyPack == (pack = NoPack /\ stage = "recall")' => PackInv'
BY PackStart, PTL

\* What is ranked is within the bound.
LEMMA HitsBound ==
    ASSUME HitsInv PROVE TwoLists(hits.memories, hits.documents)
<1>1. /\ Len(hits.memories) <= Cardinality(Facts) /\ Len(hits.documents) <= Cardinality(Papers)
      /\ Len(hits.memories) \in Nat /\ Len(hits.documents) \in Nat
  BY ItemAssumption, LengthBound DEF HitsInv, ItemAssumption
<1>2. /\ Cardinality(Facts) <= MaxRank /\ Cardinality(Papers) <= MaxRank /\ MaxRank \in Nat
      /\ Cardinality(Facts) \in Nat /\ Cardinality(Papers) \in Nat
  BY ItemAssumption, RankAssumption, FS_CardinalityType DEF ItemAssumption, RankAssumption
<1>3. Len(hits.memories) <= MaxRank /\ Len(hits.documents) <= MaxRank
  BY <1>1, <1>2
<1>4. QED BY <1>3 DEF HitsInv, TwoLists

LEMMA HitsBoundNext == HitsInv' => TwoLists(hits.memories, hits.documents)'
BY HitsBound, PTL

\* The sources of a packet are those it is made of.
LEMMA PackedOf ==
    ASSUME NEW s
    PROVE  Packed(s).sources = s
BY DEF Packed

LEMMA RankAndSelectPacks ==
    ASSUME Asked, RankAndSelect PROVE PackInv'
<1>1. PICK mems : mems = hits'.memories
  OBVIOUS
<1>2. PICK docs : docs = hits'.documents
  OBVIOUS
<1>3. PICK s : s = Selected(mems, docs)
  OBVIOUS
<1>4. HitsInv' /\ pack' = Packed(s)
  BY <1>1, <1>2, <1>3, HitsMade
<1>5. TwoLists(mems, docs)
  BY <1>1, <1>2, <1>4, HitsBoundNext
<1>6. Keeps(mems, docs, s)
  BY <1>3, <1>5, SelectedKeeps
<1>7. stage' = "pack" /\ request' = request
  BY DEF RankAndSelect
<1>8. pack'.sources = s
  BY <1>4, PackedOf
<1>9. Keeps(hits.memories, hits.documents, pack.sources)'
  BY <1>1, <1>2, <1>6, <1>7, <1>8 DEF Keeps, Beyond
<1>10. QED BY <1>4, <1>7, <1>8, <1>9 DEF PackInv

LEMMA DropSourcePacks ==
    ASSUME PackInv, DropSource PROVE PackInv'
<1>1. /\ stage' = "pack" /\ request' = request /\ hits' = hits
      /\ pack' = Packed(Front(pack.sources)) /\ pack.sources # <<>>
  BY DEF DropSource, TooLong
<1>2. PICK s : s = Front(pack.sources)
  OBVIOUS
<1>3. Keeps(hits.memories, hits.documents, s)
  BY <1>1, <1>2, FrontKeeps DEF PackInv
<1>4. pack' = Packed(s) /\ pack'.sources = s
  BY <1>1, <1>2, PackedOf
<1>5. Keeps(hits.memories, hits.documents, pack.sources)'
  BY <1>1, <1>3, <1>4 DEF Keeps, Beyond
<1>6. QED BY <1>1, <1>4, <1>5 DEF PackInv

LEMMA PackKept ==
    ASSUME PackInv, UNCHANGED <<request, hits, pack>>,
           stage = "recall" <=> stage' = "recall",
           stage' \notin {"recall", "pack"} => ~TooLong(pack, request.budget)
    PROVE  PackInv'
<1>1. Keeps(hits.memories, hits.documents, pack.sources)'
  BY DEF PackInv, Keeps, Beyond
<1>2. ~TooLong(pack, request.budget) => ~TooLong(pack, request.budget)'
  BY DEF TooLong
<1>3. pack = Packed(pack.sources) => (pack = Packed(pack.sources))'
  BY DEF Packed
<1>4. QED BY <1>1, <1>2, <1>3 DEF PackInv

LEMMA PackStep == Asked /\ PackInv /\ [PacketNext]_packetVars => PackInv'
<1> SUFFICES ASSUME Asked, PackInv, [PacketNext]_packetVars PROVE PackInv'
  OBVIOUS
<1>1. CASE UNCHANGED packetVars
  BY <1>1, PackKept DEF packetVars, PackInv
<1>2. CASE RankAndSelect
  BY <1>2, RankAndSelectPacks
<1>3. CASE DropSource
  BY <1>3, DropSourcePacks
<1>4. CASE PackReady
  BY <1>4, PackKept DEF PackReady
<1>5. CASE RankCards \/ NothingToBrief \/ DropSection \/ DropCard \/ BriefReady
  BY <1>5, PackKept DEF RankCards, NothingToBrief, DropSection, DropCard, BriefReady, PackInv
<1>6. CASE DropEvidence \/ DropPoint \/ DropRisk \/ Refuse \/ InsertDraft
  BY <1>6, PackKept DEF DropEvidence, DropPoint, DropRisk, Refuse, InsertDraft, Drafting, PackInv
<1>7. CASE NextRequest
  BY <1>7, EmptyPack DEF NextRequest
<1>8. QED BY <1>1, <1>2, <1>3, <1>4, <1>5, <1>6, <1>7 DEF PacketNext

LEMMA SizeOfNone == SizeOf(<<>>) = 0
<1> DEFINE none == [n \in DOMAIN <<>> |-> Size[<<>>[n]]]
<1>1. DOMAIN <<>> = {}
  OBVIOUS
<1>2. none = <<>>
  BY <1>1
<1>3. SizeOf(<<>>) = Total(none)
  BY DEF SizeOf
<1>4. <<>> \in Seq(Nat) /\ Len(<<>>) = 0
  OBVIOUS
<1>5. PICK t \in [0..0 -> Nat] : t[0] = 0 /\ Total(<<>>) = t[0]
  BY <1>4, TotalSteps
<1> HIDE DEF none
<1>6. QED BY <1>2, <1>3, <1>5

\* An estimate with the digits of the first one is an estimate with its own.
LEMMA EstimateHolds ==
    ASSUME NEW size \in Nat, size <= 100000,
           NEW once \in Nat, once = Tokens(size + 1),
           NEW again \in Nat, again = Tokens(size + Digits(once))
    PROVE  again = Tokens(size + Digits(again))
<1>1. 4 * once >= size + 1 /\ 4 * once <= size + 4
  <2>1. size + 1 \in Nat /\ size + 1 # 0
    OBVIOUS
  <2>2. size + 1 <= 4 * once /\ 4 * once <= (size + 1) + 3
    BY <2>1, TokensOf
  <2>3. QED BY <2>2
<1>2. PICK d \in Nat \ {0} : d = Digits(once)
  BY DigitsOf
<1>3. 4 * again >= size + d /\ 4 * again <= size + d + 3
  <2>1. size + d \in Nat /\ size + d # 0
    OBVIOUS
  <2>2. again = Tokens(size + d)
    BY <1>2
  <2>3. QED BY <2>1, <2>2, TokensOf
<1>4. PICK e \in Nat \ {0} : e = Digits(again)
  BY DigitsOf
<1>5. PICK tokens \in Nat : tokens = Tokens(size + e) /\ 4 * tokens >= size + e /\ 4 * tokens <= size + e + 3
  <2>1. size + e \in Nat /\ size + e # 0
    OBVIOUS
  <2>2. Tokens(size + e) \in Nat /\ size + e <= 4 * Tokens(size + e) /\ 4 * Tokens(size + e) <= (size + e) + 3
    BY <2>1, TokensOf
  <2>3. QED BY <2>2
<1>6. d = IF once < 10 THEN 1 ELSE IF once < 100 THEN 2 ELSE IF once < 1000 THEN 3
          ELSE IF once < 10000 THEN 4 ELSE IF once < 100000 THEN 5 ELSE 6
  BY <1>2 DEF Digits
<1>7. e = IF again < 10 THEN 1 ELSE IF again < 100 THEN 2 ELSE IF again < 1000 THEN 3
          ELSE IF again < 10000 THEN 4 ELSE IF again < 100000 THEN 5 ELSE 6
  BY <1>4 DEF Digits
<1>8. tokens = again
  <2>1. CASE once < 10
    BY <1>1, <1>3, <1>5, <1>6, <1>7, <2>1
  <2>2. CASE once >= 10 /\ once < 100
    BY <1>1, <1>3, <1>5, <1>6, <1>7, <2>2
  <2>3. CASE once >= 100 /\ once < 1000
    BY <1>1, <1>3, <1>5, <1>6, <1>7, <2>3
  <2>4. CASE once >= 1000 /\ once < 10000
    BY <1>1, <1>3, <1>5, <1>6, <1>7, <2>4
  <2>5. CASE once >= 10000
    BY <1>1, <1>3, <1>5, <1>6, <1>7, <2>5
  <2>6. QED BY <2>1, <2>2, <2>3, <2>4, <2>5
<1>9. QED BY <1>4, <1>5, <1>8

\* The finished packet fits, or nothing is left of it; it is as long as it says.
LEMMA PackFits ==
    ASSUME Asked, PackInv, stage \notin {"recall", "pack"}
    PROVE  /\ pack.estimate = Tokens(PackChars(pack.sources) + Digits(pack.estimate))
           /\ pack.estimate <= request.budget \/ pack.sources = <<>>
<1>1. PICK s \in Seq(Facts \union Papers) : s = pack.sources
  BY DEF PackInv, Keeps
<1>2. SizeOf(s) \in Nat /\ PackFrame \in Nat /\ PackFrame <= 100000
  BY SizeOfList, SizeAssumption DEF SizeAssumption
<1>3. PICK size \in Nat : size = PackChars(s) /\ (s = <<>> => size = PackFrame)
  BY <1>2, SizeOfNone DEF PackChars
<1>4. PICK once \in Nat : once = Tokens(size + 1)
  <2>1. size + 1 \in Nat /\ size + 1 # 0
    OBVIOUS
  <2>2. QED BY <2>1, TokensOf
<1>5. PICK again \in Nat : again = Tokens(size + Digits(once)) /\ 4 * again >= size
  <2>1. PICK d \in Nat \ {0} : d = Digits(once)
    BY DigitsOf
  <2>2. size + d \in Nat /\ size + d # 0
    OBVIOUS
  <2>3. Tokens(size + d) \in Nat /\ size + d <= 4 * Tokens(size + d)
    BY <2>2, TokensOf
  <2>4. PICK tokens \in Nat : tokens = Tokens(size + d) /\ size + d <= 4 * tokens
    BY <2>3
  <2>5. size <= 4 * tokens
    BY <2>4
  <2>6. QED BY <2>1, <2>4, <2>5
<1>6. pack.estimate = again
  <2>1. pack = Packed(s)
    BY <1>1 DEF PackInv
  <2>2. Packed(s).estimate = Tokens(PackChars(s) + Digits(Tokens(PackChars(s) + Digits(0))))
    BY DEF Packed
  <2>3. QED BY <1>3, <1>4, <1>5, <2>1, <2>2, DigitsOf
<1>7. PICK budget \in Nat : budget = request.budget /\ budget <= 8000
  BY RequestAssumption DEF RequestAssumption, Asked
<1>8. again <= budget \/ s = <<>>
  <2>1. ~ (pack.estimate > request.budget) \/ pack.sources = <<>>
    BY DEF PackInv, TooLong
  <2>2. QED BY <1>1, <1>6, <1>7, <2>1
<1>9. size <= 100000
  <2>1. CASE again <= budget
    BY <1>5, <1>7, <2>1
  <2>2. CASE s = <<>>
    BY <1>2, <1>3, <2>2
  <2>3. QED BY <1>8, <2>1, <2>2
<1>10. again = Tokens(size + Digits(again))
  BY <1>4, <1>5, <1>9, EstimateHolds
<1>11. QED BY <1>1, <1>3, <1>6, <1>7, <1>8, <1>10

\* What is ahead of a source is a source or exceeds its limit.
LEMMA PackRanks ==
    ASSUME HitsInv, PackInv, NEW b \in Range(pack.sources),
           NEW a \in Range(hits.memories) \union Range(hits.documents),
           Ahead(hits.memories, hits.documents, a, b),
           ~Beyond(hits.memories, hits.documents, a)
    PROVE  a \in Range(pack.sources)
<1>1. pack.sources \in Seq(Facts \union Papers)
  BY DEF PackInv, Keeps
<1>2. PICK n \in 1..Len(pack.sources) : pack.sources[n] = b
  BY <1>1, RangeOfList
<1>3. CASE a # b
  <2>1. PICK m \in 1..(n - 1) : pack.sources[m] = a
    BY <1>2, <1>3 DEF PackInv, Keeps
  <2>2. m \in 1..Len(pack.sources)
    BY <1>1, <1>2
  <2>3. QED BY <1>1, <2>1, <2>2, RangeOfList
<1>4. QED BY <1>3

\* Every source has been ranked and does not exceed its limit.
LEMMA PackWithin ==
    ASSUME PackInv, NEW b \in Range(pack.sources)
    PROVE  /\ b \in Range(hits.memories) \union Range(hits.documents)
           /\ ~Beyond(hits.memories, hits.documents, b)
<1>1. pack.sources \in Seq(Facts \union Papers)
  BY DEF PackInv, Keeps
<1>2. PICK n \in 1..Len(pack.sources) : pack.sources[n] = b
  BY <1>1, RangeOfList
<1>3. QED BY <1>2 DEF PackInv, Keeps

\* A document that is better in every signal is kept with the one it beats.
LEMMA PackKeepsBetter ==
    ASSUME Asked, HitsInv, PackInv, NEW p \in hits.better, p[2] \in Range(pack.sources)
    PROVE  p[1] \in Range(pack.sources)
<1>1. PICK mems \in Seq(Facts), docs \in Seq(Papers) : mems = hits.memories /\ docs = hits.documents
  BY DEF HitsInv
<1>2. TwoLists(mems, docs)
  BY <1>1, HitsBound
<1>3. p[1] \in Papers /\ p[2] \in Papers /\ p[1] \notin Facts /\ p[2] \notin Facts
  BY ItemAssumption DEF HitsInv, ItemAssumption
<1>4. p[2] \in Range(docs) /\ ~Beyond(mems, docs, p[2])
  <2>1. p[2] \in Range(mems) \union Range(docs) /\ ~Beyond(mems, docs, p[2])
    BY <1>1, PackWithin
  <2>2. p[2] \notin Range(mems)
    BY <1>3, RangeOfList
  <2>3. QED BY <2>1, <2>2
<1>5. p[1] \in Range(docs) /\ RankIn(docs, p[1]) < RankIn(docs, p[2])
  BY <1>1, <1>4 DEF HitsInv
<1>6. PICK r \in Nat, q \in Nat :
          r = PlaceIn(mems, docs, p[1]) /\ q = PlaceIn(mems, docs, p[2]) /\ r < q
  <2>1. RankIn(docs, p[1]) \in 1..Len(docs) /\ RankIn(docs, p[2]) \in 1..Len(docs)
    BY <1>4, <1>5, RankOf
  <2>2. RankIn(docs, p[1]) \in Nat /\ RankIn(docs, p[2]) \in Nat
    BY <2>1
  <2>3. QED BY <1>3, <1>5, <2>2 DEF PlaceIn
<1>7. Ahead(mems, docs, p[1], p[2])
  BY <1>6 DEF Ahead
<1>8. PICK limit \in Nat : limit = request.documents
  BY RequestAssumption DEF RequestAssumption, Asked
<1>9. ~ (q > limit)
  BY <1>3, <1>4, <1>6, <1>8 DEF Beyond
<1>10. ~Beyond(mems, docs, p[1])
  BY <1>3, <1>6, <1>8, <1>9 DEF Beyond
<1>11. QED BY <1>1, <1>5, <1>7, <1>10, PackRanks

\* Whatever is dropped from a packet ranks below what stays, for any signals,
\* weights and limits, and the finished packet fits its budget as it is sent.
THEOREM PackIsRanked == Spec => []PackKeepsRanking
<1>1. Init => Asked /\ HitsInv /\ PackInv
  BY PacketsStart, AskedStart, NoHitsYet, PackStart DEF PacketInit
<1>2. Asked /\ HitsInv /\ PackInv /\ [Next]_vars => (Asked /\ HitsInv /\ PackInv)'
  BY PacketsPart, AskedStep, HitsStep, PackStep
<1>3. Asked /\ HitsInv /\ PackInv => PackKeepsRanking
  <2> SUFFICES ASSUME Asked, HitsInv, PackInv PROVE PackKeepsRanking
    OBVIOUS
  <2>1. PICK mems, docs : mems = hits.memories /\ docs = hits.documents
    OBVIOUS
  <2>2. ASSUME NEW a \in Range(mems) \union Range(docs), NEW b \in Range(pack.sources),
               Ahead(mems, docs, a, b)
        PROVE  a \in Range(pack.sources) \/ Beyond(mems, docs, a)
    BY <2>1, <2>2, PackRanks
  <2>3. \A p \in hits.better : p[2] \in Range(pack.sources) => p[1] \in Range(pack.sources)
    BY PackKeepsBetter
  <2>4. stage \notin {"recall", "pack"} =>
            /\ pack.estimate = Tokens(PackChars(pack.sources) + Digits(pack.estimate))
            /\ pack.estimate <= request.budget \/ pack.sources = <<>>
    BY PackFits
  <2>5. QED BY <2>1, <2>2, <2>3, <2>4 DEF PackKeepsRanking, Ahead, Beyond, PlaceIn
<1>4. QED BY <1>1, <1>2, <1>3, PTL DEF Spec

-----------------------------------------------------------------------------
(* The draft *)

LEMMA FrontOfPrefix ==
    ASSUME NEW T, NEW s \in Seq(T), NEW m \in 1..Len(s)
    PROVE  SubSeq(s, 1, m) # <<>> /\ Front(SubSeq(s, 1, m)) = SubSeq(s, 1, m - 1)
<1>1. m \in 0..Len(s) /\ m - 1 \in 0..Len(s) /\ m \in Nat \ {0}
      /\ \A n \in 1..(m - 1) : n \in 1..m
  OBVIOUS
<1>2. PICK p : p = SubSeq(s, 1, m)
  OBVIOUS
<1>3. PICK q : q = SubSeq(s, 1, m - 1)
  OBVIOUS
<1>4. p \in Seq(T) /\ Len(p) = m /\ \A n \in 1..m : p[n] = s[n]
  BY <1>1, <1>2, PrefixOf
<1>5. q \in Seq(T) /\ Len(q) = m - 1 /\ \A n \in 1..(m - 1) : q[n] = s[n]
  BY <1>1, <1>3, PrefixOf
<1>6. p # <<>>
  BY <1>1, <1>4
<1>7. PICK r : r = Front(p)
  OBVIOUS
<1>8. r \in Seq(T) /\ Len(r) = m - 1 /\ \A n \in 1..(m - 1) : r[n] = p[n]
  <2>1. /\ Front(p) \in Seq(T) /\ Len(Front(p)) = Len(p) - 1
        /\ \A n \in 1..(Len(p) - 1) : Front(p)[n] = p[n]
    BY <1>4, <1>6, FrontOf
  <2>2. QED BY <1>4, <1>7, <2>1
<1>9. \A n \in 1..(m - 1) : r[n] = q[n]
  BY <1>1, <1>4, <1>5, <1>8
<1>10. r = q
  BY <1>5, <1>8, <1>9
<1>11. QED BY <1>2, <1>3, <1>6, <1>7, <1>10

LEMMA WholePrefix ==
    ASSUME NEW T, NEW s \in Seq(T) PROVE SubSeq(s, 1, Len(s)) = s
<1>1. Len(s) \in 0..Len(s)
  OBVIOUS
<1>2. PICK p : p = SubSeq(s, 1, Len(s))
  OBVIOUS
<1>3. p \in Seq(T) /\ Len(p) = Len(s) /\ \A n \in 1..Len(s) : p[n] = s[n]
  BY <1>1, <1>2, PrefixOf
<1>4. p = s
  BY <1>3
<1>5. QED BY <1>2, <1>4

\* What finitely many items note is finitely many notes.
LEMMA OfFinite ==
    ASSUME NEW T, NEW field, \A item \in T : IsFiniteSet(field[item]), NEW s \in Seq(T)
    PROVE  IsFiniteSet(Of(field, s))
<1>1. DOMAIN s = 1..Len(s) /\ Len(s) \in Nat
  BY RangeOfList
<1>2. IsFiniteSet(1..Len(s))
  BY <1>1, FS_Interval
<1>3. PICK f : f = [n \in 1..Len(s) |-> field[s[n]]]
  OBVIOUS
<1>4. IsFiniteSet({f[n] : n \in 1..Len(s)})
  BY <1>2, <1>3, FiniteImage
<1>5. \A n \in 1..Len(s) : IsFiniteSet(f[n])
  BY <1>3
<1>6. IsFiniteSet(UNION {f[n] : n \in 1..Len(s)})
  BY <1>4, <1>5, FS_UNION
<1>7. Of(field, s) = UNION {f[n] : n \in 1..Len(s)}
  BY <1>1, <1>3 DEF Of
<1>8. QED BY <1>6, <1>7

LEMMA NotedType ==
    ASSUME BriefInv, PackInv
    PROVE  Noted(EditPoints) \in Nat /\ Noted(Risks) \in Nat
<1>1. brief.documents \in Seq(Cards) /\ pack.sources \in Seq(Facts \union Papers)
  BY DEF BriefInv, PackInv, Keeps
<1>2. PICK p : p = Picked(pack.sources, Papers)
  OBVIOUS
<1>3. p \in Seq(Papers)
  <2>1. p \in Seq(Facts \union Papers) /\ \A k \in 1..Len(p) : p[k] \in Papers
    BY <1>1, <1>2, PickedFacts
  <2>2. QED BY <2>1
<1>4. ASSUME NEW field, \A item \in Papers \union Cards : IsFiniteSet(field[item])
      PROVE  Noted(field) \in Nat
  <2>1. IsFiniteSet(Of(field, brief.documents))
    BY <1>1, <1>4, OfFinite
  <2>2. IsFiniteSet(Of(field, p))
    BY <1>3, <1>4, OfFinite
  <2>3. Cardinality(Of(field, brief.documents)) \in Nat /\ Cardinality(Of(field, p)) \in Nat
    BY <2>1, <2>2, FS_CardinalityType
  <2>4. QED BY <1>2, <2>3 DEF Noted
<1>5. QED BY <1>4, TieAssumption DEF TieAssumption

\* The receipts of the brief and then, apart from them, those of the memories.
LEMMA ReceiptsOf ==
    ASSUME BriefInv, PackInv
    PROVE  /\ brief.sources \in Seq(Cards \union Sections) /\ IsInjective(brief.sources)
           /\ Picked(pack.sources, Facts) \in Seq(Facts) /\ IsInjective(Picked(pack.sources, Facts))
           /\ Receipts \in Seq(Facts \union Cards \union Sections) /\ IsInjective(Receipts)
           /\ Len(Receipts) = Len(brief.sources) + Len(Picked(pack.sources, Facts))
           /\ \A n \in 1..Len(brief.sources) : Receipts[n] = brief.sources[n]
<1>1. PICK T : T = Cards \union Sections
  OBVIOUS
<1>2. brief.sources \in Seq(T) /\ IsInjective(brief.sources)
  <2>1. PICK docs \in Seq(Cards), parts \in Seq(Sections) :
            /\ docs = brief.documents /\ parts = brief.sections /\ brief.sources = docs \o parts
            /\ IsInjective(docs) /\ IsInjective(parts)
    BY DEF BriefInv
  <2>2. Cards \intersect Sections = {}
    BY ItemAssumption DEF ItemAssumption
  <2>3. docs \o parts \in Seq(Cards \union Sections)
    BY ConcatOf
  <2>4. IsInjective(docs \o parts)
    BY <2>1, <2>2, ConcatInjective
  <2>5. QED BY <1>1, <2>1, <2>3, <2>4
<1>3. pack.sources \in Seq(Facts \union Papers) /\ IsInjective(pack.sources)
  BY DEF PackInv, Keeps
<1>4. PICK p : p = Picked(pack.sources, Facts)
  OBVIOUS
<1>5. p \in Seq(Facts) /\ IsInjective(p)
  <2>1. p \in Seq(Facts \union Papers) /\ \A k \in 1..Len(p) : p[k] \in Facts
    BY <1>3, <1>4, PickedFacts
  <2>2. IsInjective(p)
    BY <1>3, <1>4, PickedInjective
  <2>3. QED BY <2>1, <2>2
<1>6. PICK s : s = brief.sources
  OBVIOUS
<1>7. Receipts = s \o p
  BY <1>4, <1>6 DEF Receipts
<1>8. T \intersect Facts = {}
  BY <1>1, ItemAssumption DEF ItemAssumption
<1>9. s \in Seq(T) /\ IsInjective(s)
  BY <1>2, <1>6
<1>10. /\ s \o p \in Seq(T \union Facts) /\ Len(s \o p) = Len(s) + Len(p)
       /\ \A n \in 1..Len(s) : (s \o p)[n] = s[n]
  BY <1>5, <1>9, ConcatOf
<1>11. IsInjective(s \o p)
  BY <1>5, <1>8, <1>9, ConcatInjective
<1>12. T \union Facts = Facts \union Cards \union Sections
  BY <1>1
<1>13. QED BY <1>1, <1>2, <1>4, <1>5, <1>6, <1>7, <1>10, <1>11, <1>12

\* What is left of the notes: at least one, if there were any.
NotesLeft(n, field) == n \in 0..Noted(field) /\ (n = 0 => Noted(field) = 0)

\* The draft has the first receipts, as many as have not been removed, and what
\* is left of the edit points and risks.
DraftInv ==
    /\ DOMAIN draft = DOMAIN NoDraft
    /\ stage \in {"draft", "drafted", "refused"} =>
           /\ draft.removed \in 0..Len(Receipts)
           /\ draft.evidence = SubSeq(Receipts, 1, Len(Receipts) - draft.removed)
           /\ NotesLeft(draft.points, EditPoints) /\ NotesLeft(draft.risks, Risks)
    /\ stage \notin {"draft", "drafted", "refused"} => draft = NoDraft
    /\ stage = "refused" =>
           DraftTooLong /\ draft.evidence = <<>> /\ draft.points <= 1 /\ draft.risks <= 1

LEMMA DraftStart == draft = NoDraft /\ stage = "recall" => DraftInv
BY DEF DraftInv

LEMMA EmptyDraft == (draft = NoDraft /\ stage = "recall")' => DraftInv'
BY DraftStart, PTL

\* A draft of the same packet and brief.
LEMMA DraftMade ==
    ASSUME UNCHANGED <<pack, brief>>, stage' \in {"draft", "drafted"},
           DOMAIN draft' = {"evidence", "points", "risks", "removed"},
           draft'.removed \in 0..Len(Receipts),
           draft'.evidence = SubSeq(Receipts, 1, Len(Receipts) - draft'.removed),
           NotesLeft(draft'.points, EditPoints), NotesLeft(draft'.risks, Risks)
    PROVE  DraftInv'
<1>1. /\ Receipts' = Receipts
      /\ NotesLeft(draft.points, EditPoints)' /\ NotesLeft(draft.risks, Risks)'
  BY DEF Receipts, NotesLeft, Noted
<1>2. DOMAIN NoDraft = {"evidence", "points", "risks", "removed"}
  BY DEF NoDraft
<1>3. QED BY <1>1, <1>2 DEF DraftInv

LEMMA BriefReadyDrafts ==
    ASSUME BriefInv, PackInv, BriefReady PROVE DraftInv'
<1>1. /\ draft' = [evidence |-> Receipts, points |-> Noted(EditPoints),
                   risks |-> Noted(Risks), removed |-> 0]
      /\ stage' = "draft" /\ UNCHANGED <<pack, brief>>
  BY DEF BriefReady
<1>2. Receipts \in Seq(Facts \union Cards \union Sections)
  BY ReceiptsOf
<1>3. PICK k \in Nat : k = Len(Receipts)
  BY <1>2
<1>4. SubSeq(Receipts, 1, Len(Receipts) - 0) = Receipts /\ 0 \in 0..Len(Receipts)
  <2>1. SubSeq(Receipts, 1, Len(Receipts)) = Receipts
    BY <1>2, WholePrefix
  <2>2. Len(Receipts) - 0 = Len(Receipts) /\ 0 \in 0..Len(Receipts)
    BY <1>3
  <2>3. QED BY <2>1, <2>2
<1>5. NotesLeft(Noted(EditPoints), EditPoints) /\ NotesLeft(Noted(Risks), Risks)
  <2>1. PICK p \in Nat, r \in Nat : p = Noted(EditPoints) /\ r = Noted(Risks)
    BY NotedType
  <2>2. p \in 0..p /\ r \in 0..r
    OBVIOUS
  <2>3. QED BY <2>1, <2>2 DEF NotesLeft
<1>6. /\ DOMAIN draft' = {"evidence", "points", "risks", "removed"}
      /\ draft'.evidence = Receipts /\ draft'.removed = 0
      /\ draft'.points = Noted(EditPoints) /\ draft'.risks = Noted(Risks)
  BY <1>1
<1>7. QED BY <1>1, <1>4, <1>5, <1>6, DraftMade

\* What a draft is made of, while it is drafted.
LEMMA DraftParts ==
    ASSUME DraftInv, stage = "draft"
    PROVE  /\ DOMAIN draft = {"evidence", "points", "risks", "removed"}
           /\ draft.removed \in 0..Len(Receipts)
           /\ draft.evidence = SubSeq(Receipts, 1, Len(Receipts) - draft.removed)
           /\ NotesLeft(draft.points, EditPoints) /\ NotesLeft(draft.risks, Risks)
BY DEF DraftInv, NoDraft

LEMMA DropEvidenceDrafts ==
    ASSUME BriefInv, PackInv, DraftInv, DropEvidence PROVE DraftInv'
<1>1. /\ stage = "draft" /\ stage' = "draft" /\ UNCHANGED <<pack, brief>>
      /\ draft.evidence # <<>>
      /\ draft' = [draft EXCEPT !.evidence = Front(@), !.removed = @ + 1]
  BY DEF DropEvidence, Drafting
<1>2. /\ DOMAIN draft = {"evidence", "points", "risks", "removed"}
      /\ draft.removed \in 0..Len(Receipts)
      /\ draft.evidence = SubSeq(Receipts, 1, Len(Receipts) - draft.removed)
      /\ NotesLeft(draft.points, EditPoints) /\ NotesLeft(draft.risks, Risks)
  BY <1>1, DraftParts
<1>3. PICK T : T = Facts \union Cards \union Sections
  OBVIOUS
<1>4. PICK s \in Seq(T) : s = Receipts
  BY <1>3, ReceiptsOf
<1>5. PICK gone \in 0..Len(s) : gone = draft.removed
  BY <1>2, <1>4
<1>6. PICK m \in 0..Len(s) : m = Len(s) - gone
  OBVIOUS
<1>7. draft.evidence = SubSeq(s, 1, m)
  BY <1>2, <1>4, <1>5, <1>6
<1>8. m # 0
  <2>1. SubSeq(s, 1, 0) = <<>>
    OBVIOUS
  <2>2. QED BY <1>1, <1>7, <2>1
<1>9. m \in 1..Len(s) /\ gone + 1 \in 0..Len(s) /\ Len(s) - (gone + 1) = m - 1
  BY <1>6, <1>8
<1>10. Front(draft.evidence) = SubSeq(s, 1, m - 1)
  BY <1>7, <1>9, FrontOfPrefix
<1>11. /\ DOMAIN draft' = {"evidence", "points", "risks", "removed"}
       /\ draft'.evidence = Front(draft.evidence) /\ draft'.removed = draft.removed + 1
       /\ draft'.points = draft.points /\ draft'.risks = draft.risks
  BY <1>1, <1>2
<1>12. /\ draft'.removed \in 0..Len(Receipts)
       /\ draft'.evidence = SubSeq(Receipts, 1, Len(Receipts) - draft'.removed)
  BY <1>4, <1>5, <1>9, <1>10, <1>11
<1>13. QED BY <1>1, <1>2, <1>11, <1>12, DraftMade

LEMMA DropNoteDrafts ==
    ASSUME BriefInv, PackInv, DraftInv, DropPoint \/ DropRisk PROVE DraftInv'
<1>1. /\ stage = "draft" /\ stage' = "draft" /\ UNCHANGED <<pack, brief>>
      /\ \/ draft.points > 1 /\ draft' = [draft EXCEPT !.points = @ - 1]
         \/ draft.risks > 1 /\ draft' = [draft EXCEPT !.risks = @ - 1]
  BY DEF DropPoint, DropRisk, Drafting
<1>2. /\ DOMAIN draft = {"evidence", "points", "risks", "removed"}
      /\ draft.removed \in 0..Len(Receipts)
      /\ draft.evidence = SubSeq(Receipts, 1, Len(Receipts) - draft.removed)
      /\ NotesLeft(draft.points, EditPoints) /\ NotesLeft(draft.risks, Risks)
  BY <1>1, DraftParts
<1>3. ASSUME NEW n, NEW field, Noted(field) \in Nat, NotesLeft(n, field), n > 1
      PROVE  NotesLeft(n - 1, field)
  <2>1. PICK k \in Nat : k = Noted(field)
    BY <1>3
  <2>2. n \in 0..k /\ n > 1
    BY <1>3, <2>1 DEF NotesLeft
  <2>3. n - 1 \in 0..k /\ n - 1 # 0
    BY <2>2
  <2>4. QED BY <2>1, <2>3 DEF NotesLeft
<1>4. Noted(EditPoints) \in Nat /\ Noted(Risks) \in Nat
  BY NotedType
<1>5. CASE draft.points > 1 /\ draft' = [draft EXCEPT !.points = @ - 1]
  <2>1. /\ DOMAIN draft' = {"evidence", "points", "risks", "removed"}
        /\ draft'.evidence = draft.evidence /\ draft'.removed = draft.removed
        /\ draft'.points = draft.points - 1 /\ draft'.risks = draft.risks
    BY <1>2, <1>5
  <2>2. NotesLeft(draft'.points, EditPoints)
    BY <1>2, <1>3, <1>4, <1>5, <2>1
  <2>3. QED BY <1>1, <1>2, <2>1, <2>2, DraftMade
<1>6. CASE draft.risks > 1 /\ draft' = [draft EXCEPT !.risks = @ - 1]
  <2>1. /\ DOMAIN draft' = {"evidence", "points", "risks", "removed"}
        /\ draft'.evidence = draft.evidence /\ draft'.removed = draft.removed
        /\ draft'.points = draft.points /\ draft'.risks = draft.risks - 1
    BY <1>2, <1>6
  <2>2. NotesLeft(draft'.risks, Risks)
    BY <1>2, <1>3, <1>4, <1>6, <2>1
  <2>3. QED BY <1>1, <1>2, <2>1, <2>2, DraftMade
<1>7. QED BY <1>1, <1>5, <1>6

LEMMA RefuseDrafts ==
    ASSUME DraftInv, Refuse PROVE DraftInv'
<1>1. /\ stage = "draft" /\ stage' = "refused" /\ UNCHANGED <<request, pack, brief, draft>>
      /\ DraftTooLong /\ draft.evidence = <<>> /\ draft.points <= 1 /\ draft.risks <= 1
  BY DEF Refuse, Drafting
<1>2. Receipts' = Receipts /\ NotesLeft(draft.points, EditPoints)' /\ NotesLeft(draft.risks, Risks)'
  BY <1>1, DraftParts DEF Receipts, NotesLeft, Noted
<1>3. DraftTooLong'
  BY <1>1 DEF DraftTooLong, DraftTokens, BriefChars
<1>4. QED BY <1>1, <1>2, <1>3 DEF DraftInv

LEMMA DraftKept ==
    ASSUME DraftInv, UNCHANGED <<request, pack, brief, draft, stage>> PROVE DraftInv'
<1>1. Receipts' = Receipts
  BY DEF Receipts
<1>2. /\ NotesLeft(draft.points, EditPoints)' <=> NotesLeft(draft.points, EditPoints)
      /\ NotesLeft(draft.risks, Risks)' <=> NotesLeft(draft.risks, Risks)
  BY DEF NotesLeft, Noted
<1>3. DraftTooLong' <=> DraftTooLong
  BY DEF DraftTooLong, DraftTokens, BriefChars
<1>4. QED BY <1>1, <1>2, <1>3 DEF DraftInv

LEMMA NoDraftYet ==
    ASSUME DraftInv, stage \notin {"draft", "drafted", "refused"},
           UNCHANGED draft, stage' \notin {"draft", "drafted", "refused"}
    PROVE  DraftInv'
BY DEF DraftInv, NoDraft

LEMMA DraftStep == BriefInv /\ PackInv /\ DraftInv /\ [PacketNext]_packetVars => DraftInv'
<1> SUFFICES ASSUME BriefInv, PackInv, DraftInv, [PacketNext]_packetVars PROVE DraftInv'
  OBVIOUS
<1>1. CASE UNCHANGED packetVars
  BY <1>1, DraftKept DEF packetVars
<1>2. CASE RankAndSelect \/ DropSource \/ PackReady
  BY <1>2, NoDraftYet DEF RankAndSelect, DropSource, PackReady
<1>3. CASE RankCards \/ NothingToBrief \/ DropSection \/ DropCard
  BY <1>3, NoDraftYet DEF RankCards, NothingToBrief, DropSection, DropCard
<1>4. CASE BriefReady
  BY <1>4, BriefReadyDrafts
<1>5. CASE DropEvidence
  BY <1>5, DropEvidenceDrafts
<1>6. CASE DropPoint \/ DropRisk
  BY <1>6, DropNoteDrafts
<1>7. CASE Refuse
  BY <1>7, RefuseDrafts
<1>8. CASE InsertDraft
  <2>1. /\ stage = "draft" /\ stage' = "drafted" /\ UNCHANGED <<pack, brief, draft>>
    BY <1>8 DEF InsertDraft, Drafting
  <2>2. QED BY <2>1, DraftParts, DraftMade
<1>9. CASE NextRequest
  BY <1>9, EmptyDraft DEF NextRequest
<1>10. QED BY <1>1, <1>2, <1>3, <1>4, <1>5, <1>6, <1>7, <1>8, <1>9 DEF PacketNext

\* What the packet could not take is all it omits.
LEMMA PackOmits ==
    ASSUME PackInv, stage # "recall"
    PROVE  /\ Cardinality(Facts) \in Nat /\ Cardinality(Papers) \in Nat
           /\ pack.omitted \in Nat /\ Len(pack.sources) \in Nat
           /\ pack.omitted + Len(pack.sources) = Cardinality(Facts) + Cardinality(Papers)
<1>1. PICK s : s = pack.sources
  OBVIOUS
<1>2. PICK T : T = Facts \union Papers
  OBVIOUS
<1>3. s \in Seq(T) /\ IsInjective(s) /\ pack = Packed(s)
  BY <1>1, <1>2 DEF PackInv, Keeps
<1>4. /\ IsFiniteSet(Facts) /\ IsFiniteSet(Papers) /\ Facts \intersect Papers = {}
      /\ Cardinality({}) = 0
  BY ItemAssumption, FS_EmptySet DEF ItemAssumption
<1>5. PICK f \in Nat, p \in Nat : f = Cardinality(Facts) /\ p = Cardinality(Papers)
  BY <1>4, FS_CardinalityType
<1>6. IsFiniteSet(T) /\ Cardinality(T) = f + p
  <2>1. Cardinality(Facts \union Papers)
            = Cardinality(Facts) + Cardinality(Papers) - Cardinality(Facts \intersect Papers)
    BY <1>4, FS_Union
  <2>2. IsFiniteSet(Facts \union Papers)
    BY <1>4, FS_Union
  <2>3. Cardinality(Facts \intersect Papers) = 0
    BY <1>4
  <2>4. Cardinality(Facts \union Papers) = f + p - 0
    BY <1>5, <2>1, <2>3
  <2>5. f + p - 0 = f + p
    OBVIOUS
  <2>6. QED BY <1>2, <2>2, <2>4, <2>5
<1>7. PICK n \in Nat : n = Len(s) /\ n <= f + p
  <2>1. Len(s) <= Cardinality(T) /\ Len(s) \in Nat
    BY <1>3, <1>6, LengthBound
  <2>2. QED BY <1>6, <2>1
<1>8. pack.omitted = Max({0, f + p - n})
  BY <1>3, <1>5, <1>7 DEF Packed
<1>9. f + p - n \in Nat
  BY <1>7
<1>10. Max({0, f + p - n}) = f + p - n
  BY <1>9, MaxOfTwo
<1>11. QED BY <1>1, <1>5, <1>7, <1>8, <1>9, <1>10

\* Evidence, what is omitted and the documents of the packet are all there was.
LEMMA DraftCounts ==
    ASSUME BriefInv, PackInv, DraftInv, stage = "drafted"
    PROVE  Len(draft.evidence) + OmittedCandidates + Len(Picked(pack.sources, Papers))
               = Cardinality(Facts) + Cardinality(Papers) + brief.candidates
<1>1. /\ draft.removed \in 0..Len(Receipts)
      /\ draft.evidence = SubSeq(Receipts, 1, Len(Receipts) - draft.removed)
  BY DEF DraftInv
<1>2. /\ Receipts \in Seq(Facts \union Cards \union Sections)
      /\ brief.sources \in Seq(Cards \union Sections)
      /\ Len(Receipts) = Len(brief.sources) + Len(Picked(pack.sources, Facts))
  BY ReceiptsOf
<1>3. PICK total \in Nat : total = Len(Receipts)
  <2>1. PICK r : r = Receipts
    OBVIOUS
  <2>2. r \in Seq(Facts \union Cards \union Sections)
    BY <1>2, <2>1
  <2>3. Len(r) \in Nat
    BY <2>2
  <2>4. QED BY <2>1, <2>3
<1>4. PICK gone \in 0..total : gone = draft.removed
  BY <1>1, <1>3
<1>5. Len(draft.evidence) = total - gone
  <2>1. total - gone \in 0..Len(Receipts)
    BY <1>3
  <2>2. PICK r : r = Receipts
    OBVIOUS
  <2>3. draft.evidence = SubSeq(r, 1, total - gone) /\ r \in Seq(Facts \union Cards \union Sections)
        /\ total - gone \in 0..Len(r)
    BY <1>1, <1>2, <1>3, <1>4, <2>1, <2>2
  <2>4. QED BY <2>3, PrefixOf
<1>6. PICK n \in Nat : n = Len(brief.sources)
  BY <1>2
<1>7. PICK b \in Nat, c \in Nat : b = brief.omitted /\ c = brief.candidates /\ b + n = c
  BY <1>6 DEF BriefInv
<1>8. PICK p \in Nat, q \in Nat :
          /\ p = Len(Picked(pack.sources, Facts)) /\ q = Len(Picked(pack.sources, Papers))
          /\ p + q = Len(pack.sources)
  <2>1. pack.sources \in Seq(Facts \union Papers) /\ Facts \intersect Papers = {}
    BY ItemAssumption DEF ItemAssumption, PackInv, Keeps
  <2>2. Len(Picked(pack.sources, Facts)) + Len(Picked(pack.sources, Papers)) = Len(pack.sources)
    BY <2>1, PickedSplit
  <2>3. Picked(pack.sources, Facts) \in Seq(Facts \union Papers)
        /\ Picked(pack.sources, Papers) \in Seq(Facts \union Papers)
    BY <2>1, PickedFacts
  <2>4. QED BY <2>2, <2>3
<1>9. PICK o \in Nat, f \in Nat, g \in Nat :
          /\ o = pack.omitted /\ f = Cardinality(Facts) /\ g = Cardinality(Papers)
          /\ o + (p + q) = f + g
  BY <1>8, PackOmits
<1>10. total = n + p
  BY <1>2, <1>3, <1>6, <1>8
<1>11. OmittedCandidates = o + b + gone
  BY <1>4, <1>7, <1>9 DEF OmittedCandidates
<1>12. (total - gone) + (o + b + gone) + q = f + g + c
  BY <1>7, <1>9, <1>10
<1>13. QED BY <1>5, <1>7, <1>8, <1>9, <1>11, <1>12

\* As long as the receipt of a memory is there, the brief's are all there.
LEMMA BriefOutlasts ==
    ASSUME BriefInv, PackInv, DraftInv, stage = "drafted",
           Range(draft.evidence) \intersect Facts # {}
    PROVE  Range(brief.sources) \subseteq Range(draft.evidence)
<1>1. PICK T : T = Facts \union Cards \union Sections
  OBVIOUS
<1>2. PICK r \in Seq(T) : r = Receipts
  BY <1>1, ReceiptsOf
<1>3. PICK s \in Seq(Cards \union Sections) :
          s = brief.sources /\ Len(s) <= Len(r) /\ \A n \in 1..Len(s) : r[n] = s[n]
  <2>1. /\ brief.sources \in Seq(Cards \union Sections)
        /\ Picked(pack.sources, Facts) \in Seq(Facts)
        /\ Len(r) = Len(brief.sources) + Len(Picked(pack.sources, Facts))
        /\ \A n \in 1..Len(brief.sources) : r[n] = brief.sources[n]
    BY <1>2, ReceiptsOf
  <2>2. Len(brief.sources) <= Len(r)
    <3>1. PICK k \in Nat : k = Len(brief.sources)
      BY <2>1
    <3>2. PICK l \in Nat : l = Len(Picked(pack.sources, Facts))
      BY <2>1
    <3>3. Len(r) = k + l
      BY <2>1, <3>1, <3>2
    <3>4. QED BY <3>1, <3>3
  <2>3. QED BY <2>1, <2>2
<1>4. PICK m \in 0..Len(r) : draft.evidence = SubSeq(r, 1, m)
  <2>1. draft.removed \in 0..Len(r) /\ draft.evidence = SubSeq(r, 1, Len(r) - draft.removed)
    BY <1>2 DEF DraftInv
  <2>2. Len(r) - draft.removed \in 0..Len(r)
    BY <2>1
  <2>3. QED BY <2>1, <2>2
<1>5. PICK e : e = draft.evidence
  OBVIOUS
<1>6. e \in Seq(T) /\ Len(e) = m /\ \A n \in 1..m : e[n] = r[n] /\ n \in 1..Len(r)
  BY <1>4, <1>5, PrefixOf
<1>7. PICK n \in 1..m : e[n] \in Facts
  <2>1. PICK x \in Facts : x \in Range(e)
    BY <1>5
  <2>2. QED BY <1>6, <2>1, RangeOfList
<1>8. Len(s) < n
  <2> SUFFICES ASSUME ~ (Len(s) < n) PROVE FALSE
    OBVIOUS
  <2>1. n \in 1..Len(s)
    BY <1>3
  <2>2. e[n] = s[n] /\ s[n] \in Cards \union Sections
    BY <1>3, <1>6, <2>1
  <2>3. QED BY <1>7, <2>2, ItemAssumption DEF ItemAssumption
<1>9. \A k \in 1..Len(s) : k \in 1..m
  BY <1>3, <1>8
<1>10. ASSUME NEW x \in Range(s) PROVE x \in Range(e)
  <2>1. PICK k \in 1..Len(s) : s[k] = x
    BY RangeOfList
  <2>2. k \in 1..Len(e) /\ e[k] = x
    BY <1>3, <1>6, <1>9, <2>1
  <2>3. QED BY <1>6, <2>2, RangeOfList
<1>11. QED BY <1>3, <1>5, <1>10

\* A refused draft had nothing left to drop.
LEMMA RefusedIsBare ==
    ASSUME BriefInv, PackInv, DraftInv, stage = "refused"
    PROVE  DraftTokens([evidence |-> <<>>, points |-> Min({1, Noted(EditPoints)}),
                        risks |-> Min({1, Noted(Risks)}), removed |-> 0]) > request.budget
<1>1. /\ NotesLeft(draft.points, EditPoints) /\ NotesLeft(draft.risks, Risks)
      /\ DraftTooLong /\ draft.evidence = <<>> /\ draft.points <= 1 /\ draft.risks <= 1
  BY DEF DraftInv
<1>2. ASSUME NEW n, NEW field, Noted(field) \in Nat, NotesLeft(n, field), n <= 1
      PROVE  Min({1, Noted(field)}) = n
  <2>1. PICK k \in Nat : k = Noted(field)
    BY <1>2
  <2>2. n \in 0..k /\ (n = 0 => k = 0) /\ n <= 1
    BY <1>2, <2>1 DEF NotesLeft
  <2>3. Min({1, k}) = IF 1 <= k THEN 1 ELSE k
    BY MinOfTwo
  <2>4. QED BY <2>1, <2>2, <2>3
<1>3. Min({1, Noted(EditPoints)}) = draft.points /\ Min({1, Noted(Risks)}) = draft.risks
  BY <1>1, <1>2, NotedType
<1>4. PICK d : d = [evidence |-> <<>>, points |-> draft.points, risks |-> draft.risks, removed |-> 0]
  OBVIOUS
<1>5. d.evidence = draft.evidence /\ d.points = draft.points /\ d.risks = draft.risks
  BY <1>1, <1>4
<1>6. DraftTokens(d) = DraftTokens(draft)
  BY <1>5 DEF DraftTokens
<1>7. QED BY <1>1, <1>3, <1>4, <1>6 DEF DraftTooLong

\* The invariants of the parts of a packet hold together.
LEMMA PacketsHold == Spec => [](Asked /\ HitsInv /\ PackInv /\ BriefInv /\ DraftInv)
<1>1. Init => Asked /\ HitsInv /\ PackInv /\ BriefInv /\ DraftInv
  BY PacketsStart, AskedStart, NoHitsYet, PackStart, BriefStart, DraftStart DEF PacketInit
<1>2. Asked /\ HitsInv /\ PackInv /\ BriefInv /\ DraftInv /\ [Next]_vars
          => (Asked /\ HitsInv /\ PackInv /\ BriefInv /\ DraftInv)'
  BY PacketsPart, AskedStep, HitsStep, PackStep, BriefStep, DraftStep
<1>3. QED BY <1>1, <1>2, PTL DEF Spec

\* Every memory, card and section found is evidence of a draft or counted as
\* omitted, the brief's receipts outlast the memories', and a draft is refused
\* only when it had nothing left to drop.
THEOREM DraftIsComplete == Spec => []DraftAccounts
<1>1. PackInv /\ BriefInv /\ DraftInv => DraftAccounts
  <2> SUFFICES ASSUME PackInv, BriefInv, DraftInv PROVE DraftAccounts
    OBVIOUS
  <2>1. stage = "drafted" =>
            (draft.points = 0 => Noted(EditPoints) = 0) /\ (draft.risks = 0 => Noted(Risks) = 0)
    BY DEF DraftInv, NotesLeft
  <2>2. stage = "drafted" =>
            /\ Len(draft.evidence) + OmittedCandidates + Len(Picked(pack.sources, Papers))
                   = Cardinality(Facts) + Cardinality(Papers) + brief.candidates
            /\ Range(draft.evidence) \intersect Facts # {} =>
                   Range(brief.sources) \subseteq Range(draft.evidence)
    BY DraftCounts, BriefOutlasts
  <2>3. QED BY <2>1, <2>2, RefusedIsBare DEF DraftAccounts
<1>2. QED BY <1>1, PacketsHold, PTL

-----------------------------------------------------------------------------
(* Types *)

\* Packets, briefs and drafts have their types, and none lists an item twice.
LEMMA PacketTypes ==
    ASSUME Asked, HitsInv, PackInv, BriefInv, DraftInv PROVE PacketTypeOK
<1>1. /\ Picked(pack.sources, Facts) \in Seq(Facts)
      /\ brief.sources \in Seq(Cards \union Sections) /\ IsInjective(brief.sources)
      /\ Receipts \in Seq(Facts \union Cards \union Sections) /\ IsInjective(Receipts)
  BY ReceiptsOf
<1>2. pack.sources \in Seq(Facts \union Papers) /\ IsInjective(pack.sources)
  BY DEF PackInv, Keeps
<1>3. pack.omitted \in Nat
  <2>1. CASE stage = "recall"
    BY <2>1 DEF PackInv, NoPack
  <2>2. CASE stage # "recall"
    BY <2>2, PackOmits
  <2>3. QED BY <2>1, <2>2
<1>4. /\ draft.evidence \in Seq(Facts \union Cards \union Sections) /\ IsInjective(draft.evidence)
      /\ {draft.removed, draft.points, draft.risks} \subseteq Nat
  <2>1. CASE stage \in {"draft", "drafted", "refused"}
    <3>1. PICK T : T = Facts \union Cards \union Sections
      OBVIOUS
    <3>2. PICK r \in Seq(T) : r = Receipts /\ IsInjective(r)
      BY <1>1, <3>1
    <3>3. /\ draft.removed \in 0..Len(r)
          /\ draft.evidence = SubSeq(r, 1, Len(r) - draft.removed)
          /\ NotesLeft(draft.points, EditPoints) /\ NotesLeft(draft.risks, Risks)
      BY <2>1, <3>2 DEF DraftInv
    <3>4. PICK m \in 0..Len(r) : m = Len(r) - draft.removed
      BY <3>3
    <3>5. SubSeq(r, 1, m) \in Seq(T) /\ IsInjective(SubSeq(r, 1, m))
      BY <3>2, PrefixOf
    <3>6. draft.points \in Nat /\ draft.risks \in Nat
      <4>1. PICK k \in Nat, l \in Nat : k = Noted(EditPoints) /\ l = Noted(Risks)
        BY NotedType
      <4>2. draft.points \in 0..k /\ draft.risks \in 0..l
        BY <3>3, <4>1 DEF NotesLeft
      <4>3. QED BY <4>2
    <3>7. draft.removed \in Nat
      BY <3>3
    <3>8. QED BY <3>1, <3>3, <3>4, <3>5, <3>6, <3>7
  <2>2. CASE stage \notin {"draft", "drafted", "refused"}
    <3>1. draft = NoDraft
      BY <2>2 DEF DraftInv
    <3>2. /\ draft.evidence = <<>> /\ draft.removed = 0 /\ draft.points = 0 /\ draft.risks = 0
      BY <3>1 DEF NoDraft
    <3>3. IsInjective(<<>>)
      BY DEF IsInjective
    <3>4. QED BY <3>2, <3>3
  <2>3. QED BY <2>1, <2>2
<1>5. brief.omitted \in Nat
  BY DEF BriefInv
<1>6. QED BY <1>1, <1>2, <1>3, <1>4, <1>5 DEF PacketTypeOK, Asked, HitsInv

\* Both stores, the index, the packets and the load of a workspace keep their
\* types, however the operations interleave.
THEOREM TypeCorrect == Spec => []TypeOK
<1>1. Asked /\ HitsInv /\ PackInv /\ BriefInv /\ DraftInv => PacketTypeOK
  BY PacketTypes
<1>2. RecallTypeOK /\ LoadTypeOK /\ PacketTypeOK => TypeOK
  BY DEF RecallTypeOK, TypeOK
<1>3. QED BY <1>1, <1>2, PacketsHold, StoreTypesCorrect, LoadTypesCorrect, PTL
=============================================================================

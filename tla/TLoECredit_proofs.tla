-------------------------- MODULE TLoECredit_proofs --------------------------
(***************************************************************************)
(* Credit is neither lost nor made, and tl_msg_buffer never overflows.      *)
(* Credit is spent by a frame when it is sent and gained when it is         *)
(* accepted; in between it lies in the part of the window that the peer     *)
(* has not accepted: frames sent go to its end, the frame accepted is its   *)
(* front, and sliding leaves it alone.  Near, Released and Awaited say what *)
(* this takes from the link; LinkInv gives it for an open connection, and   *)
(* TLoEConnection_proofs for one whose handshake has just been made.        *)
(***************************************************************************)
EXTENDS TLoEEndpoint_proofs

-----------------------------------------------------------------------------
(***************************************************************************)
(* Sums                                                                     *)
(***************************************************************************)
\* sum[n] is the sum of the first n numbers of s.
Sums(s, sum) ==
    /\ sum \in [0 .. Len(s) -> Nat]
    /\ sum[0] = 0
    /\ \A n \in 1 .. Len(s) : sum[n] = sum[n - 1] + s[n]

\* Every sequence has such sums: the shortest prefix without has one less.
LEMMA SumsExist ==
  ASSUME NEW s \in Seq(Nat)
  PROVE  \E sum : Sums(s, sum)
<1> DEFINE L == Len(s)
           SumsTo(k, sum) == /\ sum \in [0 .. k -> Nat] /\ sum[0] = 0
                             /\ \A n \in 1 .. k : sum[n] = sum[n - 1] + s[n]
           Missing == {k \in 0 .. L : ~ \E sum : SumsTo(k, sum)}
<1>1. L \in Nat /\ \A n \in 1 .. L : s[n] \in Nat
  BY LenProperties, ElementOfSeq
<1> HIDE DEF L
<1>2. ASSUME Missing # {} PROVE FALSE
  <2>1. PICK k \in Missing : \A j \in Missing : k <= j
    <3>1. Missing \subseteq Nat
      BY <1>1, SMT
    <3> HIDE DEF Missing
    <3> QED
      BY <1>2, <3>1, NatMin
  <2>2. k \in 0 .. L /\ ~ \E sum : SumsTo(k, sum)
    BY <2>1
  <2>3. k # 0
    <3> DEFINE none == [n \in 0 .. 0 |-> 0]
    <3>1. none \in [0 .. 0 -> Nat] /\ none[0] = 0
      BY SMT
    <3>2. 1 .. 0 = {}
      BY SMT
    <3> HIDE DEF none
    <3>3. SumsTo(0, none)
      BY <3>1, <3>2
    <3> QED
      BY <2>2, <3>3
  <2>4. k - 1 \in 0 .. L /\ k \in 1 .. L /\ ~ k <= k - 1
    BY <1>1, <2>2, <2>3, SMT
  <2>5. PICK sum : SumsTo(k - 1, sum)
    BY <2>1, <2>4
  <2> HIDE DEF Missing
  <2> DEFINE more == [n \in 0 .. k |-> IF n = k THEN sum[k - 1] + s[k] ELSE sum[n]]
  <2>6. /\ \A n \in 0 .. k : n = k \/ n \in 0 .. k - 1
        /\ \A n \in 0 .. k - 1 : n \in 0 .. k /\ n # k
        /\ \A n \in 1 .. k : n - 1 \in 0 .. k - 1 /\ (n = k \/ n \in 1 .. k - 1)
        /\ k \in 0 .. k /\ 0 \in 0 .. k - 1 /\ k - 1 \in 0 .. k - 1
    BY <1>1, <2>4, SMT
  <2>7. sum[k - 1] + s[k] \in Nat
    BY <1>1, <2>4, <2>5, <2>6, SMT
  <2>8. /\ more \in [0 .. k -> Nat]
        /\ more[k] = sum[k - 1] + s[k]
        /\ \A n \in 0 .. k - 1 : more[n] = sum[n]
    BY <2>5, <2>6, <2>7
  <2> HIDE DEF more
  <2>9. ASSUME NEW n \in 1 .. k PROVE more[n] = more[n - 1] + s[n]
    <3>1. more[n - 1] = sum[n - 1]
      BY <2>6, <2>8
    <3>2. CASE n = k
      BY <2>8, <3>1, <3>2
    <3>3. CASE n \in 1 .. k - 1
      <4>1. n \in 0 .. k - 1
        BY <3>3, SMT
      <4> QED
        BY <2>5, <2>8, <3>1, <3>3, <4>1
    <3> QED
      BY <2>6, <3>2, <3>3
  <2>10. SumsTo(k, more)
    BY <2>5, <2>6, <2>8, <2>9
  <2> QED
    BY <2>2, <2>10
<1>3. L \in 0 .. L
  BY <1>1, SMT
<1>4. \E sum : SumsTo(L, sum)
  BY <1>2, <1>3
<1> QED
  BY <1>4 DEF Sums, L

\* What the recursive function of SumSeq computes.
LEMMA SumIs ==
  ASSUME NEW s \in Seq(Nat), NEW sum, Sums(s, sum)
  PROVE  SumSeq(s) = sum[Len(s)] /\ SumSeq(s) \in Nat
<1> DEFINE L == Len(s)
           Step(f) == [n \in 0 .. L |-> IF n = 0 THEN 0 ELSE f[n - 1] + s[n]]
           g == CHOOSE f : f = Step(f)
<1>1. L \in Nat
  BY LenProperties
<1>2. SumSeq(s) = g[L]
  BY DEF SumSeq
<1> HIDE DEF L
<1>3. sum = Step(sum)
  <2>1. sum = [n \in 0 .. L |-> sum[n]]
    BY DEF Sums, L
  <2>2. \A n \in 0 .. L : sum[n] = IF n = 0 THEN 0 ELSE sum[n - 1] + s[n]
    <3>1. \A n \in 0 .. L : n = 0 \/ n \in 1 .. L
      BY <1>1, SMT
    <3> QED
      BY <3>1 DEF Sums, L
  <2> QED
    BY <2>1, <2>2
<1>4. g = Step(g)
  BY <1>3
<1>5. ASSUME {n \in 0 .. L : g[n] # sum[n]} # {} PROVE FALSE
  <2> DEFINE Wrong == {n \in 0 .. L : g[n] # sum[n]}
  <2> HIDE DEF g
  <2>1. PICK k \in Wrong : \A j \in Wrong : k <= j
    <3>1. Wrong \subseteq Nat
      BY <1>1, SMT
    <3> HIDE DEF Wrong
    <3> QED
      BY <1>5, <3>1, NatMin DEF Wrong
  <2>2. k \in 0 .. L /\ g[k] # sum[k]
    BY <2>1
  <2>3. g[k] = IF k = 0 THEN 0 ELSE g[k - 1] + s[k]
    BY <1>4, <2>2
  <2>4. sum[k] = IF k = 0 THEN 0 ELSE sum[k - 1] + s[k]
    BY <1>3, <2>2
  <2>5. k - 1 \in 0 .. L /\ k - 1 \notin Wrong
    <3>1. k # 0
      BY <2>2, <2>3, <2>4
    <3> QED
      BY <1>1, <2>1, <2>2, <3>1, SMT
  <2> QED
    BY <2>2, <2>3, <2>4, <2>5
<1>6. L \in 0 .. L
  BY <1>1, SMT
<1> HIDE DEF g
<1>7. g[L] = sum[L]
  BY <1>5, <1>6
<1> QED
  BY <1>2, <1>6, <1>7 DEF Sums, L

\* What a sequence of things weighs in which each x weighs w[x].
Weigh(w, s) == SumSeq([i \in 1 .. Len(s) |-> w[s[i]]])

\* sum[n] is what its first n elements weigh.
Weighs(w, s, sum) ==
    /\ sum \in [0 .. Len(s) -> Nat] /\ sum[0] = 0
    /\ \A n \in 1 .. Len(s) : sum[n] = sum[n - 1] + w[s[n]]

LEMMA WeighBy ==
  ASSUME NEW S, NEW w \in [S -> Nat], NEW s \in Seq(S)
  PROVE  /\ \E sum : Weighs(w, s, sum)
         /\ \A sum : Weighs(w, s, sum) => Weigh(w, s) = sum[Len(s)]
         /\ Weigh(w, s) \in Nat
<1> DEFINE v == [i \in 1 .. Len(s) |-> w[s[i]]]
<1>1. Len(s) \in Nat /\ \A i \in 1 .. Len(s) : s[i] \in S
  BY LenProperties, ElementOfSeq
<1>2. v \in Seq(Nat) /\ Len(v) = Len(s) /\ \A i \in 1 .. Len(s) : v[i] = w[s[i]]
  <2>1. v \in [1 .. Len(s) -> Nat]
    BY <1>1
  <2>2. v \in Seq(Nat)
    BY <1>1, <2>1, SeqDef
  <2> QED
    BY <1>1, <2>2, LenProperties
<1>3. Weigh(w, s) = SumSeq(v)
  BY DEF Weigh
<1> HIDE DEF v
<1>4. \A sum : Sums(v, sum) <=> Weighs(w, s, sum)
  BY <1>2 DEF Sums, Weighs
<1>5. PICK sum : Sums(v, sum)
  BY <1>2, SumsExist
<1>6. \A f : Sums(v, f) => SumSeq(v) = f[Len(v)] /\ SumSeq(v) \in Nat
  BY <1>2, SumIs
<1> QED
  BY <1>2, <1>3, <1>4, <1>5, <1>6

LEMMA WeighAppend ==
  ASSUME NEW S, NEW w \in [S -> Nat], NEW s \in Seq(S), NEW x \in S
  PROVE  Weigh(w, Append(s, x)) = Weigh(w, s) + w[x]
<1> DEFINE t == Append(s, x)
           L == Len(s)
<1>1. /\ t \in Seq(S) /\ Len(t) = L + 1 /\ L \in Nat /\ w[x] \in Nat
      /\ \A i \in 1 .. L : t[i] = s[i]
      /\ t[L + 1] = x
  BY AppendProperties, LenProperties
<1>2. PICK sum : Weighs(w, s, sum)
  BY WeighBy
<1>3. /\ Weigh(w, s) = sum[L]
      /\ sum \in [0 .. L -> Nat] /\ sum[0] = 0
      /\ \A n \in 1 .. L : sum[n] = sum[n - 1] + w[s[n]]
  <2>1. Weigh(w, s) = sum[Len(s)]
    BY <1>2, WeighBy
  <2> QED
    BY <1>2, <2>1 DEF Weighs
<1> HIDE DEF t, L
<1>4. L \in Nat
  BY <1>1
<1> DEFINE more == [n \in 0 .. L + 1 |-> IF n = L + 1 THEN sum[L] + w[x] ELSE sum[n]]
<1>5. /\ \A n \in 0 .. L + 1 : n = L + 1 \/ n \in 0 .. L
      /\ \A n \in 0 .. L : n \in 0 .. L + 1 /\ n # L + 1
      /\ \A n \in 1 .. L : n \in 0 .. L
      /\ \A n \in 1 .. L + 1 : n - 1 \in 0 .. L /\ (n = L + 1 \/ n \in 1 .. L)
      /\ L + 1 \in 0 .. L + 1 /\ 0 \in 0 .. L /\ L \in 0 .. L /\ (L + 1) - 1 = L
  BY <1>4, SMT
<1>6. sum[L] + w[x] \in Nat
  BY <1>1, <1>3, <1>5, SMT
<1>7. /\ more \in [0 .. L + 1 -> Nat]
      /\ more[L + 1] = sum[L] + w[x]
      /\ \A n \in 0 .. L : more[n] = sum[n]
  BY <1>3, <1>5, <1>6
<1> HIDE DEF more
<1>8. ASSUME NEW n \in 1 .. L + 1 PROVE more[n] = more[n - 1] + w[t[n]]
  <2>1. more[n - 1] = sum[n - 1]
    BY <1>5, <1>7
  <2>2. CASE n = L + 1
    BY <1>1, <1>5, <1>7, <2>1, <2>2
  <2>3. CASE n \in 1 .. L
    <3>1. more[n] = sum[n] /\ t[n] = s[n]
      BY <1>1, <1>5, <1>7, <2>3
    <3> QED
      BY <1>3, <2>1, <2>3, <3>1
  <2> QED
    BY <1>5, <2>2, <2>3
<1>9. more[0] = 0
  BY <1>3, <1>5, <1>7
<1>10. Weigh(w, t) = more[L + 1]
  <2>1. Weighs(w, t, more)
    BY <1>1, <1>7, <1>8, <1>9 DEF Weighs
  <2> QED
    BY <1>1, <2>1, WeighBy
<1> QED
  BY <1>3, <1>7, <1>10 DEF t

LEMMA WeighTail ==
  ASSUME NEW S, NEW w \in [S -> Nat], NEW s \in Seq(S), s # <<>>
  PROVE  Weigh(w, s) = w[Head(s)] + Weigh(w, Tail(s))
<1> DEFINE t == Tail(s)
           L == Len(t)
           h == w[Head(s)]
<1>1. /\ t \in Seq(S) /\ Len(s) = L + 1 /\ L \in Nat /\ h \in Nat
      /\ Head(s) = s[1]
      /\ \A i \in 1 .. L : t[i] = s[i + 1]
  <2>1. /\ t \in Seq(S) /\ L = Len(s) - 1 /\ Head(s) \in S /\ Head(s) = s[1]
        /\ \A i \in 1 .. L : t[i] = s[i + 1]
    BY HeadTailProperties
  <2>2. L \in Nat /\ Len(s) \in Nat
    BY <2>1, LenProperties
  <2> QED
    BY <2>1, <2>2, SMT
<1>2. PICK sum : Weighs(w, t, sum)
  BY <1>1, WeighBy
<1>3. /\ Weigh(w, t) = sum[L]
      /\ sum \in [0 .. L -> Nat] /\ sum[0] = 0
      /\ \A n \in 1 .. L : sum[n] = sum[n - 1] + w[t[n]]
  <2>1. Weigh(w, t) = sum[Len(t)]
    BY <1>1, <1>2, WeighBy
  <2> QED
    BY <1>2, <2>1 DEF Weighs
<1> HIDE DEF t, L
<1> DEFINE more == [n \in 0 .. L + 1 |-> IF n = 0 THEN 0 ELSE h + sum[n - 1]]
<1>4. /\ \A n \in 1 .. L + 1 : n \in 0 .. L + 1 /\ n # 0 /\ n - 1 \in 0 .. L
                               /\ (n = 1 \/ (n - 1 \in 1 .. L /\ (n - 1) + 1 = n))
      /\ \A n \in 0 .. L + 1 : n = 0 \/ n \in 1 .. L + 1
      /\ 0 \in 0 .. L + 1 /\ L + 1 \in 1 .. L + 1 /\ (L + 1) - 1 = L
      /\ 0 \in 0 .. L /\ 1 \in 1 .. L + 1 /\ 1 - 1 = 0
      /\ \A n \in 1 .. L : n \in 1 .. L + 1
  BY <1>1, SMT
<1>5. \A n \in 0 .. L : sum[n] \in Nat /\ h + sum[n] \in Nat
  <2> TAKE n \in 0 .. L
  <2>1. sum[n] \in Nat
    BY <1>3
  <2> HIDE DEF h
  <2> QED
    BY <1>1, <2>1, SMT
<1>6. /\ more \in [0 .. L + 1 -> Nat] /\ more[0] = 0
      /\ \A n \in 1 .. L + 1 : more[n] = h + sum[n - 1]
  BY <1>4, <1>5
<1> HIDE DEF more
<1>7. ASSUME NEW n \in 1 .. L + 1 PROVE more[n] = more[n - 1] + w[s[n]]
  <2>1. more[n] = h + sum[n - 1]
    BY <1>6
  <2>2. CASE n = 1
    <3>1. sum[n - 1] = 0 /\ more[n - 1] = 0 /\ w[s[n]] = h
      BY <1>1, <1>3, <1>4, <1>6, <2>2
    <3> HIDE DEF h
    <3> QED
      BY <1>1, <2>1, <3>1, SMT
  <2>3. CASE n - 1 \in 1 .. L /\ (n - 1) + 1 = n
    <3> DEFINE m == n - 1
    <3>1. m \in 1 .. L /\ m + 1 = n /\ m \in 1 .. L + 1 /\ m - 1 \in 0 .. L /\ m \in 0 .. L
      BY <1>4, <2>3
    <3> HIDE DEF m
    <3>2. t[m] = s[n] /\ sum[m] = sum[m - 1] + w[t[m]] /\ more[m] = h + sum[m - 1]
      BY <1>1, <1>3, <1>6, <3>1
    <3>3. w[s[n]] \in Nat
      <4>1. t[m] \in S
        BY <1>1, <3>1, LenProperties, ElementOfSeq DEF L
      <4> QED
        BY <3>2, <4>1
    <3>4. sum[m - 1] \in Nat /\ more[n] = h + sum[m]
      BY <1>5, <2>1, <3>1 DEF m
    <3> HIDE DEF h
    <3>5. more[n] = more[m] + w[s[n]]
      BY <1>1, <3>2, <3>3, <3>4, SMT
    <3> QED
      BY <3>5 DEF m
  <2> QED
    BY <1>4, <2>2, <2>3
<1>8. Weigh(w, s) = more[L + 1]
  <2>1. Weighs(w, s, more)
    BY <1>1, <1>6, <1>7 DEF Weighs
  <2>2. Weigh(w, s) = more[Len(s)]
    BY <2>1, WeighBy
  <2> QED
    BY <1>1, <2>2
<1> QED
  BY <1>3, <1>4, <1>6, <1>8 DEF t

\* Leading zeros weigh nothing.
LEMMA SumDropsZeros ==
  ASSUME NEW s \in Seq(Nat), NEW t \in Seq(Nat), NEW k \in Nat, Len(s) = k + Len(t),
         \A i \in 1 .. k : s[i] = 0,
         \A i \in 1 .. Len(t) : s[k + i] = t[i]
  PROVE  SumSeq(s) = SumSeq(t)
<1> DEFINE L == Len(t)
<1>1. PICK sum : Sums(t, sum)
  BY SumsExist
<1>2. /\ sum \in [0 .. L -> Nat] /\ sum[0] = 0
      /\ \A n \in 1 .. L : sum[n] = sum[n - 1] + t[n]
  BY <1>1 DEF Sums
<1>3. L \in Nat
  BY LenProperties
<1>4. SumSeq(t) = sum[L]
  BY <1>1, SumIs
<1> DEFINE more == [n \in 0 .. k + L |-> IF n <= k THEN 0 ELSE sum[n - k]]
<1> HIDE DEF L
<1>5. /\ \A n \in 0 .. k + L : n <= k \/ n - k \in 0 .. L
      /\ \A n \in 1 .. k + L : n \in 0 .. k + L /\ n - 1 \in 0 .. k + L
      /\ k + L \in 0 .. k + L /\ 0 \in 0 .. k + L /\ 0 <= k
      /\ 0 \in 0 .. L
  BY <1>3, SMT
<1>6. /\ more \in [0 .. k + L -> Nat]
      /\ \A n \in 0 .. k + L : more[n] = IF n <= k THEN 0 ELSE sum[n - k]
  <2>1. \A n \in 0 .. k + L : (IF n <= k THEN 0 ELSE sum[n - k]) \in Nat
    BY <1>2, <1>5
  <2> QED
    BY <2>1
<1> HIDE DEF more
<1>7. ASSUME NEW n \in 1 .. k + L PROVE more[n] = more[n - 1] + s[n]
  <2>1. CASE n <= k
    <3>1. n \in 1 .. k /\ n - 1 <= k
      BY <2>1, SMT
    <3> QED
      BY <1>5, <1>6, <2>1, <3>1
  <2>2. CASE ~ n <= k
    <3> DEFINE m == n - k
    <3>1. m \in 1 .. L /\ k + m = n /\ m - 1 = (n - 1) - k /\ (n - 1 <= k => m - 1 = 0)
      BY <1>3, <2>2, SMT
    <3>2. more[n] = sum[m - 1] + s[n]
      <4>1. more[n] = sum[m] /\ s[n] = t[m] /\ sum[m] = sum[m - 1] + t[m]
        BY <1>2, <1>5, <1>6, <2>2, <3>1 DEF L
      <4> QED
        BY <4>1
    <3>3. more[n - 1] = IF n - 1 <= k THEN 0 ELSE sum[m - 1]
      BY <1>5, <1>6, <3>1
    <3>4. more[n - 1] = sum[m - 1]
      BY <1>2, <3>1, <3>3
    <3> QED
      BY <3>2, <3>4
  <2> QED
    BY <2>1, <2>2
<1>8. more[0] = 0
  BY <1>5, <1>6
<1>9. more[k + L] = sum[L]
  <2>1. CASE L = 0
    <3>1. k + L <= k
      BY <2>1, SMT
    <3> QED
      BY <1>2, <1>5, <1>6, <2>1, <3>1
  <2>2. CASE L # 0
    <3>1. ~ k + L <= k /\ (k + L) - k = L
      BY <1>3, <2>2, SMT
    <3> QED
      BY <1>5, <1>6, <3>1
  <2> QED
    BY <2>1, <2>2
<1>10. Sums(s, more)
  BY <1>6, <1>7, <1>8 DEF Sums, L
<1>11. SumSeq(s) = more[Len(s)]
  BY <1>10, SumIs
<1> QED
  BY <1>4, <1>9, <1>11 DEF L

\* What has a weight weighs at least as much as there is of it.
LEMMA WeighsItsLength ==
  ASSUME NEW S, NEW w \in [S -> Nat], NEW v \in [S -> Nat], NEW s \in Seq(S),
         \A x \in S : w[x] + v[x] >= 1
  PROVE  Weigh(w, s) + Weigh(v, s) >= Len(s)
<1> DEFINE L == Len(s)
<1>1. L \in Nat /\ \A n \in 1 .. L : s[n] \in S
  BY LenProperties, ElementOfSeq
<1>2. PICK a : Weighs(w, s, a)
  BY WeighBy
<1>3. PICK b : Weighs(v, s, b)
  BY WeighBy
<1>4. Weigh(w, s) = a[L] /\ Weigh(v, s) = b[L]
  BY <1>2, <1>3, WeighBy
<1>5. /\ a \in [0 .. L -> Nat] /\ a[0] = 0 /\ b \in [0 .. L -> Nat] /\ b[0] = 0
      /\ \A n \in 1 .. L : a[n] = a[n - 1] + w[s[n]] /\ b[n] = b[n - 1] + v[s[n]]
  BY <1>2, <1>3 DEF Weighs
<1> HIDE DEF L
<1> DEFINE Light == {n \in 0 .. L : ~ a[n] + b[n] >= n}
<1>6. ASSUME Light # {} PROVE FALSE
  <2>1. PICK k \in Light : \A j \in Light : k <= j
    <3>1. Light \subseteq Nat
      BY <1>1, SMT
    <3> HIDE DEF Light
    <3> QED
      BY <1>6, <3>1, NatMin
  <2>2. k \in 0 .. L /\ ~ a[k] + b[k] >= k
    BY <2>1
  <2>3. k # 0
    BY <1>5, <2>2, SMT
  <2>4. k \in 1 .. L /\ k - 1 \in 0 .. L /\ ~ k <= k - 1
    BY <1>1, <2>2, <2>3, SMT
  <2>5. a[k - 1] + b[k - 1] >= k - 1
    BY <2>1, <2>4
  <2>6. a[k] = a[k - 1] + w[s[k]] /\ b[k] = b[k - 1] + v[s[k]]
    BY <1>5, <2>4
  <2>7. /\ w[s[k]] \in Nat /\ v[s[k]] \in Nat /\ w[s[k]] + v[s[k]] >= 1
        /\ a[k - 1] \in Nat /\ b[k - 1] \in Nat
    BY <1>1, <1>5, <2>4
  <2> QED
    BY <2>2, <2>4, <2>5, <2>6, <2>7, SMT
<1>7. L \in 0 .. L
  BY <1>1, SMT
<1>8. a[L] + b[L] >= L
  BY <1>6, <1>7
<1> QED
  BY <1>4, <1>8 DEF L

-----------------------------------------------------------------------------
(***************************************************************************)
(* The newest n elements of a window                                        *)
(***************************************************************************)
Newest(buffer, n) == [i \in 1 .. n |-> buffer[Len(buffer) - n + i]]

LEMMA NewestType ==
  ASSUME NEW buffer \in Seq(Element), NEW n \in Nat, n <= Len(buffer)
  PROVE  /\ Newest(buffer, n) \in Seq(Element) /\ Len(Newest(buffer, n)) = n
         /\ \A i \in 1 .. n : Newest(buffer, n)[i] = buffer[Len(buffer) - n + i]
<1>1. Len(buffer) \in Nat
  BY LenProperties
<1>2. \A i \in 1 .. n : Len(buffer) - n + i \in 1 .. Len(buffer)
  BY <1>1, SMT
<1>3. \A i \in 1 .. n : buffer[Len(buffer) - n + i] \in Element
  BY <1>2, ElementOfSeq
<1>4. Newest(buffer, n) \in [1 .. n -> Element]
  BY <1>3 DEF Newest
<1>5. Newest(buffer, n) \in Seq(Element)
  BY <1>4, SeqDef
<1>6. Len(Newest(buffer, n)) = n
  BY <1>4, <1>5, LenProperties
<1> QED
  BY <1>5, <1>6 DEF Newest

\* A frame sent is one more of them ...
LEMMA NewestGrows ==
  ASSUME NEW buffer \in Seq(Element), NEW n \in Nat, n <= Len(buffer), NEW x \in Element
  PROVE  Newest(Append(buffer, x), n + 1) = Append(Newest(buffer, n), x)
<1> DEFINE longer == Append(buffer, x)
           u == Newest(buffer, n)
           v == Newest(longer, n + 1)
           t == Append(u, x)
<1>1. /\ longer \in Seq(Element) /\ Len(longer) = Len(buffer) + 1 /\ Len(buffer) \in Nat
      /\ \A i \in 1 .. Len(buffer) : longer[i] = buffer[i]
      /\ longer[Len(buffer) + 1] = x
  BY AppendProperties, LenProperties
<1>2. /\ u \in Seq(Element) /\ Len(u) = n
      /\ \A i \in 1 .. n : u[i] = buffer[Len(buffer) - n + i]
  BY NewestType
<1> HIDE DEF longer
<1>3. /\ v \in Seq(Element) /\ Len(v) = n + 1
      /\ \A i \in 1 .. n + 1 : v[i] = longer[Len(longer) - (n + 1) + i]
  <2>1. n + 1 \in Nat /\ n + 1 <= Len(longer)
    BY <1>1, SMT
  <2> QED
    BY <1>1, <2>1, NewestType
<1> HIDE DEF u, v
<1>4. /\ t \in Seq(Element) /\ Len(t) = n + 1
      /\ \A i \in 1 .. n : t[i] = u[i]
      /\ t[n + 1] = x
  BY <1>2, AppendProperties
<1> HIDE DEF t
<1>5. ASSUME NEW i \in 1 .. n + 1 PROVE v[i] = t[i]
  <2>1. CASE i = n + 1
    <3>1. Len(longer) - (n + 1) + i = Len(buffer) + 1
      BY <1>1, <2>1, SMT
    <3> QED
      BY <1>1, <1>3, <1>4, <2>1, <3>1
  <2>2. CASE i # n + 1
    <3>1. /\ i \in 1 .. n /\ Len(longer) - (n + 1) + i = Len(buffer) - n + i
          /\ Len(buffer) - n + i \in 1 .. Len(buffer)
      BY <1>1, <2>2, SMT
    <3>2. v[i] = longer[Len(buffer) - n + i] /\ t[i] = u[i]
      BY <1>3, <1>4, <3>1
    <3> QED
      BY <1>1, <1>2, <3>1, <3>2
  <2> QED
    BY <2>1, <2>2
<1>6. v = t
  BY <1>3, <1>4, <1>5, SeqEqual
<1> QED
  BY <1>6 DEF v, t, u, longer

\* ... one accepted is the oldest of them ...
LEMMA NewestShrinks ==
  ASSUME NEW buffer \in Seq(Element), NEW n \in Nat, n >= 1, n <= Len(buffer)
  PROVE  /\ Newest(buffer, n) # <<>>
         /\ Head(Newest(buffer, n)) = buffer[Len(buffer) - n + 1]
         /\ Tail(Newest(buffer, n)) = Newest(buffer, n - 1)
<1> DEFINE u == Newest(buffer, n)
           v == Newest(buffer, n - 1)
           t == Tail(u)
<1>1. Len(buffer) \in Nat
  BY LenProperties
<1>2. /\ u \in Seq(Element) /\ Len(u) = n
      /\ \A i \in 1 .. n : u[i] = buffer[Len(buffer) - n + i]
  BY NewestType
<1>3. /\ v \in Seq(Element) /\ Len(v) = n - 1
      /\ \A i \in 1 .. n - 1 : v[i] = buffer[Len(buffer) - (n - 1) + i]
  <2>1. n - 1 \in Nat /\ n - 1 <= Len(buffer)
    BY <1>1, SMT
  <2> QED
    BY <2>1, NewestType
<1> HIDE DEF u, v
<1>4. u # <<>>
  <2>1. Len(<<>>) = 0
    OBVIOUS
  <2> QED
    BY <1>2, <2>1, SMT
<1>5. /\ Head(u) = u[1] /\ t \in Seq(Element) /\ Len(t) = n - 1
      /\ \A i \in 1 .. n - 1 : t[i] = u[i + 1]
  BY <1>2, <1>4, HeadTailProperties
<1> HIDE DEF t
<1>6. 1 \in 1 .. n
  BY SMT
<1>7. ASSUME NEW i \in 1 .. n - 1 PROVE t[i] = v[i]
  <2>1. i + 1 \in 1 .. n /\ Len(buffer) - n + (i + 1) = Len(buffer) - (n - 1) + i
    BY <1>1, SMT
  <2> QED
    BY <1>2, <1>3, <1>5, <2>1
<1>8. t = v
  BY <1>3, <1>5, <1>7, SeqEqual
<1> QED
  BY <1>2, <1>4, <1>5, <1>6, <1>8 DEF t, u, v

\* ... and sliding the window touches none of them.
LEMMA NewestKept ==
  ASSUME NEW buffer \in Seq(Element), NEW left \in Seq(Element), Len(left) <= Len(buffer),
         \A i \in 1 .. Len(left) : left[i] = buffer[Len(buffer) - Len(left) + i],
         NEW n \in Nat, n <= Len(left)
  PROVE  Newest(left, n) = Newest(buffer, n)
<1>1. Len(buffer) \in Nat /\ Len(left) \in Nat
  BY LenProperties
<1>2. ASSUME NEW i \in 1 .. n
      PROVE  left[Len(left) - n + i] = buffer[Len(buffer) - n + i]
  <2> DEFINE k == Len(left) - n + i
  <2>1. k \in 1 .. Len(left) /\ Len(buffer) - Len(left) + k = Len(buffer) - n + i
    BY <1>1, SMT
  <2> HIDE DEF k
  <2>2. left[k] = buffer[Len(buffer) - n + i]
    BY <2>1
  <2> QED
    BY <2>2 DEF k
<1> QED
  BY <1>2 DEF Newest

-----------------------------------------------------------------------------
(***************************************************************************)
(* The frames e has sent and its peer has not accepted, as the window of e  *)
(* keeps them.  Beyond these the peer may wait for a frame of the handshake *)
(* that opened the connection, which is in no window and spends and gives   *)
(* nothing.                                                                 *)
(***************************************************************************)
Unseen(e) == Dist(next_rx_seq[Peer(e)], next_tx_seq[e])

Waiting(e) == IF Unseen(e) <= Len(retransmit_buffer[e]) THEN Unseen(e)
                                                        ELSE Len(retransmit_buffer[e])

Coming(e) == Newest(retransmit_buffer[e], Waiting(e))

LEMMA ComingType ==
  ASSUME TypeOK, NEW e \in Endpoint
  PROVE  /\ retransmit_buffer[e] \in Seq(Element) /\ Len(retransmit_buffer[e]) \in Nat
         /\ Unseen(e) \in Nat /\ Waiting(e) \in Nat
         /\ Waiting(e) <= Unseen(e) /\ Waiting(e) <= Len(retransmit_buffer[e])
         /\ Coming(e) \in Seq(Element) /\ Len(Coming(e)) = Waiting(e)
<1>1. retransmit_buffer[e] \in Seq(Element)
  BY DEF TypeOK
<1>2. Unseen(e) \in Nat
  BY Peers, MissingType DEF Unseen, TypeOK
<1>3. Len(retransmit_buffer[e]) \in Nat
  BY <1>1, LenProperties
<1>4. /\ Waiting(e) \in Nat /\ Waiting(e) <= Unseen(e)
      /\ Waiting(e) <= Len(retransmit_buffer[e])
  BY <1>2, <1>3, SMT DEF Waiting
<1> QED
  BY <1>1, <1>2, <1>3, <1>4, NewestType DEF Coming

\* What the sums take from the link of either direction, and what a
\* connection has as well: the peer is not half a ring behind, ...
Near == \A e \in Endpoint : Unseen(e) < HALF_MAX_SEQ_NUM

\* ... an acknowledgement releases no frame the peer still waits for, ...
Released(e) == \/ Unseen(e) <= Len(retransmit_buffer'[e])
               \/ retransmit_buffer'[e] = retransmit_buffer[e]

\* ... and the frame expected is the oldest of those, or of the handshake.
Awaited(e) ==
    LET f == Arrived(e)
        B == retransmit_buffer[Peer(e)]
        d == Unseen(Peer(e))
    IN  /\ d >= 1
        /\ IF d <= Len(B) THEN ElementOf(f) = B[Len(B) - d + 1]
                          ELSE f.chan = 0 /\ f.tlmsg = NoMsg

InOrder ==
    /\ Near
    /\ \A e \in Endpoint : (RX(e) => Released(e)) /\ (Accept(e) => Awaited(e))

\* They depend on these variables only.
LEMMA ComingSame ==
  ASSUME NEW e \in Endpoint, retransmit_buffer'[e] = retransmit_buffer[e],
         next_tx_seq'[e] = next_tx_seq[e], next_rx_seq'[Peer(e)] = next_rx_seq[Peer(e)]
  PROVE  Coming(e)' = Coming(e)
  BY DEF Coming, Newest, Waiting, Unseen

\* A frame sent joins them.
LEMMA ComingSent ==
  ASSUME TypeOK, Near, NEW e \in Endpoint, NEW elapsed, TX_Send(e, elapsed)
  PROVE  Coming(e)' = Append(Coming(e), ElementOf(FrameToSend(e)))
<1> DEFINE p == Peer(e)
           d == Unseen(e)
           n == Waiting(e)
           B == retransmit_buffer[e]
           x == ElementOf(FrameToSend(e))
<1>1. /\ retransmit_buffer' = [retransmit_buffer EXCEPT ![e] = Append(B, x)]
      /\ next_tx_seq' = [next_tx_seq EXCEPT ![e] = tloe_seqnum_next(@)]
      /\ next_rx_seq' = next_rx_seq
  BY DEF TX_Send, TX
<1>2. x \in Element
  BY FrameToSendType
<1>3. /\ B \in Seq(Element) /\ Len(B) \in Nat /\ d \in Nat
      /\ n \in Nat /\ n <= Len(B)
      /\ n = IF d <= Len(B) THEN d ELSE Len(B)
  BY ComingType DEF Waiting
<1>4. Dist(next_rx_seq[p], tloe_seqnum_next(next_tx_seq[e])) = d + 1
  <2>1. next_rx_seq[p] \in SeqNum /\ next_tx_seq[e] \in SeqNum
    BY Peers DEF TypeOK
  <2>2. d < SEQ_MOD - 1
    <3>1. d < HALF_MAX_SEQ_NUM
      BY DEF Near
    <3> HIDE DEF d
    <3> QED
      BY <1>3, <3>1, HalfRing, SMT
  <2> QED
    BY <2>1, <2>2, DistStep DEF Unseen
<1> HIDE DEF x
<1>5. retransmit_buffer'[e] = Append(B, x) /\ Unseen(e)' = d + 1
  BY <1>1, <1>4 DEF TypeOK, Unseen
<1> HIDE DEF d, B
<1>6. Newest(Append(B, x), n + 1) = Append(Newest(B, n), x)
  BY <1>2, <1>3, NewestGrows
<1>7. Len(Append(B, x)) = Len(B) + 1
  BY <1>2, <1>3, AppendProperties
<1>8. Waiting(e)' = n + 1
  <2>1. Waiting(e)' = IF d + 1 <= Len(B) + 1 THEN d + 1 ELSE Len(B) + 1
    BY <1>5, <1>7 DEF Waiting
  <2> HIDE DEF n
  <2> QED
    BY <1>3, <2>1, SMT
<1>9. Coming(e)' = Newest(Append(B, x), n + 1)
  BY <1>5, <1>8 DEF Coming, Newest
<1> QED
  BY <1>6, <1>9 DEF Coming, x, B

\* An acknowledgement releases none of them.
LEMMA ComingReleased ==
  ASSUME TypeOK, NEW e \in Endpoint, RX(e), Released(e),
         next_rx_seq'[Peer(e)] = next_rx_seq[Peer(e)]
  PROVE  Coming(e)' = Coming(e)
<1> DEFINE B == retransmit_buffer[e]
           left == retransmit_buffer'[e]
           n == Arrived(e).seq_num_ack
           I == {i \in DOMAIN B : tloe_seqnum_cmp(B[i].seq_num, n) > 0}
<1>1. B \in Seq(Element) /\ Unseen(e) \in Nat /\ Len(B) \in Nat
  BY ComingType
<1>2. left = SuffixFrom(B, I) /\ I \subseteq DOMAIN B
  <2>1. retransmit_buffer' = [retransmit_buffer EXCEPT ![e] = slide_window(B, n)]
    BY DEF RX
  <2> QED
    BY <2>1 DEF slide_window, TypeOK
<1>3. Unseen(e)' = Unseen(e)
  BY DEF RX, Unseen
<1>4. CASE left = B
  BY <1>3, <1>4 DEF Coming, Newest, Waiting
<1>5. CASE Unseen(e) <= Len(left)
  <2> HIDE DEF I, B, left
  <2>1. /\ left \in Seq(Element) /\ Len(left) <= Len(B) /\ Len(left) \in Nat
        /\ \A i \in 1 .. Len(left) : left[i] = B[Len(B) - Len(left) + i]
    BY <1>1, <1>2, SuffixFromType, LenProperties
  <2>2. Newest(left, Unseen(e)) = Newest(B, Unseen(e))
    BY <1>1, <1>5, <2>1, NewestKept
  <2>3. Unseen(e) <= Len(B)
    BY <1>1, <1>5, <2>1, SMT
  <2>4. Waiting(e) = Unseen(e) /\ Waiting(e)' = Unseen(e)
    BY <1>3, <1>5, <2>3 DEF Waiting, left, B
  <2> QED
    BY <2>2, <2>4 DEF Coming, Newest, left, B
<1> QED
  BY <1>4, <1>5 DEF Released

\* The frame accepted is the oldest of them, or of the handshake.
LEMMA ComingAccepted ==
  ASSUME TypeOK, NEW e \in Endpoint, Accept(e), Awaited(e)
  PROVE  LET p == Peer(e)
             f == Arrived(e)
         IN  \/ /\ Coming(p) # <<>> /\ Head(Coming(p)) = ElementOf(f)
                /\ Coming(p)' = Tail(Coming(p))
             \/ Coming(p)' = Coming(p) /\ f.chan = 0 /\ f.tlmsg = NoMsg
<1> DEFINE p == Peer(e)
           R == next_rx_seq[e]
           N == next_tx_seq[p]
           B == retransmit_buffer[p]
           d == Unseen(p)
           f == Arrived(e)
<1>1. p \in Endpoint /\ p # e /\ Peer(p) = e
  BY Peers
<1>2. B \in Seq(Element) /\ d \in Nat /\ d >= 1 /\ Len(B) \in Nat
  BY <1>1, ComingType DEF Awaited
<1>3. RX(e) /\ next_rx_seq' = [next_rx_seq EXCEPT ![e] = tloe_seqnum_next(R)]
  BY AcceptsExpected
<1>4. retransmit_buffer'[p] = B /\ next_tx_seq' = next_tx_seq
  BY <1>1, <1>3 DEF RX, TypeOK
<1>5. Unseen(p)' = d - 1
  <2>1. R \in SeqNum /\ N \in SeqNum /\ d = Dist(R, N)
    BY <1>1 DEF TypeOK, Unseen
  <2>2. Dist(R, N) > 0
    BY <1>2, <2>1, SMT
  <2>3. Dist(tloe_seqnum_next(R), N) = Dist(R, N) - 1
    BY <2>1, <2>2, DistStep
  <2>4. Unseen(p)' = Dist(tloe_seqnum_next(R), N)
    BY <1>1, <1>3, <1>4 DEF Unseen, TypeOK
  <2> QED
    BY <2>1, <2>3, <2>4
<1>6. Waiting(p)' = IF d - 1 <= Len(B) THEN d - 1 ELSE Len(B)
  BY <1>4, <1>5 DEF Waiting
<1>7. CASE d <= Len(B)
  <2>1. ElementOf(f) = B[Len(B) - d + 1]
    BY <1>7 DEF Awaited
  <2>2. Waiting(p) = d
    BY <1>7 DEF Waiting
  <2> HIDE DEF d, B, f
  <2>3. Waiting(p)' = d - 1
    BY <1>2, <1>6, <1>7, SMT
  <2>4. /\ Newest(B, d) # <<>> /\ Head(Newest(B, d)) = ElementOf(f)
        /\ Tail(Newest(B, d)) = Newest(B, d - 1)
    BY <1>2, <1>7, <2>1, NewestShrinks
  <2>5. Coming(p) = Newest(B, d) /\ Coming(p)' = Newest(B, d - 1)
    BY <1>4, <2>2, <2>3 DEF Coming, Newest, B
  <2> QED
    BY <2>4, <2>5 DEF f
<1>8. CASE ~ d <= Len(B)
  <2>1. f.chan = 0 /\ f.tlmsg = NoMsg
    BY <1>8 DEF Awaited
  <2>2. Waiting(p) = Len(B)
    BY <1>8 DEF Waiting
  <2> HIDE DEF d, B, f
  <2>3. Waiting(p)' = Len(B)
    BY <1>2, <1>6, <1>8, SMT
  <2>4. Coming(p)' = Coming(p)
    BY <1>4, <2>2, <2>3 DEF Coming, Newest, B
  <2> QED
    BY <2>1, <2>4 DEF f
<1> QED
  BY <1>7, <1>8

-----------------------------------------------------------------------------
(***************************************************************************)
(* What frames and messages weigh                                           *)
(***************************************************************************)
\* The credit of channel c that a frame spent, or gives, and that a message
\* takes up.
SpentBy(c) == [x \in Element |-> FlitsOn(c, x.tlmsg)]
GivenBy(c) == [x \in Element |-> IF x.chan = c THEN x.credit ELSE 0]
TakenBy(c) == [m \in TLMsg |-> FlitsOn(c, m)]

LEMMA WeightTypes ==
  ASSUME NEW c \in Channel
  PROVE  /\ SpentBy(c) \in [Element -> Nat] /\ GivenBy(c) \in [Element -> Nat]
         /\ TakenBy(c) \in [TLMsg -> Nat]
         /\ \A m \in TLMsg \cup {NoMsg} : FlitsOn(c, m) \in Nat
<1>1. \A m \in TLMsg \cup {NoMsg} : FlitsOn(c, m) \in Nat
  <2> TAKE m \in TLMsg \cup {NoMsg}
  <2>1. m = NoMsg \/ tlmsg_get_flits_cnt(m) \in Nat
    BY MsgTypes, SMT
  <2> QED
    BY <2>1 DEF FlitsOn
<1>2. \A x \in Element : x.tlmsg \in TLMsg \cup {NoMsg} /\ x.credit \in Nat
  BY DEF Element
<1> QED
  BY <1>1, <1>2 DEF SpentBy, GivenBy, TakenBy

\* Of the window, exactly those count whose numbers are not behind the one the
\* peer expects.
LEMMA UnacceptedWeighs ==
  ASSUME TypeOK, WindowInv, Near, NEW e \in Endpoint, NEW w \in [Element -> Nat]
  PROVE  LET B == retransmit_buffer[e]
         IN  SumSeq([i \in DOMAIN B |->
                IF tloe_seqnum_cmp(B[i].seq_num, next_rx_seq[Peer(e)]) >= 0
                THEN w[B[i]] ELSE 0]) = Weigh(w, Coming(e))
<1> DEFINE B == retransmit_buffer[e]
           L == Len(B)
           R == next_rx_seq[Peer(e)]
           N == next_tx_seq[e]
           d == Dist(R, N)
           s == [i \in DOMAIN B |-> IF tloe_seqnum_cmp(B[i].seq_num, R) >= 0
                                    THEN w[B[i]] ELSE 0]
           t == [i \in 1 .. Len(Coming(e)) |-> w[Coming(e)[i]]]
           n == Waiting(e)
           k == L - n
<1>1. /\ B \in Seq(Element) /\ d \in Nat /\ d < HALF_MAX_SEQ_NUM
      /\ n \in Nat /\ n = IF d <= L THEN d ELSE L
      /\ Coming(e) \in Seq(Element) /\ Len(Coming(e)) = n
      /\ \A i \in 1 .. n : Coming(e)[i] = B[L - n + i]
  BY ComingType, NewestType DEF Near, Unseen, Waiting, Coming
<1>2. /\ R \in SeqNum /\ N \in SeqNum /\ L \in Nat /\ DOMAIN B = 1 .. L /\ L <= WINDOW_SIZE
      /\ IsWindow(B, N)
  BY Peers, LinkTypes, LenProperties
<1>3. \A i \in 1 .. L : B[i] \in Element /\ B[i].seq_num \in SeqNum /\ w[B[i]] \in Nat
  <2> TAKE i \in 1 .. L
  <2>1. B[i] \in Element
    BY <1>1, ElementOfSeq
  <2> QED
    BY <2>1 DEF Element
<1>4. ASSUME NEW i \in 1 .. L
      PROVE  tloe_seqnum_cmp(B[i].seq_num, R) >= 0 <=> i > k
  <2> DEFINE b == B[i].seq_num
             a == Dist(b, N)
  <2>1. b \in SeqNum /\ a = L - i + 1
    BY <1>2, <1>3 DEF IsWindow
  <2>0. d \in Nat /\ d < HALF_MAX_SEQ_NUM
    BY <1>1
  <2> HIDE DEF b, d, n, L, B, R, N
  <2>2. a \in Nat /\ a >= 1 /\ a <= L
    BY <1>2, <2>1, SMT
  <2>3. CASE a < d
    <3>1. Dist(R, b) = d - a
      BY <1>1, <1>2, <2>1, <2>2, <2>3, DistSum, SMT DEF d
    <3>2. Dist(R, b) \in 1 .. HALF_MAX_SEQ_NUM - 1
      BY <2>0, <2>2, <2>3, <3>1, Sizes, SMT
    <3>3. tloe_seqnum_cmp(b, R) = 1
      BY <1>2, <2>1, <3>2, CmpIsOrder
    <3> QED
      BY <1>1, <1>2, <2>1, <2>3, <3>3, SMT DEF b
  <2>4. CASE a = d
    <3>1. Dist(b, R) = 0
      BY <1>1, <1>2, <2>1, <2>2, <2>4, DistSum, SMT DEF d
    <3>2. tloe_seqnum_cmp(b, R) = 0
      BY <1>2, <2>1, <3>1, CmpIsOrder
    <3> QED
      BY <1>1, <1>2, <2>1, <2>4, <3>2, SMT DEF b
  <2>5. CASE a > d
    <3>1. Dist(b, R) = a - d
      BY <1>1, <1>2, <2>1, <2>2, <2>5, DistSum, SMT DEF d
    <3>2. Dist(b, R) \in 1 .. HALF_MAX_SEQ_NUM - 1
      BY <1>1, <1>2, <2>2, <2>5, <3>1, Sizes, SMT
    <3>3. tloe_seqnum_cmp(b, R) = -1
      BY <1>2, <2>1, <3>2, CmpIsOrder
    <3> QED
      BY <1>1, <1>2, <2>1, <2>5, <3>3, SMT DEF b
  <2> QED
    BY <1>1, <2>2, <2>3, <2>4, <2>5, SMT
<1>5. /\ s \in Seq(Nat) /\ Len(s) = L
      /\ \A i \in 1 .. L : s[i] = IF i > k THEN w[B[i]] ELSE 0
  <2>1. s \in [1 .. L -> Nat]
    BY <1>2, <1>3
  <2>2. s \in Seq(Nat)
    BY <1>2, <2>1, SeqDef
  <2>3. Len(s) = L
    BY <1>2, <2>1, <2>2, LenProperties
  <2> QED
    BY <1>2, <1>4, <2>2, <2>3
<1>6. t \in Seq(Nat) /\ Len(t) = n /\ \A i \in 1 .. n : t[i] = w[Coming(e)[i]]
  <2>1. \A i \in 1 .. n : Coming(e)[i] \in Element
    BY <1>1, ElementOfSeq
  <2>2. t \in [1 .. n -> Nat]
    BY <1>1, <2>1
  <2>3. n \in Nat /\ \A i \in 1 .. n : t[i] = w[Coming(e)[i]]
    BY <1>1
  <2> HIDE DEF t, n
  <2>4. t \in Seq(Nat)
    BY <2>2, <2>3, SeqDef
  <2>5. Len(t) = n
    BY <2>2, <2>3, <2>4, LenProperties
  <2> QED
    BY <2>3, <2>4, <2>5
<1>7. SumSeq(t) = Weigh(w, Coming(e))
  BY DEF Weigh
<1> HIDE DEF s, t, d, n, L, B
<1>8. k \in Nat /\ L = k + n
  BY <1>1, <1>2, SMT
<1>9. \A i \in 1 .. k : s[i] = 0
  <2>1. \A i \in 1 .. k : i \in 1 .. L /\ ~ i > k
    BY <1>1, <1>2, SMT
  <2> QED
    BY <1>5, <2>1
<1>10. ASSUME NEW i \in 1 .. n PROVE s[k + i] = t[i]
  <2>1. k + i \in 1 .. L /\ k + i > k
    BY <1>1, <1>2, SMT
  <2>2. t[i] = w[B[k + i]]
    BY <1>1, <1>6
  <2> HIDE DEF k
  <2> QED
    BY <1>5, <2>1, <2>2
<1> HIDE DEF k
<1>11. SumSeq(s) = SumSeq(t)
  <2>1. Len(s) = k + Len(t) /\ \A i \in 1 .. Len(t) : s[k + i] = t[i]
    BY <1>5, <1>6, <1>8, <1>10
  <2> QED
    BY <1>5, <1>6, <1>8, <1>9, <2>1, SumDropsZeros
<1> QED
  BY <1>7, <1>11 DEF s, B, R

-----------------------------------------------------------------------------
(***************************************************************************)
(* The credit of a direction and channel: held by the sender, spent on      *)
(* frames not yet accepted, taken up by messages not yet handled, owed by   *)
(* the receiver, and given by its frames not yet accepted.                  *)
(***************************************************************************)
Total(held, spent, taken, owed, given) == held + spent + taken + owed + given

CreditNow(e, c) ==
    Total(credits[e][c], Weigh(SpentBy(c), Coming(e)),
          Weigh(TakenBy(c), tl_msg_buffer[Peer(e)]),
          tx_flow_credits[Peer(e)][c], Weigh(GivenBy(c), Coming(Peer(e))))

LEMMA CreditIs ==
  ASSUME TypeOK, WindowInv, Near, NEW e \in Endpoint, NEW c \in Channel
  PROVE  CreditOf(e, c) = CreditNow(e, c)
<1> DEFINE p == Peer(e)
           B(d) == retransmit_buffer[d]
           Ahead(d, i) == tloe_seqnum_cmp(B(d)[i].seq_num, next_rx_seq[Peer(d)]) >= 0
<1>1. p \in Endpoint
  BY Peers
<1>2. ASSUME NEW d \in Endpoint
      PROVE  /\ SumSeq([i \in DOMAIN B(d) |-> IF Ahead(d, i) THEN FlitsOn(c, B(d)[i].tlmsg)
                                                             ELSE 0])
                   = Weigh(SpentBy(c), Coming(d))
             /\ SumSeq([i \in DOMAIN B(d) |-> IF Ahead(d, i)
                             THEN IF B(d)[i].chan = c THEN B(d)[i].credit ELSE 0
                             ELSE 0])
                   = Weigh(GivenBy(c), Coming(d))
  <2>1. \A i \in DOMAIN B(d) : B(d)[i] \in Element
    <3>1. B(d) \in Seq(Element)
      BY ComingType
    <3> QED
      BY <3>1, LenProperties, ElementOfSeq
  <2>2. [i \in DOMAIN B(d) |-> IF Ahead(d, i) THEN FlitsOn(c, B(d)[i].tlmsg) ELSE 0]
           = [i \in DOMAIN B(d) |-> IF Ahead(d, i) THEN SpentBy(c)[B(d)[i]] ELSE 0]
    BY <2>1 DEF SpentBy
  <2>3. [i \in DOMAIN B(d) |-> IF Ahead(d, i)
                                 THEN IF B(d)[i].chan = c THEN B(d)[i].credit ELSE 0
                                 ELSE 0]
           = [i \in DOMAIN B(d) |-> IF Ahead(d, i) THEN GivenBy(c)[B(d)[i]] ELSE 0]
    BY <2>1 DEF GivenBy
  <2> QED
    BY <2>2, <2>3, WeightTypes, UnacceptedWeighs
<1>3. Buffered(p, c) = Weigh(TakenBy(c), tl_msg_buffer[p])
  <2>1. tl_msg_buffer[p] \in Seq(TLMsg)
    BY <1>1 DEF TypeOK
  <2>2. DOMAIN tl_msg_buffer[p] = 1 .. Len(tl_msg_buffer[p])
    BY <2>1, LenProperties
  <2>3. \A i \in 1 .. Len(tl_msg_buffer[p]) : tl_msg_buffer[p][i] \in TLMsg
    BY <2>1, ElementOfSeq
  <2>4. [i \in DOMAIN tl_msg_buffer[p] |-> FlitsOn(c, tl_msg_buffer[p][i])]
           = [i \in 1 .. Len(tl_msg_buffer[p]) |-> TakenBy(c)[tl_msg_buffer[p][i]]]
    BY <2>2, <2>3 DEF TakenBy
  <2> QED
    BY <2>4 DEF Buffered, Weigh
<1> QED
  BY <1>1, <1>2, <1>3 DEF CreditOf, Unaccepted, CreditNow, Total

LEMMA CreditTypes ==
  ASSUME TypeOK, NEW e \in Endpoint, NEW c \in Channel
  PROVE  /\ credits[e][c] \in Nat /\ tx_flow_credits[e][c] \in Nat
         /\ Weigh(SpentBy(c), Coming(e)) \in Nat /\ Weigh(GivenBy(c), Coming(e)) \in Nat
         /\ tl_msg_buffer[e] \in Seq(TLMsg) /\ Weigh(TakenBy(c), tl_msg_buffer[e]) \in Nat
<1>1. credits[e][c] \in Nat /\ tx_flow_credits[e][c] \in Nat /\ tl_msg_buffer[e] \in Seq(TLMsg)
  BY DEF TypeOK
<1>2. Coming(e) \in Seq(Element)
  BY ComingType
<1> QED
  BY <1>1, <1>2, WeightTypes, WeighBy

-----------------------------------------------------------------------------
(***************************************************************************)
(* Each action moves credit from one place to another.                      *)
(***************************************************************************)
CreditKept == \A e \in Endpoint : \A c \in Channel : CreditNow(e, c)' = CreditNow(e, c)

CreditNotMade == \A e \in Endpoint : \A c \in Channel : CreditNow(e, c)' <= CreditNow(e, c)

LEMMA CreditIsNat ==
  ASSUME TypeOK, NEW e \in Endpoint, NEW c \in Channel
  PROVE  CreditNow(e, c) \in Nat /\ CreditNow(e, c) <= CreditNow(e, c)
<1> DEFINE p == Peer(e)
<1>1. CreditNow(e, c) \in Nat
  <2>1. /\ credits[e][c] \in Nat /\ Weigh(SpentBy(c), Coming(e)) \in Nat
        /\ Weigh(TakenBy(c), tl_msg_buffer[p]) \in Nat
        /\ tx_flow_credits[p][c] \in Nat /\ Weigh(GivenBy(c), Coming(p)) \in Nat
    <3>1. p \in Endpoint
      BY Peers
    <3> QED
      BY <3>1, CreditTypes
  <2> QED
    BY <2>1, SMT DEF CreditNow, Total
<1> QED
  BY <1>1, SMT

LEMMA KeptIsNotMade ==
  ASSUME TypeOK, CreditKept
  PROVE  CreditNotMade
  BY CreditIsNat DEF CreditKept, CreditNotMade

LEMMA CreditSame ==
  ASSUME UNCHANGED <<credits, tx_flow_credits, tl_msg_buffer, retransmit_buffer,
                     next_tx_seq, next_rx_seq>>
  PROVE  CreditKept
<1>1. ASSUME NEW e \in Endpoint PROVE Coming(e)' = Coming(e)
  BY ComingSame
<1> QED
  BY <1>1, Peers DEF CreditKept, CreditNow

\* What the making of a frame costs its sender (fc_credit_dec,
\* get_outgoing_credits).
LEMMA FrameCosts ==
  ASSUME TypeOK, NEW e \in Endpoint, MakeFrame(e), NEW c \in Channel
  PROVE  LET p == Peer(e)
             x == ElementOf(FrameToSend(e))
         IN  /\ x \in Element /\ SpentBy(c)[x] \in Nat /\ GivenBy(c)[x] \in Nat
             /\ credits'[e][c] \in Nat /\ tx_flow_credits'[e][c] \in Nat
             /\ credits[e][c] = credits'[e][c] + SpentBy(c)[x]
             /\ tx_flow_credits[e][c] = tx_flow_credits'[e][c] + GivenBy(c)[x]
             /\ credits'[p] = credits[p] /\ tx_flow_credits'[p] = tx_flow_credits[p]
<1> DEFINE p == Peer(e)
           f == FrameToSend(e)
           x == ElementOf(f)
<1>1. p \in Endpoint /\ p # e
  BY Peers
<1>2. /\ x \in Element /\ x.tlmsg = f.tlmsg /\ x.chan = f.chan /\ x.credit = f.credit
  BY FrameToSendType DEF ElementOf
<1>3. /\ SpentBy(c)[x] = FlitsOn(c, f.tlmsg)
      /\ GivenBy(c)[x] = IF f.chan = c THEN f.credit ELSE 0
      /\ SpentBy(c)[x] \in Nat /\ GivenBy(c)[x] \in Nat
  BY <1>2, WeightTypes DEF SpentBy, GivenBy
<1>4. /\ tx_flow_credits' \in [Endpoint -> [Channel -> Nat]]
      /\ credits' \in [Endpoint -> [Channel -> Nat]]
      /\ tx_flow_credits \in [Endpoint -> [Channel -> Nat]]
      /\ credits \in [Endpoint -> [Channel -> Nat]]
  BY TypeMakeFrame DEF TypeOK
<1>5. /\ tx_flow_credits' = IF f.chan = 0 THEN tx_flow_credits
                            ELSE [tx_flow_credits EXCEPT ![e][f.chan] = @ - f.credit]
      /\ credits' = IF f.tlmsg = NoMsg THEN credits
                    ELSE [credits EXCEPT ![e][tlmsg_get_chan(f.tlmsg)] =
                                             @ - tlmsg_get_flits_cnt(f.tlmsg)]
  BY DEF MakeFrame
<1>6. f \in Frame
  BY FrameToSendType
<1>7. f.chan \in Channel \cup {0} /\ f.tlmsg \in TLMsg \cup {NoMsg} /\ f.credit \in Nat
  BY <1>6 DEF Frame
<1> HIDE DEF f, x, p
<1>8. credits'[p] = credits[p] /\ tx_flow_credits'[p] = tx_flow_credits[p]
  BY <1>1, <1>4, <1>5
<1>9. tx_flow_credits[e][c] = tx_flow_credits'[e][c] + GivenBy(c)[x]
  <2>1. c # 0
    BY SMT DEF Channel, CHANNEL_A, CHANNEL_D
  <2>2. CASE f.chan = c
    <3>1. tx_flow_credits'[e][c] = tx_flow_credits[e][c] - f.credit
      BY <1>4, <1>5, <2>1, <2>2
    <3>2. tx_flow_credits[e][c] \in Nat
      BY <1>4
    <3> QED
      BY <1>3, <1>7, <2>2, <3>1, <3>2, SMT
  <2>3. CASE f.chan # c
    <3>1. tx_flow_credits'[e][c] = tx_flow_credits[e][c]
      BY <1>4, <1>5, <1>7, <2>3
    <3>2. tx_flow_credits[e][c] \in Nat
      BY <1>4
    <3> QED
      BY <1>3, <2>3, <3>1, <3>2, SMT
  <2> QED
    BY <2>2, <2>3
<1>10. credits[e][c] = credits'[e][c] + SpentBy(c)[x]
  <2> DEFINE m == f.tlmsg
  <2>1. credits[e][c] \in Nat
    BY <1>4
  <2>2. CASE m # NoMsg /\ tlmsg_get_chan(m) = c
    <3>1. credits'[e][c] = credits[e][c] - tlmsg_get_flits_cnt(m)
      BY <1>4, <1>5, <2>2
    <3>2. FlitsOn(c, m) = tlmsg_get_flits_cnt(m)
      BY <2>2 DEF FlitsOn
    <3>3. SpentBy(c)[x] = tlmsg_get_flits_cnt(m) /\ tlmsg_get_flits_cnt(m) \in Nat
      BY <1>3, <3>2
    <3> HIDE DEF m
    <3> QED
      BY <2>1, <3>1, <3>3, SMT
  <2>3. CASE ~ (m # NoMsg /\ tlmsg_get_chan(m) = c)
    <3>1. FlitsOn(c, m) = 0
      <4> HIDE DEF m
      <4> QED
        BY <2>3, Zenon DEF FlitsOn
    <3>2. credits'[e][c] = credits[e][c]
      <4>1. m = NoMsg \/ (tlmsg_get_chan(m) \in Channel /\ tlmsg_get_chan(m) # c)
        BY <1>7, <2>3, MsgTypes
      <4> QED
        BY <1>4, <1>5, <4>1
    <3> QED
      BY <1>3, <2>1, <3>1, <3>2, SMT
  <2> QED
    BY <2>2, <2>3
<1> QED
  BY <1>2, <1>3, <1>4, <1>8, <1>9, <1>10 DEF f, x, p

\* TX: what a frame costs is what it weighs on its way; without memory for the
\* retransmit element it is lost.
LEMMA CreditTransmit ==
  ASSUME TypeOK, Near, NEW e \in Endpoint, NEW elapsed, Transmit(e, elapsed)
  PROVE  CreditNotMade /\ (alloc_failed' = alloc_failed => CreditKept)
<1> DEFINE p == Peer(e)
           x == ElementOf(FrameToSend(e))
<1>1. p \in Endpoint /\ p # e /\ Peer(p) = e /\ \A d \in Endpoint : d = e \/ d = p
  BY Peers
<1>2. CASE TX_Nothing(e, elapsed)
  <2>1. UNCHANGED <<credits, tx_flow_credits, tl_msg_buffer, retransmit_buffer,
                    next_tx_seq, next_rx_seq>>
    BY <1>2 DEF TX_Nothing, TX, creditVars, TypeOK
  <2> QED
    BY <2>1, CreditSame, KeptIsNotMade
<1>3. ASSUME MakeFrame(e), UNCHANGED <<tl_msg_buffer, next_rx_seq>>,
             retransmit_buffer'[p] = retransmit_buffer[p], next_tx_seq'[p] = next_tx_seq[p],
             NEW c \in Channel
      PROVE  /\ CreditNow(e, c)' = Total(credits'[e][c], Weigh(SpentBy(c), Coming(e)'),
                                         Weigh(TakenBy(c), tl_msg_buffer[p]),
                                         tx_flow_credits[p][c], Weigh(GivenBy(c), Coming(p)))
             /\ CreditNow(p, c)' = Total(credits[p][c], Weigh(SpentBy(c), Coming(p)),
                                         Weigh(TakenBy(c), tl_msg_buffer[e]),
                                         tx_flow_credits'[e][c],
                                         Weigh(GivenBy(c), Coming(e)'))
  <2>1. Coming(p)' = Coming(p)
    BY <1>1, <1>3, ComingSame
  <2>2. credits'[p] = credits[p] /\ tx_flow_credits'[p] = tx_flow_credits[p]
    BY <1>3, FrameCosts
  <2> QED
    BY <1>1, <1>3, <2>1, <2>2 DEF CreditNow
<1>4. CASE TX_AllocFailed(e, elapsed)
  <2>1. /\ MakeFrame(e) /\ alloc_failed' = alloc_failed + 1
        /\ UNCHANGED <<tl_msg_buffer, next_rx_seq, next_tx_seq, retransmit_buffer>>
    BY <1>4 DEF TX_AllocFailed, TX, TypeOK
  <2>2. alloc_failed' # alloc_failed
    BY <2>1, SMT DEF TypeOK
  <2>3. Coming(e)' = Coming(e)
    BY <2>1, ComingSame
  <2>4. ASSUME NEW c \in Channel
        PROVE  CreditNow(e, c)' <= CreditNow(e, c) /\ CreditNow(p, c)' <= CreditNow(p, c)
    <3>1. /\ SpentBy(c)[x] \in Nat /\ GivenBy(c)[x] \in Nat
          /\ credits'[e][c] \in Nat /\ tx_flow_credits'[e][c] \in Nat
          /\ credits[e][c] = credits'[e][c] + SpentBy(c)[x]
          /\ tx_flow_credits[e][c] = tx_flow_credits'[e][c] + GivenBy(c)[x]
      BY <2>1, FrameCosts
    <3>2. /\ CreditNow(e, c)' = Total(credits'[e][c], Weigh(SpentBy(c), Coming(e)),
                                      Weigh(TakenBy(c), tl_msg_buffer[p]),
                                      tx_flow_credits[p][c], Weigh(GivenBy(c), Coming(p)))
          /\ CreditNow(p, c)' = Total(credits[p][c], Weigh(SpentBy(c), Coming(p)),
                                      Weigh(TakenBy(c), tl_msg_buffer[e]),
                                      tx_flow_credits'[e][c], Weigh(GivenBy(c), Coming(e)))
      BY <1>3, <2>1, <2>3
    <3>3. /\ CreditNow(e, c) = Total(credits[e][c], Weigh(SpentBy(c), Coming(e)),
                                     Weigh(TakenBy(c), tl_msg_buffer[p]),
                                     tx_flow_credits[p][c], Weigh(GivenBy(c), Coming(p)))
          /\ CreditNow(p, c) = Total(credits[p][c], Weigh(SpentBy(c), Coming(p)),
                                     Weigh(TakenBy(c), tl_msg_buffer[e]),
                                     tx_flow_credits[e][c], Weigh(GivenBy(c), Coming(e)))
      BY <1>1 DEF CreditNow
    <3> HIDE DEF x, p
    <3>4. /\ Weigh(SpentBy(c), Coming(e)) \in Nat /\ Weigh(GivenBy(c), Coming(e)) \in Nat
          /\ Weigh(SpentBy(c), Coming(p)) \in Nat /\ Weigh(GivenBy(c), Coming(p)) \in Nat
          /\ Weigh(TakenBy(c), tl_msg_buffer[p]) \in Nat
          /\ Weigh(TakenBy(c), tl_msg_buffer[e]) \in Nat
          /\ credits[p][c] \in Nat /\ tx_flow_credits[p][c] \in Nat
      BY <1>1, CreditTypes
    <3> QED
      BY <3>1, <3>2, <3>3, <3>4, SMT DEF Total
  <2> QED
    BY <1>1, <2>2, <2>4 DEF CreditNotMade
<1>5. CASE TX_Send(e, elapsed)
  <2>1. /\ MakeFrame(e)
        /\ UNCHANGED <<tl_msg_buffer, next_rx_seq>>
        /\ retransmit_buffer'[p] = retransmit_buffer[p] /\ next_tx_seq'[p] = next_tx_seq[p]
    BY <1>1, <1>5 DEF TX_Send, TX, TypeOK
  <2>2. Coming(e)' = Append(Coming(e), x)
    BY <1>5, ComingSent
  <2>3. ASSUME NEW c \in Channel
        PROVE  CreditNow(e, c)' = CreditNow(e, c) /\ CreditNow(p, c)' = CreditNow(p, c)
    <3>1. /\ x \in Element /\ SpentBy(c)[x] \in Nat /\ GivenBy(c)[x] \in Nat
          /\ credits'[e][c] \in Nat /\ tx_flow_credits'[e][c] \in Nat
          /\ credits[e][c] = credits'[e][c] + SpentBy(c)[x]
          /\ tx_flow_credits[e][c] = tx_flow_credits'[e][c] + GivenBy(c)[x]
      BY <2>1, FrameCosts
    <3>2. /\ CreditNow(e, c)' = Total(credits'[e][c], Weigh(SpentBy(c), Append(Coming(e), x)),
                                      Weigh(TakenBy(c), tl_msg_buffer[p]),
                                      tx_flow_credits[p][c], Weigh(GivenBy(c), Coming(p)))
          /\ CreditNow(p, c)' = Total(credits[p][c], Weigh(SpentBy(c), Coming(p)),
                                      Weigh(TakenBy(c), tl_msg_buffer[e]),
                                      tx_flow_credits'[e][c],
                                      Weigh(GivenBy(c), Append(Coming(e), x)))
      BY <1>3, <2>1, <2>2
    <3>3. /\ CreditNow(e, c) = Total(credits[e][c], Weigh(SpentBy(c), Coming(e)),
                                     Weigh(TakenBy(c), tl_msg_buffer[p]),
                                     tx_flow_credits[p][c], Weigh(GivenBy(c), Coming(p)))
          /\ CreditNow(p, c) = Total(credits[p][c], Weigh(SpentBy(c), Coming(p)),
                                     Weigh(TakenBy(c), tl_msg_buffer[e]),
                                     tx_flow_credits[e][c], Weigh(GivenBy(c), Coming(e)))
      BY <1>1 DEF CreditNow
    <3> HIDE DEF x, p
    <3>4. /\ Weigh(SpentBy(c), Coming(e)) \in Nat /\ Weigh(GivenBy(c), Coming(e)) \in Nat
          /\ Weigh(SpentBy(c), Coming(p)) \in Nat /\ Weigh(GivenBy(c), Coming(p)) \in Nat
          /\ Weigh(TakenBy(c), tl_msg_buffer[p]) \in Nat
          /\ Weigh(TakenBy(c), tl_msg_buffer[e]) \in Nat
          /\ credits[p][c] \in Nat /\ tx_flow_credits[p][c] \in Nat
      BY <1>1, CreditTypes
    <3>5. /\ Weigh(SpentBy(c), Append(Coming(e), x))
                = Weigh(SpentBy(c), Coming(e)) + SpentBy(c)[x]
          /\ Weigh(GivenBy(c), Append(Coming(e), x))
                = Weigh(GivenBy(c), Coming(e)) + GivenBy(c)[x]
      BY <3>1, ComingType, WeightTypes, WeighAppend
    <3> QED
      BY <3>1, <3>2, <3>3, <3>4, <3>5, SMT DEF Total
  <2>4. CreditKept
    BY <1>1, <2>3 DEF CreditKept
  <2> QED
    BY <2>4, KeptIsNotMade
<1> QED
  BY <1>2, <1>4, <1>5 DEF Transmit

\* What an accepted frame brings (fc_credit_inc).
LEMMA FrameGives ==
  ASSUME TypeOK, NEW e \in Endpoint, Accept(e), NEW c \in Channel
  PROVE  LET p == Peer(e)
             f == Arrived(e)
             x == ElementOf(f)
         IN  /\ x \in Element /\ f.tlmsg \in TLMsg \cup {NoMsg}
             /\ SpentBy(c)[x] = FlitsOn(c, f.tlmsg)
             /\ SpentBy(c)[x] \in Nat /\ GivenBy(c)[x] \in Nat
             /\ credits'[e][c] = credits[e][c] + GivenBy(c)[x]
             /\ credits'[p] = credits[p] /\ UNCHANGED tx_flow_credits
<1> DEFINE p == Peer(e)
           f == Arrived(e)
           x == ElementOf(f)
<1>1. p \in Endpoint /\ p # e
  BY Peers
<1>2. RX(e) /\ credits' = IF f.chan = 0 THEN credits
                          ELSE [credits EXCEPT ![e][f.chan] = @ + f.credit]
  BY DEF Accept, RX_Class
<1>3. f \in Frame /\ UNCHANGED tx_flow_credits
  BY <1>2, TypeRX
<1>4. /\ f.seq_num \in SeqNum /\ f.chan \in Channel \cup {0}
      /\ f.tlmsg \in TLMsg \cup {NoMsg} /\ f.credit \in Nat
  BY <1>3 DEF Frame
<1>5. x \in Element /\ x.tlmsg = f.tlmsg /\ x.chan = f.chan /\ x.credit = f.credit
  BY <1>4 DEF ElementOf, Element
<1>6. /\ SpentBy(c)[x] = FlitsOn(c, f.tlmsg)
      /\ GivenBy(c)[x] = IF f.chan = c THEN f.credit ELSE 0
      /\ SpentBy(c)[x] \in Nat /\ GivenBy(c)[x] \in Nat
  BY <1>5, WeightTypes DEF SpentBy, GivenBy
<1>7. credits \in [Endpoint -> [Channel -> Nat]]
  BY DEF TypeOK
<1> HIDE DEF f, x, p
<1>8. credits'[p] = credits[p]
  BY <1>1, <1>2, <1>7
<1>9. credits'[e][c] = credits[e][c] + GivenBy(c)[x]
  <2>1. c # 0 /\ credits[e][c] \in Nat
    BY <1>7, SMT DEF Channel, CHANNEL_A, CHANNEL_D
  <2>2. CASE f.chan = c
    BY <1>2, <1>6, <1>7, <2>1, <2>2
  <2>3. CASE f.chan # c
    <3>1. credits'[e][c] = credits[e][c]
      BY <1>2, <1>4, <1>7, <2>3
    <3> QED
      BY <1>6, <2>1, <2>3, <3>1, SMT
  <2> QED
    BY <2>2, <2>3
<1> QED
  BY <1>3, <1>4, <1>5, <1>6, <1>8, <1>9 DEF f, x, p

\* What is yet to be accepted weighs as much less.
LEMMA AcceptedWeighs ==
  ASSUME TypeOK, NEW e \in Endpoint, Accept(e), Awaited(e), NEW c \in Channel
  PROVE  LET p == Peer(e)
             x == ElementOf(Arrived(e))
         IN  /\ Weigh(SpentBy(c), Coming(p)) = SpentBy(c)[x] + Weigh(SpentBy(c), Coming(p)')
             /\ Weigh(GivenBy(c), Coming(p)) = GivenBy(c)[x] + Weigh(GivenBy(c), Coming(p)')
             /\ Weigh(SpentBy(c), Coming(p)') \in Nat /\ Weigh(GivenBy(c), Coming(p)') \in Nat
<1> DEFINE p == Peer(e)
           f == Arrived(e)
           x == ElementOf(f)
<1>1. Coming(p) \in Seq(Element)
  BY Peers, ComingType
<1>2. Weigh(SpentBy(c), Coming(p)) \in Nat /\ Weigh(GivenBy(c), Coming(p)) \in Nat
  BY <1>1, WeightTypes, WeighBy
<1>3. CASE Coming(p) # <<>> /\ Head(Coming(p)) = x /\ Coming(p)' = Tail(Coming(p))
  <2>1. Tail(Coming(p)) \in Seq(Element)
    BY <1>1, <1>3, HeadTailProperties
  <2> QED
    BY <1>1, <1>3, <2>1, WeightTypes, WeighTail, WeighBy
<1>4. CASE Coming(p)' = Coming(p) /\ f.chan = 0 /\ f.tlmsg = NoMsg
  <2>1. x \in Element /\ x.chan = 0 /\ x.tlmsg = NoMsg
    BY <1>4, FrameGives DEF ElementOf
  <2>2. c # 0
    BY SMT DEF Channel, CHANNEL_A, CHANNEL_D
  <2>3. SpentBy(c)[x] = 0 /\ GivenBy(c)[x] = 0
    BY <2>1, <2>2 DEF SpentBy, GivenBy, FlitsOn
  <2>4. /\ Weigh(SpentBy(c), Coming(p)') = Weigh(SpentBy(c), Coming(p))
        /\ Weigh(GivenBy(c), Coming(p)') = Weigh(GivenBy(c), Coming(p))
    BY <1>4
  <2>5. 0 + Weigh(SpentBy(c), Coming(p)) = Weigh(SpentBy(c), Coming(p))
    BY <1>2, SMT
  <2>6. 0 + Weigh(GivenBy(c), Coming(p)) = Weigh(GivenBy(c), Coming(p))
    BY <1>2, SMT
  <2> QED
    BY <1>2, <2>3, <2>4, <2>5, <2>6
<1> QED
  BY <1>3, <1>4, ComingAccepted

\* An accepted frame: its message takes up what it spent, if it is kept.
KeptOrNot(e) ==
    \/ /\ Arrived(e).tlmsg # NoMsg
       /\ tl_msg_buffer'[e] = Append(tl_msg_buffer[e], Arrived(e).tlmsg)
    \/ tl_msg_buffer'[e] = tl_msg_buffer[e]

LEMMA CreditAccept ==
  ASSUME TypeOK, NEW e \in Endpoint, Accept(e), Released(e), Awaited(e),
         tl_msg_buffer'[Peer(e)] = tl_msg_buffer[Peer(e)], KeptOrNot(e)
  PROVE  /\ CreditNotMade
         /\ Arrived(e).tlmsg = NoMsg \/ tl_msg_buffer'[e] # tl_msg_buffer[e] => CreditKept
<1> DEFINE p == Peer(e)
           m == Arrived(e).tlmsg
           x == ElementOf(Arrived(e))
           in == tl_msg_buffer[e]
           rest == Coming(p)'
           Dropped == m # NoMsg /\ tl_msg_buffer'[e] = in
<1>1. p \in Endpoint /\ p # e /\ Peer(p) = e /\ \A d \in Endpoint : d = e \/ d = p
  BY Peers
<1>2. /\ RX(e)
      /\ next_rx_seq' = [next_rx_seq EXCEPT ![e] = tloe_seqnum_next(next_rx_seq[e])]
  BY AcceptsExpected
<1>3. next_rx_seq'[p] = next_rx_seq[p]
  BY <1>1, <1>2 DEF TypeOK
<1>4. Coming(e)' = Coming(e)
  BY <1>2, <1>3, ComingReleased
<1>6. m \in TLMsg \cup {NoMsg}
  <2>1. CHANNEL_A \in Channel
    BY DEF Channel
  <2> QED
    BY <2>1, FrameGives
<1> HIDE DEF p, m, x, in, Dropped
<1>7. ASSUME NEW c \in Channel
      PROVE  /\ CreditNow(e, c)' = CreditNow(e, c)
             /\ CreditNow(p, c)' <= CreditNow(p, c)
             /\ ~Dropped => CreditNow(p, c)' = CreditNow(p, c)
  <2> DEFINE cost == SpentBy(c)[x]
             gain == GivenBy(c)[x]
             load == Weigh(TakenBy(c), in)
             more == Weigh(TakenBy(c), tl_msg_buffer'[e])
  <2>1. /\ x \in Element /\ cost \in Nat /\ gain \in Nat /\ cost = FlitsOn(c, m)
        /\ credits'[e][c] = credits[e][c] + gain
        /\ credits'[p] = credits[p] /\ UNCHANGED tx_flow_credits
    BY FrameGives DEF p, m, x
  <2>2. /\ in \in Seq(TLMsg) /\ load \in Nat /\ credits[e][c] \in Nat
    BY CreditTypes DEF in
  <2>3. /\ Weigh(SpentBy(c), Coming(e)) \in Nat /\ Weigh(GivenBy(c), Coming(e)) \in Nat
        /\ Weigh(TakenBy(c), tl_msg_buffer[p]) \in Nat
        /\ tx_flow_credits[e][c] \in Nat
        /\ credits[p][c] \in Nat /\ tx_flow_credits[p][c] \in Nat
    BY <1>1, CreditTypes
  <2>4. /\ Weigh(SpentBy(c), Coming(p)) = cost + Weigh(SpentBy(c), rest)
        /\ Weigh(GivenBy(c), Coming(p)) = gain + Weigh(GivenBy(c), rest)
        /\ Weigh(SpentBy(c), rest) \in Nat /\ Weigh(GivenBy(c), rest) \in Nat
    BY AcceptedWeighs DEF p, x
  <2>5. more <= load + cost /\ more \in Nat /\ (~Dropped => more = load + cost)
    <3>1. CASE m # NoMsg /\ tl_msg_buffer'[e] = Append(in, m)
      <4>1. m \in TLMsg
        BY <1>6, <3>1
      <4>2. more = load + TakenBy(c)[m]
        BY <2>2, <3>1, <4>1, WeightTypes, WeighAppend
      <4>3. TakenBy(c)[m] = cost
        BY <2>1, <4>1 DEF TakenBy
      <4> HIDE DEF more, load, cost
      <4> QED
        BY <2>1, <2>2, <4>2, <4>3, SMT
    <3>2. CASE tl_msg_buffer'[e] = in
      <4>1. more = load
        BY <3>2
      <4>2. ~Dropped => cost = 0
        BY <2>1, <3>2 DEF Dropped, FlitsOn
      <4> HIDE DEF more, load, cost
      <4> QED
        BY <2>1, <2>2, <4>1, <4>2, SMT
    <3> QED
      BY <3>1, <3>2 DEF KeptOrNot, m, in
  <2>6. /\ CreditNow(e, c)' = Total(credits[e][c] + gain, Weigh(SpentBy(c), Coming(e)),
                                    Weigh(TakenBy(c), tl_msg_buffer[p]),
                                    tx_flow_credits[p][c], Weigh(GivenBy(c), rest))
        /\ CreditNow(p, c)' = Total(credits[p][c], Weigh(SpentBy(c), rest), more,
                                    tx_flow_credits[e][c], Weigh(GivenBy(c), Coming(e)))
    BY <1>1, <1>4, <2>1 DEF CreditNow, p
  <2>7. /\ CreditNow(e, c) = Total(credits[e][c], Weigh(SpentBy(c), Coming(e)),
                                   Weigh(TakenBy(c), tl_msg_buffer[p]),
                                   tx_flow_credits[p][c], Weigh(GivenBy(c), Coming(p)))
        /\ CreditNow(p, c) = Total(credits[p][c], Weigh(SpentBy(c), Coming(p)), load,
                                   tx_flow_credits[e][c], Weigh(GivenBy(c), Coming(e)))
    BY <1>1 DEF CreditNow, p, in
  <2> HIDE DEF cost, gain, load, more
  <2>8. CreditNow(e, c)' = CreditNow(e, c)
    <3> DEFINE a == Weigh(SpentBy(c), Coming(e))
               b == Weigh(TakenBy(c), tl_msg_buffer[p])
               g == Weigh(GivenBy(c), rest)
    <3>1. CreditNow(e, c) = Total(credits[e][c], a, b, tx_flow_credits[p][c], gain + g)
      BY <2>4, <2>7
    <3>2. CreditNow(e, c)' = Total(credits[e][c] + gain, a, b, tx_flow_credits[p][c], g)
      BY <2>6
    <3>3. /\ credits[e][c] \in Nat /\ tx_flow_credits[p][c] \in Nat /\ gain \in Nat
          /\ a \in Nat /\ b \in Nat /\ g \in Nat
      BY <2>1, <2>2, <2>3, <2>4
    <3> HIDE DEF a, b, g
    <3>4. Total(credits[e][c] + gain, a, b, tx_flow_credits[p][c], g)
             = Total(credits[e][c], a, b, tx_flow_credits[p][c], gain + g)
      BY <3>3, SMT DEF Total
    <3> QED
      BY <3>1, <3>2, <3>4
  <2>9. /\ CreditNow(p, c)' <= CreditNow(p, c)
        /\ ~Dropped => CreditNow(p, c)' = CreditNow(p, c)
    <3> DEFINE a == Weigh(SpentBy(c), rest)
               g == Weigh(GivenBy(c), Coming(e))
    <3>1. CreditNow(p, c) = Total(credits[p][c], cost + a, load, tx_flow_credits[e][c], g)
      BY <2>4, <2>7
    <3>2. CreditNow(p, c)' = Total(credits[p][c], a, more, tx_flow_credits[e][c], g)
      BY <2>6
    <3>3. /\ credits[p][c] \in Nat /\ tx_flow_credits[e][c] \in Nat /\ cost \in Nat
          /\ a \in Nat /\ load \in Nat /\ g \in Nat
      BY <2>1, <2>2, <2>3, <2>4
    <3> HIDE DEF a, g
    <3>4. more \in Nat /\ more <= load + cost
      BY <2>5
    <3>5. Total(credits[p][c], a, more, tx_flow_credits[e][c], g)
             <= Total(credits[p][c], cost + a, load, tx_flow_credits[e][c], g)
      BY <3>3, <3>4, SMT DEF Total
    <3>6. Total(credits[p][c], a, load + cost, tx_flow_credits[e][c], g)
             = Total(credits[p][c], cost + a, load, tx_flow_credits[e][c], g)
      BY <3>3, SMT DEF Total
    <3> QED
      BY <2>5, <3>1, <3>2, <3>5, <3>6
  <2> QED
    BY <2>8, <2>9
<1>8. CreditNotMade
  <2>1. \A c \in Channel : CreditNow(e, c)' <= CreditNow(e, c)
    BY <1>7, CreditIsNat
  <2>2. \A c \in Channel : CreditNow(p, c)' <= CreditNow(p, c)
    BY <1>7
  <2> QED
    BY <1>1, <2>1, <2>2 DEF CreditNotMade
<1>9. ~Dropped => CreditKept
  BY <1>1, <1>7 DEF CreditKept
<1> QED
  BY <1>8, <1>9 DEF Dropped, m, in

\* RX: only a message that does not fit is lost, and its credit with it.
LEMMA CreditReceive ==
  ASSUME TypeOK, InOrder, NEW e \in Endpoint, Receive(e)
  PROVE  /\ CreditNotMade
         /\ ~ (RX_Normal(e) /\ Len(tl_msg_buffer[e]) = TL_MSG_BUFFER_CAP) => CreditKept
<1> DEFINE p == Peer(e)
<1>1. p \in Endpoint /\ p # e /\ Peer(p) = e /\ \A d \in Endpoint : d = e \/ d = p
  BY Peers
<1>2. CASE RX_Empty(e)
  <2>1. UNCHANGED <<credits, tx_flow_credits, tl_msg_buffer, retransmit_buffer,
                    next_tx_seq, next_rx_seq>>
    BY <1>2 DEF RX_Empty, linkVars, creditVars
  <2> QED
    BY <2>1, CreditSame, KeptIsNotMade
<1>3. CASE RX_AckOnly(e) \/ RX_Duplicate(e) \/ RX_OutOfSequence(e)
  <2>1. RX(e) /\ UNCHANGED <<credits, tx_flow_credits, tl_msg_buffer, next_rx_seq>>
    BY <1>3 DEF RX_AckOnly, RX_Duplicate, RX_OutOfSequence, RX_Class, Report, RX
  <2>2. Coming(e)' = Coming(e)
    BY <2>1, ComingReleased DEF InOrder
  <2>3. Coming(p)' = Coming(p)
    <3>1. retransmit_buffer'[p] = retransmit_buffer[p] /\ next_tx_seq' = next_tx_seq
      BY <1>1, <2>1 DEF RX, TypeOK
    <3> QED
      BY <1>1, <2>1, <3>1, ComingSame
  <2>4. CreditKept
    BY <1>1, <2>1, <2>2, <2>3 DEF CreditKept, CreditNow
  <2> QED
    BY <2>4, KeptIsNotMade
<1>4. CASE RX_Normal(e)
  <2>1. /\ Accept(e) /\ Arrived(e).tlmsg # NoMsg
        /\ \/ tl_msg_buffer' = [tl_msg_buffer EXCEPT ![e] = Append(@, Arrived(e).tlmsg)]
           \/ /\ UNCHANGED tl_msg_buffer
              /\ Len(tl_msg_buffer[e]) = TL_MSG_BUFFER_CAP
    BY <1>4 DEF RX_Normal
  <2>2. /\ tl_msg_buffer'[p] = tl_msg_buffer[p]
        /\ \/ tl_msg_buffer'[e] = Append(tl_msg_buffer[e], Arrived(e).tlmsg)
           \/ /\ tl_msg_buffer'[e] = tl_msg_buffer[e]
              /\ Len(tl_msg_buffer[e]) = TL_MSG_BUFFER_CAP
    BY <1>1, <2>1 DEF TypeOK
  <2>3. Append(tl_msg_buffer[e], Arrived(e).tlmsg) # tl_msg_buffer[e]
    <3>1. tl_msg_buffer[e] \in Seq(TLMsg)
      BY DEF TypeOK
    <3>2. Arrived(e).tlmsg \in TLMsg
      <4>1. CHANNEL_A \in Channel
        BY DEF Channel
      <4> QED
        BY <2>1, <4>1, FrameGives
    <3>3. /\ Len(Append(tl_msg_buffer[e], Arrived(e).tlmsg)) = Len(tl_msg_buffer[e]) + 1
          /\ Len(tl_msg_buffer[e]) \in Nat
      BY <3>1, <3>2, AppendProperties, LenProperties
    <3>4. Len(Append(tl_msg_buffer[e], Arrived(e).tlmsg)) # Len(tl_msg_buffer[e])
      BY <3>3, SMT
    <3> QED
      BY <3>4
  <2>4. Released(e) /\ Awaited(e)
    BY <2>1, AcceptsExpected DEF InOrder
  <2> QED
    BY <1>4, <2>1, <2>2, <2>3, <2>4, CreditAccept DEF KeptOrNot
<1>5. CASE RX_Zero(e)
  <2>1. Accept(e) /\ Released(e) /\ Awaited(e)
    BY <1>5, AcceptsExpected DEF RX_Zero, InOrder
  <2> QED
    BY <1>5, <2>1, CreditAccept DEF RX_Zero, KeptOrNot
<1> QED
  BY <1>2, <1>3, <1>4, <1>5 DEF Receive

\* tl_handler: the flits of a handled message are owed
\* (add_channel_flow_credits).
LEMMA CreditHandle ==
  ASSUME TypeOK, NEW e \in Endpoint, Handle(e)
  PROVE  CreditKept
<1> DEFINE p == Peer(e)
           m == Oldest(e)
           in == tl_msg_buffer[e]
           rest == Tail(in)
<1>1. p \in Endpoint /\ p # e /\ Peer(p) = e /\ \A d \in Endpoint : d = e \/ d = p
  BY Peers
<1>2. CASE TL_Skip(e)
  BY <1>2, CreditSame DEF TL_Skip, linkVars, creditVars
<1>3. CASE tl_handler(e)
  <2>1. /\ UNCHANGED <<credits, linkVars>> /\ in # <<>>
        /\ tl_msg_buffer' = [tl_msg_buffer EXCEPT ![e] = rest]
        /\ tx_flow_credits' = [tx_flow_credits EXCEPT
                                  ![e][tlmsg_get_chan(m)] = @ + tlmsg_get_flits_cnt(m)]
    BY <1>3 DEF tl_handler
  <2>2. in \in Seq(TLMsg) /\ rest \in Seq(TLMsg) /\ m = Head(in) /\ m \in TLMsg
    <3>1. in \in Seq(TLMsg)
      BY DEF TypeOK
    <3> QED
      BY <2>1, <3>1, HeadTailProperties DEF Oldest
  <2>3. tl_msg_buffer'[e] = rest /\ tl_msg_buffer'[p] = tl_msg_buffer[p]
    BY <1>1, <2>1 DEF TypeOK
  <2>4. \A d \in Endpoint : Coming(d)' = Coming(d)
    BY <2>1, ComingSame DEF linkVars
  <2>5. tlmsg_get_chan(m) \in Channel /\ tlmsg_get_flits_cnt(m) \in Nat /\ m # NoMsg
    BY <2>2, MsgTypes, SMT
  <2> HIDE DEF p, m, in, rest
  <2>6. tx_flow_credits'[p] = tx_flow_credits[p]
    BY <1>1, <2>1 DEF TypeOK
  <2>7. ASSUME NEW c \in Channel
        PROVE  CreditNow(e, c)' = CreditNow(e, c) /\ CreditNow(p, c)' = CreditNow(p, c)
    <3>1. /\ Weigh(TakenBy(c), in) = FlitsOn(c, m) + Weigh(TakenBy(c), rest)
          /\ FlitsOn(c, m) \in Nat /\ Weigh(TakenBy(c), rest) \in Nat
      <4>1. TakenBy(c)[m] = FlitsOn(c, m)
        BY <2>2 DEF TakenBy
      <4>2. Weigh(TakenBy(c), in) = TakenBy(c)[m] + Weigh(TakenBy(c), Tail(in))
        BY <2>1, <2>2, WeightTypes, WeighTail
      <4> QED
        BY <2>2, <4>1, <4>2, WeightTypes, WeighBy DEF rest
    <3>2. tx_flow_credits'[e][c] = tx_flow_credits[e][c] + FlitsOn(c, m)
      <4>1. tx_flow_credits \in [Endpoint -> [Channel -> Nat]] /\ tx_flow_credits[e][c] \in Nat
        BY DEF TypeOK
      <4>2. CASE tlmsg_get_chan(m) = c
        <5>1. tx_flow_credits'[e][c] = tx_flow_credits[e][c] + tlmsg_get_flits_cnt(m)
          BY <2>1, <4>1, <4>2
        <5> QED
          BY <2>5, <4>2, <5>1 DEF FlitsOn
      <4>3. CASE tlmsg_get_chan(m) # c
        <5>1. tx_flow_credits'[e][c] = tx_flow_credits[e][c]
          BY <2>1, <2>5, <4>1, <4>3
        <5>2. FlitsOn(c, m) = 0
          BY <4>3 DEF FlitsOn
        <5> QED
          BY <4>1, <5>1, <5>2, SMT
      <4> QED
        BY <4>2, <4>3
    <3>3. CreditNow(e, c)' = CreditNow(e, c)
      BY <1>1, <2>1, <2>3, <2>4, <2>6 DEF CreditNow, p
    <3>4. /\ CreditNow(p, c)' = Total(credits[p][c], Weigh(SpentBy(c), Coming(p)),
                                      Weigh(TakenBy(c), rest),
                                      tx_flow_credits'[e][c], Weigh(GivenBy(c), Coming(e)))
          /\ CreditNow(p, c) = Total(credits[p][c], Weigh(SpentBy(c), Coming(p)),
                                     Weigh(TakenBy(c), in),
                                     tx_flow_credits[e][c], Weigh(GivenBy(c), Coming(e)))
      BY <1>1, <2>1, <2>3, <2>4 DEF CreditNow, in
    <3>5. /\ credits[p][c] \in Nat /\ tx_flow_credits[e][c] \in Nat
          /\ Weigh(SpentBy(c), Coming(p)) \in Nat /\ Weigh(GivenBy(c), Coming(e)) \in Nat
      BY <1>1, CreditTypes
    <3> QED
      BY <3>1, <3>2, <3>3, <3>4, <3>5, SMT DEF Total
  <2> QED
    BY <1>1, <2>7 DEF CreditKept
<1> QED
  BY <1>2, <1>3 DEF Handle, handle_A_PUTFULLDATA_opcode, handle_A_GET_opcode, handle_D_opcode

-----------------------------------------------------------------------------
(***************************************************************************)
(* Room                                                                     *)
(***************************************************************************)
\* CreditNeverMade and CreditConservation, of these sums.
CreditBound == \A e \in Endpoint : \A c \in Channel : CreditNow(e, c) <= CREDIT

CreditExact == \A e \in Endpoint : \A c \in Channel : CreditNow(e, c) = CREDIT

\* Every message takes up credit of one of the channels.
LEMMA MessagesWeigh ==
  ASSUME NEW m \in TLMsg
  PROVE  FlitsOn(CHANNEL_A, m) + FlitsOn(CHANNEL_D, m) >= 1
<1>1. /\ m # NoMsg /\ tlmsg_get_chan(m) \in {CHANNEL_A, CHANNEL_D}
      /\ tlmsg_get_flits_cnt(m) \in 1 .. 3
  BY MsgTypes DEF Channel
<1>2. FlitsOn(CHANNEL_A, m) \in Nat /\ FlitsOn(CHANNEL_D, m) \in Nat
  BY WeightTypes DEF Channel
<1>3. \/ FlitsOn(CHANNEL_A, m) = tlmsg_get_flits_cnt(m)
      \/ FlitsOn(CHANNEL_D, m) = tlmsg_get_flits_cnt(m)
  BY <1>1 DEF FlitsOn
<1> QED
  BY <1>1, <1>2, <1>3, SMT

\* While no credit is made, a queue with room for the credit of both channels
\* has room for every message that is accepted.
LEMMA CreditRoom ==
  ASSUME TypeOK, InOrder, CreditBound, TL_MSG_BUFFER_CAP >= CREDIT + CREDIT,
         NEW e \in Endpoint, RX_Normal(e)
  PROVE  Len(tl_msg_buffer[e]) < TL_MSG_BUFFER_CAP
<1> DEFINE p == Peer(e)
           m == Arrived(e).tlmsg
           x == ElementOf(Arrived(e))
           in == tl_msg_buffer[e]
           Spent(c) == Weigh(SpentBy(c), Coming(p))
           Load(c) == Weigh(TakenBy(c), in)
<1>1. p \in Endpoint /\ Peer(p) = e
  BY Peers
<1>2. Accept(e) /\ m # NoMsg
  BY DEF RX_Normal
<1>3. CHANNEL_A \in Channel /\ CHANNEL_D \in Channel
  BY DEF Channel
<1>4. m \in TLMsg
  BY <1>2, <1>3, FrameGives
<1>5. ASSUME NEW c \in Channel
      PROVE  /\ Spent(c) \in Nat /\ Load(c) \in Nat
             /\ FlitsOn(c, m) <= Spent(c) /\ FlitsOn(c, m) \in Nat
             /\ Spent(c) + Load(c) <= CREDIT
  <2>1. /\ x \in Element /\ SpentBy(c)[x] = FlitsOn(c, m) /\ SpentBy(c)[x] \in Nat
    BY <1>2, FrameGives
  <2>2. Awaited(e)
    BY <1>2, AcceptsExpected DEF InOrder
  <2>3. /\ Spent(c) = SpentBy(c)[x] + Weigh(SpentBy(c), Coming(p)')
        /\ Weigh(SpentBy(c), Coming(p)') \in Nat
    BY <1>2, <2>2, AcceptedWeighs
  <2>5. /\ Spent(c) \in Nat /\ credits[p][c] \in Nat
        /\ Weigh(GivenBy(c), Coming(e)) \in Nat
        /\ tx_flow_credits[e][c] \in Nat /\ Load(c) \in Nat
    BY <1>1, CreditTypes
  <2>6. Total(credits[p][c], Spent(c), Load(c), tx_flow_credits[e][c],
              Weigh(GivenBy(c), Coming(e))) <= CREDIT
    BY <1>1 DEF CreditBound, CreditNow
  <2> HIDE DEF m, x, in, p, Spent, Load
  <2>7. FlitsOn(c, m) <= Spent(c) /\ FlitsOn(c, m) \in Nat
    BY <2>1, <2>3, SMT
  <2>8. Spent(c) + Load(c) <= CREDIT
    BY <2>5, <2>6, SizeAssumption, SMT DEF Total
  <2> QED
    BY <2>5, <2>7, <2>8
<1>6. FlitsOn(CHANNEL_A, m) + FlitsOn(CHANNEL_D, m) >= 1
  BY <1>4, MessagesWeigh
<1>7. Load(CHANNEL_A) + Load(CHANNEL_D) >= Len(in)
  <2>1. in \in Seq(TLMsg)
    BY DEF TypeOK
  <2>2. \A y \in TLMsg : TakenBy(CHANNEL_A)[y] + TakenBy(CHANNEL_D)[y] >= 1
    BY MessagesWeigh DEF TakenBy
  <2> QED
    BY <1>3, <2>1, <2>2, WeightTypes, WeighsItsLength
<1>8. Len(in) \in Nat
  BY LenProperties DEF TypeOK
<1> HIDE DEF m, in, Spent, Load
<1>9. /\ Spent(CHANNEL_A) \in Nat /\ Load(CHANNEL_A) \in Nat
      /\ FlitsOn(CHANNEL_A, m) <= Spent(CHANNEL_A) /\ FlitsOn(CHANNEL_A, m) \in Nat
      /\ Spent(CHANNEL_A) + Load(CHANNEL_A) <= CREDIT
  BY <1>3, <1>5
<1>10. /\ Spent(CHANNEL_D) \in Nat /\ Load(CHANNEL_D) \in Nat
       /\ FlitsOn(CHANNEL_D, m) <= Spent(CHANNEL_D) /\ FlitsOn(CHANNEL_D, m) \in Nat
       /\ Spent(CHANNEL_D) + Load(CHANNEL_D) <= CREDIT
  BY <1>3, <1>5
<1>11. CREDIT \in Nat /\ TL_MSG_BUFFER_CAP \in Nat
  BY SizeAssumption
<1>12. Len(in) < TL_MSG_BUFFER_CAP
  BY <1>6, <1>7, <1>8, <1>9, <1>10, <1>11, SMT
<1> QED
  BY <1>12 DEF in

-----------------------------------------------------------------------------
(***************************************************************************)
(* The invariants                                                           *)
(***************************************************************************)
LEMMA WeighNothing ==
  ASSUME NEW S, NEW w \in [S -> Nat]
  PROVE  Weigh(w, <<>>) = 0
<1>1. <<>> \in Seq(S) /\ Len(<<>>) = 0
  BY EmptySeq
<1>2. PICK sum : Weighs(w, <<>>, sum)
  BY <1>1, WeighBy
<1>3. Weigh(w, <<>>) = sum[Len(<<>>)]
  BY <1>1, <1>2, WeighBy
<1> QED
  BY <1>1, <1>2, <1>3 DEF Weighs

\* The link of both directions keeps the frames in order.
LEMMA LinkInOrder ==
  ASSUME TypeOK, WindowInv, LinkInv
  PROVE  InOrder
<1>1. ASSUME NEW e \in Endpoint
      PROVE  Unseen(e) \in Nat /\ Unseen(e) <= Len(retransmit_buffer[e])
  BY ComingType DEF LinkInv, Link, Unseen
<1>2. Near
  <2> SUFFICES ASSUME NEW e \in Endpoint
               PROVE  Unseen(e) < HALF_MAX_SEQ_NUM
    BY DEF Near
  <2>1. Len(retransmit_buffer[e]) \in Nat /\ Len(retransmit_buffer[e]) <= WINDOW_SIZE
    BY LinkTypes
  <2> QED
    BY <1>1, <2>1, Sizes, SMT
<1>3. ASSUME NEW e \in Endpoint, RX(e) PROVE Released(e)
  BY <1>3, LinkRX DEF Link, Unseen, Released
<1>4. ASSUME NEW e \in Endpoint, Accept(e) PROVE Awaited(e)
  <2> DEFINE p == Peer(e)
             R == next_rx_seq[e]
             N == next_tx_seq[p]
             B == retransmit_buffer[p]
             d == Dist(R, N)
             f == Arrived(e)
  <2>1. p \in Endpoint /\ p # e /\ Peer(p) = e /\ d = Unseen(p)
    BY Peers DEF Unseen
  <2>2. d \in Nat /\ d <= Len(B)
    BY <1>1, <2>1
  <2>3. RX(e) /\ Numbered(f) /\ f.seq_num = R /\ fabric[e] # <<>>
    BY <1>4, AcceptsExpected DEF RX
  <2>4. fabric[e] \in Seq(Frame)
    BY LinkTypes
  <2>5. 1 \in DOMAIN fabric[e] /\ f = fabric[e][1]
    <3>1. fabric[e] = <<>> \/ Len(fabric[e]) # 0
      BY <2>4, EmptySeq
    <3>2. Len(fabric[e]) \in Nat /\ DOMAIN fabric[e] = 1 .. Len(fabric[e])
      BY <2>4, LenProperties
    <3>3. 1 \in DOMAIN fabric[e]
      BY <2>3, <3>1, <3>2, SMT
    <3> QED
      BY <2>3, <2>4, <3>3, HeadTailProperties DEF Arrived
  <2>6. NumbersInOrder(fabric[e], N, d, WINDOW_SIZE) /\ Copies(fabric[e], N, d, B)
    <3>1. Link(N, R, B, fabric[e], fabric[p], ack_buffer[e])
      BY <2>1 DEF LinkInv
    <3> QED
      BY <3>1 DEF Link
  <2> HIDE DEF f, p
  <2>7. d >= 1
    <3>1. d \in 1 .. d + WINDOW_SIZE
      BY <2>3, <2>5, <2>6 DEF NumbersInOrder
    <3> QED
      BY <3>1, SMT
  <2>8. ElementOf(f) = B[Len(B) - d + 1]
    <3>1. d <= d
      BY <2>2, SMT
    <3> QED
      BY <2>3, <2>5, <2>6, <3>1 DEF Copies
  <2> QED
    BY <2>1, <2>2, <2>7, <2>8 DEF Awaited, f, p
<1> QED
  BY <1>2, <1>3, <1>4 DEF InOrder

LEMMA CreditInit ==
  ASSUME Init, TypeOK
  PROVE  CreditExact
<1>1. ASSUME NEW e \in Endpoint PROVE Coming(e) = <<>>
  <2>1. retransmit_buffer[e] = <<>>
    BY <1>1 DEF Init
  <2>2. Coming(e) \in Seq(Element) /\ Len(Coming(e)) = Waiting(e)
    BY ComingType
  <2>3. Waiting(e) = 0
    <3>1. Waiting(e) \in Nat /\ Waiting(e) <= Len(retransmit_buffer[e])
      BY ComingType
    <3>2. Len(<<>>) = 0
      BY EmptySeq
    <3> QED
      BY <2>1, <3>1, <3>2, SMT
  <2> QED
    BY <2>2, <2>3, EmptySeq
<1>2. ASSUME NEW e \in Endpoint, NEW c \in Channel PROVE CreditNow(e, c) = CREDIT
  <2>1. Peer(e) \in Endpoint
    BY Peers
  <2>2. /\ credits[e][c] = CREDIT /\ tx_flow_credits[Peer(e)][c] = 0
        /\ tl_msg_buffer[Peer(e)] = <<>>
    BY <2>1 DEF Init
  <2>3. /\ Weigh(SpentBy(c), <<>>) = 0 /\ Weigh(GivenBy(c), <<>>) = 0
        /\ Weigh(TakenBy(c), <<>>) = 0
    BY WeightTypes, WeighNothing
  <2>4. CreditNow(e, c) = Total(CREDIT, 0, 0, 0, 0)
    BY <1>1, <2>1, <2>2, <2>3 DEF CreditNow
  <2> QED
    BY <2>4, SizeAssumption, SMT DEF Total
<1> QED
  BY <1>2 DEF CreditExact

\* No action makes credit; only a failed allocation and a full tl_msg_buffer
\* lose it.
LEMMA CreditStep ==
  ASSUME TypeOK, InOrder, [Next]_vars
  PROVE  /\ CreditNotMade
         /\ (/\ alloc_failed' = alloc_failed
             /\ \A e \in Endpoint : RX_Normal(e) => Len(tl_msg_buffer[e]) < TL_MSG_BUFFER_CAP)
            => CreditKept
<1> DEFINE Places == <<credits, tx_flow_credits, tl_msg_buffer, retransmit_buffer,
                       next_tx_seq, next_rx_seq>>
<1>1. ASSUME UNCHANGED Places PROVE CreditKept
  BY <1>1, CreditSame
<1>2. ASSUME NEW e \in Endpoint, Select(e) \/ Submit(e) \/ Lose(e) PROVE CreditKept
  <2>1. CASE Select(e)
    BY <1>1, <2>1 DEF Select, Select_Pending, Select_Response, Select_Request, SelectBuffer,
                      linkVars, creditVars
  <2>2. CASE Submit(e)
    BY <1>1, <2>2 DEF Submit, linkVars, creditVars
  <2>3. CASE Lose(e)
    BY <1>1, <2>3 DEF Lose, creditVars
  <2> QED
    BY <1>2, <2>1, <2>2, <2>3
<1>3. ASSUME UNCHANGED vars PROVE CreditKept
  <2>1. UNCHANGED linkVars /\ UNCHANGED creditVars /\ UNCHANGED tl_msg_buffer
    BY <1>3 DEF vars
  <2> QED
    BY <1>1, <2>1 DEF linkVars, creditVars
<1>4. ASSUME NEW e \in Endpoint, Handle(e) PROVE CreditKept
  BY <1>4, CreditHandle
<1>5. ASSUME NEW e \in Endpoint, Receive(e)
      PROVE  /\ CreditNotMade
             /\ (RX_Normal(e) => Len(tl_msg_buffer[e]) < TL_MSG_BUFFER_CAP) => CreditKept
  <2>1. ASSUME Len(tl_msg_buffer[e]) < TL_MSG_BUFFER_CAP
        PROVE  Len(tl_msg_buffer[e]) # TL_MSG_BUFFER_CAP
    <3>1. Len(tl_msg_buffer[e]) \in Nat
      BY LenProperties DEF TypeOK
    <3> QED
      BY <2>1, <3>1, SizeAssumption, SMT
  <2> QED
    BY <1>5, <2>1, CreditReceive
<1>6. ASSUME NEW e \in Endpoint, NEW elapsed, Transmit(e, elapsed)
      PROVE  CreditNotMade /\ (alloc_failed' = alloc_failed => CreditKept)
  BY <1>6, CreditTransmit DEF InOrder
<1> HIDE DEF Places
<1>7. ASSUME NEW e \in Endpoint, Worker(e)
      PROVE  /\ CreditNotMade
             /\ (/\ alloc_failed' = alloc_failed
                 /\ RX_Normal(e) => Len(tl_msg_buffer[e]) < TL_MSG_BUFFER_CAP)
                => CreditKept
  <2>1. CASE Select(e)
    BY <1>2, <2>1, KeptIsNotMade
  <2>2. CASE \E elapsed \in {"fresh", "half", "full"} : Transmit(e, elapsed)
    BY <1>6, <2>2
  <2>3. CASE Receive(e)
    BY <1>5, <2>3
  <2>4. CASE Handle(e)
    BY <1>4, <2>4, KeptIsNotMade
  <2> QED
    BY <1>7, <2>1, <2>2, <2>3, <2>4 DEF Worker
<1>8. \/ CreditKept
      \/ \E e \in Endpoint : Worker(e)
  BY <1>2, <1>3 DEF Next
<1> QED
  BY <1>7, <1>8, KeptIsNotMade

\* Without failing allocations, and with room for all credit, none is lost.
LEMMA NothingLost ==
  ASSUME TypeOK, [Next]_vars, MAX_ALLOC_FAILED = 0
  PROVE  alloc_failed' = alloc_failed
<1>1. ASSUME UNCHANGED boundVars PROVE alloc_failed' = alloc_failed
  BY <1>1 DEF boundVars
<1>2. ASSUME UNCHANGED vars PROVE UNCHANGED boundVars
  BY <1>2 DEF vars
<1>3. ASSUME NEW e \in Endpoint, Select(e) \/ Submit(e) PROVE UNCHANGED boundVars
  BY <1>3 DEF Select, Select_Pending, Select_Response, Select_Request, SelectBuffer, Submit
<1>4. ASSUME NEW e \in Endpoint, Lose(e) PROVE alloc_failed' = alloc_failed
  BY <1>4 DEF Lose
<1>5. ASSUME NEW e \in Endpoint, Receive(e) PROVE UNCHANGED boundVars
  BY <1>5 DEF Receive, RX_Empty, RX_AckOnly, RX_Normal, RX_Zero, Accept, RX_Duplicate,
              RX_OutOfSequence, RX_Class, RX
<1>6. ASSUME NEW e \in Endpoint, Handle(e) PROVE UNCHANGED boundVars
  BY <1>6 DEF Handle, TL_Skip, handle_A_PUTFULLDATA_opcode, handle_A_GET_opcode,
              handle_D_opcode, tl_handler
<1>7. ASSUME NEW e \in Endpoint, NEW elapsed, Transmit(e, elapsed)
      PROVE  alloc_failed' = alloc_failed
  <2>1. ~(alloc_failed < MAX_ALLOC_FAILED)
    BY SMT DEF TypeOK
  <2> QED
    BY <1>7, <2>1 DEF Transmit, TX_Nothing, TX_Send, TX_AllocFailed
<1> QED
  BY <1>1, <1>2, <1>3, <1>4, <1>5, <1>6, <1>7 DEF Next, Worker

CreditsAreNat == \A e \in Endpoint : \A c \in Channel : CreditNow(e, c) \in Nat

LEMMA ExactIsBound ==
  ASSUME CreditExact
  PROVE  CreditBound
<1>1. CREDIT <= CREDIT
  BY SizeAssumption, SMT
<1> QED
  BY <1>1 DEF CreditExact, CreditBound

-----------------------------------------------------------------------------
(***************************************************************************)
(* Theorems.  TL_MSG_BUFFER_CAP is assumed to be that of the code, or any    *)
(* that holds the credit of both channels: 9999 messages against            *)
(* 2^CREDIT_DEFAULT = 1024 flits each.                                      *)
(***************************************************************************)
LEMMA CreditBounded == Spec /\ []AckBufferFresh => []CreditBound
<1>1. TypeOK /\ Init => CreditBound
  BY CreditInit, ExactIsBound
<1>2. TypeOK /\ WindowInv /\ LinkInv /\ CreditBound /\ CreditsAreNat' /\ [Next]_vars
         => CreditBound'
  <2> SUFFICES ASSUME TypeOK, WindowInv, LinkInv, CreditBound, CreditsAreNat',
                      [Next]_vars, NEW e \in Endpoint, NEW c \in Channel
               PROVE  CreditNow(e, c)' <= CREDIT
    BY DEF CreditBound
  <2>1. CreditNow(e, c)' <= CreditNow(e, c) /\ CreditNow(e, c) <= CREDIT
    BY LinkInOrder, CreditStep DEF CreditNotMade, CreditBound
  <2>2. CreditNow(e, c) \in Nat
    BY CreditIsNat
  <2>3. CreditNow(e, c)' \in Nat
    BY DEF CreditsAreNat
  <2> QED
    BY <2>1, <2>2, <2>3, SizeAssumption, SMT
<1>3. TypeOK => CreditsAreNat
  BY CreditIsNat DEF CreditsAreNat
<1> QED
  BY <1>1, <1>2, <1>3, TypeCorrect, WindowCorrect, LinkCorrect, PTL DEF Spec

\* Nothing the endpoints do makes credit, whatever is lost, repeated, not
\* allocated or dropped for want of room: a sender never believes in room that
\* the receiver does not have (fc_credit_dec, fc_credit_inc,
\* add_channel_flow_credits, get_outgoing_credits).
THEOREM NoCreditMade == Spec /\ []AckBufferFresh => []CreditNeverMade
<1>1. TypeOK /\ WindowInv /\ LinkInv /\ CreditBound => CreditNeverMade
  BY LinkInOrder, CreditIs DEF CreditBound, CreditNeverMade, InOrder
<1> QED
  BY <1>1, CreditBounded, TypeCorrect, WindowCorrect, LinkCorrect, PTL

\* As long as retransmit elements can be allocated, none is lost either: every
\* flit a frame spends comes back in the end (TX, tl_handler, RX).
THEOREM CreditIsConserved ==
  ASSUME MAX_ALLOC_FAILED = 0, TL_MSG_BUFFER_CAP >= CREDIT + CREDIT
  PROVE  Spec /\ []AckBufferFresh => []CreditConservation
<1>1. TypeOK /\ Init => CreditExact
  BY CreditInit
<1>2. TypeOK /\ WindowInv /\ LinkInv /\ CreditExact /\ [Next]_vars => CreditExact'
  <2> SUFFICES ASSUME TypeOK, WindowInv, LinkInv, CreditExact, [Next]_vars
               PROVE  CreditExact'
    OBVIOUS
  <2>1. alloc_failed' = alloc_failed
    BY NothingLost
  <2>2. \A e \in Endpoint : RX_Normal(e) => Len(tl_msg_buffer[e]) < TL_MSG_BUFFER_CAP
    BY LinkInOrder, ExactIsBound, CreditRoom
  <2>3. CreditKept
    BY <2>1, <2>2, LinkInOrder, CreditStep
  <2> QED
    BY <2>3 DEF CreditKept, CreditExact
<1>3. TypeOK /\ WindowInv /\ LinkInv /\ CreditExact => CreditConservation
  BY LinkInOrder, CreditIs DEF CreditExact, CreditConservation, InOrder
<1> QED
  BY <1>1, <1>2, <1>3, TypeCorrect, WindowCorrect, LinkCorrect, PTL DEF Spec

\* A process that has exited found ack_buffer full.
ExitedFull == \A e \in Endpoint : pc[e] = "exited" => Len(ack_buffer[e]) = ACK_BUFFER_CAP

LEMMA ExitStep ==
  ASSUME TypeOK, InOrder, CreditBound, TL_MSG_BUFFER_CAP >= CREDIT + CREDIT,
         ExitedFull, [Next]_vars
  PROVE  ExitedFull'
<1>1. ASSUME NEW e \in Endpoint, NEW next, GoTo(e, next),
             next = "exited" => Len(ack_buffer'[e]) = ACK_BUFFER_CAP,
             \A d \in Endpoint : d = e \/ ack_buffer'[d] = ack_buffer[d]
      PROVE  ExitedFull'
  BY <1>1 DEF GoTo, ExitedFull, TypeOK
<1>2. ASSUME UNCHANGED <<pc, ack_buffer>> PROVE ExitedFull'
  BY <1>2 DEF ExitedFull
<1>3. ASSUME NEW e \in Endpoint, Select(e) PROVE ExitedFull'
  <2>1. GoTo(e, "tx") /\ UNCHANGED ack_buffer
    BY <1>3 DEF Select, Select_Pending, Select_Response, Select_Request, SelectBuffer, linkVars
  <2> QED
    BY <1>1, <2>1
<1>4. ASSUME NEW e \in Endpoint, NEW elapsed, Transmit(e, elapsed) PROVE ExitedFull'
  <2>1. GoTo(e, "rx")
    BY <1>4 DEF Transmit, TX_Nothing, TX_Send, TX_AllocFailed, TX
  <2>2. \A d \in Endpoint : d = e \/ ack_buffer'[d] = ack_buffer[d]
    BY <1>4 DEF Transmit, TX_Nothing, TX_Send, TX_AllocFailed, MakeFrame, TypeOK
  <2> QED
    BY <1>1, <2>1, <2>2
<1>5. ASSUME NEW e \in Endpoint, Receive(e) PROVE ExitedFull'
  <2>1. CASE RX_Empty(e) \/ RX_AckOnly(e) \/ RX_Zero(e)
    <3>1. GoTo(e, "tl") /\ UNCHANGED ack_buffer
      BY <2>1 DEF RX_Empty, RX_AckOnly, RX_Zero, Accept, linkVars
    <3> QED
      BY <1>1, <3>1
  <2>2. CASE RX_Normal(e)
    <3>1. Len(tl_msg_buffer[e]) < TL_MSG_BUFFER_CAP
      BY <2>2, CreditRoom
    <3>2. Len(tl_msg_buffer[e]) # TL_MSG_BUFFER_CAP
      <4>1. Len(tl_msg_buffer[e]) \in Nat
        BY LenProperties DEF TypeOK
      <4> QED
        BY <3>1, <4>1, SizeAssumption, SMT
    <3>3. GoTo(e, "tl") /\ UNCHANGED ack_buffer
      BY <2>2, <3>2 DEF RX_Normal, Accept
    <3> QED
      BY <1>1, <3>3
  <2>3. ASSUME NEW entry, Report(e, entry) PROVE ExitedFull'
    <3>1. CASE GoTo(e, "tl") /\ ack_buffer' = [ack_buffer EXCEPT ![e] = Append(@, entry)]
      <4>1. \A d \in Endpoint : d = e \/ ack_buffer'[d] = ack_buffer[d]
        BY <3>1 DEF TypeOK
      <4> QED
        BY <1>1, <3>1, <4>1
    <3>2. CASE /\ GoTo(e, "exited") /\ UNCHANGED ack_buffer
               /\ Len(ack_buffer[e]) = ACK_BUFFER_CAP
      BY <1>1, <3>2
    <3> QED
      BY <2>3, <3>1, <3>2 DEF Report
  <2> QED
    BY <1>5, <2>1, <2>2, <2>3 DEF Receive, RX_Duplicate, RX_OutOfSequence
<1>6. ASSUME NEW e \in Endpoint, Handle(e) PROVE ExitedFull'
  <2>1. GoTo(e, "select") /\ UNCHANGED ack_buffer
    BY <1>6 DEF Handle, TL_Skip, handle_A_PUTFULLDATA_opcode, handle_A_GET_opcode,
                handle_D_opcode, tl_handler, linkVars
  <2> QED
    BY <1>1, <2>1
<1>7. ASSUME NEW e \in Endpoint, Submit(e) \/ Lose(e) PROVE ExitedFull'
  BY <1>2, <1>7 DEF Submit, Lose, linkVars
<1>8. ASSUME UNCHANGED vars PROVE ExitedFull'
  BY <1>2, <1>8 DEF vars, linkVars
<1> QED
  BY <1>3, <1>4, <1>5, <1>6, <1>7, <1>8 DEF Next, Worker

\* tl_msg_buffer never overflows, which is what flow control is for: a process
\* exits only where RX finds ack_buffer full (BUG_ON of enqueue).
THEOREM OnlyAcksOverflow ==
  ASSUME TL_MSG_BUFFER_CAP >= CREDIT + CREDIT
  PROVE  Spec /\ []AckBufferFresh => []ExitedFull
<1>1. Init => ExitedFull
  BY DEF Init, ExitedFull
<1>2. TypeOK /\ WindowInv /\ LinkInv /\ CreditBound /\ ExitedFull /\ [Next]_vars
         => ExitedFull'
  BY LinkInOrder, ExitStep
<1>3. Spec /\ []AckBufferFresh => []CreditBound
  BY CreditBounded
<1> QED
  BY <1>1, <1>2, <1>3, TypeCorrect, WindowCorrect, LinkCorrect, PTL DEF Spec

\* Where ack_buffer keeps room, no process exits (RX).
THEOREM NeverExits ==
  ASSUME TL_MSG_BUFFER_CAP >= CREDIT + CREDIT
  PROVE  Spec /\ []AckBufferFresh /\ [](\A e \in Endpoint : Len(ack_buffer[e]) < ACK_BUFFER_CAP)
            => []NoExit
<1>1. ExitedFull /\ TypeOK /\ (\A e \in Endpoint : Len(ack_buffer[e]) < ACK_BUFFER_CAP)
         => NoExit
  <2> SUFFICES ASSUME ExitedFull, TypeOK, NEW e \in Endpoint,
                      Len(ack_buffer[e]) < ACK_BUFFER_CAP
               PROVE  pc[e] # "exited"
    BY DEF NoExit
  <2>1. Len(ack_buffer[e]) \in Nat
    BY LenProperties DEF TypeOK
  <2>2. Len(ack_buffer[e]) # ACK_BUFFER_CAP
    BY <2>1, SizeAssumption, SMT
  <2> QED
    BY <2>2 DEF ExitedFull
<1>2. Spec /\ []AckBufferFresh => []ExitedFull
  BY OnlyAcksOverflow
<1> QED
  BY <1>1, <1>2, TypeCorrect, PTL
=============================================================================

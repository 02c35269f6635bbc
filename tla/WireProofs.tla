----------------------------- MODULE WireProofs -----------------------------
(***************************************************************************)
(* Theorems about Wire, for any messages that fit the program's buffers.   *)
(***************************************************************************)
EXTENDS Wire, SequenceTheorems, WellFoundedInduction, TLAPS

-----------------------------------------------------------------------------
(* Induction up to a number, over a set instead of a predicate, and what   *)
(* it gives for functions that are defined step by step.                   *)

LEMMA UpTo ==
  ASSUME NEW n \in Nat, NEW T, 0 \in T, \A k \in 1 .. n : k - 1 \in T => k \in T
  PROVE  \A k \in 0 .. n : k \in T
  <1> DEFINE U == {k \in 0 .. n : k \notin T}
  <1>1. SUFFICES ASSUME U # {} PROVE FALSE
    OBVIOUS
  <1> DEFINE R == OpToRel(<, Nat)
  <1>2. IsWellFoundedOn(R, Nat)
    BY NatLessThanWellFounded
  <1>3. \A x, y \in Nat : y < x => <<y, x>> \in R
    BY DEF OpToRel
  <1> HIDE DEF R
  <1>4. U \subseteq Nat
    OBVIOUS
  <1>5. PICK x \in U : \A y \in U : ~(<<y, x>> \in R)
    BY <1>1, <1>2, <1>4, WFMin
  <1>6. x # 0 /\ x \in 0 .. n /\ x \notin T
    OBVIOUS
  <1>7. x \in 1 .. n /\ x - 1 \in 0 .. n /\ x - 1 \in Nat /\ x \in Nat /\ x - 1 < x
    BY <1>6
  <1>8. x - 1 \in U
    BY <1>6, <1>7
  <1> QED BY <1>3, <1>5, <1>7, <1>8

\* f starts with a and follows step, on 0 .. n.
Runs(f, n, a, step) ==
    f = [k \in 0 .. n |-> IF k = 0 THEN a ELSE step[k][f[k - 1]]]

LEMMA RunExists ==
  ASSUME NEW n \in Nat, NEW S, NEW a \in S, NEW step \in [1 .. n -> [S -> S]]
  PROVE  \E f \in [0 .. n -> S] : Runs(f, n, a, step)
  <1> DEFINE T == {m \in 0 .. n : \E f \in [0 .. m -> S] : Runs(f, m, a, step)}
  <1>1. 0 \in T
    <2>1. [k \in 0 .. 0 |-> a] \in [0 .. 0 -> S]
      OBVIOUS
    <2>2. Runs([k \in 0 .. 0 |-> a], 0, a, step)
      BY DEF Runs
    <2> QED BY <2>1, <2>2
  <1>2. ASSUME NEW m \in 1 .. n, m - 1 \in T PROVE m \in T
    <2>1. PICK f \in [0 .. m - 1 -> S] : Runs(f, m - 1, a, step)
      BY <1>2
    <2> DEFINE g == [k \in 0 .. m |-> IF k = m THEN step[m][f[m - 1]] ELSE f[k]]
    <2>2. m - 1 \in 0 .. m - 1 /\ step[m] \in [S -> S]
      OBVIOUS
    <2>3. step[m][f[m - 1]] \in S
      BY <2>2
    <2>4. g \in [0 .. m -> S]
      <3>1. \A k \in 0 .. m : k # m => k \in 0 .. m - 1
        OBVIOUS
      <3> QED BY <2>3, <3>1
    <2>5. ASSUME NEW k \in 0 .. m
          PROVE  g[k] = IF k = 0 THEN a ELSE step[k][g[k - 1]]
      <3>1. CASE k = m
        <4>1. m - 1 \in 0 .. m /\ m - 1 # m /\ m # 0
          OBVIOUS
        <4> QED BY <3>1, <4>1
      <3>2. CASE k # m
        <4>1. k \in 0 .. m - 1
          BY <3>2
        <4>2. g[k] = f[k] /\ (k # 0 => g[k - 1] = f[k - 1])
          BY <3>2, <4>1
        <4> HIDE DEF g
        <4>3. f[k] = IF k = 0 THEN a ELSE step[k][f[k - 1]]
          BY <2>1, <4>1 DEF Runs
        <4> QED BY <4>2, <4>3
      <3> QED BY <3>1, <3>2
    <2>6. g = [k \in 0 .. m |-> g[k]]
      OBVIOUS
    <2> HIDE DEF g
    <2>7. Runs(g, m, a, step)
      BY <2>5, <2>6 DEF Runs
    <2> QED BY <2>4, <2>7
  <1>3. \A k \in 0 .. n : k \in T
    <2> HIDE DEF T
    <2> QED BY <1>1, <1>2, UpTo
  <1>4. n \in T
    BY <1>3
  <1> QED BY <1>4

-----------------------------------------------------------------------------
(* Sums.                                                                   *)

LEMMA SumsAre ==
  ASSUME NEW s \in Seq(Int)
  PROVE  /\ Sums(s) \in [0 .. Len(s) -> Int]
         /\ Sums(s)[0] = 0
         /\ \A n \in 1 .. Len(s) : Sums(s)[n] = Sums(s)[n - 1] + s[n]
         /\ Total(s) = Sums(s)[Len(s)] /\ Total(s) \in Int
  <1> DEFINE N == Len(s)
             step == [k \in 1 .. N |-> [x \in Int |-> x + s[k]]]
             Is(f) == f = [n \in 0 .. N |-> IF n = 0 THEN 0 ELSE f[n - 1] + s[n]]
  <1>1. N \in Nat /\ \A k \in 1 .. N : s[k] \in Int
    OBVIOUS
  <1>2. Sums(s) = CHOOSE f : Is(f)
    BY DEF Sums
  <1>3. \E f : Is(f)
    <2>1. step \in [1 .. N -> [Int -> Int]]
      BY <1>1
    <2>2. PICK f \in [0 .. N -> Int] : Runs(f, N, 0, step)
      <3>1. 0 \in Int
        OBVIOUS
      <3> HIDE DEF step, N
      <3> QED BY <1>1, <2>1, <3>1, RunExists
    <2>3. ASSUME NEW n \in 0 .. N
          PROVE  f[n] = IF n = 0 THEN 0 ELSE f[n - 1] + s[n]
      <3>1. f[n] = IF n = 0 THEN 0 ELSE step[n][f[n - 1]]
        BY <2>2 DEF Runs
      <3>2. CASE n = 0
        BY <3>1, <3>2
      <3>3. CASE n # 0
        <4>1. n \in 1 .. N /\ n - 1 \in 0 .. N
          BY <1>1, <3>3
        <4>2. f[n - 1] \in Int
          BY <4>1
        <4> QED BY <3>1, <3>3, <4>1, <4>2
      <3> QED BY <3>2, <3>3
    <2>4. Is(f)
      BY <2>2, <2>3
    <2> QED BY <2>4
  <1> HIDE DEF N
  <1>4. Is(Sums(s))
    BY <1>2, <1>3
  <1>5. Sums(s)[0] = 0 /\ \A n \in 1 .. N : Sums(s)[n] = Sums(s)[n - 1] + s[n]
    BY <1>1, <1>4
  <1> DEFINE T == {k \in 0 .. N : Sums(s)[k] \in Int}
  <1>6. 0 \in T /\ \A k \in 1 .. N : k - 1 \in T => k \in T
    BY <1>1, <1>5
  <1>7. \A k \in 0 .. N : k \in T
    <2> HIDE DEF T
    <2> QED BY <1>1, <1>6, UpTo
  <1>8. Sums(s) \in [0 .. N -> Int]
    BY <1>4, <1>7
  <1> QED BY <1>1, <1>5, <1>8 DEF Total, N

LEMMA SumsNat ==
  ASSUME NEW s \in Seq(Nat)
  PROVE  Sums(s) \in [0 .. Len(s) -> Nat] /\ Total(s) \in Nat
  <1>1. s \in Seq(Int)
    OBVIOUS
  <1> DEFINE T == {k \in 0 .. Len(s) : Sums(s)[k] \in Nat}
  <1>2. 0 \in T
    BY <1>1, SumsAre
  <1>3. ASSUME NEW k \in 1 .. Len(s), k - 1 \in T PROVE k \in T
    <2>1. Sums(s)[k] = Sums(s)[k - 1] + s[k]
      BY <1>1, SumsAre
    <2>2. s[k] \in Nat /\ Sums(s)[k - 1] \in Nat /\ k \in 0 .. Len(s)
      BY <1>3
    <2> QED BY <2>1, <2>2
  <1>4. \A k \in 0 .. Len(s) : k \in T
    <2> HIDE DEF T
    <2>1. Len(s) \in Nat
      OBVIOUS
    <2> QED BY <1>2, <1>3, <2>1, UpTo
  <1> QED BY <1>1, <1>4, SumsAre

LEMMA SumsStep ==
  ASSUME NEW s \in Seq(Nat)
  PROVE  /\ Len(s) \in Nat /\ Sums(s)[0] = 0 /\ Total(s) = Sums(s)[Len(s)]
         /\ \A k \in 1 .. Len(s) :
               /\ k \in Nat /\ k - 1 \in 0 .. Len(s) /\ k \in 0 .. Len(s)
               /\ Sums(s)[k - 1] \in Nat /\ s[k] \in Nat
               /\ Sums(s)[k] = Sums(s)[k - 1] + s[k]
  <1>1. s \in Seq(Int) /\ Len(s) \in Nat
    OBVIOUS
  <1>2. /\ Sums(s)[0] = 0 /\ Total(s) = Sums(s)[Len(s)]
        /\ \A k \in 1 .. Len(s) : Sums(s)[k] = Sums(s)[k - 1] + s[k]
    BY <1>1, SumsAre
  <1>3. Sums(s) \in [0 .. Len(s) -> Nat]
    BY SumsNat
  <1>4. ASSUME NEW k \in 1 .. Len(s)
        PROVE  /\ k \in Nat /\ k - 1 \in 0 .. Len(s) /\ k \in 0 .. Len(s)
               /\ Sums(s)[k - 1] \in Nat /\ s[k] \in Nat
    <2>1. k \in Nat /\ k - 1 \in 0 .. Len(s) /\ k \in 0 .. Len(s) /\ s[k] \in Nat
      BY <1>1
    <2> QED BY <1>3, <2>1
  <1> QED BY <1>1, <1>2, <1>4

\* A list of one number.
LEMMA SumsConstant ==
  ASSUME NEW s \in Seq(Nat), NEW c \in Nat, \A j \in 1 .. Len(s) : s[j] = c
  PROVE  \A k \in 0 .. Len(s) : Sums(s)[k] = k * c
  <1>1. s \in Seq(Int) /\ Len(s) \in Nat
    OBVIOUS
  <1> DEFINE T == {k \in 0 .. Len(s) : Sums(s)[k] = k * c}
  <1>2. 0 \in T
    BY <1>1, SumsAre
  <1>3. ASSUME NEW k \in 1 .. Len(s), k - 1 \in T PROVE k \in T
    <2>1. Sums(s)[k] = (k - 1) * c + c
      BY <1>1, <1>3, SumsAre
    <2>2. (k - 1) * c + c = k * c
      OBVIOUS
    <2> QED BY <2>1, <2>2
  <1>4. \A k \in 0 .. Len(s) : k \in T
    <2> HIDE DEF T
    <2> QED BY <1>1, <1>2, <1>3, UpTo
  <1> QED BY <1>4

\* Numbers with a common property that sums keep.
LEMMA SumsEven ==
  ASSUME NEW s \in Seq(Nat), \A j \in 1 .. Len(s) : s[j] % 2 = 0
  PROVE  Total(s) % 2 = 0
  <1>1. s \in Seq(Int) /\ Len(s) \in Nat
    OBVIOUS
  <1> DEFINE T == {k \in 0 .. Len(s) : Sums(s)[k] % 2 = 0}
  <1>2. 0 \in T
    BY <1>1, SumsAre
  <1>3. ASSUME NEW k \in 1 .. Len(s), k - 1 \in T PROVE k \in T
    <2>1. Sums(s)[k] = Sums(s)[k - 1] + s[k]
      BY <1>1, SumsAre
    <2>2. Sums(s)[k - 1] % 2 = 0 /\ s[k] % 2 = 0
      BY <1>3
    <2>3. Sums(s)[k - 1] \in Nat /\ s[k] \in Nat
      <3>1. k - 1 \in 0 .. Len(s)
        BY <1>1
      <3> QED BY <3>1, SumsNat
    <2>4. \A a, b \in Nat : a % 2 = 0 /\ b % 2 = 0 => (a + b) % 2 = 0
      OBVIOUS
    <2>5. (Sums(s)[k - 1] + s[k]) % 2 = 0
      BY <2>2, <2>3, <2>4
    <2> QED BY <2>1, <2>5
  <1>4. Len(s) \in T
    <2>1. Len(s) \in 0 .. Len(s)
      BY <1>1
    <2> HIDE DEF T
    <2> QED BY <1>1, <1>2, <1>3, <2>1, UpTo
  <1> QED BY <1>1, <1>4, SumsAre

LEMMA SumsAtLeast ==
  ASSUME NEW s \in Seq(Nat), \A j \in 1 .. Len(s) : s[j] >= 1
  PROVE  Total(s) >= Len(s)
  <1>1. s \in Seq(Int) /\ Len(s) \in Nat
    OBVIOUS
  <1> DEFINE T == {k \in 0 .. Len(s) : Sums(s)[k] >= k}
  <1>2. 0 \in T
    BY <1>1, SumsAre
  <1>3. ASSUME NEW k \in 1 .. Len(s), k - 1 \in T PROVE k \in T
    <2>1. Sums(s)[k] = Sums(s)[k - 1] + s[k]
      BY <1>1, SumsAre
    <2>2. Sums(s)[k - 1] \in Nat /\ s[k] \in Nat /\ k \in 0 .. Len(s)
      <3>1. k - 1 \in 0 .. Len(s) /\ k \in 0 .. Len(s)
        BY <1>1
      <3>2. Sums(s) \in [0 .. Len(s) -> Nat]
        BY SumsNat
      <3>3. Sums(s)[k - 1] \in Nat
        BY <3>1, <3>2
      <3>4. s[k] \in Nat
        OBVIOUS
      <3> QED BY <3>1, <3>3, <3>4
    <2>3. Sums(s)[k - 1] >= k - 1
      BY <1>3
    <2>4. s[k] >= 1
      OBVIOUS
    <2>5. k \in Int /\ Sums(s)[k] >= k
      BY <2>1, <2>2, <2>3, <2>4
    <2> QED BY <2>2, <2>5
  <1>4. Len(s) \in T
    <2>1. Len(s) \in 0 .. Len(s)
      BY <1>1
    <2> HIDE DEF T
    <2> QED BY <1>1, <1>2, <1>3, <2>1, UpTo
  <1> QED BY <1>1, <1>4, SumsAre

-----------------------------------------------------------------------------
(* Where one list is in another.                                           *)

Holds(bytes, at, p) ==
    /\ at \in Nat /\ at + Len(p) <= Len(bytes)
    /\ \A i \in 1 .. Len(p) : bytes[at + i] = p[i]

LEMMA HoldsPart ==
  ASSUME NEW bytes \in Seq(Byte), NEW p \in Seq(Byte), NEW at, Holds(bytes, at, p)
  PROVE  Part(bytes, at, Len(p)) = p
  <1>1. at \in Nat /\ Len(p) \in Nat /\ Len(bytes) \in Nat
    BY DEF Holds
  <1> DEFINE q == SubSeq(bytes, at + 1, at + Len(p))
  <1>2. /\ q \in Seq(Byte) /\ Len(q) = Len(p)
        /\ \A i \in 1 .. Len(p) : q[i] = bytes[at + i]
    <2>1. at + 1 \in 1 .. Len(bytes) + 1 /\ at + Len(p) \in at .. Len(bytes)
      BY <1>1 DEF Holds
    <2>2. \A i \in 1 .. Len(p) : at + 1 + i - 1 = at + i
      BY <1>1
    <2>3. at + Len(p) - (at + 1) + 1 = Len(p)
      BY <1>1
    <2> QED BY <1>1, <2>1, <2>2, <2>3, SubSeqProperties
  <1>3. \A i \in 1 .. Len(p) : q[i] = p[i]
    BY <1>2 DEF Holds
  <1> HIDE DEF q
  <1>4. q = p
    BY <1>2, <1>3, SeqEqual
  <1> QED BY <1>4 DEF Part, q

LEMMA HoldsIn ==
  ASSUME NEW bytes \in Seq(Byte), NEW p \in Seq(Byte), NEW q \in Seq(Byte),
         NEW at, NEW i, Holds(bytes, at, p), Holds(p, i, q)
  PROVE  Holds(bytes, at + i, q)
  <1>1. /\ at \in Nat /\ i \in Nat /\ Len(q) \in Nat /\ Len(p) \in Nat
        /\ Len(bytes) \in Nat
    BY DEF Holds
  <1>2. at + i \in Nat /\ (at + i) + Len(q) <= Len(bytes)
    BY <1>1 DEF Holds
  <1>3. ASSUME NEW j \in 1 .. Len(q) PROVE bytes[(at + i) + j] = q[j]
    <2>1. i + j \in 1 .. Len(p) /\ at + (i + j) = (at + i) + j
      BY <1>1 DEF Holds
    <2>2. bytes[at + (i + j)] = p[i + j] /\ p[i + j] = q[j]
      BY <2>1 DEF Holds
    <2> QED BY <2>1, <2>2
  <1> QED BY <1>2, <1>3 DEF Holds

LEMMA HoldsConcat ==
  ASSUME NEW p \in Seq(Byte), NEW q \in Seq(Byte)
  PROVE  /\ p \o q \in Seq(Byte) /\ Len(p \o q) = Len(p) + Len(q)
         /\ Holds(p \o q, 0, p) /\ Holds(p \o q, Len(p), q)
  <1> DEFINE c == p \o q
  <1>1. c \in Seq(Byte) /\ Len(c) = Len(p) + Len(q)
    OBVIOUS
  <1>2. Len(p) \in Nat /\ Len(q) \in Nat
    OBVIOUS
  <1>3. \A i \in 1 .. Len(p) : c[0 + i] = p[i]
    OBVIOUS
  <1>4. \A i \in 1 .. Len(q) : c[Len(p) + i] = q[i]
    OBVIOUS
  <1> HIDE DEF c
  <1>5. Holds(c, 0, p)
    BY <1>1, <1>2, <1>3 DEF Holds
  <1>6. Holds(c, Len(p), q)
    BY <1>1, <1>2, <1>4 DEF Holds
  <1> QED BY <1>1, <1>5, <1>6 DEF c

LEMMA HoldsAll ==
  ASSUME NEW p \in Seq(Byte) PROVE Holds(p, 0, p)
  BY DEF Holds

\* The lists of a list, one after the other.
Lengths(ss) == [j \in 1 .. Len(ss) |-> Len(ss[j])]

LEMMA LengthsAre ==
  ASSUME NEW ss \in Seq(Seq(Byte))
  PROVE  /\ Lengths(ss) \in Seq(Nat) /\ Lengths(ss) \in Seq(Int)
         /\ Len(Lengths(ss)) = Len(ss)
         /\ \A k \in 1 .. Len(ss) : Lengths(ss)[k] = Len(ss[k])
  <1>1. \A j \in 1 .. Len(ss) : ss[j] \in Seq(Byte) /\ Len(ss[j]) \in Nat
    OBVIOUS
  <1> QED BY <1>1 DEF Lengths

LEMMA FlattenIs ==
  ASSUME NEW ss \in Seq(Seq(Byte)), Len(ss) # 0
  PROVE  \E f : /\ FlattenSeq(ss) = f[Len(ss)]
                /\ f[1] = ss[1]
                /\ \A i \in 2 .. Len(ss) : f[i] = f[i - 1] \o ss[i]
  <1> DEFINE N == Len(ss)
             S == Seq(Byte)
             step == [k \in 1 .. N |-> [x \in S |-> x \o ss[k]]]
             Is(f) == f = [i \in 1 .. N |-> IF i = 1 THEN ss[i] ELSE f[i - 1] \o ss[i]]
             flatten == CHOOSE f : Is(f)
  <1>1. N \in Nat /\ N # 0 /\ \A k \in 1 .. N : ss[k] \in S
    OBVIOUS
  <1>2. FlattenSeq(ss) = flatten[N]
    BY DEF FlattenSeq
  <1>3. step \in [1 .. N -> [S -> S]]
    <2>1. \A x, y \in S : x \o y \in S
      BY ConcatProperties
    <2> HIDE DEF S
    <2> QED BY <1>1, <2>1
  <1>4. <<>> \in S
    OBVIOUS
  <1>5. PICK f \in [0 .. N -> S] : Runs(f, N, <<>>, step)
    <2> HIDE DEF step, N, S
    <2> QED BY <1>1, <1>3, <1>4, RunExists
  <1> DEFINE g == [i \in 1 .. N |-> f[i]]
  <1>6. ASSUME NEW i \in 1 .. N PROVE f[i] = f[i - 1] \o ss[i] /\ f[i - 1] \in S
    <2>1. i \in 0 .. N /\ i - 1 \in 0 .. N /\ i # 0
      BY <1>1
    <2>2. f[i] = step[i][f[i - 1]] /\ f[i - 1] \in S
      BY <1>5, <2>1 DEF Runs
    <2> QED BY <2>2
  <1>7. f[1] = ss[1]
    <2>1. f[0] = <<>> /\ 1 \in 1 .. N /\ 1 - 1 = 0
      BY <1>1, <1>5 DEF Runs
    <2> HIDE DEF step
    <2>2. f[1] = f[1 - 1] \o ss[1] /\ ss[1] \in S
      BY <1>1, <1>6, <2>1
    <2>3. f[1] = <<>> \o ss[1]
      BY <2>1, <2>2
    <2> QED BY <2>2, <2>3, ConcatEmptySeq
  <1>8. ASSUME NEW i \in 1 .. N
        PROVE  g[i] = IF i = 1 THEN ss[i] ELSE g[i - 1] \o ss[i]
    <2>1. i # 1 => i - 1 \in 1 .. N
      BY <1>1
    <2> QED BY <1>6, <1>7, <2>1
  <1>9. Is(g)
    <2>1. g = [i \in 1 .. N |-> g[i]]
      OBVIOUS
    <2> HIDE DEF g
    <2> QED BY <1>8, <2>1
  <1> HIDE DEF N, S
  <1>10. Is(flatten)
    BY <1>9
  <1>11. flatten[1] = ss[1] /\ \A i \in 2 .. N : flatten[i] = flatten[i - 1] \o ss[i]
    <2>1. 1 \in 1 .. N /\ \A i \in 2 .. N : i \in 1 .. N /\ i # 1
      BY <1>1
    <2> HIDE DEF flatten
    <2> QED BY <1>10, <2>1
  <1> QED BY <1>2, <1>11 DEF N

\* Each list is where the lengths of those before it add up to.
LEMMA FlattenHolds ==
  ASSUME NEW ss \in Seq(Seq(Byte))
  PROVE  /\ FlattenSeq(ss) \in Seq(Byte)
         /\ Len(FlattenSeq(ss)) = Total(Lengths(ss))
         /\ \A k \in 1 .. Len(ss) :
               Holds(FlattenSeq(ss), Sums(Lengths(ss))[k - 1], ss[k])
  <1> DEFINE N == Len(ss)
             L == Lengths(ss)
             So(x, n) == /\ x \in Seq(Byte) /\ Len(x) = Sums(L)[n]
                         /\ \A k \in 1 .. n : Holds(x, Sums(L)[k - 1], ss[k])
  <1>1. N \in Nat /\ \A k \in 1 .. N : ss[k] \in Seq(Byte)
    OBVIOUS
  <1>2. L \in Seq(Nat) /\ L \in Seq(Int) /\ Len(L) = N /\ \A k \in 1 .. N : L[k] = Len(ss[k])
    BY LengthsAre
  <1>3. /\ Sums(L) \in [0 .. N -> Nat] /\ Sums(L)[0] = 0 /\ Total(L) = Sums(L)[N]
        /\ \A k \in 1 .. N : Sums(L)[k] = Sums(L)[k - 1] + Len(ss[k])
    BY <1>2, SumsAre, SumsNat
  <1> HIDE DEF L
  <1>4. CASE N = 0
    <2>1. ss = <<>>
      BY <1>4, EmptySeq
    <2>2. FlattenSeq(ss) = <<>>
      BY <1>4, <2>1 DEF FlattenSeq
    <2>3. So(<<>>, N)
      BY <1>3, <1>4
    <2> QED BY <1>3, <2>2, <2>3 DEF L
  <1>5. CASE N # 0
    <2>1. PICK f : /\ FlattenSeq(ss) = f[N]
                   /\ f[1] = ss[1]
                   /\ \A i \in 2 .. N : f[i] = f[i - 1] \o ss[i]
      BY <1>5, FlattenIs
    <2> DEFINE T == {k \in 0 .. N : k # 0 => So(f[k], k)}
    <2>2. 0 \in T
      BY <1>1
    <2>3. ASSUME NEW k \in 1 .. N, k - 1 \in T PROVE k \in T
      <3>1. CASE k = 1
        <4>1. ss[1] \in Seq(Byte) /\ 1 \in 1 .. N /\ 1 - 1 = 0
          BY <1>1, <3>1
        <4>2. Len(ss[1]) = Sums(L)[1] /\ Sums(L)[1 - 1] = 0
          BY <1>3, <4>1
        <4>3. Holds(ss[1], 0, ss[1])
          BY <4>1, HoldsAll
        <4>4. \A l \in 1 .. 1 : l = 1
          OBVIOUS
        <4>5. So(ss[1], 1)
          BY <4>1, <4>2, <4>3, <4>4
        <4> HIDE DEF So
        <4> QED BY <2>1, <3>1, <4>5
      <3>2. CASE k # 1
        <4>1. k - 1 \in 1 .. N /\ k - 1 # 0 /\ k \in 2 .. N
          BY <1>1, <3>2
        <4>2. So(f[k - 1], k - 1) /\ f[k] = f[k - 1] \o ss[k]
          BY <2>1, <2>3, <4>1
        <4> DEFINE x == f[k - 1]
        <4>3. x \in Seq(Byte) /\ Len(x) = Sums(L)[k - 1] /\ ss[k] \in Seq(Byte)
          BY <1>1, <4>2
        <4>4. /\ f[k] \in Seq(Byte) /\ Len(f[k]) = Len(x) + Len(ss[k])
              /\ Holds(f[k], 0, x) /\ Holds(f[k], Len(x), ss[k])
          <5> HIDE DEF x
          <5> QED BY <4>2, <4>3, HoldsConcat DEF x
        <4>5. Len(f[k]) = Sums(L)[k]
          BY <1>3, <4>3, <4>4
        <4>6. ASSUME NEW l \in 1 .. k PROVE Holds(f[k], Sums(L)[l - 1], ss[l])
          <5>1. CASE l = k
            BY <4>3, <4>4, <5>1
          <5>2. CASE l # k
            <6>1. l \in 1 .. k - 1 /\ l \in 1 .. N /\ l - 1 \in 0 .. N
              BY <1>1, <5>2
            <6>2. Holds(x, Sums(L)[l - 1], ss[l]) /\ ss[l] \in Seq(Byte)
              BY <1>1, <4>2, <6>1
            <6>3. Sums(L)[l - 1] \in Nat
              BY <1>3, <6>1
            <6>4. Holds(f[k], 0 + Sums(L)[l - 1], ss[l])
              <7> HIDE DEF x
              <7> QED BY <4>3, <4>4, <6>2, HoldsIn
            <6> QED BY <6>3, <6>4
          <5> QED BY <5>1, <5>2
        <4>7. So(f[k], k)
          BY <4>4, <4>5, <4>6
        <4> HIDE DEF So
        <4> QED BY <4>7
      <3> QED BY <3>1, <3>2
    <2>4. N \in T
      <3>1. N \in 0 .. N
        BY <1>1
      <3> HIDE DEF T
      <3> QED BY <1>1, <2>2, <2>3, <3>1, UpTo
    <2>5. So(f[N], N)
      BY <1>5, <2>4
    <2> QED BY <1>3, <2>1, <2>5 DEF L
  <1> QED BY <1>4, <1>5

-----------------------------------------------------------------------------
(* Fields and layouts.                                                     *)

Widths == {1, 2, 3, 4, 8}
IsLayout(layout) ==
    /\ Len(layout) \in Nat /\ DOMAIN layout = 1 .. Len(layout)
    /\ \A j \in 1 .. Len(layout) : layout[j].width \in Widths
    /\ \A i, j \in 1 .. Len(layout) : layout[i].name = layout[j].name => i = j

\* What is written of a number is read as that number.
LEMMA BytesAre ==
  ASSUME NEW width \in Widths, NEW v
  PROVE  v \in Nat => /\ Bytes(v, width) \in Seq(Byte)
                      /\ Len(Bytes(v, width)) = width
  <1> SUFFICES ASSUME v \in Nat
               PROVE  /\ Bytes(v, width) \in Seq(Byte)
                      /\ Len(Bytes(v, width)) = width
    OBVIOUS
  <1>1. width \in Nat
    BY DEF Widths
  <1>2. ASSUME NEW j \in 1 .. width, ~(width - j > 3)
        PROVE  (v \div Place[width - j + 1]) % 256 \in Byte
    <2>1. width - j + 1 \in 1 .. 4
      BY <1>1, <1>2
    <2>2. Place[width - j + 1] \in {1, 256, 65536, 16777216}
      BY <2>1 DEF Place
    <2>3. v \div Place[width - j + 1] \in Nat
      BY <2>2
    <2> QED BY <2>3 DEF Byte
  <1>3. \A j \in 1 .. width : Bytes(v, width)[j] \in Byte
    BY <1>2 DEF Bytes, Byte
  <1>4. Bytes(v, width) \in [1 .. width -> Byte]
    BY <1>3 DEF Bytes
  <1> QED BY <1>1, <1>4

LEMMA LastDigit ==
  ASSUME NEW x \in Nat
  PROVE  /\ x \div 256 \in Nat /\ x % 256 \in Nat /\ x % 256 < 256
         /\ x = (x \div 256) * 256 + (x % 256)
  <1>1. x \div 256 \in Nat
    BY SMT
  <1>2. x % 256 \in Nat /\ x % 256 < 256
    BY SMT
  <1>3. x = (x \div 256) * 256 + (x % 256)
    BY SMT
  <1> QED BY <1>1, <1>2, <1>3

LEMMA Digits ==
  ASSUME NEW v \in Nat
  PROVE  /\ v \div 256 \in Nat /\ v \div 65536 \in Nat /\ v \div 16777216 \in Nat
         /\ v = (v \div 256) * 256 + (v % 256)
         /\ v \div 256 = (v \div 65536) * 256 + ((v \div 256) % 256)
         /\ v \div 65536 = (v \div 16777216) * 256 + ((v \div 65536) % 256)
  <1> DEFINE a == v \div 256
             b == a \div 256
             c == b \div 256
             d0 == v % 256
             d1 == a % 256
             d2 == b % 256
  <1>1. a \in Nat /\ d0 \in Nat /\ d0 < 256 /\ v = a * 256 + d0
    BY LastDigit
  <1>2. b \in Nat /\ d1 \in Nat /\ d1 < 256 /\ a = b * 256 + d1
    <2> HIDE DEF a
    <2> QED BY <1>1, LastDigit
  <1>3. c \in Nat /\ d2 \in Nat /\ d2 < 256 /\ b = c * 256 + d2
    <2> HIDE DEF a, b
    <2> QED BY <1>2, LastDigit
  <1>4. v \div 65536 = b
    <2> HIDE DEF a, b, d0, d1
    <2>1. b * 65536 <= v /\ v < b * 65536 + 65536
      BY <1>1, <1>2, SMT
    <2> QED BY <1>2, <2>1, SMT
  <1>5. v \div 16777216 = c
    <2> HIDE DEF a, b, c, d0, d1, d2
    <2>1. c * 16777216 <= v /\ v < c * 16777216 + 16777216
      BY <1>1, <1>2, <1>3, SMT
    <2> QED BY <1>3, <2>1, SMT
  <1> QED BY <1>1, <1>2, <1>3, <1>4, <1>5, SMT DEF a, d0, d1, d2

LEMMA ValueIs ==
  ASSUME NEW width \in Widths, NEW v \in Word(width)
  PROVE  Value(Bytes(v, width)) = v
  <1> DEFINE b == Bytes(v, width)
             s == [j \in 1 .. width |->
                      IF width - j > 3 THEN 0 ELSE b[j] * Place[width - j + 1]]
  <1>1. v \in Nat /\ width \in Nat
    BY DEF Word, Widths
  <1>2. b \in Seq(Byte) /\ Len(b) = width /\ \A j \in 1 .. width : b[j] \in Nat
    <2>1. b \in Seq(Byte) /\ Len(b) = width
      BY <1>1, BytesAre
    <2>2. \A j \in 1 .. Len(b) : b[j] \in Byte
      <3> HIDE DEF b
      <3> QED BY <2>1
    <2>3. Byte \subseteq Nat
      BY DEF Byte
    <2> HIDE DEF b
    <2> QED BY <2>1, <2>2, <2>3
  <1>3. Value(b) = Total(s)
    BY <1>2 DEF Value
  <1>4. \A j \in 1 .. width : s[j] \in Int
    <2>1. \A j \in 1 .. width :
            ~(width - j > 3) => Place[width - j + 1] \in {1, 256, 65536, 16777216}
      BY <1>1 DEF Place
    <2>2. ASSUME NEW j \in 1 .. width, ~(width - j > 3)
          PROVE  b[j] * Place[width - j + 1] \in Int
      <3>1. b[j] \in Nat
        BY <1>2, Zenon
      <3>2. Place[width - j + 1] \in Nat
        BY <2>1, <2>2, SMT
      <3>3. \A x, y \in Nat : x * y \in Int
        OBVIOUS
      <3> HIDE DEF b
      <3> QED BY <3>1, <3>2, <3>3, SMT
    <2> HIDE DEF b
    <2> QED BY <2>2
  <1>5. s \in Seq(Int) /\ Len(s) = width
    BY <1>1, <1>4
  <1>6. /\ Sums(s)[0] = 0 /\ Total(s) = Sums(s)[width]
        /\ \A n \in 1 .. width : Sums(s)[n] = Sums(s)[n - 1] + s[n]
        /\ Sums(s) \in [0 .. width -> Int]
    BY <1>5, SumsAre
  <1>7. \A j \in 1 .. width :
          s[j] = IF width - j > 3 THEN 0
                 ELSE ((v \div Place[width - j + 1]) % 256) * Place[width - j + 1]
    BY <1>1 DEF Bytes
  <1> HIDE DEF s, b
  <1>8. /\ v \div 256 \in Nat /\ v \div 65536 \in Nat /\ v \div 16777216 \in Nat
        /\ v = (v \div 256) * 256 + (v % 256)
        /\ v \div 256 = (v \div 65536) * 256 + ((v \div 256) % 256)
        /\ v \div 65536 = (v \div 16777216) * 256 + ((v \div 65536) % 256)
    BY <1>1, Digits
  <1>9. CASE width = 1
    <2>1. s[1] = v % 256 /\ v < 256
      BY <1>1, <1>7, <1>9 DEF Place, Word
    <2>2. Sums(s)[1] = 0 + s[1]
      BY <1>6, <1>9
    <2> QED BY <1>1, <1>3, <1>6, <1>9, <2>1, <2>2 DEF b
  <1>10. CASE width = 2
    <2>1. s[1] = ((v \div 256) % 256) * 256 /\ s[2] = v % 256 /\ v \div 256 < 256
      BY <1>1, <1>7, <1>10 DEF Place, Word
    <2>2. Sums(s)[1] = 0 + s[1] /\ Sums(s)[2] = Sums(s)[1] + s[2]
      BY <1>6, <1>10
    <2> QED BY <1>1, <1>3, <1>6, <1>8, <1>10, <2>1, <2>2 DEF b
  <1>11. CASE width = 3
    <2>1. /\ s[1] = ((v \div 65536) % 256) * 65536 /\ v \div 65536 < 256
          /\ s[2] = ((v \div 256) % 256) * 256 /\ s[3] = v % 256
      BY <1>1, <1>7, <1>11 DEF Place, Word
    <2>2. /\ Sums(s)[1] = 0 + s[1] /\ Sums(s)[2] = Sums(s)[1] + s[2]
          /\ Sums(s)[3] = Sums(s)[2] + s[3]
      BY <1>6, <1>11
    <2> QED BY <1>1, <1>3, <1>6, <1>8, <1>11, <2>1, <2>2 DEF b
  <1>12. CASE width = 4
    <2>1. /\ s[1] = ((v \div 16777216) % 256) * 16777216 /\ v \div 16777216 < 256
          /\ s[2] = ((v \div 65536) % 256) * 65536
          /\ s[3] = ((v \div 256) % 256) * 256 /\ s[4] = v % 256
      BY <1>1, <1>7, <1>12 DEF Place, Word
    <2>2. /\ Sums(s)[1] = 0 + s[1] /\ Sums(s)[2] = Sums(s)[1] + s[2]
          /\ Sums(s)[3] = Sums(s)[2] + s[3] /\ Sums(s)[4] = Sums(s)[3] + s[4]
      BY <1>6, <1>12
    <2> QED BY <1>1, <1>3, <1>6, <1>8, <1>12, <2>1, <2>2 DEF b
  <1>13. CASE width = 8
    <2>1. /\ s[5] = ((v \div 16777216) % 256) * 16777216 /\ v \div 16777216 < 256
          /\ s[6] = ((v \div 65536) % 256) * 65536
          /\ s[7] = ((v \div 256) % 256) * 256 /\ s[8] = v % 256
          /\ s[1] = 0 /\ s[2] = 0 /\ s[3] = 0 /\ s[4] = 0
      BY <1>1, <1>7, <1>13 DEF Place, Word
    <2>2. /\ Sums(s)[1] = 0 + s[1] /\ Sums(s)[2] = Sums(s)[1] + s[2]
          /\ Sums(s)[3] = Sums(s)[2] + s[3] /\ Sums(s)[4] = Sums(s)[3] + s[4]
          /\ Sums(s)[5] = Sums(s)[4] + s[5] /\ Sums(s)[6] = Sums(s)[5] + s[6]
          /\ Sums(s)[7] = Sums(s)[6] + s[7] /\ Sums(s)[8] = Sums(s)[7] + s[8]
      BY <1>6, <1>13
    <2> QED BY <1>1, <1>3, <1>6, <1>8, <1>13, <2>1, <2>2 DEF b
  <1> QED BY <1>9, <1>10, <1>11, <1>12, <1>13 DEF Widths

\* Widths, ends and fields of a layout.
LEMMA LayoutIs ==
  ASSUME NEW layout, IsLayout(layout)
  PROVE  /\ Len(layout) \in Nat
         /\ Ends(layout) \in [0 .. Len(layout) -> Nat]
         /\ Ends(layout)[0] = 0
         /\ \A j \in 1 .. Len(layout) :
               /\ layout[j].width \in Widths /\ layout[j].width \in Nat
               /\ layout[j].name \in Names(layout)
               /\ Ends(layout)[j] = Ends(layout)[j - 1] + layout[j].width
         /\ Size(layout) \in Nat
  <1> DEFINE w == [j \in 1 .. Len(layout) |-> layout[j].width]
  <1>1. Len(layout) \in Nat /\ DOMAIN layout = 1 .. Len(layout)
    BY DEF IsLayout
  <1>2. \A j \in 1 .. Len(layout) : layout[j].width \in Widths /\ layout[j].width \in Nat
    BY DEF IsLayout, Widths
  <1>3. w \in Seq(Nat) /\ w \in Seq(Int) /\ Len(w) = Len(layout)
    BY <1>1, <1>2
  <1>4. \A j \in 1 .. Len(layout) : layout[j].name \in Names(layout)
    BY <1>1 DEF Names, ToSet
  <1>5. Ends(layout) = Sums(w)
    BY DEF Ends
  <1>6. \A j \in 1 .. Len(layout) : w[j] = layout[j].width
    OBVIOUS
  <1> HIDE DEF w
  <1>7. Len(layout) \in 0 .. Len(layout)
    BY <1>1
  <1> QED BY <1>1, <1>2, <1>3, <1>4, <1>5, <1>6, <1>7, SumsAre, SumsNat DEF Size

\* r has the fields of a layout, and maybe more.
Fits(layout, r) ==
    \A j \in 1 .. Len(layout) : r[layout[j].name] \in Word(layout[j].width)

LEMMA RecordIs ==
  ASSUME NEW layout, IsLayout(layout), NEW r \in Records(layout)
  PROVE  Fits(layout, r) /\ r = [name \in Names(layout) |-> r[name]]
  <1>1. \A j \in 1 .. Len(layout) : layout[j] \in ToSet(layout)
    BY DEF IsLayout, ToSet
  <1> QED BY <1>1 DEF Records, Fits

\* A record takes its layout's size, and each field has its place.
LEMMA EncodeNat ==
  ASSUME NEW layout, IsLayout(layout), NEW r,
         \A j \in 1 .. Len(layout) : r[layout[j].name] \in Nat
  PROVE  /\ Encode(layout, r) \in Seq(Byte)
         /\ Len(Encode(layout, r)) = Size(layout)
         /\ \A j \in 1 .. Len(layout) :
               Holds(Encode(layout, r), Ends(layout)[j - 1],
                     Bytes(r[layout[j].name], layout[j].width))
  <1> DEFINE N == Len(layout)
             ss == [j \in 1 .. N |-> Bytes(r[layout[j].name], layout[j].width)]
             w == [j \in 1 .. N |-> layout[j].width]
  <1>1. N \in Nat /\ \A j \in 1 .. N : layout[j].width \in Widths
    BY LayoutIs
  <1>2. \A j \in 1 .. N : ss[j] \in Seq(Byte) /\ Len(ss[j]) = layout[j].width
    BY <1>1, BytesAre
  <1>3. ss \in Seq(Seq(Byte)) /\ Len(ss) = N
    BY <1>1, <1>2
  <1>4. Lengths(ss) = w
    <2> HIDE DEF ss
    <2> QED BY <1>2, <1>3 DEF Lengths
  <1>5. Encode(layout, r) = FlattenSeq(ss)
    BY DEF Encode
  <1>6. Sums(w) = Ends(layout) /\ Total(w) = Size(layout)
    <2>1. Len(w) = N
      BY <1>1
    <2> QED BY <2>1 DEF Ends, Size, Total
  <1>7. \A j \in 1 .. N : ss[j] = Bytes(r[layout[j].name], layout[j].width)
    OBVIOUS
  <1> HIDE DEF ss, w
  <1> QED BY <1>3, <1>4, <1>5, <1>6, <1>7, FlattenHolds

LEMMA EncodeIs ==
  ASSUME NEW layout, IsLayout(layout), NEW r, Fits(layout, r)
  PROVE  /\ Encode(layout, r) \in Seq(Byte)
         /\ Len(Encode(layout, r)) = Size(layout)
         /\ \A j \in 1 .. Len(layout) :
               Holds(Encode(layout, r), Ends(layout)[j - 1],
                     Bytes(r[layout[j].name], layout[j].width))
  <1>1. \A j \in 1 .. Len(layout) : r[layout[j].name] \in Nat
    BY DEF Fits, Word
  <1> QED BY <1>1, EncodeNat

\* A field is read where its bytes are.
LEMMA FieldIs ==
  ASSUME NEW layout, IsLayout(layout), NEW bytes \in Seq(Byte), NEW at \in Nat,
         NEW j \in 1 .. Len(layout), NEW v \in Word(layout[j].width),
         Holds(bytes, at + Ends(layout)[j - 1], Bytes(v, layout[j].width))
  PROVE  Decode(layout, bytes, at)[layout[j].name] = v
  <1> DEFINE name == layout[j].name
             width == layout[j].width
             start == at + Ends(layout)[j - 1]
  <1>1. width \in Widths /\ name \in Names(layout)
    BY LayoutIs
  <1>2. (CHOOSE l \in 1 .. Len(layout) : layout[l].name = name) = j
    BY DEF IsLayout
  <1>3. Decode(layout, bytes, at)[name] = Value(Part(bytes, start, width))
    <2> HIDE DEF name
    <2> QED BY <1>1, <1>2 DEF Decode
  <1>4. Bytes(v, width) \in Seq(Byte) /\ Len(Bytes(v, width)) = width
    BY <1>1, BytesAre DEF Word
  <1>5. Part(bytes, start, width) = Bytes(v, width)
    <2> HIDE DEF width, start
    <2> QED BY <1>4, HoldsPart DEF width, start
  <1>6. Value(Bytes(v, width)) = v
    <2> HIDE DEF width
    <2> QED BY <1>1, ValueIs DEF width
  <1> QED BY <1>3, <1>5, <1>6

\* A record is read as it was written.
LEMMA DecodeIs ==
  ASSUME NEW layout, IsLayout(layout), NEW r, Fits(layout, r),
         NEW bytes \in Seq(Byte), NEW at, Holds(bytes, at, Encode(layout, r))
  PROVE  Decode(layout, bytes, at) = [name \in Names(layout) |-> r[name]]
  <1>1. at \in Nat
    BY DEF Holds
  <1>2. ASSUME NEW j \in 1 .. Len(layout)
        PROVE  Decode(layout, bytes, at)[layout[j].name] = r[layout[j].name]
    <2> DEFINE v == r[layout[j].name]
               b == Bytes(v, layout[j].width)
    <2>1. v \in Word(layout[j].width) /\ v \in Nat /\ layout[j].width \in Widths
      BY LayoutIs DEF Fits, Word
    <2>2. b \in Seq(Byte)
      BY <2>1, BytesAre
    <2>3. Encode(layout, r) \in Seq(Byte) /\ Holds(Encode(layout, r), Ends(layout)[j - 1], b)
      BY EncodeIs
    <2>4. Holds(bytes, at + Ends(layout)[j - 1], b)
      <3> HIDE DEF b
      <3> QED BY <2>2, <2>3, HoldsIn
    <2> HIDE DEF v
    <2> QED BY <1>1, <2>1, <2>4, FieldIs DEF v
  <1>3. \A name \in Names(layout) : \E j \in 1 .. Len(layout) : layout[j].name = name
    BY DEF Names, ToSet, IsLayout
  <1>4. \A name \in Names(layout) : Decode(layout, bytes, at)[name] = r[name]
    BY <1>2, <1>3
  <1>5. Decode(layout, bytes, at)
          = [name \in Names(layout) |-> Decode(layout, bytes, at)[name]]
    BY DEF Decode
  <1> QED BY <1>4, <1>5, Zenon

\* Records of one layout, one after the other.
LEMMA EncodeAllIs ==
  ASSUME NEW layout, IsLayout(layout), NEW rs \in Seq(Records(layout))
  PROVE  /\ EncodeAll(layout, rs) \in Seq(Byte)
         /\ Len(EncodeAll(layout, rs)) = Len(rs) * Size(layout)
         /\ \A k \in 1 .. Len(rs) :
               Holds(EncodeAll(layout, rs), (k - 1) * Size(layout),
                     Encode(layout, rs[k]))
  <1> DEFINE N == Len(rs)
             ss == [j \in 1 .. N |-> Encode(layout, rs[j])]
             c == Size(layout)
  <1>1. N \in Nat /\ c \in Nat /\ \A j \in 1 .. N : rs[j] \in Records(layout)
    BY LayoutIs
  <1>2. \A j \in 1 .. N : ss[j] \in Seq(Byte) /\ Len(ss[j]) = c
    BY <1>1, RecordIs, EncodeIs
  <1>3. ss \in Seq(Seq(Byte)) /\ Len(ss) = N
    BY <1>1, <1>2
  <1>4. EncodeAll(layout, rs) = FlattenSeq(ss) /\ \A j \in 1 .. N : ss[j] = Encode(layout, rs[j])
    BY DEF EncodeAll
  <1> HIDE DEF ss, c
  <1>5. /\ Lengths(ss) \in Seq(Nat) /\ Lengths(ss) \in Seq(Int)
        /\ Len(Lengths(ss)) = N /\ \A j \in 1 .. N : Lengths(ss)[j] = c
    BY <1>2, <1>3, LengthsAre
  <1>6. \A k \in 0 .. N : Sums(Lengths(ss))[k] = k * c
    BY <1>1, <1>5, SumsConstant
  <1>7. Total(Lengths(ss)) = N * c
    <2>1. N \in 0 .. N
      BY <1>1
    <2> QED BY <1>5, <1>6, <2>1, SumsAre
  <1>8. \A k \in 1 .. N : k - 1 \in 0 .. N
    BY <1>1
  <1> QED BY <1>3, <1>4, <1>6, <1>7, <1>8, FlattenHolds DEF c

LEMMA QuotientIs ==
  ASSUME NEW a \in Nat, NEW b \in Nat, b # 0
  PROVE  (a * b) \div b = a
  BY SMT

LEMMA DecodeAllIs ==
  ASSUME NEW layout, IsLayout(layout), Size(layout) # 0,
         NEW rs \in Seq(Records(layout)), NEW bytes \in Seq(Byte), NEW at,
         Holds(bytes, at, EncodeAll(layout, rs)),
         at + Len(EncodeAll(layout, rs)) = Len(bytes)
  PROVE  DecodeAll(layout, bytes, at) = rs
  <1> DEFINE N == Len(rs)
             c == Size(layout)
             all == EncodeAll(layout, rs)
  <1>1. N \in Nat /\ c \in Nat /\ at \in Nat /\ Len(bytes) \in Nat
    BY LayoutIs DEF Holds
  <1>2. all \in Seq(Byte) /\ Len(all) = N * c
    BY EncodeAllIs
  <1>3. (Len(bytes) - at) \div c = N
    <2>1. c # 0 /\ at + Len(all) = Len(bytes)
      OBVIOUS
    <2>2. Len(all) \in Nat
      BY <1>2
    <2> HIDE DEF all
    <2>3. Len(bytes) - at = N * c
      BY <1>1, <1>2, <2>1, <2>2
    <2> HIDE DEF c, N
    <2>4. (N * c) \div c = N
      BY <1>1, <2>1, QuotientIs
    <2> QED BY <2>3, <2>4
  <1>4. ASSUME NEW k \in 1 .. N
        PROVE  Decode(layout, bytes, at + (k - 1) * c) = rs[k]
    <2>1. rs[k] \in Records(layout)
      OBVIOUS
    <2>2. Encode(layout, rs[k]) \in Seq(Byte)
      BY <2>1, RecordIs, EncodeIs
    <2>3. Holds(all, (k - 1) * c, Encode(layout, rs[k]))
      BY EncodeAllIs
    <2>4. Holds(bytes, at + (k - 1) * c, Encode(layout, rs[k]))
      <3> HIDE DEF all
      <3> QED BY <1>2, <2>2, <2>3, HoldsIn DEF all
    <2> QED BY <2>1, <2>4, RecordIs, DecodeIs
  <1>5. DecodeAll(layout, bytes, at)
          = [k \in 1 .. N |-> Decode(layout, bytes, at + (k - 1) * c)]
    BY <1>3 DEF DecodeAll
  <1>6. DecodeAll(layout, bytes, at) = [k \in 1 .. N |-> rs[k]]
    <2> HIDE DEF N, c
    <2> QED BY <1>4, <1>5
  <1>7. rs = [k \in 1 .. N |-> rs[k]]
    OBVIOUS
  <1> QED BY <1>6, <1>7

-----------------------------------------------------------------------------
(* The layouts of the program.                                             *)

\* From the widths of a layout's fields, where the fields end.
LEMMA OspfHeaderIs ==
  /\ IsLayout(OspfHeader) /\ Len(OspfHeader) = 8 /\ Size(OspfHeader) = 24
  /\ Ends(OspfHeader)[1] = 1 /\ Ends(OspfHeader)[2] = 2
  /\ Ends(OspfHeader)[3] = 4 /\ Ends(OspfHeader)[4] = 8
  /\ Ends(OspfHeader)[5] = 12 /\ Ends(OspfHeader)[6] = 14
  /\ Ends(OspfHeader)[7] = 16
  /\ Names(OspfHeader) = {"version", "type", "length", "router_id", "area_id",
                          "checksum", "auth_type", "auth"}
  <1>1. IsLayout(OspfHeader) /\ Len(OspfHeader) = 8
    BY DEF IsLayout, OspfHeader, F, Widths
  <1>2. /\ OspfHeader[1].width = 1 /\ OspfHeader[2].width = 1
        /\ OspfHeader[3].width = 2 /\ OspfHeader[4].width = 4
        /\ OspfHeader[5].width = 4 /\ OspfHeader[6].width = 2
        /\ OspfHeader[7].width = 2 /\ OspfHeader[8].width = 8
    BY DEF OspfHeader, F
  <1>3. /\ Ends(OspfHeader)[0] = 0
        /\ \A j \in 1 .. 8 : Ends(OspfHeader)[j] = Ends(OspfHeader)[j - 1] + OspfHeader[j].width
    BY <1>1, LayoutIs
  <1>4. /\ Ends(OspfHeader)[1] = 1 /\ Ends(OspfHeader)[2] = 2
        /\ Ends(OspfHeader)[3] = 4 /\ Ends(OspfHeader)[4] = 8
        /\ Ends(OspfHeader)[5] = 12 /\ Ends(OspfHeader)[6] = 14
        /\ Ends(OspfHeader)[7] = 16 /\ Ends(OspfHeader)[8] = 24
    BY <1>2, <1>3
  <1>5. DOMAIN OspfHeader = {1, 2, 3, 4, 5, 6, 7, 8}
    BY DEF OspfHeader
  <1>6. /\ OspfHeader[1].name = "version" /\ OspfHeader[2].name = "type"
        /\ OspfHeader[3].name = "length" /\ OspfHeader[4].name = "router_id"
        /\ OspfHeader[5].name = "area_id" /\ OspfHeader[6].name = "checksum"
        /\ OspfHeader[7].name = "auth_type" /\ OspfHeader[8].name = "auth"
    BY DEF OspfHeader, F
  <1>7. Names(OspfHeader) = {OspfHeader[j].name : j \in DOMAIN OspfHeader}
    BY DEF Names, ToSet
  <1> QED BY <1>1, <1>4, <1>5, <1>6, <1>7 DEF Size

LEMMA LsaHeaderIs ==
  /\ IsLayout(LsaHeader) /\ Len(LsaHeader) = 8 /\ Size(LsaHeader) = 20
  /\ Ends(LsaHeader)[1] = 2 /\ Ends(LsaHeader)[2] = 3
  /\ Ends(LsaHeader)[3] = 4 /\ Ends(LsaHeader)[4] = 8
  /\ Ends(LsaHeader)[5] = 12 /\ Ends(LsaHeader)[6] = 16
  /\ Ends(LsaHeader)[7] = 18
  /\ Names(LsaHeader) = {"age", "options", "type", "link_state_id",
                         "advertising_router", "sequence_number", "checksum",
                         "length"}
  <1>1. IsLayout(LsaHeader) /\ Len(LsaHeader) = 8
    BY DEF IsLayout, LsaHeader, F, Widths
  <1>2. /\ LsaHeader[1].width = 2 /\ LsaHeader[2].width = 1
        /\ LsaHeader[3].width = 1 /\ LsaHeader[4].width = 4
        /\ LsaHeader[5].width = 4 /\ LsaHeader[6].width = 4
        /\ LsaHeader[7].width = 2 /\ LsaHeader[8].width = 2
    BY DEF LsaHeader, F
  <1>3. /\ Ends(LsaHeader)[0] = 0
        /\ \A j \in 1 .. 8 : Ends(LsaHeader)[j] = Ends(LsaHeader)[j - 1] + LsaHeader[j].width
    BY <1>1, LayoutIs
  <1>4. /\ Ends(LsaHeader)[1] = 2 /\ Ends(LsaHeader)[2] = 3
        /\ Ends(LsaHeader)[3] = 4 /\ Ends(LsaHeader)[4] = 8
        /\ Ends(LsaHeader)[5] = 12 /\ Ends(LsaHeader)[6] = 16
        /\ Ends(LsaHeader)[7] = 18 /\ Ends(LsaHeader)[8] = 20
    BY <1>2, <1>3
  <1>5. DOMAIN LsaHeader = {1, 2, 3, 4, 5, 6, 7, 8}
    BY DEF LsaHeader
  <1>6. /\ LsaHeader[1].name = "age" /\ LsaHeader[2].name = "options"
        /\ LsaHeader[3].name = "type" /\ LsaHeader[4].name = "link_state_id"
        /\ LsaHeader[5].name = "advertising_router"
        /\ LsaHeader[6].name = "sequence_number"
        /\ LsaHeader[7].name = "checksum" /\ LsaHeader[8].name = "length"
    BY DEF LsaHeader, F
  <1>7. Names(LsaHeader) = {LsaHeader[j].name : j \in DOMAIN LsaHeader}
    BY DEF Names, ToSet
  <1> QED BY <1>1, <1>4, <1>5, <1>6, <1>7 DEF Size

LEMMA HelloIs ==
  /\ IsLayout(Hello) /\ Len(Hello) = 7 /\ Size(Hello) = 20
  /\ Ends(Hello)[1] = 4 /\ Ends(Hello)[2] = 6
  /\ Ends(Hello)[3] = 7 /\ Ends(Hello)[4] = 8
  /\ Ends(Hello)[5] = 12 /\ Ends(Hello)[6] = 16
  /\ Names(Hello) = {"network_mask", "hello_interval", "options",
                     "router_priority", "router_dead_interval",
                     "designated_router", "backup_designated_router"}
  <1>1. IsLayout(Hello) /\ Len(Hello) = 7
    BY DEF IsLayout, Hello, F, Widths
  <1>2. /\ Hello[1].width = 4 /\ Hello[2].width = 2 /\ Hello[3].width = 1
        /\ Hello[4].width = 1 /\ Hello[5].width = 4 /\ Hello[6].width = 4
        /\ Hello[7].width = 4
    BY DEF Hello, F
  <1>3. /\ Ends(Hello)[0] = 0
        /\ \A j \in 1 .. 7 : Ends(Hello)[j] = Ends(Hello)[j - 1] + Hello[j].width
    BY <1>1, LayoutIs
  <1>4. /\ Ends(Hello)[1] = 4 /\ Ends(Hello)[2] = 6 /\ Ends(Hello)[3] = 7
        /\ Ends(Hello)[4] = 8 /\ Ends(Hello)[5] = 12 /\ Ends(Hello)[6] = 16
        /\ Ends(Hello)[7] = 20
    BY <1>2, <1>3
  <1>5. DOMAIN Hello = {1, 2, 3, 4, 5, 6, 7}
    BY DEF Hello
  <1>6. /\ Hello[1].name = "network_mask" /\ Hello[2].name = "hello_interval"
        /\ Hello[3].name = "options" /\ Hello[4].name = "router_priority"
        /\ Hello[5].name = "router_dead_interval"
        /\ Hello[6].name = "designated_router"
        /\ Hello[7].name = "backup_designated_router"
    BY DEF Hello, F
  <1>7. Names(Hello) = {Hello[j].name : j \in DOMAIN Hello}
    BY DEF Names, ToSet
  <1> QED BY <1>1, <1>4, <1>5, <1>6, <1>7 DEF Size

LEMMA DDIs ==
  /\ IsLayout(DD) /\ Len(DD) = 4 /\ Size(DD) = 8
  /\ Ends(DD)[1] = 2 /\ Ends(DD)[2] = 3
  /\ Ends(DD)[3] = 4
  <1>1. IsLayout(DD) /\ Len(DD) = 4
    BY DEF IsLayout, DD, F, Widths
  <1>2. /\ DD[1].width = 2 /\ DD[2].width = 1 /\ DD[3].width = 1
        /\ DD[4].width = 4
    BY DEF DD, F
  <1>3. /\ Ends(DD)[0] = 0
        /\ \A j \in 1 .. 4 : Ends(DD)[j] = Ends(DD)[j - 1] + DD[j].width
    BY <1>1, LayoutIs
  <1>4. /\ Ends(DD)[1] = 2 /\ Ends(DD)[2] = 3 /\ Ends(DD)[3] = 4
        /\ Ends(DD)[4] = 8
    BY <1>2, <1>3
  <1> QED BY <1>1, <1>4 DEF Size

LEMMA RequestIs ==
  /\ IsLayout(Request) /\ Len(Request) = 3 /\ Size(Request) = 12
  /\ Ends(Request)[1] = 4 /\ Ends(Request)[2] = 8
  <1>1. IsLayout(Request) /\ Len(Request) = 3
    BY DEF IsLayout, Request, F, Widths
  <1>2. Request[1].width = 4 /\ Request[2].width = 4 /\ Request[3].width = 4
    BY DEF Request, F
  <1>3. /\ Ends(Request)[0] = 0
        /\ \A j \in 1 .. 3 : Ends(Request)[j] = Ends(Request)[j - 1] + Request[j].width
    BY <1>1, LayoutIs
  <1>4. /\ Ends(Request)[1] = 4 /\ Ends(Request)[2] = 8
        /\ Ends(Request)[3] = 12
    BY <1>2, <1>3
  <1> QED BY <1>1, <1>4 DEF Size

LEMMA AddressIs ==
  /\ IsLayout(Address) /\ Len(Address) = 1 /\ Size(Address) = 4
  <1>1. IsLayout(Address) /\ Len(Address) = 1
    BY DEF IsLayout, Address, F, Widths
  <1>2. Address[1].width = 4
    BY DEF Address, F
  <1>3. /\ Ends(Address)[0] = 0
        /\ \A j \in 1 .. 1 : Ends(Address)[j] = Ends(Address)[j - 1] + Address[j].width
    BY <1>1, LayoutIs
  <1>4. Ends(Address)[1] = 4
    BY <1>2, <1>3
  <1> QED BY <1>1, <1>4 DEF Size

LEMMA CountIs ==
  /\ IsLayout(Count) /\ Len(Count) = 1 /\ Size(Count) = 4
  /\ Names(Count) = {"num_lsas"}
  <1>1. IsLayout(Count) /\ Len(Count) = 1
    BY DEF IsLayout, Count, F, Widths
  <1>2. Count[1].width = 4
    BY DEF Count, F
  <1>3. /\ Ends(Count)[0] = 0
        /\ \A j \in 1 .. 1 : Ends(Count)[j] = Ends(Count)[j - 1] + Count[j].width
    BY <1>1, LayoutIs
  <1>4. Ends(Count)[1] = 4
    BY <1>2, <1>3
  <1>5. DOMAIN Count = {1}
    BY DEF Count
  <1>6. Count[1].name = "num_lsas"
    BY DEF Count, F
  <1>7. Names(Count) = {Count[j].name : j \in DOMAIN Count}
    BY DEF Names, ToSet
  <1> QED BY <1>1, <1>4, <1>5, <1>6, <1>7 DEF Size

LEMMA LinkIs ==
  /\ IsLayout(Link) /\ Len(Link) = 5 /\ Size(Link) = 12
  /\ Ends(Link)[1] = 4 /\ Ends(Link)[2] = 8
  /\ Ends(Link)[3] = 9 /\ Ends(Link)[4] = 10
  /\ Names(Link) = {"link_id", "link_data", "type", "tos", "metric"}
  <1>1. IsLayout(Link) /\ Len(Link) = 5
    BY DEF IsLayout, Link, F, Widths
  <1>2. /\ Link[1].width = 4 /\ Link[2].width = 4 /\ Link[3].width = 1
        /\ Link[4].width = 1 /\ Link[5].width = 2
    BY DEF Link, F
  <1>3. /\ Ends(Link)[0] = 0
        /\ \A j \in 1 .. 5 : Ends(Link)[j] = Ends(Link)[j - 1] + Link[j].width
    BY <1>1, LayoutIs
  <1>4. /\ Ends(Link)[1] = 4 /\ Ends(Link)[2] = 8 /\ Ends(Link)[3] = 9
        /\ Ends(Link)[4] = 10 /\ Ends(Link)[5] = 12
    BY <1>2, <1>3
  <1>5. DOMAIN Link = {1, 2, 3, 4, 5}
    BY DEF Link
  <1>6. /\ Link[1].name = "link_id" /\ Link[2].name = "link_data"
        /\ Link[3].name = "type" /\ Link[4].name = "tos"
        /\ Link[5].name = "metric"
    BY DEF Link, F
  <1>7. Names(Link) = {Link[j].name : j \in DOMAIN Link}
    BY DEF Names, ToSet
  <1> QED BY <1>1, <1>4, <1>5, <1>6, <1>7 DEF Size

LEMMA RouterDataIs ==
  /\ IsLayout(RouterData) /\ Len(RouterData) = 2 /\ Size(RouterData) = 4
  /\ Ends(RouterData)[1] = 2
  /\ Names(RouterData) = {"flags", "num_links"}
  <1>1. IsLayout(RouterData) /\ Len(RouterData) = 2
    BY DEF IsLayout, RouterData, F, Widths
  <1>2. RouterData[1].width = 2 /\ RouterData[2].width = 2
    BY DEF RouterData, F
  <1>3. /\ Ends(RouterData)[0] = 0
        /\ \A j \in 1 .. 2 : Ends(RouterData)[j] = Ends(RouterData)[j - 1] + RouterData[j].width
    BY <1>1, LayoutIs
  <1>4. Ends(RouterData)[1] = 2 /\ Ends(RouterData)[2] = 4
    BY <1>2, <1>3
  <1>5. DOMAIN RouterData = {1, 2}
    BY DEF RouterData
  <1>6. RouterData[1].name = "flags" /\ RouterData[2].name = "num_links"
    BY DEF RouterData, F
  <1>7. Names(RouterData) = {RouterData[j].name : j \in DOMAIN RouterData}
    BY DEF Names, ToSet
  <1> QED BY <1>1, <1>4, <1>5, <1>6, <1>7 DEF Size

LEMMA NetworkDataIs ==
  /\ IsLayout(NetworkData) /\ Len(NetworkData) = 1 /\ Size(NetworkData) = 4
  /\ Names(NetworkData) = {"network_mask"}
  <1>1. IsLayout(NetworkData) /\ Len(NetworkData) = 1
    BY DEF IsLayout, NetworkData, F, Widths
  <1>2. NetworkData[1].width = 4
    BY DEF NetworkData, F
  <1>3. /\ Ends(NetworkData)[0] = 0
        /\ \A j \in 1 .. 1 : Ends(NetworkData)[j] = Ends(NetworkData)[j - 1] + NetworkData[j].width
    BY <1>1, LayoutIs
  <1>4. Ends(NetworkData)[1] = 4
    BY <1>2, <1>3
  <1>5. DOMAIN NetworkData = {1}
    BY DEF NetworkData
  <1>6. NetworkData[1].name = "network_mask"
    BY DEF NetworkData, F
  <1>7. Names(NetworkData) = {NetworkData[j].name : j \in DOMAIN NetworkData}
    BY DEF Names, ToSet
  <1> QED BY <1>1, <1>4, <1>5, <1>6, <1>7 DEF Size

LEMMA SummaryDataIs ==
  /\ IsLayout(SummaryData) /\ Len(SummaryData) = 3 /\ Size(SummaryData) = 8
  /\ Ends(SummaryData)[1] = 4 /\ Ends(SummaryData)[2] = 5
  /\ Names(SummaryData) = {"network_mask", "tos", "metric"}
  <1>1. IsLayout(SummaryData) /\ Len(SummaryData) = 3
    BY DEF IsLayout, SummaryData, F, Widths
  <1>2. /\ SummaryData[1].width = 4 /\ SummaryData[2].width = 1
        /\ SummaryData[3].width = 3
    BY DEF SummaryData, F
  <1>3. /\ Ends(SummaryData)[0] = 0
        /\ \A j \in 1 .. 3 : Ends(SummaryData)[j] = Ends(SummaryData)[j - 1] + SummaryData[j].width
    BY <1>1, LayoutIs
  <1>4. /\ Ends(SummaryData)[1] = 4 /\ Ends(SummaryData)[2] = 5
        /\ Ends(SummaryData)[3] = 8
    BY <1>2, <1>3
  <1>5. DOMAIN SummaryData = {1, 2, 3}
    BY DEF SummaryData
  <1>6. /\ SummaryData[1].name = "network_mask" /\ SummaryData[2].name = "tos"
        /\ SummaryData[3].name = "metric"
    BY DEF SummaryData, F
  <1>7. Names(SummaryData) = {SummaryData[j].name : j \in DOMAIN SummaryData}
    BY DEF Names, ToSet
  <1> QED BY <1>1, <1>4, <1>5, <1>6, <1>7 DEF Size

-----------------------------------------------------------------------------
(* Parts of packets.                                                       *)

\* A record with something after it.
LEMMA ThenIs ==
  ASSUME NEW layout, IsLayout(layout), NEW r, Fits(layout, r), NEW rest \in Seq(Byte)
  PROVE  /\ Encode(layout, r) \o rest \in Seq(Byte)
         /\ Len(Encode(layout, r) \o rest) = Size(layout) + Len(rest)
         /\ \A bytes \in Seq(Byte) : \A at :
               Holds(bytes, at, Encode(layout, r) \o rest) =>
               /\ at \in Nat
               /\ Decode(layout, bytes, at) = [name \in Names(layout) |-> r[name]]
               /\ Holds(bytes, at + Size(layout), rest)
  <1> DEFINE e == Encode(layout, r)
  <1>1. e \in Seq(Byte) /\ Len(e) = Size(layout)
    BY EncodeIs
  <1> HIDE DEF e
  <1>2. /\ e \o rest \in Seq(Byte) /\ Len(e \o rest) = Size(layout) + Len(rest)
        /\ Holds(e \o rest, 0, e) /\ Holds(e \o rest, Size(layout), rest)
    BY <1>1, HoldsConcat
  <1>3. ASSUME NEW bytes \in Seq(Byte), NEW at, Holds(bytes, at, e \o rest)
        PROVE  /\ at \in Nat
               /\ Decode(layout, bytes, at) = [name \in Names(layout) |-> r[name]]
               /\ Holds(bytes, at + Size(layout), rest)
    <2>1. at \in Nat
      BY <1>3 DEF Holds
    <2>2. Holds(bytes, at + 0, e) /\ Holds(bytes, at + Size(layout), rest)
      BY <1>1, <1>2, <1>3, HoldsIn
    <2>3. Holds(bytes, at, e)
      BY <2>1, <2>2
    <2>4. Decode(layout, bytes, at) = [name \in Names(layout) |-> r[name]]
      BY <2>3, DecodeIs DEF e
    <2> QED BY <2>1, <2>2, <2>4
  <1> QED BY <1>2, <1>3 DEF e

LEMMA LastIs ==
  ASSUME NEW layout, IsLayout(layout), NEW r, Fits(layout, r)
  PROVE  /\ Encode(layout, r) \in Seq(Byte)
         /\ Len(Encode(layout, r)) = Size(layout)
         /\ \A bytes \in Seq(Byte) : \A at :
               Holds(bytes, at, Encode(layout, r)) =>
               Decode(layout, bytes, at) = [name \in Names(layout) |-> r[name]]
  BY EncodeIs, DecodeIs

LEMMA FitsIn ==
  /\ \A lsa \in RouterLsas : Fits(RouterData, lsa)
  /\ \A lsa \in NetworkLsas : Fits(NetworkData, lsa)
  /\ \A lsa \in SummaryLsas : Fits(SummaryData, lsa)
  <1>1. /\ RouterData[1].name = "flags" /\ RouterData[2].name = "num_links"
        /\ RouterData[1].width = 2 /\ RouterData[2].width = 2
        /\ Len(RouterData) = 2
    BY DEF RouterData, F
  <1>2. /\ NetworkData[1].name = "network_mask" /\ NetworkData[1].width = 4
        /\ Len(NetworkData) = 1
    BY DEF NetworkData, F
  <1>3. /\ SummaryData[1].name = "network_mask" /\ SummaryData[2].name = "tos"
        /\ SummaryData[3].name = "metric" /\ SummaryData[1].width = 4
        /\ SummaryData[2].width = 1 /\ SummaryData[3].width = 3
        /\ Len(SummaryData) = 3
    BY DEF SummaryData, F
  <1>4. ASSUME NEW lsa \in RouterLsas PROVE Fits(RouterData, lsa)
    <2>1. lsa.flags \in Word(2) /\ lsa.num_links \in Word(2)
      BY DEF RouterLsas
    <2>2. \A j \in 1 .. 2 : j = 1 \/ j = 2
      OBVIOUS
    <2> QED BY <1>1, <2>1, <2>2 DEF Fits
  <1>5. ASSUME NEW lsa \in NetworkLsas PROVE Fits(NetworkData, lsa)
    <2>1. lsa.network_mask \in Word(4)
      BY DEF NetworkLsas
    <2>2. \A j \in 1 .. 1 : j = 1
      OBVIOUS
    <2> QED BY <1>2, <2>1, <2>2 DEF Fits
  <1>6. ASSUME NEW lsa \in SummaryLsas PROVE Fits(SummaryData, lsa)
    <2>1. /\ lsa.network_mask \in Word(4) /\ lsa.tos \in Word(1)
          /\ lsa.metric \in Word(3)
      BY DEF SummaryLsas
    <2>2. \A j \in 1 .. 3 : j = 1 \/ j = 2 \/ j = 3
      OBVIOUS
    <2> QED BY <1>3, <2>1, <2>2 DEF Fits
  <1> QED BY <1>4, <1>5, <1>6

\* What holds of an LSA's bytes: how many, where its checksum is, and that they
\* are read back.
LsaRead(lsa) ==
    /\ ToPacket(lsa) \in Seq(Byte) /\ Len(ToPacket(lsa)) = LsaSize(lsa)
    /\ LsaSize(lsa) % 2 = 0 /\ LsaSize(lsa) >= 20
    /\ Holds(ToPacket(lsa), 16, Bytes(lsa.header.checksum, 2))
    /\ \A bytes \in Seq(Byte) : \A at :
          Holds(bytes, at, ToPacket(lsa)) => FromPacket(bytes, at) = lsa

LEMMA HeaderThen ==
  ASSUME NEW h \in Records(LsaHeader), NEW body \in Seq(Byte)
  PROVE  /\ Encode(LsaHeader, h) \o body \in Seq(Byte)
         /\ Len(Encode(LsaHeader, h) \o body) = 20 + Len(body)
         /\ Holds(Encode(LsaHeader, h) \o body, 16, Bytes(h.checksum, 2))
         /\ \A bytes \in Seq(Byte) : \A at :
               Holds(bytes, at, Encode(LsaHeader, h) \o body) =>
               /\ at \in Nat /\ Decode(LsaHeader, bytes, at) = h
               /\ Holds(bytes, at + 20, body)
  <1>1. IsLayout(LsaHeader) /\ Size(LsaHeader) = 20
    BY LsaHeaderIs
  <1>2. Fits(LsaHeader, h) /\ h = [name \in Names(LsaHeader) |-> h[name]]
    BY <1>1, RecordIs
  <1> DEFINE p == Encode(LsaHeader, h) \o body
  <1>3. /\ p \in Seq(Byte) /\ Len(p) = Size(LsaHeader) + Len(body)
        /\ \A bytes \in Seq(Byte) : \A at :
              Holds(bytes, at, p) =>
              /\ at \in Nat
              /\ Decode(LsaHeader, bytes, at) = [name \in Names(LsaHeader) |-> h[name]]
              /\ Holds(bytes, at + Size(LsaHeader), body)
    BY <1>1, <1>2, ThenIs
  <1> HIDE DEF p
  <1>4. /\ p \in Seq(Byte) /\ Len(p) = 20 + Len(body)
        /\ \A bytes \in Seq(Byte) : \A at :
              Holds(bytes, at, p) =>
              /\ at \in Nat /\ Decode(LsaHeader, bytes, at) = h
              /\ Holds(bytes, at + 20, body)
    BY <1>1, <1>2, <1>3
  <1>5. Holds(p, 16, Bytes(h.checksum, 2))
    <2> DEFINE e == Encode(LsaHeader, h)
               c == Bytes(h.checksum, 2)
    <2>1. /\ e \in Seq(Byte) /\ Len(e) = 20
          /\ \A j \in 1 .. Len(LsaHeader) :
                Holds(e, Ends(LsaHeader)[j - 1],
                      Bytes(h[LsaHeader[j].name], LsaHeader[j].width))
      BY <1>1, <1>2, EncodeIs
    <2>0. 7 \in 1 .. Len(LsaHeader)
      BY LsaHeaderIs
    <2>2. /\ LsaHeader[7].name = "checksum" /\ LsaHeader[7].width = 2
          /\ Ends(LsaHeader)[7 - 1] = 16
      BY LsaHeaderIs DEF LsaHeader, F
    <2>3. Holds(e, 16, c)
      BY <2>0, <2>1, <2>2
    <2>4. c \in Seq(Byte)
      <3>1. h.checksum \in Nat
        <4>1. h \in [Names(LsaHeader) -> Nat]
          BY DEF Records
        <4>2. "checksum" \in Names(LsaHeader)
          BY LsaHeaderIs
        <4> QED BY <4>1, <4>2
      <3> QED BY <3>1, BytesAre DEF Widths
    <2>5. Holds(p, 0, e) /\ p \in Seq(Byte)
      <3> HIDE DEF e
      <3> QED BY <1>3, <2>1, HoldsConcat DEF p, e
    <2> HIDE DEF e, c
    <2>6. Holds(p, 0 + 16, c)
      BY <2>1, <2>3, <2>4, <2>5, HoldsIn
    <2> QED BY <2>6 DEF c
  <1> QED BY <1>4, <1>5 DEF p

\* A Router-LSA by its num_links.
LEMMA RouterRead ==
  ASSUME NEW lsa \in RouterLsas
  PROVE  LsaRead(lsa)
  <1> DEFINE h == lsa.header
             all == EncodeAll(Link, lsa.links)
             body == Encode(RouterData, lsa) \o all
             n == Len(lsa.links)
  <1>1. /\ h \in Records(LsaHeader) /\ h.type = 1 /\ lsa.num_links = n /\ n \in Nat
        /\ lsa.links \in Seq(Records(Link)) /\ lsa.flags \in Word(2)
        /\ lsa = [header |-> h, flags |-> lsa.flags, num_links |-> lsa.num_links,
                  links |-> lsa.links]
        /\ \A j \in 1 .. n : lsa.links[j].tos = 0
    BY DEF RouterLsas, Router
  <1>2. /\ all \in Seq(Byte) /\ Len(all) = n * 12
        /\ \A k \in 1 .. n : Holds(all, (k - 1) * 12, Encode(Link, lsa.links[k]))
    BY <1>1, LinkIs, EncodeAllIs
  <1>3. /\ body \in Seq(Byte) /\ Len(body) = 4 + n * 12
        /\ \A bytes \in Seq(Byte) : \A at :
              Holds(bytes, at, body) =>
              /\ Decode(RouterData, bytes, at)
                   = [name \in Names(RouterData) |-> lsa[name]]
              /\ Holds(bytes, at + 4, all)
    <2> HIDE DEF all, n
    <2>1. IsLayout(RouterData) /\ Size(RouterData) = 4 /\ Fits(RouterData, lsa)
      BY FitsIn, RouterDataIs
    <2>2. /\ body \in Seq(Byte) /\ Len(body) = Size(RouterData) + Len(all)
          /\ \A bytes \in Seq(Byte) : \A at :
                Holds(bytes, at, body) =>
                /\ Decode(RouterData, bytes, at)
                     = [name \in Names(RouterData) |-> lsa[name]]
                /\ Holds(bytes, at + Size(RouterData), all)
      BY <1>2, <2>1, ThenIs
    <2> HIDE DEF body
    <2> QED BY <1>2, <2>1, <2>2
  <1>5. ToPacket(lsa) = Encode(LsaHeader, h) \o body
    BY <1>1 DEF ToPacket, RouterBytes, Router, Network, Summary
  <1>6. LsaSize(lsa) = 20 + (4 + n * 12)
    BY <1>1, LsaHeaderIs, RouterDataIs, LinkIs DEF LsaSize, Router, Network, Summary
  <1>7. /\ ToPacket(lsa) \in Seq(Byte) /\ Len(ToPacket(lsa)) = 20 + Len(body)
        /\ Holds(ToPacket(lsa), 16, Bytes(h.checksum, 2))
        /\ \A bytes \in Seq(Byte) : \A at :
              Holds(bytes, at, ToPacket(lsa)) =>
              /\ at \in Nat /\ Decode(LsaHeader, bytes, at) = h
              /\ Holds(bytes, at + 20, body)
    <2> HIDE DEF body, h
    <2> QED BY <1>1, <1>3, <1>5, HeaderThen
  <1>8. ASSUME NEW bytes \in Seq(Byte), NEW at, Holds(bytes, at, ToPacket(lsa))
        PROVE  FromPacket(bytes, at) = lsa
    <2>1. /\ Decode(LsaHeader, bytes, at) = h /\ at \in Nat
          /\ Holds(bytes, at + 20, body)
      <3> HIDE DEF h, body
      <3> QED BY <1>7, <1>8
    <2> DEFINE b == at + 20
               data == Decode(RouterData, bytes, b)
    <2>2. /\ data = [name \in Names(RouterData) |-> lsa[name]]
          /\ Holds(bytes, b + 4, all)
      BY <1>3, <2>1
    <2>3. data.flags = lsa.flags /\ data.num_links = n
      <3> HIDE DEF data, n
      <3> QED BY <1>1, <2>2, RouterDataIs
    <2>4. FromPacket(bytes, at) = RouterAt(h, bytes, b)
      BY <1>1, <2>1, LsaHeaderIs DEF FromPacket, Router, Network, Summary
    <2>5. ASSUME NEW j \in 1 .. n
          PROVE  [Decode(Link, bytes, (b + 4) + (j - 1) * 12) EXCEPT !.tos = 0]
                   = lsa.links[j]
      <3> DEFINE link == lsa.links[j]
      <3>1. link \in Records(Link) /\ link.tos = 0
        BY <1>1
      <3>2. Fits(Link, link) /\ link = [name \in Names(Link) |-> link[name]]
        BY <3>1, LinkIs, RecordIs
      <3>3. Encode(Link, link) \in Seq(Byte)
        BY <3>2, LinkIs, EncodeIs
      <3>4. Holds(bytes, (b + 4) + (j - 1) * 12, Encode(Link, link))
        <4> HIDE DEF all, n, b
        <4> QED BY <1>2, <2>2, <3>3, HoldsIn
      <3> HIDE DEF link
      <3>5. Decode(Link, bytes, (b + 4) + (j - 1) * 12) = link
        BY <3>2, <3>4, LinkIs, DecodeIs
      <3>6. [link EXCEPT !.tos = 0] = link
        BY <3>1, <3>2
      <3> QED BY <3>5, <3>6 DEF link
    <2>6. lsa.links = [j \in 1 .. n |-> lsa.links[j]]
      BY <1>1
    <2> HIDE DEF b, data
    <2>7. RouterAt(h, bytes, b)
            = [header |-> h, flags |-> lsa.flags, num_links |-> n,
               links |-> [j \in 1 .. n |->
                  [Decode(Link, bytes, (b + 4) + (j - 1) * 12) EXCEPT !.tos = 0]]]
      BY <2>3, RouterDataIs, LinkIs DEF RouterAt, data
    <2> HIDE DEF h, n
    <2>8. RouterAt(h, bytes, b) = [header |-> h, flags |-> lsa.flags,
                                   num_links |-> n, links |-> lsa.links]
      BY <2>5, <2>6, <2>7
    <2> QED BY <1>1, <2>4, <2>8
  <1>9. (20 + (4 + n * 12)) % 2 = 0 /\ 20 + (4 + n * 12) >= 20
    <2> HIDE DEF n
    <2> QED BY <1>1
  <1> HIDE DEF body, n
  <1> QED BY <1>3, <1>6, <1>7, <1>8, <1>9 DEF LsaRead

\* The front of a packet holds what lies in it.
LEMMA FrontHolds ==
  ASSUME NEW bytes \in Seq(Byte), NEW n \in Nat, n <= Len(bytes)
  PROVE  /\ Part(bytes, 0, n) \in Seq(Byte) /\ Len(Part(bytes, 0, n)) = n
         /\ \A q \in Seq(Byte) : \A at :
               Holds(bytes, at, q) /\ at + Len(q) <= n =>
               Holds(Part(bytes, 0, n), at, q)
         /\ n = Len(bytes) => Part(bytes, 0, n) = bytes
  <1> DEFINE front == SubSeq(bytes, 1, n)
  <1>1. /\ front \in Seq(Byte) /\ Len(front) = n
        /\ \A i \in 1 .. n : front[i] = bytes[i]
    OBVIOUS
  <1>2. Part(bytes, 0, n) = front
    BY DEF Part
  <1> HIDE DEF front
  <1>3. ASSUME NEW q \in Seq(Byte), NEW at, Holds(bytes, at, q), at + Len(q) <= n
        PROVE  Holds(front, at, q)
    <2>1. at \in Nat /\ Len(q) \in Nat
      BY <1>3 DEF Holds
    <2>2. \A i \in 1 .. Len(q) : at + i \in 1 .. n
      BY <1>3, <2>1
    <2> QED BY <1>1, <1>3, <2>1, <2>2 DEF Holds
  <1>4. n = Len(bytes) => front = bytes
    BY <1>1, SeqEqual
  <1> QED BY <1>1, <1>2, <1>3, <1>4

\* A Network-LSA by the length of its header.
LEMMA NetworkRead ==
  ASSUME NEW lsa \in NetworkLsas
  PROVE  LsaRead(lsa)
  <1> DEFINE h == lsa.header
             all == EncodeAll(Address, lsa.attached_routers)
             body == Encode(NetworkData, lsa) \o all
             n == Len(lsa.attached_routers)
  <1>1. /\ h \in Records(LsaHeader) /\ h.type = 2 /\ n \in Nat
        /\ lsa.attached_routers \in Seq(Records(Address))
        /\ lsa = [header |-> h, network_mask |-> lsa.network_mask,
                  attached_routers |-> lsa.attached_routers]
        /\ h.length = LsaSize(lsa)
    BY DEF NetworkLsas, Network
  <1>2. all \in Seq(Byte) /\ Len(all) = n * 4
    BY <1>1, AddressIs, EncodeAllIs
  <1>3. /\ body \in Seq(Byte) /\ Len(body) = 4 + n * 4
        /\ \A bytes \in Seq(Byte) : \A at :
              Holds(bytes, at, body) =>
              /\ Decode(NetworkData, bytes, at)
                   = [name \in Names(NetworkData) |-> lsa[name]]
              /\ Holds(bytes, at + 4, all)
    <2> HIDE DEF all, n
    <2>1. IsLayout(NetworkData) /\ Size(NetworkData) = 4 /\ Fits(NetworkData, lsa)
      BY FitsIn, NetworkDataIs
    <2>2. /\ body \in Seq(Byte) /\ Len(body) = Size(NetworkData) + Len(all)
          /\ \A bytes \in Seq(Byte) : \A at :
                Holds(bytes, at, body) =>
                /\ Decode(NetworkData, bytes, at)
                     = [name \in Names(NetworkData) |-> lsa[name]]
                /\ Holds(bytes, at + Size(NetworkData), all)
      BY <1>2, <2>1, ThenIs
    <2> HIDE DEF body
    <2> QED BY <1>2, <2>1, <2>2
  <1>4. ToPacket(lsa) = Encode(LsaHeader, h) \o body
    BY <1>1 DEF ToPacket, NetworkBytes, Router, Network, Summary
  <1>5. LsaSize(lsa) = 20 + (4 + n * 4)
    BY <1>1, LsaHeaderIs, NetworkDataIs, AddressIs
       DEF LsaSize, Router, Network, Summary
  <1>6. /\ ToPacket(lsa) \in Seq(Byte) /\ Len(ToPacket(lsa)) = 20 + Len(body)
        /\ Holds(ToPacket(lsa), 16, Bytes(h.checksum, 2))
        /\ \A bytes \in Seq(Byte) : \A at :
              Holds(bytes, at, ToPacket(lsa)) =>
              /\ at \in Nat /\ Decode(LsaHeader, bytes, at) = h
              /\ Holds(bytes, at + 20, body)
    <2> HIDE DEF body, h
    <2> QED BY <1>1, <1>3, <1>4, HeaderThen
  <1>7. ASSUME NEW bytes \in Seq(Byte), NEW at, Holds(bytes, at, ToPacket(lsa))
        PROVE  FromPacket(bytes, at) = lsa
    <2>1. /\ Decode(LsaHeader, bytes, at) = h /\ at \in Nat
          /\ Holds(bytes, at + 20, body)
      <3> HIDE DEF h, body
      <3> QED BY <1>6, <1>7
    <2> DEFINE b == at + 20
               size == at + LsaSize(lsa)
               rest == Part(bytes, 0, size)
    <2>2. /\ Decode(NetworkData, bytes, b)
               = [name \in Names(NetworkData) |-> lsa[name]]
          /\ Holds(bytes, b + 4, all)
      BY <1>3, <2>1
    <2>3. Decode(NetworkData, bytes, b).network_mask = lsa.network_mask
      <3> HIDE DEF b
      <3> QED BY <2>2, NetworkDataIs
    <2>4. size \in Nat /\ size = (b + 4) + Len(all) /\ size <= Len(bytes)
      <3>1. size = (b + 4) + n * 4 /\ size \in Nat
        <4>1. n \in Nat /\ at \in Nat
          BY <1>1, <2>1
        <4> HIDE DEF n
        <4> QED BY <1>5, <4>1
      <3>2. at + Len(ToPacket(lsa)) <= Len(bytes) /\ Len(ToPacket(lsa)) = LsaSize(lsa)
        BY <1>3, <1>5, <1>6, <1>7 DEF Holds
      <3> HIDE DEF n, all
      <3> QED BY <1>2, <3>1, <3>2
    <2>5. /\ rest \in Seq(Byte) /\ Len(rest) = (b + 4) + Len(all)
          /\ Holds(rest, b + 4, all)
      <3> DEFINE c == b + 4
      <3> HIDE DEF all, size, c
      <3>1. Holds(bytes, c, all) /\ size = c + Len(all)
        BY <2>2, <2>4 DEF c
      <3>2. /\ rest \in Seq(Byte) /\ Len(rest) = size
            /\ \A q \in Seq(Byte) : \A i :
                  Holds(bytes, i, q) /\ i + Len(q) <= size => Holds(rest, i, q)
        BY <2>4, FrontHolds
      <3> HIDE DEF rest
      <3>3. size <= size
        BY <2>4
      <3>4. Holds(rest, c, all)
        BY <1>2, <3>1, <3>2, <3>3
      <3> QED BY <3>1, <3>2, <3>4 DEF c
    <2>6. DecodeAll(Address, rest, b + 4) = lsa.attached_routers
      <3>1. IsLayout(Address) /\ Size(Address) # 0
        BY AddressIs
      <3> HIDE DEF rest, b
      <3> QED BY <1>1, <2>5, <3>1, DecodeAllIs
    <2>7. FromPacket(bytes, at) = NetworkAt(h, bytes, b)
      BY <1>1, <2>1, LsaHeaderIs DEF FromPacket, Router, Network, Summary
    <2>8. Part(bytes, 0, b - 20 + h.length) = rest
      <3>1. b - 20 = at
        BY <2>1
      <3> HIDE DEF b
      <3> QED BY <1>1, <3>1
    <2> HIDE DEF rest, b, h
    <2>9. NetworkAt(h, bytes, b)
            = [header |-> h, network_mask |-> lsa.network_mask,
               attached_routers |-> lsa.attached_routers]
      BY <2>3, <2>6, <2>8, NetworkDataIs, LsaHeaderIs DEF NetworkAt
    <2> QED BY <1>1, <2>7, <2>9
  <1>8. (20 + (4 + n * 4)) % 2 = 0 /\ 20 + (4 + n * 4) >= 20
    <2> HIDE DEF n
    <2> QED BY <1>1
  <1> HIDE DEF body, n
  <1> QED BY <1>3, <1>5, <1>6, <1>7, <1>8 DEF LsaRead

LEMMA SummaryRead ==
  ASSUME NEW lsa \in SummaryLsas
  PROVE  LsaRead(lsa)
  <1> DEFINE h == lsa.header
             body == Encode(SummaryData, lsa)
  <1>1. /\ h \in Records(LsaHeader) /\ h.type = 3
        /\ lsa = [header |-> h, network_mask |-> lsa.network_mask,
                  tos |-> lsa.tos, metric |-> lsa.metric]
    BY DEF SummaryLsas, Summary
  <1>2. /\ body \in Seq(Byte) /\ Len(body) = 8
        /\ \A bytes \in Seq(Byte) : \A at :
              Holds(bytes, at, body) =>
              Decode(SummaryData, bytes, at)
                = [name \in Names(SummaryData) |-> lsa[name]]
    <2>1. IsLayout(SummaryData) /\ Size(SummaryData) = 8 /\ Fits(SummaryData, lsa)
      BY FitsIn, SummaryDataIs
    <2> QED BY <2>1, LastIs
  <1>3. ToPacket(lsa) = Encode(LsaHeader, h) \o body
    BY <1>1 DEF ToPacket, SummaryBytes, Router, Network, Summary
  <1>4. LsaSize(lsa) = 28
    BY <1>1, LsaHeaderIs, SummaryDataIs DEF LsaSize, Router, Network, Summary
  <1>5. /\ ToPacket(lsa) \in Seq(Byte) /\ Len(ToPacket(lsa)) = 20 + Len(body)
        /\ Holds(ToPacket(lsa), 16, Bytes(h.checksum, 2))
        /\ \A bytes \in Seq(Byte) : \A at :
              Holds(bytes, at, ToPacket(lsa)) =>
              /\ at \in Nat /\ Decode(LsaHeader, bytes, at) = h
              /\ Holds(bytes, at + 20, body)
    <2> HIDE DEF body, h
    <2> QED BY <1>1, <1>2, <1>3, HeaderThen
  <1>6. ASSUME NEW bytes \in Seq(Byte), NEW at, Holds(bytes, at, ToPacket(lsa))
        PROVE  FromPacket(bytes, at) = lsa
    <2>1. /\ Decode(LsaHeader, bytes, at) = h /\ at \in Nat
          /\ Holds(bytes, at + 20, body)
      <3> HIDE DEF h, body
      <3> QED BY <1>5, <1>6
    <2> DEFINE b == at + 20
               data == Decode(SummaryData, bytes, b)
    <2>2. data = [name \in Names(SummaryData) |-> lsa[name]]
      <3> HIDE DEF body
      <3> QED BY <1>2, <2>1
    <2>3. /\ data.network_mask = lsa.network_mask /\ data.tos = lsa.tos
          /\ data.metric = lsa.metric
      <3> HIDE DEF data
      <3> QED BY <2>2, SummaryDataIs
    <2>4. FromPacket(bytes, at) = SummaryAt(h, bytes, b)
      BY <1>1, <2>1, LsaHeaderIs DEF FromPacket, Router, Network, Summary
    <2> HIDE DEF b
    <2> QED BY <1>1, <2>3, <2>4 DEF SummaryAt
  <1> HIDE DEF body
  <1> QED BY <1>2, <1>4, <1>5, <1>6 DEF LsaRead

LEMMA LsaIs ==
  \A lsa \in LSAs : LsaRead(lsa)
  BY RouterRead, NetworkRead, SummaryRead DEF LSAs

\* The LSAs of an update, each found by the lengths of those before it.
LsaBytes(lsas) == [j \in 1 .. Len(lsas) |-> ToPacket(lsas[j])]

LEMMA LsasAre ==
  ASSUME NEW lsas \in Seq(LSAs)
  PROVE  /\ LsaBytes(lsas) \in Seq(Seq(Byte))
         /\ FlattenSeq(LsaBytes(lsas)) \in Seq(Byte)
         /\ Len(FlattenSeq(LsaBytes(lsas))) % 2 = 0
         /\ Len(FlattenSeq(LsaBytes(lsas))) >= Len(lsas)
  <1> DEFINE ss == LsaBytes(lsas)
             n == Len(lsas)
  <1>1. n \in Nat /\ \A j \in 1 .. n : lsas[j] \in LSAs
    OBVIOUS
  <1>2. \A j \in 1 .. n :
          ss[j] \in Seq(Byte) /\ Len(ss[j]) % 2 = 0 /\ Len(ss[j]) >= 1
    BY <1>1, LsaIs DEF LsaRead, LsaBytes
  <1>3. ss \in Seq(Seq(Byte)) /\ Len(ss) = n
    BY <1>1, <1>2 DEF LsaBytes
  <1> HIDE DEF ss, n
  <1>4. /\ Lengths(ss) \in Seq(Nat) /\ Len(Lengths(ss)) = n
        /\ \A j \in 1 .. n : Lengths(ss)[j] = Len(ss[j])
    BY <1>3, LengthsAre
  <1>5. Total(Lengths(ss)) % 2 = 0 /\ Total(Lengths(ss)) >= n
    BY <1>2, <1>4, SumsEven, SumsAtLeast
  <1>6. FlattenSeq(ss) \in Seq(Byte) /\ Len(FlattenSeq(ss)) = Total(Lengths(ss))
    BY <1>3, FlattenHolds
  <1> QED BY <1>3, <1>5, <1>6 DEF ss, n

LEMMA LsasRead ==
  ASSUME NEW lsas \in Seq(LSAs), NEW bytes \in Seq(Byte), NEW at,
         Holds(bytes, at, FlattenSeq(LsaBytes(lsas)))
  PROVE  Lsas(bytes, at, Len(lsas)) = lsas
  <1> DEFINE n == Len(lsas)
             ss == LsaBytes(lsas)
             S == Sums(Lengths(ss))
             all == FlattenSeq(ss)
             Next1(i) == i + LsaSize(FromPacket(bytes, i))
             Is(f) == f = [k \in 0 .. n |-> IF k = 0 THEN at ELSE Next1(f[k - 1])]
             start == CHOOSE f : Is(f)
  <1>1. /\ n \in Nat /\ \A j \in 1 .. n : lsas[j] \in LSAs
        /\ lsas = [j \in 1 .. n |-> lsas[j]]
    OBVIOUS
  <1>2. at \in Nat
    BY DEF Holds
  <1>3. \A k \in 1 .. n : ss[k] = ToPacket(lsas[k]) /\ LsaRead(lsas[k])
    BY <1>1, LsaIs DEF LsaBytes
  <1>4. ss \in Seq(Seq(Byte)) /\ Len(ss) = n /\ all \in Seq(Byte)
    <2>1. Len(ss) = n
      BY <1>1 DEF LsaBytes
    <2> QED BY <2>1, LsasAre
  <1> HIDE DEF n, ss, all
  <1>5. /\ Lengths(ss) \in Seq(Nat) /\ Lengths(ss) \in Seq(Int)
        /\ Len(Lengths(ss)) = n
        /\ \A k \in 1 .. n : Lengths(ss)[k] = Len(ss[k])
    BY <1>4, LengthsAre
  <1>6. \A k \in 1 .. n : Len(ss[k]) = LsaSize(lsas[k]) /\ ss[k] \in Seq(Byte)
    BY <1>3 DEF LsaRead
  <1>7. /\ S \in [0 .. n -> Nat] /\ S[0] = 0
        /\ \A k \in 1 .. n : S[k] = S[k - 1] + LsaSize(lsas[k])
    <2>1. /\ S \in [0 .. n -> Nat] /\ S[0] = 0
          /\ \A k \in 1 .. n : S[k] = S[k - 1] + Lengths(ss)[k]
      BY <1>5, SumsAre, SumsNat
    <2> QED BY <1>5, <1>6, <2>1
  <1>8. \A k \in 1 .. n : Holds(all, S[k - 1], ss[k])
    BY <1>4, FlattenHolds DEF all
  <1> HIDE DEF S
  <1>9. ASSUME NEW k \in 1 .. n
        PROVE  FromPacket(bytes, at + S[k - 1]) = lsas[k]
    <2>1. Holds(bytes, at, all)
      BY DEF all, ss
    <2>2. Holds(bytes, at + S[k - 1], ss[k])
      BY <1>4, <1>6, <1>8, <2>1, HoldsIn
    <2> QED BY <1>3, <2>2 DEF LsaRead
  <1>10. ASSUME NEW k \in 1 .. n
         PROVE  Next1(at + S[k - 1]) = at + S[k]
    <2>1. k - 1 \in 0 .. n /\ k \in 0 .. n
      BY <1>1
    <2>2. S[k - 1] \in Nat /\ S[k] \in Nat
      BY <1>7, <2>1
    <2>3. LsaSize(lsas[k]) \in Nat
      BY <1>6
    <2>4. Next1(at + S[k - 1]) = (at + S[k - 1]) + LsaSize(lsas[k])
      BY <1>9
    <2> HIDE DEF Next1
    <2> QED BY <1>2, <1>7, <2>2, <2>3, <2>4
  <1> HIDE DEF Next1
  <1>11. \E f : Is(f)
    <2> DEFINE g == [k \in 0 .. n |-> at + S[k]]
    <2>1. ASSUME NEW k \in 0 .. n
          PROVE  g[k] = IF k = 0 THEN at ELSE Next1(g[k - 1])
      <3>1. CASE k = 0
        BY <1>2, <1>7, <3>1
      <3>2. CASE k # 0
        <4>1. k \in 1 .. n /\ k - 1 \in 0 .. n
          BY <1>1, <3>2
        <4> QED BY <1>10, <3>2, <4>1
      <3> QED BY <3>1, <3>2
    <2>2. g = [k \in 0 .. n |-> g[k]]
      OBVIOUS
    <2> HIDE DEF g
    <2>3. Is(g)
      BY <2>1, <2>2
    <2> QED BY <2>3
  <1>12. Is(start)
    BY <1>11
  <1>13. Lsas(bytes, at, n) = [k \in 1 .. n |-> FromPacket(bytes, start[k - 1])]
    BY DEF Lsas, Next1
  <1> HIDE DEF start
  <1> DEFINE T == {k \in 0 .. n : start[k] = at + S[k]}
  <1>14. \A k \in 0 .. n : k \in T
    <2>1. 0 \in T
      BY <1>1, <1>2, <1>7, <1>12
    <2>2. ASSUME NEW k \in 1 .. n, k - 1 \in T PROVE k \in T
      <3>1. k \in 0 .. n /\ k # 0
        BY <1>1
      <3>2. start[k] = Next1(start[k - 1])
        BY <1>12, <3>1
      <3> QED BY <1>10, <2>2, <3>1, <3>2
    <2> HIDE DEF T
    <2> QED BY <1>1, <2>1, <2>2, UpTo
  <1>15. ASSUME NEW k \in 1 .. n PROVE FromPacket(bytes, start[k - 1]) = lsas[k]
    <2>1. k - 1 \in 0 .. n
      BY <1>1
    <2>2. start[k - 1] = at + S[k - 1]
      BY <1>14, <2>1
    <2> QED BY <1>9, <2>2
  <1>16. [k \in 1 .. n |-> FromPacket(bytes, start[k - 1])] = [k \in 1 .. n |-> lsas[k]]
    BY <1>15
  <1> QED BY <1>1, <1>13, <1>16 DEF n

-----------------------------------------------------------------------------
(* Bodies.                                                                 *)

\* What holds of a body: its bytes, and what its handler makes of them.
BodyRead(m, Read(_, _)) ==
    /\ Body(m) \in Seq(Byte) /\ Len(Body(m)) % 2 = 0
    /\ \A bytes \in Seq(Byte) : \A at :
          Holds(bytes, at, Body(m)) /\ at + Len(Body(m)) = Len(bytes) =>
          Read(bytes, at) = Meaning(m)

\* A record, and a list of records to the end of the packet.
LEMMA EvenTimes ==
  ASSUME NEW a \in Nat, NEW b \in Nat, b % 2 = 0
  PROVE  (a * b) % 2 = 0
  <1> DEFINE e == b \div 2
             f == a * e
  <1>1. e \in Nat /\ b = 2 * e
    BY SMT
  <1>2. f \in Nat /\ a * b = 2 * f
    <2> HIDE DEF e
    <2> QED BY <1>1, SMT
  <1> HIDE DEF f
  <1>3. (2 * f) % 2 = 0
    BY <1>2, SMT
  <1> QED BY <1>2, <1>3

LEMMA ListIs ==
  ASSUME NEW layout, IsLayout(layout), NEW r \in Records(layout),
         NEW each, IsLayout(each), NEW rs \in Seq(Records(each)),
         Size(layout) % 2 = 0, Size(each) % 2 = 0, Size(each) # 0
  PROVE  /\ Encode(layout, r) \o EncodeAll(each, rs) \in Seq(Byte)
         /\ Len(Encode(layout, r) \o EncodeAll(each, rs)) % 2 = 0
         /\ \A bytes \in Seq(Byte) : \A at :
               /\ Holds(bytes, at, Encode(layout, r) \o EncodeAll(each, rs))
               /\ at + Len(Encode(layout, r) \o EncodeAll(each, rs)) = Len(bytes)
               => /\ Decode(layout, bytes, at) = r
                  /\ DecodeAll(each, bytes, at + Size(layout)) = rs
  <1> DEFINE all == EncodeAll(each, rs)
             n == Len(rs)
             c == Size(each)
             d == Size(layout)
             p == Encode(layout, r) \o all
  <1>1. /\ all \in Seq(Byte) /\ Len(all) = n * c /\ n \in Nat /\ c \in Nat
        /\ d \in Nat /\ Len(all) \in Nat
    BY EncodeAllIs, LayoutIs
  <1>2. Fits(layout, r) /\ r = [name \in Names(layout) |-> r[name]]
    BY RecordIs
  <1>3. c % 2 = 0 /\ d % 2 = 0 /\ c # 0
    OBVIOUS
  <1> HIDE DEF all, d
  <1>4. /\ p \in Seq(Byte) /\ Len(p) = d + Len(all)
        /\ \A bytes \in Seq(Byte) : \A at :
              Holds(bytes, at, p) =>
              /\ at \in Nat
              /\ Decode(layout, bytes, at) = [name \in Names(layout) |-> r[name]]
              /\ Holds(bytes, at + d, all)
    BY <1>1, <1>2, ThenIs DEF d
  <1> HIDE DEF n, c, p
  <1>5. Len(p) % 2 = 0
    <2>1. Len(all) % 2 = 0
      BY <1>1, <1>3, EvenTimes
    <2>2. \A a, b \in Nat : a % 2 = 0 /\ b % 2 = 0 => (a + b) % 2 = 0
      OBVIOUS
    <2> QED BY <1>1, <1>3, <1>4, <2>1, <2>2
  <1>6. ASSUME NEW bytes \in Seq(Byte), NEW at,
               Holds(bytes, at, p), at + Len(p) = Len(bytes)
        PROVE  Decode(layout, bytes, at) = r /\ DecodeAll(each, bytes, at + d) = rs
    <2>1. at \in Nat /\ Decode(layout, bytes, at) = r /\ Holds(bytes, at + d, all)
      BY <1>2, <1>4, <1>6
    <2>2. \A x, y, z \in Nat : x + (y + z) = (x + y) + z
      OBVIOUS
    <2>3. (at + d) + Len(all) = Len(bytes)
      <3>1. at \in Nat /\ d \in Nat /\ Len(all) \in Nat
        BY <1>1, <1>3, <2>1
      <3>2. at + (d + Len(all)) = Len(bytes)
        BY <1>4, <1>6
      <3> QED BY <2>2, <3>1, <3>2
    <2>4. DecodeAll(each, bytes, at + d) = rs
      BY <2>1, <2>3, DecodeAllIs DEF all
    <2> QED BY <2>1, <2>4
  <1> QED BY <1>4, <1>5, <1>6 DEF d, p, all

LEMMA HelloBodyRead ==
  ASSUME NEW m \in Hellos
  PROVE  BodyRead(m, HelloRead)
  <1>1. /\ m.type = 1 /\ m.hello \in Records(Hello)
        /\ m.neighbors \in Seq(Records(Address))
    BY DEF Hellos
  <1>2. /\ IsLayout(Hello) /\ Size(Hello) = 20
        /\ IsLayout(Address) /\ Size(Address) = 4
    BY HelloIs, AddressIs
  <1> DEFINE p == Encode(Hello, m.hello) \o EncodeAll(Address, m.neighbors)
  <1>3. Body(m) = p
    BY <1>1 DEF Body, HelloBody
  <1>4. Size(Hello) % 2 = 0 /\ Size(Address) % 2 = 0 /\ Size(Address) # 0
    BY <1>2
  <1>5. /\ p \in Seq(Byte) /\ Len(p) % 2 = 0
        /\ \A bytes \in Seq(Byte) : \A at :
              Holds(bytes, at, p) /\ at + Len(p) = Len(bytes) =>
              /\ Decode(Hello, bytes, at) = m.hello
              /\ DecodeAll(Address, bytes, at + Size(Hello)) = m.neighbors
    BY <1>1, <1>2, <1>4, ListIs
  <1> HIDE DEF p
  <1>6. ASSUME NEW bytes \in Seq(Byte), NEW at,
               Holds(bytes, at, p), at + Len(p) = Len(bytes)
        PROVE  HelloRead(bytes, at) = Meaning(m)
    BY <1>1, <1>5, <1>6 DEF HelloRead, Meaning
  <1> QED BY <1>3, <1>5, <1>6 DEF BodyRead

LEMMA DDBodyRead ==
  ASSUME NEW m \in DDs
  PROVE  BodyRead(m, DDRead)
  <1>1. /\ m.type = 2 /\ m.dd \in Records(DD)
        /\ m.lsahdrs \in Seq(Records(LsaHeader))
    BY DEF DDs
  <1>2. /\ IsLayout(DD) /\ Size(DD) = 8
        /\ IsLayout(LsaHeader) /\ Size(LsaHeader) = 20
    BY DDIs, LsaHeaderIs
  <1> DEFINE p == Encode(DD, m.dd) \o EncodeAll(LsaHeader, m.lsahdrs)
  <1>3. Body(m) = p
    BY <1>1 DEF Body, DDBody
  <1>4. Size(DD) % 2 = 0 /\ Size(LsaHeader) % 2 = 0 /\ Size(LsaHeader) # 0
    BY <1>2
  <1>5. /\ p \in Seq(Byte) /\ Len(p) % 2 = 0
        /\ \A bytes \in Seq(Byte) : \A at :
              Holds(bytes, at, p) /\ at + Len(p) = Len(bytes) =>
              /\ Decode(DD, bytes, at) = m.dd
              /\ DecodeAll(LsaHeader, bytes, at + Size(DD)) = m.lsahdrs
    BY <1>1, <1>2, <1>4, ListIs
  <1> HIDE DEF p
  <1>6. ASSUME NEW bytes \in Seq(Byte), NEW at,
               Holds(bytes, at, p), at + Len(p) = Len(bytes)
        PROVE  DDRead(bytes, at) = Meaning(m)
    BY <1>1, <1>5, <1>6 DEF DDRead, Meaning
  <1> QED BY <1>3, <1>5, <1>6 DEF BodyRead

LEMMA LSRBodyRead ==
  ASSUME NEW m \in LSRs
  PROVE  BodyRead(m, LSRRead)
  <1>1. m.type = 3 /\ m.reqs \in Seq(Records(Request))
    BY DEF LSRs
  <1>2. IsLayout(Request) /\ Size(Request) = 12 /\ Size(Request) # 0
    BY RequestIs
  <1> DEFINE p == EncodeAll(Request, m.reqs)
  <1>3. Body(m) = p
    BY <1>1 DEF Body, LSRBody
  <1>4. p \in Seq(Byte) /\ Len(p) = Len(m.reqs) * 12
    BY <1>1, <1>2, EncodeAllIs
  <1>5. Len(p) % 2 = 0
    <2>1. Len(m.reqs) \in Nat /\ 12 % 2 = 0
      BY <1>1
    <2> QED BY <1>4, <2>1, EvenTimes
  <1>6. ASSUME NEW bytes \in Seq(Byte), NEW at,
               Holds(bytes, at, p), at + Len(p) = Len(bytes)
        PROVE  LSRRead(bytes, at) = Meaning(m)
    <2>1. DecodeAll(Request, bytes, at) = m.reqs
      BY <1>1, <1>2, <1>6, DecodeAllIs
    <2> QED BY <1>1, <2>1 DEF LSRRead, Meaning
  <1> QED BY <1>3, <1>4, <1>5, <1>6 DEF BodyRead

\* What the numbers of a header are in.
LEMMA WordsAre ==
  ASSUME NEW v \in Nat
  PROVE  /\ v <= 255 => v \in Word(1)
         /\ v <= 65535 => v \in Word(2) /\ v \in Word(4)
         /\ v = 0 => v \in Word(8)
  <1>1. /\ v \div 256 \in Nat /\ v \div 65536 \in Nat /\ v \div 16777216 \in Nat
        /\ v = (v \div 256) * 256 + (v % 256)
        /\ v \div 256 = (v \div 65536) * 256 + ((v \div 256) % 256)
        /\ v \div 65536 = (v \div 16777216) * 256 + ((v \div 65536) % 256)
    BY Digits
  <1>2. v % 256 \in Nat /\ (v \div 256) % 256 \in Nat /\ (v \div 65536) % 256 \in Nat
    BY <1>1, SMT
  <1>3. v <= 255 => v \in Word(1)
    <2>1. v <= 255 => v \div 1 < 256
      BY SMT
    <2> QED BY <2>1, SMT DEF Word, Place
  <1>4. v <= 65535 => v \in Word(2)
    <2>1. v <= 65535 => v \div 256 < 256
      BY <1>1, <1>2, SMT
    <2> QED BY <2>1, SMT DEF Word, Place
  <1>5. v <= 65535 => v \div 16777216 < 256
    BY <1>1, <1>2, SMT
  <1>6. v <= 65535 => v \in Word(4)
    BY <1>5, SMT DEF Word, Place
  <1>7. v = 0 => v \in Word(8)
    BY <1>5, SMT DEF Word, Place
  <1> QED BY <1>3, <1>4, <1>6, <1>7, SMT

\* The LSAs are no more than the packet has bytes.
LEMMA LSUBodyRead ==
  ASSUME NEW m \in LSUs, 24 + Len(Body(m)) <= MaxPacket
  PROVE  BodyRead(m, LSURead)
  <1> DEFINE n == Len(m.lsas)
             r == [num_lsas |-> n]
             all == FlattenSeq(LsaBytes(m.lsas))
             e == Encode(Count, r)
             p == e \o all
  <1>1. m.type = 4 /\ m.lsas \in Seq(LSAs) /\ n \in Nat
    BY DEF LSUs
  <1>2. /\ IsLayout(Count) /\ Size(Count) = 4 /\ Names(Count) = {"num_lsas"}
        /\ Len(Count) = 1
    BY CountIs
  <1>3. Count[1].name = "num_lsas" /\ Count[1].width = 4
    BY DEF Count, F
  <1>4. Body(m) = p
    BY <1>1 DEF Body, LSUBody, LsaBytes
  <1>5. all \in Seq(Byte) /\ Len(all) % 2 = 0 /\ Len(all) >= n /\ Len(all) \in Nat
    BY <1>1, LsasAre
  <1>6. e \in Seq(Byte) /\ Len(e) = 4
    <2>1. \A j \in 1 .. 1 : j = 1
      OBVIOUS
    <2>2. \A j \in 1 .. Len(Count) : r[Count[j].name] \in Nat
      BY <1>1, <1>2, <1>3, <2>1
    <2> HIDE DEF r
    <2> QED BY <1>2, <2>2, EncodeNat
  <1>7. Len(p) = 4 + Len(all) /\ p \in Seq(Byte)
    <2> HIDE DEF e, all
    <2> QED BY <1>5, <1>6, ConcatProperties
  <1>8. n <= 65535
    <2>1. 24 + Len(p) <= 1500
      BY <1>4 DEF MaxPacket
    <2>2. Len(all) >= n /\ Len(all) \in Nat
      BY <1>5
    <2>3. Len(p) = 4 + Len(all)
      BY <1>7
    <2> HIDE DEF p, all, n
    <2> QED BY <1>1, <2>1, <2>2, <2>3
  <1>9. Fits(Count, r)
    <2>1. n \in Word(4)
      <3> HIDE DEF n
      <3> QED BY <1>1, <1>8, WordsAre
    <2>2. \A j \in 1 .. 1 : j = 1
      OBVIOUS
    <2> HIDE DEF n
    <2> QED BY <1>2, <1>3, <2>1, <2>2 DEF Fits
  <1>10. Len(p) % 2 = 0
    <2>1. \A a \in Nat : a % 2 = 0 => (4 + a) % 2 = 0
      OBVIOUS
    <2> HIDE DEF p, all
    <2> QED BY <1>5, <1>7, <2>1
  <1>11. ASSUME NEW bytes \in Seq(Byte), NEW at,
                Holds(bytes, at, p), at + Len(p) = Len(bytes)
         PROVE  LSURead(bytes, at) = Meaning(m)
    <2> HIDE DEF all, r
    <2>1. /\ Decode(Count, bytes, at) = [name \in Names(Count) |-> r[name]]
          /\ Holds(bytes, at + Size(Count), all)
      <3>1. IsLayout(Count) /\ all \in Seq(Byte)
        BY <1>2, <1>5
      <3>2. /\ p \in Seq(Byte) /\ Len(p) = Size(Count) + Len(all)
            /\ \A b \in Seq(Byte) : \A i :
               Holds(b, i, p) =>
               /\ i \in Nat
               /\ Decode(Count, b, i) = [name \in Names(Count) |-> r[name]]
               /\ Holds(b, i + Size(Count), all)
        BY <1>9, <3>1, ThenIs
      <3> HIDE DEF p
      <3> QED BY <1>11, <3>2
    <2>2. Decode(Count, bytes, at).num_lsas = n
      BY <1>2, <2>1 DEF r
    <2>3. Lsas(bytes, at + Size(Count), n) = m.lsas
      BY <1>1, <2>1, LsasRead DEF all
    <2> QED BY <1>1, <2>2, <2>3 DEF LSURead, Meaning
  <1> HIDE DEF p
  <1> QED BY <1>4, <1>7, <1>10, <1>11 DEF BodyRead

LEMMA LSAckBodyIs ==
  ASSUME NEW m \in LSAcks
  PROVE  Body(m) \in Seq(Byte) /\ Len(Body(m)) % 2 = 0
  <1>1. m.type = 5 /\ m.lsahdrs \in Seq(Records(LsaHeader))
    BY DEF LSAcks
  <1>2. IsLayout(LsaHeader) /\ Size(LsaHeader) = 20
    BY LsaHeaderIs
  <1> DEFINE p == EncodeAll(LsaHeader, m.lsahdrs)
  <1>3. Body(m) = p
    BY <1>1 DEF Body, LSAckBody
  <1>4. p \in Seq(Byte) /\ Len(p) = Len(m.lsahdrs) * 20
    BY <1>1, <1>2, EncodeAllIs
  <1>5. Len(p) % 2 = 0
    <2>1. Len(m.lsahdrs) \in Nat /\ 20 % 2 = 0
      BY <1>1
    <2> QED BY <1>4, <2>1, EvenTimes
  <1> QED BY <1>3, <1>4, <1>5

-----------------------------------------------------------------------------
(* Packets.                                                                *)

\* A message is of one of the five types and fits its buffer.
LEMMA MessageIs ==
  ASSUME NEW m \in Messages
  PROVE  /\ Body(m) \in Seq(Byte) /\ Len(Body(m)) % 2 = 0
         /\ 24 + Len(Body(m)) <= 1500
         /\ \/ m.type = 1 /\ BodyRead(m, HelloRead)
            \/ m.type = 2 /\ BodyRead(m, DDRead)
            \/ m.type = 3 /\ BodyRead(m, LSRRead)
            \/ m.type = 4 /\ BodyRead(m, LSURead)
            \/ m.type = 5
  <1>1. m \in Hellos \cup DDs \cup LSRs \cup LSUs \cup LSAcks
    BY WireAssumption
  <1>2. 24 + Len(Body(m)) <= 1500
    BY WireAssumption, OspfHeaderIs DEF MaxPacket
  <1>3. CASE m \in Hellos
    <2>1. BodyRead(m, HelloRead)
      BY <1>3, HelloBodyRead
    <2>2. Body(m) \in Seq(Byte) /\ Len(Body(m)) % 2 = 0
      BY <2>1 DEF BodyRead
    <2> QED BY <1>2, <1>3, <2>1, <2>2 DEF Hellos
  <1>4. CASE m \in DDs
    <2>1. BodyRead(m, DDRead)
      BY <1>4, DDBodyRead
    <2>2. Body(m) \in Seq(Byte) /\ Len(Body(m)) % 2 = 0
      BY <2>1 DEF BodyRead
    <2> QED BY <1>2, <1>4, <2>1, <2>2 DEF DDs
  <1>5. CASE m \in LSRs
    <2>1. BodyRead(m, LSRRead)
      BY <1>5, LSRBodyRead
    <2>2. Body(m) \in Seq(Byte) /\ Len(Body(m)) % 2 = 0
      BY <2>1 DEF BodyRead
    <2> QED BY <1>2, <1>5, <2>1, <2>2 DEF LSRs
  <1>6. CASE m \in LSUs
    <2>1. BodyRead(m, LSURead)
      BY <1>2, <1>6, LSUBodyRead DEF MaxPacket
    <2>2. Body(m) \in Seq(Byte) /\ Len(Body(m)) % 2 = 0
      BY <2>1 DEF BodyRead
    <2> QED BY <1>2, <1>6, <2>1, <2>2 DEF LSUs
  <1>7. CASE m \in LSAcks
    <2>1. Body(m) \in Seq(Byte) /\ Len(Body(m)) % 2 = 0
      BY <1>7, LSAckBodyIs
    <2> QED BY <1>2, <1>7, <2>1 DEF LSAcks
  <1> QED BY <1>1, <1>3, <1>4, <1>5, <1>6, <1>7

LEMMA HeaderFits ==
  ASSUME NEW m \in Messages
  PROVE  Fits(OspfHeader, PacketHeader(m))
  <1> DEFINE h == PacketHeader(m)
             size == Len(Body(m))
  <1>1. /\ OspfHeader[1].name = "version" /\ OspfHeader[2].name = "type"
        /\ OspfHeader[3].name = "length" /\ OspfHeader[4].name = "router_id"
        /\ OspfHeader[5].name = "area_id" /\ OspfHeader[6].name = "checksum"
        /\ OspfHeader[7].name = "auth_type" /\ OspfHeader[8].name = "auth"
        /\ OspfHeader[1].width = 1 /\ OspfHeader[2].width = 1
        /\ OspfHeader[3].width = 2 /\ OspfHeader[4].width = 4
        /\ OspfHeader[5].width = 4 /\ OspfHeader[6].width = 2
        /\ OspfHeader[7].width = 2 /\ OspfHeader[8].width = 8
    BY DEF OspfHeader, F
  <1>2. size \in Nat /\ 24 + size <= 1500 /\ m.type \in Nat /\ m.type <= 5
    BY MessageIs
  <1>3. /\ h.version = 2 /\ h.type = m.type /\ h.length = 24 + size
        /\ h.router_id = RouterId /\ h.area_id = AreaId /\ h.checksum = 0
        /\ h.auth_type = 0 /\ h.auth = 0
    BY OspfHeaderIs DEF PacketHeader
  <1>4. /\ 2 \in Word(1) /\ m.type \in Word(1) /\ 24 + size \in Word(2)
        /\ 0 \in Word(2) /\ 0 \in Word(8)
    <2> HIDE DEF size
    <2>1. m.type <= 255 /\ 24 + size \in Nat /\ 24 + size <= 65535
      BY <1>2
    <2> QED BY <1>2, <2>1, WordsAre
  <1>5. RouterId \in Word(4) /\ AreaId \in Word(4)
    BY WireAssumption
  <1>6. \A j \in 1 .. 8 : j = 1 \/ j = 2 \/ j = 3 \/ j = 4 \/ j = 5 \/ j = 6
                          \/ j = 7 \/ j = 8
    OBVIOUS
  <1> HIDE DEF h, size
  <1>7. /\ h[OspfHeader[1].name] \in Word(OspfHeader[1].width)
        /\ h[OspfHeader[2].name] \in Word(OspfHeader[2].width)
        /\ h[OspfHeader[3].name] \in Word(OspfHeader[3].width)
        /\ h[OspfHeader[4].name] \in Word(OspfHeader[4].width)
        /\ h[OspfHeader[5].name] \in Word(OspfHeader[5].width)
        /\ h[OspfHeader[6].name] \in Word(OspfHeader[6].width)
        /\ h[OspfHeader[7].name] \in Word(OspfHeader[7].width)
        /\ h[OspfHeader[8].name] \in Word(OspfHeader[8].width)
    BY <1>1, <1>3, <1>4, <1>5
  <1>8. \A j \in 1 .. 8 : h[OspfHeader[j].name] \in Word(OspfHeader[j].width)
    BY <1>6, <1>7
  <1> QED BY <1>8, OspfHeaderIs DEF Fits, h

LEMMA ByteIsNat ==
  ASSUME NEW bytes \in Seq(Byte)
  PROVE  /\ \A j \in 1 .. Len(bytes) : bytes[j] \in Nat /\ bytes[j] <= 255
         /\ bytes \in Seq(Nat) /\ bytes \in Seq(Int) /\ Len(bytes) \in Nat
  <1>1. \A j \in 1 .. Len(bytes) : bytes[j] \in Byte
    OBVIOUS
  <1>2. \A x \in Byte : x \in Nat /\ x <= 255
    BY DEF Byte
  <1> QED BY <1>1, <1>2

LEMMA LowAndHigh ==
  ASSUME NEW x \in Nat
  PROVE  /\ x % 65536 \in Nat /\ x % 65536 <= 65535 /\ x \div 65536 \in Nat
         /\ x = (x \div 65536) * 65536 + (x % 65536)
  <1>1. x % 65536 \in Nat /\ x % 65536 <= 65535
    BY SMT
  <1>2. x \div 65536 \in Nat
    BY SMT
  <1>3. x = (x \div 65536) * 65536 + (x % 65536)
    BY SMT
  <1> QED BY <1>1, <1>2, <1>3

LEMMA CrcIs ==
  ASSUME NEW bytes \in Seq(Byte)
  PROVE  /\ WordSum(bytes) \in Nat
         /\ CrcChecksum(bytes) \in Nat /\ CrcChecksum(bytes) <= 65535
  <1> DEFINE s == [j \in 1 .. Len(bytes) |->
                      IF j % 2 = 1 THEN bytes[j] ELSE 256 * bytes[j]]
  <1>1. \A j \in 1 .. Len(bytes) : bytes[j] \in Nat
    BY ByteIsNat
  <1>2. s \in Seq(Nat)
    <2>1. ASSUME NEW j \in 1 .. Len(bytes) PROVE 256 * bytes[j] \in Nat
      <3>1. \A x \in Nat : 256 * x \in Nat
        OBVIOUS
      <3> QED BY <1>1, <3>1
    <2>2. Len(bytes) \in Nat
      OBVIOUS
    <2> QED BY <1>1, <2>1, <2>2
  <1>3. WordSum(bytes) \in Nat
    <2> HIDE DEF s
    <2> QED BY <1>2, SumsNat DEF WordSum, s
  <1> DEFINE w == WordSum(bytes)
             t == (w \div 65536) + (w % 65536)
             u == (t + (t \div 65536)) % 65536
  <1> HIDE DEF w
  <1>4. t \in Nat
    BY <1>3, LowAndHigh DEF w
  <1> HIDE DEF t
  <1>5. t + (t \div 65536) \in Nat
    BY <1>4, LowAndHigh
  <1>6. u \in Nat /\ u <= 65535
    BY <1>5, LowAndHigh
  <1> HIDE DEF u
  <1>7. 65535 - u \in Nat /\ 65535 - u <= 65535
    BY <1>6
  <1>8. CrcChecksum(bytes) = 65535 - u
    BY DEF CrcChecksum, u, t, w
  <1> QED BY <1>3, <1>7, <1>8

\* The checksum's two bytes are all that it changes.
Stamped(p, w, a, b) ==
    /\ w \in Seq(Byte) /\ Len(w) = Len(p) /\ w[13] = a /\ w[14] = b
    /\ \A i \in 1 .. Len(p) : i # 13 /\ i # 14 => w[i] = p[i]
    /\ \A q \in Seq(Byte) : \A at :
          Holds(p, at, q) /\ (at + Len(q) <= 12 \/ at >= 14) => Holds(w, at, q)

LEMMA StampedIs ==
  ASSUME NEW p \in Seq(Byte), Len(p) >= 24, NEW a \in Byte, NEW b \in Byte
  PROVE  Stamped(p, [p EXCEPT ![13] = a, ![14] = b], a, b)
  <1> DEFINE w == [p EXCEPT ![13] = a, ![14] = b]
  <1>1. Len(p) \in Nat /\ 13 \in 1 .. Len(p) /\ 14 \in 1 .. Len(p)
    OBVIOUS
  <1>2. /\ w \in Seq(Byte) /\ Len(w) = Len(p) /\ w[13] = a /\ w[14] = b
        /\ \A i \in 1 .. Len(p) : i # 13 /\ i # 14 => w[i] = p[i]
    BY <1>1
  <1> HIDE DEF w
  <1>3. ASSUME NEW q \in Seq(Byte), NEW at, Holds(p, at, q),
               at + Len(q) <= 12 \/ at >= 14
        PROVE  Holds(w, at, q)
    <2>1. at \in Nat /\ Len(q) \in Nat /\ at + Len(q) <= Len(p)
      BY <1>3 DEF Holds
    <2>2. ASSUME NEW i \in 1 .. Len(q) PROVE w[at + i] = q[i]
      <3>1. at + i \in 1 .. Len(p) /\ at + i # 13 /\ at + i # 14
        BY <1>1, <1>3, <2>1
      <3>2. p[at + i] = q[i]
        BY <1>3 DEF Holds
      <3> QED BY <1>2, <3>1, <3>2
    <2> QED BY <1>2, <2>1, <2>2 DEF Holds
  <1>4. Stamped(p, w, a, b)
    BY <1>2, <1>3 DEF Stamped
  <1> QED BY <1>4 DEF w

\* A packet before its checksum, and after.
Unsummed(m) == Encode(OspfHeader, PacketHeader(m)) \o Body(m)

LEMMA UnsummedIs ==
  ASSUME NEW m \in Messages
  PROVE  /\ Unsummed(m) \in Seq(Byte)
         /\ Len(Unsummed(m)) = 24 + Len(Body(m))
         /\ Holds(Unsummed(m), 1, Bytes(m.type, 1))
         /\ Holds(Unsummed(m), 2, Bytes(24 + Len(Body(m)), 2))
         /\ Holds(Unsummed(m), 12, Bytes(0, 2))
         /\ Holds(Unsummed(m), 24, Body(m))
  <1> DEFINE h == PacketHeader(m)
             e == Encode(OspfHeader, h)
             b == Body(m)
             p == e \o b
  <1>1. b \in Seq(Byte) /\ 24 + Len(b) \in Nat /\ m.type \in Nat
    BY MessageIs
  <1>2. /\ e \in Seq(Byte) /\ Len(e) = 24
        /\ \A j \in 1 .. 8 : Holds(e, Ends(OspfHeader)[j - 1],
                                   Bytes(h[OspfHeader[j].name], OspfHeader[j].width))
    BY HeaderFits, OspfHeaderIs, EncodeIs
  <1>3. /\ OspfHeader[2].name = "type" /\ OspfHeader[2].width = 1
        /\ OspfHeader[3].name = "length" /\ OspfHeader[3].width = 2
        /\ OspfHeader[6].name = "checksum" /\ OspfHeader[6].width = 2
    BY DEF OspfHeader, F
  <1>4. /\ h["type"] = m.type /\ h["length"] = 24 + Len(b) /\ h["checksum"] = 0
    BY OspfHeaderIs DEF PacketHeader
  <1> HIDE DEF h, e, b
  <1>5. /\ Holds(e, Ends(OspfHeader)[2 - 1], Bytes(m.type, 1))
        /\ Holds(e, Ends(OspfHeader)[3 - 1], Bytes(24 + Len(b), 2))
        /\ Holds(e, Ends(OspfHeader)[6 - 1], Bytes(0, 2))
    BY <1>2, <1>3, <1>4
  <1>6. /\ 2 - 1 = 1 /\ 3 - 1 = 2 /\ 6 - 1 = 5
        /\ Ends(OspfHeader)[1] = 1 /\ Ends(OspfHeader)[2] = 2
        /\ Ends(OspfHeader)[5] = 12
    BY OspfHeaderIs
  <1>7. /\ Holds(e, 1, Bytes(m.type, 1)) /\ Holds(e, 2, Bytes(24 + Len(b), 2))
        /\ Holds(e, 12, Bytes(0, 2))
    BY <1>5, <1>6
  <1>8. /\ p \in Seq(Byte) /\ Len(p) = 24 + Len(b)
        /\ Holds(p, 0, e) /\ Holds(p, 24, b)
    BY <1>1, <1>2, HoldsConcat
  <1>9. /\ Bytes(m.type, 1) \in Seq(Byte) /\ Bytes(24 + Len(b), 2) \in Seq(Byte)
        /\ Bytes(0, 2) \in Seq(Byte)
    BY <1>1, BytesAre DEF Widths
  <1> HIDE DEF p
  <1>10. /\ Holds(p, 0 + 1, Bytes(m.type, 1))
         /\ Holds(p, 0 + 2, Bytes(24 + Len(b), 2))
         /\ Holds(p, 0 + 12, Bytes(0, 2))
    BY <1>2, <1>7, <1>8, <1>9, HoldsIn
  <1>11. 0 + 1 = 1 /\ 0 + 2 = 2 /\ 0 + 12 = 12
    OBVIOUS
  <1>12. Unsummed(m) = p
    BY DEF Unsummed, p, e, h, b
  <1> QED BY <1>8, <1>10, <1>11, <1>12 DEF b

LEMMA SendPacketIs ==
  ASSUME NEW m \in Messages
  PROVE  LET p == Unsummed(m)
             w == SendPacket(m)
         IN  /\ w \in Seq(Byte) /\ Len(w) = 24 + Len(Body(m))
             /\ w[13] = CrcChecksum(p) % 256 /\ w[14] = CrcChecksum(p) \div 256
             /\ \A i \in 1 .. Len(p) : i # 13 /\ i # 14 => w[i] = p[i]
             /\ Holds(w, 24, Body(m))
             /\ Decode(OspfHeader, w, 0).type = m.type
             /\ Decode(OspfHeader, w, 0).length = Len(w)
  <1> DEFINE p == Unsummed(m)
             sum == CrcChecksum(p)
             low == sum % 256
             high == sum \div 256
             w == [p EXCEPT ![13] = low, ![14] = high]
             size == 24 + Len(Body(m))
  <1>1. /\ p \in Seq(Byte) /\ Len(p) = size /\ Holds(p, 24, Body(m))
        /\ Holds(p, 1, Bytes(m.type, 1)) /\ Holds(p, 2, Bytes(size, 2))
    BY UnsummedIs
  <1>2. /\ Body(m) \in Seq(Byte) /\ Len(Body(m)) \in Nat /\ m.type \in Nat
        /\ m.type <= 5 /\ size \in Nat /\ size <= 1500 /\ size >= 24
    BY MessageIs
  <1>3. sum \in Nat /\ sum <= 65535
    BY <1>1, CrcIs
  <1> HIDE DEF sum
  <1>4. low \in Byte /\ high \in Byte
    <2>1. /\ sum \div 256 \in Nat /\ sum % 256 \in Nat /\ sum % 256 < 256
          /\ sum = (sum \div 256) * 256 + (sum % 256)
      BY <1>3, LastDigit
    <2>2. sum \div 256 < 256
      BY <1>3, <2>1, SMT
    <2>3. \A x \in Nat : x < 256 => x \in Byte
      BY DEF Byte
    <2> QED BY <2>1, <2>2, <2>3
  <1>5. SendPacket(m) = w
    BY DEF SendPacket, Unsummed, sum
  <1> HIDE DEF p, low, high, size
  <1>6. /\ w \in Seq(Byte) /\ Len(w) = Len(p) /\ w[13] = low /\ w[14] = high
        /\ \A i \in 1 .. Len(p) : i # 13 /\ i # 14 => w[i] = p[i]
        /\ \A q \in Seq(Byte) : \A at :
              Holds(p, at, q) /\ (at + Len(q) <= 12 \/ at >= 14) => Holds(w, at, q)
    <2>1. p \in Seq(Byte) /\ Len(p) >= 24
      BY <1>1, <1>2
    <2>2. Stamped(p, w, low, high)
      BY <1>4, <2>1, StampedIs
    <2> HIDE DEF w
    <2> QED BY <2>2 DEF Stamped
  <1> HIDE DEF w
  <1>7. /\ Bytes(m.type, 1) \in Seq(Byte) /\ Len(Bytes(m.type, 1)) = 1
        /\ Bytes(size, 2) \in Seq(Byte) /\ Len(Bytes(size, 2)) = 2
    <2>1. 1 \in Widths /\ 2 \in Widths
      BY DEF Widths
    <2>2. m.type \in Nat /\ size \in Nat
      BY <1>2
    <2> QED BY <2>1, <2>2, BytesAre
  <1>8. Holds(w, 24, Body(m))
    BY <1>1, <1>2, <1>6
  <1>9. Holds(w, 1, Bytes(m.type, 1)) /\ Holds(w, 2, Bytes(size, 2))
    <2>1. 1 + 1 <= 12 /\ 2 + 2 <= 12
      OBVIOUS
    <2> QED BY <1>1, <1>6, <1>7, <2>1
  <1>10. /\ OspfHeader[2].name = "type" /\ OspfHeader[2].width = 1
         /\ OspfHeader[3].name = "length" /\ OspfHeader[3].width = 2
    BY DEF OspfHeader, F
  <1>11. m.type \in Word(1) /\ size \in Word(2)
    BY <1>2, WordsAre
  <1>12. /\ IsLayout(OspfHeader) /\ 2 \in 1 .. Len(OspfHeader)
         /\ 3 \in 1 .. Len(OspfHeader)
         /\ 0 + Ends(OspfHeader)[2 - 1] = 1 /\ 0 + Ends(OspfHeader)[3 - 1] = 2
    <2>1. 2 - 1 = 1 /\ 3 - 1 = 2
      OBVIOUS
    <2> QED BY <2>1, OspfHeaderIs
  <1>13. Decode(OspfHeader, w, 0)[OspfHeader[2].name] = m.type
    <2>1. m.type \in Word(OspfHeader[2].width) /\ 0 \in Nat
      BY <1>10, <1>11
    <2>2. Holds(w, 0 + Ends(OspfHeader)[2 - 1], Bytes(m.type, OspfHeader[2].width))
      BY <1>9, <1>10, <1>12
    <2> QED BY <1>6, <1>12, <2>1, <2>2, FieldIs
  <1>14. Decode(OspfHeader, w, 0)[OspfHeader[3].name] = size
    <2>1. size \in Word(OspfHeader[3].width) /\ 0 \in Nat
      BY <1>10, <1>11
    <2>2. Holds(w, 0 + Ends(OspfHeader)[3 - 1], Bytes(size, OspfHeader[3].width))
      BY <1>9, <1>10, <1>12
    <2> QED BY <1>6, <1>12, <2>1, <2>2, FieldIs
  <1>15. /\ Decode(OspfHeader, w, 0).type = m.type
         /\ Decode(OspfHeader, w, 0).length = Len(w)
    BY <1>1, <1>6, <1>10, <1>13, <1>14
  <1> QED BY <1>1, <1>5, <1>6, <1>8, <1>15 DEF p, low, high, sum, size

LEMMA IsUnderstood ==
  ASSUME NEW m \in Messages
  PROVE  Understood(SendPacket(m)) = Meaning(m)
  <1> DEFINE w == SendPacket(m)
             d == Decode(OspfHeader, w, 0)
             bytes == Part(w, 0, d.length)
  <1>1. /\ w \in Seq(Byte) /\ Len(w) = 24 + Len(Body(m)) /\ Holds(w, 24, Body(m))
        /\ d.type = m.type /\ d.length = Len(w)
    BY SendPacketIs
  <1>2. bytes = w
    <2>1. Len(w) \in Nat /\ Len(w) <= Len(w)
      BY <1>1
    <2> HIDE DEF w
    <2>2. Part(w, 0, Len(w)) = w
      BY <1>1, <2>1, FrontHolds
    <2> HIDE DEF d
    <2> QED BY <1>1, <2>2
  <1>3. Understood(w) =
          CASE d.type = 1 -> HelloRead(bytes, 24)
            [] d.type = 2 -> DDRead(bytes, 24)
            [] d.type = 3 -> LSRRead(bytes, 24)
            [] d.type = 4 -> LSURead(bytes, 24)
            [] OTHER -> [ignored |-> TRUE]
    BY OspfHeaderIs DEF Understood
  <1> HIDE DEF w, d, bytes
  <1>4. \/ m.type = 1 /\ BodyRead(m, HelloRead)
        \/ m.type = 2 /\ BodyRead(m, DDRead)
        \/ m.type = 3 /\ BodyRead(m, LSRRead)
        \/ m.type = 4 /\ BodyRead(m, LSURead)
        \/ m.type = 5
    BY MessageIs
  <1>5. CASE m.type = 1 /\ BodyRead(m, HelloRead)
    <2>1. HelloRead(w, 24) = Meaning(m)
      BY <1>1, <1>5 DEF BodyRead
    <2> QED BY <1>1, <1>2, <1>3, <1>5, <2>1 DEF w
  <1>6. CASE m.type = 2 /\ BodyRead(m, DDRead)
    <2>1. DDRead(w, 24) = Meaning(m)
      BY <1>1, <1>6 DEF BodyRead
    <2> QED BY <1>1, <1>2, <1>3, <1>6, <2>1 DEF w
  <1>7. CASE m.type = 3 /\ BodyRead(m, LSRRead)
    <2>1. LSRRead(w, 24) = Meaning(m)
      BY <1>1, <1>7 DEF BodyRead
    <2> QED BY <1>1, <1>2, <1>3, <1>7, <2>1 DEF w
  <1>8. CASE m.type = 4 /\ BodyRead(m, LSURead)
    <2>1. LSURead(w, 24) = Meaning(m)
      BY <1>1, <1>8 DEF BodyRead
    <2> QED BY <1>1, <1>2, <1>3, <1>8, <2>1 DEF w
  <1>9. CASE m.type = 5
    BY <1>1, <1>3, <1>9 DEF w, Meaning
  <1> QED BY <1>4, <1>5, <1>6, <1>7, <1>8, <1>9

-----------------------------------------------------------------------------
(* The packet's checksum.                                                  *)

\* What a byte counts in the sum of the machine's words.
Counted(bytes) ==
    [j \in 1 .. Len(bytes) |-> IF j % 2 = 1 THEN bytes[j] ELSE 256 * bytes[j]]

LEMMA CountedIs ==
  ASSUME NEW bytes \in Seq(Byte)
  PROVE  LET s == Counted(bytes)
         IN  /\ s \in Seq(Nat) /\ s \in Seq(Int) /\ Len(s) = Len(bytes)
             /\ \A j \in 1 .. Len(bytes) :
                   /\ s[j] = IF j % 2 = 1 THEN bytes[j] ELSE 256 * bytes[j]
                   /\ s[j] \in Nat /\ s[j] <= 65280
             /\ WordSum(bytes) = Total(s)
  <1> DEFINE s == Counted(bytes)
  <1>1. Len(bytes) \in Nat
    OBVIOUS
  <1>2. \A j \in 1 .. Len(bytes) : bytes[j] \in Nat /\ bytes[j] <= 255
    BY ByteIsNat
  <1>3. \A j \in 1 .. Len(bytes) :
          s[j] = IF j % 2 = 1 THEN bytes[j] ELSE 256 * bytes[j]
    BY DEF Counted
  <1>4. \A x \in Nat : x <= 255 => 256 * x \in Nat /\ 256 * x <= 65280 /\ x <= 65280
    OBVIOUS
  <1>5. ASSUME NEW j \in 1 .. Len(bytes)
        PROVE  s[j] \in Nat /\ s[j] <= 65280
    <2>1. bytes[j] \in Nat /\ bytes[j] <= 255
      BY <1>2
    <2>2. s[j] = bytes[j] \/ s[j] = 256 * bytes[j]
      BY <1>3
    <2> HIDE DEF s
    <2> QED BY <1>4, <2>1, <2>2
  <1>6. s \in Seq(Nat) /\ Len(s) = Len(bytes)
    BY <1>1, <1>5 DEF Counted
  <1>7. WordSum(bytes) = Total(s)
    BY DEF WordSum, Counted
  <1> HIDE DEF s
  <1>8. s \in Seq(Int)
    BY <1>6
  <1> QED BY <1>3, <1>5, <1>6, <1>7, <1>8 DEF s

LEMMA WordSumBounded ==
  ASSUME NEW bytes \in Seq(Byte)
  PROVE  WordSum(bytes) <= 65280 * Len(bytes)
  <1> DEFINE s == Counted(bytes)
             N == Len(bytes)
             T == {k \in 0 .. N : Sums(s)[k] <= 65280 * k}
  <1>1. /\ s \in Seq(Nat) /\ Len(s) = N /\ WordSum(bytes) = Total(s)
        /\ \A j \in 1 .. N : s[j] <= 65280
    BY CountedIs
  <1> HIDE DEF s, N
  <1>2. /\ N \in Nat /\ Sums(s)[0] = 0 /\ Total(s) = Sums(s)[N]
        /\ \A k \in 1 .. N :
              /\ k \in Nat /\ k - 1 \in 0 .. N /\ k \in 0 .. N
              /\ Sums(s)[k - 1] \in Nat /\ s[k] \in Nat
              /\ Sums(s)[k] = Sums(s)[k - 1] + s[k]
    BY <1>1, SumsStep
  <1>3. 0 \in T
    BY <1>2
  <1>4. ASSUME NEW k \in 1 .. N, k - 1 \in T PROVE k \in T
    <2>1. Sums(s)[k - 1] <= 65280 * (k - 1)
      BY <1>4
    <2> DEFINE before == Sums(s)[k - 1]
               more == s[k]
    <2>2. /\ Sums(s)[k] = before + more /\ before \in Nat /\ more \in Nat
          /\ k \in Nat /\ k \in 0 .. N
      BY <1>2
    <2>3. more <= 65280
      BY <1>1
    <2> HIDE DEF before, more
    <2>4. before + more <= 65280 * k
      BY <2>1, <2>2, <2>3 DEF before
    <2> QED BY <2>2, <2>4
  <1>5. N \in T
    <2>1. N \in 0 .. N /\ N \in Nat
      BY <1>2
    <2> HIDE DEF T
    <2> QED BY <1>3, <1>4, <2>1, UpTo
  <1> QED BY <1>1, <1>2, <1>5 DEF N

\* One's complement: with its checksum, a sum is a multiple of 65535.
LEMMA CrcCongruent ==
  ASSUME NEW bytes \in Seq(Byte), Len(bytes) <= 1500
  PROVE  \E q \in Nat : WordSum(bytes) + CrcChecksum(bytes) = 65535 * q
  <1> DEFINE w == WordSum(bytes)
             hi == w \div 65536
             lo == w % 65536
             t == hi + lo
             g == t \div 65536
             v == t + g
             u == v % 65536
  <1>1. w \in Nat /\ w <= 97920000
    <2>1. Len(bytes) \in Nat
      OBVIOUS
    <2>2. w \in Nat /\ w <= 65280 * Len(bytes)
      BY CrcIs, WordSumBounded
    <2> HIDE DEF w
    <2> QED BY <2>1, <2>2, SMT
  <1> HIDE DEF w
  <1>2. hi \in Nat /\ lo \in Nat /\ lo <= 65535 /\ w = hi * 65536 + lo
    BY <1>1, LowAndHigh
  <1> HIDE DEF hi, lo
  <1>3. hi <= 1495 /\ t \in Nat /\ t <= 131070
    BY <1>1, <1>2, SMT
  <1>4. g \in Nat /\ t = g * 65536 + (t % 65536) /\ t % 65536 \in Nat
    <2> HIDE DEF t
    <2> QED BY <1>3, LowAndHigh
  <1>5. v \in Nat /\ u \in Nat /\ u <= 65535 /\ v \div 65536 \in Nat
        /\ v = (v \div 65536) * 65536 + u
    <2>1. v \in Nat
      <3> HIDE DEF g, t
      <3> QED BY <1>3, <1>4
    <2> HIDE DEF v
    <2> QED BY <2>1, LowAndHigh
  <1>6. CrcChecksum(bytes) = 65535 - u
    BY DEF CrcChecksum, u, v, g, t, hi, lo, w
  <1> HIDE DEF g, u
  <1>7. CASE t <= 65535
    <2>1. g = 0
      <3> HIDE DEF t
      <3> QED BY <1>3, <1>4, <1>7, SMT
    <2>2. v = t
      BY <1>3, <2>1, SMT
    <2>3. v \div 65536 = 0
      <3> HIDE DEF v, t
      <3> QED BY <1>3, <1>5, <1>7, <2>2, SMT
    <2>4. u = t
      <3> HIDE DEF v, t
      <3> QED BY <1>3, <1>5, <2>2, <2>3, SMT
    <2> DEFINE q == hi + 1
    <2>5. w + (65535 - u) = 65535 * q /\ q \in Nat
      BY <1>2, <2>4, SMT
    <2> HIDE DEF q
    <2> QED BY <1>6, <2>5 DEF w
  <1>8. CASE ~(t <= 65535)
    <2>1. g = 1
      <3> HIDE DEF t
      <3> QED BY <1>3, <1>4, <1>8, SMT
    <2>2. v = t + 1
      BY <2>1
    <2>3. v \div 65536 = 1
      <3> HIDE DEF v, t
      <3> QED BY <1>3, <1>5, <1>8, <2>2, SMT
    <2>4. u = t + 1 - 65536
      <3> HIDE DEF v, t
      <3> QED BY <1>3, <1>5, <2>2, <2>3, SMT
    <2> DEFINE q == hi + 2
    <2>5. w + (65535 - u) = 65535 * q /\ q \in Nat
      BY <1>2, <2>4, SMT
    <2> HIDE DEF q
    <2> QED BY <1>6, <2>5 DEF w
  <1> QED BY <1>7, <1>8

\* Its own two bytes add the checksum to the sum.
LEMMA StampedSum ==
  ASSUME NEW p \in Seq(Byte), NEW w \in Seq(Byte), Len(w) = Len(p), Len(p) >= 24,
         p[13] = 0, p[14] = 0,
         \A i \in 1 .. Len(p) : i # 13 /\ i # 14 => w[i] = p[i]
  PROVE  WordSum(w) = WordSum(p) + (w[13] + 256 * w[14])
  <1> DEFINE N == Len(p)
             a == Counted(p)
             b == Counted(w)
             x == w[13]
             y == 256 * w[14]
             Extra(k) == IF k < 13 THEN 0 ELSE IF k = 13 THEN x ELSE x + y
             T == {k \in 0 .. N : Sums(b)[k] = Sums(a)[k] + Extra(k)}
  <1>1. /\ N \in Nat /\ N >= 24
        /\ a \in Seq(Nat) /\ a \in Seq(Int) /\ Len(a) = N
        /\ \A j \in 1 .. N : /\ a[j] = IF j % 2 = 1 THEN p[j] ELSE 256 * p[j]
                             /\ a[j] \in Nat
        /\ WordSum(p) = Total(a)
    BY CountedIs, SMTT(30)
  <1>2. /\ b \in Seq(Nat) /\ b \in Seq(Int) /\ Len(b) = N
        /\ \A j \in 1 .. N : /\ b[j] = IF j % 2 = 1 THEN w[j] ELSE 256 * w[j]
                             /\ b[j] \in Nat
        /\ WordSum(w) = Total(b)
    BY CountedIs, SMTT(30)
  <1>3. x \in Nat /\ y \in Nat
    <2>1. 13 \in 1 .. Len(w) /\ 14 \in 1 .. Len(w)
      BY <1>1
    <2>2. w[13] \in Nat /\ w[14] \in Nat
      BY <2>1, ByteIsNat
    <2> QED BY <2>2
  <1> HIDE DEF N, a, b
  <1>4. /\ Sums(a)[0] = 0 /\ Total(a) = Sums(a)[N] /\ Sums(a) \in [0 .. N -> Nat]
        /\ \A k \in 1 .. N : Sums(a)[k] = Sums(a)[k - 1] + a[k]
    BY <1>1, SumsAre, SumsNat
  <1>5. /\ Sums(b)[0] = 0 /\ Total(b) = Sums(b)[N] /\ Sums(b) \in [0 .. N -> Nat]
        /\ \A k \in 1 .. N : Sums(b)[k] = Sums(b)[k - 1] + b[k]
    BY <1>2, SumsAre, SumsNat
  <1>6. /\ \A k \in 1 .. N : k # 13 /\ k # 14 => b[k] = a[k]
        /\ a[13] = 0 /\ a[14] = 0 /\ b[13] = x /\ b[14] = y
    <2>1. ASSUME NEW k \in 1 .. N, k # 13, k # 14 PROVE b[k] = a[k]
      <3>1. w[k] = p[k]
        BY <2>1 DEF N
      <3>2. a[k] = IF k % 2 = 1 THEN p[k] ELSE 256 * p[k]
        BY <1>1
      <3>3. b[k] = IF k % 2 = 1 THEN w[k] ELSE 256 * w[k]
        BY <1>2
      <3> QED BY <3>1, <3>2, <3>3
    <2>2. 13 \in 1 .. N /\ 14 \in 1 .. N /\ 13 % 2 = 1 /\ 14 % 2 = 0
      BY <1>1
    <2> QED BY <1>1, <1>2, <2>1, <2>2
  <1> HIDE DEF x, y
  <1>7. 0 \in T
    BY <1>1, <1>4, <1>5
  <1>8. ASSUME NEW k \in 1 .. N, k - 1 \in T PROVE k \in T
    <2>1. /\ k - 1 \in 0 .. N /\ k \in 0 .. N /\ Sums(a)[k - 1] \in Nat /\ k \in Nat
          /\ Sums(b)[k - 1] \in Nat /\ a[k] \in Nat /\ b[k] \in Nat
      <3>1. k - 1 \in 0 .. N /\ k \in 0 .. N /\ k \in Nat
        BY <1>1
      <3>2. a[k] \in Nat /\ b[k] \in Nat
        BY <1>1, <1>2
      <3>3. Sums(a)[k - 1] \in Nat /\ Sums(b)[k - 1] \in Nat
        BY <1>4, <1>5, <3>1
      <3> QED BY <3>1, <3>2, <3>3
    <2>2. /\ Sums(b)[k - 1] = Sums(a)[k - 1] + Extra(k - 1)
          /\ Sums(a)[k] = Sums(a)[k - 1] + a[k]
          /\ Sums(b)[k] = Sums(b)[k - 1] + b[k]
      BY <1>4, <1>5, <1>8
    <2>3. b[k] + Extra(k - 1) = a[k] + Extra(k)
      <3>1. CASE k < 13
        BY <1>6, <2>1, <3>1
      <3>2. CASE k = 13
        BY <1>3, <1>6, <2>1, <3>2
      <3>3. CASE k = 14
        BY <1>3, <1>6, <2>1, <3>3
      <3>4. CASE k > 14
        BY <1>3, <1>6, <2>1, <3>4
      <3> QED BY <2>1, <3>1, <3>2, <3>3, <3>4
    <2>4. Extra(k - 1) \in Nat /\ Extra(k) \in Nat
      BY <1>3
    <2> HIDE DEF Extra
    <2>5. Sums(b)[k] = Sums(a)[k] + Extra(k)
      <3> DEFINE ea == Sums(a)[k - 1]
                 eb == Sums(b)[k - 1]
                 xa == Extra(k - 1)
                 xb == Extra(k)
                 da == a[k]
                 db == b[k]
      <3>1. /\ ea \in Nat /\ eb \in Nat /\ xa \in Nat /\ xb \in Nat
            /\ eb = ea + xa /\ Sums(a)[k] = ea + da /\ Sums(b)[k] = eb + db
            /\ db + xa = da + xb /\ da \in Nat /\ db \in Nat
        BY <2>1, <2>2, <2>3, <2>4
      <3> HIDE DEF ea, eb, xa, xb, da, db
      <3>2. eb + db = (ea + da) + xb
        BY <3>1
      <3> QED BY <3>1, <3>2 DEF xb
    <2> QED BY <2>1, <2>5
  <1>9. N \in T
    <2>1. N \in 0 .. N
      BY <1>1
    <2> HIDE DEF T
    <2> QED BY <1>1, <1>7, <1>8, <2>1, UpTo
  <1>10. Extra(N) = x + y
    BY <1>1
  <1> QED BY <1>1, <1>2, <1>4, <1>5, <1>9, <1>10 DEF x, y

\* The network's words are the machine's with their bytes swapped, which
\* multiplies their sum by 256 up to multiples of 65535.
NetworkWords(bytes) ==
    [j \in 1 .. Len(bytes) \div 2 |-> 256 * bytes[2 * j - 1] + bytes[2 * j]]

LEMMA HalfIs ==
  ASSUME NEW n \in Nat, n % 2 = 0
  PROVE  /\ n \div 2 \in Nat /\ n = 2 * (n \div 2)
         /\ \A k \in 1 .. n \div 2 :
               /\ 2 * k \in 1 .. n /\ 2 * k - 1 \in 1 .. n
               /\ (2 * k) % 2 = 0 /\ (2 * k - 1) % 2 = 1
  <1> DEFINE h == n \div 2
  <1>1. h \in Nat /\ n = 2 * h
    BY SMT
  <1> HIDE DEF h
  <1>2. ASSUME NEW k \in 1 .. h
        PROVE  /\ 2 * k \in 1 .. n /\ 2 * k - 1 \in 1 .. n
               /\ (2 * k) % 2 = 0 /\ (2 * k - 1) % 2 = 1
    BY <1>1, SMT
  <1> QED BY <1>1, <1>2 DEF h

LEMMA SwappedSum ==
  ASSUME NEW w \in Seq(Byte), Len(w) % 2 = 0
  PROVE  /\ Total(NetworkWords(w)) \in Nat
         /\ \E r \in Nat : 256 * WordSum(w) = Total(NetworkWords(w)) + 65535 * r
  <1> DEFINE N == Len(w)
             K == N \div 2
             a == Counted(w)
             b == NetworkWords(w)
             Differ(k) == \E r \in Nat : 256 * Sums(a)[2 * k] = Sums(b)[k] + 65535 * r
             T == {k \in 0 .. K : Differ(k)}
  <1>1. /\ a \in Seq(Nat) /\ Len(a) = N /\ WordSum(w) = Total(a)
        /\ \A j \in 1 .. N : a[j] = IF j % 2 = 1 THEN w[j] ELSE 256 * w[j]
    BY CountedIs
  <1>2. N \in Nat /\ N % 2 = 0 /\ \A j \in 1 .. N : w[j] \in Nat
    BY ByteIsNat
  <1>3. b = [j \in 1 .. K |-> 256 * w[2 * j - 1] + w[2 * j]]
    BY DEF NetworkWords
  <1> HIDE DEF a, b, N
  <1>4. /\ K \in Nat /\ N = 2 * K
        /\ \A k \in 1 .. K : /\ 2 * k \in 1 .. N /\ 2 * k - 1 \in 1 .. N
                             /\ (2 * k) % 2 = 0 /\ (2 * k - 1) % 2 = 1
    BY <1>2, HalfIs
  <1> HIDE DEF K
  <1>5. ASSUME NEW k \in 1 .. K
        PROVE  /\ w[2 * k - 1] \in Nat /\ w[2 * k] \in Nat
               /\ a[2 * k - 1] = w[2 * k - 1] /\ a[2 * k] = 256 * w[2 * k]
               /\ b[k] = 256 * w[2 * k - 1] + w[2 * k]
    <2>1. /\ 2 * k \in 1 .. N /\ 2 * k - 1 \in 1 .. N
          /\ (2 * k) % 2 = 0 /\ (2 * k - 1) % 2 = 1
      BY <1>4
    <2> DEFINE i == 2 * k
               j == 2 * k - 1
    <2>2. b[k] = 256 * w[j] + w[i]
      BY <1>3
    <2> HIDE DEF i, j
    <2>3. i \in 1 .. N /\ j \in 1 .. N /\ i % 2 = 0 /\ j % 2 = 1
      BY <2>1 DEF i, j
    <2>4. w[j] \in Nat /\ w[i] \in Nat
      BY <1>2, <2>3
    <2>5. /\ a[i] = IF i % 2 = 1 THEN w[i] ELSE 256 * w[i]
          /\ a[j] = IF j % 2 = 1 THEN w[j] ELSE 256 * w[j]
      BY <1>1, <2>3
    <2>6. a[j] = w[j] /\ a[i] = 256 * w[i]
      BY <2>3, <2>5
    <2> QED BY <2>2, <2>4, <2>6 DEF i, j
  <1>6. b \in Seq(Nat) /\ Len(b) = K
    <2>1. ASSUME NEW k \in 1 .. K PROVE 256 * w[2 * k - 1] + w[2 * k] \in Nat
      <3> DEFINE x == w[2 * k - 1]
                 y == w[2 * k]
      <3>1. x \in Nat /\ y \in Nat
        BY <1>5
      <3> HIDE DEF x, y
      <3>2. 256 * x + y \in Nat
        BY <3>1
      <3> QED BY <3>2 DEF x, y
    <2> QED BY <1>3, <1>4, <2>1
  <1>7. /\ Sums(a)[0] = 0 /\ Total(a) = Sums(a)[N]
        /\ \A k \in 1 .. N : /\ Sums(a)[k - 1] \in Nat
                             /\ Sums(a)[k] = Sums(a)[k - 1] + a[k]
    BY <1>1, SumsStep, SMTT(30)
  <1>8. /\ Sums(b)[0] = 0 /\ Total(b) = Sums(b)[K]
        /\ \A k \in 1 .. K : /\ Sums(b)[k - 1] \in Nat
                             /\ Sums(b)[k] = Sums(b)[k - 1] + b[k]
    BY <1>6, SumsStep
  <1>9. 0 \in T
    <2>1. 2 * 0 = 0 /\ 256 * 0 = 0 + 65535 * 0 /\ 0 \in Nat
      OBVIOUS
    <2>2. 256 * Sums(a)[2 * 0] = Sums(b)[0] + 65535 * 0
      BY <1>7, <1>8, <2>1
    <2>3. Differ(0)
      BY <2>1, <2>2
    <2>4. 0 \in 0 .. K
      BY <1>4
    <2> HIDE DEF Differ
    <2> QED BY <2>3, <2>4
  <1>10. ASSUME NEW k \in 1 .. K, k - 1 \in T PROVE k \in T
    <2>1. PICK r \in Nat : 256 * Sums(a)[2 * (k - 1)] = Sums(b)[k - 1] + 65535 * r
      BY <1>10
    <2> DEFINE x == w[2 * k - 1]
               y == w[2 * k]
               s0 == Sums(a)[2 * (k - 1)]
               s2 == Sums(a)[2 * k]
               t0 == Sums(b)[k - 1]
               t1 == Sums(b)[k]
    <2>2. s2 = (s0 + x) + 256 * y /\ s0 \in Nat /\ x \in Nat /\ y \in Nat
      <3>1. /\ 2 * k \in 1 .. N /\ 2 * k - 1 \in 1 .. N
            /\ 2 * (k - 1) = (2 * k - 1) - 1
        BY <1>4
      <3>2. /\ Sums(a)[2 * k] = Sums(a)[2 * k - 1] + a[2 * k]
            /\ Sums(a)[2 * k - 1] = Sums(a)[(2 * k - 1) - 1] + a[2 * k - 1]
            /\ Sums(a)[(2 * k - 1) - 1] \in Nat
        BY <1>7, <3>1
      <3>3. /\ x \in Nat /\ y \in Nat /\ a[2 * k - 1] = x /\ a[2 * k] = 256 * y
        BY <1>5
      <3>4. s0 = Sums(a)[(2 * k - 1) - 1]
        BY <3>1
      <3> HIDE DEF x, y, s0
      <3> QED BY <3>2, <3>3, <3>4
    <2>3. t1 = t0 + (256 * x + y) /\ t0 \in Nat
      BY <1>5, <1>8
    <2>4. 256 * s0 = t0 + 65535 * r
      BY <2>1
    <2> HIDE DEF x, y, s0, s2, t0, t1
    <2> DEFINE q == r + y
    <2>5. 256 * s2 = t1 + 65535 * q /\ q \in Nat
      BY <2>2, <2>3, <2>4, SMT
    <2> HIDE DEF q
    <2>6. Differ(k)
      BY <2>5 DEF s2, t1
    <2>7. k \in 0 .. K
      BY <1>4
    <2> QED BY <2>6, <2>7
  <1>11. K \in T
    <2>1. K \in 0 .. K
      BY <1>4
    <2> HIDE DEF T
    <2> QED BY <1>4, <1>9, <1>10, <2>1, UpTo
  <1>12. Differ(K)
    BY <1>11
  <1>13. Total(b) \in Nat
    BY <1>6, SumsNat
  <1> QED BY <1>1, <1>4, <1>7, <1>8, <1>12, <1>13 DEF b

LEMMA MultipleIs ==
  ASSUME NEW x \in Nat, NEW z \in Int, x = 65535 * z
  PROVE  x % 65535 = 0
  BY SMT

LEMMA PacketSumIs ==
  ASSUME NEW m \in Messages
  PROVE  Total(NetworkWords(SendPacket(m))) % 65535 = 0
  <1> DEFINE p == Unsummed(m)
             w == SendPacket(m)
             c == CrcChecksum(p)
  <1>1. /\ p \in Seq(Byte) /\ Len(p) = 24 + Len(Body(m)) /\ Holds(p, 12, Bytes(0, 2))
    BY UnsummedIs
  <1>2. /\ Len(Body(m)) \in Nat /\ Len(Body(m)) % 2 = 0
        /\ 24 + Len(Body(m)) <= 1500
    BY MessageIs
  <1>3. /\ w \in Seq(Byte) /\ Len(w) = 24 + Len(Body(m))
        /\ w[13] = c % 256 /\ w[14] = c \div 256
        /\ \A i \in 1 .. Len(p) : i # 13 /\ i # 14 => w[i] = p[i]
    BY SendPacketIs
  <1>4. p[13] = 0 /\ p[14] = 0
    <2>1. Len(Bytes(0, 2)) = 2 /\ Bytes(0, 2)[1] = 0 /\ Bytes(0, 2)[2] = 0
      BY BytesAre DEF Bytes, Widths, Place
    <2>2. p[12 + 1] = 0 /\ p[12 + 2] = 0
      <3> HIDE DEF p
      <3> QED BY <1>1, <2>1 DEF Holds
    <2>3. 12 + 1 = 13 /\ 12 + 2 = 14
      OBVIOUS
    <2> QED BY <2>2, <2>3
  <1> HIDE DEF p, w
  <1>5. /\ Len(w) = Len(p) /\ Len(p) >= 24 /\ Len(p) <= 1500 /\ Len(w) % 2 = 0
    <2>1. \A x \in Nat : x % 2 = 0 => (24 + x) % 2 = 0
      OBVIOUS
    <2>2. (24 + Len(Body(m))) % 2 = 0
      BY <1>2, <2>1
    <2> QED BY <1>1, <1>2, <1>3, <2>2
  <1>6. WordSum(w) = WordSum(p) + (w[13] + 256 * w[14])
    BY <1>1, <1>3, <1>4, <1>5, StampedSum
  <1>7. w[13] + 256 * w[14] = c
    <2>1. c \in Nat
      BY <1>1, CrcIs
    <2> HIDE DEF c
    <2>2. /\ c \div 256 \in Nat /\ c % 256 \in Nat
          /\ c = (c \div 256) * 256 + (c % 256)
      BY <2>1, LastDigit
    <2> QED BY <1>3, <2>2
  <1>8. PICK q \in Nat : WordSum(p) + c = 65535 * q
    BY <1>1, <1>5, CrcCongruent
  <1>9. WordSum(w) = 65535 * q
    BY <1>6, <1>7, <1>8
  <1> DEFINE t == Total(NetworkWords(w))
  <1>10. /\ t \in Nat
         /\ \E r \in Nat : 256 * WordSum(w) = t + 65535 * r
    BY <1>3, <1>5, SwappedSum
  <1>11. PICK r \in Nat : 256 * WordSum(w) = t + 65535 * r
    BY <1>10
  <1> HIDE DEF t
  <1>12. t = 65535 * (256 * q - r) /\ 256 * q - r \in Int
    BY <1>9, <1>10, <1>11, SMT
  <1>13. t % 65535 = 0
    BY <1>10, <1>12, MultipleIs
  <1> QED BY <1>13 DEF t, w

-----------------------------------------------------------------------------
(* An LSA's checksum.                                                      *)

\* The running sums of a list, as a list: C1 is their sum.
Running(bytes) == [j \in 1 .. Len(bytes) |-> Sums(bytes)[j]]

LEMMA RunningIs ==
  ASSUME NEW b \in Seq(Byte)
  PROVE  /\ Running(b) \in Seq(Nat) /\ Len(Running(b)) = Len(b)
         /\ \A k \in 1 .. Len(b) : Running(b)[k] = Sums(b)[k]
         /\ C0(b) = Total(b) /\ C1(b) = Total(Running(b))
         /\ C0(b) \in Nat /\ C1(b) \in Nat
  <1>1. b \in Seq(Nat) /\ Len(b) \in Nat
    BY ByteIsNat
  <1>2. Sums(b) \in [0 .. Len(b) -> Nat] /\ Total(b) \in Nat
    BY <1>1, SumsNat
  <1>3. \A k \in 1 .. Len(b) : Sums(b)[k] \in Nat
    <2>1. \A k \in 1 .. Len(b) : k \in 0 .. Len(b)
      BY <1>1
    <2> QED BY <1>2, <2>1
  <1>4. Running(b) \in Seq(Nat) /\ Len(Running(b)) = Len(b)
    BY <1>1, <1>3 DEF Running
  <1>5. \A k \in 1 .. Len(b) : Running(b)[k] = Sums(b)[k]
    BY DEF Running
  <1>6. C0(b) = Total(b) /\ C1(b) = Total(Running(b))
    BY DEF C0, C1, Running
  <1>7. Total(Running(b)) \in Nat
    BY <1>4, SumsNat
  <1> QED BY <1>2, <1>4, <1>5, <1>6, <1>7

\* What the checksum's two bytes add to the two sums.
LEMMA SumsWithout ==
  ASSUME NEW b \in Seq(Byte), Len(b) >= 16
  PROVE  LET z == Without(b, 14)
             n == Len(b)
         IN  /\ C0(z) \in Nat /\ C1(z) \in Nat /\ Len(z) = n
             /\ C0(b) = C0(z) + (b[15] + b[16])
             /\ C1(b) = C1(z) + ((n - 14) * b[15] + (n - 15) * b[16])
  <1> DEFINE z == Without(b, 14)
             n == Len(b)
             x == b[15]
             y == b[16]
             Extra(k) == IF k < 15 THEN 0 ELSE IF k = 15 THEN x ELSE x + y
             Extra1(k) == IF k < 15 THEN 0 ELSE (k - 14) * x + (k - 15) * y
             T == {k \in 0 .. n : Sums(b)[k] = Sums(z)[k] + Extra(k)}
             T1 == {k \in 0 .. n :
                       Sums(Running(b))[k] = Sums(Running(z))[k] + Extra1(k)}
  <1>1. n \in Nat /\ n >= 16 /\ 15 \in 1 .. n /\ 16 \in 1 .. n
    OBVIOUS
  <1>2. /\ z \in Seq(Byte) /\ Len(z) = n /\ z[15] = 0 /\ z[16] = 0
        /\ \A k \in 1 .. n : k # 15 /\ k # 16 => z[k] = b[k]
    <2>1. z = [b EXCEPT ![15] = 0, ![16] = 0]
      BY DEF Without
    <2>2. 0 \in Byte
      BY DEF Byte
    <2> HIDE DEF z
    <2> QED BY <1>1, <2>1, <2>2
  <1>3. x \in Nat /\ y \in Nat
    BY <1>1, ByteIsNat
  <1> HIDE DEF z
  <1>4. b \in Seq(Nat) /\ z \in Seq(Nat)
    BY <1>2, ByteIsNat
  <1>5. /\ Sums(b)[0] = 0 /\ Total(b) = Sums(b)[n]
        /\ \A k \in 1 .. n :
              /\ k \in Nat /\ k - 1 \in 0 .. n /\ k \in 0 .. n
              /\ Sums(b)[k - 1] \in Nat /\ b[k] \in Nat
              /\ Sums(b)[k] = Sums(b)[k - 1] + b[k]
    BY <1>4, SumsStep
  <1>6. /\ Sums(z)[0] = 0 /\ Total(z) = Sums(z)[n]
        /\ \A k \in 1 .. n :
              /\ Sums(z)[k - 1] \in Nat /\ z[k] \in Nat
              /\ Sums(z)[k] = Sums(z)[k - 1] + z[k]
    BY <1>2, <1>4, SumsStep
  <1> HIDE DEF n, x, y
  <1>0. Extra(0) = 0 /\ Extra1(0) = 0 /\ 0 \in 0 .. n
    BY <1>1
  <1>7. 0 \in T
    <2>1. Sums(b)[0] = 0 /\ Sums(z)[0] = 0
      BY <1>5, <1>6
    <2> HIDE DEF Extra
    <2> QED BY <1>0, <2>1
  <1>8. ASSUME NEW k \in 1 .. n, k - 1 \in T PROVE k \in T
    <2> DEFINE eb == Sums(b)[k - 1]
               ez == Sums(z)[k - 1]
               db == b[k]
               dz == z[k]
               x0 == Extra(k - 1)
               x1 == Extra(k)
    <2>1. /\ eb = ez + x0 /\ Sums(b)[k] = eb + db /\ Sums(z)[k] = ez + dz
          /\ eb \in Nat /\ ez \in Nat /\ db \in Nat /\ dz \in Nat
          /\ k \in Nat /\ k \in 0 .. n
      BY <1>5, <1>6, <1>8
    <2>2. x0 \in Nat /\ x1 \in Nat
      BY <1>3
    <2>3. db + x0 = dz + x1
      <3>1. CASE k < 15
        BY <1>2, <2>1, <3>1
      <3>2. CASE k = 15
        BY <1>2, <1>3, <2>1, <3>2 DEF x
      <3>3. CASE k = 16
        BY <1>2, <1>3, <2>1, <3>3 DEF y
      <3>4. CASE k > 16
        BY <1>2, <1>3, <2>1, <3>4
      <3> QED BY <2>1, <3>1, <3>2, <3>3, <3>4
    <2> HIDE DEF eb, ez, db, dz, x0, x1
    <2>4. eb + db = (ez + dz) + x1
      BY <2>1, <2>2, <2>3
    <2> QED BY <2>1, <2>4 DEF x1
  <1>9. \A k \in 0 .. n : Sums(b)[k] = Sums(z)[k] + Extra(k)
    <2>1. \A k \in 0 .. n : k \in T
      <3> HIDE DEF T
      <3> QED BY <1>1, <1>7, <1>8, UpTo
    <2> QED BY <2>1
  <1>10. /\ Running(b) \in Seq(Nat) /\ Len(Running(b)) = n
         /\ \A k \in 1 .. n : Running(b)[k] = Sums(b)[k]
         /\ C0(b) = Total(b) /\ C1(b) = Total(Running(b))
    BY RunningIs DEF n
  <1>11. /\ Running(z) \in Seq(Nat) /\ Len(Running(z)) = n
         /\ \A k \in 1 .. n : Running(z)[k] = Sums(z)[k]
         /\ C0(z) = Total(z) /\ C1(z) = Total(Running(z))
         /\ C0(z) \in Nat /\ C1(z) \in Nat
    BY <1>2, RunningIs
  <1> DEFINE rb == Running(b)
             rz == Running(z)
  <1> HIDE DEF rb, rz
  <1>12. /\ Sums(rb)[0] = 0 /\ Total(rb) = Sums(rb)[n]
         /\ \A k \in 1 .. n :
               /\ Sums(rb)[k - 1] \in Nat /\ rb[k] \in Nat
               /\ Sums(rb)[k] = Sums(rb)[k - 1] + rb[k]
    BY <1>10, SumsStep DEF rb
  <1>13. /\ Sums(rz)[0] = 0 /\ Total(rz) = Sums(rz)[n]
         /\ \A k \in 1 .. n :
               /\ Sums(rz)[k - 1] \in Nat /\ rz[k] \in Nat
               /\ Sums(rz)[k] = Sums(rz)[k - 1] + rz[k]
    BY <1>11, SumsStep DEF rz
  <1>14. 0 \in T1
    <2>1. Sums(Running(b))[0] = 0 /\ Sums(Running(z))[0] = 0
      BY <1>12, <1>13 DEF rb, rz
    <2> HIDE DEF Extra1
    <2> QED BY <1>0, <2>1
  <1>15. ASSUME NEW k \in 1 .. n, k - 1 \in T1 PROVE k \in T1
    <2> DEFINE eb == Sums(rb)[k - 1]
               ez == Sums(rz)[k - 1]
               db == rb[k]
               dz == rz[k]
               x0 == Extra1(k - 1)
               x1 == Extra1(k)
    <2>1. /\ Sums(rb)[k] = eb + db /\ Sums(rz)[k] = ez + dz
          /\ eb \in Nat /\ ez \in Nat /\ db \in Nat /\ dz \in Nat
          /\ k \in Nat /\ k \in 0 .. n
      BY <1>5, <1>12, <1>13
    <2>2. eb = ez + x0
      BY <1>15 DEF rb, rz
    <2>3. db = dz + Extra(k)
      <3>1. rb[k] = Sums(b)[k] /\ rz[k] = Sums(z)[k]
        BY <1>10, <1>11 DEF rb, rz
      <3> QED BY <1>9, <2>1, <3>1
    <2>4. x1 = x0 + Extra(k) /\ x0 \in Int /\ x1 \in Int /\ Extra(k) \in Int
      <3>1. CASE k < 15
        BY <2>1, <3>1
      <3>2. CASE k = 15
        BY <1>3, <2>1, <3>2, SMT
      <3>3. CASE k > 15
        <4> DEFINE i == k - 15
        <4>1. i \in Nat /\ k - 14 = i + 1 /\ (k - 1) - 14 = i /\ (k - 1) - 15 = i - 1
          BY <2>1, <3>3
        <4>2. x1 = (i + 1) * x + i * y /\ x0 = i * x + (i - 1) * y
          BY <2>1, <3>3, <4>1
        <4> HIDE DEF i, x0, x1
        <4>3. Extra(k) = x + y
          BY <2>1, <3>3
        <4> QED BY <1>3, <4>1, <4>2, <4>3, SMT
      <3> QED BY <2>1, <3>1, <3>2, <3>3
    <2> HIDE DEF eb, ez, db, dz, x0, x1, Extra
    <2>5. eb + db = (ez + dz) + x1
      BY <2>1, <2>2, <2>3, <2>4
    <2>6. Sums(Running(b))[k] = Sums(Running(z))[k] + Extra1(k)
      BY <2>1, <2>5 DEF rb, rz, x1
    <2> HIDE DEF Extra1
    <2> QED BY <2>1, <2>6
  <1>16. \A k \in 0 .. n : k \in T1
    <2> HIDE DEF T1
    <2> QED BY <1>1, <1>14, <1>15, UpTo
  <1>17. n \in 0 .. n
    BY <1>1
  <1>18. Extra(n) = x + y /\ Extra1(n) = (n - 14) * x + (n - 15) * y
    <2>1. ~(n < 15) /\ n # 15
      BY <1>1
    <2> QED BY <2>1
  <1> HIDE DEF Extra, Extra1
  <1>19. C0(b) = C0(z) + (x + y)
    BY <1>5, <1>6, <1>9, <1>10, <1>11, <1>17, <1>18
  <1>20. Sums(rb)[n] = Sums(rz)[n] + ((n - 14) * x + (n - 15) * y)
    BY <1>16, <1>17, <1>18 DEF rb, rz
  <1>21. C1(b) = C1(z) + ((n - 14) * x + (n - 15) * y)
    BY <1>10, <1>11, <1>12, <1>13, <1>20 DEF rb, rz
  <1> QED BY <1>2, <1>11, <1>19, <1>21 DEF n, x, y, z

Congruent(a, b) == \E i \in Int : a = b + 255 * i

LEMMA CongruentBy ==
  ASSUME NEW a, NEW b, NEW i \in Int, a = b + 255 * i
  PROVE  Congruent(a, b)
  BY DEF Congruent

\* A remainder as fletcher16 stores it, in the range of a byte without 0.
Stored(t) == (IF Rem(t, 255) = 0 THEN 255 ELSE Rem(t, 255)) % 256

LEMMA By255 ==
  ASSUME NEW t \in Nat
  PROVE  /\ t \div 255 \in Nat /\ t % 255 \in 0 .. 254
         /\ t = (t \div 255) * 255 + (t % 255)
  <1>1. t \div 255 \in Nat
    BY SMT
  <1>2. t % 255 \in 0 .. 254
    BY SMT
  <1>3. t = (t \div 255) * 255 + (t % 255)
    BY SMT
  <1> QED BY <1>1, <1>2, <1>3

LEMMA StoredIs ==
  ASSUME NEW t \in Int
  PROVE  /\ Stored(t) \in 0 .. 255
         /\ t >= 0 => Congruent(Stored(t), t)
         /\ t < 0 /\ (-t) % 255 = 0 => Congruent(Stored(t), t)
         /\ t < 0 /\ (-t) % 255 # 0 =>
               Congruent(Stored(t), t + 1)
  <1>1. \A r \in 0 .. 255 : r % 256 = r
    BY SMT
  <1>2. \A r \in 1 .. 254 : (-r) % 256 = 256 - r
    BY SMT
  <1>3. CASE t >= 0
    <2> DEFINE r == t % 255
               q == t \div 255
    <2>1. q \in Nat /\ r \in 0 .. 254 /\ t = q * 255 + r /\ t \in Nat
      BY <1>3, By255
    <2>2. Rem(t, 255) = r
      BY <1>3 DEF Rem
    <2> HIDE DEF r, q
    <2>3. Stored(t) = IF r = 0 THEN 255 ELSE r
      BY <1>1, <2>1, <2>2 DEF Stored
    <2>4. CASE r = 0
      <3>1. Stored(t) = t + 255 * (1 - q) /\ 1 - q \in Int
        BY <2>1, <2>3, <2>4
      <3>2. Congruent(Stored(t), t)
        BY <3>1, CongruentBy
      <3> QED BY <1>3, <2>3, <2>4, <3>2
    <2>5. CASE r # 0
      <3>1. Stored(t) = t + 255 * (-q) /\ -q \in Int
        BY <2>1, <2>3, <2>5
      <3>2. Stored(t) \in 0 .. 255 /\ ~(t < 0)
        BY <1>3, <2>1, <2>3, <2>5
      <3>3. Congruent(Stored(t), t)
        BY <3>1, CongruentBy
      <3> QED BY <3>2, <3>3
    <2> QED BY <2>4, <2>5
  <1>4. CASE t < 0
    <2> DEFINE m == -t
               r == m % 255
               q == m \div 255
    <2>0. m \in Nat /\ t = -m /\ ~(t >= 0)
      BY <1>4
    <2>1. Rem(t, 255) = -r
      BY <1>4 DEF Rem
    <2> HIDE DEF m
    <2>2. q \in Nat /\ r \in 0 .. 254 /\ m = q * 255 + r
      BY <2>0, By255
    <2>3. r = (-t) % 255
      BY DEF m
    <2> HIDE DEF r, q
    <2>4. CASE r = 0
      <3>1. Stored(t) = 255
        BY <1>1, <2>1, <2>4 DEF Stored
      <3>2. 255 = t + 255 * (q + 1) /\ q + 1 \in Int
        BY <2>0, <2>2, <2>4
      <3>3. Congruent(255, t)
        BY <3>2, CongruentBy
      <3> QED BY <2>0, <2>3, <2>4, <3>1, <3>3
    <2>5. CASE r # 0
      <3>1. r \in 1 .. 254 /\ -r # 0
        BY <2>2, <2>5
      <3>2. Stored(t) = 256 - r
        BY <1>2, <2>1, <3>1 DEF Stored
      <3>3. 256 - r = t + 1 + 255 * (q + 1) /\ q + 1 \in Int /\ 256 - r \in 0 .. 255
        BY <2>0, <2>2, <3>1
      <3>4. Congruent(256 - r, t + 1)
        BY <3>3, CongruentBy
      <3> QED BY <2>0, <2>3, <2>5, <3>2, <3>3, <3>4
    <2> QED BY <2>4, <2>5
  <1> QED BY <1>3, <1>4

\* The edge, and the bytes off it: 1 for a number that is stored one too low.
Lost(t) == IF t < 0 /\ t % 255 = 1 THEN 1 ELSE 0

LEMMA NextTo255 ==
  ASSUME NEW t \in Int
  PROVE  ((1 - t) % 255 = 0 <=> t % 255 = 1) /\ ((-t) % 255 = 0 <=> (t + 1) % 255 = 1)
         /\ ((-t) % 255 = 0 <=> t % 255 = 0)
  <1>1. (1 - t) % 255 = 0 <=> t % 255 = 1
    BY SMT
  <1>2. (-t) % 255 = 0 <=> (t + 1) % 255 = 1
    BY SMT
  <1>3. (-t) % 255 = 0 <=> t % 255 = 0
    BY SMT
  <1> QED BY <1>1, <1>2, <1>3

\* The two bytes of a checksum against the two numbers they were made of.
AreBytes(X, Y, sum) == X \in 0 .. 255 /\ Y \in 0 .. 255 /\ sum = X * 256 + Y

LEMMA FletcherIs ==
  ASSUME NEW v, NEW x \in Int, NEW y \in Int, v = [x |-> x, y |-> y],
         NEW bytes, NEW off, v = XY(bytes, off)
  PROVE  \E X, Y : /\ AreBytes(X, Y, Fletcher16(bytes, off))
                   /\ Congruent(X, x - Lost(x))
                   /\ Congruent(Y, y + 1 - Lost(y + 1))
  <1> DEFINE s == IF x < 0 THEN x - 1 ELSE x
             t == IF y >= 0 THEN y + 1 ELSE y
  <1>1. Fletcher16(bytes, off) = Stored(s) * 256 + Stored(t)
    <2>1. XY(bytes, off).x = x /\ XY(bytes, off).y = y
      OBVIOUS
    <2> QED BY <2>1 DEF Fletcher16, Stored
  <1>2. Stored(s) \in 0 .. 255 /\ Congruent(Stored(s), x - Lost(x))
    <2>1. CASE x >= 0
      <3>1. s = x /\ Lost(x) = 0
        BY <2>1 DEF Lost
      <3> HIDE DEF s
      <3> QED BY <2>1, <3>1, StoredIs
    <2>2. CASE x < 0
      <3>1. s \in Int /\ s = x - 1 /\ s < 0 /\ -s = 1 - x
        BY <2>2
      <3> HIDE DEF s
      <3>2. Lost(x) = IF (-s) % 255 = 0 THEN 1 ELSE 0
        BY <2>2, <3>1, NextTo255 DEF Lost
      <3>3. CASE (-s) % 255 = 0
        <4>1. Stored(s) \in 0 .. 255 /\ Congruent(Stored(s), s)
          BY <3>1, <3>3, StoredIs
        <4>2. s = x - Lost(x)
          BY <3>1, <3>2, <3>3
        <4> QED BY <4>1, <4>2
      <3>4. CASE (-s) % 255 # 0
        <4>1. Stored(s) \in 0 .. 255 /\ Congruent(Stored(s), s + 1)
          BY <3>1, <3>4, StoredIs
        <4>2. s + 1 = x - Lost(x)
          BY <3>1, <3>2, <3>4
        <4> QED BY <4>1, <4>2
      <3> QED BY <3>3, <3>4
    <2> QED BY <2>1, <2>2
  <1>3. Stored(t) \in 0 .. 255 /\ Congruent(Stored(t), y + 1 - Lost(y + 1))
    <2>1. CASE y >= 0
      <3>1. t = y + 1 /\ Lost(y + 1) = 0 /\ t \in Int /\ t >= 0
        BY <2>1 DEF Lost
      <3> HIDE DEF t
      <3> QED BY <3>1, StoredIs
    <2>2. CASE y < 0
      <3>1. t \in Int /\ t = y /\ t < 0
        BY <2>2
      <3> HIDE DEF t
      <3>2. Lost(y + 1) = IF (-t) % 255 = 0 THEN 1 ELSE 0
        <4>1. (-t) % 255 = 0 <=> (y + 1) % 255 = 1
          BY <3>1, NextTo255
        <4>2. CASE y = -1
          <5>1. (-t) % 255 # 0
            BY <3>1, <4>2, SMT
          <5> QED BY <4>2, <5>1 DEF Lost
        <4>3. CASE y + 1 < 0
          BY <4>1, <4>3 DEF Lost
        <4> QED BY <2>2, <4>2, <4>3
      <3>3. CASE (-t) % 255 = 0
        <4>1. Stored(t) \in 0 .. 255 /\ Congruent(Stored(t), t)
          BY <3>1, <3>3, StoredIs
        <4>2. t = y + 1 - Lost(y + 1)
          BY <3>1, <3>2, <3>3
        <4> QED BY <4>1, <4>2
      <3>4. CASE (-t) % 255 # 0
        <4>1. Stored(t) \in 0 .. 255 /\ Congruent(Stored(t), t + 1)
          BY <3>1, <3>4, StoredIs
        <4>2. t + 1 = y + 1 - Lost(y + 1)
          BY <3>1, <3>2, <3>4
        <4> QED BY <4>1, <4>2
      <3> QED BY <3>3, <3>4
    <2> QED BY <2>1, <2>2
  <1> DEFINE X == Stored(s)
             Y == Stored(t)
  <1>4. AreBytes(X, Y, Fletcher16(bytes, off))
    BY <1>1, <1>2, <1>3 DEF AreBytes
  <1>5. Congruent(X, x - Lost(x)) /\ Congruent(Y, y + 1 - Lost(y + 1))
    BY <1>2, <1>3
  <1> HIDE DEF X, Y
  <1> QED BY <1>4, <1>5

\* Both sums are 0 unless a byte lost 1.
LEMMA BothZero ==
  ASSUME NEW z0 \in Nat, NEW z1 \in Nat, NEW k \in Int,
         NEW c0 \in Nat, NEW c1 \in Nat, c0 = z0 % 255, c1 = z1 % 255,
         NEW X \in Nat, NEW Y \in Nat, NEW i \in Int, NEW j \in Int,
         NEW e0 \in {0, 1}, NEW e1 \in {0, 1},
         X = k * c0 - c0 - c1 - e0 + 255 * i,
         Y = c1 - k * c0 - 1 + 1 - e1 + 255 * j
  PROVE  /\ (z0 + (X + Y)) % 255 = 0 /\ (z1 + (k * X + (k - 1) * Y)) % 255 = 0
         <=> e0 = 0 /\ e1 = 0
  <1> DEFINE p == k * c0
             q0 == z0 \div 255
             q1 == z1 \div 255
             a == z0 + (X + Y)
             b == z1 + (k * X + (k - 1) * Y)
  <1>1. q0 \in Nat /\ z0 = q0 * 255 + c0
    BY By255
  <1>2. q1 \in Nat /\ z1 = q1 * 255 + c1
    BY By255
  <1>3. p \in Int
    BY SMT
  <1> HIDE DEF p, q0, q1
  <1>4. X = p - c0 - c1 - e0 + 255 * i /\ Y = c1 - p - e1 + 255 * j
    BY <1>3 DEF p
  <1>5. a = 255 * (q0 + i + j) - (e0 + e1)
    BY <1>1, <1>3, <1>4
  <1>6. ASSUME a % 255 = 0 PROVE e0 = 0 /\ e1 = 0
    <2> DEFINE w == q0 + i + j
               e == e0 + e1
    <2>1. w \in Int /\ e \in 0 .. 2 /\ a = 255 * w - e
      BY <1>1, <1>5
    <2> HIDE DEF w, e, a
    <2>2. e = 0
      BY <1>6, <2>1, SMT
    <2> QED BY <2>2 DEF e
  <1>7. ASSUME e0 = 0, e1 = 0 PROVE a % 255 = 0 /\ b % 255 = 0
    <2>1. a = 255 * (q0 + i + j) /\ q0 + i + j \in Int
      BY <1>1, <1>5, <1>7
    <2> DEFINE g == i + j
               h == k * g
    <2>2. h \in Int /\ g \in Int
      BY SMT
    <2>3. X + Y = 255 * g - c0
      BY <1>3, <1>4, <1>7
    <2>4. k * X + (k - 1) * Y = k * (X + Y) - Y
      BY SMT
    <2> HIDE DEF g
    <2>5. k * (255 * g - c0) = 255 * h - p
      <3>1. k * (255 * g - c0) = k * (255 * g) - k * c0
        BY <2>2, SMT
      <3>2. k * (255 * g) = 255 * (k * g)
        BY <2>2, SMT
      <3> DEFINE kg == k * g
                 k255 == k * (255 * g)
                 r == k * (255 * g - c0)
      <3> HIDE DEF kg, k255, r
      <3>3. k255 = 255 * kg /\ r = k255 - p
        BY <3>1, <3>2 DEF kg, k255, r, p
      <3>4. h = kg
        BY DEF kg
      <3> QED BY <3>3, <3>4 DEF r
    <2> HIDE DEF h
    <2>6. b = 255 * (q1 + h - j) /\ q1 + h - j \in Int
      <3> DEFINE r == k * (X + Y)
                 l == k * X + (k - 1) * Y
      <3>1. r = 255 * h - p
        <4>1. r = k * (255 * g - c0)
          BY <2>3
        <4> QED BY <2>5, <4>1
      <3>2. l = r - Y /\ b = z1 + l
        BY <2>4
      <3> HIDE DEF b, r, l
      <3> QED BY <1>2, <1>3, <1>4, <1>7, <2>2, <3>1, <3>2
    <2>7. \A u \in Int : (255 * u) % 255 = 0
      BY SMT
    <2> HIDE DEF a, b
    <2> QED BY <2>1, <2>6, <2>7
  <1> QED BY <1>6, <1>7

\* Bytes that hold their own checksum.
LEMMA SealedIs ==
  ASSUME NEW b \in Seq(Byte), Len(b) >= 16,
         AreBytes(b[15], b[16], Fletcher16(b, 14))
  PROVE  /\ C0(b) % 255 = 0 /\ C1(b) % 255 = 0
         <=> ~(\/ XY(b, 14).x < 0 /\ XY(b, 14).x % 255 = 1
               \/ XY(b, 14).y < 0 /\ XY(b, 14).y % 255 = 0)
  <1> DEFINE z == Without(b, 14)
             z0 == C0(z)
             z1 == C1(z)
             c0 == z0 % 255
             c1 == z1 % 255
             k == Len(b) - 14
             m == k * c0
             x == m - c0 - c1
             y == c1 - m - 1
  <1>1. XY(b, 14) = [x |-> x, y |-> y]
    BY DEF XY
  <1>2. /\ z0 \in Nat /\ z1 \in Nat
        /\ C0(b) = z0 + (b[15] + b[16])
        /\ C1(b) = z1 + ((Len(b) - 14) * b[15] + (Len(b) - 15) * b[16])
    BY SumsWithout
  <1>3. k \in Int /\ Len(b) - 15 = k - 1
    OBVIOUS
  <1> HIDE DEF z0, z1
  <1>4. c0 \in Nat /\ c1 \in Nat
    BY <1>2, By255
  <1> HIDE DEF c0, c1
  <1>5. m \in Int
    <2> HIDE DEF k
    <2> QED BY <1>3, <1>4, SMT
  <1>6. x \in Int /\ y \in Int
    <2> HIDE DEF m
    <2> QED BY <1>4, <1>5
  <1>7. PICK X, Y : /\ AreBytes(X, Y, Fletcher16(b, 14))
                    /\ Congruent(X, x - Lost(x))
                    /\ Congruent(Y, y + 1 - Lost(y + 1))
    <2> HIDE DEF x, y
    <2> QED BY <1>1, <1>6, FletcherIs
  <1>8. X = b[15] /\ Y = b[16] /\ X \in Nat /\ Y \in Nat
    <2> DEFINE f == Fletcher16(b, 14)
               X1 == b[15]
               Y1 == b[16]
    <2>1. /\ X \in 0 .. 255 /\ Y \in 0 .. 255 /\ f = X * 256 + Y
          /\ X1 \in 0 .. 255 /\ Y1 \in 0 .. 255 /\ f = X1 * 256 + Y1
      BY <1>7 DEF AreBytes
    <2> HIDE DEF f, X1, Y1
    <2>2. X = X1 /\ Y = Y1
      BY <2>1
    <2>3. X \in Nat /\ Y \in Nat
      BY <2>1
    <2> QED BY <2>2, <2>3 DEF X1, Y1
  <1>9. PICK i \in Int : X = x - Lost(x) + 255 * i
    BY <1>7 DEF Congruent
  <1>10. PICK j \in Int : Y = y + 1 - Lost(y + 1) + 255 * j
    BY <1>7 DEF Congruent
  <1> DEFINE e0 == Lost(x)
             e1 == Lost(y + 1)
  <1>11. e0 \in {0, 1} /\ e1 \in {0, 1}
    BY DEF Lost
  <1>12. e0 = 0 <=> ~(x < 0 /\ x % 255 = 1)
    BY DEF Lost
  <1>13. e1 = 0 <=> ~(y < 0 /\ y % 255 = 0)
    <2> HIDE DEF x, y
    <2>1. (y + 1) % 255 = 1 <=> y % 255 = 0
      BY <1>6, NextTo255
    <2>2. CASE y = -1
      <3>1. y % 255 # 0
        BY <2>2, SMT
      <3> QED BY <2>2, <3>1 DEF Lost
    <2>3. CASE y # -1
      <3>1. y + 1 < 0 <=> y < 0
        BY <1>6, <2>3
      <3> QED BY <2>1, <3>1 DEF Lost
    <2> QED BY <2>2, <2>3
  <1>14. /\ X = k * c0 - c0 - c1 - e0 + 255 * i
         /\ Y = c1 - k * c0 - 1 + 1 - e1 + 255 * j
    BY <1>9, <1>10
  <1> HIDE DEF e0, e1, k, x, y
  <1>15. /\ (z0 + (X + Y)) % 255 = 0 /\ (z1 + (k * X + (k - 1) * Y)) % 255 = 0
         <=> e0 = 0 /\ e1 = 0
    BY <1>2, <1>3, <1>4, <1>8, <1>11, <1>14, BothZero DEF c0, c1
  <1>16. C0(b) = z0 + (X + Y) /\ C1(b) = z1 + (k * X + (k - 1) * Y)
    BY <1>2, <1>3, <1>8 DEF k
  <1>17. XY(b, 14).x = x /\ XY(b, 14).y = y
    BY <1>1
  <1> QED BY <1>12, <1>13, <1>15, <1>16, <1>17

\* What make_router_lsa and make_network_lsa end with changes nothing in an LSA
\* that they have finished.
LEMMA FinishedIs ==
  ASSUME NEW lsa \in LSAs, lsa = Finished(lsa)
  PROVE  lsa.header.checksum = Fletcher16(Aged(lsa), 14)
  <1> DEFINE size == LsaSize(lsa)
             sized == [lsa EXCEPT !.header.length = size]
             sum == Fletcher16(Aged(sized), 14)
             h == lsa.header
             sh == [h EXCEPT !.length = size]
  <1>1. /\ lsa = [f \in DOMAIN lsa |-> lsa[f]] /\ "header" \in DOMAIN lsa
        /\ h \in Records(LsaHeader)
    <2>1. CASE lsa \in RouterLsas
      BY <2>1 DEF RouterLsas
    <2>2. CASE lsa \in NetworkLsas
      BY <2>2 DEF NetworkLsas
    <2>3. CASE lsa \in SummaryLsas
      BY <2>3 DEF SummaryLsas
    <2> QED BY <2>1, <2>2, <2>3 DEF LSAs
  <1>2. h = [f \in DOMAIN h |-> h[f]] /\ "length" \in DOMAIN h /\ "checksum" \in DOMAIN h
    <2>1. h \in [Names(LsaHeader) -> Nat]
      BY <1>1 DEF Records
    <2>2. "length" \in Names(LsaHeader) /\ "checksum" \in Names(LsaHeader)
      BY LsaHeaderIs
    <2> HIDE DEF h
    <2> QED BY <2>1, <2>2
  <1>3. lsa = [sized EXCEPT !.header.checksum = sum]
    BY DEF Finished, SumOffset
  <1> HIDE DEF size, sum
  <1>4. sized = [lsa EXCEPT !.header = sh]
    OBVIOUS
  <1>5. sized.header = sh
    <2> HIDE DEF h, sh
    <2> QED BY <1>1, <1>4
  <1>6. h = [sh EXCEPT !.checksum = sum]
    <2>1. "header" \in DOMAIN sized
      BY <1>1
    <2>2. [sized EXCEPT !.header.checksum = sum].header
            = [sized.header EXCEPT !.checksum = sum]
      <3> HIDE DEF sized
      <3> QED BY <2>1
    <2> QED BY <1>3, <1>5, <2>2
  <1>7. h.checksum = sum /\ h.length = size
    <2> DEFINE g == [sh EXCEPT !.checksum = sum]
    <2>1. g.checksum = sum /\ g.length = size
      <3> HIDE DEF h
      <3> QED BY <1>2
    <2> HIDE DEF g, h
    <2> QED BY <1>6, <2>1 DEF g
  <1>8. sh = h
    <2> HIDE DEF h
    <2> QED BY <1>2, <1>7
  <1>9. sized = lsa
    <2>1. sized = [lsa EXCEPT !.header = lsa.header]
      BY <1>4, <1>8
    <2> HIDE DEF sized, h, sh
    <2> QED BY <1>1, <2>1
  <1> QED BY <1>7, <1>9 DEF sum

\* What the checksum is computed on holds the checksum.
LEMMA AgedIs ==
  ASSUME NEW lsa \in LSAs, lsa = Finished(lsa)
  PROVE  /\ Aged(lsa) \in Seq(Byte) /\ Len(Aged(lsa)) >= 16
         /\ AreBytes(Aged(lsa)[15], Aged(lsa)[16], Fletcher16(Aged(lsa), 14))
  <1> DEFINE p == ToPacket(lsa)
             c == lsa.header.checksum
  <1>1. p \in Seq(Byte) /\ Len(p) >= 20 /\ Holds(p, 16, Bytes(c, 2))
    BY LsaIs DEF LsaRead
  <1>2. c \in Nat /\ c \div 256 < 256
    <2>1. lsa.header \in Records(LsaHeader)
      BY DEF LSAs, RouterLsas, NetworkLsas, SummaryLsas
    <2>2. Fits(LsaHeader, lsa.header) /\ 7 \in 1 .. Len(LsaHeader)
      BY <2>1, LsaHeaderIs, RecordIs
    <2>3. LsaHeader[7].name = "checksum" /\ LsaHeader[7].width = 2
      BY DEF LsaHeader, F
    <2>4. c \in Word(2)
      BY <2>2, <2>3 DEF Fits
    <2> HIDE DEF c
    <2> QED BY <2>4 DEF Word, Place
  <1>3. Fletcher16(Aged(lsa), 14) = c
    BY FinishedIs
  <1> HIDE DEF c
  <1>4. /\ Len(Bytes(c, 2)) = 2 /\ Bytes(c, 2)[1] = (c \div 256) % 256
        /\ Bytes(c, 2)[2] = c % 256
    <2>1. c \div 1 = c
      BY <1>2, SMT
    <2> QED BY <2>1 DEF Bytes, Place
  <1> HIDE DEF p
  <1>5. p[17] = (c \div 256) % 256 /\ p[18] = c % 256
    <2> DEFINE q == Bytes(c, 2)
    <2>1. /\ Len(q) = 2 /\ q[1] = (c \div 256) % 256 /\ q[2] = c % 256
      BY <1>4
    <2>2. \A i \in 1 .. Len(q) : p[16 + i] = q[i]
      BY <1>1 DEF Holds
    <2> HIDE DEF q
    <2>3. p[16 + 1] = q[1] /\ p[16 + 2] = q[2]
      BY <2>1, <2>2
    <2>4. p[17] = q[1] /\ p[18] = q[2]
      BY <2>3
    <2> QED BY <2>1, <2>4
  <1>6. /\ Tail(Tail(p)) \in Seq(Byte) /\ Len(Tail(Tail(p))) >= 16
        /\ Tail(Tail(p))[15] = p[17] /\ Tail(Tail(p))[16] = p[18]
    <2> DEFINE t == Tail(p)
    <2>1. /\ t \in Seq(Byte) /\ Len(t) = Len(p) - 1
          /\ \A i \in 1 .. Len(p) - 1 : t[i] = p[i + 1]
      BY <1>1
    <2> HIDE DEF t
    <2>2. /\ Tail(t) \in Seq(Byte) /\ Len(Tail(t)) = Len(t) - 1
          /\ \A i \in 1 .. Len(t) - 1 : Tail(t)[i] = t[i + 1]
      BY <1>1, <2>1
    <2>3. Len(p) \in Nat /\ Len(p) >= 20
      BY <1>1
    <2>4. Tail(t)[15] = t[15 + 1] /\ Tail(t)[16] = t[16 + 1]
      BY <2>1, <2>2, <2>3
    <2>5. t[16] = p[16 + 1] /\ t[17] = p[17 + 1]
      BY <2>1, <2>3
    <2> QED BY <2>1, <2>2, <2>3, <2>4, <2>5 DEF t
  <1>7. AreBytes((c \div 256) % 256, c % 256, c)
    <2> DEFINE d == c \div 256
               r == c % 256
    <2>1. d \in Nat /\ d < 256
      BY <1>2, SMT
    <2>2. r \in 0 .. 255
      BY <1>2, SMT
    <2>3. c = d * 256 + r
      BY <1>2, SMT
    <2>4. d % 256 = d
      <3> HIDE DEF d
      <3> QED BY <2>1, SMT
    <2> HIDE DEF d, r
    <2>5. AreBytes(d, r, c)
      BY <2>1, <2>2, <2>3 DEF AreBytes
    <2> QED BY <2>4, <2>5 DEF d, r
  <1>8. Aged(lsa) = Tail(Tail(p))
    BY DEF Aged, p
  <1> QED BY <1>3, <1>5, <1>6, <1>7, <1>8

-----------------------------------------------------------------------------
(* The specification.                                                      *)

\* What is on the wire is what was made of the message.
WireInv ==
    /\ message \in Messages \cup {Nothing}
    /\ wire # <<>> => message \in Messages /\ wire = SendPacket(message)

LEMMA WireInvAlways == Spec => []WireInv
  <1>1. Init => WireInv
    BY DEF Init, WireInv
  <1>2. ASSUME WireInv, [Next]_vars PROVE WireInv'
    <2>1. ASSUME NEW m \in Messages, Send(m) PROVE WireInv'
      BY <2>1 DEF Send, WireInv
    <2>2. CASE Receive
      BY <2>2 DEF Receive, WireInv
    <2>3. CASE UNCHANGED vars
      BY <1>2, <2>3 DEF vars, WireInv
    <2> QED BY <1>2, <2>1, <2>2, <2>3 DEF Next
  <1> QED BY <1>1, <1>2, PTL DEF Spec

\* The packet is a sequence of bytes, as long as its header says: send_packet
\* writes no number into a field that is too small for it.
THEOREM TypeCorrect == Spec => []TypeOK
  <1>1. ASSUME WireInv PROVE TypeOK
    <2>1. CASE wire = <<>>
      BY <1>1, <2>1 DEF WireInv, TypeOK
    <2>2. CASE wire # <<>>
      <3>1. message \in Messages /\ wire = SendPacket(message)
        BY <1>1, <2>2 DEF WireInv
      <3>2. /\ wire \in Seq(Byte)
            /\ Decode(OspfHeader, wire, 0).length = Len(wire)
        BY <3>1, SendPacketIs
      <3> QED BY <1>1, <3>2 DEF WireInv, TypeOK
    <2> QED BY <2>1, <2>2
  <1> QED BY <1>1, WireInvAlways, PTL

\* Whatever a router puts into a packet of one of the five types that fits
\* its buffer (packet.cpp:372), a router that runs the same handlers reads
\* back.
THEOREM ReadAsWritten == Spec => []RoundTrip
  <1>1. ASSUME WireInv PROVE RoundTrip
    BY <1>1, IsUnderstood DEF WireInv, RoundTrip
  <1> QED BY <1>1, WireInvAlways, PTL

\* The checksum that is computed on little-endian words and stored without
\* conversion (packet.cpp:51) is one on the network's words too.
THEOREM SumsToOnes == Spec => []PacketSum
  <1>1. ASSUME WireInv PROVE PacketSum
    <2>1. SUFFICES ASSUME wire # <<>>
                   PROVE  Total(NetworkWords(wire)) % 65535 = 0
      BY DEF PacketSum, NetworkWords
    <2> QED BY <1>1, <2>1, PacketSumIs DEF WireInv
  <1> QED BY <1>1, WireInvAlways, PTL

\* A neighbour that checks our LSAs as 12.1.7 of the RFC has it accepts those,
\* and only those, that fletcher16 (utils.hpp) made away from its edge: the
\* algorithm is right for every other LSA that make_router_lsa or
\* make_network_lsa can build.
THEOREM OwnLsasVerify == Spec => []LsaSum
  <1>1. ASSUME WireInv PROVE LsaSum
    <2>1. SUFFICES ASSUME NEW lsa \in Ours(message) PROVE Verifies(lsa) <=> ~Edge(lsa)
      BY DEF LsaSum
    <2>2. message.type = 4 /\ message # Nothing /\ lsa \in ToSet(message.lsas)
      BY <2>1 DEF Ours, Nothing
    <2>3. message \in Messages
      BY <1>1, <2>2 DEF WireInv
    <2>4. message \in LSUs
      BY <2>2, <2>3, WireAssumption DEF Hellos, DDs, LSRs, LSAcks
    <2>5. lsa \in LSAs
      BY <2>2, <2>4 DEF LSUs, ToSet
    <2>6. lsa = Finished(lsa)
      BY <2>1, <2>3, WireAssumption
    <2> DEFINE b == Aged(lsa)
    <2>7. /\ b \in Seq(Byte) /\ Len(b) >= 16
          /\ AreBytes(b[15], b[16], Fletcher16(b, 14))
      BY <2>5, <2>6, AgedIs
    <2> HIDE DEF b
    <2>8. /\ C0(b) % 255 = 0 /\ C1(b) % 255 = 0
          <=> ~(\/ XY(b, 14).x < 0 /\ XY(b, 14).x % 255 = 1
                \/ XY(b, 14).y < 0 /\ XY(b, 14).y % 255 = 0)
      BY <2>7, SealedIs
    <2>9. Verifies(lsa) <=> C0(b) % 255 = 0 /\ C1(b) % 255 = 0
      BY DEF Verifies, b
    <2>10. Edge(lsa) <=> (\/ XY(b, 14).x < 0 /\ XY(b, 14).x % 255 = 1
                          \/ XY(b, 14).y < 0 /\ XY(b, 14).y % 255 = 0)
      BY DEF Edge, SumOffset, b
    <2> QED BY <2>8, <2>9, <2>10
  <1> QED BY <1>1, WireInvAlways, PTL

=============================================================================

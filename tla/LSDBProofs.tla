----------------------------- MODULE LSDBProofs -----------------------------
(***************************************************************************)
(* Theorems about LSDB, for any keys, widths of the sequence number and    *)
(* bounds: the type invariant, the one instance of a key whose instances   *)
(* came in order, and the implementation of Store.                         *)
(***************************************************************************)
EXTENDS LSDB, SequenceTheorems, WellFoundedInduction, TLAPS

-----------------------------------------------------------------------------
(* The operations on a list.                                               *)

LEMMA MatchesType ==
  ASSUME NEW s \in Seq(LSAs), NEW k
  PROVE  /\ Len(s) \in Nat /\ DOMAIN s = 1 .. Len(s)
         /\ Matches(s, k) \subseteq 1 .. Len(s)
         /\ Instances(s, k) \subseteq LSAs
         /\ \A lsa \in Instances(s, k) : lsa.key = k
  BY DEF Matches, Instances

LEMMA LeastElement ==
  ASSUME NEW T, T \subseteq Nat, T # {}
  PROVE  \E x \in T : \A y \in T : x <= y
  <1> DEFINE R == OpToRel(<, Nat)
  <1>1. IsWellFoundedOn(R, Nat)
    BY NatLessThanWellFounded
  <1>2. \A x, y \in Nat : y < x => <<y, x>> \in R
    BY DEF OpToRel
  <1> HIDE DEF R
  <1>3. PICK x \in T : \A y \in T : ~(<<y, x>> \in R)
    BY <1>1, WFMin
  <1>4. \A y \in T : ~(y < x)
    BY <1>2, <1>3
  <1>5. \A y \in T : x \in Nat /\ y \in Nat
    OBVIOUS
  <1>6. \A y \in T : x <= y
    BY <1>4, <1>5
  <1> QED BY <1>6

\* What find_if returns is a match.
LEMMA FirstMatches ==
  ASSUME NEW s \in Seq(LSAs), NEW k, Matches(s, k) # {}
  PROVE  First(s, k) \in Matches(s, k)
  <1>1. Matches(s, k) \subseteq Nat
    BY MatchesType
  <1>2. PICK i \in Matches(s, k) : \A j \in Matches(s, k) : i <= j
    BY <1>1, LeastElement
  <1>3. \E l \in Matches(s, k) : IsFirst(s, k, l)
    BY <1>2 DEF IsFirst
  <1> QED BY <1>3 DEF First

LEMMA RemoveAtElements ==
  ASSUME NEW s \in Seq(LSAs), NEW i \in 1 .. Len(s)
  PROVE  /\ RemoveAt(s, i) \in Seq(LSAs)
         /\ Len(RemoveAt(s, i)) = Len(s) - 1
         /\ \A j \in 1 .. Len(s) - 1 :
               RemoveAt(s, i)[j] = IF j < i THEN s[j] ELSE s[j + 1]
  <1> DEFINE a == SubSeq(s, 1, i - 1)
             b == SubSeq(s, i + 1, Len(s))
  <1>1. /\ Len(s) \in Nat /\ i \in Nat
        /\ i - 1 \in 0 .. Len(s) /\ i + 1 \in 1 .. Len(s) + 1
    OBVIOUS
  <1>2. /\ a \in Seq(LSAs) /\ Len(a) = i - 1
        /\ \A j \in 1 .. i - 1 : a[j] = s[j]
    BY <1>1, SubSeqProperties
  <1>3. /\ b \in Seq(LSAs) /\ Len(b) = Len(s) - i
        /\ \A j \in 1 .. Len(s) - i : b[j] = s[i + j]
    BY <1>1, SubSeqProperties
  <1> HIDE DEF a, b
  <1>4. /\ a \o b \in Seq(LSAs) /\ Len(a \o b) = Len(a) + Len(b)
        /\ \A j \in 1 .. Len(a) + Len(b) :
              (a \o b)[j] = IF j <= Len(a) THEN a[j] ELSE b[j - Len(a)]
    BY <1>2, <1>3, ConcatProperties
  <1>5. RemoveAt(s, i) = a \o b
    BY DEF RemoveAt, a, b
  <1>6. Len(a \o b) = Len(s) - 1
    BY <1>1, <1>2, <1>3, <1>4
  <1>7. ASSUME NEW j \in 1 .. Len(s) - 1
        PROVE  (a \o b)[j] = IF j < i THEN s[j] ELSE s[j + 1]
    <2>1. CASE j < i
      BY <1>1, <1>2, <1>3, <1>4, <2>1
    <2>2. CASE ~(j < i)
      <3>1. j - (i - 1) \in 1 .. Len(s) - i /\ i + (j - (i - 1)) = j + 1
        BY <1>1, <2>2
      <3>2. (a \o b)[j] = b[j - (i - 1)]
        BY <1>1, <1>2, <1>3, <1>4, <2>2
      <3> QED BY <1>3, <2>2, <3>1, <3>2
    <2> QED BY <2>1, <2>2
  <1> QED BY <1>4, <1>5, <1>6, <1>7

\* Deleting a key takes one instance of it, and nothing of another key.
LEMMA DelElements ==
  ASSUME NEW s \in Seq(LSAs), NEW k, Matches(s, k) # {}
  PROVE  /\ Del(s, k) \in Seq(LSAs)
         /\ \A j \in DOMAIN Del(s, k) : \E l \in DOMAIN s : Del(s, k)[j] = s[l]
         /\ \A l \in DOMAIN s : l # First(s, k) =>
               \E j \in DOMAIN Del(s, k) : Del(s, k)[j] = s[l]
         /\ Get(s, k) = {s[First(s, k)]} /\ First(s, k) \in Matches(s, k)
  <1> DEFINE i == First(s, k)
             t == RemoveAt(s, i)
  <1>1. i \in Matches(s, k) /\ i \in 1 .. Len(s)
    BY FirstMatches, MatchesType
  <1>2. Del(s, k) = t /\ Get(s, k) = {s[i]}
    BY DEF Del, Get
  <1> HIDE DEF i
  <1>3. /\ t \in Seq(LSAs) /\ Len(t) = Len(s) - 1
        /\ \A j \in 1 .. Len(s) - 1 : t[j] = IF j < i THEN s[j] ELSE s[j + 1]
    BY <1>1, RemoveAtElements
  <1> HIDE DEF t
  <1>4. DOMAIN s = 1 .. Len(s) /\ DOMAIN t = 1 .. Len(s) - 1 /\ Len(s) \in Nat
    BY <1>3
  <1>5. ASSUME NEW j \in DOMAIN t PROVE \E l \in DOMAIN s : t[j] = s[l]
    <2>1. j \in DOMAIN s /\ j + 1 \in DOMAIN s
      BY <1>4
    <2> QED BY <1>3, <1>4, <2>1
  <1>6. ASSUME NEW l \in DOMAIN s, l # i
        PROVE  \E j \in DOMAIN t : t[j] = s[l]
    <2>1. CASE l < i
      <3>1. l \in 1 .. Len(s) - 1
        BY <1>1, <1>4, <2>1
      <3> QED BY <1>3, <1>4, <2>1, <3>1
    <2>2. CASE ~(l < i)
      <3>1. l - 1 \in 1 .. Len(s) - 1 /\ ~(l - 1 < i) /\ (l - 1) + 1 = l
        BY <1>1, <1>4, <1>6, <2>2
      <3> QED BY <1>3, <1>4, <3>1
    <2> QED BY <2>1, <2>2
  <1> QED BY <1>1, <1>2, <1>3, <1>5, <1>6 DEF i

\* Adding an instance keeps every instance of its key that it is not newer
\* than, adds none but itself, and leaves the other keys alone.
LEMMA AddElements ==
  ASSUME NEW s \in Seq(LSAs), NEW lsa \in LSAs
  PROVE  LET k == lsa.key
             t == Add(s, lsa)
         IN  /\ t \in Seq(LSAs)
             /\ \A j \in DOMAIN t : t[j] = lsa \/ \E l \in DOMAIN s : t[j] = s[l]
             /\ lsa \in Instances(t, k)
             /\ Instances(t, k) \subseteq Instances(s, k) \cup {lsa}
             /\ \A x \in Instances(s, k) \ Instances(t, k) : Newer(lsa, x)
             /\ \A m : m # k => Instances(t, m) = Instances(s, m)
  <1> DEFINE k == lsa.key
  <1>1. ASSUME NEW r \in Seq(LSAs),
               \A j \in DOMAIN r : \E l \in DOMAIN s : r[j] = s[l],
               \A l \in DOMAIN s :
                  \/ \E j \in DOMAIN r : r[j] = s[l]
                  \/ s[l].key = k /\ Newer(lsa, s[l])
        PROVE  LET t == Append(r, lsa)
               IN  /\ t \in Seq(LSAs)
                   /\ \A j \in DOMAIN t :
                         t[j] = lsa \/ \E l \in DOMAIN s : t[j] = s[l]
                   /\ lsa \in Instances(t, k)
                   /\ Instances(t, k) \subseteq Instances(s, k) \cup {lsa}
                   /\ \A x \in Instances(s, k) \ Instances(t, k) : Newer(lsa, x)
                   /\ \A m : m # k => Instances(t, m) = Instances(s, m)
    <2> DEFINE t == Append(r, lsa)
    <2>1. /\ t \in Seq(LSAs) /\ Len(r) \in Nat
          /\ DOMAIN r = 1 .. Len(r) /\ DOMAIN t = 1 .. Len(r) + 1
          /\ \A j \in 1 .. Len(r) : t[j] = r[j]
          /\ t[Len(r) + 1] = lsa
      OBVIOUS
    <2> HIDE DEF t
    <2>2. \A j \in DOMAIN t : t[j] = lsa \/ \E i \in DOMAIN r : t[j] = r[i]
      <3> TAKE j \in DOMAIN t
      <3>1. CASE j = Len(r) + 1
        BY <2>1, <3>1
      <3>2. CASE j \in DOMAIN r
        BY <2>1, <3>2
      <3>3. j = Len(r) + 1 \/ j \in DOMAIN r
        BY <2>1
      <3> QED BY <3>1, <3>2, <3>3
    <2>3. \A i \in DOMAIN r : i \in DOMAIN t /\ t[i] = r[i]
      BY <2>1
    <2>4. Len(r) + 1 \in DOMAIN t
      BY <2>1
    <2>5. \A m, x : x \in Instances(t, m) <=> \E j \in DOMAIN t : t[j].key = m /\ x = t[j]
      BY DEF Instances, Matches
    <2>6. \A m, x : x \in Instances(s, m) <=> \E j \in DOMAIN s : s[j].key = m /\ x = s[j]
      BY DEF Instances, Matches
    <2>7. \A j \in DOMAIN t : t[j] = lsa \/ \E l \in DOMAIN s : t[j] = s[l]
      BY <1>1, <2>2
    <2>8. \A l \in DOMAIN s : \/ \E j \in DOMAIN t : t[j] = s[l]
                              \/ s[l].key = k /\ Newer(lsa, s[l])
      BY <1>1, <2>3
    <2>9. lsa \in Instances(t, k)
      BY <2>1, <2>4, <2>5
    <2>10. Instances(t, k) \subseteq Instances(s, k) \cup {lsa}
      BY <2>5, <2>6, <2>7
    <2>11. \A x \in Instances(s, k) \ Instances(t, k) : Newer(lsa, x)
      BY <2>5, <2>6, <2>8
    <2>12. ASSUME NEW m, m # k PROVE Instances(t, m) = Instances(s, m)
      <3>1. ASSUME NEW x \in Instances(t, m) PROVE x \in Instances(s, m)
        BY <2>5, <2>6, <2>7, <2>12, <3>1
      <3>2. ASSUME NEW x \in Instances(s, m) PROVE x \in Instances(t, m)
        BY <2>5, <2>6, <2>8, <2>12, <3>2
      <3> QED BY <3>1, <3>2
    <2> QED BY <2>1, <2>7, <2>9, <2>10, <2>11, <2>12 DEF t
  <1>2. CASE \E old \in Get(s, k) : Newer(lsa, old)
    <2>1. Matches(s, k) # {}
      BY <1>2 DEF Get
    <2> DEFINE r == Del(s, k)
    <2>2. /\ r \in Seq(LSAs)
          /\ \A j \in DOMAIN r : \E l \in DOMAIN s : r[j] = s[l]
          /\ \A l \in DOMAIN s : l # First(s, k) => \E j \in DOMAIN r : r[j] = s[l]
          /\ Get(s, k) = {s[First(s, k)]} /\ First(s, k) \in Matches(s, k)
      BY <2>1, DelElements
    <2>3. s[First(s, k)].key = k /\ Newer(lsa, s[First(s, k)])
      BY <1>2, <2>2 DEF Matches
    <2>4. Add(s, lsa) = Append(r, lsa)
      BY <1>2 DEF Add
    <2> HIDE DEF r
    <2>5. \A l \in DOMAIN s : \/ \E j \in DOMAIN r : r[j] = s[l]
                              \/ s[l].key = k /\ Newer(lsa, s[l])
      BY <2>2, <2>3
    <2> QED BY <1>1, <2>2, <2>4, <2>5
  <1>3. CASE ~\E old \in Get(s, k) : Newer(lsa, old)
    <2>1. Add(s, lsa) = Append(s, lsa)
      BY <1>3 DEF Add
    <2> QED BY <1>1, <2>1
  <1> QED BY <1>2, <1>3

-----------------------------------------------------------------------------
(* The newest instances of a key.                                          *)

\* Two instances of a key that are not newer one than the other are equal.
LEMMA NewerOrder ==
  ASSUME NEW a \in LSAs, NEW b \in LSAs, NEW c \in LSAs,
         a.key = b.key, b.key = c.key
  PROVE  /\ ~Newer(a, a)
         /\ a = b \/ Newer(a, b) \/ Newer(b, a)
         /\ Newer(a, b) /\ Newer(b, c) => Newer(a, c)
  <1>1. /\ a.seq \in Int /\ b.seq \in Int /\ c.seq \in Int
        /\ a.sum \in Int /\ b.sum \in Int /\ c.sum \in Int
    <2>1. Seqs \subseteq Int /\ Sums \subseteq Int
      BY DatabaseAssumption DEF Seqs
    <2>2. \A x \in LSAs : x.seq \in Seqs /\ x.sum \in Sums
      BY DEF LSAs
    <2> QED BY <2>1, <2>2
  <1>2. a.seq = b.seq /\ a.sum = b.sum => a = b
    BY DEF LSAs
  <1> QED BY <1>1, <1>2 DEF Newer

\* A list has a newest instance of every key it has an instance of.
HasNewest(s, k) == Instances(s, k) # {} => Newest(s, k) # {}

\* The newest instance is alone.
LEMMA NewestUnique ==
  ASSUME NEW s \in Seq(LSAs), NEW k, NEW a \in Newest(s, k), NEW b \in Newest(s, k)
  PROVE  a = b
  <1>1. a \in LSAs /\ b \in LSAs /\ a.key = k /\ b.key = k
    BY MatchesType DEF Newest
  <1> QED BY <1>1, NewerOrder DEF Newest

\* What becomes of the newest instance when a list changes as Add changes it.
LEMMA NewestAfter ==
  ASSUME NEW s \in Seq(LSAs), NEW t \in Seq(LSAs), NEW lsa \in LSAs,
         HasNewest(s, lsa.key),
         lsa \in Instances(t, lsa.key),
         Instances(t, lsa.key) \subseteq Instances(s, lsa.key) \cup {lsa},
         \A x \in Instances(s, lsa.key) \ Instances(t, lsa.key) : Newer(lsa, x)
  PROVE  \/ /\ \A old \in Newest(s, lsa.key) : Newer(lsa, old)
            /\ Newest(t, lsa.key) = {lsa}
         \/ /\ Newest(s, lsa.key) # {}
            /\ Newest(t, lsa.key) = Newest(s, lsa.key)
  <1> DEFINE k == lsa.key
             A == Instances(t, k)
             B == Instances(s, k)
  <1>1. \A x \in A \cup B : x \in LSAs /\ x.key = k
    BY MatchesType
  <1>2. ~Newer(lsa, lsa)
    BY NewerOrder
  <1>3. CASE Newest(s, k) = {}
    <2>1. B = {}
      BY <1>3 DEF HasNewest
    <2>2. A = {lsa}
      BY <2>1
    <2> QED BY <1>2, <1>3, <2>2 DEF Newest
  <1>4. CASE Newest(s, k) # {}
    <2>1. PICK b \in B : \A x \in B : ~Newer(x, b)
      BY <1>4 DEF Newest
    <2>2. Newest(s, k) = {b}
      BY <2>1, NewestUnique DEF Newest
    <2>3. CASE Newer(lsa, b)
      <3>1. \A x \in B : Newer(lsa, x)
        <4> TAKE x \in B
        <4>1. x = b \/ Newer(b, x)
          BY <1>1, <2>1, NewerOrder
        <4> QED BY <1>1, <2>3, <4>1, NewerOrder
      <3>2. \A x \in B : ~Newer(x, lsa)
        BY <1>1, <1>2, <3>1, NewerOrder
      <3>3. Newest(t, k) = {lsa}
        BY <1>2, <3>1, <3>2 DEF Newest
      <3> QED BY <2>2, <2>3, <3>3
    <2>4. CASE ~Newer(lsa, b)
      <3>1. b \in A
        BY <2>4
      <3>2. b \in Newest(t, k)
        BY <2>1, <2>4, <3>1 DEF Newest
      <3>3. Newest(t, k) = {b}
        BY <3>2, NewestUnique
      <3> QED BY <1>4, <2>2, <3>3
    <2> QED BY <2>3, <2>4
  <1> QED BY <1>3, <1>4

-----------------------------------------------------------------------------
(* The invariant: types, and a newest instance of every key there is.      *)

LSDBInv == TypeOK /\ \A k \in Keys : HasNewest(List(k), k)

\* What a step that puts an LSA in does to the database.
PutStep(lsa) ==
  /\ lists' \in [Types -> Seq(LSAs)]
  /\ \A t \in Types : \A i \in DOMAIN lists'[t] : TypeOf[lists'[t][i].key] = t
  /\ \A k \in Keys : k # lsa.key => Instances(List(k), k)' = Instances(List(k), k)
  /\ \/ /\ \A old \in Newest(List(lsa.key), lsa.key) : Newer(lsa, old)
        /\ Newest(List(lsa.key), lsa.key)' = {lsa}
     \/ /\ Newest(List(lsa.key), lsa.key) # {}
        /\ Newest(List(lsa.key), lsa.key)' = Newest(List(lsa.key), lsa.key)

LEMMA ListType ==
  ASSUME TypeOK, NEW k \in Keys
  PROVE  /\ List(k) \in Seq(LSAs) /\ TypeOf[k] \in Types
         /\ \A i \in DOMAIN List(k) : TypeOf[List(k)[i].key] = TypeOf[k]
  <1>1. TypeOf[k] \in Types
    BY DatabaseAssumption
  <1> QED BY <1>1 DEF TypeOK, List

LEMMA AddPuts ==
  ASSUME LSDBInv, NEW lsa \in LSAs, Put(Add(List(lsa.key), lsa), lsa)
  PROVE  PutStep(lsa)
  <1> DEFINE k == lsa.key
             s == List(k)
             t == Add(s, lsa)
             ty == TypeOf[k]
  <1>1. k \in Keys
    BY DEF LSAs
  <1>2. /\ s \in Seq(LSAs) /\ ty \in Types
        /\ \A i \in DOMAIN s : TypeOf[s[i].key] = ty
    BY <1>1, ListType DEF LSDBInv
  <1>3. /\ t \in Seq(LSAs)
        /\ \A j \in DOMAIN t : t[j] = lsa \/ \E l \in DOMAIN s : t[j] = s[l]
        /\ lsa \in Instances(t, k)
        /\ Instances(t, k) \subseteq Instances(s, k) \cup {lsa}
        /\ \A x \in Instances(s, k) \ Instances(t, k) : Newer(lsa, x)
        /\ \A m : m # k => Instances(t, m) = Instances(s, m)
    BY <1>2, AddElements
  <1>4. lists' = [lists EXCEPT ![ty] = t] /\ lists \in [Types -> Seq(LSAs)]
    BY DEF Put, LSDBInv, TypeOK
  <1>5. HasNewest(s, k)
    BY <1>1 DEF LSDBInv
  <1>6. \A i \in DOMAIN t : TypeOf[t[i].key] = ty
    BY <1>2, <1>3
  <1>s. s = lists[ty]
    BY DEF List
  <1>7. \/ /\ \A old \in Newest(s, k) : Newer(lsa, old)
           /\ Newest(t, k) = {lsa}
        \/ /\ Newest(s, k) # {}
           /\ Newest(t, k) = Newest(s, k)
    BY <1>2, <1>3, <1>5, NewestAfter
  <1> HIDE DEF t
  <1>8. lists' \in [Types -> Seq(LSAs)] /\ lists'[ty] = t
    BY <1>2, <1>3, <1>4
  <1>9. ASSUME NEW u \in Types
        PROVE  \A i \in DOMAIN lists'[u] : TypeOf[lists'[u][i].key] = u
    <2>1. CASE u = ty
      BY <1>6, <1>8, <2>1
    <2>2. CASE u # ty
      BY <1>4, <2>2 DEF LSDBInv, TypeOK
    <2> QED BY <2>1, <2>2
  <1>10. ASSUME NEW m \in Keys, m # k
         PROVE  Instances(List(m), m)' = Instances(List(m), m)
    <2>1. TypeOf[m] \in Types
      BY DatabaseAssumption
    <2>2. CASE TypeOf[m] = ty
      <3>1. List(m)' = t /\ List(m) = s
        BY <1>8, <1>s, <2>2 DEF List
      <3>2. Instances(t, m) = Instances(s, m)
        BY <1>3, <1>10
      <3> QED BY <3>1, <3>2 DEF Instances, Matches
    <2>3. CASE TypeOf[m] # ty
      <3>1. List(m)' = List(m)
        BY <1>4, <2>1, <2>3 DEF List
      <3> QED BY <3>1 DEF Instances, Matches
    <2> QED BY <2>2, <2>3
  <1>11. Newest(List(k), k)' = Newest(t, k)
    <2>1. List(k)' = t
      BY <1>8 DEF List
    <2> QED BY <2>1 DEF Newest, Instances, Matches
  <1> QED BY <1>7, <1>8, <1>9, <1>10, <1>11 DEF PutStep


\* The LSA the router makes has the width of the field.
LEMMA MadeType ==
  ASSUME TypeOK, NEW k \in Keys, NEW sum \in Sums
  PROVE  Made(k, sum) \in LSAs /\ Made(k, sum).key = k
  <1>1. lsa_seq_num % SeqSpace \in Seqs
    BY DatabaseAssumption DEF TypeOK, Seqs
  <1> QED BY <1>1 DEF Made, LSAs

\* The three actions that put an LSA in, by what they put.
LEMMA PutsAdded ==
  ASSUME TypeOK
  PROVE  /\ \A lsa \in LSAs :
               ReceiveLSA(lsa) => Put(Add(List(lsa.key), lsa), lsa)
         /\ \A k \in OwnKeys, sum \in Sums :
               MakeFirst(k, sum) \/ MakeNext(k, sum)
               => /\ Made(k, sum) \in LSAs /\ Made(k, sum).key = k
                  /\ Put(Add(List(k), Made(k, sum)), Made(k, sum))
  <1>1. \A lsa \in LSAs : ReceiveLSA(lsa) => Put(Add(List(lsa.key), lsa), lsa)
    BY DEF ReceiveLSA
  <1>2. ASSUME NEW k \in OwnKeys, NEW sum \in Sums,
               MakeFirst(k, sum) \/ MakeNext(k, sum)
        PROVE  /\ Made(k, sum) \in LSAs /\ Made(k, sum).key = k
               /\ Put(Add(List(k), Made(k, sum)), Made(k, sum))
    <2> DEFINE lsa == Made(k, sum)
    <2>1. lsa \in LSAs /\ lsa.key = k
      BY MadeType, DatabaseAssumption
    <2> HIDE DEF lsa
    <2>2. CASE MakeFirst(k, sum)
      <3>1. Get(List(k), k) = {}
        BY <2>2 DEF MakeFirst
      <3>2. Add(List(k), lsa) = Append(List(k), lsa)
        BY <2>1, <3>1 DEF Add
      <3> QED BY <2>1, <2>2, <3>2 DEF MakeFirst, lsa
    <2>3. CASE MakeNext(k, sum)
      BY <2>1, <2>3 DEF MakeNext, lsa
    <2> QED BY <1>2, <2>2, <2>3
  <1> QED BY <1>1, <1>2

LEMMA PutSteps ==
  ASSUME LSDBInv
  PROVE  /\ \A lsa \in LSAs : ReceiveLSA(lsa) => PutStep(lsa)
         /\ \A k \in OwnKeys, sum \in Sums :
               MakeFirst(k, sum) \/ MakeNext(k, sum) => PutStep(Made(k, sum))
  BY PutsAdded, AddPuts DEF LSDBInv

LEMMA InitInv == Init => LSDBInv
  <1> SUFFICES ASSUME Init PROVE LSDBInv
    OBVIOUS
  <1>1. \A t \in Types : lists[t] = <<>>
    BY DEF Init
  <1>2. \A k \in Keys : List(k) = <<>>
    BY <1>1, DatabaseAssumption DEF List
  <1>3. DOMAIN <<>> = {} /\ <<>> \in Seq(LSAs)
    OBVIOUS
  <1>4. \A k \in Keys : Instances(List(k), k) = {}
    BY <1>2, <1>3 DEF Instances, Matches
  <1>5. lists \in [Types -> Seq(LSAs)]
    BY <1>3 DEF Init
  <1>6. lsa_seq_num \in Nat
    BY DatabaseAssumption DEF Init, InitialSeq
  <1>7. afloat \subseteq LSAs /\ inOrder \in [Keys -> BOOLEAN]
    BY DEF Init
  <1> QED BY <1>1, <1>3, <1>4, <1>5, <1>6, <1>7 DEF LSDBInv, TypeOK, HasNewest

LEMMA RestartEmpties ==
  ASSUME Restart
  PROVE  /\ TypeOK => TypeOK'
         /\ \A k \in Keys : Instances(List(k), k)' = {}
  <1>1. \A t \in Types : lists'[t] = <<>>
    BY DEF Restart
  <1>2. \A k \in Keys : List(k)' = <<>>
    BY <1>1, DatabaseAssumption DEF List
  <1>3. DOMAIN <<>> = {} /\ <<>> \in Seq(LSAs)
    OBVIOUS
  <1>4. \A k \in Keys : Instances(List(k), k)' = {}
    BY <1>2, <1>3 DEF Instances, Matches
  <1>5. lists' \in [Types -> Seq(LSAs)]
    BY <1>3 DEF Restart
  <1>6. lsa_seq_num' \in Nat
    BY DatabaseAssumption DEF Restart, InitialSeq
  <1>7. (TypeOK => afloat' \subseteq LSAs) /\ inOrder' \in [Keys -> BOOLEAN]
    BY DEF Restart, TypeOK
  <1> QED BY <1>1, <1>3, <1>4, <1>5, <1>6, <1>7 DEF TypeOK

LEMMA PutInv ==
  ASSUME LSDBInv, NEW lsa \in LSAs, PutStep(lsa),
         lsa_seq_num' \in Nat, afloat' \subseteq LSAs,
         inOrder' \in [Keys -> BOOLEAN]
  PROVE  LSDBInv'
  <1>1. TypeOK'
    BY DEF PutStep, TypeOK
  <1>2. ASSUME NEW k \in Keys PROVE HasNewest(List(k), k)'
    <2>1. CASE k = lsa.key
      BY <2>1 DEF PutStep, HasNewest
    <2>2. CASE k # lsa.key
      <3>1. Instances(List(k), k)' = Instances(List(k), k)
        BY <2>2 DEF PutStep
      <3>2. HasNewest(List(k), k)
        BY DEF LSDBInv
      <3> QED BY <3>1, <3>2 DEF HasNewest, Newest
    <2> QED BY <2>1, <2>2
  <1> QED BY <1>1, <1>2 DEF LSDBInv

LEMMA GetType ==
  ASSUME TypeOK, NEW k \in Keys PROVE Get(List(k), k) \subseteq LSAs
  <1>1. List(k) \in Seq(LSAs)
    BY ListType
  <1>2. CASE Matches(List(k), k) = {}
    BY <1>2 DEF Get
  <1>3. CASE Matches(List(k), k) # {}
    <2>1. First(List(k), k) \in 1 .. Len(List(k))
      BY <1>1, <1>3, FirstMatches, MatchesType
    <2> QED BY <1>1, <1>3, <2>1 DEF Get
  <1> QED BY <1>2, <1>3

\* The history variable records Booleans.
LEMMA OrderType ==
  ASSUME TypeOK, NEW s, NEW lsa \in LSAs, Put(s, lsa)
  PROVE  inOrder' \in [Keys -> BOOLEAN]
  BY DEF Put, TypeOK

LEMMA SameLists ==
  ASSUME LSDBInv, lists' = lists, TypeOK' PROVE LSDBInv'
  <1>1. ASSUME NEW k \in Keys PROVE HasNewest(List(k), k)'
    <2>1. List(k)' = List(k)
      BY DEF List
    <2>2. Instances(List(k), k)' = Instances(List(k), k)
      BY <2>1 DEF Instances, Matches
    <2>3. HasNewest(List(k), k)
      BY DEF LSDBInv
    <2> QED BY <2>2, <2>3 DEF HasNewest, Newest
  <1> QED BY <1>1 DEF LSDBInv

LEMMA NextInv == LSDBInv /\ [Next]_vars => LSDBInv'
  <1> SUFFICES ASSUME LSDBInv, [Next]_vars PROVE LSDBInv'
    OBVIOUS
  <1>t. TypeOK
    BY DEF LSDBInv
  <1>1. CASE \E lsa \in LSAs : ReceiveLSA(lsa)
    <2>1. PICK lsa \in LSAs : ReceiveLSA(lsa)
      BY <1>1
    <2>2. PutStep(lsa)
      BY <2>1, PutSteps
    <2>3. /\ lsa_seq_num' \in Nat /\ afloat' \subseteq LSAs
          /\ inOrder' \in [Keys -> BOOLEAN]
      <3>1. inOrder' \in [Keys -> BOOLEAN]
        BY <1>t, <2>1, OrderType DEF ReceiveLSA
      <3> QED BY <1>t, <2>1, <3>1 DEF ReceiveLSA, TypeOK
    <2> QED BY <2>2, <2>3, PutInv
  <1>2. CASE \E k \in OwnKeys, sum \in Sums : MakeFirst(k, sum) \/ MakeNext(k, sum)
    <2>1. PICK k \in OwnKeys, sum \in Sums : MakeFirst(k, sum) \/ MakeNext(k, sum)
      BY <1>2
    <2>2. Made(k, sum) \in LSAs
      BY <1>t, MadeType, DatabaseAssumption
    <2>3. PutStep(Made(k, sum))
      BY <2>1, PutSteps
    <2>4. inOrder' \in [Keys -> BOOLEAN]
      BY <1>t, <2>1, <2>2, OrderType DEF MakeFirst, MakeNext
    <2>5. lsa_seq_num' \in Nat /\ afloat' \subseteq LSAs
      BY <1>t, <2>1, <2>2 DEF MakeFirst, MakeNext, TypeOK
    <2> QED BY <2>2, <2>3, <2>4, <2>5, PutInv
  <1>3. CASE \E k \in OwnKeys : AnswerLSR(k)
    <2>1. PICK k \in OwnKeys : AnswerLSR(k)
      BY <1>3
    <2>2. afloat' \subseteq LSAs
      BY <1>t, <2>1, GetType, DatabaseAssumption DEF AnswerLSR, TypeOK
    <2>3. TypeOK'
      BY <1>t, <2>1, <2>2 DEF AnswerLSR, TypeOK
    <2> QED BY <2>1, <2>3, SameLists DEF AnswerLSR
  <1>4. CASE Restart
    BY <1>t, <1>4, RestartEmpties DEF LSDBInv, HasNewest
  <1>5. CASE UNCHANGED vars
    <2>1. TypeOK' /\ lists' = lists
      BY <1>t, <1>5 DEF vars, TypeOK
    <2> QED BY <2>1, SameLists
  <1> QED BY <1>1, <1>2, <1>3, <1>4, <1>5 DEF Next

\* The lists hold LSAs of their type, whatever arrives and however often the
\* numbering wraps or starts anew.
THEOREM TypeCorrect == Spec => []TypeOK
  <1>1. LSDBInv => TypeOK
    BY DEF LSDBInv
  <1> QED BY <1>1, InitInv, NextInv, PTL DEF Spec


-----------------------------------------------------------------------------
(* The database implements Store.                                          *)

Best == [k \in Keys |-> Newest(List(k), k)]

LEMMA LearnStep ==
  ASSUME NEW lsa \in LSAs, PutStep(lsa) PROVE Kept!Next \/ Best' = Best
  <1> DEFINE key == lsa.key
  <1>1. key \in Keys
    BY DEF LSAs
  <1>2. \A k \in Keys : k # key => Newest(List(k), k)' = Newest(List(k), k)
    <2> SUFFICES ASSUME NEW k \in Keys, k # key
                 PROVE  Newest(List(k), k)' = Newest(List(k), k)
      OBVIOUS
    <2>1. Instances(List(k), k)' = Instances(List(k), k)
      BY DEF PutStep
    <2> QED BY <2>1 DEF Newest
  <1>3. CASE /\ \A old \in Newest(List(key), key) : Newer(lsa, old)
             /\ Newest(List(key), key)' = {lsa}
    <2>1. Best' = [Best EXCEPT ![key] = {lsa}]
      BY <1>1, <1>2, <1>3 DEF Best
    <2>2. \A old \in Best[key] : Newer(lsa, old)
      BY <1>1, <1>3 DEF Best
    <2>3. Kept!Learn(lsa)
      BY <2>1, <2>2 DEF Kept!Learn, Kept!Newer, Newer, Best
    <2>4. lsa \in Kept!LSAs
      BY DEF Kept!LSAs, LSAs
    <2> QED BY <2>3, <2>4 DEF Kept!Next
  <1>4. CASE Newest(List(key), key)' = Newest(List(key), key)
    BY <1>2, <1>4 DEF Best
  <1> QED BY <1>3, <1>4 DEF PutStep

LEMMA StoreStep == LSDBInv /\ [Next]_vars => [Kept!Next]_Best
  <1> SUFFICES ASSUME LSDBInv, [Next]_vars PROVE Kept!Next \/ Best' = Best
    OBVIOUS
  <1>1. CASE \E lsa \in LSAs : ReceiveLSA(lsa)
    BY <1>1, PutSteps, LearnStep
  <1>2. CASE \E k \in OwnKeys, sum \in Sums : MakeFirst(k, sum) \/ MakeNext(k, sum)
    BY <1>2, PutSteps, LearnStep, MadeType, DatabaseAssumption DEF LSDBInv
  <1>3. CASE lists' = lists
    <2>1. \A k \in Keys : List(k)' = List(k)
      BY <1>3 DEF List
    <2>2. \A k \in Keys : Instances(List(k), k)' = Instances(List(k), k)
      BY <2>1 DEF Instances, Matches
    <2>3. \A k \in Keys : Newest(List(k), k)' = Newest(List(k), k)
      BY <2>2 DEF Newest
    <2> QED BY <2>3 DEF Best
  <1>4. CASE Restart
    <2>1. \A k \in Keys : Newest(List(k), k)' = {}
      BY <1>4, RestartEmpties DEF Newest
    <2>2. Best' = [k \in Keys |-> {}]
      BY <2>1 DEF Best
    <2> QED BY <2>2 DEF Kept!Next, Kept!Forget, Best
  <1> QED BY <1>1, <1>2, <1>3, <1>4 DEF Next, vars, AnswerLSR

LEMMA StoreInit == Init => Kept!Init
  <1> SUFFICES ASSUME Init PROVE Kept!Init
    OBVIOUS
  <1>1. \A k \in Keys : List(k) = <<>>
    BY DatabaseAssumption DEF Init, List
  <1>2. DOMAIN <<>> = {}
    OBVIOUS
  <1>3. \A k \in Keys : Newest(List(k), k) = {}
    BY <1>1, <1>2 DEF Newest, Instances, Matches
  <1> QED BY <1>3 DEF Kept!Init

\* Read by its newest instances the database is a Store: it never loses the
\* newest instance of a key, although add and del see only the first match.
THEOREM ImplementsStore == Spec => KeepsNewest
  BY InitInv, NextInv, StoreInit, StoreStep, PTL
     DEF Spec, KeepsNewest, Kept!Spec, Best


-----------------------------------------------------------------------------
(* One instance of a key whose instances came in order.                    *)

Single(s, k) == \A i, j \in Matches(s, k) : i = j

LEMMA AppendSingle ==
  ASSUME NEW s \in Seq(LSAs), NEW lsa \in LSAs, NEW k, Single(s, k),
         k = lsa.key => Matches(s, k) = {}
  PROVE  Single(Append(s, lsa), k)
  <1> DEFINE t == Append(s, lsa)
  <1>1. /\ Len(s) \in Nat /\ DOMAIN s = 1 .. Len(s)
        /\ DOMAIN t = 1 .. Len(s) + 1
        /\ \A i \in 1 .. Len(s) : t[i] = s[i]
        /\ t[Len(s) + 1] = lsa
    OBVIOUS
  <1> HIDE DEF t
  <1>2. ASSUME NEW i \in Matches(t, k)
        PROVE  \/ i = Len(s) + 1 /\ k = lsa.key
               \/ i \in Matches(s, k)
    BY <1>1 DEF Matches
  <1>3. Single(t, k)
    BY <1>2 DEF Single
  <1> QED BY <1>3 DEF t

LEMMA DelSingle ==
  ASSUME NEW s \in Seq(LSAs), NEW d, Matches(s, d) # {}, NEW k, Single(s, k)
  PROVE  /\ Del(s, d) \in Seq(LSAs)
         /\ Single(Del(s, d), k)
         /\ k = d => Matches(Del(s, d), k) = {}
  <1> DEFINE p == First(s, d)
             t == RemoveAt(s, p)
             At(j) == IF j < p THEN j ELSE j + 1
  <1>1. p \in Matches(s, d) /\ p \in 1 .. Len(s) /\ Len(s) \in Nat
    BY FirstMatches, MatchesType
  <1>2. Del(s, d) = t
    BY DEF Del
  <1> HIDE DEF p
  <1>3. /\ t \in Seq(LSAs) /\ Len(t) = Len(s) - 1
        /\ \A j \in 1 .. Len(s) - 1 : t[j] = s[At(j)]
    BY <1>1, RemoveAtElements
  <1>4. DOMAIN t = 1 .. Len(s) - 1 /\ DOMAIN s = 1 .. Len(s)
    BY <1>3
  <1> HIDE DEF t
  <1>5. \A j \in 1 .. Len(s) - 1 : At(j) \in 1 .. Len(s) /\ At(j) # p
    BY <1>1
  <1>6. \A i, j \in 1 .. Len(s) - 1 : At(i) = At(j) => i = j
    BY <1>1
  <1> HIDE DEF At
  <1>7. \A j \in Matches(t, k) : /\ j \in 1 .. Len(s) - 1
                                 /\ At(j) \in Matches(s, k) /\ At(j) # p
    BY <1>3, <1>4, <1>5 DEF Matches
  <1>8. Single(t, k)
    BY <1>6, <1>7 DEF Single
  <1>9. ASSUME k = d PROVE Matches(t, k) = {}
    BY <1>1, <1>7, <1>9 DEF Single
  <1> QED BY <1>2, <1>3, <1>8, <1>9

\* An instance newer than all that are there replaces the only one.
LEMMA AddSingle ==
  ASSUME NEW s \in Seq(LSAs), NEW lsa \in LSAs, NEW k, Single(s, k),
         k = lsa.key => \A old \in Instances(s, k) : Newer(lsa, old)
  PROVE  Single(Add(s, lsa), k)
  <1> DEFINE d == lsa.key
  <1>1. CASE \E old \in Get(s, d) : Newer(lsa, old)
    <2>1. Matches(s, d) # {}
      BY <1>1 DEF Get
    <2>2. /\ Del(s, d) \in Seq(LSAs) /\ Single(Del(s, d), k)
          /\ k = d => Matches(Del(s, d), k) = {}
      BY <2>1, DelSingle
    <2>3. Add(s, lsa) = Append(Del(s, d), lsa)
      BY <1>1 DEF Add
    <2> QED BY <2>2, <2>3, AppendSingle
  <1>2. CASE ~\E old \in Get(s, d) : Newer(lsa, old)
    <2>1. Add(s, lsa) = Append(s, lsa)
      BY <1>2 DEF Add
    <2>2. ASSUME k = d PROVE Matches(s, k) = {}
      <3>1. SUFFICES ASSUME Matches(s, d) # {} PROVE FALSE
        BY <2>2
      <3>2. Get(s, d) = {s[First(s, d)]} /\ First(s, d) \in Matches(s, d)
        BY <3>1, FirstMatches DEF Get
      <3>3. s[First(s, d)] \in Instances(s, d)
        BY <3>2 DEF Instances
      <3> QED BY <1>2, <2>2, <3>2, <3>3
    <2> QED BY <2>1, <2>2, AppendSingle
  <1> QED BY <1>1, <1>2

LEMMA PutSingle ==
  ASSUME TypeOK, SingleInOrder, NEW lsa \in LSAs, Put(Add(List(lsa.key), lsa), lsa)
  PROVE  SingleInOrder'
  <1> DEFINE d == lsa.key
             s == List(d)
             t == Add(s, lsa)
  <1>1. d \in Keys /\ TypeOf[d] \in Types /\ s \in Seq(LSAs)
    BY ListType DEF LSAs
  <1>2. /\ lists' = [lists EXCEPT ![TypeOf[d]] = t]
        /\ inOrder' = [inOrder EXCEPT ![d] =
               @ /\ \A old \in Instances(s, d) : Newer(lsa, old)]
    BY DEF Put
  <1> SUFFICES ASSUME NEW k \in Keys, inOrder'[k] PROVE Single(List(k), k)'
    BY DEF SingleInOrder, Single
  <1>3. /\ inOrder[k]
        /\ k = d => \A old \in Instances(s, d) : Newer(lsa, old)
    BY <1>1, <1>2 DEF TypeOK
  <1>4. Single(List(k), k)
    BY <1>3 DEF SingleInOrder, Single
  <1>5. TypeOf[k] \in Types
    BY DatabaseAssumption
  <1>6. CASE TypeOf[k] = TypeOf[d]
    <2>1. List(k) = s
      BY <1>6 DEF List
    <2>2. Single(t, k)
      BY <1>1, <1>3, <1>4, <2>1, AddSingle
    <2> HIDE DEF t
    <2>3. List(k)' = t
      BY <1>1, <1>2, <1>6 DEF List, TypeOK
    <2> QED BY <2>2, <2>3 DEF Single, Matches
  <1>7. CASE TypeOf[k] # TypeOf[d]
    <2> HIDE DEF t
    <2>1. List(k)' = List(k)
      BY <1>1, <1>2, <1>5, <1>7 DEF List, TypeOK
    <2> QED BY <1>4, <2>1 DEF Single, Matches
  <1> QED BY <1>6, <1>7

LEMMA SameSingle ==
  ASSUME SingleInOrder, lists' = lists, inOrder' = inOrder
  PROVE  SingleInOrder'
  BY DEF SingleInOrder, Matches, List

LEMMA SingleStep == TypeOK /\ SingleInOrder /\ [Next]_vars => SingleInOrder'
  <1> SUFFICES ASSUME TypeOK, SingleInOrder, [Next]_vars PROVE SingleInOrder'
    OBVIOUS
  <1>1. CASE \E lsa \in LSAs : ReceiveLSA(lsa)
    BY <1>1, PutsAdded, PutSingle
  <1>2. CASE \E k \in OwnKeys, sum \in Sums : MakeFirst(k, sum) \/ MakeNext(k, sum)
    <2>1. PICK k \in OwnKeys, sum \in Sums : MakeFirst(k, sum) \/ MakeNext(k, sum)
      BY <1>2
    <2>2. /\ Made(k, sum) \in LSAs /\ Made(k, sum).key = k
          /\ Put(Add(List(k), Made(k, sum)), Made(k, sum))
      BY <2>1, PutsAdded
    <2> QED BY <2>2, PutSingle
  <1>3. CASE lists' = lists /\ inOrder' = inOrder
    BY <1>3, SameSingle
  <1>4. CASE Restart
    <2>1. \A k \in Keys : List(k)' = <<>>
      BY <1>4, DatabaseAssumption DEF Restart, List
    <2>2. DOMAIN <<>> = {}
      OBVIOUS
    <2> QED BY <2>1, <2>2 DEF SingleInOrder, Matches
  <1> QED BY <1>1, <1>2, <1>3, <1>4 DEF Next, vars, AnswerLSR

\* A key whose instances each were newer than those before has one instance.
THEOREM OneInstance == Spec => []SingleInOrder
  <1>1. Init => SingleInOrder
    <2> SUFFICES ASSUME Init PROVE SingleInOrder
      OBVIOUS
    <2>1. \A k \in Keys : List(k) = <<>>
      BY DatabaseAssumption DEF Init, List
    <2>2. DOMAIN <<>> = {}
      OBVIOUS
    <2> QED BY <2>1, <2>2 DEF SingleInOrder, Matches
  <1>2. Spec => []TypeOK
    BY TypeCorrect
  <1> QED BY <1>1, <1>2, SingleStep, PTL DEF Spec

=============================================================================

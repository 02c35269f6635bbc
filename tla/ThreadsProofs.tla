--------------------------- MODULE ThreadsProofs ---------------------------
(***************************************************************************)
(* Theorems about Threads, for any number of interfaces and of headers in  *)
(* a packet: the type invariant, the discipline of the two mutexes, the    *)
(* absence of deadlock and the exclusive use of the database's lists.      *)
(*                                                                         *)
(* All four rest on what a thread has still to do: from the mutexes it     *)
(* holds now, its list of operations leads to none held, never takes one   *)
(* twice or in the wrong order, and calls functions holding none.  Every   *)
(* way through every function has this property, so it survives a call.    *)
(***************************************************************************)
EXTENDS Threads, SequenceTheorems, TLAPS

\* The mutexes held after op, if H are held before it.
After1(op, H) ==
    CASE op.op = "lock" -> H \cup {op.on}
      [] op.op = "unlock" -> H \ {op.on}
      [] OTHER -> H

\* op may be done holding H.
Allowed(op, H) ==
    /\ op.op = "lock" => op.on \notin H /\ (op.on = "request" => "db" \notin H)
    /\ op.op = "unlock" => op.on \in H
    /\ op.op = "call" => H = {}
    /\ (op.op = "access" /\ "db" \in op.reads \cup op.writes) => "db" \in H

\* h is what is held before each operation of s, and at its end.
Trace(h, s) ==
    /\ h \in [1 .. Len(s) + 1 -> SUBSET Mutexes]
    /\ \A i \in 1 .. Len(s) : Allowed(s[i], h[i]) /\ h[i + 1] = After1(s[i], h[i])

\* s may be done holding H, and holds K at its end.
Leads(H, s, K) ==
    /\ s \in Seq(Operations)
    /\ \E h : Trace(h, s) /\ h[1] = H /\ h[Len(s) + 1] = K

Held(t) == {m \in Mutexes : holder[m] = t}

\* The inductive invariant.
Disciplined == \A t \in Threads : Leads(Held(t), todo[t], {})
Inv == TypeOK /\ Disciplined

-----------------------------------------------------------------------------
(* Sequences of operations.                                                *)

LEMMA LeadsEmpty ==
  ASSUME NEW H \in SUBSET Mutexes
  PROVE  Leads(H, <<>>, H)
  <1> DEFINE h == [i \in 1 .. 1 |-> H]
  <1>1. Trace(h, <<>>) /\ h[1] = H /\ h[Len(<<>>) + 1] = H
    BY DEF Trace
  <1> QED BY <1>1 DEF Leads

LEMMA LeadsNothing ==
  ASSUME NEW H, NEW K, Leads(H, <<>>, K)
  PROVE  H = K
  BY DEF Leads

LEMMA LeadsOne ==
  ASSUME NEW H \in SUBSET Mutexes, NEW op \in Operations, Allowed(op, H),
         After1(op, H) \in SUBSET Mutexes
  PROVE  Leads(H, <<op>>, After1(op, H))
  <1> DEFINE h == [i \in 1 .. 2 |-> IF i = 1 THEN H ELSE After1(op, H)]
  <1>1. Len(<<op>>) = 1 /\ <<op>>[1] = op /\ <<op>> \in Seq(Operations)
    OBVIOUS
  <1>2. h[1] = H /\ h[2] = After1(op, H) /\ h \in [1 .. 2 -> SUBSET Mutexes]
    OBVIOUS
  <1> HIDE DEF h
  <1>3. Trace(h, <<op>>)
    BY <1>1, <1>2 DEF Trace
  <1> QED BY <1>1, <1>2, <1>3 DEF Leads

LEMMA LeadsConcat ==
  ASSUME NEW H, NEW s, NEW K, NEW u, NEW L, Leads(H, s, K), Leads(K, u, L)
  PROVE  Leads(H, s \o u, L)
  <1>1. PICK g : Trace(g, s) /\ g[1] = H /\ g[Len(s) + 1] = K
    BY DEF Leads
  <1>2. PICK k : Trace(k, u) /\ k[1] = K /\ k[Len(u) + 1] = L
    BY DEF Leads
  <1> DEFINE n == Len(s)
             m == Len(u)
             su == s \o u
             h == [i \in 1 .. n + m + 1 |-> IF i <= n THEN g[i] ELSE k[i - n]]
  <1>3. /\ s \in Seq(Operations) /\ u \in Seq(Operations) /\ n \in Nat /\ m \in Nat
        /\ su \in Seq(Operations) /\ Len(su) = n + m
        /\ \A i \in 1 .. n + m : su[i] = IF i <= n THEN s[i] ELSE u[i - n]
    BY DEF Leads
  <1>4. /\ g \in [1 .. n + 1 -> SUBSET Mutexes]
        /\ k \in [1 .. m + 1 -> SUBSET Mutexes]
    BY <1>1, <1>2 DEF Trace
  <1>5. h \in [1 .. n + m + 1 -> SUBSET Mutexes]
    <2>1. ASSUME NEW i \in 1 .. n + m + 1
          PROVE  (IF i <= n THEN g[i] ELSE k[i - n]) \in SUBSET Mutexes
      BY <1>3, <1>4
    <2> QED BY <2>1
  <1>6. ASSUME NEW i \in 1 .. n + m
        PROVE  Allowed(su[i], h[i]) /\ h[i + 1] = After1(su[i], h[i])
    <2>1. i \in 1 .. n + m + 1 /\ i + 1 \in 1 .. n + m + 1
      BY <1>3
    <2>2. CASE i < n
      <3>1. h[i] = g[i] /\ h[i + 1] = g[i + 1] /\ su[i] = s[i] /\ i \in 1 .. n
        BY <1>3, <2>1, <2>2
      <3> QED BY <3>1, <1>1 DEF Trace
    <2>3. CASE i = n
      <3>1. h[i] = g[i] /\ h[i + 1] = k[1] /\ su[i] = s[i] /\ i \in 1 .. n
        BY <1>3, <2>1, <2>3
      <3> QED BY <3>1, <2>3, <1>1, <1>2 DEF Trace
    <2>4. CASE i > n
      <3> DEFINE j == i - n
      <3>1. h[i] = k[j] /\ h[i + 1] = k[j + 1] /\ su[i] = u[j] /\ j \in 1 .. m
        BY <1>3, <2>1, <2>4
      <3> QED BY <3>1, <1>2 DEF Trace
    <2> QED BY <2>2, <2>3, <2>4, <1>3
  <1>7. h[1] = H /\ h[n + m + 1] = L
    <2>1. CASE n = 0
      BY <2>1, <1>1, <1>2, <1>3
    <2>2. CASE n # 0
      BY <2>2, <1>1, <1>2, <1>3
    <2> QED BY <2>1, <2>2
  <1> HIDE DEF h, su
  <1>8. Trace(h, su)
    BY <1>3, <1>5, <1>6 DEF Trace
  <1> QED BY <1>3, <1>7, <1>8 DEF Leads, su

LEMMA LeadsTail ==
  ASSUME NEW H, NEW s, NEW K, Leads(H, s, K), s # <<>>
  PROVE  /\ Head(s) \in Operations /\ Allowed(Head(s), H)
         /\ Leads(After1(Head(s), H), Tail(s), K)
  <1>1. PICK h : Trace(h, s) /\ h[1] = H /\ h[Len(s) + 1] = K
    BY DEF Leads
  <1> DEFINE u == Tail(s)
             n == Len(s)
             k == [i \in 1 .. n |-> h[i + 1]]
  <1>2. /\ s \in Seq(Operations) /\ n \in Nat /\ n > 0 /\ Head(s) = s[1]
        /\ u \in Seq(Operations) /\ Len(u) = n - 1
        /\ \A i \in 1 .. n - 1 : u[i] = s[i + 1]
        /\ s[1] \in Operations
    BY DEF Leads
  <1>3. h \in [1 .. n + 1 -> SUBSET Mutexes]
    BY <1>1 DEF Trace
  <1>4. Allowed(s[1], h[1]) /\ h[2] = After1(s[1], h[1])
    BY <1>1, <1>2 DEF Trace
  <1>5. k \in [1 .. Len(u) + 1 -> SUBSET Mutexes]
    BY <1>2, <1>3
  <1>6. ASSUME NEW i \in 1 .. Len(u)
        PROVE  Allowed(u[i], k[i]) /\ k[i + 1] = After1(u[i], k[i])
    <2>1. i + 1 \in 1 .. n /\ i \in 1 .. n /\ u[i] = s[i + 1]
      BY <1>2
    <2>2. Allowed(s[i + 1], h[i + 1]) /\ h[(i + 1) + 1] = After1(s[i + 1], h[i + 1])
      BY <2>1, <1>1 DEF Trace
    <2>3. k[i] = h[i + 1] /\ k[i + 1] = h[(i + 1) + 1]
      BY <2>1
    <2> QED BY <2>1, <2>2, <2>3
  <1>7. k[1] = h[2] /\ k[Len(u) + 1] = h[n + 1]
    BY <1>2
  <1> HIDE DEF k, u
  <1>8. Trace(k, u)
    BY <1>5, <1>6 DEF Trace
  <1> QED BY <1>1, <1>2, <1>4, <1>7, <1>8 DEF Leads, u

\* Remainders by the lengths of what is repeated.
Cyclic(n) ==
    /\ \A i \in Nat : i % n \in 0 .. n - 1
    /\ \A i \in Nat : (i + 1) % n = IF i % n = n - 1 THEN 0 ELSE (i % n) + 1
    /\ \A i \in Nat : (i * n) % n = 0

LEMMA CyclicLengths == Cyclic(1) /\ Cyclic(3) /\ Cyclic(5) /\ Cyclic(6)
  BY DEF Cyclic

\* What leaves the held mutexes as they were can be done any number of times.
LEMMA LeadsTimes ==
  ASSUME NEW H, NEW s, Leads(H, s, H), s # <<>>, Cyclic(Len(s)), NEW n \in Nat
  PROVE  Leads(H, Times(s, n), H)
  <1>1. PICK h : Trace(h, s) /\ h[1] = H /\ h[Len(s) + 1] = H
    BY DEF Leads
  <1> DEFINE l == Len(s)
             u == Times(s, n)
             at(i) == ((i - 1) % l) + 1
             k == [i \in 1 .. n * l + 1 |-> h[at(i)]]
  <1>2. s \in Seq(Operations) /\ l \in Nat /\ l > 0
    BY DEF Leads
  <1>3. n * l \in Nat
    BY <1>2
  <1>4. \A i \in 1 .. n * l + 1 : at(i) \in 1 .. l
    <2>1. ASSUME NEW i \in 1 .. n * l + 1
          PROVE  at(i) \in 1 .. l
      <3>1. i - 1 \in Nat
        BY <1>3
      <3>2. (i - 1) % l \in 0 .. l - 1
        BY <3>1 DEF Cyclic
      <3> QED BY <3>2, <1>2
    <2> QED BY <2>1
  <1>5. /\ u \in Seq(Operations) /\ Len(u) = n * l
        /\ \A i \in 1 .. n * l : u[i] = s[at(i)]
    <2>1. \A i \in 1 .. n * l : s[at(i)] \in Operations
      BY <1>2, <1>3, <1>4
    <2>2. u = [i \in 1 .. n * l |-> s[at(i)]]
      BY DEF Times
    <2> HIDE DEF u, at
    <2> QED BY <2>1, <2>2, <1>3
  <1>6. k \in [1 .. n * l + 1 -> SUBSET Mutexes]
    BY <1>1, <1>2, <1>4 DEF Trace
  <1>7. ASSUME NEW i \in 1 .. n * l
        PROVE  Allowed(u[i], k[i]) /\ k[i + 1] = After1(u[i], k[i])
    <2>1. i \in 1 .. n * l + 1 /\ i + 1 \in 1 .. n * l + 1
      BY <1>3
    <2>2. at(i) \in 1 .. l
      BY <1>4, <2>1
    <2>3. Allowed(s[at(i)], h[at(i)]) /\ h[at(i) + 1] = After1(s[at(i)], h[at(i)])
      BY <1>1, <2>2 DEF Trace
    <2>4. at(i + 1) = IF at(i) = l THEN 1 ELSE at(i) + 1
      <3>1. i - 1 \in Nat /\ (i - 1) + 1 = i /\ (i + 1) - 1 = i
        BY <1>3
      <3>2. i % l = IF (i - 1) % l = l - 1 THEN 0 ELSE ((i - 1) % l) + 1
        BY <3>1 DEF Cyclic
      <3>3. (i - 1) % l \in 0 .. l - 1
        BY <3>1 DEF Cyclic
      <3> QED BY <3>1, <3>2, <3>3, <1>2
    <2>5. h[at(i + 1)] = h[at(i) + 1]
      BY <2>4, <1>1
    <2>6. k[i] = h[at(i)] /\ k[i + 1] = h[at(i + 1)]
      BY <2>1
    <2> HIDE DEF k, u, at
    <2> QED BY <2>3, <2>5, <2>6, <1>5
  <1>8. k[1] = H /\ k[n * l + 1] = H
    <2>1. 1 \in 1 .. n * l + 1 /\ n * l + 1 \in 1 .. n * l + 1
      BY <1>3
    <2>2. (n * l) % l = 0 /\ (0 * l) % l = 0
      BY DEF Cyclic
    <2>3. 0 * l = 0 /\ (n * l + 1) - 1 = n * l /\ 1 - 1 = 0
      BY <1>2, <1>3
    <2>4. at(1) = 1 /\ at(n * l + 1) = 1
      BY <2>2, <2>3
    <2> HIDE DEF at
    <2> QED BY <2>1, <2>4, <1>1
  <1> HIDE DEF k, u
  <1>9. Trace(k, u)
    BY <1>5, <1>6, <1>7 DEF Trace
  <1> QED BY <1>5, <1>8, <1>9 DEF Leads, u

-----------------------------------------------------------------------------
(* Single operations.                                                      *)

LEMMA OperationTypes ==
  /\ \A m \in Mutexes : Lock(m) \in Operations /\ Unlock(m) \in Operations
  /\ \A r, w \in SUBSET Objects : Access(r, w) \in Operations
  /\ \A s \in States : Becomes(s) \in Operations
  /\ \A s \in SUBSET States : Assert(s) \in Operations
  /\ \A f \in Functions : Call(f) \in Operations
  /\ ClearInit \in Operations
  BY DEF Operations, Lock, Unlock, Access, Becomes, Assert, Call, ClearInit

LEMMA LeadsLock ==
  ASSUME NEW m \in Mutexes, NEW H \in SUBSET Mutexes, m \notin H,
         m = "request" => "db" \notin H
  PROVE  Leads(H, <<Lock(m)>>, H \cup {m})
  <1>1. Lock(m).op = "lock" /\ Lock(m).on = m
    BY DEF Lock
  <1>2. Lock(m) \in Operations
    BY OperationTypes
  <1>3. Allowed(Lock(m), H)
    BY <1>1 DEF Allowed
  <1>4. After1(Lock(m), H) = H \cup {m}
    BY <1>1 DEF After1
  <1> QED BY <1>2, <1>3, <1>4, LeadsOne

LEMMA LeadsUnlock ==
  ASSUME NEW m \in Mutexes, NEW H \in SUBSET Mutexes, m \in H
  PROVE  Leads(H, <<Unlock(m)>>, H \ {m})
  <1>1. Unlock(m).op = "unlock" /\ Unlock(m).on = m
    BY DEF Unlock
  <1>2. Unlock(m) \in Operations
    BY OperationTypes
  <1>3. Allowed(Unlock(m), H)
    BY <1>1 DEF Allowed
  <1>4. After1(Unlock(m), H) = H \ {m}
    BY <1>1 DEF After1
  <1> QED BY <1>2, <1>3, <1>4, LeadsOne

LEMMA LeadsAccess ==
  ASSUME NEW r \in SUBSET Objects, NEW w \in SUBSET Objects,
         NEW H \in SUBSET Mutexes, "db" \in r \cup w => "db" \in H
  PROVE  Leads(H, <<Access(r, w)>>, H)
  <1>1. /\ Access(r, w).op = "access"
        /\ Access(r, w).reads = r /\ Access(r, w).writes = w
    BY DEF Access
  <1>2. Access(r, w) \in Operations
    BY OperationTypes
  <1>3. Allowed(Access(r, w), H)
    BY <1>1 DEF Allowed
  <1>4. After1(Access(r, w), H) = H
    BY <1>1 DEF After1
  <1> QED BY <1>2, <1>3, <1>4, LeadsOne

LEMMA LeadsBecomes ==
  ASSUME NEW s \in States, NEW H \in SUBSET Mutexes
  PROVE  Leads(H, <<Becomes(s)>>, H)
  <1>1. Becomes(s).op = "state"
    BY DEF Becomes
  <1>2. Becomes(s) \in Operations
    BY OperationTypes
  <1>3. Allowed(Becomes(s), H)
    BY <1>1 DEF Allowed
  <1>4. After1(Becomes(s), H) = H
    BY <1>1 DEF After1
  <1> QED BY <1>2, <1>3, <1>4, LeadsOne

LEMMA LeadsAssert ==
  ASSUME NEW s \in SUBSET States, NEW H \in SUBSET Mutexes
  PROVE  Leads(H, <<Assert(s)>>, H)
  <1>1. Assert(s).op = "assert"
    BY DEF Assert
  <1>2. Assert(s) \in Operations
    BY OperationTypes
  <1>3. Allowed(Assert(s), H)
    BY <1>1 DEF Allowed
  <1>4. After1(Assert(s), H) = H
    BY <1>1 DEF After1
  <1> QED BY <1>2, <1>3, <1>4, LeadsOne

LEMMA LeadsCall ==
  ASSUME NEW f \in Functions
  PROVE  Leads({}, <<Call(f)>>, {})
  <1>1. Call(f).op = "call"
    BY DEF Call
  <1>2. Call(f) \in Operations
    BY OperationTypes
  <1>3. Allowed(Call(f), {})
    BY <1>1 DEF Allowed
  <1>4. After1(Call(f), {}) = {}
    BY <1>1 DEF After1
  <1> QED BY <1>2, <1>3, <1>4, LeadsOne

LEMMA LeadsClearInit == Leads({}, <<ClearInit>>, {})
  <1>1. ClearInit.op = "clear"
    BY DEF ClearInit
  <1>2. ClearInit \in Operations
    BY OperationTypes
  <1>3. Allowed(ClearInit, {})
    BY <1>1 DEF Allowed
  <1>4. After1(ClearInit, {}) = {}
    BY <1>1 DEF After1
  <1> QED BY <1>2, <1>3, <1>4, LeadsOne

\* Two and three operations, or sequences of them, in a row.
LEMMA LeadsTwo ==
  ASSUME NEW H, NEW a, NEW K, NEW b, NEW L,
         Leads(H, <<a>>, K), Leads(K, <<b>>, L)
  PROVE  Leads(H, <<a, b>>, L)
  <1>1. <<a, b>> = <<a>> \o <<b>>
    OBVIOUS
  <1> QED BY <1>1, LeadsConcat

LEMMA LeadsThree ==
  ASSUME NEW H, NEW a, NEW K, NEW b, NEW L, NEW c, NEW M,
         Leads(H, <<a>>, K), Leads(K, <<b>>, L), Leads(L, <<c>>, M)
  PROVE  Leads(H, <<a, b, c>>, M)
  <1>1. <<a, b, c>> = <<a, b>> \o <<c>>
    OBVIOUS
  <1> QED BY <1>1, LeadsTwo, LeadsConcat

\* The lists of the database used under its mutex.
LEMMA LeadsLocked ==
  ASSUME NEW r \in SUBSET Objects, NEW w \in SUBSET Objects,
         NEW H \in SUBSET {"request"}
  PROVE  Leads(H, <<Lock("db"), Access(r, w), Unlock("db")>>, H)
  <1> DEFINE K == H \cup {"db"}
  <1>1. "db" \in Mutexes /\ H \in SUBSET Mutexes /\ K \in SUBSET Mutexes
        /\ "db" \notin H /\ "db" \in K /\ K \ {"db"} = H
    BY DEF Mutexes
  <1>2. Leads(H, <<Lock("db")>>, K)
    BY <1>1, LeadsLock
  <1> HIDE DEF K
  <1>3. Leads(K, <<Access(r, w)>>, K)
    BY <1>1, LeadsAccess
  <1>4. Leads(K, <<Unlock("db")>>, H)
    BY <1>1, LeadsUnlock
  <1> QED BY <1>2, <1>3, <1>4, LeadsThree

\* The request list used under its mutex.
LEMMA LeadsRequest ==
  ASSUME NEW r \in SUBSET (Objects \ {"db"}), NEW w \in SUBSET (Objects \ {"db"})
  PROVE  Leads({}, <<Lock("request"), Access(r, w), Unlock("request")>>, {})
  <1> DEFINE K == {"request"}
  <1>1. "request" \in Mutexes /\ {} \in SUBSET Mutexes /\ K \in SUBSET Mutexes
        /\ {} \cup {"request"} = K /\ K \ {"request"} = {} /\ "request" # "db"
        /\ r \in SUBSET Objects /\ w \in SUBSET Objects /\ "db" \notin r \cup w
    BY DEF Mutexes
  <1>2. Leads({}, <<Lock("request")>>, K)
    BY <1>1, LeadsLock
  <1>3. Leads(K, <<Access(r, w)>>, K)
    BY <1>1, LeadsAccess
  <1>4. Leads(K, <<Unlock("request")>>, {})
    BY <1>1, LeadsUnlock
  <1> QED BY <1>2, <1>3, <1>4, LeadsThree

LEMMA MakeLSALeads ==
  ASSUME NEW H \in SUBSET {"request"}
  PROVE  Leads(H, MakeLSA, H) /\ Len(MakeLSA) = 3 /\ MakeLSA # <<>>
  <1>1. {"neighbors"} \in SUBSET Objects /\ {"lsa", "db"} \in SUBSET Objects
    BY DEF Objects
  <1>2. Leads(H, MakeLSA, H)
    BY <1>1, LeadsLocked DEF MakeLSA
  <1>3. Len(MakeLSA) = 3 /\ MakeLSA # <<>>
    BY DEF MakeLSA
  <1> QED BY <1>2, <1>3

-----------------------------------------------------------------------------
(* The ways through the functions.                                         *)

\* Every one of ways starts and ends with no mutex held.
Fine(ways) == \A w \in ways : Leads({}, w, {})

LEMMA FineEmpty == Leads({}, <<>>, {}) /\ Fine({<<>>})
  <1>1. {} \in SUBSET Mutexes
    OBVIOUS
  <1>2. Leads({}, <<>>, {})
    BY <1>1, LeadsEmpty
  <1> QED BY <1>2 DEF Fine

LEMMA FineThen ==
  ASSUME NEW s, NEW ways, Leads({}, s, {}), Fine(ways)
  PROVE  Fine(Then(s, ways))
  <1>1. ASSUME NEW w \in ways
        PROVE  Leads({}, s \o w, {})
    <2>1. Leads({}, w, {})
      BY DEF Fine
    <2> QED BY <2>1, LeadsConcat
  <1> QED BY <1>1 DEF Fine, Then

LEMMA ClearLeads ==
  ASSUME NEW s \in States, NEW H \in SUBSET Mutexes
  PROVE  Leads(H, Clear(s), H)
  <1>1. /\ {} \in SUBSET Objects /\ {"summary", "request"} \in SUBSET Objects
        /\ "db" \notin {} \cup {"summary", "request"}
    BY DEF Objects
  <1>2. Leads(H, <<Becomes(s)>>, H)
    BY LeadsBecomes
  <1>3. Leads(H, <<Access({}, {"summary", "request"})>>, H)
    BY <1>1, LeadsAccess
  <1> QED BY <1>2, <1>3, LeadsTwo DEF Clear

\* Lists and LSAs are used without a mutex, but the database's lists.
LEMMA LeadsFree ==
  ASSUME NEW r \in SUBSET (Objects \ {"db"}), NEW w \in SUBSET (Objects \ {"db"}),
         NEW H \in SUBSET Mutexes
  PROVE  Leads(H, <<Access(r, w)>>, H)
  BY LeadsAccess

LEMMA LeadsState ==
  ASSUME NEW s \in States
  PROVE  Leads({}, <<Becomes(s)>>, {})
  BY LeadsBecomes

LEMMA ClearFine ==
  ASSUME NEW s \in States
  PROVE  Leads({}, Clear(s), {})
  BY ClearLeads

LEMMA HelloFine == Fine(Hello)
  <1> DEFINE known == IF state = "NONE"
                      THEN <<Writes("neighbors"), Becomes("INIT")>> ELSE <<>>
             twoway == IF state \in {"NONE", "INIT"}
                       THEN {<<Becomes("TWOWAY")>>, <<Becomes("EXSTART")>>}
                       ELSE {<<>>}
             oneway == IF state \in {"NONE", "INIT"} THEN <<>> ELSE Clear("INIT")
             elects(n) == Times(<<Call("elect")>>, n)
  <1>1. /\ "INIT" \in States /\ "TWOWAY" \in States /\ "EXSTART" \in States
        /\ "elect" \in Functions /\ {} \in SUBSET Mutexes
        /\ {} \in SUBSET (Objects \ {"db"}) /\ {"neighbors"} \in SUBSET (Objects \ {"db"})
    BY DEF States, Functions, Objects
  <1>2. Leads({}, known, {})
    BY <1>1, FineEmpty, LeadsFree, LeadsState, LeadsTwo DEF Writes
  <1>3. Fine(twoway)
    BY <1>1, FineEmpty, LeadsState DEF Fine
  <1>4. Leads({}, oneway, {})
    BY <1>1, FineEmpty, ClearFine
  <1>5. ASSUME NEW n \in 0 .. 2
        PROVE  Leads({}, elects(n), {})
    <2>1. Leads({}, <<Call("elect")>>, {})
      BY <1>1, LeadsCall
    <2>2. Len(<<Call("elect")>>) = 1 /\ <<Call("elect")>> # <<>> /\ n \in Nat
      OBVIOUS
    <2>3. Cyclic(Len(<<Call("elect")>>))
      BY <2>2, CyclicLengths
    <2> QED BY <2>1, <2>2, <2>3, LeadsTimes
  <1> DEFINE ways == {oneway} \cup {s \o elects(n) : s \in twoway, n \in 0 .. 2}
  <1>6. Fine(ways)
    <2>1. ASSUME NEW s \in twoway, NEW n \in 0 .. 2
          PROVE  Leads({}, s \o elects(n), {})
      <3>1. Leads({}, s, {})
        BY <1>3 DEF Fine
      <3> HIDE DEF twoway
      <3> QED BY <3>1, <1>5, LeadsConcat
    <2> HIDE DEF twoway, oneway, elects
    <2>2. ASSUME NEW w \in ways
          PROVE  Leads({}, w, {})
      <3>1. CASE w = oneway
        BY <3>1, <1>4
      <3>2. CASE w # oneway
        <4>1. PICK s \in twoway, n \in 0 .. 2 : w = s \o elects(n)
          BY <3>2
        <4> QED BY <4>1, <2>1
      <3> QED BY <3>1, <3>2
    <2> QED BY <2>2 DEF Fine
  <1>7. Hello = Then(known, ways)
    BY DEF Hello
  <1> HIDE DEF known, ways
  <1> QED BY <1>2, <1>6, <1>7, FineThen

LEMMA ElectFine == Fine(Elect)
  <1>1. /\ {"neighbors"} \in SUBSET (Objects \ {"db"}) /\ {} \in SUBSET Mutexes
        /\ {} \in SUBSET (Objects \ {"db"}) /\ "adj_ok" \in Functions
        /\ {} \in SUBSET {"request"}
    BY DEF Objects, Functions
  <1>2. Leads({}, <<Reads("neighbors")>>, {})
    BY <1>1, LeadsFree DEF Reads
  <1>3. Leads({}, <<Call("adj_ok")>>, {})
    BY <1>1, LeadsCall
  <1>4. ASSUME NEW s \in {<<>>, <<Call("adj_ok")>>}
        PROVE  Leads({}, <<Reads("neighbors")>> \o s \o MakeLSA, {})
    <2>1. Leads({}, s, {}) /\ Leads({}, MakeLSA, {})
      BY <1>1, <1>3, FineEmpty, MakeLSALeads
    <2> QED BY <1>2, <2>1, LeadsConcat
  <1> QED BY <1>4 DEF Elect, Fine

LEMMA AdjOkFine == Fine(AdjOk)
  <1>1. "EXSTART" \in States /\ "TWOWAY" \in States
    BY DEF States
  <1> QED BY <1>1, FineEmpty, LeadsState DEF AdjOk, Fine

LEMMA ProcessDDFine == Fine(ProcessDD)
  <1>1. /\ "EXSTART" \in States /\ "TWOWAY" \in States
        /\ "exstart" \in Functions /\ "accept" \in Functions
    BY DEF States, Functions
  <1>2. Leads({}, <<Becomes("EXSTART"), Call("exstart")>>, {})
    BY <1>1, LeadsState, LeadsCall, LeadsTwo
  <1> QED BY <1>1, <1>2, FineEmpty, LeadsState, LeadsCall, ClearFine DEF ProcessDD, Fine

LEMMA ExstartFine == Fine(Exstart)
  <1>1. /\ "EXSTART" \in States /\ "negotiation_done" \in Functions
        /\ "produce_dd" \in Functions /\ "accept" \in Functions
    BY DEF States, Functions
  <1> DEFINE ways == {<<Call("produce_dd")>>, <<>>, Clear("EXSTART"), <<Call("accept")>>}
  <1>2. Leads({}, <<ClearInit, Call("negotiation_done")>>, {})
    BY <1>1, LeadsClearInit, LeadsCall, LeadsTwo
  <1>3. Fine(ways)
    BY <1>1, FineEmpty, LeadsCall, ClearFine DEF Fine
  <1>4. Fine(Then(<<ClearInit, Call("negotiation_done")>>, ways))
    BY <1>2, <1>3, FineThen
  <1> QED BY <1>4, FineEmpty DEF Exstart, Fine

LEMMA NegotiationDoneFine == Fine(NegotiationDone)
  <1> DEFINE a == <<Lock("db"), Access({"db"}, {"summary"}), Unlock("db")>>
             b == <<Becomes("EXCHANGE")>>
  <1>1. /\ {"db"} \in SUBSET Objects /\ {"summary"} \in SUBSET Objects
        /\ {} \in SUBSET {"request"} /\ "EXCHANGE" \in States
    BY DEF Objects, States
  <1>2. Leads({}, a, {}) /\ Leads({}, b, {})
    BY <1>1, LeadsLocked, LeadsState
  <1>3. NegotiationDone = {a \o b}
    BY DEF NegotiationDone
  <1> HIDE DEF a, b
  <1> QED BY <1>2, <1>3, LeadsConcat DEF Fine

\* Three operations between two others.
LEMMA LeadsAround ==
  ASSUME NEW H, NEW a, NEW K, NEW b, NEW c, NEW d, NEW e, NEW L,
         Leads(H, <<a>>, K), Leads(K, <<b, c, d>>, K), Leads(K, <<e>>, L)
  PROVE  Leads(H, <<a, b, c, d, e>>, L)
  <1>1. <<a, b, c, d, e>> = <<a>> \o <<b, c, d>> \o <<e>>
    OBVIOUS
  <1> QED BY <1>1, LeadsConcat

LEMMA AcceptFine == Fine(Accept)
  <1> DEFINE inner == <<Lock("db"), Access({"db"}, {"request"}), Unlock("db")>>
             header == <<Lock("request"), Lock("db"), Access({"db"}, {"request"}),
                         Unlock("db"), Unlock("request")>>
             K == {"request"}
  <1>1. /\ {"db"} \in SUBSET Objects /\ {"request"} \in SUBSET Objects
        /\ {"summary"} \in SUBSET (Objects \ {"db"}) /\ {} \in SUBSET (Objects \ {"db"})
        /\ K \in SUBSET {"request"} /\ {} \in SUBSET Mutexes /\ K \in SUBSET Mutexes
        /\ "request" \in Mutexes /\ {} \cup {"request"} = K /\ K \ {"request"} = {}
        /\ "exchange_done" \in Functions /\ "produce_dd" \in Functions
        /\ "db" \notin {} /\ "request" \in K
    BY DEF Objects, Functions, Mutexes
  <1>2. Leads(K, inner, K)
    BY <1>1, LeadsLocked
  <1>3. Leads({}, <<Lock("request")>>, K) /\ Leads(K, <<Unlock("request")>>, {})
    BY <1>1, LeadsLock, LeadsUnlock
  <1>4. Leads({}, header, {})
    BY <1>2, <1>3, LeadsAround
  <1>5. Len(header) = 5 /\ header # <<>>
    OBVIOUS
  <1>6. Cyclic(Len(header))
    BY <1>5, CyclicLengths
  <1> HIDE DEF header, inner, K
  <1>7. ASSUME NEW n \in 0 .. MaxHeaders, NEW f \in {"exchange_done", "produce_dd"}
        PROVE  Leads({}, <<Writes("summary")>> \o Times(header, n) \o <<Call(f)>>, {})
    <2>1. Leads({}, <<Writes("summary")>>, {})
      BY <1>1, LeadsFree DEF Writes
    <2>2. Leads({}, Times(header, n), {})
      <3>1. n \in Nat
        BY ThreadsAssumption
      <3> QED BY <3>1, <1>6, <1>5, <1>4, LeadsTimes
    <2>3. Leads({}, <<Call(f)>>, {})
      BY <1>1, LeadsCall
    <2> QED BY <2>1, <2>2, <2>3, LeadsConcat
  <1> DEFINE ways == {<<Writes("summary")>> \o Times(header, n) \o <<Call(f)>> :
                        n \in 0 .. MaxHeaders, f \in {"exchange_done", "produce_dd"}}
  <1>8. Fine(ways)
    <2>1. ASSUME NEW w \in ways
          PROVE  Leads({}, w, {})
      <3>1. PICK n \in 0 .. MaxHeaders, f \in {"exchange_done", "produce_dd"} :
               w = <<Writes("summary")>> \o Times(header, n) \o <<Call(f)>>
        OBVIOUS
      <3> QED BY <3>1, <1>7
    <2> HIDE DEF ways
    <2> QED BY <2>1 DEF Fine
  <1>9. Accept = ways
    BY DEF Accept, header
  <1> QED BY <1>8, <1>9

\* event_bad_lsreq, whichever mutexes are held.
LEMMA BadLSReqLeads ==
  ASSUME NEW H \in SUBSET Mutexes
  PROVE  Leads(H, BadLSReq, H) /\ Len(BadLSReq) = 3 /\ BadLSReq # <<>>
  <1>1. AtLeastExchange \in SUBSET States /\ "EXSTART" \in States
    BY DEF AtLeastExchange, States
  <1>2. Leads(H, <<Assert(AtLeastExchange)>>, H) /\ Leads(H, Clear("EXSTART"), H)
    BY <1>1, LeadsAssert, ClearLeads
  <1>3. Leads(H, BadLSReq, H)
    BY <1>2, LeadsConcat DEF BadLSReq
  <1>4. Len(BadLSReq) = 3 /\ BadLSReq # <<>>
    <2>1. PICK p, q : p = <<Assert(AtLeastExchange)>> /\ q = Clear("EXSTART")
      OBVIOUS
    <2>2. Len(p) = 1 /\ Len(q) = 2
      BY <2>1 DEF Clear
    <2>3. p \in Seq(Operations) /\ q \in Seq(Operations)
      BY <1>2, <2>1 DEF Leads
    <2>4. BadLSReq = p \o q
      BY <2>1 DEF BadLSReq
    <2>5. Len(p \o q) = Len(p) + Len(q)
      BY <2>3, ConcatProperties
    <2>6. Len(p \o q) = 3
      BY <2>2, <2>5
    <2> QED BY <2>4, <2>6
  <1> QED BY <1>3, <1>4

LEMMA ProcessLSRFine == Fine(ProcessLSR)
  <1> DEFINE a == <<Lock("db"), Reads("db"), Unlock("db")>>
             b == <<Reads("lsa")>>
             start == <<Lock("db"), Reads("db")>>
             end == <<Unlock("db"), Assert({})>>
             K == {"db"}
             Bad(n) == start \o Times(BadLSReq, n) \o end
  <1>1. /\ {"db"} \in SUBSET Objects /\ {} \in SUBSET Objects /\ {} \in SUBSET {"request"}
        /\ {"lsa"} \in SUBSET (Objects \ {"db"}) /\ {} \in SUBSET (Objects \ {"db"})
        /\ {} \in SUBSET Mutexes /\ {} \in SUBSET States
        /\ "db" \in Mutexes /\ "db" \notin {} /\ "db" \in K /\ K \in SUBSET Mutexes
        /\ {} \cup {"db"} = K /\ K \ {"db"} = {}
    BY DEF Objects, Mutexes
  <1>2. Leads({}, a, {}) /\ Leads({}, b, {})
    BY <1>1, LeadsLocked, LeadsFree DEF Reads
  <1>3. Leads({}, a \o b, {})
    BY <1>2, LeadsConcat
  <1>4. <<Lock("db"), Reads("db"), Unlock("db"), Reads("lsa")>> = a \o b
    OBVIOUS
  <1> HIDE DEF K
  <1>5. Leads({}, start, K)
    <2>1. Leads({}, <<Lock("db")>>, K) /\ Leads(K, <<Reads("db")>>, K)
      BY <1>1, LeadsLock, LeadsAccess DEF Reads
    <2> QED BY <2>1, LeadsTwo
  <1>6. Leads(K, end, {})
    <2>1. Leads(K, <<Unlock("db")>>, {}) /\ Leads({}, <<Assert({})>>, {})
      BY <1>1, LeadsUnlock, LeadsAssert
    <2> QED BY <2>1, LeadsTwo
  <1> HIDE DEF a, b, start, end
  <1>7. ASSUME NEW n \in 1 .. 2
        PROVE  Leads({}, Bad(n), {})
    <2>1. Leads(K, BadLSReq, K) /\ Len(BadLSReq) = 3 /\ BadLSReq # <<>> /\ n \in Nat
      BY <1>1, BadLSReqLeads
    <2>2. Cyclic(Len(BadLSReq))
      BY <2>1, CyclicLengths
    <2>3. Leads(K, Times(BadLSReq, n), K)
      BY <2>1, <2>2, LeadsTimes
    <2> QED BY <1>5, <1>6, <2>3, LeadsConcat
  <1>8. ProcessLSR = IF state \in AtLeastExchange
                     THEN {a \o b} \cup {Bad(n) : n \in 1 .. 2} ELSE {<<>>}
    BY <1>4 DEF ProcessLSR, start, end
  <1> HIDE DEF Bad
  <1> QED BY <1>3, <1>7, <1>8, FineEmpty DEF Fine

LEMMA ProcessLSUFine == Fine(ProcessLSU)
  <1> DEFINE a == <<Lock("db"), Access({}, {"lsa", "db"}), Unlock("db")>>
             b == <<Lock("request"), Writes("request"), Unlock("request")>>
             block == <<Lock("db"), Access({}, {"lsa", "db"}), Unlock("db"),
                        Lock("request"), Writes("request"), Unlock("request")>>
  <1>1. /\ {"lsa", "db"} \in SUBSET Objects /\ {} \in SUBSET Objects
        /\ {} \in SUBSET {"request"} /\ {} \in SUBSET Mutexes
        /\ {"lsa"} \in SUBSET (Objects \ {"db"}) /\ {} \in SUBSET (Objects \ {"db"})
        /\ {"request"} \in SUBSET (Objects \ {"db"})
    BY DEF Objects
  <1>2. Leads({}, a, {}) /\ Leads({}, b, {})
    BY <1>1, LeadsLocked, LeadsRequest DEF Writes
  <1>3. block = a \o b /\ Len(block) = 6 /\ block # <<>>
    OBVIOUS
  <1>4. Leads({}, <<Reads("lsa")>>, {})
    BY <1>1, LeadsFree DEF Reads
  <1> HIDE DEF a, b, block
  <1>5. Leads({}, block, {})
    BY <1>2, <1>3, LeadsConcat
  <1>6. ASSUME NEW n \in 0 .. MaxHeaders
        PROVE  Leads({}, Times(block, n) \o <<Reads("lsa")>>, {})
    <2>1. Leads({}, Times(block, n), {})
      <3>1. n \in Nat /\ Cyclic(Len(block))
        BY <1>3, CyclicLengths, ThreadsAssumption
      <3> QED BY <3>1, <1>3, <1>5, LeadsTimes
    <2> QED BY <2>1, <1>4, LeadsConcat
  <1> QED BY <1>6 DEF ProcessLSU, Fine, block

LEMMA ProduceDDFine == Fine(ProduceDD)
  <1>1. /\ {"lsa"} \in SUBSET (Objects \ {"db"}) /\ {"summary"} \in SUBSET (Objects \ {"db"})
        /\ {} \in SUBSET (Objects \ {"db"}) /\ {} \in SUBSET Mutexes
        /\ "exchange_done" \in Functions
    BY DEF Objects, Functions
  <1>2. Leads({}, <<Access({"lsa"}, {"summary"})>>, {})
    BY <1>1, LeadsFree
  <1>3. Leads({}, <<Writes("summary")>>, {})
    BY <1>1, LeadsFree DEF Writes
  <1>4. Leads({}, <<Call("exchange_done"), Writes("summary")>>, {})
    BY <1>1, <1>3, LeadsCall, LeadsTwo
  <1>5. Fine({<<>>, <<Call("exchange_done"), Writes("summary")>>})
    BY <1>4, FineEmpty DEF Fine
  <1> QED BY <1>2, <1>5, FineThen, FineEmpty DEF ProduceDD

LEMMA ExchangeDoneFine == Fine(ExchangeDone)
  <1> DEFINE K == {"request"}
             start == <<Lock("request"), Reads("request")>>
  <1>1. /\ {"request"} \in SUBSET (Objects \ {"db"}) /\ {} \in SUBSET (Objects \ {"db"})
        /\ K \in SUBSET {"request"} /\ {} \in SUBSET Mutexes /\ K \in SUBSET Mutexes
        /\ "request" \in Mutexes /\ {} \cup {"request"} = K /\ K \ {"request"} = {}
        /\ "LOADING" \in States /\ "FULL" \in States /\ "db" \notin {} /\ "request" \in K
    BY DEF Objects, Mutexes, States
  <1> HIDE DEF K
  <1>2. Leads({}, <<Lock("request")>>, K) /\ Leads(K, <<Unlock("request")>>, {})
    BY <1>1, LeadsLock, LeadsUnlock
  <1>3. Leads(K, <<Reads("request")>>, K)
    BY <1>1, LeadsFree DEF Reads
  <1>4. Leads({}, start, K)
    BY <1>2, <1>3, LeadsTwo
  <1>5. Leads(K, <<Becomes("LOADING"), Unlock("request")>>, {})
    BY <1>1, <1>2, LeadsBecomes, LeadsTwo
  <1>6. ASSUME NEW n \in 1 .. 2
        PROVE  Leads(K, <<Becomes("FULL")>> \o Times(MakeLSA, n) \o <<Unlock("request")>>, {})
    <2>1. Leads(K, <<Becomes("FULL")>>, K)
      BY <1>1, LeadsBecomes
    <2>2. Leads(K, Times(MakeLSA, n), K)
      <3>1. Leads(K, MakeLSA, K) /\ Len(MakeLSA) = 3 /\ MakeLSA # <<>> /\ n \in Nat
        BY <1>1, MakeLSALeads
      <3>2. Cyclic(Len(MakeLSA))
        BY <3>1, CyclicLengths
      <3> QED BY <3>1, <3>2, LeadsTimes
    <2> QED BY <1>2, <2>1, <2>2, LeadsConcat
  <1> HIDE DEF start
  <1>7. Leads({}, start \o <<Becomes("LOADING"), Unlock("request")>>, {})
    BY <1>4, <1>5, LeadsConcat
  <1>8. ASSUME NEW n \in 1 .. 2
        PROVE  Leads({}, start \o (<<Becomes("FULL")>> \o Times(MakeLSA, n)
                                     \o <<Unlock("request")>>), {})
    BY <1>4, <1>6, LeadsConcat
  <1> QED BY <1>7, <1>8 DEF ExchangeDone, Then, Fine, start

LEMMA VisitFine == Fine(Visit)
  <1>1. "produce_dd" \in Functions /\ "requests" \in Functions
    BY DEF Functions
  <1>2. Leads({}, <<Call("produce_dd"), Call("requests")>>, {})
    BY <1>1, LeadsCall, LeadsTwo
  <1> QED BY <1>1, <1>2, FineEmpty, LeadsCall DEF Visit, Fine

LEMMA RequestsFine == Fine(Requests)
  <1>1. "produce_lsr" \in Functions
    BY DEF Functions
  <1> QED BY <1>1, FineEmpty, LeadsCall DEF Requests, Fine

LEMMA ProduceLSRFine == Fine(ProduceLSR)
  <1>1. /\ {"request"} \in SUBSET (Objects \ {"db"}) /\ {} \in SUBSET (Objects \ {"db"})
        /\ "loading" \in Functions
    BY DEF Objects, Functions
  <1>2. Leads({}, <<Lock("request"), Reads("request"), Unlock("request")>>, {})
    BY <1>1, LeadsRequest DEF Reads
  <1>3. Fine({<<>>, <<Call("loading")>>})
    BY <1>1, FineEmpty, LeadsCall DEF Fine
  <1> QED BY <1>2, <1>3, FineThen DEF ProduceLSR

LEMMA LoadingFine == Fine(Loading)
  <1>1. "loading_done" \in Functions
    BY DEF Functions
  <1> QED BY <1>1, FineEmpty, LeadsCall DEF Loading, Fine

LEMMA LoadingDoneFine == Fine(LoadingDone)
  <1>1. "FULL" \in States /\ "update_route" \in Functions /\ {} \in SUBSET {"request"}
    BY DEF States, Functions
  <1>2. Leads({}, <<Becomes("FULL")>>, {}) /\ Leads({}, <<Call("update_route")>>, {})
    BY <1>1, LeadsState, LeadsCall
  <1> QED BY <1>1, <1>2, MakeLSALeads, LeadsConcat DEF LoadingDone, Fine

LEMMA UpdateRouteFine == Fine(UpdateRoute)
  <1> DEFINE a == <<Writes("routing")>>
             b == <<Lock("db"), Access({"db"}, {"routing"}), Unlock("db")>>
             c == <<Access({"neighbors"}, {"routing"})>>
  <1>1. /\ {"db"} \in SUBSET Objects /\ {"routing"} \in SUBSET Objects
        /\ {"routing"} \in SUBSET (Objects \ {"db"}) /\ {} \in SUBSET (Objects \ {"db"})
        /\ {"neighbors"} \in SUBSET (Objects \ {"db"})
        /\ {} \in SUBSET {"request"} /\ {} \in SUBSET Mutexes
    BY DEF Objects
  <1>2. Leads({}, a, {}) /\ Leads({}, b, {}) /\ Leads({}, c, {})
    BY <1>1, LeadsFree, LeadsLocked DEF Writes
  <1>3. UpdateRoute = {a \o b \o a \o b \o c}
    BY DEF UpdateRoute
  <1> HIDE DEF a, b, c
  <1>4. Leads({}, a \o b \o a \o b \o c, {})
    BY <1>2, LeadsConcat
  <1> QED BY <1>3, <1>4 DEF Fine

\* Every way through every function starts and ends with no mutex held.
LEMMA WaysFine ==
  ASSUME NEW f \in Functions
  PROVE  Fine(Ways(f))
  <1>1. /\ Ways("process_hello") = Hello /\ Ways("process_dd") = ProcessDD
        /\ Ways("process_lsr") = ProcessLSR /\ Ways("process_lsu") = ProcessLSU
        /\ Ways("elect") = Elect /\ Ways("adj_ok") = AdjOk
        /\ Ways("exstart") = Exstart /\ Ways("negotiation_done") = NegotiationDone
        /\ Ways("accept") = Accept
    BY DEF Ways
  <1>2. /\ Ways("exchange_done") = ExchangeDone /\ Ways("produce_dd") = ProduceDD
        /\ Ways("visit") = Visit /\ Ways("requests") = Requests
        /\ Ways("produce_lsr") = ProduceLSR /\ Ways("loading") = Loading
        /\ Ways("loading_done") = LoadingDone /\ Ways("update_route") = UpdateRoute
    BY DEF Ways
  <1>3. CASE f \in {"process_hello", "process_dd", "process_lsr", "process_lsu",
                    "elect", "adj_ok", "exstart", "negotiation_done", "accept"}
    BY <1>1, <1>3, HelloFine, ProcessDDFine, ProcessLSRFine, ProcessLSUFine,
       ElectFine, AdjOkFine, ExstartFine, NegotiationDoneFine, AcceptFine
  <1>4. CASE f \in {"exchange_done", "produce_dd", "visit", "requests",
                    "produce_lsr", "loading", "loading_done", "update_route"}
    BY <1>2, <1>4, ExchangeDoneFine, ProduceDDFine, VisitFine, RequestsFine,
       ProduceLSRFine, LoadingFine, LoadingDoneFine, UpdateRouteFine
  <1> QED BY <1>3, <1>4 DEF Functions

-----------------------------------------------------------------------------
(* The invariant.                                                          *)

LEMMA InvInit == Init => Inv
  <1> SUFFICES ASSUME Init PROVE Inv
    OBVIOUS
  <1>1. TypeOK
    <2>1. <<>> \in Seq(Operations) /\ None \in Threads \cup {None} /\ "NONE" \in States
      BY DEF States
    <2>2. 0 \in 0 .. Intfs
      BY ThreadsAssumption
    <2> QED BY <2>1, <2>2 DEF Init, TypeOK
  <1>2. \A t \in Threads : Held(t) = {} /\ todo[t] = <<>>
    BY ThreadsAssumption DEF Init, Held, Threads
  <1> QED BY <1>1, <1>2, FineEmpty DEF Inv, Disciplined

\* The first operation of a thread is allowed, and the rest goes on from it.
LEMMA FirstAllowed ==
  ASSUME Inv, NEW t \in Threads, ~Idle(t)
  PROVE  /\ Head(todo[t]) \in Operations /\ Allowed(Head(todo[t]), Held(t))
         /\ Leads(After1(Head(todo[t]), Held(t)), Tail(todo[t]), {})
         /\ Tail(todo[t]) \in Seq(Operations)
  <1>1. Leads(Held(t), todo[t], {}) /\ todo[t] # <<>>
    BY DEF Inv, Disciplined, Idle
  <1>2. /\ Head(todo[t]) \in Operations /\ Allowed(Head(todo[t]), Held(t))
        /\ Leads(After1(Head(todo[t]), Held(t)), Tail(todo[t]), {})
    BY <1>1, LeadsTail
  <1> QED BY <1>2 DEF Leads

\* A step that does the first operation of one thread and gives the mutexes
\* to nobody else.
LEMMA StepKeeps ==
  ASSUME Inv, NEW t \in Threads, ~Idle(t), todo' = Rest(t),
         Held(t)' = After1(Head(todo[t]), Held(t)),
         \A u \in Threads \ {t} : Held(u)' = Held(u)
  PROVE  Disciplined' /\ todo' \in [Threads -> Seq(Operations)]
  <1>1. todo \in [Threads -> Seq(Operations)]
    BY DEF Inv, TypeOK
  <1>2. /\ todo'[t] = Tail(todo[t])
        /\ \A u \in Threads \ {t} : todo'[u] = todo[u]
        /\ todo' \in [Threads -> Seq(Operations)]
    BY <1>1, FirstAllowed DEF Rest
  <1>3. Leads(Held(t)', todo'[t], {})
    BY <1>2, FirstAllowed
  <1>4. \A u \in Threads \ {t} : Leads(Held(u)', todo'[u], {})
    BY <1>2 DEF Inv, Disciplined
  <1> QED BY <1>2, <1>3, <1>4 DEF Disciplined

\* What a thread at its loop, or calling, is given to do is done holding
\* nothing and holds nothing at its end.
LEMMA GivenKeeps ==
  ASSUME Inv, NEW t \in Threads, NEW s, Held(t) = {}, Leads({}, s, {}),
         todo' = [todo EXCEPT ![t] = s], holder' = holder
  PROVE  Disciplined' /\ todo' \in [Threads -> Seq(Operations)]
  <1>1. todo \in [Threads -> Seq(Operations)] /\ s \in Seq(Operations)
    BY DEF Inv, TypeOK, Leads
  <1>2. /\ todo'[t] = s
        /\ \A u \in Threads \ {t} : todo'[u] = todo[u]
        /\ todo' \in [Threads -> Seq(Operations)]
    BY <1>1
  <1>3. \A u \in Threads : Held(u)' = Held(u)
    BY DEF Held
  <1>4. \A u \in Threads \ {t} : Leads(Held(u)', todo'[u], {})
    BY <1>2, <1>3 DEF Inv, Disciplined
  <1>5. Leads(Held(t)', todo'[t], {})
    BY <1>2, <1>3
  <1> QED BY <1>2, <1>4, <1>5 DEF Disciplined

LEMMA OperationParts ==
  ASSUME NEW op \in Operations
  PROVE  /\ op.op \in {"lock", "unlock"} => op.on \in Mutexes
         /\ op.op = "state" => op.on \in States
         /\ op.op = "call" => op.on \in Functions
  BY DEF Operations, ClearInit

LEMMA InvAcquire ==
  ASSUME Inv, NEW t \in Threads, Acquire(t)
  PROVE  Inv'
  <1> DEFINE op == Head(todo[t])
  <1>1. /\ ~Idle(t) /\ op.op = "lock" /\ holder[op.on] = None /\ todo' = Rest(t)
        /\ holder' = [holder EXCEPT ![op.on] = t]
    BY DEF Acquire, Does, On
  <1>2. op \in Operations /\ op.on \in Mutexes
    BY <1>1, FirstAllowed, OperationParts
  <1>3. holder \in [Mutexes -> Threads \cup {None}] /\ None \notin Threads
    BY ThreadsAssumption DEF Inv, TypeOK, Threads
  <1>4. After1(op, Held(t)) = Held(t) \cup {op.on}
    BY <1>1 DEF After1
  <1> HIDE DEF op
  <1>5. Held(t)' = Held(t) \cup {op.on}
    BY <1>1, <1>2, <1>3 DEF Held
  <1>6. \A u \in Threads \ {t} : Held(u)' = Held(u)
    BY <1>1, <1>2, <1>3 DEF Held
  <1>7. Disciplined' /\ todo' \in [Threads -> Seq(Operations)]
    BY <1>1, <1>4, <1>5, <1>6, StepKeeps DEF op
  <1>8. holder' \in [Mutexes -> Threads \cup {None}]
    BY <1>1, <1>2, <1>3
  <1>9. TypeOK'
    BY <1>7, <1>8 DEF Inv, TypeOK, Acquire, loops
  <1> QED BY <1>7, <1>9 DEF Inv

LEMMA InvRelease ==
  ASSUME Inv, NEW t \in Threads, Release(t)
  PROVE  Inv'
  <1> DEFINE op == Head(todo[t])
  <1>1. /\ ~Idle(t) /\ op.op = "unlock" /\ todo' = Rest(t)
        /\ holder' = [holder EXCEPT ![op.on] = None]
    BY DEF Release, Does, On
  <1>2. op \in Operations /\ op.on \in Mutexes /\ op.on \in Held(t)
    BY <1>1, FirstAllowed, OperationParts DEF Allowed
  <1>3. holder \in [Mutexes -> Threads \cup {None}] /\ None \notin Threads
    BY ThreadsAssumption DEF Inv, TypeOK, Threads
  <1>4. After1(op, Held(t)) = Held(t) \ {op.on}
    BY <1>1 DEF After1
  <1> HIDE DEF op
  <1>5. Held(t)' = Held(t) \ {op.on}
    BY <1>1, <1>2, <1>3 DEF Held
  <1>6. \A u \in Threads \ {t} : Held(u)' = Held(u)
    BY <1>1, <1>2, <1>3 DEF Held
  <1>7. Disciplined' /\ todo' \in [Threads -> Seq(Operations)]
    BY <1>1, <1>4, <1>5, <1>6, StepKeeps DEF op
  <1>8. holder' \in [Mutexes -> Threads \cup {None}]
    BY <1>1, <1>2, <1>3
  <1>9. TypeOK'
    BY <1>7, <1>8 DEF Inv, TypeOK, Release, loops
  <1> QED BY <1>7, <1>9 DEF Inv

\* Operations that do not lock, unlock or call.
LEMMA OthersKeep ==
  ASSUME Inv, NEW t \in Threads, ~Idle(t), todo' = Rest(t), holder' = holder,
         Head(todo[t]).op \notin {"lock", "unlock"}
  PROVE  Disciplined' /\ todo' \in [Threads -> Seq(Operations)]
  <1>1. \A u \in Threads : Held(u)' = Held(u)
    BY DEF Held
  <1>2. After1(Head(todo[t]), Held(t)) = Held(t)
    BY DEF After1
  <1> QED BY <1>1, <1>2, StepKeeps

LEMMA InvUse ==
  ASSUME Inv, NEW t \in Threads, Use(t)
  PROVE  Inv'
  <1>1. ~Idle(t) /\ Head(todo[t]).op = "access" /\ todo' = Rest(t) /\ holder' = holder
    BY DEF Use, Does
  <1>2. Disciplined' /\ todo' \in [Threads -> Seq(Operations)]
    BY <1>1, OthersKeep
  <1>3. TypeOK'
    BY <1>2 DEF Inv, TypeOK, Use, loops
  <1> QED BY <1>2, <1>3 DEF Inv

LEMMA InvChangeState ==
  ASSUME Inv, NEW t \in Threads, ChangeState(t)
  PROVE  Inv'
  <1>1. /\ ~Idle(t) /\ Head(todo[t]).op = "state" /\ todo' = Rest(t)
        /\ holder' = holder /\ state' = Head(todo[t]).on
    BY DEF ChangeState, Does, On
  <1>2. Disciplined' /\ todo' \in [Threads -> Seq(Operations)]
    BY <1>1, OthersKeep
  <1>3. state' \in States
    BY <1>1, FirstAllowed, OperationParts
  <1>4. TypeOK'
    BY <1>2, <1>3 DEF Inv, TypeOK, ChangeState, loops
  <1> QED BY <1>2, <1>4 DEF Inv

LEMMA InvAssertState ==
  ASSUME Inv, NEW t \in Threads, AssertState(t)
  PROVE  Inv'
  <1>1. ~Idle(t) /\ Head(todo[t]).op = "assert" /\ holder' = holder
    BY DEF AssertState, Does
  <1>2. Disciplined' /\ todo' \in [Threads -> Seq(Operations)]
    <2>1. CASE state \in On(t)
      <3>1. todo' = Rest(t)
        BY <2>1 DEF AssertState
      <3> QED BY <1>1, <3>1, OthersKeep
    <2>2. CASE state \notin On(t)
      <3>1. todo' = todo
        BY <2>2 DEF AssertState
      <3> QED BY <1>1, <3>1 DEF Inv, TypeOK, Disciplined, Held
    <2> QED BY <2>1, <2>2
  <1>3. aborted' \in BOOLEAN
    BY DEF AssertState, Inv, TypeOK
  <1>4. TypeOK'
    BY <1>2, <1>3 DEF Inv, TypeOK, AssertState, loops
  <1> QED BY <1>2, <1>4 DEF Inv

LEMMA InvClearDDInit ==
  ASSUME Inv, NEW t \in Threads, ClearDDInit(t)
  PROVE  Inv'
  <1>1. /\ ~Idle(t) /\ Head(todo[t]).op = "clear" /\ todo' = Rest(t)
        /\ holder' = holder
    BY DEF ClearDDInit, Does
  <1>2. Disciplined' /\ todo' \in [Threads -> Seq(Operations)]
    BY <1>1, OthersKeep
  <1>3. TypeOK'
    BY <1>2 DEF Inv, TypeOK, ClearDDInit, loops
  <1> QED BY <1>2, <1>3 DEF Inv

\* A function is called holding nothing, so the way through it leads on to
\* the rest.
LEMMA InvEnter ==
  ASSUME Inv, NEW t \in Threads, Enter(t)
  PROVE  Inv'
  <1> DEFINE op == Head(todo[t])
  <1>1. ~Idle(t) /\ op.op = "call" /\ holder' = holder
    BY DEF Enter, Does
  <1>2. op \in Operations /\ op.on \in Functions /\ Held(t) = {}
    BY <1>1, FirstAllowed, OperationParts DEF Allowed
  <1>3. Leads({}, Tail(todo[t]), {})
    BY <1>1, <1>2, FirstAllowed DEF After1
  <1>4. Disciplined' /\ todo' \in [Threads -> Seq(Operations)]
    <2>1. CASE state \in Asserted(On(t))
      <3>1. PICK way \in Ways(op.on) : todo' = [todo EXCEPT ![t] = way \o Tail(@)]
        BY <2>1 DEF Enter, On
      <3>2. Leads({}, way, {})
        BY <1>2, WaysFine DEF Fine
      <3>3. Leads({}, way \o Tail(todo[t]), {})
        BY <1>3, <3>2, LeadsConcat
      <3>4. todo' = [todo EXCEPT ![t] = way \o Tail(todo[t])]
        BY <3>1
      <3> QED BY <1>1, <1>2, <3>3, <3>4, GivenKeeps
    <2>2. CASE state \notin Asserted(On(t))
      <3>1. todo' = todo
        BY <2>2 DEF Enter
      <3> QED BY <1>1, <3>1 DEF Inv, TypeOK, Disciplined, Held
    <2> QED BY <2>1, <2>2
  <1>5. aborted' \in BOOLEAN
    BY DEF Enter, Inv, TypeOK
  <1>6. TypeOK'
    BY <1>4, <1>5 DEF Inv, TypeOK, Enter, loops
  <1> QED BY <1>4, <1>6 DEF Inv

LEMMA InvWork ==
  ASSUME Inv, NEW t \in Threads, Work(t)
  PROVE  Inv'
  BY InvAcquire, InvRelease, InvUse, InvChangeState, InvAssertState, InvClearDDInit, InvEnter
     DEF Work

LEMMA IdleHoldsNothing ==
  ASSUME Inv, NEW t \in Threads, Idle(t)
  PROVE  Held(t) = {}
  BY LeadsNothing DEF Inv, Disciplined, Idle

LEMMA AfterType ==
  ASSUME NEW i \in 0 .. Intfs
  PROVE  After(i) \in 0 .. Intfs
  <1>1. Intfs \in Nat /\ i + 1 \in Nat /\ Intfs + 1 \in Nat /\ Intfs + 1 > 0
    BY ThreadsAssumption
  <1>2. (i + 1) % (Intfs + 1) \in 0 .. (Intfs + 1) - 1
    BY <1>1
  <1> QED BY <1>1, <1>2 DEF After

LEMMA InvRecv ==
  ASSUME Inv, RecvTest \/ ReceiveFrame
  PROVE  Inv'
  <1>1. CASE RecvTest
    <2>1. recv_at' \in 0 .. Intfs /\ finished' \subseteq Threads
      <3>1. /\ recv_at' = 1 \/ recv_at' = recv_at
            /\ finished' = finished \/ finished' = finished \cup {"recv"}
        BY <1>1, Zenon DEF RecvTest
      <3>2. recv_at \in 0 .. Intfs /\ finished \subseteq Threads /\ "recv" \in Threads
        BY DEF Inv, TypeOK, Threads
      <3> QED BY <3>1, <3>2, ThreadsAssumption
    <2>2. Disciplined'
      BY <1>1 DEF RecvTest, shared, Inv, Disciplined, Held
    <2>3. TypeOK'
      BY <1>1, <2>1 DEF RecvTest, shared, Inv, TypeOK
    <2> QED BY <2>2, <2>3 DEF Inv
  <1>2. CASE ReceiveFrame
    <2> DEFINE ways == {<<>>} \cup
                  IF recv_at = 1
                  THEN {<<Call(f)>> : f \in {"process_hello", "process_dd",
                                             "process_lsr", "process_lsu"}}
                  ELSE {}
    <2>1. Fine(ways)
      <3>1. {"process_hello", "process_dd", "process_lsr", "process_lsu"}
              \subseteq Functions
        BY DEF Functions
      <3> QED BY <3>1, FineEmpty, LeadsCall DEF Fine
    <2>2. PICK way \in ways : todo' = [todo EXCEPT !["recv"] = way]
      BY <1>2 DEF ReceiveFrame
    <2>3. Leads({}, way, {})
      BY <2>1 DEF Fine
    <2>4. "recv" \in Threads /\ Held("recv") = {} /\ holder' = holder
      BY <1>2, IdleHoldsNothing DEF ReceiveFrame, shared, Threads
    <2>5. Disciplined' /\ todo' \in [Threads -> Seq(Operations)]
      BY <2>2, <2>3, <2>4, GivenKeeps
    <2>6. recv_at' \in 0 .. Intfs /\ frames' \subseteq 1 .. Intfs
      BY <1>2, AfterType DEF ReceiveFrame, Inv, TypeOK
    <2>7. TypeOK'
      BY <1>2, <2>5, <2>6 DEF ReceiveFrame, shared, Inv, TypeOK
    <2> QED BY <2>5, <2>7 DEF Inv
  <1> QED BY <1>1, <1>2

LEMMA InvSend ==
  ASSUME Inv, SendTest \/ ServeInterface
  PROVE  Inv'
  <1>1. CASE SendTest
    <2>1. send_at' \in 0 .. Intfs /\ finished' \subseteq Threads
      <3>1. /\ send_at' = 1 \/ send_at' = send_at
            /\ finished' = finished \/ finished' = finished \cup {"send"}
        BY <1>1, Zenon DEF SendTest
      <3>2. send_at \in 0 .. Intfs /\ finished \subseteq Threads /\ "send" \in Threads
        BY DEF Inv, TypeOK, Threads
      <3> QED BY <3>1, <3>2, ThreadsAssumption
    <2>2. Disciplined'
      BY <1>1 DEF SendTest, shared, Inv, Disciplined, Held
    <2>3. TypeOK'
      BY <1>1, <2>1 DEF SendTest, shared, Inv, TypeOK
    <2> QED BY <2>2, <2>3 DEF Inv
  <1>2. CASE ServeInterface
    <2> DEFINE visit == IF send_at = 1 THEN <<Reads("neighbors"), Call("visit")>>
                        ELSE <<>>
    <2>1. PICK hello \in {<<>>, <<Reads("neighbors")>>} :
             todo' = [todo EXCEPT !["send"] = hello \o visit]
      BY <1>2 DEF ServeInterface
    <2>2. /\ "visit" \in Functions /\ {} \in SUBSET Mutexes
          /\ {"neighbors"} \in SUBSET (Objects \ {"db"})
          /\ {} \in SUBSET (Objects \ {"db"})
      BY DEF Functions, Objects
    <2>3. Leads({}, <<Reads("neighbors")>>, {}) /\ Leads({}, <<Call("visit")>>, {})
      BY <2>2, LeadsFree, LeadsCall DEF Reads
    <2>4. Leads({}, hello, {}) /\ Leads({}, visit, {})
      BY <2>3, FineEmpty, LeadsTwo
    <2> HIDE DEF visit
    <2>5. Leads({}, hello \o visit, {})
      BY <2>4, LeadsConcat
    <2>6. "send" \in Threads /\ Held("send") = {} /\ holder' = holder
      BY <1>2, IdleHoldsNothing DEF ServeInterface, shared, Threads
    <2>7. Disciplined' /\ todo' \in [Threads -> Seq(Operations)]
      BY <2>1, <2>5, <2>6, GivenKeeps
    <2>8. send_at' \in 0 .. Intfs
      BY <1>2, AfterType DEF ServeInterface, Inv, TypeOK
    <2>9. TypeOK'
      BY <1>2, <2>7, <2>8 DEF ServeInterface, shared, Inv, TypeOK
    <2> QED BY <2>7, <2>9 DEF Inv
  <1> QED BY <1>1, <1>2

LEMMA InvMain ==
  ASSUME Inv, CommandDebug \/ CommandExit \/ Join \/ \E i \in 1 .. Intfs : Arrive(i)
  PROVE  Inv'
  <1>1. CASE CommandDebug
    <2>1. /\ {"routing"} \in SUBSET (Objects \ {"db"}) /\ {} \in SUBSET (Objects \ {"db"})
          /\ {} \in SUBSET Mutexes
      BY DEF Objects
    <2>2. Leads({}, <<Writes("routing")>>, {})
      BY <2>1, LeadsFree DEF Writes
    <2>3. "main" \in Threads /\ Held("main") = {} /\ holder' = holder
      BY <1>1, IdleHoldsNothing DEF CommandDebug, shared, Threads
    <2>4. Disciplined' /\ todo' \in [Threads -> Seq(Operations)]
      BY <1>1, <2>2, <2>3, GivenKeeps DEF CommandDebug
    <2>5. TypeOK'
      BY <1>1, <2>4 DEF CommandDebug, shared, loops, Inv, TypeOK
    <2> QED BY <2>4, <2>5 DEF Inv
  <1>2. CASE CommandExit
    <2>1. Disciplined'
      BY <1>2 DEF CommandExit, shared, Inv, Disciplined, Held
    <2>2. TypeOK'
      BY <1>2 DEF CommandExit, shared, Inv, TypeOK
    <2> QED BY <2>1, <2>2 DEF Inv
  <1>3. CASE Join
    <2>1. Disciplined'
      BY <1>3 DEF Join, shared, Inv, Disciplined, Held
    <2>2. TypeOK'
      BY <1>3 DEF Join, shared, Inv, TypeOK
    <2> QED BY <2>1, <2>2 DEF Inv
  <1>4. ASSUME NEW i \in 1 .. Intfs, Arrive(i)
        PROVE  Inv'
    <2>1. Disciplined'
      BY <1>4 DEF Arrive, shared, Inv, Disciplined, Held
    <2>2. frames' \subseteq 1 .. Intfs
      BY <1>4 DEF Arrive, Inv, TypeOK
    <2>3. TypeOK'
      BY <1>4, <2>2 DEF Arrive, shared, Inv, TypeOK
    <2> QED BY <2>1, <2>3 DEF Inv
  <1> QED BY <1>1, <1>2, <1>3, <1>4

LEMMA InvNext == Inv /\ [Next]_vars => Inv'
  <1> SUFFICES ASSUME Inv, [Next]_vars PROVE Inv'
    OBVIOUS
  <1>1. "main" \in Threads /\ "recv" \in Threads /\ "send" \in Threads
    BY DEF Threads
  <1>2. CASE Recv
    BY <1>1, <1>2, InvWork, InvRecv DEF Recv
  <1>3. CASE Send
    BY <1>1, <1>3, InvWork, InvSend DEF Send
  <1>4. CASE Use("main") \/ CommandDebug \/ CommandExit \/ Join
             \/ \E i \in 1 .. Intfs : Arrive(i)
    BY <1>1, <1>4, InvUse, InvMain
  <1>5. CASE UNCHANGED vars
    <2>1. Disciplined'
      BY <1>5 DEF vars, Inv, Disciplined, Held
    <2>2. TypeOK'
      BY <1>5 DEF vars, Inv, TypeOK
    <2> QED BY <2>1, <2>2 DEF Inv
  <1> QED BY <1>2, <1>3, <1>4, <1>5 DEF Next

LEMMA InvAlways == Spec => []Inv
  BY InvInit, InvNext, PTL DEF Spec

-----------------------------------------------------------------------------
(* What follows from it.                                                   *)

\* Every variable has its type in every reachable state, for any number of
\* interfaces: what a thread has to do is made of the operations only.
THEOREM TypeCorrect == Spec => []TypeOK
  <1>1. Inv => TypeOK
    BY DEF Inv
  <1> QED BY <1>1, InvAlways, PTL

\* A thread that waits for a mutex does not hold it; that holds the
\* database's, does not wait for the request list's.
LEMMA WaitingFor ==
  ASSUME Inv, NEW t \in Threads, Does(t, "lock")
  PROVE  /\ On(t) \in Mutexes /\ On(t) \notin Held(t)
         /\ On(t) = "request" => "db" \notin Held(t)
  BY FirstAllowed, OperationParts DEF Does, On, Allowed

\* No thread locks a mutex it holds, unlocks one it does not hold, or comes
\* back to its loop with one locked (lsdb.hpp:72, neighbor.hpp:70).
THEOREM LocksPaired == Spec => []LockDiscipline
  <1>1. ASSUME Inv PROVE LockDiscipline
    <2>1. ASSUME NEW t \in Threads
          PROVE  /\ Does(t, "lock") => holder[On(t)] # t
                 /\ Does(t, "unlock") => holder[On(t)] = t
                 /\ Idle(t) => \A m \in Mutexes : holder[m] # t
      <3>1. Does(t, "lock") => holder[On(t)] # t
        BY <1>1, WaitingFor DEF Held
      <3>2. Does(t, "unlock") => holder[On(t)] = t
        BY <1>1, FirstAllowed DEF Does, On, Allowed, Held
      <3>3. Idle(t) => \A m \in Mutexes : holder[m] # t
        BY <1>1, IdleHoldsNothing DEF Held
      <3> QED BY <3>1, <3>2, <3>3
    <2> QED BY <2>1 DEF LockDiscipline
  <1> QED BY <1>1, InvAlways, PTL

\* No threads wait for each other in a circle, whatever packets, timers and
\* commands bring: who holds the database's mutex waits for no other.
THEOREM DeadlockFree == Spec => []NoDeadlock
  <1>1. ASSUME Inv PROVE NoDeadlock
    <2> SUFFICES ASSUME NEW W \in (SUBSET Threads) \ {{}},
                        \A t \in W : Does(t, "lock") /\ holder[On(t)] \in W
                 PROVE  FALSE
      BY DEF NoDeadlock
    <2> DEFINE next(t) == holder[On(t)]
    <2>1. \A t \in W : On(t) \in Mutexes /\ On(t) \notin Held(t)
                       /\ (On(t) = "request" => "db" \notin Held(t))
      BY <1>1, WaitingFor
    <2>2. \A t \in W : next(t) \in W /\ On(t) \in Held(next(t))
      BY <2>1 DEF Held
    <2>3. \A t \in W : On(t) # "db"
      \* The thread it waits for holds "db" and would wait for "request".
      <3>1. ASSUME NEW t \in W, On(t) = "db" PROVE FALSE
        <4>1. next(t) \in W /\ "db" \in Held(next(t))
          BY <2>2, <3>1
        <4>2. On(next(t)) = "request"
          BY <4>1, <2>1 DEF Mutexes
        <4> QED BY <4>1, <4>2, <2>1
      <3> QED BY <3>1
    <2>4. PICK t \in W : TRUE
      OBVIOUS
    <2>5. On(t) = "request" /\ On(next(t)) = "request" /\ "request" \in Held(next(t))
      BY <2>1, <2>2, <2>3 DEF Mutexes
    <2> QED BY <2>1, <2>2, <2>5
  <1> QED BY <1>1, InvAlways, PTL

\* The lists of the database are only used holding its mutex, so no two
\* threads use them at once with one of them changing them (lsdb.hpp:72).
THEOREM DbGuarded == Spec => []DbListExclusive
  <1>1. ASSUME Inv PROVE DbListExclusive
    <2>1. ASSUME NEW t \in Threads, Changes(t, "db") \/ Uses(t, "db")
          PROVE  holder["db"] = t
      BY <1>1, <2>1, FirstAllowed DEF Changes, Uses, Does, Allowed, Held
    <2> QED BY <2>1 DEF DbListExclusive, Exclusive
  <1> QED BY <1>1, InvAlways, PTL

=============================================================================

-------------------------- MODULE InterfaceProofs --------------------------
(***************************************************************************)
(* Theorems about Interface, for any neighbours, router IDs, priorities    *)
(* and Hellos: the type invariant, the DR that can be reached, the claims  *)
(* that WAITING answers, and the role of DR that is not seized.            *)
(***************************************************************************)
EXTENDS Interface, WellFoundedInduction, TLAPS

-----------------------------------------------------------------------------
(* The candidates of an election.                                          *)

LEMMA NatLeast ==
  ASSUME NEW T, T \subseteq Nat, T # {}
  PROVE  \E x \in T : \A y \in T : ~(y < x)
  <1> DEFINE R == OpToRel(<, Nat)
  <1>1. IsWellFoundedOn(R, Nat)
    BY NatLessThanWellFounded
  <1>2. \A x, y \in Nat : y < x => <<y, x>> \in R
    BY DEF OpToRel
  <1> HIDE DEF R
  <1>3. PICK x \in T : \A y \in T : ~(<<y, x>> \in R)
    BY <1>1, WFMin
  <1> QED BY <1>2, <1>3

AllCandidates == [addr : Routers, dr : Addresses, bdr : Addresses, pri : Nat]

\* The least priority, and of those who have it the least ID.
LEMMA ElectedIn ==
  ASSUME NEW S, S \subseteq AllCandidates, S # {}
  PROVE  Elected(S) \in S
  <1> DEFINE P == {c.pri : c \in S}
  <1>1. PICK p \in P : \A q \in P : ~(q < p)
    <2>1. P \subseteq Nat /\ P # {}
      BY DEF AllCandidates
    <2> QED BY <2>1, NatLeast
  <1> DEFINE L == {c \in S : c.pri = p}
             D == {Id[c.addr] : c \in L}
  <1>2. PICK d \in D : \A e \in D : ~(e < d)
    <2>1. D \subseteq Nat
      BY RoutersAssumption DEF AllCandidates
    <2>2. D # {}
      BY <1>1
    <2> QED BY <2>1, <2>2, NatLeast
  <1>3. PICK c \in L : Id[c.addr] = d
    BY <1>2
  <1>4. \A b \in S : ~Below(b, c)
    BY <1>1, <1>2, <1>3 DEF Below
  <1>5. \E b \in S : \A a \in S : ~Below(a, b)
    BY <1>3, <1>4
  <1> QED BY <1>5 DEF Elected

LEMMA CandidatesType ==
  ASSUME NEW i \in Interfaces, NEW t \in [Nbr -> Neighbors], NEW pri \in Garbage
  PROVE  Candidates(i, t, pri) \subseteq AllCandidates
  <1>1. Candidate(Me, i.designated_router, i.backup_designated_router, pri)
          \in AllCandidates
    BY RoutersAssumption DEF Candidate, AllCandidates, Interfaces, Routers
  <1>2. ASSUME NEW n \in Nbr
        PROVE  Candidate(n, t[n].designated_router, t[n].backup_designated_router,
                         t[n].priority) \in AllCandidates
    BY RoutersAssumption DEF Candidate, AllCandidates, Neighbors, Routers
  <1> QED BY <1>1, <1>2 DEF Candidates

\* Any candidate but ourselves is a neighbour of TWOWAY.
LEMMA CandidateKnown ==
  ASSUME NEW i, NEW t, NEW pri, NEW c \in Candidates(i, t, pri)
  PROVE  \/ c.addr = Me /\ c.dr = i.designated_router
         \/ c.addr \in Nbr /\ t[c.addr].state = "TWOWAY"
  BY DEF Candidates, Candidate

-----------------------------------------------------------------------------
(* What an election leads to.                                              *)

\* A DR we believe in is ourselves, or a neighbour we have heard.
Sound(i, t) ==
    /\ i \in Interfaces
    /\ i.designated_router = Me => i.state = "DR"
    /\ i.state \in {"DROTHER", "BACKUP"} =>
          /\ i.designated_router \in Nbr
          /\ t[i.designated_router].state # "NONE"

NoClaim(t) ==
    \A n \in Nbr : t[n].state = "TWOWAY" /\ t[n].priority # 0 => ~ClaimsDR(t[n], n)

\* From i to j, with the neighbours t.
Leads(i, j, t) ==
    /\ Sound(j, t)
    /\ i.state # "DR" /\ j.state = "DR" => NoClaim(t)
    /\ j.state = "WAITING" => i.state = "WAITING"
    /\ j.fault = "no" => i.fault = "no"

LEMMA Stays == ASSUME NEW i, NEW t, Sound(i, t) PROVE Leads(i, i, t)
  BY DEF Leads

LEMMA LeadsOn ==
  ASSUME NEW i, NEW j, NEW k, NEW t, Leads(i, j, t), Leads(j, k, t)
  PROVE  Leads(i, k, t)
  BY DEF Leads

\* A fault leaves everything else as it is.
LEMMA Faulty ==
  ASSUME NEW i, NEW t, Sound(i, t), NEW f \in Faults \ {"no"}
  PROVE  Leads(i, [i EXCEPT !.fault = f], t)
  <1> DEFINE j == [i EXCEPT !.fault = f]
  <1>1. /\ j \in Interfaces /\ j.state = i.state
        /\ j.designated_router = i.designated_router /\ j.fault # "no"
    BY DEF Sound, Interfaces, Faults
  <1> QED BY <1>1 DEF Leads, Sound

LEMMA ElectLeads ==
  ASSUME NEW i, NEW t \in [Nbr -> Neighbors], NEW pri \in Garbage, Sound(i, t),
         i.fault = "no"
  PROVE  /\ Leads(i, Elect(i, t, pri), t)
         /\ Elect(i, t, pri).fault = "no" => Elect(i, t, pri).state # "WAITING"
  <1> DEFINE cands == Candidates(i, t, pri)
             dr    == NewDR(cands)
             bdr   == NewBackup(cands)
             j     == [i EXCEPT !.designated_router = dr,
                                !.backup_designated_router = bdr,
                                !.state = StateFor(dr, bdr)]
  <1>1. CASE BackupLevel2(cands) = {}
    <2>1. Elect(i, t, pri) = [i EXCEPT !.fault = "no_backup"]
      BY <1>1 DEF Elect
    <2>2. "no_backup" \in Faults \ {"no"} /\ [i EXCEPT !.fault = "no_backup"].fault # "no"
      BY DEF Faults, Sound, Interfaces
    <2> QED BY <2>1, <2>2, Faulty
  <1>2. CASE BackupLevel2(cands) # {}
    <2>1. Elect(i, t, pri) = j
      BY <1>2 DEF Elect
    <2>2. cands \subseteq AllCandidates
      BY CandidatesType DEF Sound
    <2>3. \E b \in cands : bdr = b.addr
      <3>1. CASE BackupLevel1(cands) # {}
        <4>1. BackupLevel1(cands) \subseteq cands
          BY DEF BackupLevel1, BackupLevel2
        <4> QED BY <3>1, <4>1, <2>2, ElectedIn DEF NewBackup
      <3>2. CASE BackupLevel1(cands) = {}
        <4>1. BackupLevel2(cands) \subseteq cands
          BY DEF BackupLevel2
        <4> QED BY <1>2, <3>2, <4>1, <2>2, ElectedIn DEF NewBackup
      <3> QED BY <3>1, <3>2
    <2>4. \/ \E c \in ClaimDR(cands) : dr = c.addr
          \/ ClaimDR(cands) = {} /\ dr = bdr
      <3>1. ClaimDR(cands) \subseteq AllCandidates
        BY <2>2 DEF ClaimDR
      <3> QED BY <3>1, ElectedIn DEF NewDR
    <2>5. \E c \in cands : dr = c.addr
      BY <2>3, <2>4 DEF ClaimDR
    <2>6. dr = Me \/ (dr \in Nbr /\ t[dr].state = "TWOWAY")
      BY <2>5, CandidateKnown
    <2>7. dr \in Addresses /\ bdr \in Addresses
      BY <2>2, <2>3, <2>5 DEF AllCandidates, Addresses
    <2>8. i.state # "DR" /\ dr = Me => NoClaim(t)
      <3> SUFFICES ASSUME i.state # "DR", dr = Me,
                          NEW n \in Nbr, t[n].state = "TWOWAY", t[n].priority # 0
                   PROVE  ~ClaimsDR(t[n], n)
        BY DEF NoClaim
      <3>1. ClaimDR(cands) = {}
        <4>1. SUFFICES ASSUME NEW c \in ClaimDR(cands), c.addr = Me PROVE FALSE
          BY <2>4
        <4>2. c.dr = Me /\ c \in cands
          BY <4>1 DEF ClaimDR
        <4>3. c.dr = i.designated_router
          BY <4>1, <4>2, CandidateKnown, RoutersAssumption
        <4> QED BY <4>2, <4>3 DEF Sound
      <3> DEFINE b == Candidate(n, t[n].designated_router,
                                t[n].backup_designated_router, t[n].priority)
      <3>2. b \in cands
        BY DEF Candidates
      <3>3. b.addr = n /\ b.dr = t[n].designated_router
        BY DEF Candidate
      <3> QED BY <3>1, <3>2, <3>3 DEF ClaimDR, ClaimsDR
    <2>9. /\ StateFor(dr, bdr) \in {"DROTHER", "BACKUP", "DR"}
          /\ StateFor(dr, bdr) = "DR" <=> dr = Me
      BY DEF StateFor
    <2> HIDE DEF dr, bdr, cands
    <2>10. /\ j \in Interfaces /\ j.designated_router = dr
           /\ j.state = StateFor(dr, bdr) /\ j.fault = "no"
      BY <2>7, <2>9 DEF Sound, Interfaces, IntfStates
    <2>11. Sound(j, t)
      BY <2>6, <2>9, <2>10 DEF Sound
    <2>12. Leads(i, j, t)
      BY <2>8, <2>9, <2>10, <2>11 DEF Leads
    <2> QED BY <2>1, <2>9, <2>10, <2>12
  <1> QED BY <1>1, <1>2

LEMMA NeighborChangeLeads ==
  ASSUME NEW i, NEW t \in [Nbr -> Neighbors], NEW pri \in Garbage, Sound(i, t),
         i.fault = "no"
  PROVE  /\ Leads(i, NeighborChange(i, t, pri), t)
         /\ i.state = "WAITING" => NeighborChange(i, t, pri).fault # "no"
  <1>1. "neighbor_change" \in Faults \ {"no"}
    BY DEF Faults
  <1>2. [i EXCEPT !.fault = "neighbor_change"].fault # "no"
    BY DEF Sound, Interfaces
  <1> QED BY <1>1, <1>2, Faulty, ElectLeads DEF NeighborChange

-----------------------------------------------------------------------------
(* The two halves of process_hello.                                        *)

\* What a half leaves WAITING has no claim to answer.
NoLoneDR(i, n, t) ==
    i.state = "WAITING" /\ i.fault = "no"
    => ~(ClaimsDR(t[n], n) /\ t[n].backup_designated_router = NoRouter)

LEMMA AfterDRLeads ==
  ASSUME NEW i, NEW n \in Nbr, NEW t \in [Nbr -> Neighbors], NEW pri \in Garbage,
         Sound(i, t), i.fault = "no"
  PROVE  Leads(i, AfterDR(i, n, t, pri), t) /\ NoLoneDR(AfterDR(i, n, t, pri), n, t)
  <1>1. CASE /\ i.state = "WAITING"
             /\ ClaimsDR(t[n], n) /\ t[n].backup_designated_router = NoRouter
    <2>1. AfterDR(i, n, t, pri) = Elect(i, t, pri)
      BY <1>1 DEF AfterDR, BackupSeen
    <2> QED BY <2>1, ElectLeads DEF NoLoneDR
  <1>2. CASE ~(/\ i.state = "WAITING"
               /\ ClaimsDR(t[n], n) /\ t[n].backup_designated_router = NoRouter)
    <2>1. \/ AfterDR(i, n, t, pri) = NeighborChange(i, t, pri)
          \/ AfterDR(i, n, t, pri) = i
      BY <1>2 DEF AfterDR
    <2>2. NoLoneDR(i, n, t)
      BY <1>2 DEF NoLoneDR
    <2>3. NoLoneDR(NeighborChange(i, t, pri), n, t)
      BY NeighborChangeLeads DEF NoLoneDR, Leads
    <2> QED BY <2>1, <2>2, <2>3, NeighborChangeLeads, Stays
  <1> QED BY <1>1, <1>2

LEMMA AfterBackupLeads ==
  ASSUME NEW i, NEW n \in Nbr, NEW t \in [Nbr -> Neighbors], NEW pri \in Garbage,
         Sound(i, t)
  PROVE  /\ Leads(i, AfterBackup(i, n, t, pri), t)
         /\ LET j == AfterBackup(i, n, t, pri)
            IN  j.state = "WAITING" /\ j.fault = "no" => ~ClaimsBackup(t[n], n)
  <1>1. CASE i.fault # "no"
    BY <1>1, Stays DEF AfterBackup
  <1>2. CASE i.fault = "no" /\ i.state = "WAITING" /\ ClaimsBackup(t[n], n)
    <2>1. AfterBackup(i, n, t, pri) = Elect(i, t, pri)
      BY <1>2 DEF AfterBackup, BackupSeen
    <2> QED BY <1>2, <2>1, ElectLeads
  <1>3. CASE i.fault = "no" /\ ~(i.state = "WAITING" /\ ClaimsBackup(t[n], n))
    <2>1. \/ AfterBackup(i, n, t, pri) = NeighborChange(i, t, pri)
          \/ AfterBackup(i, n, t, pri) = i
      BY <1>3 DEF AfterBackup
    <2>2. CASE AfterBackup(i, n, t, pri) = NeighborChange(i, t, pri)
      BY <1>3, <2>2, NeighborChangeLeads DEF Leads
    <2>3. CASE AfterBackup(i, n, t, pri) = i
      BY <1>3, <2>3, Stays
    <2> QED BY <2>1, <2>2, <2>3
  <1> QED BY <1>1, <1>2, <1>3

-----------------------------------------------------------------------------
(* The steps.                                                              *)

IntfInv == nbr \in [Nbr -> Neighbors] /\ Sound(intf, nbr) /\ NoBackupMissed

\* A Hello makes a known neighbour of a known neighbour.
LEMMA HeardTyped ==
  ASSUME nbr \in [Nbr -> Neighbors], NEW n \in Nbr, NEW h \in Hellos[n]
  PROVE  /\ Heard(n, h) \in [Nbr -> Neighbors]
         /\ Heard(n, h)[n].state # "NONE" /\ Heard(n, h)[n].seen = h.seen
         /\ \A m \in Nbr \ {n} : Heard(n, h)[m] = nbr[m]
  <1>1. h \in HelloPackets
    BY RoutersAssumption
  <1> DEFINE r == [state |-> IF h.seen THEN "TWOWAY" ELSE "INIT",
                   designated_router |-> h.dr,
                   backup_designated_router |-> h.bdr,
                   priority |-> h.pri, seen |-> h.seen]
  <1>2. r \in Neighbors
    BY <1>1 DEF HelloPackets, Neighbors
  <1>3. r.state # "NONE" /\ r.seen = h.seen
    OBVIOUS
  <1>4. Heard(n, h) = [nbr EXCEPT ![n] = r]
    BY DEF Heard
  <1> HIDE DEF r
  <1> QED BY <1>2, <1>3, <1>4

\* Neighbours only become better known.
LEMMA SoundKept ==
  ASSUME NEW i, NEW t, NEW u, Sound(i, t),
         \A m \in Nbr : t[m].state # "NONE" => u[m].state # "NONE"
  PROVE  Sound(i, u)
  BY DEF Sound

\* The claims of the others stay answered.
LEMMA MissedNone ==
  ASSUME NoBackupMissed, NEW n \in Nbr,
         \A m \in Nbr \ {n} : nbr'[m] = nbr[m],
         intf'.state = "WAITING" => intf.state = "WAITING",
         intf'.fault = "no" => intf.fault = "no",
         intf'.state = "WAITING" /\ intf'.fault = "no" /\ nbr'[n].seen =>
            /\ ~ClaimsBackup(nbr'[n], n)
            /\ ~(ClaimsDR(nbr'[n], n) /\ nbr'[n].backup_designated_router = NoRouter)
  PROVE  NoBackupMissed'
  BY DEF NoBackupMissed, Running, ClaimsBackup, ClaimsDR

LEMMA OneWayInv ==
  ASSUME IntfInv, NEW n \in Nbr, NEW h \in Hellos[n], ReceiveOneWay(n, h)
  PROVE  IntfInv' /\ Leads(intf, intf', nbr')
  <1>1. nbr' = Heard(n, h) /\ intf' = intf /\ ~h.seen
    BY DEF ReceiveOneWay
  <1>2. /\ nbr' \in [Nbr -> Neighbors] /\ nbr'[n].state # "NONE" /\ ~nbr'[n].seen
        /\ \A m \in Nbr \ {n} : nbr'[m] = nbr[m]
    BY <1>1, HeardTyped DEF IntfInv
  <1>3. \A m \in Nbr : nbr[m].state # "NONE" => nbr'[m].state # "NONE"
    BY <1>2
  <1>4. Sound(intf', nbr')
    BY <1>1, <1>3, SoundKept DEF IntfInv
  <1>5. NoBackupMissed'
    BY <1>1, <1>2, MissedNone DEF IntfInv
  <1>6. Leads(intf, intf', nbr')
    BY <1>1, <1>4, Stays
  <1> QED BY <1>2, <1>4, <1>5, <1>6 DEF IntfInv, Sound

LEMMA TwoWayInv ==
  ASSUME IntfInv, NEW n \in Nbr, NEW h \in Hellos[n], ReceiveTwoWay(n, h)
  PROVE  IntfInv' /\ Leads(intf, intf', nbr')
  <1>1. nbr' = Heard(n, h) /\ intf.fault = "no"
    BY DEF ReceiveTwoWay, Running
  <1>2. PICK pri1 \in Garbage, pri2 \in Garbage :
          intf' = AfterBackup(AfterDR(intf, n, nbr', pri1), n, nbr', pri2)
    BY DEF ReceiveTwoWay
  <1>3. /\ nbr' \in [Nbr -> Neighbors] /\ nbr'[n].state # "NONE"
        /\ \A m \in Nbr \ {n} : nbr'[m] = nbr[m]
    BY <1>1, HeardTyped DEF IntfInv
  <1>4. \A m \in Nbr : nbr[m].state # "NONE" => nbr'[m].state # "NONE"
    BY <1>3
  <1>5. Sound(intf, nbr')
    BY <1>4, SoundKept DEF IntfInv
  <1> DEFINE mid == AfterDR(intf, n, nbr', pri1)
  <1>6. Leads(intf, mid, nbr') /\ NoLoneDR(mid, n, nbr')
    BY <1>1, <1>3, <1>5, AfterDRLeads
  <1>7. Sound(mid, nbr')
    BY <1>6 DEF Leads
  <1> HIDE DEF mid
  <1>8. /\ Leads(mid, intf', nbr')
        /\ intf'.state = "WAITING" /\ intf'.fault = "no" => ~ClaimsBackup(nbr'[n], n)
    BY <1>2, <1>3, <1>7, AfterBackupLeads DEF mid
  <1>9. Leads(intf, intf', nbr')
    BY <1>6, <1>8, LeadsOn
  <1>10. intf'.state = "WAITING" /\ intf'.fault = "no" =>
            ~(ClaimsDR(nbr'[n], n) /\ nbr'[n].backup_designated_router = NoRouter)
    BY <1>6, <1>8 DEF NoLoneDR, Leads
  <1>11. NoBackupMissed'
    BY <1>3, <1>8, <1>9, <1>10, MissedNone DEF IntfInv, Leads
  <1> QED BY <1>3, <1>9, <1>11 DEF IntfInv, Leads, Sound

LEMMA DDInv ==
  ASSUME IntfInv, NEW n \in Nbr, ReceiveDD(n)
  PROVE  IntfInv' /\ Leads(intf, intf', nbr')
  <1>1. /\ intf' = intf /\ nbr \in [Nbr -> Neighbors]
        /\ nbr' = [nbr EXCEPT ![n].state = "TWOWAY"]
    BY DEF ReceiveDD, IntfInv
  <1>2. /\ nbr' \in [Nbr -> Neighbors]
        /\ \A m \in Nbr \ {n} : nbr'[m] = nbr[m]
        /\ nbr'[n].state = "TWOWAY" /\ nbr'[n].seen = nbr[n].seen
        /\ nbr'[n].designated_router = nbr[n].designated_router
        /\ nbr'[n].backup_designated_router = nbr[n].backup_designated_router
    BY <1>1 DEF Neighbors
  <1>3. \A m \in Nbr : nbr[m].state # "NONE" => nbr'[m].state # "NONE"
    BY <1>2
  <1>4. Sound(intf', nbr')
    BY <1>1, <1>3, SoundKept DEF IntfInv
  <1>5. NoBackupMissed'
    BY <1>1, <1>2, MissedNone DEF IntfInv, NoBackupMissed, ClaimsDR, ClaimsBackup, Running
  <1>6. Leads(intf, intf', nbr')
    BY <1>1, <1>4, Stays
  <1> QED BY <1>2, <1>4, <1>5, <1>6 DEF IntfInv, Sound

LEMMA NextInv == IntfInv /\ [Next]_vars => IntfInv' /\ Leads(intf, intf', nbr')
  <1> SUFFICES ASSUME IntfInv, [Next]_vars
               PROVE  IntfInv' /\ Leads(intf, intf', nbr')
    OBVIOUS
  <1>1. CASE UNCHANGED vars
    <2>1. intf' = intf /\ nbr' = nbr
      BY <1>1 DEF vars
    <2> QED BY <2>1, Stays DEF IntfInv, NoBackupMissed, Sound, Running
  <1>2. ASSUME NEW n \in Nbr, ReceiveDD(n)
        PROVE  IntfInv' /\ Leads(intf, intf', nbr')
    BY <1>2, DDInv
  <1>3. ASSUME NEW n \in Nbr, NEW h \in Hellos[n],
               ReceiveOneWay(n, h) \/ ReceiveTwoWay(n, h)
        PROVE  IntfInv' /\ Leads(intf, intf', nbr')
    BY <1>3, OneWayInv, TwoWayInv
  <1> QED BY <1>1, <1>2, <1>3 DEF Next

LEMMA InitInv == Init => IntfInv
  <1> SUFFICES ASSUME Init PROVE IntfInv
    OBVIOUS
  <1>1. intf \in Interfaces /\ intf.designated_router = NoRouter /\ intf.state = "WAITING"
    BY DEF Init, Interfaces, IntfStates, Faults, Addresses
  <1>2. Me # NoRouter
    BY RoutersAssumption DEF Routers
  <1>3. nbr \in [Nbr -> Neighbors] /\ \A n \in Nbr : ~nbr[n].seen
    BY DEF Init
  <1> QED BY <1>1, <1>2, <1>3 DEF IntfInv, Sound, NoBackupMissed

LEMMA SpecInv == Spec => []IntfInv
  BY InitInv, NextInv, PTL DEF Spec

-----------------------------------------------------------------------------
(* The theorems.                                                           *)

\* Every field of the interface and of the neighbours keeps its type: the
\* election always finds a least candidate where it looks for one.
THEOREM TypeCorrect == Spec => []TypeOK
  <1>1. IntfInv => TypeOK
    BY DEF IntfInv, Sound, TypeOK
  <1> QED BY <1>1, SpecInv, PTL

\* The Neighbor object make_router_lsa dereferences exists.
THEOREM DRHasNeighbor == Spec => []DRReachable
  <1>1. IntfInv => DRReachable
    BY DEF IntfInv, Sound, DRReachable
  <1> QED BY <1>1, SpecInv, PTL

\* The two else-ifs of process_hello answer every claim in WAITING.
THEOREM ClaimsAnswered == Spec => []NoBackupMissed
  <1>1. IntfInv => NoBackupMissed
    BY DEF IntfInv
  <1> QED BY <1>1, SpecInv, PTL

\* No Hello makes us DR over the claim of an eligible neighbour.
THEOREM RoleNotSeized == Spec => NoSeizure
  <1>1. IntfInv /\ [Next]_vars =>
          [intf.state # "DR" /\ intf'.state = "DR" =>
              \A n \in Nbr : nbr'[n].state = "TWOWAY" /\ nbr'[n].priority # 0
                             => ~ClaimsDR(nbr'[n], n)]_vars
    BY NextInv DEF Leads, NoClaim
  <1> QED BY <1>1, SpecInv, PTL DEF Spec, NoSeizure

=============================================================================

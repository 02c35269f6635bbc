----------------------------- MODULE Interface -----------------------------
(* One broadcast interface: its state machine and the election of the      *)
(* designated router and its backup (interface.cpp), driven by             *)
(* process_hello (packet.cpp).  Only recv_loop runs this code, so a Hello  *)
(* is handled in one step.                                                 *)
(*                                                                         *)
(* A router is named by its address on the network; the other routers may  *)
(* send any Hello.  Of a neighbour's state only three levels matter here:  *)
(* NONE (no Neighbor object), INIT, and TWOWAY for TWOWAY and above; the   *)
(* exchange that follows is Exchange.tla.                                  *)
EXTENDS Integers, FiniteSets

CONSTANTS
    Me,           \* our address
    Nbr,          \* addresses of the neighbours
    NoRouter,     \* 0.0.0.0
    Id,           \* Id[r]: router ID of the router at r
    Priorities,   \* router priorities in Hellos
    Garbage,      \* what an uninitialized priority may hold
    Hellos        \* Hellos[n]: the Hellos n may send

Routers == {Me} \cup Nbr
Addresses == Routers \cup {NoRouter}

HelloPackets == [dr : Addresses, bdr : Addresses, pri : Priorities, seen : BOOLEAN]

ASSUME RoutersAssumption ==
    /\ Me \notin Nbr /\ NoRouter \notin Routers
    /\ Id \in [Routers -> Nat]
    /\ \A r, s \in Routers : Id[r] = Id[s] => r = s
    /\ Priorities \subseteq Nat /\ Garbage \subseteq Nat
    /\ Hellos \in [Nbr -> SUBSET HelloPackets]

VARIABLES
    intf,   \* the Interface: state, DR, BDR, and the fault that ended it
    nbr     \* nbr[n]: the Neighbor object of n

vars == <<intf, nbr>>

-----------------------------------------------------------------------------
(* State.                                                                  *)

IntfStates == {"WAITING", "DROTHER", "BACKUP", "DR"}
Faults == {"no", "neighbor_change", "no_backup"}

Interfaces ==
    [state : IntfStates, designated_router : Addresses,
     backup_designated_router : Addresses, fault : Faults]

\* seen is history: whether the last Hello listed us.
Neighbors ==
    [state : {"NONE", "INIT", "TWOWAY"}, designated_router : Addresses,
     backup_designated_router : Addresses, priority : Priorities,
     seen : BOOLEAN]

-----------------------------------------------------------------------------
(* elect_designated_router.                                                *)

\* A candidate, as neighbor_cmp and the election see it.  self is one with
\* the interface's DR and BDR and a priority nobody initialized.
Candidate(r, dr, bdr, pri) == [addr |-> r, dr |-> dr, bdr |-> bdr, pri |-> pri]
Candidates(i, t, pri) ==
    {Candidate(Me, i.designated_router, i.backup_designated_router, pri)} \cup
    {Candidate(n, t[n].designated_router, t[n].backup_designated_router,
               t[n].priority) :
        n \in {m \in Nbr : t[m].state = "TWOWAY" /\ t[m].priority # 0}}

\* max_element takes its comparison for "less", and neighbor_cmp is
\* "greater": what it returns is the least.
Below(c, d) ==
    \/ c.pri < d.pri
    \/ c.pri = d.pri /\ Id[c.addr] < Id[d.addr]
Elected(cands) == CHOOSE c \in cands : \A d \in cands : ~Below(d, c)

ClaimDR(cands) == {c \in cands : c.dr = c.addr}
BackupLevel2(cands) == cands \ ClaimDR(cands)
BackupLevel1(cands) == {c \in BackupLevel2(cands) : c.bdr = c.addr}

\* Mutant: router IDs for addresses.
NewBackupId(cands) ==
    Id[Elected(IF BackupLevel1(cands) # {} THEN BackupLevel1(cands)
                                           ELSE BackupLevel2(cands)).addr]
NewBackup(cands) ==
    Elected(IF BackupLevel1(cands) # {} THEN BackupLevel1(cands)
                                        ELSE BackupLevel2(cands)).addr

\* Mutants: whoever is least becomes DR, claim or no claim; its own view of
\* the DR is taken over.
NewDRUnclaimed(cands) == Elected(cands).addr
NewDRDeclared(cands) == Elected(cands).dr
NewDR(cands) ==
    IF ClaimDR(cands) # {} THEN Elected(ClaimDR(cands)).addr
                           ELSE NewBackup(cands)

StateFor(dr, bdr) ==
    IF Me = dr THEN "DR" ELSE IF Me = bdr THEN "BACKUP" ELSE "DROTHER"

\* With nobody left for BDR its null pointer is read.  A change of DR or BDR
\* calls event_adj_ok on the neighbours, which leaves them TWOWAY or above.
\* The branch that makes a Network-LSA cannot be taken: its condition asks
\* for two values of one variable.
Elect(i, t, pri) ==
    LET cands == Candidates(i, t, pri)
        dr    == NewDR(cands)
        bdr   == NewBackup(cands)
    IN  IF BackupLevel2(cands) = {} THEN [i EXCEPT !.fault = "no_backup"]
        ELSE [i EXCEPT !.designated_router = dr,
                       !.backup_designated_router = bdr,
                       !.state = StateFor(dr, bdr)]

-----------------------------------------------------------------------------
(* The interface events, and process_hello.                                *)

\* Only called in WAITING, as its assertion demands.
BackupSeen(i, t, pri) == Elect(i, t, pri)

NeighborChange(i, t, pri) ==
    IF i.state = "WAITING" THEN [i EXCEPT !.fault = "neighbor_change"]
                           ELSE Elect(i, t, pri)

\* old and new: the neighbour before and after this Hello.  A claim has
\* changed if exactly one of the two makes it.
ClaimsDR(r, n) == r.designated_router = n
ClaimsBackup(r, n) == r.backup_designated_router = n

AfterDR(i, n, t, pri) ==
    IF /\ i.state = "WAITING"
       /\ ClaimsDR(t[n], n) /\ t[n].backup_designated_router = NoRouter
    THEN BackupSeen(i, t, pri)
    ELSE IF ClaimsDR(nbr[n], n) # ClaimsDR(t[n], n)
    THEN NeighborChange(i, t, pri)
    ELSE i

\* Mutant: a backup is seen only through a change.
AfterBackupChange(i, n, t, pri) ==
    IF /\ i.fault = "no" /\ i.state # "WAITING"
       /\ ClaimsBackup(nbr[n], n) # ClaimsBackup(t[n], n)
    THEN NeighborChange(i, t, pri)
    ELSE i
AfterBackup(i, n, t, pri) ==
    IF i.fault # "no" THEN i
    ELSE IF i.state = "WAITING" /\ ClaimsBackup(t[n], n)
    THEN BackupSeen(i, t, pri)
    ELSE IF ClaimsBackup(nbr[n], n) # ClaimsBackup(t[n], n)
    THEN NeighborChange(i, t, pri)
    ELSE i

\* Init is what init_interfaces leaves; a Neighbor object starts with any
\* DR and BDR.
Init ==
    /\ intf = [state |-> "WAITING", designated_router |-> NoRouter,
               backup_designated_router |-> NoRouter, fault |-> "no"]
    /\ nbr \in [Nbr -> {r \in Neighbors : r.state = "NONE" /\ ~r.seen}]

Running == intf.fault = "no"

\* The Neighbor object after its fields are set and event_hello_received,
\* event_2way_received or event_1way_received has run.
Heard(n, h) ==
    [nbr EXCEPT ![n] = [state |-> IF h.seen THEN "TWOWAY" ELSE "INIT",
                        designated_router |-> h.dr,
                        backup_designated_router |-> h.bdr,
                        priority |-> h.pri, seen |-> h.seen]]

ReceiveOneWay(n, h) ==
    /\ Running
    /\ ~h.seen
    /\ nbr' = Heard(n, h)
    /\ UNCHANGED intf

ReceiveTwoWay(n, h) ==
    /\ Running
    /\ h.seen
    /\ nbr' = Heard(n, h)
    /\ \E pri1, pri2 \in Garbage :
          intf' = AfterBackup(AfterDR(intf, n, nbr', pri1), n, nbr', pri2)

\* process_dd calls event_2way_received for a neighbour in INIT.
ReceiveDD(n) ==
    /\ Running
    /\ nbr[n].state = "INIT"
    /\ nbr' = [nbr EXCEPT ![n].state = "TWOWAY"]
    /\ UNCHANGED intf

Next ==
    \E n \in Nbr :
        \/ \E h \in Hellos[n] : ReceiveOneWay(n, h) \/ ReceiveTwoWay(n, h)
        \/ ReceiveDD(n)

Spec == Init /\ [][Next]_vars

-----------------------------------------------------------------------------
(* Properties.                                                             *)

TypeOK ==
    /\ intf \in Interfaces
    /\ nbr \in [Nbr -> Neighbors]

\* make_router_lsa reads the state of the DR's Neighbor object unless it is
\* WAITING or the DR: the object is there, although a DR may have been
\* elected on Hellos that have long been overruled.
DRReachable ==
    intf.state \in {"DROTHER", "BACKUP"} =>
        /\ intf.designated_router \in Nbr
        /\ nbr[intf.designated_router].state # "NONE"

\* The two else-ifs of process_hello leave no claim unanswered: in WAITING
\* no neighbour whose last Hello listed us claims to be BDR, or DR without a
\* BDR.
NoBackupMissed ==
    intf.state = "WAITING" /\ Running =>
        \A n \in Nbr :
            nbr[n].seen =>
                /\ ~ClaimsBackup(nbr[n], n)
                /\ ~(ClaimsDR(nbr[n], n) /\ nbr[n].backup_designated_router = NoRouter)

\* We do not become DR while an eligible neighbour claims to be, even by two
\* elections in one Hello.
NoSeizure ==
    [][intf.state # "DR" /\ intf'.state = "DR" =>
          \A n \in Nbr : nbr'[n].state = "TWOWAY" /\ nbr'[n].priority # 0
                         => ~ClaimsDR(nbr'[n], n)]_vars

=============================================================================

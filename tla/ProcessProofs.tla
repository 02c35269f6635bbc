--------------------------- MODULE ProcessProofs ---------------------------
(***************************************************************************)
(* Theorems about Process, for any number of interfaces: descriptors do    *)
(* not run out, and the sockets of the interfaces that were set up are kept*)
(* although those that fail close descriptor 0.                            *)
(*                                                                         *)
(* SocketsKept is not inductive: that a socket survives the next failure   *)
(* needs that it is not descriptor 0, and that needs that nothing has      *)
(* closed 0 before it was opened.  Room bounds what is open by the number  *)
(* of interfaces dealt with, so that there is always a lowest free one.    *)
(***************************************************************************)
EXTENDS Process, SequenceTheorems, WellFoundedInduction, TLAPS

\* Until when sockets are opened.
Starting == main \in {"start", "init"}

\* The last descriptor is never needed.
Top == 5 + 2 * Intfs

\* Where main, the detached thread and the daemon can be together.
Phases ==
    /\ main = "start" => next = 1 /\ intfs = <<>> /\ failed = {}
    /\ thread # "none" => ~Starting
    /\ child # "none" => thread = "forked"

\* Interfaces come in their order; main is past those it has dealt with.
Counted ==
    /\ Len(intfs) <= Intfs
    /\ main = "restoring" => next <= Len(intfs)
    /\ Starting => /\ Len(intfs) < next
                   /\ \A k \in 1 .. Len(intfs) : intfs[k].intf < next
                   /\ \A i \in failed : i < next

\* Descriptors that are free for sure.
Room ==
    /\ main = "start" => \A n \in Descriptors : n > 3 => fds.process[n] = Free
    /\ main = "init" => \A n \in Descriptors : n >= 3 + 2 * next => fds.process[n] = Free
    /\ main \in {"commands", "join", "restore"} => fds.process[control] = Free
    /\ fds.process[Top] = Free

\* Descriptors that are taken for sure: 0 until an interface fails.
Fixed ==
    /\ fds.process[1] = Output /\ fds.process[2] = Output
    /\ control <= 4 /\ (main = "init" => control # 0)
    /\ main \in {"init", "restoring"} => fds.process[control] = Control
    /\ main = "start" => (fds.process[3] = Free \/ console)
    /\ failed = {} => fds.process[0] = IF console THEN Stdin ELSE Route
    /\ console => fds.process[3] = Route

\* The interfaces' sockets; only one that opens after a failure may be 0.
Kept ==
    \A k \in 1 .. Len(intfs) :
        /\ intfs[k].recv # 0
        /\ Zero(k) => FailedBefore(k)
        /\ (Zero(k) /\ FailedAfter(k)) \/ HasSockets(fds.process, k)

\* What the daemon has.
Inherited ==
    /\ child = "detaching" => /\ fds.daemon[1] = Output /\ fds.daemon[2] = Output
                              /\ fds.daemon[Top] = Free
    /\ child \in {"detaching", "commands"} =>
          /\ \A k \in 1 .. Len(intfs) : Zero(k) \/ HasSockets(fds.daemon, k)
          /\ console => fds.daemon[3] = Route

\* The inductive invariant.
Inv == TypeOK /\ Phases /\ Counted /\ Room /\ Fixed /\ Kept /\ Inherited

-----------------------------------------------------------------------------
(* Descriptors.                                                            *)

Tables == [Descriptors -> Files]

LEMMA KindsDistinct ==
  /\ Free # Stdin /\ Free # Output /\ Free # Route /\ Free # Control /\ Free # Log
  /\ Control # Route /\ Control # Output /\ Control # Stdin
  /\ \A i : /\ SendSocket(i) # Free /\ RecvSocket(i) # Free
            /\ SendSocket(i) # Output /\ RecvSocket(i) # Output
            /\ SendSocket(i) # Route /\ RecvSocket(i) # Route
            /\ SendSocket(i) # Control /\ RecvSocket(i) # Control
            /\ SendSocket(i) # RecvSocket(i)
  BY DEF Free, Stdin, Output, Route, Control, Log, SendSocket, RecvSocket

LEMMA FilesMembers ==
  /\ Free \in Files /\ Stdin \in Files /\ Output \in Files /\ Route \in Files
  /\ Control \in Files /\ Log \in Files
  /\ \A i \in 1 .. Intfs : SendSocket(i) \in Files /\ RecvSocket(i) \in Files
  BY DEF Files

LEMMA DescriptorsNat ==
  /\ Intfs \in Nat /\ Descriptors \subseteq Nat /\ Descriptors \subseteq Int
  /\ {0, 1, 2, 3, 4} \subseteq Descriptors
  /\ \A n \in Int : n \in Descriptors <=> (0 <= n /\ n <= 5 + 2 * Intfs)
  /\ Top \in Descriptors /\ Top = 5 + 2 * Intfs /\ Top >= 5
  BY ProcessAssumption DEF Descriptors, Top

LEMMA LeastElement ==
  ASSUME NEW T, T \subseteq Nat, T # {}
  PROVE  \E x \in T : \A y \in T : x <= y
  <1> DEFINE R == OpToRel(<, Nat)
  <1>1. IsWellFoundedOn(R, Nat)
    BY NatLessThanWellFounded
  <1>2. \A x, y \in Nat : y < x => <<y, x>> \in R
    BY DEF OpToRel
  <1> HIDE DEF R
  <1>3. PICK x \in T : \A y \in T : ~(<<y, x>> \in R)
    BY <1>1, WFMin
  <1>4. \A y \in T : ~(y < x)
    BY <1>2, <1>3
  <1>5. \A y \in T : x \in Nat /\ y \in Nat
    OBVIOUS
  <1>6. \A y \in T : x <= y
    BY <1>4, <1>5
  <1> QED BY <1>6

\* A new descriptor is free, and the lowest that is; it takes nobody's place.
LEMMA OpenedFacts ==
  ASSUME NEW f \in Tables, NEW what \in Files, NEW n \in Descriptors, f[n] = Free
  PROVE  /\ Lowest(f) \in Descriptors /\ f[Lowest(f)] = Free /\ Lowest(f) <= n
         /\ \A m \in Descriptors : f[m] = Free => Lowest(f) <= m
         /\ Opened(f, what) \in Tables /\ Opened(f, what)[Lowest(f)] = what
         /\ \A m \in Descriptors : m # Lowest(f) => Opened(f, what)[m] = f[m]
         /\ \A m \in Descriptors : f[m] # Free => Opened(f, what)[m] = f[m]
  <1> DEFINE T == {m \in Descriptors : f[m] = Free}
  <1>1. T \subseteq Nat /\ T # {}
    BY DescriptorsNat
  <1>2. \E x \in T : \A y \in T : x <= y
    BY <1>1, LeastElement
  <1>3. Lowest(f) \in T /\ \A y \in T : Lowest(f) <= y
    BY <1>2 DEF Lowest, Min
  <1> QED BY <1>3 DEF Opened, Tables

LEMMA ClosedFacts ==
  ASSUME NEW f \in Tables, NEW n \in Descriptors
  PROVE  /\ Closed(f, n) \in Tables /\ Closed(f, n)[n] = Free
         /\ \A m \in Descriptors : m # n => Closed(f, n)[m] = f[m]
         /\ \A m \in Descriptors : f[m] = Free => Closed(f, n)[m] = Free
  BY FilesMembers DEF Closed, Tables

LEMMA ProcessTable ==
  ASSUME TypeOK, NEW g \in Tables, fds' = [fds EXCEPT !.process = g]
  PROVE  /\ fds'.process = g /\ fds'.daemon = fds.daemon
         /\ fds' \in [process : Tables, daemon : Tables]
  BY DEF TypeOK, Tables

LEMMA TablesType ==
  ASSUME TypeOK
  PROVE  /\ fds \in [process : Tables, daemon : Tables]
         /\ fds.process \in Tables /\ fds.daemon \in Tables
  BY DEF TypeOK, Tables

-----------------------------------------------------------------------------
(* The start.                                                              *)

Entry == [intf : 1 .. Intfs, send : Descriptors, recv : Descriptors]

LEMMA InvInit == Init => Inv
  <1> SUFFICES ASSUME Init PROVE Inv
    OBVIOUS
  <1> DEFINE f == [n \in Descriptors |-> IF n = 0 /\ console THEN Stdin
                             ELSE IF n \in {1, 2} THEN Output ELSE Free]
             g == Opened(f, Route)
             none == [n \in Descriptors |-> Free]
             open == IF console THEN 3 ELSE 0
  <1>1. /\ fds = [process |-> g, daemon |-> none]
        /\ console \in BOOLEAN /\ daemon \in BOOLEAN /\ typed = FALSE
        /\ main = "start" /\ next = 1 /\ control = 0 /\ intfs = <<>> /\ failed = {}
        /\ thread = "none" /\ child = "none"
    BY DEF Init, Before
  <1>2. f \in Tables /\ none \in Tables
    BY FilesMembers DEF Tables
  <1>3. /\ f[1] = Output /\ f[2] = Output /\ f[open] = Free /\ open \in Descriptors
        /\ \A n \in Descriptors : n > 2 => f[n] = Free
        /\ \A n \in Descriptors : n < open => f[n] # Free
        /\ console => f[0] = Stdin
    BY DescriptorsNat, KindsDistinct
  <1> HIDE DEF f, none
  <1>4. Lowest(f) = open
    <2>1. Lowest(f) \in Descriptors /\ f[Lowest(f)] = Free /\ Lowest(f) <= open
      BY <1>2, <1>3, FilesMembers, OpenedFacts
    <2>2. ~(Lowest(f) < open)
      BY <2>1, <1>3
    <2>3. Lowest(f) \in Nat /\ open \in Nat
      BY <2>1, <1>3, DescriptorsNat
    <2> QED BY <2>1, <2>2, <2>3
  <1>5. /\ g \in Tables /\ g[open] = Route
        /\ \A m \in Descriptors : m # open => g[m] = f[m]
    BY <1>2, <1>3, <1>4, FilesMembers, OpenedFacts
  <1>6. /\ g[1] = Output /\ g[2] = Output
        /\ \A n \in Descriptors : n > 3 => g[n] = Free
        /\ g[3] = Free \/ console
        /\ console => g[3] = Route
        /\ g[0] = IF console THEN Stdin ELSE Route
    BY <1>3, <1>5, DescriptorsNat, KindsDistinct
  <1> HIDE DEF g, open
  <1>7. fds.process = g /\ fds \in [process : Tables, daemon : Tables]
    BY <1>1, <1>2, <1>5
  <1>8. TypeOK
    <2>1. /\ next \in 1 .. Intfs + 1 /\ control \in Descriptors
          /\ intfs \in Seq(Entry)
      BY <1>1, DescriptorsNat
    <2>2. /\ failed \subseteq 1 .. Intfs /\ typed \in BOOLEAN
          /\ main \in {"start", "init", "commands", "join", "restore", "restoring", "ended"}
          /\ thread \in {"none", "forking", "forked"}
          /\ child \in {"none", "detaching", "commands", "ended"}
      BY <1>1
    <2> QED BY <1>1, <1>7, <2>1, <2>2 DEF TypeOK, Tables, Entry
  <1>9. Len(intfs) = 0
    BY <1>1
  <1>10. Phases /\ Counted /\ Room
    BY <1>1, <1>6, <1>7, <1>9, DescriptorsNat DEF Phases, Counted, Room, Starting
  <1>11. Fixed
    BY <1>1, <1>6, <1>7 DEF Fixed
  <1>12. Kept /\ Inherited
    BY <1>1, <1>9 DEF Kept, Inherited
  <1> QED BY <1>8, <1>10, <1>11, <1>12 DEF Inv

-----------------------------------------------------------------------------
(* The interfaces.                                                         *)

LEMMA ListedFacts ==
  ASSUME Inv, Listed
  PROVE  /\ main = "init" /\ next \in 1 .. Intfs /\ thread = "none" /\ child = "none"
         /\ Len(intfs) \in Nat /\ intfs \in Seq(Entry)
         /\ Len(intfs) < next
         /\ \A k \in 1 .. Len(intfs) : intfs[k] \in Entry /\ intfs[k].intf < next
         /\ \A i \in failed : i < next
         /\ 3 + 2 * next \in Descriptors /\ 4 + 2 * next \in Descriptors
         /\ \A n \in Descriptors : n >= 3 + 2 * next => fds.process[n] = Free
  <1>1. main = "init" /\ next \in 1 .. Intfs
    BY DEF Inv, TypeOK, Listed
  <1>2. thread = "none" /\ child = "none"
    BY <1>1 DEF Inv, TypeOK, Phases, Starting
  <1>3. Len(intfs) \in Nat /\ intfs \in Seq(Entry)
    BY DEF Inv, TypeOK, Entry
  <1>4. \A k \in 1 .. Len(intfs) : intfs[k] \in Entry
    BY <1>3
  <1>5. /\ Len(intfs) < next
        /\ \A k \in 1 .. Len(intfs) : intfs[k].intf < next
        /\ \A i \in failed : i < next
    BY <1>1 DEF Inv, Counted, Starting
  <1>6. 3 + 2 * next \in Descriptors /\ 4 + 2 * next \in Descriptors
    BY <1>1, DescriptorsNat
  <1>7. \A n \in Descriptors : n >= 3 + 2 * next => fds.process[n] = Free
    BY <1>1 DEF Inv, Room
  <1> QED BY <1>1, <1>2, <1>3, <1>4, <1>5, <1>6, <1>7

\* An entry whose sockets have just been opened in g.
Entered(r, g) ==
    /\ r.intf = next /\ r.recv # 0 /\ (r.send # 0 \/ failed # {})
    /\ g[r.send] = SendSocket(next) /\ g[r.recv] = RecvSocket(next)

\* One interface dealt with: nothing is closed that was open before, but
\* descriptor 0 by a failure.
LEMMA DealtWith ==
  ASSUME Inv, Listed, NEW g \in Tables,
         fds' = [fds EXCEPT !.process = g],
         \A n \in Descriptors : n # 0 /\ fds.process[n] # Free => g[n] = fds.process[n],
         fds.process[0] # Free => g[0] = fds.process[0] \/ next \in failed',
         \A n \in Descriptors : n >= 3 + 2 * (next + 1) => g[n] = Free,
         failed \subseteq failed', failed' \subseteq failed \cup {next},
         next' = next + 1,
         UNCHANGED <<daemon, console, main, thread, child, control, typed>>,
         \/ intfs' = intfs
         \/ \E r \in Entry : intfs' = Append(intfs, r) /\ Entered(r, g)
  PROVE  Inv'
  <1>1. /\ main = "init" /\ next \in 1 .. Intfs /\ thread = "none" /\ child = "none"
        /\ Len(intfs) \in Nat /\ intfs \in Seq(Entry)
        /\ Len(intfs) < next
        /\ \A k \in 1 .. Len(intfs) : intfs[k] \in Entry /\ intfs[k].intf < next
        /\ \A i \in failed : i < next
    BY ListedFacts
  <1>2. /\ fds'.process = g /\ fds'.daemon = fds.daemon
        /\ fds' \in [process : Tables, daemon : Tables]
    BY ProcessTable DEF Inv
  <1>3. /\ intfs' \in Seq(Entry) /\ Len(intfs') \in Nat
        /\ Len(intfs) <= Len(intfs') /\ Len(intfs') <= Len(intfs) + 1
        /\ \A k \in 1 .. Len(intfs) : intfs'[k] = intfs[k]
        /\ \A k \in 1 .. Len(intfs') :
              k > Len(intfs) => Entered(intfs'[k], g)
    <2>1. CASE intfs' = intfs
      BY <1>1, <2>1
    <2>2. CASE \E r \in Entry : intfs' = Append(intfs, r) /\ Entered(r, g)
      <3>1. PICK r \in Entry : intfs' = Append(intfs, r) /\ Entered(r, g)
        BY <2>2
      <3> QED BY <1>1, <3>1
    <2> QED BY <2>1, <2>2
  <1>4. Intfs \in Nat /\ next + 1 \in 1 .. Intfs + 1
    BY <1>1, ProcessAssumption
  <1>5. TypeOK'
    <2>1. failed' \subseteq 1 .. Intfs
      BY <1>1 DEF Inv, TypeOK
    <2> QED BY <1>2, <1>3, <1>4, <2>1 DEF Inv, TypeOK, Tables, Entry
  <1>6. Phases'
    BY <1>1 DEF Phases, Starting
  <1>7. Counted'
    <2>1. Len(intfs') <= Intfs /\ Len(intfs') < next'
      BY <1>1, <1>3, <1>4
    <2>2. ASSUME NEW k \in 1 .. Len(intfs')
          PROVE  intfs'[k].intf < next'
      <3>1. CASE k > Len(intfs)
        BY <1>1, <1>3, <3>1 DEF Entered
      <3>2. CASE k <= Len(intfs)
        <4>1. k \in 1 .. Len(intfs) /\ intfs'[k] = intfs[k]
          BY <1>1, <1>3, <3>2
        <4>2. intfs[k].intf < next /\ intfs[k].intf \in 1 .. Intfs
          BY <1>1, <4>1 DEF Entry
        <4> QED BY <1>1, <4>1, <4>2
      <3> QED BY <1>1, <1>3, <3>1, <3>2
    <2>3. \A i \in failed' : i < next'
      BY <1>1 DEF Inv, TypeOK
    <2> QED BY <1>1, <2>1, <2>2, <2>3 DEF Counted
  <1>8. Room'
    <2>1. g[Top] = Free
      BY <1>1, <1>4, DescriptorsNat
    <2> QED BY <1>1, <1>2, <2>1 DEF Room
  <1>9. Fixed'
    <2> DEFINE zero == IF console THEN Stdin ELSE Route
    <2>1. /\ fds.process[1] = Output /\ fds.process[2] = Output
          /\ control <= 4 /\ control # 0 /\ fds.process[control] = Control
          /\ failed = {} => fds.process[0] = zero
          /\ console => fds.process[3] = Route
          /\ control \in Descriptors /\ zero # Free
      BY <1>1, KindsDistinct DEF Inv, Fixed, TypeOK
    <2> HIDE DEF zero
    <2>2. g[1] = Output /\ g[2] = Output /\ g[control] = Control
      BY <2>1, DescriptorsNat, KindsDistinct
    <2>3. console => g[3] = Route
      BY <2>1, DescriptorsNat, KindsDistinct
    <2>4. failed' = {} => failed = {} /\ next \notin failed'
      OBVIOUS
    <2>5. failed' = {} => g[0] = zero
      BY <2>1, <2>4
    <2> QED BY <1>1, <1>2, <2>1, <2>2, <2>3, <2>5 DEF Fixed, zero
  <1>10. Kept'
    <2>1. ASSUME NEW k \in 1 .. Len(intfs')
          PROVE  /\ intfs'[k].recv # 0
                 /\ Zero(k)' => FailedBefore(k)'
                 /\ (Zero(k)' /\ FailedAfter(k)') \/ HasSockets(g, k)'
      <3>1. CASE k > Len(intfs)
        <4>1. Entered(intfs'[k], g)
          BY <1>3, <3>1
        <4>2. failed # {} => FailedBefore(k)'
          BY <1>1, <4>1 DEF FailedBefore, Entered
        <4> QED BY <4>1, <4>2 DEF Entered, HasSockets, Zero
      <3>2. CASE k <= Len(intfs)
        <4>1. k \in 1 .. Len(intfs) /\ intfs'[k] = intfs[k]
          BY <1>1, <1>3, <3>2
        <4>2. /\ intfs[k].recv # 0
              /\ Zero(k) => FailedBefore(k)
              /\ (Zero(k) /\ FailedAfter(k)) \/ HasSockets(fds.process, k)
          BY <4>1 DEF Inv, Kept
        <4>3. Zero(k)' <=> Zero(k)
          BY <4>1 DEF Zero
        <4>4. (FailedBefore(k) => FailedBefore(k)') /\ (FailedAfter(k) => FailedAfter(k)')
          BY <4>1 DEF FailedBefore, FailedAfter
        <4>5. next \in failed' => FailedAfter(k)'
          BY <1>1, <4>1 DEF FailedAfter, Entry
        <4>6. intfs[k].recv \in Descriptors /\ intfs[k].send \in Descriptors
          BY <1>1, <4>1 DEF Entry
        <4>7. HasSockets(fds.process, k) =>
                 HasSockets(g, k)' \/ (Zero(k) /\ FailedAfter(k)')
          <5>1. SUFFICES ASSUME HasSockets(fds.process, k)
                         PROVE  HasSockets(g, k)' \/ (Zero(k) /\ FailedAfter(k)')
            OBVIOUS
          <5>2. /\ fds.process[intfs[k].send] = SendSocket(intfs[k].intf)
                /\ fds.process[intfs[k].recv] = RecvSocket(intfs[k].intf)
            BY <5>1 DEF HasSockets
          <5>3. g[intfs[k].recv] = RecvSocket(intfs[k].intf)
            BY <4>2, <4>6, <5>2, KindsDistinct
          <5>4. \/ g[intfs[k].send] = SendSocket(intfs[k].intf)
                \/ intfs[k].send = 0 /\ next \in failed'
            BY <4>6, <5>2, KindsDistinct
          <5> QED BY <4>1, <4>5, <5>3, <5>4 DEF HasSockets, Zero
        <4> QED BY <4>1, <4>2, <4>3, <4>4, <4>7
      <3> QED BY <1>1, <1>3, <3>1, <3>2
    <2>2. \A k : HasSockets(fds.process, k)' <=> HasSockets(g, k)'
      BY <1>2 DEF HasSockets
    <2> QED BY <2>1, <2>2 DEF Kept
  <1>11. Inherited'
    BY <1>1 DEF Inherited
  <1> QED BY <1>5, <1>6, <1>7, <1>8, <1>9, <1>10, <1>11 DEF Inv

LEMMA InvQueryFails ==
  ASSUME Inv, QueryFails
  PROVE  Inv'
  <1> DEFINE g == Closed(fds.process, 0)
  <1>1. /\ Listed /\ fds' = [fds EXCEPT !.process = g]
        /\ failed' = failed \cup {next} /\ next' = next + 1
        /\ UNCHANGED <<daemon, console, main, intfs, thread, child,
                       control, typed>>
    BY DEF QueryFails, Deleted
  <1>2. fds.process \in Tables /\ 0 \in Descriptors
    BY TablesType, DescriptorsNat DEF Inv
  <1>3. /\ g \in Tables
        /\ \A m \in Descriptors : m # 0 => g[m] = fds.process[m]
        /\ \A m \in Descriptors : fds.process[m] = Free => g[m] = Free
    BY <1>2, ClosedFacts
  <1>4. \A n \in Descriptors : n >= 3 + 2 * next => fds.process[n] = Free
    BY <1>1, ListedFacts
  <1>5. next \in Nat
    BY <1>1, ListedFacts
  <1> HIDE DEF g
  <1>6. \A n \in Descriptors : n >= 3 + 2 * (next + 1) => g[n] = Free
    BY <1>3, <1>4, <1>5, DescriptorsNat
  <1>7. next \in failed' /\ failed \subseteq failed' /\ failed' \subseteq failed \cup {next}
    BY <1>1
  <1> QED BY <1>1, <1>3, <1>6, <1>7, DealtWith

\* The first one or two descriptors that are free, when an interface is
\* dealt with.
LEMMA SendOpened ==
  ASSUME Inv, Listed
  PROVE  /\ fds.process \in Tables /\ WithSend \in Tables
         /\ Lowest(fds.process) \in Descriptors
         /\ fds.process[Lowest(fds.process)] = Free
         /\ fds.process[0] = Free => Lowest(fds.process) = 0
         /\ WithSend[Lowest(fds.process)] = SendSocket(next)
         /\ \A m \in Descriptors :
               m # Lowest(fds.process) => WithSend[m] = fds.process[m]
         /\ \A m \in Descriptors : m >= 4 + 2 * next => WithSend[m] = Free
         /\ SendSocket(next) \in Files /\ RecvSocket(next) \in Files
         /\ next \in 1 .. Intfs
  <1> DEFINE f == fds.process
  <1>1. f \in Tables /\ next \in 1 .. Intfs
    BY TablesType, ListedFacts DEF Inv
  <1>2. SendSocket(next) \in Files /\ RecvSocket(next) \in Files
    BY <1>1, FilesMembers
  <1>3. /\ 3 + 2 * next \in Descriptors /\ f[3 + 2 * next] = Free
        /\ \A n \in Descriptors : n >= 3 + 2 * next => f[n] = Free
    BY ListedFacts, DescriptorsNat
  <1>4. /\ Lowest(f) \in Descriptors /\ f[Lowest(f)] = Free
        /\ Lowest(f) <= 3 + 2 * next
        /\ \A m \in Descriptors : f[m] = Free => Lowest(f) <= m
        /\ WithSend \in Tables /\ WithSend[Lowest(f)] = SendSocket(next)
        /\ \A m \in Descriptors : m # Lowest(f) => WithSend[m] = f[m]
    BY <1>1, <1>2, <1>3, OpenedFacts DEF WithSend
  <1>5. f[0] = Free => Lowest(f) = 0
    <2>1. 0 \in Descriptors /\ Lowest(f) \in Nat
      BY <1>4, DescriptorsNat
    <2> QED BY <1>4, <2>1
  <1>6. ASSUME NEW m \in Descriptors, m >= 4 + 2 * next
        PROVE  WithSend[m] = Free
    <2>1. m # Lowest(f) /\ m >= 3 + 2 * next
      BY <1>1, <1>4, <1>6, DescriptorsNat
    <2> QED BY <2>1, <1>3, <1>4
  <1> QED BY <1>1, <1>2, <1>4, <1>5, <1>6

LEMMA RecvOpened ==
  ASSUME Inv, Listed
  PROVE  /\ Opened(WithSend, RecvSocket(next)) \in Tables
         /\ Lowest(WithSend) \in Descriptors /\ WithSend[Lowest(WithSend)] = Free
         /\ Lowest(WithSend) # 0 /\ Lowest(WithSend) # Lowest(fds.process)
         /\ Opened(WithSend, RecvSocket(next))[Lowest(WithSend)] = RecvSocket(next)
         /\ \A m \in Descriptors :
               m # Lowest(WithSend) => Opened(WithSend, RecvSocket(next))[m] = WithSend[m]
         /\ \A m \in Descriptors :
               m >= 3 + 2 * (next + 1) => Opened(WithSend, RecvSocket(next))[m] = Free
  <1> DEFINE f == fds.process
             h == Opened(WithSend, RecvSocket(next))
             l == Lowest(WithSend)
  <1>1. /\ f \in Tables /\ WithSend \in Tables
        /\ Lowest(f) \in Descriptors /\ f[Lowest(f)] = Free
        /\ f[0] = Free => Lowest(f) = 0
        /\ WithSend[Lowest(f)] = SendSocket(next)
        /\ \A m \in Descriptors : m # Lowest(f) => WithSend[m] = f[m]
        /\ \A m \in Descriptors : m >= 4 + 2 * next => WithSend[m] = Free
        /\ RecvSocket(next) \in Files /\ next \in 1 .. Intfs
    BY SendOpened
  <1>2. 4 + 2 * next \in Descriptors /\ WithSend[4 + 2 * next] = Free
    BY <1>1, ListedFacts, DescriptorsNat
  <1>3. /\ l \in Descriptors /\ WithSend[l] = Free /\ l <= 4 + 2 * next
        /\ h \in Tables /\ h[l] = RecvSocket(next)
        /\ \A m \in Descriptors : m # l => h[m] = WithSend[m]
    BY <1>1, <1>2, OpenedFacts
  <1>4. l # Lowest(f)
    BY <1>1, <1>3, KindsDistinct
  <1>5. l # 0
    BY <1>1, <1>3, <1>4, DescriptorsNat
  <1>6. ASSUME NEW m \in Descriptors, m >= 3 + 2 * (next + 1)
        PROVE  h[m] = Free
    <2>1. m # l /\ m >= 4 + 2 * next
      BY <1>1, <1>3, <1>6, DescriptorsNat
    <2> QED BY <2>1, <1>1, <1>3
  <1> QED BY <1>3, <1>4, <1>5, <1>6

LEMMA InvSendFails ==
  ASSUME Inv, SendFails
  PROVE  Inv'
  <1>1. /\ Listed /\ failed' = failed \cup {next} /\ next' = next + 1
        /\ UNCHANGED <<daemon, console, main, intfs, thread, child, control, typed>>
    BY DEF SendFails
  <1>2. PICK f \in {fds.process, WithSend} :
           fds' = [fds EXCEPT !.process = Closed(f, 0)]
    BY DEF SendFails, WithSend, Deleted
  <1> DEFINE g == Closed(f, 0)
  <1>3. /\ f \in Tables /\ 0 \in Descriptors
        /\ \A m \in Descriptors : fds.process[m] # Free => f[m] = fds.process[m]
        /\ \A m \in Descriptors : m >= 4 + 2 * next => f[m] = Free
        /\ next \in 1 .. Intfs
    <2>1. \A m \in Descriptors : m >= 4 + 2 * next => m >= 3 + 2 * next
      BY <1>1, ListedFacts, DescriptorsNat
    <2> QED BY <1>1, <1>2, <2>1, SendOpened, ListedFacts, DescriptorsNat
  <1>4. /\ g \in Tables
        /\ \A m \in Descriptors : m # 0 => g[m] = f[m]
        /\ \A m \in Descriptors : f[m] = Free => g[m] = Free
    BY <1>3, ClosedFacts
  <1> HIDE DEF g
  <1>5. \A n \in Descriptors : n >= 3 + 2 * (next + 1) => g[n] = Free
    BY <1>3, <1>4, DescriptorsNat
  <1>6. \A n \in Descriptors : n # 0 /\ fds.process[n] # Free => g[n] = fds.process[n]
    BY <1>3, <1>4
  <1>7. /\ next \in failed' /\ failed \subseteq failed' /\ failed' \subseteq failed \cup {next}
    BY <1>1
  <1>8. fds' = [fds EXCEPT !.process = g]
    BY <1>2 DEF g
  <1> QED BY <1>1, <1>4, <1>5, <1>6, <1>7, <1>8, DealtWith

LEMMA InvRecvFails ==
  ASSUME Inv, RecvFails
  PROVE  Inv'
  <1> DEFINE l == Lowest(fds.process)
  <1>1. /\ Listed /\ next' = next + 1
        /\ UNCHANGED <<daemon, console, main, intfs, failed, thread, child, control, typed>>
    BY DEF RecvFails
  <1>2. PICK f \in {WithSend, Opened(WithSend, RecvSocket(next))} :
           fds' = [fds EXCEPT !.process = Closed(f, l)]
    BY DEF RecvFails, Deleted
  <1> DEFINE g == Closed(f, l)
  <1>3. /\ f \in Tables /\ l \in Descriptors /\ fds.process[l] = Free
        /\ \A m \in Descriptors : fds.process[m] # Free => f[m] = fds.process[m]
        /\ \A m \in Descriptors : m >= 3 + 2 * (next + 1) => f[m] = Free
        /\ next \in 1 .. Intfs
    <2>1. \A m \in Descriptors : m >= 3 + 2 * (next + 1) => m >= 4 + 2 * next
      BY <1>1, ListedFacts, DescriptorsNat
    <2>2. \A m \in Descriptors : fds.process[m] # Free => WithSend[m] = fds.process[m]
      BY <1>1, SendOpened
    <2>3. ASSUME NEW m \in Descriptors, fds.process[m] # Free
          PROVE  Opened(WithSend, RecvSocket(next))[m] = fds.process[m]
      <3>1. WithSend[m] # Free
        BY <2>2, <2>3
      <3> QED BY <1>1, <2>2, <2>3, <3>1, RecvOpened
    <2> QED BY <1>1, <1>2, <2>1, <2>2, <2>3, SendOpened, RecvOpened
  <1>4. /\ g \in Tables
        /\ \A m \in Descriptors : m # l => g[m] = f[m]
        /\ \A m \in Descriptors : f[m] = Free => g[m] = Free
    BY <1>3, ClosedFacts
  <1> HIDE DEF g, l
  <1>5. \A n \in Descriptors : n >= 3 + 2 * (next + 1) => g[n] = Free
    BY <1>3, <1>4
  <1>6. \A n \in Descriptors : fds.process[n] # Free => g[n] = fds.process[n]
    BY <1>3, <1>4
  <1>7. failed' = failed
    BY <1>1
  <1>8. fds' = [fds EXCEPT !.process = g] /\ 0 \in Descriptors
    BY <1>2, DescriptorsNat DEF g
  <1> QED BY <1>1, <1>4, <1>5, <1>6, <1>7, <1>8, DealtWith

LEMMA InvSetUp ==
  ASSUME Inv, SetUp
  PROVE  Inv'
  <1> DEFINE l == Lowest(fds.process)
             g == Opened(WithSend, RecvSocket(next))
             r == [intf |-> next, send |-> l, recv |-> Lowest(WithSend)]
  <1>1. /\ Listed /\ next' = next + 1
        /\ fds' = [fds EXCEPT !.process = g] /\ intfs' = Append(intfs, r)
        /\ UNCHANGED <<daemon, console, main, failed, thread, child, control, typed>>
    BY DEF SetUp
  <1>2. /\ g \in Tables /\ l \in Descriptors /\ Lowest(WithSend) \in Descriptors
        /\ next \in 1 .. Intfs /\ Lowest(WithSend) # 0 /\ Lowest(WithSend) # l
        /\ fds.process[l] = Free /\ WithSend[Lowest(WithSend)] = Free
        /\ WithSend[l] = SendSocket(next)
        /\ g[Lowest(WithSend)] = RecvSocket(next)
        /\ \A m \in Descriptors : m # l => WithSend[m] = fds.process[m]
        /\ \A m \in Descriptors : m # Lowest(WithSend) => g[m] = WithSend[m]
        /\ \A n \in Descriptors : n >= 3 + 2 * (next + 1) => g[n] = Free
    BY <1>1, SendOpened, RecvOpened
  <1>3. g[l] = SendSocket(next)
    BY <1>2
  <1>4. \A n \in Descriptors : fds.process[n] # Free => g[n] = fds.process[n]
    BY <1>2
  <1>5. l = 0 => failed # {}
    <2>1. failed = {} => fds.process[0] # Free
      BY KindsDistinct DEF Inv, Fixed
    <2> QED BY <1>2, <2>1
  <1>6. r \in Entry
    BY <1>2 DEF Entry
  <1>7. Entered(r, g)
    BY <1>2, <1>3, <1>5 DEF Entered
  <1>8. 0 \in Descriptors
    BY DescriptorsNat
  <1> HIDE DEF g, l, r
  <1> QED BY <1>1, <1>2, <1>4, <1>6, <1>7, <1>8, DealtWith

-----------------------------------------------------------------------------
(* Before and after the interfaces.                                        *)

LEMMA InvStart ==
  ASSUME Inv, Start
  PROVE  Inv'
  <1> DEFINE f == fds.process
             zero == IF console THEN Stdin ELSE Route
  <1>1. /\ main = "start" /\ next = 1 /\ intfs = <<>> /\ failed = {}
        /\ thread = "none" /\ child = "none" /\ f \in Tables
    BY TablesType DEF Inv, Phases, Starting, Start, TypeOK
  <1>2. UNCHANGED <<daemon, console, intfs, failed, thread, child, typed>>
    BY DEF Start
  <1>3. Len(intfs) = 0
    BY <1>1
  <1>4. CASE main' = "ended" /\ UNCHANGED <<fds, control, next>>
    <2>1. TypeOK'
      BY <1>2, <1>4 DEF Inv, TypeOK
    <2>2. Phases' /\ Counted' /\ Room' /\ Fixed'
      BY <1>1, <1>2, <1>3, <1>4 DEF Inv, Phases, Counted, Room, Fixed, Starting
    <2>3. Kept' /\ Inherited'
      BY <1>1, <1>2, <1>3, <1>4 DEF Kept, Inherited
    <2> QED BY <2>1, <2>2, <2>3 DEF Inv
  <1>5. CASE /\ Open(Control) /\ control' = Lowest(fds.process)
             /\ main' = "init" /\ next' = 1
    <2> DEFINE g == Opened(f, Control)
               l == Lowest(f)
    <2>1. /\ fds' = [fds EXCEPT !.process = g] /\ control' = l
      BY <1>5 DEF Open
    <2>2. /\ f[1] = Output /\ f[2] = Output /\ f[0] = zero
          /\ f[3] = Free \/ console
          /\ console => f[3] = Route
          /\ \A n \in Descriptors : n > 3 => f[n] = Free
          /\ zero # Free
      BY <1>1, KindsDistinct DEF Inv, Fixed, Room
    <2> HIDE DEF zero
    <2>3. 4 \in Descriptors /\ f[4] = Free
      BY <2>2, DescriptorsNat
    <2>4. /\ l \in Descriptors /\ f[l] = Free /\ l <= 4
          /\ g \in Tables /\ g[l] = Control
          /\ \A m \in Descriptors : m # l => g[m] = f[m]
      BY <1>1, <2>3, FilesMembers, OpenedFacts
    <2>5. l \in {3, 4} /\ (console => l = 4)
      <3>1. l # 0 /\ l # 1 /\ l # 2
        BY <2>2, <2>4, KindsDistinct
      <3>2. console => l # 3
        BY <2>2, <2>4, KindsDistinct
      <3>3. l \in Nat
        BY <2>4, DescriptorsNat
      <3> QED BY <2>4, <3>1, <3>2, <3>3
    <2> HIDE DEF g, l
    <2>6. /\ g[1] = Output /\ g[2] = Output /\ g[0] = zero
          /\ console => g[3] = Route
          /\ \A n \in Descriptors : n >= 5 => g[n] = Free
      BY <2>2, <2>4, <2>5, DescriptorsNat
    <2>7. fds'.process = g /\ fds' \in [process : Tables, daemon : Tables]
      BY <2>1, <2>4, ProcessTable DEF Inv
    <2>8. TypeOK'
      <3>1. /\ main' \in {"start", "init", "commands", "join", "restore", "restoring", "ended"}
            /\ next' \in 1 .. Intfs + 1
        BY <1>5, ProcessAssumption
      <3> QED BY <1>2, <2>1, <2>4, <2>7, <3>1 DEF Inv, TypeOK, Tables
    <2>9. Phases' /\ Counted'
      BY <1>1, <1>2, <1>3, <1>5, ProcessAssumption DEF Phases, Counted, Starting
    <2>10. Room'
      BY <1>5, <2>6, <2>7, DescriptorsNat DEF Room
    <2>11. Fixed'
      BY <1>1, <1>2, <1>5, <2>1, <2>4, <2>5, <2>6, <2>7 DEF Fixed, zero
    <2>12. Kept' /\ Inherited'
      BY <1>1, <1>2, <1>3 DEF Kept, Inherited
    <2> QED BY <2>8, <2>9, <2>10, <2>11, <2>12 DEF Inv
  <1> QED BY <1>4, <1>5 DEF Start

\* Steps that leave the interfaces and the process's sockets as they are.
LEMMA KeptSame ==
  ASSUME Inv, UNCHANGED <<intfs, failed>>, fds'.process = fds.process
  PROVE  Kept'
  BY DEF Inv, Kept, HasSockets, FailedBefore, FailedAfter, Zero

\* The same of the daemon's.
LEMMA InheritedSame ==
  ASSUME Inv, UNCHANGED <<console, intfs>>, fds'.daemon = fds.daemon,
         child' = child \/ child' = "ended"
  PROVE  Inherited'
  BY DEF Inv, Inherited, HasSockets, Zero

LEMMA EntryFacts ==
  ASSUME Inv, NEW k \in 1 .. Len(intfs)
  PROVE  /\ intfs[k] \in Entry /\ intfs[k].intf \in 1 .. Intfs
         /\ intfs[k].send \in Descriptors /\ intfs[k].recv \in Descriptors
  <1>1. intfs \in Seq(Entry)
    BY DEF Inv, TypeOK, Entry
  <1>2. intfs[k] \in Entry
    BY <1>1
  <1> QED BY <1>2 DEF Entry

\* To open another or to close one that is no socket keeps the sockets.
LEMMA KeptOthers ==
  ASSUME Inv, UNCHANGED <<intfs, failed>>, NEW g, fds'.process = g,
         \A n \in Descriptors :
            fds.process[n] \notin {Free, Control} => g[n] = fds.process[n]
  PROVE  Kept'
  <1>1. ASSUME NEW k \in 1 .. Len(intfs), HasSockets(fds.process, k)
        PROVE  HasSockets(g, k)
    <2>1. intfs[k].send \in Descriptors /\ intfs[k].recv \in Descriptors
      BY EntryFacts
    <2>2. /\ SendSocket(intfs[k].intf) \notin {Free, Control}
          /\ RecvSocket(intfs[k].intf) \notin {Free, Control}
      BY KindsDistinct
    <2> QED BY <1>1, <2>1, <2>2 DEF HasSockets
  <1>2. \A k : HasSockets(fds.process, k)' <=> HasSockets(g, k)
    BY DEF HasSockets
  <1>3. \A k : /\ FailedBefore(k)' <=> FailedBefore(k)
               /\ FailedAfter(k)' <=> FailedAfter(k)
               /\ Zero(k)' <=> Zero(k)
    BY DEF FailedBefore, FailedAfter, Zero
  <1> QED BY <1>1, <1>2, <1>3 DEF Inv, Kept

\* The table with the temporary socket closed.
LEMMA ControlClosed ==
  ASSUME Inv, main \in {"init", "restoring"},
         fds' = [fds EXCEPT !.process = Closed(fds.process, control)],
         UNCHANGED <<console, intfs, failed, control>>,
         main' \in {"commands", "restore"}
  PROVE  /\ fds'.daemon = fds.daemon /\ fds' \in [process : Tables, daemon : Tables]
         /\ Room' /\ Fixed' /\ Kept'
  <1> DEFINE f == fds.process
             g == Closed(f, control)
             zero == IF console THEN Stdin ELSE Route
  <1>1. /\ f[control] = Control /\ control \in Descriptors /\ control <= 4
        /\ f[1] = Output /\ f[2] = Output
        /\ failed = {} => f[0] = zero
        /\ console => f[3] = Route
        /\ f \in Tables /\ f[Top] = Free /\ zero # Control
    BY TablesType, KindsDistinct DEF Inv, Fixed, Room, TypeOK
  <1>2. /\ g \in Tables /\ g[control] = Free
        /\ \A m \in Descriptors : m # control => g[m] = f[m]
    BY <1>1, ClosedFacts
  <1> HIDE DEF g, zero
  <1>3. /\ fds'.process = g /\ fds'.daemon = fds.daemon
        /\ fds' \in [process : Tables, daemon : Tables]
    BY <1>2, ProcessTable DEF Inv, g
  <1>4. Room'
    <2>1. g[Top] = Free
      BY <1>1, <1>2, DescriptorsNat
    <2> QED BY <1>2, <1>3, <2>1 DEF Room
  <1>5. Fixed'
    <2>1. /\ g[1] = Output /\ g[2] = Output
          /\ failed = {} => g[0] = zero
          /\ console => g[3] = Route
      BY <1>1, <1>2, DescriptorsNat, KindsDistinct
    <2> QED BY <1>1, <1>3, <2>1 DEF Fixed, zero
  <1>6. Kept'
    <2>1. \A n \in Descriptors : f[n] \notin {Free, Control} => g[n] = f[n]
      BY <1>1, <1>2
    <2> QED BY <1>3, <2>1, KeptOthers
  <1> QED BY <1>3, <1>4, <1>5, <1>6

LEMMA InvInitDone ==
  ASSUME Inv, InitDone
  PROVE  Inv'
  <1>1. /\ main = "init" /\ next' = 1
        /\ fds' = [fds EXCEPT !.process = Closed(fds.process, control)]
        /\ UNCHANGED <<daemon, console, intfs, failed, child, control, typed>>
        /\ \/ daemon /\ main' = "restore" /\ thread' = "forking"
           \/ ~daemon /\ main' = "commands" /\ thread' = thread
    BY DEF InitDone, InitClosed
  <1>2. thread = "none" /\ child = "none"
    BY <1>1 DEF Inv, TypeOK, Phases, Starting
  <1>3. /\ fds'.daemon = fds.daemon /\ fds' \in [process : Tables, daemon : Tables]
        /\ Room' /\ Fixed' /\ Kept'
    BY <1>1, ControlClosed
  <1>4. TypeOK'
    <2>1. /\ main' \in {"start", "init", "commands", "join", "restore", "restoring", "ended"}
          /\ thread' \in {"none", "forking", "forked"}
          /\ next' \in 1 .. Intfs + 1
      BY <1>1, <1>2, ProcessAssumption
    <2> QED BY <1>1, <1>3, <2>1 DEF Inv, TypeOK, Tables
  <1>5. Phases' /\ Counted'
    BY <1>1, <1>2 DEF Inv, Phases, Counted, Starting
  <1>6. Inherited'
    BY <1>1, <1>2 DEF Inherited
  <1> QED BY <1>3, <1>4, <1>5, <1>6 DEF Inv

LEMMA InvFork ==
  ASSUME Inv, Fork
  PROVE  Inv'
  <1>1. /\ thread = "forking" /\ main # "ended" /\ ~Starting
        /\ UNCHANGED <<daemon, console, next, intfs, failed, control, typed>>
    BY DEF Fork, Inv, Phases
  <1>2. CASE /\ fds' = [fds EXCEPT !.daemon = fds.process]
             /\ child' = "detaching" /\ thread' = "forked" /\ main' = main
    <2>1. /\ fds'.process = fds.process /\ fds'.daemon = fds.process
          /\ fds' \in [process : Tables, daemon : Tables]
      BY <1>2, TablesType DEF Inv
    <2>2. TypeOK'
      BY <1>1, <1>2, <2>1 DEF Inv, TypeOK, Tables
    <2>3. Phases' /\ Counted' /\ Room' /\ Fixed'
      BY <1>1, <1>2, <2>1 DEF Inv, Phases, Counted, Room, Fixed, Starting
    <2>4. Kept'
      BY <1>1, <2>1, KeptSame
    <2>5. Inherited'
      <3>1. \A k \in 1 .. Len(intfs) : Zero(k) \/ HasSockets(fds.process, k)
        BY DEF Inv, Kept
      <3>2. \A k : /\ HasSockets(fds.daemon, k)' <=> HasSockets(fds.process, k)
                   /\ Zero(k)' <=> Zero(k)
        BY <1>1, <2>1 DEF HasSockets, Zero
      <3>3. /\ fds.process[1] = Output /\ fds.process[2] = Output
            /\ fds.process[Top] = Free
            /\ console => fds.process[3] = Route
        BY DEF Inv, Fixed, Room
      <3> QED BY <1>1, <1>2, <2>1, <3>1, <3>2, <3>3 DEF Inherited
    <2> QED BY <2>2, <2>3, <2>4, <2>5 DEF Inv
  <1>3. CASE main' = "ended" /\ UNCHANGED <<fds, child, thread>>
    <2>1. TypeOK'
      BY <1>1, <1>3 DEF Inv, TypeOK
    <2>2. Phases' /\ Counted' /\ Room' /\ Fixed'
      BY <1>1, <1>3 DEF Inv, Phases, Counted, Room, Fixed, Starting
    <2>3. Kept' /\ Inherited'
      BY <1>1, <1>3, KeptSame, InheritedSame
    <2> QED BY <2>1, <2>2, <2>3 DEF Inv
  <1> QED BY <1>2, <1>3 DEF Fork

\* The log takes no descriptor that a socket has, but 0.
LEMMA DetachedFacts ==
  ASSUME NEW f \in Tables, NEW n \in Descriptors, f[n] = Free
  PROVE  /\ Detached(f) \in Tables
         /\ \A m \in Descriptors :
               m \notin {0, 1, 2} /\ f[m] # Free => Detached(f)[m] = f[m]
  <1> DEFINE l == Lowest(f)
             g == Opened(f, Log)
             h == [g EXCEPT ![1] = Log, ![2] = Log]
  <1>1. /\ l \in Descriptors /\ f[l] = Free /\ g \in Tables
        /\ \A m \in Descriptors : f[m] # Free => g[m] = f[m]
    BY FilesMembers, OpenedFacts
  <1>2. /\ h \in Tables
        /\ \A m \in Descriptors : m \notin {1, 2} => h[m] = g[m]
    BY <1>1, FilesMembers, DescriptorsNat DEF Tables
  <1> HIDE DEF g
  <1>3. Detached(f) = Closed(Closed(h, l), 0)
    BY DEF Detached, g
  <1> HIDE DEF h
  <1>4. /\ Closed(h, l) \in Tables
        /\ \A m \in Descriptors : m # l => Closed(h, l)[m] = h[m]
    BY <1>1, <1>2, ClosedFacts
  <1>5. /\ Closed(Closed(h, l), 0) \in Tables
        /\ \A m \in Descriptors : m # 0 => Closed(Closed(h, l), 0)[m] = Closed(h, l)[m]
    BY <1>4, ClosedFacts, DescriptorsNat
  <1>6. ASSUME NEW m \in Descriptors, m \notin {0, 1, 2}, f[m] # Free
        PROVE  Detached(f)[m] = f[m]
    <2>1. m # l
      BY <1>1, <1>6
    <2> QED BY <2>1, <1>1, <1>2, <1>3, <1>4, <1>5, <1>6
  <1> QED BY <1>3, <1>5, <1>6

LEMMA InvDetach ==
  ASSUME Inv, Detach
  PROVE  Inv'
  <1>1. /\ child = "detaching" /\ thread = "forked" /\ child' \in {"commands", "ended"}
        /\ UNCHANGED <<daemon, console, main, next, intfs, failed, thread, control,
                       typed>>
    BY DEF Detach, Inv, Phases
  <1>2. Phases' /\ Counted'
    BY <1>1 DEF Inv, Phases, Counted, Starting
  <1>3. CASE fds' = [fds EXCEPT !.daemon = Detached(@)] /\ child' = "commands"
    <2> DEFINE f == fds.daemon
               g == Detached(f)
    <2>1. /\ f \in Tables /\ Top \in Descriptors /\ f[Top] = Free
          /\ f[1] = Output /\ f[2] = Output
          /\ console => f[3] = Route
      BY <1>1, TablesType, DescriptorsNat DEF Inv, Inherited
    <2>2. /\ g \in Tables
          /\ \A m \in Descriptors :
                m \notin {0, 1, 2} /\ f[m] # Free => g[m] = f[m]
      BY <2>1, DetachedFacts
    <2> HIDE DEF g
    <2>3. fds' = [fds EXCEPT !.daemon = g]
      BY <1>3 DEF g
    <2>4. /\ fds'.process = fds.process /\ fds'.daemon = g
          /\ fds' \in [process : Tables, daemon : Tables]
      BY <2>2, <2>3, TablesType DEF Inv
    <2>5. TypeOK'
      BY <1>1, <1>3, <2>4 DEF Inv, TypeOK, Tables
    <2>6. Room' /\ Fixed'
      BY <1>1, <2>4 DEF Inv, Room, Fixed
    <2>7. Kept'
      BY <1>1, <2>4, KeptSame
    <2>8. ASSUME NEW k \in 1 .. Len(intfs), ~Zero(k)
          PROVE  HasSockets(g, k)
      <3>1. intfs[k].send # 0 /\ intfs[k].recv # 0 /\ HasSockets(f, k)
        BY <1>1, <2>8 DEF Inv, Kept, Inherited, Zero
      <3>2. intfs[k].send \in Descriptors /\ intfs[k].recv \in Descriptors
        BY EntryFacts
      <3>3. /\ f[intfs[k].send] = SendSocket(intfs[k].intf)
            /\ f[intfs[k].recv] = RecvSocket(intfs[k].intf)
        BY <3>1 DEF HasSockets
      <3>4. intfs[k].send \notin {0, 1, 2} /\ intfs[k].recv \notin {0, 1, 2}
        <4>1. f[intfs[k].send] # Output /\ f[intfs[k].recv] # Output
          BY <3>3, KindsDistinct
        <4> QED BY <2>1, <3>1, <4>1
      <3>5. f[intfs[k].send] # Free /\ f[intfs[k].recv] # Free
        BY <3>3, KindsDistinct
      <3> QED BY <2>2, <3>2, <3>3, <3>4, <3>5 DEF HasSockets
    <2>9. console => g[3] = Route
      <3>1. 3 \in Descriptors /\ 3 \notin {0, 1, 2} /\ Route # Free
        BY DescriptorsNat, KindsDistinct
      <3> QED BY <2>1, <2>2, <3>1
    <2>10. \A k : (HasSockets(fds.daemon, k)' <=> HasSockets(g, k))
                  /\ (Zero(k)' <=> Zero(k))
      BY <1>1, <2>4 DEF HasSockets, Zero
    <2>11. Inherited'
      BY <1>1, <1>3, <2>4, <2>8, <2>9, <2>10 DEF Inherited
    <2> QED BY <1>2, <2>5, <2>6, <2>7, <2>11 DEF Inv
  <1>4. CASE child' = "ended" /\ UNCHANGED fds
    <2>1. TypeOK'
      BY <1>1, <1>4 DEF Inv, TypeOK
    <2>2. Room' /\ Fixed'
      BY <1>1, <1>4 DEF Inv, Room, Fixed
    <2>3. Kept' /\ Inherited'
      BY <1>1, <1>4, KeptSame, InheritedSame
    <2> QED BY <1>2, <2>1, <2>2, <2>3 DEF Inv
  <1> QED BY <1>3, <1>4 DEF Detach

-----------------------------------------------------------------------------
(* The loop that restores, and the steps that open and close nothing.      *)

LEMMA InvRestore ==
  ASSUME Inv, Restore
  PROVE  Inv'
  <1>1. /\ main = "restore" /\ next <= Len(intfs)
        /\ UNCHANGED <<daemon, console, intfs, failed, thread, child, typed>>
    BY DEF Restore
  <1>2. /\ next \in 1 .. Intfs + 1 /\ Len(intfs) \in Nat /\ Len(intfs) <= Intfs
        /\ Intfs \in Nat
    BY ProcessAssumption DEF Inv, TypeOK, Counted
  <1>3. CASE /\ Open(Control) /\ control' = Lowest(fds.process)
             /\ main' = "restoring" /\ next' = next
    <2> DEFINE f == fds.process
               g == Opened(f, Control)
               l == Lowest(f)
               zero == IF console THEN Stdin ELSE Route
    <2>1. /\ f \in Tables /\ control \in Descriptors /\ control <= 4
          /\ f[control] = Free /\ f[Top] = Free
          /\ f[1] = Output /\ f[2] = Output
          /\ failed = {} => f[0] = zero
          /\ console => f[3] = Route
          /\ zero # Free
      BY <1>1, TablesType, KindsDistinct DEF Inv, TypeOK, Room, Fixed
    <2> HIDE DEF zero
    <2>2. /\ l \in Descriptors /\ f[l] = Free /\ l <= control
          /\ g \in Tables /\ g[l] = Control
          /\ \A m \in Descriptors : m # l => g[m] = f[m]
      BY <2>1, FilesMembers, OpenedFacts
    <2>3. fds' = [fds EXCEPT !.process = g] /\ control' = l
      BY <1>3 DEF Open
    <2> HIDE DEF g, l
    <2>4. l \in Nat /\ control \in Nat /\ l <= 4 /\ l # Top
      BY <2>1, <2>2, DescriptorsNat
    <2>5. /\ fds'.process = g /\ fds'.daemon = fds.daemon
          /\ fds' \in [process : Tables, daemon : Tables]
      BY <2>2, <2>3, ProcessTable DEF Inv
    <2>6. TypeOK'
      BY <1>1, <1>3, <2>2, <2>3, <2>5 DEF Inv, TypeOK, Tables
    <2>7. Phases' /\ Counted'
      BY <1>1, <1>3 DEF Inv, Phases, Counted, Starting
    <2>8. Room'
      BY <1>3, <2>1, <2>2, <2>4, <2>5, DescriptorsNat DEF Room
    <2>9. Fixed'
      <3>1. /\ g[1] = Output /\ g[2] = Output
            /\ failed = {} => g[0] = zero
            /\ console => g[3] = Route
        BY <2>1, <2>2, DescriptorsNat, KindsDistinct
      <3> QED BY <1>1, <1>3, <2>2, <2>3, <2>4, <2>5, <3>1 DEF Fixed, zero
    <2>10. Kept'
      <3>1. \A n \in Descriptors : f[n] \notin {Free, Control} => g[n] = f[n]
        BY <2>2
      <3> QED BY <1>1, <2>5, <3>1, KeptOthers
    <2>11. Inherited'
      BY <1>1, <2>5, InheritedSame
    <2> QED BY <2>6, <2>7, <2>8, <2>9, <2>10, <2>11 DEF Inv
  <1>4. CASE next' = next + 1 /\ UNCHANGED <<fds, control, main>>
    <2>1. TypeOK'
      BY <1>1, <1>2, <1>4 DEF Inv, TypeOK
    <2>2. Phases' /\ Counted' /\ Room' /\ Fixed'
      BY <1>1, <1>4 DEF Inv, Phases, Counted, Room, Fixed, Starting
    <2>3. Kept' /\ Inherited'
      BY <1>1, <1>4, KeptSame, InheritedSame
    <2> QED BY <2>1, <2>2, <2>3 DEF Inv
  <1> QED BY <1>1, <1>3, <1>4 DEF Restore

LEMMA InvRestoreDone ==
  ASSUME Inv, RestoreDone
  PROVE  Inv'
  <1>1. /\ main = "restoring" /\ main' = "restore" /\ next' = next + 1
        /\ fds' = [fds EXCEPT !.process = Closed(fds.process, control)]
        /\ UNCHANGED <<daemon, console, intfs, failed, thread, child, control, typed>>
    BY DEF RestoreDone
  <1>2. /\ fds'.daemon = fds.daemon /\ fds' \in [process : Tables, daemon : Tables]
        /\ Room' /\ Fixed' /\ Kept'
    BY <1>1, ControlClosed
  <1>3. /\ next <= Len(intfs) /\ next \in 1 .. Intfs + 1 /\ Len(intfs) \in Nat
        /\ Len(intfs) <= Intfs /\ Intfs \in Nat
    BY <1>1, ProcessAssumption DEF Inv, TypeOK, Counted
  <1>4. TypeOK'
    BY <1>1, <1>2, <1>3 DEF Inv, TypeOK, Tables
  <1>5. Phases' /\ Counted'
    BY <1>1 DEF Inv, Phases, Counted, Starting
  <1>6. Inherited'
    BY <1>1, <1>2, InheritedSame
  <1> QED BY <1>2, <1>4, <1>5, <1>6 DEF Inv

\* What a step keeps that opens and closes nothing and goes on with the same
\* socket of the loop, or ends.
LEMMA NothingOpened ==
  ASSUME Inv, UNCHANGED <<daemon, console, next, intfs, failed, thread, fds, control>>,
         child' = child \/ (child' = "ended" /\ child # "none"),
         \/ main' = main
         \/ (main' = "ended" /\ ~Starting)
         \/ (main \in {"commands", "join"} /\ main' \in {"join", "restore"}),
         typed' \in BOOLEAN
  PROVE  Inv'
  <1>1. TypeOK'
    BY DEF Inv, TypeOK
  <1>2. Phases' /\ Counted' /\ Room' /\ Fixed'
    BY DEF Inv, Phases, Counted, Room, Fixed, Starting
  <1>3. Kept' /\ Inherited'
    BY KeptSame, InheritedSame
  <1> QED BY <1>1, <1>2, <1>3 DEF Inv

LEMMA InvOthers ==
  ASSUME Inv, ForkerExits \/ Return \/ ReadExit \/ Join \/ Abort \/ TypeExit
                \/ UNCHANGED vars
  PROVE  Inv'
  <1> USE DEF Starting
  <1>1. typed \in BOOLEAN
    BY DEF Inv, TypeOK
  <1>2. CASE ForkerExits
    <2>1. ~Starting
      BY <1>2 DEF ForkerExits, Inv, Phases
    <2> QED BY <1>1, <1>2, <2>1, NothingOpened DEF ForkerExits
  <1>3. CASE Return
    BY <1>1, <1>3, NothingOpened DEF Return
  <1>4. CASE ReadExit
    BY <1>1, <1>4, NothingOpened DEF ReadExit
  <1>5. CASE Join
    BY <1>1, <1>5, NothingOpened DEF Join
  <1>6. CASE Abort
    BY <1>1, <1>6, NothingOpened DEF Abort
  <1>7. CASE TypeExit
    BY <1>1, <1>7, NothingOpened DEF TypeExit
  <1>8. CASE UNCHANGED vars
    BY <1>1, <1>8, NothingOpened DEF vars
  <1> QED BY <1>2, <1>3, <1>4, <1>5, <1>6, <1>7, <1>8

LEMMA InvAlways == Spec => []Inv
  <1>1. Inv /\ [Next]_vars => Inv'
    BY InvStart, InvQueryFails, InvSendFails, InvRecvFails, InvSetUp, InvInitDone,
       InvRestore, InvRestoreDone, InvFork, InvDetach, InvOthers DEF Next, Main, Thread
  <1> QED BY <1>1, InvInit, PTL DEF Spec

-----------------------------------------------------------------------------
(* What follows from it.                                                   *)

\* Every variable has its type in every reachable state, for any number of
\* interfaces: there always is a free descriptor when one is opened, and no
\* interface beyond the list is set up.
THEOREM TypeCorrect == Spec => []TypeOK
  <1>1. Inv => TypeOK
    BY DEF Inv
  <1> QED BY <1>1, InvAlways, PTL

\* An interface keeps its two sockets, in the process and in the daemon,
\* unless its socket to send is descriptor 0, which takes one that failed
\* before it, and another failed after it (or the daemon has detached itself);
\* and the socket for routes is kept unless 0 was free at the start.
THEOREM SocketsStay == Spec => []SocketsKept
  <1>1. ASSUME Inv PROVE SocketsKept
    <2>1. DOMAIN intfs = 1 .. Len(intfs)
      BY <1>1 DEF Inv, TypeOK
    <2>2. \A k \in DOMAIN intfs :
             /\ Zero(k) => FailedBefore(k)
             /\ (Zero(k) /\ FailedAfter(k)) \/ HasSockets(fds.process, k)
             /\ Zero(k) \/ child # "commands" \/ HasSockets(fds.daemon, k)
      BY <1>1, <2>1 DEF Inv, Kept, Inherited
    <2>3. 0 \in Descriptors /\ 3 \in Descriptors
      BY DescriptorsNat
    <2>4. /\ console => fds.process[3] = Route
          /\ (~console /\ failed = {}) => fds.process[0] = Route
          /\ (console /\ child = "commands") => fds.daemon[3] = Route
      BY <1>1 DEF Inv, Fixed, Inherited
    <2> QED BY <2>2, <2>3, <2>4 DEF SocketsKept
  <1> QED BY <1>1, InvAlways, PTL

=============================================================================

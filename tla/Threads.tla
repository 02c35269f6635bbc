------------------------------ MODULE Threads ------------------------------
(***************************************************************************)
(* The threads of the process: main reads commands (main.cpp), recv_loop   *)
(* and send_loop work (transit.cpp).  What they do to the data is the      *)
(* subject of the other modules.  Here a function is the sequence of its   *)
(* operations on what the threads share: the two mutexes, the lists, LSAs  *)
(* and maps, and the state of a neighbour.                                 *)
(*                                                                         *)
(* Each thread has a list of operations to do.  A call puts one way through*)
(* the function in front of it; which ways there are depends on the        *)
(* neighbour's state at that moment.  Timers, commands and the contents of *)
(* packets and lists are choices, so the roles of the exchange are as well.*)
(* There is one neighbour, on the first interface.  An assertion that a    *)
(* second thread can make fail ends the process; those that only depend on *)
(* a packet are in Exchange and Interface.                                 *)
(***************************************************************************)
EXTENDS Integers, Sequences

CONSTANTS
    Intfs,       \* number of this_interfaces
    MaxHeaders,  \* bound: headers in a DD, LSAs in an LSU
    None         \* no thread

ASSUME ThreadsAssumption ==
    /\ Intfs \in Nat \ {0} /\ MaxHeaders \in Nat
    /\ None \notin {"main", "recv", "send"}

Threads == {"main", "recv", "send"}
Mutexes == {"db", "request"}

\* The lists of the database and the LSAs in them; the lists of the
\* neighbour; the interface's neighbours; the maps of the routing table.
Objects == {"db", "lsa", "request", "summary", "neighbors", "routing"}

States == {"NONE", "INIT", "TWOWAY", "EXSTART", "EXCHANGE", "LOADING", "FULL"}
AtLeastExchange == {"EXCHANGE", "LOADING", "FULL"}

Functions ==
    {"process_hello", "process_dd", "process_lsr", "process_lsu",
     "elect", "adj_ok", "exstart", "negotiation_done", "accept",
     "exchange_done", "produce_dd", "visit", "requests", "produce_lsr",
     "loading", "loading_done", "update_route"}

VARIABLES
    todo,      \* todo[t]: what thread t does next
    holder,    \* holder[m]: the thread that has locked mutex m
    state,     \* state of the neighbour, NONE before its first Hello
    dd_init,   \* its dd_init
    running,   \* the flag the loops test
    recv_at,   \* interface of recv_loop's next recvfrom, 0 at its test
    send_at,   \* the same of send_loop's next turn
    frames,    \* interfaces whose socket has a frame
    finished,  \* threads that have ended
    aborted    \* an assertion failed, or a null pointer was used

vars == <<todo, holder, state, dd_init, running, recv_at, send_at, frames,
          finished, aborted>>

-----------------------------------------------------------------------------
(* Operations.                                                             *)

Lock(m) == [op |-> "lock", on |-> m]
Unlock(m) == [op |-> "unlock", on |-> m]
Access(r, w) == [op |-> "access", reads |-> r, writes |-> w]
Reads(o) == Access({o}, {})
Writes(o) == Access({}, {o})
Becomes(s) == [op |-> "state", on |-> s]
Assert(s) == [op |-> "assert", on |-> s]
Call(f) == [op |-> "call", on |-> f]
ClearInit == [op |-> "clear", on |-> "dd_init"]

Operations ==
    [op : {"lock", "unlock"}, on : Mutexes]
    \cup [op : {"access"}, reads : SUBSET Objects, writes : SUBSET Objects]
    \cup [op : {"state"}, on : States] \cup [op : {"assert"}, on : SUBSET States]
    \cup [op : {"call"}, on : Functions] \cup {ClearInit}

\* s, n times over.
Times(s, n) == [i \in 1 .. n * Len(s) |-> s[((i - 1) % Len(s)) + 1]]

\* Every way of ways, with s before it.
Then(s, ways) == {s \o w : w \in ways}

\* MAKE_ROUTER_LSA or MAKE_NETWORK_LSA: the LSA tells the neighbours' states
\* and replaces the old one, which is freed.
MakeLSA ==
    <<Lock("db"), Access({"neighbors"}, {"lsa", "db"}), Unlock("db")>>

\* A neighbour's lists are cleared, without a mutex.
Clear(s) == <<Becomes(s), Access({}, {"summary", "request"})>>

-----------------------------------------------------------------------------
(* The ways through the functions of recv_loop.                            *)

\* A Hello that lists us may trigger two elections.
Hello ==
    LET known == IF state = "NONE"
                 THEN <<Writes("neighbors"), Becomes("INIT")>> ELSE <<>>
        twoway == IF state \in {"NONE", "INIT"}
                  THEN {<<Becomes("TWOWAY")>>, <<Becomes("EXSTART")>>}
                  ELSE {<<>>}
        oneway == IF state \in {"NONE", "INIT"} THEN <<>> ELSE Clear("INIT")
    IN Then(known, {oneway} \cup
                   {s \o Times(<<Call("elect")>>, n) : s \in twoway, n \in 0 .. 2})

Elect ==
    {<<Reads("neighbors")>> \o s \o MakeLSA : s \in {<<>>, <<Call("adj_ok")>>}}

\* event_adj_ok: is there to be an adjacency?
AdjOk ==
    CASE state = "TWOWAY" -> {<<>>, <<Becomes("EXSTART")>>}
      [] state \in {"EXSTART"} \cup AtLeastExchange -> {<<>>, <<Becomes("TWOWAY")>>}
      [] OTHER -> {<<>>}

\* process_dd by the state at its switch.
ProcessDD ==
    CASE state = "INIT" ->
            {<<Becomes("TWOWAY")>>, <<Becomes("EXSTART"), Call("exstart")>>}
      [] state = "EXSTART" -> {<<Call("exstart")>>}
      [] state = "EXCHANGE" -> {<<>>, Clear("EXSTART"), <<Call("accept")>>}
      [] state \in {"LOADING", "FULL"} -> {<<>>, Clear("EXSTART")}
      [] OTHER -> {<<>>}

\* A slave answers; a master goes on as in EXCHANGE.
Exstart ==
    {<<>>} \cup Then(<<ClearInit, Call("negotiation_done")>>,
                     {<<Call("produce_dd")>>, <<>>, Clear("EXSTART"),
                      <<Call("accept")>>})

\* Mutant: the database is not locked.
NegotiationUnlocked ==
    {<<Access({"db"}, {"summary"}), Becomes("EXCHANGE")>>}
NegotiationDone ==
    {<<Lock("db"), Access({"db"}, {"summary"}), Unlock("db"),
       Becomes("EXCHANGE")>>}

\* The part of process_dd after its switch: both mutexes per header.
Accept ==
    LET header == <<Lock("request"), Lock("db"),
                    Access({"db"}, {"request"}), Unlock("db"), Unlock("request")>>
    IN {<<Writes("summary")>> \o Times(header, n) \o <<Call(f)>> :
           n \in 0 .. MaxHeaders, f \in {"exchange_done", "produce_dd"}}

\* event_bad_lsreq, for an LSA that is not in the database.
BadLSReq == <<Assert(AtLeastExchange)>> \o Clear("EXSTART")

\* The LSAs are copied to the packet after the database is unlocked; what was
\* not found is a null pointer then.
ProcessLSR ==
    IF state \in AtLeastExchange
    THEN {<<Lock("db"), Reads("db"), Unlock("db"), Reads("lsa")>>}
         \cup {<<Lock("db"), Reads("db")>> \o Times(BadLSReq, n)
                  \o <<Unlock("db"), Assert({})>> : n \in 1 .. 2}
    ELSE {<<>>}

\* Mutant: the database stays locked until the request is removed.
LSUNested ==
    {Times(<<Lock("db"), Access({}, {"lsa", "db"}), Lock("request"),
             Writes("request"), Unlock("request"), Unlock("db")>>, n) \o <<Reads("lsa")>> : n \in 0 .. MaxHeaders}
\* So are the headers to acknowledge.
ProcessLSU ==
    {Times(<<Lock("db"), Access({}, {"lsa", "db"}), Unlock("db"),
             Lock("request"), Writes("request"), Unlock("request")>>, n)
        \o <<Reads("lsa")>> : n \in 0 .. MaxHeaders}

-----------------------------------------------------------------------------
(* The ways through what both threads call, and through send_loop's.       *)

\* The list holds pointers to headers in the database.
ProduceDD ==
    IF dd_init THEN {<<>>}
    ELSE Then(<<Access({"lsa"}, {"summary"})>>,
              {<<>>, <<Call("exchange_done"), Writes("summary")>>})

\* One or two LSAs are made under the request list's mutex.
ExchangeDone ==
    Then(<<Lock("request"), Reads("request")>>,
         {<<Becomes("LOADING"), Unlock("request")>>}
         \cup {<<Becomes("FULL")>> \o Times(MakeLSA, n) \o <<Unlock("request")>> :
                  n \in 1 .. 2})

\* The retransmission timer of the neighbour may expire.
Visit ==
    {<<>>} \cup
    CASE state = "NONE" -> {}
      [] state = "EXSTART" -> {<<Call("produce_dd"), Call("requests")>>}
      [] OTHER -> {<<Call("requests")>>}

Requests ==
    IF state \in {"EXCHANGE", "LOADING"} THEN {<<Call("produce_lsr")>>} ELSE {<<>>}

\* Mutant: an empty list is left locked.
ProduceLSRLocked ==
    Then(<<Lock("request"), Reads("request")>>,
         {<<Unlock("request")>>, <<Call("loading")>>})
ProduceLSR ==
    Then(<<Lock("request"), Reads("request"), Unlock("request")>>,
         {<<>>, <<Call("loading")>>})

Loading == IF state = "LOADING" THEN {<<Call("loading_done")>>} ELSE {<<>>}

LoadingDone == {<<Becomes("FULL")>> \o MakeLSA \o <<Call("update_route")>>}

\* The graph, the networks with the paths, then the kernel's routes.
UpdateRoute ==
    {<<Writes("routing"),
       Lock("db"), Access({"db"}, {"routing"}), Unlock("db"),
       Writes("routing"),
       Lock("db"), Access({"db"}, {"routing"}), Unlock("db"),
       Access({"neighbors"}, {"routing"})>>}

\* What a function asserts of the state.
Asserted(f) ==
    CASE f = "negotiation_done" -> {"EXSTART"}
      [] f = "exchange_done" -> {"EXCHANGE"}
      [] f = "loading_done" -> {"LOADING"}
      [] f \in {"process_dd", "process_lsr", "process_lsu"} -> States \ {"NONE"}
      [] OTHER -> States

Ways(f) ==
    CASE f = "process_hello" -> Hello
      [] f = "process_dd" -> ProcessDD
      [] f = "process_lsr" -> ProcessLSR
      [] f = "process_lsu" -> ProcessLSU
      [] f = "elect" -> Elect
      [] f = "adj_ok" -> AdjOk
      [] f = "exstart" -> Exstart
      [] f = "negotiation_done" -> NegotiationDone
      [] f = "accept" -> Accept
      [] f = "exchange_done" -> ExchangeDone
      [] f = "produce_dd" -> ProduceDD
      [] f = "visit" -> Visit
      [] f = "requests" -> Requests
      [] f = "produce_lsr" -> ProduceLSR
      [] f = "loading" -> Loading
      [] f = "loading_done" -> LoadingDone
      [] f = "update_route" -> UpdateRoute

-----------------------------------------------------------------------------
(* A thread does the first operation it has to do.                         *)

Idle(t) == todo[t] = <<>>
Does(t, op) == ~aborted /\ ~Idle(t) /\ Head(todo[t]).op = op
On(t) == Head(todo[t]).on
Rest(t) == [todo EXCEPT ![t] = Tail(@)]

loops == <<running, recv_at, send_at, frames, finished>>

Acquire(t) ==
    /\ Does(t, "lock")
    /\ holder[On(t)] = None
    /\ holder' = [holder EXCEPT ![On(t)] = t]
    /\ todo' = Rest(t)
    /\ UNCHANGED <<state, dd_init, loops, aborted>>

Release(t) ==
    /\ Does(t, "unlock")
    /\ holder' = [holder EXCEPT ![On(t)] = None]
    /\ todo' = Rest(t)
    /\ UNCHANGED <<state, dd_init, loops, aborted>>

Use(t) ==
    /\ Does(t, "access")
    /\ todo' = Rest(t)
    /\ UNCHANGED <<holder, state, dd_init, loops, aborted>>

ChangeState(t) ==
    /\ Does(t, "state")
    /\ state' = On(t)
    /\ todo' = Rest(t)
    /\ UNCHANGED <<holder, dd_init, loops, aborted>>

\* An assertion; one that never holds is the use of a null pointer.
AssertState(t) ==
    /\ Does(t, "assert")
    /\ IF state \in On(t) THEN todo' = Rest(t) /\ UNCHANGED aborted
                          ELSE aborted' = TRUE /\ UNCHANGED todo
    /\ UNCHANGED <<holder, state, dd_init, loops>>

ClearDDInit(t) ==
    /\ Does(t, "clear")
    /\ dd_init' = FALSE
    /\ todo' = Rest(t)
    /\ UNCHANGED <<holder, state, loops, aborted>>

Enter(t) ==
    /\ Does(t, "call")
    /\ IF state \in Asserted(On(t))
       THEN /\ \E way \in Ways(On(t)) :
                  todo' = [todo EXCEPT ![t] = way \o Tail(@)]
            /\ UNCHANGED aborted
       ELSE aborted' = TRUE /\ UNCHANGED todo
    /\ UNCHANGED <<holder, state, dd_init, loops>>

Work(t) ==
    \/ Acquire(t)
    \/ Release(t)
    \/ Use(t)
    \/ ChangeState(t)
    \/ AssertState(t)
    \/ ClearDDInit(t)
    \/ Enter(t)

-----------------------------------------------------------------------------
(* The loops and main.                                                     *)

\* Mutants: no end; the first frame of a round ends it.
AfterPast(i) == i + 1
AfterOne(i) == 0
\* The next interface of a round, 0 at the end.
After(i) == (i + 1) % (Intfs + 1)

shared == <<holder, state, dd_init, aborted>>

\* while (running), in both loops.
RecvTest ==
    /\ ~aborted /\ Idle("recv") /\ recv_at = 0 /\ "recv" \notin finished
    /\ IF running THEN recv_at' = 1 /\ UNCHANGED finished
                  ELSE finished' = finished \cup {"recv"} /\ UNCHANGED recv_at
    /\ UNCHANGED <<todo, running, send_at, frames, shared>>

SendTest ==
    /\ ~aborted /\ Idle("send") /\ send_at = 0 /\ "send" \notin finished
    /\ IF running THEN send_at' = 1 /\ UNCHANGED finished
                  ELSE finished' = finished \cup {"send"} /\ UNCHANGED send_at
    /\ UNCHANGED <<todo, running, recv_at, frames, shared>>

\* recvfrom blocks until there is a frame; frames of other protocols, our
\* own packets and LSAcks are dropped.
ReceiveFrame ==
    /\ ~aborted /\ Idle("recv") /\ recv_at \in frames
    /\ \E way \in {<<>>} \cup
            IF recv_at = 1
            THEN {<<Call(f)>> : f \in {"process_hello", "process_dd",
                                       "process_lsr", "process_lsu"}}
            ELSE {} :
          todo' = [todo EXCEPT !["recv"] = way]
    /\ frames' = frames \ {recv_at}
    /\ recv_at' = After(recv_at)
    /\ UNCHANGED <<running, send_at, finished, shared>>

\* A Hello if it is time, then the neighbours of the interface.
ServeInterface ==
    /\ ~aborted /\ Idle("send") /\ send_at # 0
    /\ \E hello \in {<<>>, <<Reads("neighbors")>>} :
          todo' = [todo EXCEPT !["send"] =
                      hello \o IF send_at = 1
                               THEN <<Reads("neighbors"), Call("visit")>>
                               ELSE <<>>]
    /\ send_at' = After(send_at)
    /\ UNCHANGED <<running, recv_at, frames, finished, shared>>

\* The command "debug" looks edges and paths up with operator[], which
\* inserts.
CommandDebug ==
    /\ ~aborted /\ running /\ Idle("main")
    /\ todo' = [todo EXCEPT !["main"] = <<Writes("routing")>>]
    /\ UNCHANGED <<loops, shared>>

CommandExit ==
    /\ ~aborted /\ running /\ Idle("main")
    /\ running' = FALSE
    /\ UNCHANGED <<todo, recv_at, send_at, frames, finished, shared>>

\* main joins the two threads and returns.
Join ==
    /\ ~aborted /\ ~running /\ {"recv", "send"} = finished
    /\ finished' = Threads
    /\ UNCHANGED <<todo, running, recv_at, send_at, frames, shared>>

\* Another router, or any host of the network, sends; none has to.
Arrive(i) ==
    /\ "main" \notin finished
    /\ frames' = frames \cup {i}
    /\ UNCHANGED <<todo, running, recv_at, send_at, finished, shared>>

Init ==
    /\ todo = [t \in Threads |-> <<>>]
    /\ holder = [m \in Mutexes |-> None]
    /\ state = "NONE"
    /\ dd_init = TRUE
    /\ running = TRUE
    /\ recv_at = 0 /\ send_at = 0
    /\ frames = {}
    /\ finished = {}
    /\ aborted = FALSE

Recv == Work("recv") \/ RecvTest \/ ReceiveFrame
Send == Work("send") \/ SendTest \/ ServeInterface

Next ==
    \/ Recv
    \/ Send
    \/ Use("main") \/ CommandDebug \/ CommandExit \/ Join
    \/ \E i \in 1 .. Intfs : Arrive(i)

\* Threads are scheduled; commands and frames may never come.  recv_loop gets
\* a mutex it waits for although send_loop locks it again and again, because
\* send_loop sleeps a second a round.
Fairness ==
    /\ WF_vars(Recv) /\ SF_vars(Acquire("recv"))
    /\ WF_vars(Send)
    /\ WF_vars(Use("main")) /\ WF_vars(Join)

Spec == Init /\ [][Next]_vars /\ Fairness

-----------------------------------------------------------------------------
(* Properties.                                                             *)

\* Every variable has its type.
TypeOK ==
    /\ todo \in [Threads -> Seq(Operations)]
    /\ holder \in [Mutexes -> Threads \cup {None}]
    /\ state \in States
    /\ dd_init \in BOOLEAN /\ running \in BOOLEAN /\ aborted \in BOOLEAN
    /\ recv_at \in 0 .. Intfs /\ send_at \in 0 .. Intfs
    /\ frames \subseteq 1 .. Intfs
    /\ finished \subseteq Threads

\* No two threads are about to use object o with one of them writing it.
Changes(t, o) == Does(t, "access") /\ o \in Head(todo[t]).writes
Uses(t, o) == Does(t, "access") /\ o \in Head(todo[t]).reads
Exclusive(o) ==
    \A t, u \in Threads :
        t # u => ~(Changes(t, o) /\ (Changes(u, o) \/ Uses(u, o)))

\* lsdb.hpp:72: the lists of the database are only used under its mutex, by
\* every way through every handler, so that no thread walks a list another
\* one changes.
DbListExclusive == Exclusive("db")

\* A mutex is unlocked by the thread that locked it, never locked twice by
\* one thread (std::mutex is not recursive), and free when its thread is at
\* its loop: every early return unlocks.
LockDiscipline ==
    \A t \in Threads :
        /\ Does(t, "lock") => holder[On(t)] # t
        /\ Does(t, "unlock") => holder[On(t)] = t
        /\ Idle(t) => \A m \in Mutexes : holder[m] # t

\* No set of threads waits for each other: the request list's mutex is always
\* taken before the database's (packet.cpp:310, neighbor.cpp:123).
NoDeadlock ==
    \A W \in (SUBSET Threads) \ {{}} :
        \E t \in W : ~(Does(t, "lock") /\ holder[On(t)] \in W)

\* recv_loop is in the recvfrom of an interface that has no frame.  It has no
\* timeout (transit.cpp:36).
Waiting == Idle("recv") /\ recv_at \notin frames \cup {0}

\* After the command "exit" the process ends, unless an interface stays quiet
\* that recv_loop waits for: nothing else, no mutex and no other thread, keeps
\* it from ending.
ExitEnds == ~running ~> (finished = Threads \/ aborted \/ []Waiting)

\* A frame does not wait forever while the process runs, unless recv_loop waits
\* forever for one on another interface: each has its turn, and the mutexes
\* recv_loop shares with send_loop always come free.
Served ==
    \A i \in 1 .. Intfs :
        (i \in frames) ~> (i \notin frames \/ ~running \/ aborted \/ []Waiting)

=============================================================================

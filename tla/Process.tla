------------------------------ MODULE Process -------------------------------
(***************************************************************************)
(* The process from its start to its end (main.cpp, init_interfaces, the   *)
(* destructor of Interface), and what it has open.  Threads has what       *)
(* happens in between; here it may go on forever, or an assertion ends it. *)
(* Promiscuous mode is not followed: what sets it back checks nothing.     *)
(*                                                                         *)
(* A new descriptor is the lowest free one.  new Interface() sets send_fd  *)
(* to 0, so to delete an interface that has no socket to send with yet     *)
(* closes descriptor 0, whatever that is by then.  With -d, a detached     *)
(* thread forks the daemon while main goes on to its end.                  *)
(***************************************************************************)
EXTENDS Integers, Sequences, FiniteSetsExt

CONSTANT Intfs  \* number of interfaces but for lo and docker

ASSUME ProcessAssumption == Intfs \in Nat

Descriptors == 0 .. 5 + 2 * Intfs

\* What a descriptor may be of; interface 0 is none.
Free == [kind |-> "free", intf |-> 0]
Stdin == [kind |-> "stdin", intf |-> 0]
Output == [kind |-> "output", intf |-> 0]
Route == [kind |-> "route", intf |-> 0]
Control == [kind |-> "control", intf |-> 0]
Log == [kind |-> "log", intf |-> 0]
SendSocket(i) == [kind |-> "send", intf |-> i]
RecvSocket(i) == [kind |-> "recv", intf |-> i]

VARIABLES
    daemon,   \* started with -d
    console,  \* started with descriptor 0 open
    main,     \* where main is
    next,     \* the interface it is at
    intfs,    \* this_interfaces
    failed,   \* history: interfaces that failed before send_fd was set
    thread,   \* the detached thread
    child,    \* the daemon
    fds,      \* what the process has open, and what the daemon has
    control,  \* fd of init_interfaces, later of the loop that restores
    typed     \* somebody has typed "exit"

vars == <<daemon, console, main, next, intfs, failed, thread, child, fds, control,
          typed>>

-----------------------------------------------------------------------------
(* Descriptors.                                                            *)

Lowest(f) == Min({n \in Descriptors : f[n] = Free})
Opened(f, what) == [f EXCEPT ![Lowest(f)] = what]
Closed(f, n) == [f EXCEPT ![n] = Free]

\* The destructor of an interface.
Deleted(f, send_fd) == Closed(f, send_fd)

Open(what) == fds' = [fds EXCEPT !.process = Opened(@, what)]

-----------------------------------------------------------------------------
(* init_interfaces.                                                        *)

\* kernel_route_fd is opened before main.
Before(f) == Opened(f, Route)

Start ==
    /\ main = "start"
    /\ \/ /\ Open(Control)
          /\ control' = Lowest(fds.process)
          /\ main' = "init" /\ next' = 1
       \/ /\ main' = "ended"
          /\ UNCHANGED <<fds, control, next>>
    /\ UNCHANGED <<daemon, console, intfs, failed, thread, child, typed>>

\* Mutant: one entry too many.
ListedPast == main = "init" /\ next <= Intfs + 1
Listed == main = "init" /\ next <= Intfs

\* Asking for the addresses, the index or the flags, or setting these, fails.
QueryFails ==
    /\ Listed
    /\ fds' = [fds EXCEPT !.process = Deleted(@, 0)]
    /\ failed' = failed \cup {next} /\ next' = next + 1
    /\ UNCHANGED <<daemon, console, main, intfs, thread, child, control, typed>>

\* No socket to send: with or without one that could not be bound, which
\* stays open.
SendFails ==
    /\ Listed
    /\ \E f \in {fds.process, Opened(fds.process, SendSocket(next))} :
          fds' = [fds EXCEPT !.process = Deleted(f, 0)]
    /\ failed' = failed \cup {next} /\ next' = next + 1
    /\ UNCHANGED <<daemon, console, main, intfs, thread, child, control, typed>>

WithSend == Opened(fds.process, SendSocket(next))

\* The same of the socket to receive, which nothing closes.
RecvFails ==
    /\ Listed
    /\ \E f \in {WithSend, Opened(WithSend, RecvSocket(next))} :
          fds' = [fds EXCEPT !.process = Deleted(f, Lowest(fds.process))]
    /\ next' = next + 1
    /\ UNCHANGED <<daemon, console, main, intfs, failed, thread, child, control,
                   typed>>

SetUp ==
    /\ Listed
    /\ fds' = [fds EXCEPT !.process = Opened(WithSend, RecvSocket(next))]
    /\ intfs' = Append(intfs, [intf |-> next, send |-> Lowest(fds.process),
                               recv |-> Lowest(WithSend)])
    /\ next' = next + 1
    /\ UNCHANGED <<daemon, console, main, failed, thread, child, control,
                   typed>>

\* Mutant: descriptor 0 is closed.
InitClosedZero(f) == Closed(f, 0)
InitClosed(f) == Closed(f, control)

\* init_interfaces returns; a detached thread or main runs the protocol.
InitDone ==
    /\ main = "init" /\ next = Intfs + 1
    /\ fds' = [fds EXCEPT !.process = InitClosed(@)]
    /\ IF daemon THEN main' = "restore" /\ thread' = "forking"
                 ELSE main' = "commands" /\ UNCHANGED thread
    /\ next' = 1
    /\ UNCHANGED <<daemon, console, intfs, failed, child, control, typed>>

-----------------------------------------------------------------------------
(* The daemon.                                                             *)

\* The thread goes when the process ends, forked or not.
Fork ==
    /\ thread = "forking" /\ main # "ended"
    /\ \/ /\ fds' = [fds EXCEPT !.daemon = fds.process]
          /\ child' = "detaching" /\ thread' = "forked"
          /\ UNCHANGED main
       \/ /\ main' = "ended"
          /\ UNCHANGED <<fds, child, thread>>
    /\ UNCHANGED <<daemon, console, next, intfs, failed, control, typed>>

\* exit() in the thread ends the process wherever main is.
ForkerExits ==
    /\ thread = "forked" /\ main # "ended"
    /\ main' = "ended"
    /\ UNCHANGED <<daemon, console, next, intfs, failed, thread, child, fds,
                   control, typed>>

\* Mutant: the daemon closes all it has inherited.
DetachedAll(f) ==
    [n \in Descriptors |-> IF n \in {1, 2} THEN Log ELSE Free]
\* The log takes the place of both outputs; its own descriptor and 0 are
\* closed.
Detached(f) ==
    Closed(Closed([Opened(f, Log) EXCEPT ![1] = Log, ![2] = Log], Lowest(f)), 0)

\* setsid, chdir or open may fail.
Detach ==
    /\ child = "detaching"
    /\ \/ fds' = [fds EXCEPT !.daemon = Detached(@)] /\ child' = "commands"
       \/ child' = "ended" /\ UNCHANGED fds
    /\ UNCHANGED <<daemon, console, main, next, intfs, failed, thread, control,
                   typed>>

-----------------------------------------------------------------------------
(* Commands, and the end.                                                  *)

TypeExit ==
    /\ ~typed /\ typed' = TRUE
    /\ UNCHANGED <<daemon, console, main, next, intfs, failed, thread, child,
                   fds, control>>

\* What main reads of descriptor 0 is what was typed, or, if that is a socket
\* now, what words the packets have.  With nothing there main goes on trying,
\* and so does the daemon.
ReadExit ==
    /\ main = "commands"
    /\ LET input == fds.process[0]
       IN  \/ input = Stdin /\ typed
           \/ input.kind \in {"send", "recv"}
    /\ main' = "join"
    /\ UNCHANGED <<daemon, console, next, intfs, failed, thread, child, fds,
                   control, typed>>

\* Both loops have ended, if they ever do, see Threads.
Join ==
    /\ main = "join" /\ main' = "restore"
    /\ UNCHANGED <<daemon, console, next, intfs, failed, thread, child, fds,
                   control, typed>>

\* An assertion of the loops ends the process, or the daemon, at once.
Abort ==
    /\ \/ main \in {"commands", "join"} /\ main' = "ended" /\ UNCHANGED child
       \/ child = "commands" /\ child' = "ended" /\ UNCHANGED main
    /\ UNCHANGED <<daemon, console, next, intfs, failed, thread, fds, control,
                   typed>>

\* A turn of the loop that takes promiscuous mode back; no result is checked.
\* The thread may fork in the middle of it.
Restore ==
    /\ main = "restore" /\ next <= Len(intfs)
    /\ \/ /\ Open(Control)
          /\ control' = Lowest(fds.process)
          /\ main' = "restoring" /\ UNCHANGED next
       \/ next' = next + 1 /\ UNCHANGED <<fds, control, main>>
    /\ UNCHANGED <<daemon, console, intfs, failed, thread, child, typed>>

RestoreDone ==
    /\ main = "restoring" /\ main' = "restore"
    /\ fds' = [fds EXCEPT !.process = Closed(@, control)]
    /\ next' = next + 1
    /\ UNCHANGED <<daemon, console, intfs, failed, thread, child, control,
                   typed>>

Return ==
    /\ main = "restore" /\ next > Len(intfs)
    /\ main' = "ended"
    /\ UNCHANGED <<daemon, console, next, intfs, failed, thread, child, fds,
                   control, typed>>

Init ==
    /\ daemon \in BOOLEAN /\ console \in BOOLEAN
    /\ main = "start" /\ next = 1 /\ control = 0
    /\ intfs = <<>> /\ failed = {}
    /\ thread = "none" /\ child = "none" /\ typed = FALSE
    /\ fds = [process |-> Before([n \in Descriptors |->
                             IF n = 0 /\ console THEN Stdin
                             ELSE IF n \in {1, 2} THEN Output ELSE Free]),
              daemon |-> [n \in Descriptors |-> Free]]

Main ==
    \/ Start
    \/ QueryFails \/ SendFails \/ RecvFails \/ SetUp
    \/ InitDone
    \/ ReadExit
    \/ Restore \/ RestoreDone \/ Return
Thread == Fork \/ ForkerExits

Next == Main \/ Join \/ Abort \/ Thread \/ Detach \/ TypeExit

\* Threads run on, but main may wait for the loops forever; nobody has to type
\* anything.
Spec == Init /\ [][Next]_vars /\ WF_vars(Main) /\ WF_vars(Thread)

-----------------------------------------------------------------------------
(* Properties.                                                             *)

Files ==
    {Free, Stdin, Output, Route, Control, Log}
    \cup {SendSocket(i) : i \in 1 .. Intfs} \cup {RecvSocket(i) : i \in 1 .. Intfs}

\* Every variable has its type: descriptors do not run out, and no interface
\* beyond the list is set up.
TypeOK ==
    /\ daemon \in BOOLEAN /\ console \in BOOLEAN /\ typed \in BOOLEAN
    /\ main \in {"start", "init", "commands", "join", "restore", "restoring", "ended"}
    /\ next \in 1 .. Intfs + 1
    /\ intfs \in Seq([intf : 1 .. Intfs, send : Descriptors, recv : Descriptors])
    /\ failed \subseteq 1 .. Intfs
    /\ thread \in {"none", "forking", "forked"}
    /\ child \in {"none", "detaching", "commands", "ended"}
    /\ fds \in [process : [Descriptors -> Files], daemon : [Descriptors -> Files]]
    /\ control \in Descriptors

HasSockets(f, k) ==
    /\ f[intfs[k].send] = SendSocket(intfs[k].intf)
    /\ f[intfs[k].recv] = RecvSocket(intfs[k].intf)
Zero(k) == intfs[k].send = 0
FailedBefore(k) == \E i \in failed : i < intfs[k].intf
FailedAfter(k) == \E i \in failed : i > intfs[k].intf

\* An interface keeps its two sockets although a failed one closes descriptor
\* 0, unless 0 is its own socket to send, which takes a failure before it, and
\* is closed by another failure or by the daemon.  The socket for routes is
\* lost only if it is 0, which was free at the start then.
SocketsKept ==
    /\ \A k \in DOMAIN intfs :
          /\ Zero(k) => FailedBefore(k)
          /\ (Zero(k) /\ FailedAfter(k)) \/ HasSockets(fds.process, k)
          /\ Zero(k) \/ child # "commands" \/ HasSockets(fds.daemon, k)
    /\ (console \/ failed = {}) => \E n \in Descriptors : fds.process[n] = Route
    /\ (console /\ child = "commands") => \E n \in Descriptors : fds.daemon[n] = Route

\* What is typed is heard if all interfaces could be set up, and the process
\* ends unless it waits for its loops forever; with -d the first process always
\* ends, whichever thread ends it.
Ends ==
    /\ (main = "commands" /\ failed = {} /\ console /\ typed)
          ~> (main = "ended" \/ [](main = "join"))
    /\ daemon ~> (main = "ended")
=============================================================================

---------------------------- MODULE ReactorSingle ----------------------------
(***************************************************************************)
(* src/reactor_single.c: the echo server on a fixed event table.  Between  *)
(* two calls of epoll_wait the loop looks at SCAN slots of the table and   *)
(* closes those that have been idle for too long.                          *)
(*                                                                         *)
(* Time passes in ticks; age[s] is now - last_active of slot s, counted up *)
(* to TIMEOUT.  The table is indexed by descriptor number: the code relies *)
(* on a descriptor limit within MAX_EPOLL_EVENTS.  It is also taken to     *)
(* start zeroed: ntyreactor_init does not clear what malloc returns, which *)
(* for a block of this size comes straight from the system.                *)
(***************************************************************************)
EXTENDS EpollReactor, SequencesExt

CONSTANTS
    SCAN,           \* slots looked at in one round (100)
    TIMEOUT,        \* ticks after which a slot is idle (60 seconds)
    Nothing         \* an empty buffer

ASSUME TableAssumption == NOFILE <= MAX_EPOLL_EVENTS
ASSUME ScanAssumption  == SCAN \in 1 .. MAX_EPOLL_EVENTS /\ TIMEOUT \in Nat \ {0}
ASSUME EmptyAssumption == Nothing \notin Msgs

VARIABLES
    buffer, age,    \* fields of the slots
    checkpos,       \* where the scan goes on
    pc,             \* where the loop is
    received,       \* history: what was received and not echoed, per connection
    quiet,          \* history: ticks since a connection was accepted or served
    missed          \* history: rounds of the scan that left an idle slot open

vars == <<r, batch, sockets, buffer, age, checkpos, pc, received, quiet, missed>>

Slots == 0 .. MAX_EPOLL_EVENTS - 1

\* init_sock, ntyreactor_init and ntyreactor_addlistener.
Init ==
    /\ r = LET start == [file  |-> [fd \in Fds |-> CASE fd = FIRST_FD -> "listener"
                                                     [] fd = FIRST_FD + 1 -> "epoll"
                                                     [] OTHER -> "free"],
                         watch |-> [fd \in Fds |-> Unwatched],
                         slot  |-> [s \in Slots |-> Unused]]
           IN  nty_event_add(nty_event_set(start, FIRST_FD, FIRST_FD, "accept"), FIRST_FD, FIRST_FD, "in")
    /\ SocketsInit
    /\ buffer = [s \in Slots |-> Nothing] /\ age = [s \in Slots |-> 0]
    /\ checkpos = 0
    /\ pc = "scan"
    /\ received = [c \in Conns |-> Nothing] /\ quiet = [c \in Conns |-> 0]
    /\ missed = [s \in Slots |-> 0]

Capped(n) == IF n < TIMEOUT THEN n + 1 ELSE TIMEOUT

Tick ==
    /\ age' = [s \in Slots |-> Capped(age[s])]
    /\ quiet' = [c \in Conns |-> IF FdsOf(c) = {} THEN 0 ELSE Capped(quiet[c])]
    /\ UNCHANGED <<r, batch, sockets, buffer, checkpos, pc, received, missed>>

-----------------------------------------------------------------------------
(* ntyreactor_run                                                          *)

\* Mutation: every round starts at slot 0.
Scanned_FromStart == 0 .. SCAN - 1

\* The slots of one round; checkpos goes back to 0 at the end of the table.
Scanned == {(checkpos + i) % MAX_EPOLL_EVENTS : i \in 0 .. SCAN - 1}

NextPos == (checkpos + SCAN) % MAX_EPOLL_EVENTS

Idle(s) == r.slot[s].status = 1 /\ age[s] >= TIMEOUT

\* Idle slots are closed, the listener's as well: then nobody can connect.
Scan ==
    /\ pc = "scan"
    /\ LET idle  == {s \in Scanned : Idle(s)}
           fds   == {r.slot[s].fd : s \in idle}
           gone  == {r.file[fd] : fd \in fds}
           lost  == (gone \cap Conns) \cup (IF "listener" \in gone THEN ToSet(backlog) ELSE {})
       IN  /\ r' = [file  |-> [fd \in Fds |-> IF fd \in fds THEN "free" ELSE r.file[fd]],
                    watch |-> [fd \in Fds |-> IF fd \in fds THEN Unwatched ELSE r.watch[fd]],
                    slot  |-> [s \in Slots |-> IF s \in idle THEN [r.slot[s] EXCEPT !.status = 0]
                                               ELSE r.slot[s]]]
           /\ net' = [c \in Conns |-> IF c \in lost THEN "none" ELSE net[c]]
           /\ unread' = [c \in Conns |-> IF c \in lost THEN << >> ELSE unread[c]]
           /\ blocked' = [c \in Conns |-> c \notin lost /\ blocked[c]]
           /\ received' = [c \in Conns |-> IF c \in lost THEN Nothing ELSE received[c]]
           /\ quiet' = [c \in Conns |-> IF c \in lost THEN 0 ELSE quiet[c]]
           /\ backlog' = IF "listener" \in gone THEN << >> ELSE backlog
           /\ missed' = [s \in Slots |-> IF Idle(s) /\ s \notin idle THEN missed[s] + 1 ELSE 0]
    /\ checkpos' = NextPos
    /\ pc' = "wait"
    /\ UNCHANGED <<batch, buffer, age>>

EpollWait(S) ==
    /\ pc = "wait"
    /\ batch' = {Report(fd) : fd \in S}
    /\ pc' = "batch"
    /\ UNCHANGED <<r, sockets, buffer, age, checkpos, received, quiet, missed>>

EpollTimeout ==
    /\ pc = "wait" /\ ReadyFds = {}
    /\ pc' = "scan"
    /\ UNCHANGED <<r, batch, sockets, buffer, age, checkpos, received, quiet, missed>>

\* The callback of event e returned and left the table as k.
Handled(e, k) ==
    /\ r' = k
    /\ batch' = Wanted(r', batch \ {e})
    /\ pc' = IF batch' = {} THEN "scan" ELSE "batch"

Called(e, callback) == pc = "batch" /\ e \in batch /\ r.slot[e.slot].callback = callback

\* Mutation: last_active is not set.
Touch_KeepsAge(s, c) ==
    /\ age' = age
    /\ quiet' = [quiet EXCEPT ![c] = 0]

\* nty_event_set sets last_active.
Touch(s, c) ==
    /\ age' = [age EXCEPT ![s] = 0]
    /\ quiet' = [quiet EXCEPT ![c] = 0]

-----------------------------------------------------------------------------
(* accept_cb                                                               *)

Watching(k, fd) == nty_event_add(nty_event_set(k, fd, fd, "recv"), fd, fd, "in")

\* accept_cb looks for any slot with status 0 and then uses the slot of the
\* descriptor.  (fcntl does not fail on a descriptor that accept just returned.)
FreeSlot == \E s \in FIRST_FD .. MAX_EPOLL_EVENTS - 1 : r.slot[s].status = 0

Accept(e) ==
    /\ Called(e, "accept") /\ FreeFds # {} /\ FreeSlot
    /\ LET c == Head(backlog) IN
       /\ Handled(e, Watching([r EXCEPT !.file[LowestFd] = c], LowestFd))
       /\ backlog' = Tail(backlog)
       /\ Touch(LowestFd, c)
    /\ UNCHANGED <<net, unread, blocked, buffer, checkpos, received, missed>>

\* accept may fail at any time, and does when no descriptor is left: the
\* connection stays in the backlog.
AcceptFails(e) ==
    /\ Called(e, "accept")
    /\ Handled(e, r)
    /\ UNCHANGED <<sockets, buffer, age, checkpos, received, quiet, missed>>

-----------------------------------------------------------------------------
(* recv_cb and send_cb                                                     *)

ConnOf(e) == r.file[r.slot[e.slot].fd]

Forget(c) ==
    /\ received' = [received EXCEPT ![c] = Nothing]
    /\ quiet' = [quiet EXCEPT ![c] = 0]

\* Mutation: input goes to a buffer that all slots share.
Stored_Shared(s, m) == [t \in Slots |-> m]

Stored(s, m) == [buffer EXCEPT ![s] = m]

EchoNext(e) ==
    LET fd == r.slot[e.slot].fd IN Rearm(r, fd, fd, "send", "out")

RecvData(e) ==
    /\ Called(e, "recv")
    /\ LET fd == r.slot[e.slot].fd
           c  == ConnOf(e)
       IN  /\ unread[c] # << >>
           /\ Handled(e, EchoNext(e))
           /\ buffer' = Stored(fd, unread[c])
           /\ received' = [received EXCEPT ![c] = unread[c]]
           /\ unread' = [unread EXCEPT ![c] = << >>]
           /\ Touch(fd, c)
    /\ UNCHANGED <<backlog, net, blocked, checkpos, missed>>

\* End of stream or an error.
RecvClosed(e) ==
    /\ Called(e, "recv")
    /\ LET fd == r.slot[e.slot].fd
           c  == ConnOf(e)
       IN  /\ unread[c] = << >> /\ net[c] \in {"fin", "rst"}
           /\ Handled(e, Close(nty_event_del(r, fd, fd), fd))
           /\ Disconnect(c) /\ Forget(c)
    /\ UNCHANGED <<backlog, buffer, age, checkpos, missed>>

\* What does not fit is dropped and the socket is full.
SendEcho(e, full) ==
    /\ Called(e, "send")
    /\ LET fd == r.slot[e.slot].fd
           c  == ConnOf(e)
       IN  /\ net[c] # "rst"
           /\ Handled(e, Rearm(r, fd, fd, "recv", "in"))
           /\ received' = [received EXCEPT ![c] = Nothing]
           /\ blocked' = [blocked EXCEPT ![c] = full]
           /\ Touch(fd, c)
    /\ UNCHANGED <<backlog, net, unread, buffer, checkpos, missed>>

SendError(e) ==
    /\ Called(e, "send")
    /\ LET fd == r.slot[e.slot].fd
           c  == ConnOf(e)
       IN  /\ net[c] = "rst"
           /\ Handled(e, nty_event_del(Close(r, fd), fd, fd))
           /\ Disconnect(c) /\ Forget(c)
    /\ UNCHANGED <<backlog, buffer, age, checkpos, missed>>

\* SIGPIPE is not ignored: writing to a connection that is reset may end the process.
Killed ==
    /\ \E e \in batch : Called(e, "send") /\ net[ConnOf(e)] = "rst"
    /\ pc' = "dead"
    /\ UNCHANGED <<r, batch, sockets, buffer, age, checkpos, received, quiet, missed>>

-----------------------------------------------------------------------------
Callback(e) ==
    \/ Accept(e) \/ AcceptFails(e)
    \/ RecvData(e) \/ RecvClosed(e)
    \/ \E full \in BOOLEAN : SendEcho(e, full)
    \/ SendError(e)

ServerStep ==
    \/ Scan \/ EpollTimeout
    \/ pc = "wait" /\ \E S \in Reports : EpollWait(S)
    \/ \E e \in batch : Callback(e)

Next ==
    \/ ServerStep \/ Killed \/ Tick
    \/ ClientStep /\ UNCHANGED <<r, batch, buffer, age, checkpos, pc, received, quiet, missed>>

Spec == Init /\ [][Next]_vars

-----------------------------------------------------------------------------
(* Properties.                                                             *)

\* Every variable has its type.
TypeOK ==
    /\ r.file \in [Fds -> Conns \cup {"free", "listener", "epoll"}]
    /\ r.watch \in [Fds -> {Unwatched} \cup ({"in", "out"} \X Slots)]
    /\ r.slot \in [Slots -> [fd : Slots, events : {"none", "in", "out"},
                             callback : {"none", "accept", "recv", "send"}, status : {0, 1}]]
    /\ SocketsOK
    /\ batch \subseteq [slot : Slots, events : {"in", "out"}, of : Conns \cup {"listener"}]
    /\ buffer \in [Slots -> Seq(Msgs) \cup {Nothing}]
    /\ age \in [Slots -> 0 .. TIMEOUT] /\ quiet \in [Conns -> 0 .. TIMEOUT]
    /\ checkpos \in Slots /\ missed \in [Slots -> Nat]
    /\ pc \in {"scan", "wait", "batch", "dead"}
    /\ received \in [Conns -> Seq(Msgs) \cup {Nothing}]

\* Every open descriptor is registered for what its callback expects, through
\* its own slot, and the slot of a closed one can be used again, whoever closed
\* it: a callback or the scan (c:43-91, c:275-292).  The connection limit of
\* accept_cb, which leaks what it has accepted, is not reached (c:174-182).
Watched ==
    /\ FreeFds # {} => FreeSlot
    /\ \A fd \in Fds \ {FIRST_FD + 1} :
           LET ev == r.slot[fd] IN
           IF r.file[fd] = "free" THEN r.watch[fd] = Unwatched /\ ev.status = 0
           ELSE /\ ev.fd = fd /\ ev.status = 1
                /\ r.watch[fd] = <<ev.events, fd>>
                /\ ev.events = IF ev.callback = "send" THEN "out" ELSE "in"

\* What is about to be echoed is what this connection sent (c:98-109, c:133),
\* although the buffer belongs to a slot that other connections have used.
EchoesOwnInput ==
    \A c \in Conns, fd \in Fds :
        r.file[fd] = c /\ r.slot[fd].callback = "send" => buffer[fd] = received[c]

\* The scan closes no connection that was accepted or served less than TIMEOUT
\* ago, though last_active belongs to a slot that others have used (c:285-287).
ServedStaysOpen ==
    [][\A c \in Conns :
          pc = "scan" /\ FdsOf(c) # {} /\ FdsOf(c)' = {} => quiet[c] >= TIMEOUT]_vars

\* A slot that is idle is found within the rounds that go once through the
\* table, wherever it lies and wherever the scan stands (c:271-292).
IdleIsFound == \A s \in Slots : missed[s] * SCAN < MAX_EPOLL_EVENTS

\* The table, the descriptors and epoll, as one invariant of the runs.
SlotsOK == TypeOK /\ Watched
=============================================================================

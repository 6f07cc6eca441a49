---------------------------- MODULE EpollReactor ----------------------------
(***************************************************************************)
(* What src/webserver.c and src/reactor_single.c have in common: a table   *)
(* of struct ntyevent, one slot per descriptor, and nty_event_set, _add    *)
(* and _del, which keep it in step with the interest list of epoll.        *)
(*                                                                         *)
(* A reactor is a record r:                                                *)
(*   r.file[fd]    what the descriptor refers to                           *)
(*   r.watch[fd]   its entry in the interest list: <<events, slot>>        *)
(*   r.slot[s]     the fields of the struct ntyevent at s                  *)
(* Handlers are compositions of the operators below, in the order of the   *)
(* calls.  The kernel's part (file, watch, the sockets) is external.  The  *)
(* bytes of a stream are messages; recv returns all that has arrived.      *)
(***************************************************************************)
EXTENDS Integers, Sequences, FiniteSets

CONSTANTS
    MAX_EPOLL_EVENTS,   \* slots per block, and events per epoll_wait
    FIRST_FD,           \* lowest descriptor that is free when main starts
    NOFILE,             \* descriptors the process may have
    Conns,              \* connections that clients make
    Msgs,               \* what clients send
    MaxUnread           \* bound: messages that wait in one socket

ASSUME FdAssumption ==
    /\ MAX_EPOLL_EVENTS \in Nat \ {0} /\ FIRST_FD \in Nat /\ NOFILE \in Nat
    /\ FIRST_FD + 2 < NOFILE
ASSUME ConnAssumption == Conns \cap {"free", "listener", "epoll"} = {}

ASSUME UnreadAssumption == MaxUnread \in Nat \ {0}

VARIABLES
    r,              \* the reactor
    batch,          \* what epoll_wait returned and the loop has not handled yet
    backlog,        \* connections that wait for accept
    net,            \* per connection: "none", "up", "fin" or "rst"
    unread,         \* per connection: messages the server has not received
    blocked         \* per connection: the socket takes no more output

sockets == <<backlog, net, unread, blocked>>

Fds == FIRST_FD .. NOFILE - 1
Unwatched == << >>

Unused == [fd |-> 0, events |-> "none", callback |-> "none", status |-> 0]

-----------------------------------------------------------------------------
(* The event table.                                                        *)

nty_event_set(k, s, fd, callback) ==
    [k EXCEPT !.slot[s].fd = fd, !.slot[s].callback = callback, !.slot[s].events = "none"]

\* EPOLL_CTL_MOD when status says the descriptor is registered, else ADD;
\* epoll_ctl refuses a closed descriptor, a second ADD and a MOD of nothing.
nty_event_add(k, s, fd, events) ==
    [k EXCEPT !.slot[s].events = events,
              !.slot[s].status = 1,
              !.watch[fd] = IF k.file[fd] # "free" /\ ((k.slot[s].status = 1) <=> (@ # Unwatched))
                            THEN <<events, s>> ELSE @]

\* Mutation: status stays 1.
nty_event_del_KeepsStatus(k, s, fd) ==
    [k EXCEPT !.watch[fd] = IF k.slot[s].status = 1 THEN Unwatched ELSE @]

nty_event_del(k, s, fd) ==
    [k EXCEPT !.slot[s].status = 0,
              !.watch[fd] = IF k.slot[s].status = 1 THEN Unwatched ELSE @]

\* The usual end of a callback: del, set, add.
Rearm(k, s, fd, callback, events) ==
    nty_event_add(nty_event_set(nty_event_del(k, s, fd), s, fd, callback), s, fd, events)

-----------------------------------------------------------------------------
(* The kernel.                                                             *)

\* accept and socket hand out the lowest free descriptor.
FreeFds == {fd \in Fds : r.file[fd] = "free"}
LowestFd == CHOOSE fd \in FreeFds : \A other \in FreeFds : fd <= other

\* close: the descriptor leaves the interest list by itself.
Close(k, fd) == [k EXCEPT !.file[fd] = "free", !.watch[fd] = Unwatched]

\* The socket of c is gone; the client may connect again.
Disconnect(c) ==
    /\ net' = [net EXCEPT ![c] = "none"]
    /\ unread' = [unread EXCEPT ![c] = << >>]
    /\ blocked' = [blocked EXCEPT ![c] = FALSE]

FdsOf(what) == {fd \in Fds : r.file[fd] = what}

Ready(fd) ==
    /\ r.watch[fd] # Unwatched
    /\ LET c == r.file[fd] IN
       IF c = "listener" THEN backlog # << >>
       ELSE IF r.watch[fd][1] = "in" THEN unread[c] # << >> \/ net[c] \in {"fin", "rst"}
       ELSE ~blocked[c] \/ net[c] = "rst"

ReadyFds == {fd \in Fds : Ready(fd)}

\* What epoll_wait may return: everything that is ready, if it fits.
Reports ==
    IF Cardinality(ReadyFds) <= MAX_EPOLL_EVENTS THEN {ReadyFds} \ {{}}
    ELSE {S \in SUBSET ReadyFds : Cardinality(S) = MAX_EPOLL_EVENTS}

\* data.ptr, the reported events and, as a history, whom they concern.
Report(fd) == [slot |-> r.watch[fd][2], events |-> r.watch[fd][1], of |-> r.file[fd]]

\* The loop skips an event whose slot no longer waits for it.
Wanted(k, S) == {e \in S : k.slot[e.slot].events = e.events}

-----------------------------------------------------------------------------
(* Clients and the network.                                                *)

ClientConnect(c) ==
    /\ net[c] = "none" /\ FdsOf("listener") # {}
    /\ net' = [net EXCEPT ![c] = "up"]
    /\ backlog' = Append(backlog, c)
    /\ UNCHANGED <<unread, blocked>>

ClientSend(c, m) ==
    /\ net[c] = "up" /\ Len(unread[c]) < MaxUnread
    /\ unread' = [unread EXCEPT ![c] = Append(@, m)]
    /\ UNCHANGED <<backlog, net, blocked>>

\* The client reads what it was sent: there is room for output again.
ClientReads(c) ==
    /\ blocked[c]
    /\ blocked' = [blocked EXCEPT ![c] = FALSE]
    /\ UNCHANGED <<backlog, net, unread>>

\* The client closes: what it sent before can still be received.
ClientFin(c) ==
    /\ net[c] = "up"
    /\ net' = [net EXCEPT ![c] = "fin"]
    /\ UNCHANGED <<backlog, unread, blocked>>

\* A reset discards what was not received.
ClientReset(c) ==
    /\ net[c] \in {"up", "fin"}
    /\ net' = [net EXCEPT ![c] = "rst"]
    /\ unread' = [unread EXCEPT ![c] = << >>]
    /\ UNCHANGED <<backlog, blocked>>

ClientStep ==
    \E c \in Conns :
        \/ ClientConnect(c) \/ ClientReads(c) \/ ClientFin(c) \/ ClientReset(c)
        \/ \E m \in Msgs : ClientSend(c, m)

SocketsInit ==
    /\ batch = {} /\ backlog = << >>
    /\ net = [c \in Conns |-> "none"]
    /\ unread = [c \in Conns |-> << >>]
    /\ blocked = [c \in Conns |-> FALSE]

SocketsOK ==
    /\ backlog \in Seq(Conns)
    /\ net \in [Conns -> {"none", "up", "fin", "rst"}]
    /\ unread \in [Conns -> Seq(Msgs)]
    /\ blocked \in [Conns -> BOOLEAN]
=============================================================================

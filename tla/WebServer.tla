------------------------------ MODULE WebServer ------------------------------
(***************************************************************************)
(* src/webserver.c: the event loop of the HTTP server.  One thread waits   *)
(* for events and runs a callback for each; clients and the network act    *)
(* between any two of its system calls.                                    *)
(*                                                                         *)
(* A request is the resource of a GET, or Other: anything whose first line *)
(* holds no GET.  Several requests received together count as the first.   *)
(* Answers are their status; texts, dates and file contents are left out.  *)
(***************************************************************************)
EXTENDS EpollReactor

CONSTANTS
    Resources,      \* paths that a GET names
    Other,          \* any other request
    NoRes           \* the empty resource of a fresh slot; also "nothing"

ASSUME RequestAssumption ==
    /\ Msgs = Resources \cup {Other}
    /\ Other \notin Resources /\ NoRes \notin Msgs

VARIABLES
    blkcnt,                 \* blocks of the event table
    resource,               \* what the GET in a slot named
    pc,                     \* where the loop is
    cur,                    \* the event whose callback is under way
    asked                   \* history: request received and not answered, per connection

vars == <<r, batch, sockets, blkcnt, resource, pc, cur, asked>>

Slots == (0 .. (NOFILE - 1) \div MAX_EPOLL_EVENTS) \X (0 .. MAX_EPOLL_EVENTS - 1)

\* Mutation: the block index is used for the slot as well.
ntyreactor_idx_SameSlot(fd) == <<fd \div MAX_EPOLL_EVENTS, fd \div MAX_EPOLL_EVENTS>>

\* ntyreactor_idx, once the table has the block.
ntyreactor_idx(fd) == <<fd \div MAX_EPOLL_EVENTS, fd % MAX_EPOLL_EVENTS>>

HasBlock(fd) == fd \div MAX_EPOLL_EVENTS < blkcnt

\* The while loop of ntyreactor_idx: blocks up to the one of fd.
BlocksFor(fd) == IF HasBlock(fd) THEN blkcnt ELSE fd \div MAX_EPOLL_EVENTS + 1

\* ntyreactor_init, init_sock and ntyreactor_addlistener.
ListenFd == FIRST_FD + 1
Init ==
    /\ r = LET s == ntyreactor_idx(ListenFd)
               start == [file  |-> [fd \in Fds |-> CASE fd = FIRST_FD -> "epoll"
                                                     [] fd = ListenFd -> "listener"
                                                     [] OTHER -> "free"],
                         watch |-> [fd \in Fds |-> Unwatched],
                         slot  |-> [t \in Slots |-> Unused]]
           IN  nty_event_add(nty_event_set(start, s, ListenFd, "accept"), s, ListenFd, "in")
    /\ blkcnt = ListenFd \div MAX_EPOLL_EVENTS + 1
    /\ SocketsInit
    /\ resource = [s \in Slots |-> NoRes]
    /\ pc = "wait" /\ cur = << >>
    /\ asked = [c \in Conns |-> NoRes]

-----------------------------------------------------------------------------
(* ntyreactor_run                                                          *)

EpollWait(S) ==
    /\ pc = "wait"
    /\ batch' = {Report(fd) : fd \in S}
    /\ pc' = "batch"
    /\ UNCHANGED <<r, sockets, blkcnt, resource, cur, asked>>

\* The callback of event e returned and left the table as k.
Handled(e, k) ==
    /\ r' = k
    /\ batch' = Wanted(r', batch \ {e})
    /\ pc' = IF batch' = {} THEN "wait" ELSE "batch"

Called(e, callback) == pc = "batch" /\ e \in batch /\ r.slot[e.slot].callback = callback

-----------------------------------------------------------------------------
(* accept_cb                                                               *)

Watching(c, fd) ==
    LET s == ntyreactor_idx(fd)
    IN  nty_event_add(nty_event_set([r EXCEPT !.file[fd] = c], s, fd, "recv"), s, fd, "in")

\* (fcntl does not fail on a descriptor that accept just returned.)
Accept(e) ==
    /\ Called(e, "accept") /\ backlog # << >> /\ FreeFds # {}
    /\ Handled(e, Watching(Head(backlog), LowestFd))
    /\ backlog' = Tail(backlog)
    /\ blkcnt' = BlocksFor(LowestFd)
    /\ UNCHANGED <<net, unread, blocked, resource, cur, asked>>

\* Mutation: the listener is given up.
AcceptFails_Deregisters(e) ==
    /\ Called(e, "accept")
    /\ Handled(e, nty_event_del(r, e.slot, r.slot[e.slot].fd))
    /\ UNCHANGED <<sockets, blkcnt, resource, cur, asked>>

\* accept may fail at any time, and does when no descriptor is left: the
\* connection stays in the backlog.
AcceptFails(e) ==
    /\ Called(e, "accept")
    /\ Handled(e, r)
    /\ UNCHANGED <<sockets, blkcnt, resource, cur, asked>>

\* ntyreactor_alloc fails and ntyreactor_idx tries again until there is memory.
\* Nothing else runs meanwhile: the descriptor is taken when it has succeeded.
AcceptNoMemory(e) ==
    /\ Called(e, "accept") /\ backlog # << >> /\ FreeFds # {}
    /\ ~HasBlock(LowestFd)
    /\ pc' = "alloc" /\ cur' = <<e>>
    /\ UNCHANGED <<r, batch, sockets, blkcnt, resource, asked>>

AllocAgain ==
    /\ pc = "alloc"
    /\ Handled(cur[1], Watching(Head(backlog), LowestFd))
    /\ backlog' = Tail(backlog)
    /\ blkcnt' = BlocksFor(LowestFd)
    /\ cur' = << >>
    /\ UNCHANGED <<net, unread, blocked, resource, asked>>

-----------------------------------------------------------------------------
(* recv_cb                                                                 *)

ConnOf(e) == r.file[r.slot[e.slot].fd]

ForgetRequest(c) == asked' = [asked EXCEPT ![c] = NoRes]

\* Mutation: the request is not parsed.
http_request_Skipped(s, m) == resource

\* The resource of a GET, and nothing of any other request.
http_request(s, m) ==
    IF m = Other THEN resource ELSE [resource EXCEPT ![s] = m]

\* The answer is sent when the socket takes output, the next request received
\* when there is input.
ToSend(e) ==
    LET fd == r.slot[e.slot].fd IN Rearm(r, ntyreactor_idx(fd), fd, "send", "out")

\* Mutation: nty_event_add is missing.
ToRecv_NoAdd(e) ==
    LET fd == r.slot[e.slot].fd
        s  == ntyreactor_idx(fd)
    IN  nty_event_set(nty_event_del(r, s, fd), s, fd, "recv")

ToRecv(e) ==
    LET fd == r.slot[e.slot].fd IN Rearm(r, ntyreactor_idx(fd), fd, "recv", "in")

RecvRequest(e) ==
    /\ Called(e, "recv")
    /\ LET s == ntyreactor_idx(r.slot[e.slot].fd)
           c == ConnOf(e)
       IN  /\ unread[c] # << >>
           /\ Handled(e, ToSend(e))
           /\ resource' = http_request(s, Head(unread[c]))
           /\ asked' = [asked EXCEPT ![c] = Head(unread[c])]
           /\ unread' = [unread EXCEPT ![c] = << >>]
    /\ UNCHANGED <<backlog, net, blocked, blkcnt, cur>>

\* End of stream or an error.
RecvClosed(e) ==
    /\ Called(e, "recv")
    /\ LET fd == r.slot[e.slot].fd
           c  == ConnOf(e)
       IN  /\ unread[c] = << >> /\ net[c] \in {"fin", "rst"}
           /\ Handled(e, Close(nty_event_del(r, ntyreactor_idx(fd), fd), fd))
           /\ Disconnect(c) /\ ForgetRequest(c)
    /\ UNCHANGED <<backlog, blkcnt, resource, cur>>

-----------------------------------------------------------------------------
(* send_cb                                                                 *)

\* http_response, ret_code: 404 for a missing file and for a directory.  (The
\* document root holds nothing else but regular files.)
Codes(s) == IF resource[s] = NoRes THEN {404} ELSE {200, 404}

\* The header is sent; what does not fit is dropped and the socket is full.
SendHeader(e, code, full) ==
    /\ Called(e, "send")
    /\ LET s == ntyreactor_idx(r.slot[e.slot].fd)
           c == ConnOf(e)
       IN  /\ net[c] # "rst" /\ code \in Codes(s)
           /\ blocked' = [blocked EXCEPT ![c] = full]
           /\ IF code = 200
              THEN pc' = "body" /\ cur' = <<e>> /\ UNCHANGED <<r, batch, asked>>
              ELSE Handled(e, ToRecv(e)) /\ ForgetRequest(c) /\ UNCHANGED cur
    /\ UNCHANGED <<backlog, net, unread, blkcnt, resource>>

\* sendfile, whether the file could be opened again and was sent whole or not.
SendBody(full) ==
    /\ pc = "body"
    /\ LET e == cur[1]
           c == ConnOf(e)
       IN  /\ Handled(e, ToRecv(e))
           /\ ForgetRequest(c)
           /\ blocked' = [blocked EXCEPT ![c] = @ \/ full]
    /\ cur' = << >>
    /\ UNCHANGED <<backlog, net, unread, blkcnt, resource>>

SendError(e) ==
    /\ Called(e, "send")
    /\ LET fd == r.slot[e.slot].fd
           c  == ConnOf(e)
           s  == ntyreactor_idx(fd)
       IN  /\ net[c] = "rst"
           /\ Handled(e, nty_event_del(Close(r, fd), s, fd))
           /\ Disconnect(c) /\ ForgetRequest(c)
    /\ UNCHANGED <<backlog, blkcnt, resource, cur>>

\* SIGPIPE is not ignored: writing to a connection that is reset may end the process.
Killed ==
    /\ \/ pc = "body" /\ net[ConnOf(cur[1])] = "rst"
       \/ \E e \in batch : Called(e, "send") /\ net[ConnOf(e)] = "rst"
    /\ pc' = "dead"
    /\ UNCHANGED <<r, batch, sockets, blkcnt, resource, cur, asked>>

-----------------------------------------------------------------------------
Callback(e) ==
    \/ Accept(e) \/ AcceptFails(e) \/ AcceptNoMemory(e)
    \/ RecvRequest(e) \/ RecvClosed(e)
    \/ \E code \in {200, 404}, full \in BOOLEAN : SendHeader(e, code, full)
    \/ SendError(e)

ServerStep ==
    \/ pc = "wait" /\ \E S \in Reports : EpollWait(S)
    \/ \E e \in batch : Callback(e)
    \/ AllocAgain
    \/ \E full \in BOOLEAN : SendBody(full)

Next ==
    \/ ServerStep \/ Killed
    \/ ClientStep /\ UNCHANGED <<r, batch, blkcnt, resource, pc, cur, asked>>

Spec == Init /\ [][Next]_vars

(* The server thread is scheduled, memory is available in the end, and accept
   does not fail for ever. *)
LiveSpec == Spec /\ WF_vars(ServerStep) /\ SF_vars(\E e \in batch : Accept(e))

-----------------------------------------------------------------------------
(* Properties.                                                             *)

\* Every variable has its type; an event of the batch is in hand while its
\* callback waits for memory or has the body left to send.
TypeOK ==
    /\ r.file \in [Fds -> Conns \cup {"free", "listener", "epoll"}]
    /\ r.watch \in [Fds -> {Unwatched} \cup ({"in", "out"} \X Slots)]
    /\ r.slot \in [Slots -> [fd : 0 .. NOFILE - 1, events : {"none", "in", "out"},
                             callback : {"none", "accept", "recv", "send"}, status : {0, 1}]]
    /\ SocketsOK
    /\ batch \subseteq [slot : Slots, events : {"in", "out"}, of : Conns \cup {"listener"}]
    /\ blkcnt \in 1 .. (NOFILE - 1) \div MAX_EPOLL_EVENTS + 1
    /\ resource \in [Slots -> Resources \cup {NoRes}]
    /\ pc \in {"wait", "batch", "alloc", "body", "dead"}
    /\ pc \in {"alloc", "body"} => cur # << >> /\ cur[1] \in batch
    /\ asked \in [Conns -> Msgs \cup {NoRes}]

\* Between two callbacks every open connection is registered for what its
\* callback expects, through the slot of its descriptor, and a closed
\* descriptor is not registered and its slot can be used again (c:87-122): no
\* connection is forgotten, whatever descriptor numbers are reused.
Watched ==
    pc \in {"wait", "batch"} =>
        \A fd \in Fds \ {FIRST_FD} :
            LET s == ntyreactor_idx(fd)
                ev == r.slot[s]
            IN  IF r.file[fd] = "free" THEN r.watch[fd] = Unwatched /\ (s[1] < blkcnt => ev.status = 0)
                ELSE /\ HasBlock(fd) /\ ev.fd = fd /\ ev.status = 1
                     /\ r.watch[fd] = <<ev.events, s>>
                     /\ ev.events = IF ev.callback = "send" THEN "out" ELSE "in"

\* An event that epoll_wait returned still concerns the connection it was
\* reported for when the loop gets to it (c:527-538): no earlier callback of
\* the batch has closed or replaced it.
EventsCurrent ==
    pc # "dead" => \A e \in batch : ConnOf(e) = e.of /\ r.slot[e.slot].events = e.events

\* The answer to a GET is about the resource that this connection asked for
\* (c:140-160, c:203-266), although resource belongs to the slot of a
\* descriptor that other connections have used.
AnswersOwnRequest ==
    \A fd \in Fds :
        LET c == r.file[fd] IN
        c \in Conns /\ asked[c] \in Resources => resource[ntyreactor_idx(fd)] = asked[c]

\* What arrives on an open connection is received, unless its client takes no output.
DataIsReceived ==
    \A c \in Conns :
        (unread[c] # << >> /\ FdsOf(c) # {})
            ~> (unread[c] = << >> \/ blocked[c] \/ pc = "dead")

\* A request that was received is answered or its connection closed.
RequestIsAnswered ==
    \A c \in Conns : (asked[c] # NoRes /\ ~blocked[c]) ~> (asked[c] = NoRes \/ pc = "dead")

\* A client in the backlog is accepted while there are descriptors.
ClientIsAccepted ==
    \A c \in Conns :
        (net[c] # "none" /\ FdsOf(c) = {}) ~> (FdsOf(c) # {} \/ FreeFds = {} \/ pc = "dead")

\* The table, the descriptors and epoll, as one invariant of the runs.
SlotsOK == TypeOK /\ Watched

\* What arrives is received and what is received is answered (c:162-183, c:268-291).
RequestsServed == DataIsReceived /\ RequestIsAnswered
=============================================================================

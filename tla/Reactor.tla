-------------------------------- MODULE Reactor --------------------------------
(***************************************************************************)
(* src/reactor.c: the first reactor, an epoll loop that only receives.     *)
(*                                                                         *)
(* reactor_set_event always uses EPOLL_CTL_ADD, so the descriptor of a     *)
(* connection is watched for input from its first registration to its      *)
(* close, EEXIST is not looked at, and handle_write is never called: the   *)
(* model has no output.  epoll is level triggered and an event concerns    *)
(* its own descriptor alone: one step takes one event.  Bytes are counted. *)
(* SizeRange stands for 2^64.  The run ends at a descriptor without an     *)
(* item, and at a recv in front of the buffer ("crashed").                 *)
(***************************************************************************)
EXTENDS Integers, FiniteSets

CONSTANTS
    Conns,              \* clients; each connects again after it was closed
    NOFILE,             \* descriptors are below NOFILE
    MAX_ITEMS_SIZE,     \* items in the only block
    BUFFER_SIZE, SizeRange,
    MaxUnread           \* bound: bytes waiting in a socket

VARIABLES
    file,       \* file[fd]: "free", "epoll", "listener" or a client
    watch,      \* the descriptors epoll watches
    readable,   \* per item: read_handle is set
    buf_r_len,  \* per item
    net,        \* per client: "out", "backlog", "open", "fin", "reset"
    unread,     \* per client: bytes sent and not received
    taken,      \* history, per item: bytes received on its descriptor, until a recv fails
    failed,     \* history: the items on whose descriptor recv has failed
    status      \* "up", "crashed"

server == <<file, watch, readable, buf_r_len, taken, failed, status>>
vars == <<server, net, unread>>

Fds == 3 .. NOFILE - 1
epfd == 3
server_fd == 4
FreeFds == {fd \in Fds : file[fd] = "free"}

\* reactor_init and server_init; reactor_set_event watches the listener.
Init ==
    /\ file = [fd \in Fds |-> CASE fd = epfd -> "epoll" [] fd = server_fd -> "listener"
                                [] OTHER -> "free"]
    /\ watch = {server_fd}
    /\ readable = [fd \in Fds |-> FALSE]
    /\ buf_r_len = [fd \in Fds |-> 0]
    /\ net = [c \in Conns |-> "out"] /\ unread = [c \in Conns |-> 0]
    /\ taken = [fd \in Fds |-> 0] /\ failed = {}
    /\ status = "up"

-----------------------------------------------------------------------------
(* The clients and the kernel.                                             *)

ClientConnect(c) ==
    /\ net[c] = "out" /\ \A fd \in Fds : file[fd] # c
    /\ net' = [net EXCEPT ![c] = "backlog"] /\ unread' = [unread EXCEPT ![c] = 0]
    /\ UNCHANGED server

ClientSend(c) ==
    /\ net[c] = "open" /\ unread[c] < MaxUnread
    /\ unread' = [unread EXCEPT ![c] = @ + 1]
    /\ UNCHANGED <<server, net>>

\* The client closes; a reset drops what was not received.
ClientClose(c) ==
    /\ net[c] = "open"
    /\ \/ net' = [net EXCEPT ![c] = "fin"] /\ UNCHANGED unread
       \/ net' = [net EXCEPT ![c] = "reset"] /\ unread' = [unread EXCEPT ![c] = 0]
    /\ UNCHANGED server

\* epoll_wait reports fd for EPOLLIN.
Ready(fd) ==
    /\ fd \in watch
    /\ IF file[fd] = "listener" THEN \E c \in Conns : net[c] = "backlog"
       ELSE unread[file[fd]] > 0 \/ net[file[fd]] \in {"fin", "reset"}

-----------------------------------------------------------------------------
(* reactor_run and its handlers.                                           *)

\* accept gives the lowest free descriptor; without an item for it
\* reactor_set_event writes through NULL.
handle_accept(c) ==
    /\ status = "up" /\ Ready(server_fd)
    /\ net[c] = "backlog" /\ FreeFds # {}
    /\ LET fd == CHOOSE f \in FreeFds : \A g \in FreeFds : f <= g IN
       /\ file' = [file EXCEPT ![fd] = c]
       /\ IF fd < MAX_ITEMS_SIZE
          THEN /\ readable' = [readable EXCEPT ![fd] = TRUE]
               /\ watch' = watch \cup {fd}
               /\ UNCHANGED status
          ELSE status' = "crashed" /\ UNCHANGED <<readable, watch>>
    /\ net' = [net EXCEPT ![c] = "open"]
    /\ UNCHANGED <<buf_r_len, unread, taken, failed>>

\* Mutation: recv may fill the whole buffer each time.
Room_Whole(fd) == BUFFER_SIZE
\* The size handed to recv.
Room(fd) == (BUFFER_SIZE - buf_r_len[fd]) % SizeRange

Recv(fd) ==
    /\ status = "up" /\ Ready(fd) /\ file[fd] \in Conns /\ readable[fd]
    /\ buf_r_len[fd] <= BUFFER_SIZE

\* recv gives n bytes.  They stay in the buffer: nothing sends them.
handle_read(fd) ==
    LET c == file[fd]
        n == IF unread[c] < Room(fd) THEN unread[c] ELSE Room(fd)
    IN  /\ Recv(fd) /\ n > 0
        /\ buf_r_len' = [buf_r_len EXCEPT ![fd] = (@ + n) % SizeRange]
        /\ unread' = [unread EXCEPT ![c] = @ - n]
        /\ taken' = [taken EXCEPT ![fd] = IF fd \in failed THEN @ ELSE @ + n]
        /\ UNCHANGED <<file, watch, readable, net, failed, status>>

\* recv gives 0: at the end of the input, or with no room left in the buffer.
ReadCloses(fd) ==
    LET c == file[fd] IN
    /\ Recv(fd)
    /\ Room(fd) = 0 \/ (net[c] = "fin" /\ unread[c] = 0)
    /\ file' = [file EXCEPT ![fd] = "free"] /\ watch' = watch \ {fd}
    /\ net' = [net EXCEPT ![c] = "out"]
    /\ UNCHANGED <<readable, buf_r_len, unread, taken, failed, status>>

\* recv gives -1, once: as a size_t it is more than 0, and is added.
ReadFails(fd) ==
    LET c == file[fd] IN
    /\ Recv(fd) /\ net[c] = "reset" /\ Room(fd) # 0
    /\ buf_r_len' = [buf_r_len EXCEPT ![fd] = (@ - 1) % SizeRange]
    /\ net' = [net EXCEPT ![c] = "fin"]
    /\ failed' = failed \cup {fd}
    /\ UNCHANGED <<file, watch, readable, unread, taken, status>>

\* buf_r_len was 0 when recv failed: the next recv starts before the buffer.
ReadOutside(fd) ==
    /\ status = "up" /\ Ready(fd) /\ file[fd] \in Conns
    /\ buf_r_len[fd] > BUFFER_SIZE
    /\ status' = "crashed"
    /\ UNCHANGED <<file, watch, readable, buf_r_len, taken, failed, net, unread>>

Next ==
    \/ \E c \in Conns : ClientConnect(c) \/ ClientSend(c) \/ ClientClose(c) \/ handle_accept(c)
    \/ \E fd \in Fds : handle_read(fd) \/ ReadCloses(fd) \/ ReadFails(fd) \/ ReadOutside(fd)

Spec == Init /\ [][Next]_vars

-----------------------------------------------------------------------------
(* Properties.                                                             *)

\* However clients come and go on the same descriptors, an open one is watched
\* and has its handler, a closed one is not watched; and unless a recv failed on
\* it, buf_r_len is the number of bytes that all its connections together have
\* sent, within the buffer (c:155-175, c:268-297).
ReadsFit ==
    status = "up" =>
        \A fd \in Fds \ {epfd} :
            /\ fd \in watch <=> file[fd] # "free"
            /\ file[fd] \in Conns => readable[fd]
            /\ fd \notin failed => buf_r_len[fd] = taken[fd] /\ taken[fd] <= BUFFER_SIZE
=============================================================================

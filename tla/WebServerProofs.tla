---------------------------- MODULE WebServerProofs ----------------------------
(***************************************************************************)
(* Proofs about WebServer, for every block size, number of descriptors,    *)
(* connections and requests: the table agrees with the descriptors and     *)
(* epoll, the events of a batch stay current, and an answer is about the   *)
(* request of its own connection.                                          *)
(***************************************************************************)
EXTENDS WebServer, EpollReactorProofs

-----------------------------------------------------------------------------
(* ntyreactor_idx: every descriptor has a slot of its own.                 *)

LEMMA Blocks ==
    ASSUME NEW fd \in Fds
    PROVE  /\ fd \div MAX_EPOLL_EVENTS \in 0 .. (NOFILE - 1) \div MAX_EPOLL_EVENTS
           /\ fd % MAX_EPOLL_EVENTS \in 0 .. MAX_EPOLL_EVENTS - 1
           /\ fd = MAX_EPOLL_EVENTS * (fd \div MAX_EPOLL_EVENTS) + (fd % MAX_EPOLL_EVENTS)
           /\ (NOFILE - 1) \div MAX_EPOLL_EVENTS \in Nat
  <1> DEFINE M == MAX_EPOLL_EVENTS
             n == NOFILE - 1
             q == fd \div M
             u == fd % M
             p == n \div M
             v == n % M
  <1>1. M \in Nat \ {0} /\ fd \in Nat /\ n \in Nat /\ fd <= n
    BY FdAssumption DEF Fds
  <1>2. q \in Nat /\ u \in 0 .. M - 1 /\ fd = M * q + u
    BY <1>1, Division
  <1>3. p \in Nat /\ v \in 0 .. M - 1 /\ n = M * p + v
    BY <1>1, Division
  <1> HIDE DEF q, u, p, v, n, M
  <1>4. q <= p
    <2>1. q > p => M * (q - p) >= M
      BY <1>1, <1>2, <1>3
    <2>2. M * (q - p) = (fd - n) + (v - u)
      BY <1>1, <1>2, <1>3
    <2> QED
      BY <1>1, <1>2, <1>3, <2>1, <2>2
  <1>5. q \in 0 .. p
    BY <1>2, <1>3, <1>4
  <1> QED
    BY <1>2, <1>3, <1>5 DEF q, u, p, n, M

SlotOf == [fd \in Fds |-> ntyreactor_idx(fd)]

LEMMA SlotOfIs ==
    /\ Indexing(Slots, SlotOf, FIRST_FD)
    /\ \A fd \in Fds : SlotOf[fd] = ntyreactor_idx(fd) /\ ntyreactor_idx(fd) \in Slots
    /\ \A f, g \in Fds : ntyreactor_idx(f) = ntyreactor_idx(g) => f = g
    /\ \A fd \in Fds : ntyreactor_idx(fd)[1] < blkcnt <=> HasBlock(fd)
  <1>1. FIRST_FD \in Fds
    BY FdAssumption DEF Fds
  <1>2. ASSUME NEW fd \in Fds PROVE ntyreactor_idx(fd) \in Slots
    BY Blocks DEF ntyreactor_idx, Slots
  <1>3. ASSUME NEW f \in Fds, NEW g \in Fds, ntyreactor_idx(f) = ntyreactor_idx(g) PROVE f = g
    <2>1. f \div MAX_EPOLL_EVENTS = g \div MAX_EPOLL_EVENTS /\ f % MAX_EPOLL_EVENTS = g % MAX_EPOLL_EVENTS
      BY <1>3 DEF ntyreactor_idx
    <2> QED
      BY <2>1, Blocks
  <1>4. \A fd \in Fds : SlotOf[fd] = ntyreactor_idx(fd)
    BY DEF SlotOf
  <1>5. SlotOf \in [Fds -> Slots]
    BY <1>2 DEF SlotOf
  <1>6. \A fd \in Fds : ntyreactor_idx(fd)[1] < blkcnt <=> HasBlock(fd)
    BY DEF ntyreactor_idx, HasBlock
  <1> QED
    BY <1>1, <1>2, <1>3, <1>4, <1>5, <1>6 DEF Indexing

-----------------------------------------------------------------------------
(* The inductive invariant.                                                *)

TableInv == InSync(r, batch, Slots, SlotOf, FIRST_FD)

BlocksInv ==
    /\ blkcnt \in 1 .. (NOFILE - 1) \div MAX_EPOLL_EVENTS + 1
    /\ \A fd \in Fds \ {FIRST_FD} : r.file[fd] # "free" => HasBlock(fd)

\* What a connection asked for is remembered while it has a descriptor.
AskedInv ==
    /\ resource \in [Slots -> Resources \cup {NoRes}]
    /\ asked \in [Conns -> Msgs \cup {NoRes}]
    /\ \A c \in Conns : asked[c] # NoRes => \E fd \in Fds : r.file[fd] = c
    /\ AnswersOwnRequest

\* The event in hand is still in the batch and its slot as it was.
ControlInv ==
    /\ pc \in {"wait", "batch", "alloc", "body", "dead"}
    /\ pc \in {"alloc", "body"} =>
           /\ cur # << >> /\ cur[1] \in batch
           /\ r.slot[cur[1].slot].callback = IF pc = "alloc" THEN "accept" ELSE "send"
    /\ pc = "alloc" => backlog # << >> /\ FreeFds # {}

Inv == TableInv /\ BlocksInv /\ SocketsOK /\ ConnInv /\ AskedInv /\ ControlInv

\* The callback of an event of the batch finds the descriptor it was reported for.
LEMMA Current ==
    ASSUME TableInv, NEW e \in batch, NEW fd, fd = r.slot[e.slot].fd
    PROVE  /\ fd \in Fds \ {FIRST_FD} /\ e.slot = ntyreactor_idx(fd) /\ e.slot \in Slots
           /\ ConnOf(e) = r.file[fd] /\ r.file[fd] = e.of
           /\ e.events = r.slot[e.slot].events
           /\ r.slot[e.slot].callback # "accept" => r.file[fd] \in Conns
  BY EventOf, SlotOfIs DEF TableInv, InSync, ConnOf

-----------------------------------------------------------------------------
(* The callbacks.                                                          *)

LEMMA AcceptKeeps ==
    ASSUME Inv, NEW e \in batch, backlog # << >>, FreeFds # {},
           NEW fd, fd = LowestFd, NEW c, c = Head(backlog),
           Handled(e, Watching(Head(backlog), LowestFd)), backlog' = Tail(backlog),
           blkcnt' = BlocksFor(LowestFd), UNCHANGED <<net, unread, blocked, resource, asked>>
    PROVE  Inv'
  <1> DEFINE s == ntyreactor_idx(fd)
  <1>1. fd \in Fds /\ r.file[fd] = "free"
    BY LowestIsFree DEF FreeFds
  <1>2. c \in Conns
    BY DEF Inv, SocketsOK
  <1>3. r' = Opening(r, s, fd, c)
    BY DEF Handled, Watching, Opening
  <1>4. batch' = Wanted(r', batch \ {e})
    BY DEF Handled
  <1>5. s = SlotOf[fd]
    BY <1>1, SlotOfIs
  <1> HIDE DEF s
  <1>6. /\ InSync(r', Wanted(r', batch \ {e}), Slots, SlotOf, FIRST_FD)
        /\ DifferAt(r, r', Slots, SlotOf[fd], fd) /\ r'.file[fd] = c
    <2>1. InSync(r, batch, Slots, SlotOf, FIRST_FD)
      BY DEF Inv, TableInv
    <2>2. r' = Opening(r, SlotOf[fd], fd, c)
      BY <1>3, <1>5
    <2>3. InSync(r', Wanted(r', batch \ {e}), Slots, SlotOf, FIRST_FD)
      BY <1>1, <1>2, <2>1, <2>2, TableOpen
    <2>4. DifferAt(r, r', Slots, SlotOf[fd], fd)
      BY <1>1, <1>2, <2>1, <2>2, TableOpen
    <2>5. Opened(r', SlotOf[fd], fd, c)
      BY <1>1, <1>2, <2>1, <2>2, TableOpen
    <2> QED
      BY <2>3, <2>4, <2>5 DEF Opened
  <1>7. \A g \in Fds : g # fd => r'.file[g] = r.file[g]
    BY <1>6 DEF DifferAt
  <1>8. TableInv'
    BY <1>4, <1>6, SlotOfIs DEF TableInv, SlotOf, ntyreactor_idx
  <1>9. /\ SocketsOK' /\ ConnInv' /\ Waits(c)
    BY <1>1, <1>6, <1>7, ConnAccept DEF Inv
  <1>10. BlocksInv'
    <2>1. /\ fd \div MAX_EPOLL_EVENTS \in 0 .. (NOFILE - 1) \div MAX_EPOLL_EVENTS
          /\ (NOFILE - 1) \div MAX_EPOLL_EVENTS \in Nat
      BY <1>1, Blocks
    <2>2. blkcnt' \in 1 .. (NOFILE - 1) \div MAX_EPOLL_EVENTS + 1 /\ blkcnt' >= blkcnt
      BY <2>1 DEF Inv, BlocksInv, BlocksFor, HasBlock
    <2>3. \A g \in Fds : HasBlock(g) => HasBlock(g)'
      BY <2>2, Blocks DEF HasBlock, Inv, BlocksInv
    <2>4. HasBlock(fd)'
      BY <2>1, <2>2 DEF HasBlock, BlocksFor, Inv, BlocksInv
    <2> QED
      BY <1>6, <1>7, <2>2, <2>3, <2>4 DEF BlocksInv, Inv
  <1>11. AskedInv'
    <2>1. asked[c] = NoRes
      BY <1>2, <1>9 DEF Inv, AskedInv, ConnInv
    <2>2. \A d \in Conns : asked[d] # NoRes => \E g \in Fds : r'.file[g] = d
      BY <1>1, <1>6, <1>7, ConnAssumption DEF Inv, AskedInv
    <2>3. AnswersOwnRequest'
      BY <1>6, <1>7, <2>1, RequestAssumption DEF Inv, AskedInv, AnswersOwnRequest, ntyreactor_idx
    <2> QED
      BY <2>2, <2>3 DEF Inv, AskedInv
  <1>12. ControlInv'
    BY DEF Handled, ControlInv
  <1> QED
    BY <1>8, <1>9, <1>10, <1>11, <1>12 DEF Inv

\* The callback left the slot of its connection waiting for the next event.
LEMMA RearmKeeps ==
    ASSUME Inv, NEW e \in batch, r.slot[e.slot].callback # "accept",
           NEW callback \in Serving,
           Handled(e, Rearm(r, ntyreactor_idx(r.slot[e.slot].fd), r.slot[e.slot].fd,
                            callback, Expected(callback))),
           blkcnt' = blkcnt
    PROVE  TableInv' /\ r'.file = r.file /\ BlocksInv' /\ ControlInv'
  <1> DEFINE fd == r.slot[e.slot].fd
             s  == ntyreactor_idx(fd)
  <1>1. fd \in Fds \ {FIRST_FD} /\ r.file[fd] \in Conns
    BY Current DEF Inv
  <1>2. s = SlotOf[fd]
    BY <1>1, SlotOfIs
  <1>3. r' = Rearm(r, s, fd, callback, Expected(callback)) /\ batch' = Wanted(r', batch \ {e})
    BY DEF Handled
  <1> HIDE DEF s
  <1>4. /\ InSync(r', Wanted(r', batch \ {e}), Slots, SlotOf, FIRST_FD)
        /\ r'.file = r.file
    <2>1. InSync(r, batch, Slots, SlotOf, FIRST_FD)
      BY DEF Inv, TableInv
    <2>2. r' = Rearm(r, SlotOf[fd], fd, callback, Expected(callback))
      BY <1>2, <1>3
    <2>3. InSync(r', Wanted(r', batch \ {e}), Slots, SlotOf, FIRST_FD)
      BY <1>1, <2>1, <2>2, TableRearm
    <2>4. SameFiles(r, r')
      BY <1>1, <2>1, <2>2, TableRearm
    <2> QED
      BY <2>3, <2>4 DEF SameFiles
  <1>5. TableInv'
    BY <1>3, <1>4 DEF TableInv, SlotOf, ntyreactor_idx
  <1>6. BlocksInv'
    BY <1>4 DEF Inv, BlocksInv, HasBlock
  <1>7. ControlInv'
    BY DEF Handled, ControlInv
  <1> QED
    BY <1>4, <1>5, <1>6, <1>7

LEMMA CloseKeeps ==
    ASSUME Inv, NEW e \in batch, r.slot[e.slot].callback # "accept",
           NEW k, Handled(e, k),
           LET fd == r.slot[e.slot].fd
               s  == ntyreactor_idx(fd)
           IN  \/ k = Close(nty_event_del(r, s, fd), fd)
               \/ k = nty_event_del(Close(r, fd), s, fd),
           Disconnect(ConnOf(e)), ForgetRequest(ConnOf(e)),
           UNCHANGED <<backlog, blkcnt, resource>>
    PROVE  Inv'
  <1> DEFINE fd == r.slot[e.slot].fd
             s  == ntyreactor_idx(fd)
             c  == ConnOf(e)
  <1>1. fd \in Fds \ {FIRST_FD} /\ r.file[fd] = c /\ c \in Conns
    BY Current DEF Inv
  <1>2. s = SlotOf[fd]
    BY <1>1, SlotOfIs
  <1>3. /\ r' = Close(nty_event_del(r, s, fd), fd) \/ r' = nty_event_del(Close(r, fd), s, fd)
        /\ batch' = Wanted(r', batch \ {e})
    BY DEF Handled
  <1> HIDE DEF s
  <1>4. /\ InSync(r', Wanted(r', batch \ {e}), Slots, SlotOf, FIRST_FD)
        /\ r'.file[fd] = "free" /\ \A g \in Fds : g # fd => r'.file[g] = r.file[g]
    <2>1. InSync(r, batch, Slots, SlotOf, FIRST_FD)
      BY DEF Inv, TableInv
    <2>2. /\ InSync(r', Wanted(r', batch \ {e}), Slots, SlotOf, FIRST_FD)
          /\ DifferAt(r, r', Slots, s, fd) /\ r'.file[fd] = "free"
      BY <1>2, <1>3, <2>1, TableClose
    <2> QED
      BY <2>2 DEF DifferAt
  <1> HIDE DEF fd, c
  <1>5. TableInv'
    BY <1>3, <1>4 DEF TableInv, SlotOf, ntyreactor_idx
  <1>6. SocketsOK' /\ ConnInv'
    BY <1>1, <1>4, ConnClose DEF Inv, c
  <1>7. BlocksInv'
    BY <1>4 DEF Inv, BlocksInv, HasBlock
  <1>8. AskedInv'
    <2>1. asked' = [asked EXCEPT ![c] = NoRes] /\ asked \in [Conns -> Msgs \cup {NoRes}]
      BY DEF ForgetRequest, Inv, AskedInv, c
    <2>2. asked' \in [Conns -> Msgs \cup {NoRes}] /\ asked'[c] = NoRes
          /\ \A d \in Conns : d # c => asked'[d] = asked[d]
      BY <1>1, <2>1
    <2>3. \A d \in Conns : asked'[d] # NoRes => \E g \in Fds : r'.file[g] = d
      <3> SUFFICES ASSUME NEW d \in Conns, asked'[d] # NoRes
                   PROVE  \E g \in Fds : r'.file[g] = d
        OBVIOUS
      <3>1. d # c /\ asked[d] # NoRes
        BY <2>2
      <3>2. PICK g \in Fds : r.file[g] = d
        BY <3>1 DEF Inv, AskedInv
      <3> QED
        BY <1>1, <1>4, <3>1, <3>2
    <2>4. AnswersOwnRequest'
      <3> SUFFICES ASSUME NEW g \in Fds, r'.file[g] \in Conns, asked'[r'.file[g]] \in Resources
                   PROVE  resource[ntyreactor_idx(g)] = asked'[r'.file[g]]
        BY DEF AnswersOwnRequest, ntyreactor_idx
      <3>1. g # fd /\ r'.file[g] = r.file[g]
        BY <1>4, ConnAssumption
      <3>2. asked'[r'.file[g]] = asked[r.file[g]]
        BY <2>2, <3>1, RequestAssumption
      <3> QED
        BY <3>1, <3>2 DEF Inv, AskedInv, AnswersOwnRequest
    <2> QED
      BY <2>2, <2>3, <2>4 DEF Inv, AskedInv
  <1>9. ControlInv'
    BY DEF Handled, ControlInv
  <1> QED
    BY <1>5, <1>6, <1>7, <1>8, <1>9 DEF Inv

\* The request of c is answered; the table of descriptors stays.
LEMMA ForgetKeeps ==
    ASSUME AskedInv, NEW c \in Conns, ForgetRequest(c), resource' = resource, r'.file = r.file
    PROVE  AskedInv'
  <1>1. /\ asked' \in [Conns -> Msgs \cup {NoRes}] /\ asked'[c] = NoRes
        /\ \A d \in Conns : d # c => asked'[d] = asked[d]
    BY DEF ForgetRequest, AskedInv
  <1>2. \A d \in Conns : asked'[d] # NoRes => \E g \in Fds : r'.file[g] = d
    BY <1>1 DEF AskedInv
  <1>3. AnswersOwnRequest'
    BY <1>1, RequestAssumption DEF AskedInv, AnswersOwnRequest, ntyreactor_idx
  <1> QED
    BY <1>1, <1>2, <1>3 DEF AskedInv

\* The sockets change in what they hold only.
LEMMA SocketsKept ==
    ASSUME SocketsOK, ConnInv, r'.file = r.file, UNCHANGED <<backlog, net>>,
           unread' \in [Conns -> Seq(Msgs)], blocked' \in [Conns -> BOOLEAN]
    PROVE  SocketsOK' /\ ConnInv'
  BY DEF SocketsOK, ConnInv, Waits

LEMMA ReceiveKeeps ==
    ASSUME Inv, NEW e \in batch, RecvRequest(e)
    PROVE  Inv'
  <1> DEFINE fd == r.slot[e.slot].fd
             s  == ntyreactor_idx(fd)
             c  == ConnOf(e)
             m  == Head(unread[c])
  <1>1. r.slot[e.slot].callback # "accept"
    BY DEF RecvRequest, Called
  <1>2. /\ fd \in Fds \ {FIRST_FD} /\ c = r.file[fd] /\ c \in Conns /\ s \in Slots
    BY <1>1, Current DEF Inv
  <1>3. m \in Msgs /\ UNCHANGED <<backlog, net>>
    <2>1. unread[c] \in Seq(Msgs) /\ unread[c] # << >>
      BY <1>2 DEF Inv, SocketsOK, RecvRequest
    <2> QED
      BY <2>1, HeadTailProperties DEF RecvRequest
  <1>4. TableInv' /\ r'.file = r.file /\ BlocksInv' /\ ControlInv'
    <2>1. Handled(e, Rearm(r, ntyreactor_idx(r.slot[e.slot].fd), r.slot[e.slot].fd,
                           "send", Expected("send")))
      BY DEF RecvRequest, ToSend, Expected
    <2> QED
      BY <1>1, <2>1, RearmKeeps DEF Serving, RecvRequest
  <1>5. SocketsOK' /\ ConnInv'
    <2> << >> \in Seq(Msgs)
      OBVIOUS
    <2>1. /\ unread' = [unread EXCEPT ![c] = << >>] /\ blocked' = blocked
          /\ unread \in [Conns -> Seq(Msgs)] /\ blocked \in [Conns -> BOOLEAN]
      BY DEF RecvRequest, Inv, SocketsOK
    <2>2. unread' \in [Conns -> Seq(Msgs)] /\ blocked' \in [Conns -> BOOLEAN]
      BY <2>1
    <2> QED
      BY <1>3, <1>4, <2>2, SocketsKept DEF Inv
  <1>6. /\ resource \in [Slots -> Resources \cup {NoRes}] /\ asked \in [Conns -> Msgs \cup {NoRes}]
        /\ resource' = http_request(s, m) /\ asked' = [asked EXCEPT ![c] = m]
    BY DEF Inv, AskedInv, RecvRequest
  <1> HIDE DEF m, c, s, fd
  <1>7. /\ asked' \in [Conns -> Msgs \cup {NoRes}] /\ asked'[c] = m
        /\ \A d \in Conns : d # c => asked'[d] = asked[d]
    BY <1>2, <1>3, <1>6
  <1>8. /\ resource' \in [Slots -> Resources \cup {NoRes}]
        /\ \A t \in Slots : t # s => resource'[t] = resource[t]
        /\ m \in Resources => resource'[s] = m
    BY <1>2, <1>3, <1>6, RequestAssumption DEF http_request
  <1>9. \A d \in Conns : asked'[d] # NoRes => \E g \in Fds : r'.file[g] = d
    BY <1>2, <1>4, <1>7 DEF Inv, AskedInv
  <1>10. ASSUME NEW g \in Fds, r'.file[g] \in Conns, asked'[r'.file[g]] \in Resources
         PROVE  resource'[ntyreactor_idx(g)] = asked'[r'.file[g]]
    <2>1. CASE g = fd
      BY <1>2, <1>4, <1>7, <1>8, <1>10, <2>1 DEF s
    <2>2. CASE g # fd
      <3>1. r.file[g] # c
        BY <1>2, <1>4, <1>10, <2>2 DEF Inv, ConnInv
      <3>2. ntyreactor_idx(g) # s /\ ntyreactor_idx(g) \in Slots
        BY <1>2, <2>2, SlotOfIs DEF s
      <3>3. resource[ntyreactor_idx(g)] = asked[r.file[g]]
        BY <1>4, <1>7, <1>10, <3>1 DEF Inv, AskedInv, AnswersOwnRequest
      <3> QED
        BY <1>4, <1>7, <1>8, <1>10, <3>1, <3>2, <3>3
    <2> QED
      BY <2>1, <2>2
  <1>11. AnswersOwnRequest'
    BY <1>10 DEF AnswersOwnRequest, ntyreactor_idx
  <1>12. AskedInv'
    BY <1>7, <1>8, <1>9, <1>11 DEF AskedInv
  <1> QED
    BY <1>4, <1>5, <1>12 DEF Inv

\* The answer is complete: header of an error, or header and body.
LEMMA AnswerKeeps ==
    ASSUME Inv, NEW e \in batch, r.slot[e.slot].callback # "accept",
           Handled(e, ToRecv(e)), ForgetRequest(ConnOf(e)),
           NEW full \in BOOLEAN,
           \/ blocked' = [blocked EXCEPT ![ConnOf(e)] = full]
           \/ blocked' = [blocked EXCEPT ![ConnOf(e)] = @ \/ full],
           UNCHANGED <<backlog, net, unread, blkcnt, resource>>
    PROVE  Inv'
  <1> DEFINE c == ConnOf(e)
  <1>1. c \in Conns
    BY Current DEF Inv
  <1>2. Handled(e, Rearm(r, ntyreactor_idx(r.slot[e.slot].fd), r.slot[e.slot].fd,
                         "recv", Expected("recv")))
    BY DEF ToRecv, Expected
  <1>3. TableInv' /\ r'.file = r.file /\ BlocksInv' /\ ControlInv'
    BY <1>2, RearmKeeps DEF Serving
  <1>4. AskedInv'
    BY <1>1, <1>3, ForgetKeeps DEF Inv
  <1>5. blocked' \in [Conns -> BOOLEAN]
    BY <1>1 DEF Inv, SocketsOK
  <1>6. SocketsOK' /\ ConnInv'
    BY <1>3, <1>5, SocketsKept DEF Inv, SocketsOK
  <1> QED
    BY <1>3, <1>4, <1>6 DEF Inv

-----------------------------------------------------------------------------
(* The invariant holds throughout.                                         *)

\* The table and what hangs on it stay; pc, cur or the batch may change.
LEMMA TableStays ==
    ASSUME Inv, r' = r, UNCHANGED <<backlog, net, unread, blkcnt, resource, asked>>,
           blocked' \in [Conns -> BOOLEAN], TableInv', ControlInv'
    PROVE  Inv'
  <1>1. SocketsOK' /\ ConnInv'
    BY SocketsKept DEF Inv, SocketsOK
  <1>2. BlocksInv' /\ AskedInv'
    BY DEF Inv, BlocksInv, HasBlock, AskedInv, AnswersOwnRequest, ntyreactor_idx
  <1> QED
    BY <1>1, <1>2 DEF Inv

LEMMA InvInit == Init => Inv
  <1> SUFFICES ASSUME Init PROVE Inv
    OBVIOUS
  <1> DEFINE s == ntyreactor_idx(ListenFd)
             start == [file  |-> [fd \in Fds |-> CASE fd = FIRST_FD -> "epoll"
                                                   [] fd = ListenFd -> "listener"
                                                   [] OTHER -> "free"],
                       watch |-> [fd \in Fds |-> Unwatched],
                       slot  |-> [t \in Slots |-> Unused]]
             k == nty_event_set(start, s, ListenFd, "accept")
  <1>1. ListenFd \in Fds /\ FIRST_FD \in Fds /\ ListenFd # FIRST_FD
    BY FdAssumption DEF ListenFd, Fds
  <1>2. s \in Slots /\ s = SlotOf[ListenFd]
    BY <1>1, SlotOfIs
  <1>3. /\ start \in Reactors(Slots) /\ start.file[FIRST_FD] = "epoll" /\ start.file[ListenFd] = "listener"
        /\ \A fd \in Fds \ {FIRST_FD, ListenFd} : start.file[fd] = "free"
        /\ \A fd \in Fds : start.watch[fd] = Unwatched
        /\ \A t \in Slots : start.slot[t].status = 0
    <2>1. Unused \in Events
      BY FdAssumption DEF Unused, Events
    <2>2. [fd \in Fds |-> CASE fd = FIRST_FD -> "epoll"
                            [] fd = ListenFd -> "listener"
                            [] OTHER -> "free"] \in [Fds -> Owners]
      BY DEF Owners
    <2>3. start \in Reactors(Slots)
      BY <2>1, <2>2 DEF Reactors
    <2> QED
      BY <1>1, <2>3 DEF Unused
  <1>4. r = nty_event_add(k, s, ListenFd, "in")
    BY DEF Init
  <1> HIDE DEF start
  <1>5. /\ k \in Reactors(Slots) /\ k.file = start.file /\ k.watch = start.watch
        /\ \A t \in Slots : t # s => k.slot[t] = start.slot[t]
        /\ k.slot[s].fd = ListenFd /\ k.slot[s].callback = "accept" /\ k.slot[s].status = 0
    <2>1. "accept" \in Callbacks
      BY DEF Callbacks
    <2> HIDE DEF s
    <2> QED
      BY <1>1, <1>2, <1>3, <2>1, SetIs
  <1> HIDE DEF k, s
  <1>6. DifferAt(k, r, Slots, s, ListenFd) /\ r.file = k.file /\ Registered(r, s, ListenFd, "accept", "in")
    BY <1>1, <1>2, <1>3, <1>4, <1>5, AddIs DEF Directions
  <1>7. /\ r.file[FIRST_FD] = "epoll" /\ r.watch[FIRST_FD] = Unwatched
        /\ r.file[ListenFd] = "listener"
    BY <1>1, <1>3, <1>5, <1>6 DEF DifferAt
  <1>8. InStep(r, SlotOf[ListenFd], ListenFd)
    BY <1>2, <1>6, <1>7 DEF InStep, Callbacks, Expected
  <1>9. ASSUME NEW fd \in Fds \ {FIRST_FD, ListenFd}
        PROVE  r.file[fd] = "free" /\ InStep(r, SlotOf[fd], fd)
    <2>1. SlotOf[fd] # s /\ SlotOf[fd] \in Slots
      BY <1>1, <1>2, SlotOfIs DEF Indexing
    <2> QED
      BY <1>3, <1>5, <1>6, <2>1 DEF DifferAt, InStep
  <1>10. TableInv
    <2>1. Table(r, Slots, SlotOf, FIRST_FD)
      BY <1>6, <1>7, <1>8, <1>9 DEF Table, DifferAt
    <2>2. batch = {}
      BY DEF Init, SocketsInit
    <2> QED
      BY <2>1, <2>2, SlotOfIs DEF TableInv, InSync, EventsInv
  <1>11. BlocksInv
    <2>1. blkcnt = ListenFd \div MAX_EPOLL_EVENTS + 1
      BY DEF Init
    <2>2. \A fd \in Fds \ {FIRST_FD} : r.file[fd] # "free" => fd = ListenFd
      BY <1>9
    <2>3. /\ ListenFd \div MAX_EPOLL_EVENTS \in 0 .. (NOFILE - 1) \div MAX_EPOLL_EVENTS
          /\ (NOFILE - 1) \div MAX_EPOLL_EVENTS \in Nat
      BY <1>1, Blocks
    <2> QED
      BY <2>1, <2>2, <2>3 DEF BlocksInv, HasBlock
  <1>12. SocketsOK /\ ConnInv
    <2> << >> \in Seq(Msgs) /\ << >> \in Seq(Conns)
      OBVIOUS
    <2>1. SocketsOK
      BY DEF Init, SocketsInit, SocketsOK
    <2>2. \A fd \in Fds : r.file[fd] \notin Conns
      BY <1>7, <1>9, ConnAssumption
    <2>3. Len(backlog) = 0
      BY DEF Init, SocketsInit
    <2> QED
      BY <2>1, <2>2, <2>3 DEF ConnInv, Waits
  <1>13. AskedInv
    BY RequestAssumption DEF Init, AskedInv, AnswersOwnRequest
  <1>14. ControlInv
    BY DEF Init, ControlInv
  <1> QED
    BY <1>10, <1>11, <1>12, <1>13, <1>14 DEF Inv

LEMMA InvNext == Inv /\ [Next]_vars => Inv'
  <1> SUFFICES ASSUME Inv, [Next]_vars PROVE Inv'
    OBVIOUS
  <1>0. blocked \in [Conns -> BOOLEAN]
    BY DEF Inv, SocketsOK
  <1>1. ASSUME NEW S \in Reports, EpollWait(S) PROVE Inv'
    <2>1. EventsInv(r, {Report(fd) : fd \in S}, Slots, SlotOf, FIRST_FD)
      BY SlotOfIs, Reported DEF Inv, TableInv, InSync
    <2>2. r' = r /\ batch' = {Report(fd) : fd \in S} /\ pc' = "batch"
      BY <1>1 DEF EpollWait
    <2>3. TableInv'
      BY <2>1, <2>2 DEF Inv, TableInv, InSync, SlotOf, ntyreactor_idx
    <2>4. ControlInv'
      BY <2>2 DEF ControlInv
    <2> QED
      BY <1>0, <1>1, <2>3, <2>4, TableStays DEF EpollWait, sockets
  <1>2. ASSUME NEW e \in batch, Accept(e) PROVE Inv'
    BY <1>2, AcceptKeeps DEF Accept
  <1>3. ASSUME NEW e \in batch, AcceptFails(e) PROVE Inv'
    <2>1. r' = r /\ batch' = Wanted(r, batch \ {e}) /\ pc' \in {"wait", "batch"}
      BY <1>3 DEF AcceptFails, Handled
    <2>2. TableInv'
      BY <2>1, TableKept DEF Inv, TableInv, SlotOf, ntyreactor_idx
    <2>3. ControlInv'
      BY <2>1 DEF ControlInv
    <2> QED
      BY <1>0, <1>3, <2>1, <2>2, <2>3, TableStays DEF AcceptFails, sockets
  <1>4. ASSUME NEW e \in batch, AcceptNoMemory(e) PROVE Inv'
    <2>1. /\ UNCHANGED <<r, batch, backlog>> /\ pc' = "alloc" /\ cur' = <<e>>
          /\ r.slot[e.slot].callback = "accept" /\ backlog # << >> /\ FreeFds # {}
      BY <1>4 DEF AcceptNoMemory, Called, sockets
    <2>2. TableInv'
      BY <2>1 DEF Inv, TableInv, SlotOf, ntyreactor_idx
    <2>3. ControlInv'
      BY <2>1 DEF ControlInv, FreeFds
    <2> QED
      BY <1>0, <1>4, <2>1, <2>2, <2>3, TableStays DEF AcceptNoMemory, sockets
  <1>5. ASSUME AllocAgain PROVE Inv'
    <2>1. cur[1] \in batch /\ backlog # << >> /\ FreeFds # {}
      BY <1>5 DEF AllocAgain, Inv, ControlInv
    <2> QED
      BY <1>5, <2>1, AcceptKeeps DEF AllocAgain
  <1>6. ASSUME NEW e \in batch, RecvRequest(e) PROVE Inv'
    BY <1>6, ReceiveKeeps
  <1>7. ASSUME NEW e \in batch, RecvClosed(e) PROVE Inv'
    <2>1. r.slot[e.slot].callback # "accept"
      BY <1>7 DEF RecvClosed, Called
    <2> QED
      BY <1>7, <2>1, CloseKeeps DEF RecvClosed
  <1>8. ASSUME NEW e \in batch, NEW code \in {200, 404}, NEW full \in BOOLEAN, SendHeader(e, code, full)
        PROVE  Inv'
    <2>1. r.slot[e.slot].callback = "send"
      BY <1>8 DEF SendHeader, Called
    <2>2. CASE code = 200
      <3>1. UNCHANGED <<r, batch>> /\ pc' = "body" /\ cur' = <<e>>
        BY <1>8, <2>2 DEF SendHeader
      <3>2. TableInv'
        BY <3>1 DEF Inv, TableInv, SlotOf, ntyreactor_idx
      <3>3. ControlInv'
        BY <2>1, <3>1 DEF ControlInv
      <3>4. blocked' \in [Conns -> BOOLEAN]
        BY <1>0, <1>8 DEF SendHeader
      <3> QED
        BY <1>8, <2>2, <3>1, <3>2, <3>3, <3>4, TableStays DEF SendHeader
    <2>3. CASE code # 200
      <3>1. /\ Handled(e, ToRecv(e)) /\ ForgetRequest(ConnOf(e))
            /\ blocked' = [blocked EXCEPT ![ConnOf(e)] = full]
            /\ UNCHANGED <<backlog, net, unread, blkcnt, resource>>
        BY <1>8, <2>3 DEF SendHeader
      <3> QED
        BY <2>1, <3>1, AnswerKeeps
    <2> QED
      BY <2>2, <2>3
  <1>9. ASSUME NEW full \in BOOLEAN, SendBody(full) PROVE Inv'
    <2>1. cur[1] \in batch /\ r.slot[cur[1].slot].callback = "send"
      BY <1>9 DEF SendBody, Inv, ControlInv
    <2> QED
      BY <1>9, <2>1, AnswerKeeps DEF SendBody
  <1>10. ASSUME NEW e \in batch, SendError(e) PROVE Inv'
    <2>1. r.slot[e.slot].callback # "accept"
      BY <1>10 DEF SendError, Called
    <2> QED
      BY <1>10, <2>1, CloseKeeps DEF SendError
  <1>11. ASSUME Killed PROVE Inv'
    <2>1. UNCHANGED <<r, batch>> /\ pc' = "dead"
      BY <1>11 DEF Killed
    <2>2. TableInv' /\ ControlInv'
      BY <2>1 DEF Inv, TableInv, ControlInv, SlotOf, ntyreactor_idx
    <2> QED
      BY <1>0, <1>11, <2>2, TableStays DEF Killed, sockets
  <1>12. ASSUME ClientStep, UNCHANGED <<r, batch, blkcnt, resource, pc, cur, asked>> PROVE Inv'
    <2>1. /\ SocketsOK' /\ ConnInv'
          /\ backlog # << >> => backlog' # << >>
      BY <1>12, ConnClient DEF Inv
    <2>2. TableInv' /\ BlocksInv' /\ AskedInv'
      BY <1>12 DEF Inv, TableInv, BlocksInv, HasBlock, AskedInv, AnswersOwnRequest,
                   SlotOf, ntyreactor_idx
    <2>3. ControlInv'
      BY <1>12, <2>1 DEF Inv, ControlInv, FreeFds
    <2> QED
      BY <2>1, <2>2, <2>3 DEF Inv
  <1>13. CASE UNCHANGED vars
    <2>1. UNCHANGED <<r, batch, backlog, net, unread, blocked, blkcnt, resource, pc, cur, asked>>
      BY <1>13 DEF vars, sockets
    <2>2. TableInv' /\ ControlInv'
      BY <2>1 DEF Inv, TableInv, ControlInv, FreeFds, SlotOf, ntyreactor_idx
    <2> QED
      BY <1>0, <2>1, <2>2, TableStays
  <1> QED
    BY <1>1, <1>2, <1>3, <1>4, <1>5, <1>6, <1>7, <1>8, <1>9, <1>10, <1>11, <1>12, <1>13
    DEF Next, ServerStep, Callback

\* What the callbacks rely on holds before every one of them: a slot in use is
\* registered for its own descriptor, and no event of the batch is older than
\* the slot it points to (c:87-122, c:515-545).
THEOREM Invariance == Spec => []Inv
  BY InvInit, InvNext, PTL DEF Spec

-----------------------------------------------------------------------------
(* What it establishes.                                                    *)

\* Whatever descriptor numbers are reused, every open connection is registered
\* for what its callback expects, through the slot of its own descriptor, and a
\* closed one is not registered and its slot free (c:87-122).
THEOREM TableCorrect == Spec => []SlotsOK
  <1>1. Inv => SlotsOK
    <2> SUFFICES ASSUME Inv PROVE SlotsOK
      OBVIOUS
    <2>1. Table(r, Slots, SlotOf, FIRST_FD) /\ EventsInv(r, batch, Slots, SlotOf, FIRST_FD)
      BY DEF Inv, TableInv, InSync
    <2>2. TypeOK
      <3>1. /\ r.file \in [Fds -> Conns \cup {"free", "listener", "epoll"}]
            /\ r.watch \in [Fds -> {Unwatched} \cup ({"in", "out"} \X Slots)]
            /\ r.slot \in [Slots -> [fd : 0 .. NOFILE - 1, events : {"none", "in", "out"},
                                     callback : {"none", "accept", "recv", "send"}, status : {0, 1}]]
        BY <2>1 DEF Table, Reactors, Owners, Events
      <3>2. batch \subseteq [slot : Slots, events : {"in", "out"}, of : Conns \cup {"listener"}]
        BY <2>1 DEF EventsInv, Directions
      <3> QED
        BY <3>1, <3>2 DEF TypeOK, Inv, BlocksInv, AskedInv, ControlInv
    <2>3. ASSUME NEW fd \in Fds \ {FIRST_FD}
          PROVE  LET s == ntyreactor_idx(fd)
                     ev == r.slot[s]
                 IN  IF r.file[fd] = "free"
                     THEN r.watch[fd] = Unwatched /\ (s[1] < blkcnt => ev.status = 0)
                     ELSE /\ HasBlock(fd) /\ ev.fd = fd /\ ev.status = 1
                          /\ r.watch[fd] = <<ev.events, s>>
                          /\ ev.events = IF ev.callback = "send" THEN "out" ELSE "in"
      <3>1. InStep(r, ntyreactor_idx(fd), fd)
        BY <2>1, SlotOfIs DEF Table
      <3>2. r.file[fd] # "free" => HasBlock(fd)
        BY DEF Inv, BlocksInv
      <3> QED
        BY <3>1, <3>2 DEF InStep, Registered, Expected
    <2> QED
      BY <2>2, <2>3 DEF SlotsOK, Watched
  <1> QED
    BY <1>1, Invariance, PTL

\* No earlier callback of a batch has closed or replaced the connection of an
\* event that is still to be handled (c:527-538).
THEOREM EventsStayCurrent == Spec => []EventsCurrent
  <1>1. Inv => EventsCurrent
    BY Current DEF Inv, EventsCurrent
  <1> QED
    BY <1>1, Invariance, PTL

\* The answer to a GET is about the resource that the connection asked for,
\* although resource belongs to a slot that others have used (c:140-160, c:203-266).
THEOREM AnswerIsOwn == Spec => []AnswersOwnRequest
  <1>1. Inv => AnswersOwnRequest
    BY DEF Inv, AskedInv
  <1> QED
    BY <1>1, Invariance, PTL
=============================================================================

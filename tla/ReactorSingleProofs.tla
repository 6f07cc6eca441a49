-------------------------- MODULE ReactorSingleProofs --------------------------
(***************************************************************************)
(* Proofs about ReactorSingle, for every table size, number of             *)
(* descriptors and length of a scan: the table agrees with the descriptors *)
(* and epoll, an echo is the input of its own connection, the scan closes  *)
(* nothing that was served lately and finds every idle slot in time.       *)
(***************************************************************************)
EXTENDS ReactorSingle, EpollReactorProofs

EpollFd == FIRST_FD + 1
SlotOf == [fd \in Fds |-> fd]

LEMMA SlotOfIs ==
    /\ Indexing(Slots, SlotOf, EpollFd) /\ Fds \subseteq Slots
    /\ FIRST_FD \in Fds \ {EpollFd}
    /\ \A fd \in Fds : SlotOf[fd] = fd
  <1>1. EpollFd \in Fds /\ FIRST_FD \in Fds /\ FIRST_FD # EpollFd /\ Fds \subseteq Slots
    BY FdAssumption, TableAssumption DEF Fds, Slots, EpollFd
  <1>2. SlotOf \in [Fds -> Slots] /\ \A fd \in Fds : SlotOf[fd] = fd
    BY <1>1 DEF SlotOf
  <1> QED
    BY <1>1, <1>2 DEF Indexing

-----------------------------------------------------------------------------
(* The inductive invariant.                                                *)

\* The table and the batch; slots in use belong to descriptors, and only the
\* first descriptor listens.
TableInv ==
    /\ InSync(r, batch, Slots, SlotOf, EpollFd)
    /\ \A s \in Slots : r.slot[s].status = 1 => s \in Fds \ {EpollFd}
    /\ \A fd \in Fds : r.file[fd] = "listener" => fd = FIRST_FD

\* The scan meets no batch; accept_cb is called while someone waits.
ControlInv ==
    /\ pc \in {"scan", "wait", "batch", "dead"}
    /\ pc \in {"scan", "wait"} => batch = {}
    /\ \A e \in batch : e.of = "listener" => backlog # << >>

EchoInv ==
    /\ buffer \in [Slots -> Seq(Msgs) \cup {Nothing}]
    /\ received \in [Conns -> Seq(Msgs) \cup {Nothing}]
    /\ EchoesOwnInput

\* last_active of a slot is the last time its connection was served.
AgeInv ==
    /\ age \in [Slots -> 0 .. TIMEOUT] /\ quiet \in [Conns -> 0 .. TIMEOUT]
    /\ \A fd \in Fds : r.file[fd] \in Conns => quiet[r.file[fd]] = age[fd]

\* How far slot s lies ahead of the scan.
Ahead(s) == IF s >= checkpos THEN s - checkpos ELSE s + MAX_EPOLL_EVENTS - checkpos

\* The rounds that missed an idle slot brought the scan nearer to it.
ScanInv ==
    /\ checkpos \in Slots /\ missed \in [Slots -> Nat]
    /\ \A s \in Slots : missed[s] * SCAN + Ahead(s) < MAX_EPOLL_EVENTS

Inv == TableInv /\ ControlInv /\ SocketsOK /\ ConnInv /\ EchoInv /\ AgeInv /\ ScanInv

\* The callback of an event of the batch finds the descriptor it was reported for.
LEMMA Current ==
    ASSUME TableInv, NEW e \in batch, NEW fd, fd = r.slot[e.slot].fd
    PROVE  /\ fd \in Fds \ {EpollFd} /\ e.slot = fd /\ fd \in Slots
           /\ ConnOf(e) = r.file[fd] /\ r.file[fd] = e.of
           /\ r.slot[fd].callback # "accept" => r.file[fd] \in Conns
           /\ r.slot[fd].callback = "accept" => e.of = "listener"
  BY EventOf, SlotOfIs DEF TableInv, InSync, ConnOf

LEMMA TableInvStep ==
    ASSUME TableInv, NEW fd \in Fds \ {EpollFd},
           InSync(r', batch', Slots, SlotOf, EpollFd), DifferAt(r, r', Slots, fd, fd),
           r'.file[fd] # "listener"
    PROVE  TableInv'
  <1>1. \A s \in Slots : r'.slot[s].status = 1 => s \in Fds \ {EpollFd}
    BY DEF TableInv, DifferAt
  <1>2. \A g \in Fds : r'.file[g] = "listener" => g = FIRST_FD
    BY DEF TableInv, DifferAt
  <1>3. InSync(r, batch, Slots, SlotOf, EpollFd)'
    BY DEF SlotOf
  <1> QED
    BY <1>1, <1>2, <1>3 DEF TableInv

-----------------------------------------------------------------------------
(* What the callbacks have in common.                                      *)

\* At most one event of a batch is the listener's.
LEMMA OneListener ==
    ASSUME TableInv, NEW e \in batch, e.of = "listener", NEW x \in batch \ {e}
    PROVE  x.of # "listener"
  <1> DEFINE f == r.slot[e.slot].fd
             g == r.slot[x.slot].fd
  <1>1. f \in Fds /\ e.slot = f /\ r.file[f] = e.of
    BY Current
  <1>2. g \in Fds /\ x.slot = g /\ r.file[g] = x.of
    BY Current
  <1>3. x.slot # SlotOf[f]
    BY EventOf DEF TableInv, InSync
  <1>4. SlotOf[f] = f
    BY <1>1, SlotOfIs
  <1> QED
    BY <1>1, <1>2, <1>3, <1>4 DEF TableInv

LEMMA ControlStep ==
    ASSUME TableInv, ControlInv, NEW e \in batch, NEW k, Handled(e, k),
           e.of = "listener" \/ backlog' = backlog
    PROVE  ControlInv'
  <1>1. /\ pc' \in {"scan", "wait", "batch", "dead"} /\ batch' \subseteq batch \ {e}
        /\ pc' \in {"scan", "wait"} => batch' = {}
    BY DEF Handled, Wanted
  <1>2. \A x \in batch' : x.of = "listener" => backlog' # << >>
    BY <1>1, OneListener DEF ControlInv
  <1> QED
    BY <1>1, <1>2 DEF ControlInv

\* Touch marks the slot and its connection together.
LEMMA TouchKeeps ==
    ASSUME AgeInv, ConnInv', NEW fd \in Fds, NEW c \in Conns, r'.file[fd] = c,
           \A g \in Fds : g # fd => r'.file[g] = r.file[g], Touch(fd, c)
    PROVE  AgeInv'
  <1>1. /\ age' = [age EXCEPT ![fd] = 0] /\ quiet' = [quiet EXCEPT ![c] = 0]
        /\ 0 \in 0 .. TIMEOUT /\ fd \in Slots
    BY ScanAssumption, SlotOfIs DEF Touch
  <1>2. /\ age' \in [Slots -> 0 .. TIMEOUT] /\ quiet' \in [Conns -> 0 .. TIMEOUT]
        /\ age'[fd] = 0 /\ quiet'[c] = 0
        /\ \A s \in Slots : s # fd => age'[s] = age[s]
        /\ \A d \in Conns : d # c => quiet'[d] = quiet[d]
    BY <1>1 DEF AgeInv
  <1>3. ASSUME NEW g \in Fds, r'.file[g] \in Conns PROVE quiet'[r'.file[g]] = age'[g]
    <2>1. CASE g = fd
      BY <1>2, <2>1
    <2>2. CASE g # fd
      <3>1. r'.file[g] # c
        BY <1>3, <2>2 DEF ConnInv
      <3>2. g \in Slots
        BY SlotOfIs
      <3> QED
        BY <1>2, <1>3, <2>2, <3>1, <3>2 DEF AgeInv
    <2> QED
      BY <2>1, <2>2
  <1> QED
    BY <1>2, <1>3 DEF AgeInv

LEMMA ScanStays ==
    ASSUME ScanInv, UNCHANGED <<checkpos, missed>>
    PROVE  ScanInv'
  BY DEF ScanInv, Ahead

\* The sockets change in what they hold only.
LEMMA SocketsKept ==
    ASSUME SocketsOK, ConnInv, r'.file = r.file, UNCHANGED <<backlog, net>>,
           unread' \in [Conns -> Seq(Msgs)], blocked' \in [Conns -> BOOLEAN]
    PROVE  SocketsOK' /\ ConnInv'
  BY DEF SocketsOK, ConnInv, Waits

-----------------------------------------------------------------------------
(* The callbacks.                                                          *)

LEMMA AcceptKeeps ==
    ASSUME Inv, NEW e \in batch, Accept(e), NEW fd, fd = LowestFd, NEW c, c = Head(backlog)
    PROVE  Inv'
  <1>1. fd \in Fds /\ r.file[fd] = "free" /\ SlotOf[fd] = fd
    BY LowestIsFree, SlotOfIs DEF FreeFds, Accept
  <1>2. e.of = "listener" /\ backlog # << >>
    BY Current DEF Inv, ControlInv, Accept, Called
  <1>3. c \in Conns
    <2>1. backlog \in Seq(Conns)
      BY DEF Inv, SocketsOK
    <2> QED
      BY <1>2, <2>1, HeadTailProperties
  <1>4. r' = Opening(r, SlotOf[fd], fd, c) /\ batch' = Wanted(r', batch \ {e})
    BY <1>1 DEF Accept, Handled, Watching, Opening
  <1>5. InSync(r, batch, Slots, SlotOf, EpollFd)
    BY DEF Inv, TableInv
  <1>6. InSync(r', Wanted(r', batch \ {e}), Slots, SlotOf, EpollFd)
    BY <1>1, <1>3, <1>4, <1>5, TableOpen
  <1>7. DifferAt(r, r', Slots, SlotOf[fd], fd)
    BY <1>1, <1>3, <1>4, <1>5, TableOpen
  <1>8. Opened(r', SlotOf[fd], fd, c)
    BY <1>1, <1>3, <1>4, <1>5, TableOpen
  <1>9. /\ r'.file[fd] = c /\ \A g \in Fds : g # fd => r'.file[g] = r.file[g]
        /\ r'.slot[fd].callback = "recv" /\ \A s \in Slots : s # fd => r'.slot[s] = r.slot[s]
    BY <1>1, <1>7, <1>8 DEF DifferAt, Opened, Registered
  <1>10. fd # EpollFd
    BY <1>1, <1>5 DEF InSync, Table
  <1>11. TableInv'
    <2>1. c # "listener"
      BY <1>3, ConnAssumption
    <2>2. DifferAt(r, r', Slots, fd, fd) /\ InSync(r', batch', Slots, SlotOf, EpollFd)
      BY <1>1, <1>4, <1>6, <1>7
    <2> QED
      BY <1>1, <1>9, <1>10, <2>1, <2>2, TableInvStep DEF Inv
  <1>12. ControlInv'
    <2>1. PICK k : Handled(e, k)
      BY DEF Accept
    <2> QED
      BY <1>2, <2>1, ControlStep DEF Inv
  <1>13. SocketsOK' /\ ConnInv'
    BY <1>1, <1>2, <1>9, ConnAccept DEF Inv, Accept
  <1>14. EchoInv'
    BY <1>9, SlotOfIs DEF Inv, EchoInv, EchoesOwnInput, Accept
  <1>15. AgeInv'
    BY <1>1, <1>3, <1>9, <1>13, TouchKeeps DEF Inv, Accept
  <1>16. ScanInv'
    BY ScanStays DEF Inv, Accept
  <1> QED
    BY <1>11, <1>12, <1>13, <1>14, <1>15, <1>16 DEF Inv

\* The callback left the slot of its connection waiting for the next event.
LEMMA RearmKeeps ==
    ASSUME Inv, NEW e \in batch, NEW fd, fd = r.slot[e.slot].fd,
           r.slot[e.slot].callback # "accept",
           NEW callback \in Serving,
           Handled(e, Rearm(r, fd, fd, callback, Expected(callback))), backlog' = backlog
    PROVE  /\ TableInv' /\ r'.file = r.file /\ ControlInv'
           /\ r'.slot[fd].callback = callback /\ \A s \in Slots : s # fd => r'.slot[s] = r.slot[s]
  <1>1. fd \in Fds \ {EpollFd} /\ r.file[fd] \in Conns /\ fd = SlotOf[fd]
    BY Current, SlotOfIs DEF Inv
  <1>2. r' = Rearm(r, fd, fd, callback, Expected(callback)) /\ batch' = Wanted(r', batch \ {e})
    BY DEF Handled
  <1>3. InSync(r, batch, Slots, SlotOf, EpollFd)
    BY DEF Inv, TableInv
  <1>4. /\ InSync(r', Wanted(r', batch \ {e}), Slots, SlotOf, EpollFd)
        /\ r'.file = r.file /\ DifferAt(r, r', Slots, fd, fd)
        /\ Registered(r', fd, fd, callback, Expected(callback))
    <2>1. r' = Rearm(r, SlotOf[fd], fd, callback, Expected(callback))
      BY <1>1, <1>2
    <2>2. InSync(r', Wanted(r', batch \ {e}), Slots, SlotOf, EpollFd)
      BY <1>1, <1>3, <2>1, TableRearm
    <2>3. SameFiles(r, r')
      BY <1>1, <1>3, <2>1, TableRearm
    <2>4. DifferAt(r, r', Slots, SlotOf[fd], fd)
      BY <1>1, <1>3, <2>1, TableRearm
    <2>5. Registered(r', SlotOf[fd], fd, callback, Expected(callback))
      BY <1>1, <1>3, <2>1, TableRearm
    <2> QED
      BY <1>1, <2>2, <2>3, <2>4, <2>5 DEF SameFiles
  <1>5. TableInv'
    <2>1. r'.file[fd] # "listener"
      BY <1>1, <1>4, ConnAssumption
    <2> QED
      BY <1>1, <1>2, <1>4, <2>1, TableInvStep DEF Inv
  <1>6. ControlInv'
    BY ControlStep DEF Inv
  <1> QED
    BY <1>4, <1>5, <1>6 DEF DifferAt, Registered

LEMMA CloseKeeps ==
    ASSUME Inv, NEW e \in batch, NEW fd, fd = r.slot[e.slot].fd, NEW c, c = ConnOf(e),
           r.slot[e.slot].callback # "accept",
           NEW k, Handled(e, k),
           \/ k = Close(nty_event_del(r, fd, fd), fd)
           \/ k = nty_event_del(Close(r, fd), fd, fd),
           Disconnect(c), Forget(c), UNCHANGED <<backlog, buffer, age, checkpos, missed>>
    PROVE  Inv'
  <1>1. fd \in Fds \ {EpollFd} /\ r.file[fd] = c /\ c \in Conns /\ fd = SlotOf[fd]
    BY Current, SlotOfIs DEF Inv
  <1>2. /\ r' = Close(nty_event_del(r, fd, fd), fd) \/ r' = nty_event_del(Close(r, fd), fd, fd)
        /\ batch' = Wanted(r', batch \ {e})
    BY DEF Handled
  <1>3. InSync(r, batch, Slots, SlotOf, EpollFd)
    BY DEF Inv, TableInv
  <1>4. /\ InSync(r', Wanted(r', batch \ {e}), Slots, SlotOf, EpollFd)
        /\ r'.file[fd] = "free" /\ \A g \in Fds : g # fd => r'.file[g] = r.file[g]
        /\ \A s \in Slots : s # fd => r'.slot[s] = r.slot[s]
        /\ DifferAt(r, r', Slots, fd, fd)
    <2>1. /\ InSync(r', Wanted(r', batch \ {e}), Slots, SlotOf, EpollFd)
          /\ DifferAt(r, r', Slots, fd, fd) /\ r'.file[fd] = "free"
      BY <1>1, <1>2, <1>3, TableClose
    <2> QED
      BY <2>1 DEF DifferAt
  <1>5. TableInv'
    BY <1>1, <1>2, <1>4, TableInvStep DEF Inv
  <1>6. ControlInv'
    BY ControlStep DEF Inv
  <1>7. SocketsOK' /\ ConnInv'
    BY <1>1, <1>4, ConnClose DEF Inv
  <1>8. \A g \in Fds : r'.file[g] \in Conns => g # fd /\ r'.file[g] = r.file[g] /\ r'.file[g] # c
    BY <1>1, <1>4, ConnAssumption DEF Inv, ConnInv
  <1>9. /\ received' \in [Conns -> Seq(Msgs) \cup {Nothing}] /\ quiet' \in [Conns -> 0 .. TIMEOUT]
        /\ \A d \in Conns : d # c => received'[d] = received[d] /\ quiet'[d] = quiet[d]
    BY <1>1, ScanAssumption DEF Forget, Inv, EchoInv, AgeInv
  <1>10. EchoInv'
    <2>1. /\ buffer \in [Slots -> Seq(Msgs) \cup {Nothing}] /\ buffer' = buffer
          /\ EchoesOwnInput
      BY DEF Inv, EchoInv
    <2>2. ASSUME NEW d \in Conns, NEW g \in Fds, r'.file[g] = d, r'.slot[g].callback = "send"
          PROVE  buffer'[g] = received'[d]
      <3>1. g # fd /\ r.file[g] = d /\ d # c
        BY <1>8, <2>2
      <3>2. g \in Slots /\ r'.slot[g] = r.slot[g]
        BY <1>4, <3>1, SlotOfIs
      <3>3. buffer[g] = received[d]
        BY <2>1, <2>2, <3>1, <3>2 DEF EchoesOwnInput
      <3> QED
        BY <1>9, <2>1, <3>1, <3>3
    <2> QED
      BY <1>9, <2>1, <2>2 DEF EchoInv, EchoesOwnInput
  <1>11. AgeInv'
    BY <1>8, <1>9 DEF Inv, AgeInv
  <1>12. ScanInv'
    BY ScanStays DEF Inv
  <1> QED
    BY <1>5, <1>6, <1>7, <1>10, <1>11, <1>12 DEF Inv

LEMMA ReceiveKeeps ==
    ASSUME Inv, NEW e \in batch, RecvData(e)
    PROVE  Inv'
  <1> DEFINE fd == r.slot[e.slot].fd
             c  == ConnOf(e)
             m  == unread[c]
  <1>1. r.slot[e.slot].callback # "accept" /\ e.slot = fd
    BY Current DEF RecvData, Called, Inv
  <1>2. fd \in Fds \ {EpollFd} /\ fd \in Slots /\ c = r.file[fd] /\ c \in Conns
    BY <1>1, Current DEF Inv
  <1>3. m \in Seq(Msgs) /\ UNCHANGED <<backlog, net>>
    BY <1>2 DEF Inv, SocketsOK, RecvData
  <1>4. /\ TableInv' /\ r'.file = r.file /\ ControlInv'
        /\ r'.slot[fd].callback = "send" /\ \A s \in Slots : s # fd => r'.slot[s] = r.slot[s]
    <2>1. Handled(e, Rearm(r, fd, fd, "send", Expected("send"))) /\ "send" \in Serving
      BY DEF RecvData, EchoNext, Expected, Serving
    <2> QED
      BY <1>1, <1>3, <2>1, RearmKeeps
  <1>5. SocketsOK' /\ ConnInv'
    <2> << >> \in Seq(Msgs)
      OBVIOUS
    <2>1. /\ unread' = [unread EXCEPT ![c] = << >>] /\ blocked' = blocked
          /\ unread \in [Conns -> Seq(Msgs)] /\ blocked \in [Conns -> BOOLEAN]
      BY DEF RecvData, Inv, SocketsOK
    <2>2. unread' \in [Conns -> Seq(Msgs)] /\ blocked' \in [Conns -> BOOLEAN]
      BY <2>1
    <2> QED
      BY <1>3, <1>4, <2>2, SocketsKept DEF Inv
  <1>6. /\ buffer \in [Slots -> Seq(Msgs) \cup {Nothing}]
        /\ received \in [Conns -> Seq(Msgs) \cup {Nothing}]
        /\ buffer' = [buffer EXCEPT ![fd] = m] /\ received' = [received EXCEPT ![c] = m]
    BY DEF Inv, EchoInv, RecvData, Stored
  <1>7. AgeInv'
    <2>1. r'.file[fd] = c /\ \A g \in Fds : g # fd => r'.file[g] = r.file[g]
      BY <1>2, <1>4
    <2>2. AgeInv /\ Touch(fd, c)
      BY DEF Inv, RecvData
    <2> HIDE DEF c, fd
    <2> QED
      BY <1>2, <1>5, <2>1, <2>2, TouchKeeps
  <1> HIDE DEF m, c, fd
  <1>8. /\ buffer' \in [Slots -> Seq(Msgs) \cup {Nothing}] /\ buffer'[fd] = m
        /\ \A s \in Slots : s # fd => buffer'[s] = buffer[s]
    BY <1>2, <1>3, <1>6
  <1>9. /\ received' \in [Conns -> Seq(Msgs) \cup {Nothing}] /\ received'[c] = m
        /\ \A d \in Conns : d # c => received'[d] = received[d]
    BY <1>2, <1>3, <1>6
  <1>10. ASSUME NEW d \in Conns, NEW g \in Fds, r'.file[g] = d, r'.slot[g].callback = "send"
         PROVE  buffer'[g] = received'[d]
    <2>1. CASE g = fd
      BY <1>2, <1>4, <1>8, <1>9, <1>10, <2>1
    <2>2. CASE g # fd
      <3>1. d # c
        BY <1>2, <1>4, <1>10, <2>2 DEF Inv, ConnInv
      <3>2. g \in Slots
        BY SlotOfIs
      <3>3. buffer[g] = received[d]
        BY <1>4, <1>10, <2>2, <3>2 DEF Inv, EchoInv, EchoesOwnInput
      <3> QED
        BY <1>8, <1>9, <2>2, <3>1, <3>2, <3>3
    <2> QED
      BY <2>1, <2>2
  <1>11. EchoInv'
    BY <1>8, <1>9, <1>10 DEF EchoInv, EchoesOwnInput
  <1>12. ScanInv'
    BY ScanStays DEF Inv, RecvData
  <1> QED
    BY <1>4, <1>5, <1>7, <1>11, <1>12 DEF Inv

LEMMA EchoKeeps ==
    ASSUME Inv, NEW e \in batch, NEW full \in BOOLEAN, SendEcho(e, full)
    PROVE  Inv'
  <1> DEFINE fd == r.slot[e.slot].fd
             c  == ConnOf(e)
  <1>1. r.slot[e.slot].callback # "accept" /\ e.slot = fd
    BY Current DEF SendEcho, Called, Inv
  <1>2. fd \in Fds \ {EpollFd} /\ fd \in Slots /\ c = r.file[fd] /\ c \in Conns
    BY <1>1, Current DEF Inv
  <1>3. UNCHANGED <<backlog, net, unread, buffer>>
    BY DEF SendEcho
  <1>4. /\ TableInv' /\ r'.file = r.file /\ ControlInv'
        /\ r'.slot[fd].callback = "recv" /\ \A s \in Slots : s # fd => r'.slot[s] = r.slot[s]
    <2>1. Handled(e, Rearm(r, fd, fd, "recv", Expected("recv"))) /\ "recv" \in Serving
      BY DEF SendEcho, Expected, Serving
    <2> QED
      BY <1>1, <1>3, <2>1, RearmKeeps
  <1>5. SocketsOK' /\ ConnInv'
    <2>1. unread' \in [Conns -> Seq(Msgs)] /\ blocked' \in [Conns -> BOOLEAN]
      BY <1>3 DEF SendEcho, Inv, SocketsOK
    <2> QED
      BY <1>3, <1>4, <2>1, SocketsKept DEF Inv
  <1>6. AgeInv'
    <2>1. r'.file[fd] = c /\ \A g \in Fds : g # fd => r'.file[g] = r.file[g]
      BY <1>2, <1>4
    <2>2. AgeInv /\ Touch(fd, c)
      BY DEF Inv, SendEcho
    <2> HIDE DEF c, fd
    <2> QED
      BY <1>2, <1>5, <2>1, <2>2, TouchKeeps
  <1>7. /\ received' \in [Conns -> Seq(Msgs) \cup {Nothing}]
        /\ \A d \in Conns : d # c => received'[d] = received[d]
    BY DEF Inv, EchoInv, SendEcho
  <1> HIDE DEF c, fd
  <1>8. ASSUME NEW d \in Conns, NEW g \in Fds, r'.file[g] = d, r'.slot[g].callback = "send"
        PROVE  buffer'[g] = received'[d]
    <2>1. g # fd /\ g \in Slots
      BY <1>4, <1>8, SlotOfIs
    <2>2. d # c
      BY <1>2, <1>4, <1>8, <2>1 DEF Inv, ConnInv
    <2>3. buffer[g] = received[d]
      BY <1>4, <1>8, <2>1 DEF Inv, EchoInv, EchoesOwnInput
    <2> QED
      BY <1>3, <1>7, <2>2, <2>3
  <1>9. EchoInv'
    BY <1>3, <1>7, <1>8 DEF Inv, EchoInv, EchoesOwnInput
  <1>10. ScanInv'
    BY ScanStays DEF Inv, SendEcho
  <1> QED
    BY <1>4, <1>5, <1>6, <1>9, <1>10 DEF Inv

-----------------------------------------------------------------------------
(* The scan.                                                               *)

Gone == {s \in Scanned : Idle(s)}
Lost == ({r.file[fd] : fd \in Gone} \cap Conns)
        \cup (IF \E fd \in Gone : r.file[fd] = "listener" THEN ToSet(backlog) ELSE {})

LEMMA ModOnce ==
    ASSUME NEW Q \in Nat \ {0}, NEW x \in Nat, x < Q + Q
    PROVE  x % Q = IF x < Q THEN x ELSE x - Q
  <1> DEFINE q == x \div Q
             u == x % Q
  <1>1. q \in Nat /\ u \in 0 .. Q - 1 /\ x = Q * q + u
    BY Division
  <1> HIDE DEF q, u
  <1>2. q = 0 \/ q = 1
    <2>1. q > 1 => Q * (q - 2) >= 0
      BY <1>1
    <2>2. Q * (q - 2) = x - u - Q - Q
      BY <1>1
    <2> QED
      BY <1>1, <2>1, <2>2
  <1>3. x = u \/ x = Q + u
    BY <1>1, <1>2
  <1>4. u = IF x < Q THEN x ELSE x - Q
    BY <1>1, <1>3
  <1> QED
    BY <1>4 DEF u

LEMMA Distance ==
    ASSUME NEW M \in Nat, NEW p \in 0 .. M - 1, NEW s \in 0 .. M - 1
    PROVE  (IF s >= p THEN s - p ELSE s + M - p) \in 0 .. M - 1
  OBVIOUS

\* What one round of the scan looks at.
LEMMA ScannedIs ==
    ASSUME checkpos \in Slots
    PROVE  /\ Scanned \subseteq Slots /\ NextPos \in Slots
           /\ \A s \in Slots : Ahead(s) \in 0 .. MAX_EPOLL_EVENTS - 1
           /\ \A s \in Slots : Ahead(s) < SCAN => s \in Scanned
           /\ NextPos = IF checkpos + SCAN < MAX_EPOLL_EVENTS THEN checkpos + SCAN
                        ELSE checkpos + SCAN - MAX_EPOLL_EVENTS
  <1> DEFINE M == MAX_EPOLL_EVENTS
  <1>1. /\ M \in Nat \ {0} /\ SCAN \in 1 .. M /\ checkpos \in 0 .. M - 1
    BY FdAssumption, ScanAssumption DEF Slots
  <1>2. ASSUME NEW i \in 0 .. SCAN
        PROVE  (checkpos + i) % M = IF checkpos + i < M THEN checkpos + i ELSE checkpos + i - M
    <2> DEFINE x == checkpos + i
    <2>1. x \in Nat /\ x < M + M
      BY <1>1
    <2> HIDE DEF M, x
    <2>2. x % M = IF x < M THEN x ELSE x - M
      BY <1>1, <2>1, ModOnce
    <2> QED
      BY <1>1, <2>1, <2>2 DEF x
  <1>3. NextPos = IF checkpos + SCAN < M THEN checkpos + SCAN ELSE checkpos + SCAN - M
    <2>1. SCAN \in 0 .. SCAN
      BY <1>1
    <2> QED
      BY <1>2, <2>1 DEF NextPos
  <1>4. NextPos \in Slots
    BY <1>1, <1>3 DEF Slots
  <1>5. Scanned \subseteq Slots
    <2> SUFFICES ASSUME NEW i \in 0 .. SCAN - 1 PROVE (checkpos + i) % M \in Slots
      BY DEF Scanned
    <2>1. i \in 0 .. SCAN
      BY <1>1
    <2> QED
      BY <1>1, <1>2, <2>1 DEF Slots
  <1>6. ASSUME NEW s \in Slots PROVE Ahead(s) \in 0 .. M - 1
    BY <1>1 DEF Ahead, Slots
  <1>7. ASSUME NEW s \in Slots, Ahead(s) < SCAN PROVE s \in Scanned
    <2>1. Ahead(s) \in 0 .. SCAN - 1 /\ Ahead(s) \in 0 .. SCAN
      BY <1>1, <1>6, <1>7
    <2>2. s = IF checkpos + Ahead(s) < M THEN checkpos + Ahead(s) ELSE checkpos + Ahead(s) - M
      BY <1>1 DEF Ahead, Slots
    <2>3. s = (checkpos + Ahead(s)) % M
      BY <1>2, <2>1, <2>2
    <2> QED
      BY <2>1, <2>3 DEF Scanned
  <1> QED
    BY <1>3, <1>4, <1>5, <1>6, <1>7

\* Every idle slot is closed with its own descriptor.
LEMMA GoneIs ==
    ASSUME Inv, NEW s \in Gone
    PROVE  /\ s \in Fds \ {EpollFd} /\ s \in Slots /\ r.slot[s].fd = s /\ r.file[s] # "free"
           /\ age[s] >= TIMEOUT
  <1>1. s \in Slots /\ r.slot[s].status = 1 /\ age[s] >= TIMEOUT
    BY ScannedIs DEF Gone, Idle, Inv, ScanInv
  <1>2. s \in Fds \ {EpollFd} /\ SlotOf[s] = s
    BY <1>1, SlotOfIs DEF Inv, TableInv
  <1>3. InStep(r, s, s)
    BY <1>2 DEF Inv, TableInv, InSync, Table
  <1> QED
    BY <1>1, <1>2, <1>3 DEF InStep, Registered

LEMMA ScanIs ==
    ASSUME Inv, Scan
    PROVE  /\ r' = [file  |-> [fd \in Fds |-> IF fd \in Gone THEN "free" ELSE r.file[fd]],
                    watch |-> [fd \in Fds |-> IF fd \in Gone THEN Unwatched ELSE r.watch[fd]],
                    slot  |-> [s \in Slots |-> IF s \in Gone THEN [r.slot[s] EXCEPT !.status = 0]
                                               ELSE r.slot[s]]]
           /\ net' = [c \in Conns |-> IF c \in Lost THEN "none" ELSE net[c]]
           /\ unread' = [c \in Conns |-> IF c \in Lost THEN << >> ELSE unread[c]]
           /\ blocked' = [c \in Conns |-> c \notin Lost /\ blocked[c]]
           /\ received' = [c \in Conns |-> IF c \in Lost THEN Nothing ELSE received[c]]
           /\ quiet' = [c \in Conns |-> IF c \in Lost THEN 0 ELSE quiet[c]]
           /\ backlog' = IF \E fd \in Gone : r.file[fd] = "listener" THEN << >> ELSE backlog
           /\ missed' = [s \in Slots |-> IF Idle(s) /\ s \notin Gone THEN missed[s] + 1 ELSE 0]
           /\ checkpos' = NextPos /\ pc' = "wait" /\ UNCHANGED <<batch, buffer, age>>
  <1> DEFINE fds  == {r.slot[s].fd : s \in Gone}
             gone == {r.file[fd] : fd \in fds}
             lost == (gone \cap Conns) \cup (IF "listener" \in gone THEN ToSet(backlog) ELSE {})
  <1>1. fds = Gone
    BY GoneIs
  <1>2. gone = {r.file[fd] : fd \in Gone}
    BY <1>1
  <1>3. "listener" \in gone <=> \E fd \in Gone : r.file[fd] = "listener"
    BY <1>2
  <1>4. lost = Lost
    BY <1>2, <1>3 DEF Lost
  <1>5. /\ r' = [file  |-> [fd \in Fds |-> IF fd \in fds THEN "free" ELSE r.file[fd]],
                 watch |-> [fd \in Fds |-> IF fd \in fds THEN Unwatched ELSE r.watch[fd]],
                 slot  |-> [s \in Slots |-> IF s \in Gone THEN [r.slot[s] EXCEPT !.status = 0]
                                            ELSE r.slot[s]]]
        /\ net' = [c \in Conns |-> IF c \in lost THEN "none" ELSE net[c]]
        /\ unread' = [c \in Conns |-> IF c \in lost THEN << >> ELSE unread[c]]
        /\ blocked' = [c \in Conns |-> c \notin lost /\ blocked[c]]
        /\ received' = [c \in Conns |-> IF c \in lost THEN Nothing ELSE received[c]]
        /\ quiet' = [c \in Conns |-> IF c \in lost THEN 0 ELSE quiet[c]]
        /\ backlog' = IF "listener" \in gone THEN << >> ELSE backlog
        /\ missed' = [s \in Slots |-> IF Idle(s) /\ s \notin Gone THEN missed[s] + 1 ELSE 0]
        /\ checkpos' = NextPos /\ pc' = "wait" /\ UNCHANGED <<batch, buffer, age>>
    BY DEF Scan, Gone
  <1> HIDE DEF fds, gone, lost
  <1> QED
    BY <1>1, <1>3, <1>4, <1>5

LEMMA ScanKeeps ==
    ASSUME Inv, Scan
    PROVE  Inv'
  <1>1. Table(r, Slots, SlotOf, EpollFd) /\ Indexing(Slots, SlotOf, EpollFd) /\ r \in Reactors(Slots)
    BY DEF Inv, TableInv, InSync, Table
  <1>2. Gone \subseteq Fds \ {EpollFd} /\ Gone \subseteq Slots /\ Fds \subseteq Slots
    BY GoneIs, SlotOfIs
  <1>3. /\ \A fd \in Fds : /\ r'.file[fd] = IF fd \in Gone THEN "free" ELSE r.file[fd]
                           /\ r'.watch[fd] = IF fd \in Gone THEN Unwatched ELSE r.watch[fd]
        /\ \A s \in Slots : r'.slot[s] = IF s \in Gone THEN [r.slot[s] EXCEPT !.status = 0]
                                         ELSE r.slot[s]
    BY ScanIs
  <1>4. r' \in Reactors(Slots)
    <2>1. \A s \in Slots : r.slot[s] \in Events
      BY <1>1 DEF Reactors
    <2>2. \A s \in Slots : [r.slot[s] EXCEPT !.status = 0] \in Events
      BY <2>1 DEF Events
    <2>3. /\ \A fd \in Fds : r.file[fd] \in Owners
          /\ \A fd \in Fds : r.watch[fd] \in {Unwatched} \cup ({"in", "out"} \X Slots)
      BY <1>1 DEF Reactors
    <2> DEFINE file == [fd \in Fds |-> IF fd \in Gone THEN "free" ELSE r.file[fd]]
               watch == [fd \in Fds |-> IF fd \in Gone THEN Unwatched ELSE r.watch[fd]]
               slot == [s \in Slots |-> IF s \in Gone THEN [r.slot[s] EXCEPT !.status = 0]
                                        ELSE r.slot[s]]
    <2>4. file \in [Fds -> Owners]
      BY <2>3 DEF Owners
    <2>5. watch \in [Fds -> {Unwatched} \cup ({"in", "out"} \X Slots)]
      BY <2>3
    <2>6. slot \in [Slots -> Events]
      BY <2>1, <2>2
    <2>7. r' = [file |-> file, watch |-> watch, slot |-> slot]
      BY ScanIs
    <2> HIDE DEF file, watch, slot
    <2> QED
      BY <2>4, <2>5, <2>6, <2>7 DEF Reactors
  <1>5. TableInv'
    <2>1. r'.file[EpollFd] = "epoll" /\ r'.watch[EpollFd] = Unwatched
      BY <1>1, <1>2, <1>3 DEF Table, Indexing
    <2>2. ASSUME NEW fd \in Fds \ {EpollFd} PROVE r'.file[fd] # "epoll" /\ InStep(r', SlotOf[fd], fd)
      <3>1. SlotOf[fd] = fd /\ fd \in Slots
        BY SlotOfIs
      <3>2. CASE fd \in Gone
        <4>1. r.slot[fd] \in Events
          BY <1>1, <3>1 DEF Reactors
        <4>2. r'.slot[fd].status = 0
          BY <1>3, <3>1, <3>2, <4>1 DEF Events
        <4> QED
          BY <1>3, <3>1, <3>2, <4>2 DEF InStep
      <3>3. CASE fd \notin Gone
        <4>1. r'.file[fd] = r.file[fd] /\ r'.watch[fd] = r.watch[fd] /\ r'.slot[fd] = r.slot[fd]
          BY <1>3, <3>1, <3>3
        <4> QED
          BY <1>1, <3>1, <4>1 DEF Table, InStep, Registered
      <3> QED
        BY <3>2, <3>3
    <2>3. batch' = {}
      BY ScanIs DEF Inv, ControlInv, Scan
    <2>4. InSync(r', batch', Slots, SlotOf, EpollFd)
      BY <1>1, <1>4, <2>1, <2>2, <2>3 DEF InSync, Table, EventsInv
    <2>5. ASSUME NEW s \in Slots, r'.slot[s].status = 1 PROVE s \in Fds \ {EpollFd}
      <3>1. r.slot[s] \in Events
        BY <1>1 DEF Reactors
      <3>2. s \notin Gone
        <4> SUFFICES ASSUME s \in Gone PROVE FALSE
          OBVIOUS
        <4>1. r'.slot[s] = [r.slot[s] EXCEPT !.status = 0]
          BY <1>3
        <4>2. r'.slot[s].status = 0
          BY <3>1, <4>1 DEF Events
        <4> QED
          BY <2>5, <4>2
      <3> QED
        BY <1>3, <2>5, <3>2 DEF Inv, TableInv
    <2>6. \A fd \in Fds : r'.file[fd] = "listener" => fd = FIRST_FD
      BY <1>3 DEF Inv, TableInv
    <2>7. InSync(r, batch, Slots, SlotOf, EpollFd)'
      BY <2>4 DEF SlotOf
    <2> QED
      BY <2>5, <2>6, <2>7 DEF TableInv
  <1>6. ControlInv'
    BY ScanIs DEF Inv, ControlInv, Scan
  <1>7. \A fd \in Fds : r'.file[fd] \in Conns => fd \notin Gone /\ r'.file[fd] = r.file[fd]
    BY <1>3, ConnAssumption
  <1>8. \A c \in Conns : c \in ToSet(backlog) <=> Waits(c)
    <2>1. backlog \in Seq(Conns)
      BY DEF Inv, SocketsOK
    <2> QED
      BY <2>1 DEF ToSet, Waits
  <1>9. ASSUME NEW fd \in Fds, r'.file[fd] \in Conns PROVE r'.file[fd] \notin Lost
    <2>1. \A g \in Gone : r.file[g] # r'.file[fd]
      BY <1>2, <1>7, <1>9 DEF Inv, ConnInv
    <2>2. ~Waits(r'.file[fd])
      BY <1>7, <1>9 DEF Inv, ConnInv
    <2> QED
      BY <1>8, <1>9, <2>1, <2>2 DEF Lost
  <1>10. SocketsOK' /\ ConnInv'
    <2> << >> \in Seq(Msgs) /\ << >> \in Seq(Conns) /\ Len(<< >>) = 0
      OBVIOUS
    <2>1. /\ backlog' = << >> \/ backlog' = backlog
          /\ (\E fd \in Gone : r.file[fd] = "listener") => backlog' = << >>
          /\ (\A fd \in Gone : r.file[fd] # "listener") => backlog' = backlog
      BY ScanIs
    <2>2. backlog' \in Seq(Conns)
      BY <2>1 DEF Inv, SocketsOK
    <2>3. net' \in [Conns -> {"none", "up", "fin", "rst"}]
      BY ScanIs DEF Inv, SocketsOK
    <2>4. unread' \in [Conns -> Seq(Msgs)] /\ blocked' \in [Conns -> BOOLEAN]
      BY ScanIs DEF Inv, SocketsOK
    <2>5. \A c \in Conns : Waits(c)' => Waits(c) /\ \A fd \in Gone : r.file[fd] # "listener"
      BY <2>1 DEF Waits
    <2>6. \A i, j \in 1 .. Len(backlog') : backlog'[i] = backlog'[j] => i = j
      BY <2>1 DEF Inv, ConnInv
    <2>7. \A c \in Conns : c \notin Lost => net'[c] = net[c]
      BY ScanIs
    <2>8. \A f, g \in Fds : r'.file[f] \in Conns /\ r'.file[f] = r'.file[g] => f = g
      BY <1>7 DEF Inv, ConnInv
    <2>9. ASSUME NEW c \in Conns, Waits(c)' PROVE net'[c] # "none" /\ \A fd \in Fds : r'.file[fd] # c
      <3>1. Waits(c) /\ net[c] # "none" /\ \A fd \in Fds : r.file[fd] # c
        BY <2>5, <2>9 DEF Inv, ConnInv
      <3>2. c \notin Lost
        BY <1>2, <2>5, <2>9, <3>1 DEF Lost
      <3> QED
        BY <1>7, <2>7, <3>1, <3>2
    <2>10. \A fd \in Fds : r'.file[fd] \in Conns => net'[r'.file[fd]] # "none"
      BY <1>7, <1>9, <2>7 DEF Inv, ConnInv
    <2> QED
      BY <2>2, <2>3, <2>4, <2>6, <2>8, <2>9, <2>10 DEF SocketsOK, ConnInv
  <1>11. EchoInv'
    <2>1. received' \in [Conns -> Seq(Msgs) \cup {Nothing}] /\ buffer' = buffer
      BY ScanIs DEF Inv, EchoInv
    <2>2. \A c \in Conns : c \notin Lost => received'[c] = received[c]
      BY ScanIs
    <2>3. ASSUME NEW c \in Conns, NEW fd \in Fds, r'.file[fd] = c, r'.slot[fd].callback = "send"
          PROVE  buffer'[fd] = received'[c]
      <3>1. r.file[fd] = c /\ r'.slot[fd] = r.slot[fd]
        BY <1>2, <1>3, <1>7, <2>3
      <3>2. c \notin Lost
        BY <1>9, <2>3
      <3> QED
        BY <2>1, <2>2, <2>3, <3>1, <3>2 DEF Inv, EchoInv, EchoesOwnInput
    <2> QED
      BY <2>1, <2>3 DEF Inv, EchoInv, EchoesOwnInput
  <1>12. AgeInv'
    <2>1. quiet' \in [Conns -> 0 .. TIMEOUT] /\ age' = age
      BY ScanIs, ScanAssumption DEF Inv, AgeInv
    <2>2. \A c \in Conns : c \notin Lost => quiet'[c] = quiet[c]
      BY ScanIs
    <2> QED
      BY <1>7, <1>9, <2>1, <2>2 DEF Inv, AgeInv
  <1>13. ScanInv'
    <2>1. /\ checkpos' = NextPos /\ missed \in [Slots -> Nat] /\ checkpos \in Slots
          /\ missed' = [s \in Slots |-> IF Idle(s) /\ s \notin Gone THEN missed[s] + 1 ELSE 0]
      BY ScanIs DEF Inv, ScanInv
    <2>2. checkpos' \in Slots /\ missed' \in [Slots -> Nat]
      BY <2>1, ScannedIs
    <2>3. SCAN \in Nat /\ MAX_EPOLL_EVENTS \in Nat /\ SCAN <= MAX_EPOLL_EVENTS
      BY ScanAssumption, FdAssumption
    <2>4. ASSUME NEW s \in Slots PROVE missed'[s] * SCAN + Ahead(s)' < MAX_EPOLL_EVENTS
      <3>1. Ahead(s)' \in 0 .. MAX_EPOLL_EVENTS - 1
        <4>1. checkpos' \in 0 .. MAX_EPOLL_EVENTS - 1 /\ s \in 0 .. MAX_EPOLL_EVENTS - 1
          BY <2>2 DEF Slots
        <4>2. Ahead(s)' = IF s >= checkpos' THEN s - checkpos' ELSE s + MAX_EPOLL_EVENTS - checkpos'
          BY DEF Ahead
        <4> QED
          BY <2>3, <4>1, <4>2, Distance
      <3>2. CASE Idle(s) /\ s \notin Gone
        <4>1. s \notin Scanned
          BY <3>2 DEF Gone
        <4>2. Ahead(s) >= SCAN /\ Ahead(s) \in 0 .. MAX_EPOLL_EVENTS - 1
          BY <2>1, <2>3, <4>1, ScannedIs
        <4>3. Ahead(s)' = Ahead(s) - SCAN
          BY <2>1, <2>3, <4>2, ScannedIs DEF Ahead, Slots
        <4>4. missed'[s] = missed[s] + 1 /\ missed[s] \in Nat
          BY <2>1, <3>2
        <4>5. missed'[s] * SCAN = missed[s] * SCAN + SCAN
          BY <2>3, <4>4
        <4>6. missed[s] * SCAN + Ahead(s) < MAX_EPOLL_EVENTS
          BY DEF Inv, ScanInv
        <4>7. missed[s] * SCAN \in Nat
          BY <2>3, <4>4
        <4> QED
          BY <2>3, <4>2, <4>3, <4>5, <4>6, <4>7
      <3>3. CASE ~(Idle(s) /\ s \notin Gone)
        <4>1. missed'[s] = 0
          BY <2>1, <3>3
        <4> QED
          BY <2>3, <3>1, <4>1
      <3> QED
        BY <3>2, <3>3
    <2> QED
      BY <2>2, <2>4 DEF ScanInv
  <1> QED
    BY <1>5, <1>6, <1>10, <1>11, <1>12, <1>13 DEF Inv

-----------------------------------------------------------------------------
(* The invariant holds throughout.                                         *)

\* The table, the echoes and the scan stay; pc or the batch may change.
LEMMA TableStays ==
    ASSUME Inv, r' = r, UNCHANGED <<sockets, buffer, age, checkpos, received, quiet, missed>>,
           TableInv', ControlInv'
    PROVE  Inv'
  <1>1. UNCHANGED <<backlog, net, unread, blocked>>
    BY DEF sockets
  <1>2. SocketsOK' /\ ConnInv'
    BY <1>1, SocketsKept DEF Inv, SocketsOK
  <1>3. EchoInv' /\ AgeInv' /\ ScanInv'
    BY ScanStays DEF Inv, EchoInv, EchoesOwnInput, AgeInv
  <1> QED
    BY <1>2, <1>3 DEF Inv

LEMMA InvInit == Init => Inv
  <1> SUFFICES ASSUME Init PROVE Inv
    OBVIOUS
  <1> DEFINE start == [file  |-> [fd \in Fds |-> CASE fd = FIRST_FD -> "listener"
                                                   [] fd = FIRST_FD + 1 -> "epoll"
                                                   [] OTHER -> "free"],
                       watch |-> [fd \in Fds |-> Unwatched],
                       slot  |-> [s \in Slots |-> Unused]]
             k == nty_event_set(start, FIRST_FD, FIRST_FD, "accept")
  <1>1. /\ FIRST_FD \in Fds /\ EpollFd \in Fds /\ FIRST_FD # EpollFd /\ FIRST_FD \in Slots
        /\ SlotOf[FIRST_FD] = FIRST_FD
    BY SlotOfIs DEF Indexing
  <1>2. /\ start \in Reactors(Slots) /\ start.file[EpollFd] = "epoll" /\ start.file[FIRST_FD] = "listener"
        /\ \A fd \in Fds \ {FIRST_FD, EpollFd} : start.file[fd] = "free"
        /\ \A fd \in Fds : start.watch[fd] = Unwatched
        /\ \A s \in Slots : start.slot[s].status = 0
    <2>1. Unused \in Events
      BY FdAssumption DEF Unused, Events
    <2>2. [fd \in Fds |-> CASE fd = FIRST_FD -> "listener"
                            [] fd = FIRST_FD + 1 -> "epoll"
                            [] OTHER -> "free"] \in [Fds -> Owners]
      BY DEF Owners
    <2>3. start \in Reactors(Slots)
      BY <2>1, <2>2 DEF Reactors
    <2> QED
      BY <1>1, <2>3 DEF Unused, EpollFd
  <1>3. r = nty_event_add(k, FIRST_FD, FIRST_FD, "in")
    BY DEF Init
  <1> HIDE DEF start
  <1>4. /\ k \in Reactors(Slots) /\ k.file = start.file /\ k.watch = start.watch
        /\ \A t \in Slots : t # FIRST_FD => k.slot[t] = start.slot[t]
        /\ k.slot[FIRST_FD].fd = FIRST_FD /\ k.slot[FIRST_FD].callback = "accept"
        /\ k.slot[FIRST_FD].status = 0
    <2>1. "accept" \in Callbacks
      BY DEF Callbacks
    <2> QED
      BY <1>1, <1>2, <2>1, SetIs
  <1> HIDE DEF k
  <1>5. /\ DifferAt(k, r, Slots, FIRST_FD, FIRST_FD) /\ r.file = k.file
        /\ Registered(r, FIRST_FD, FIRST_FD, "accept", "in")
    BY <1>1, <1>2, <1>3, <1>4, AddIs DEF Directions
  <1>6. /\ r.file[EpollFd] = "epoll" /\ r.watch[EpollFd] = Unwatched
        /\ r.file[FIRST_FD] = "listener"
    BY <1>1, <1>2, <1>4, <1>5 DEF DifferAt
  <1>7. InStep(r, SlotOf[FIRST_FD], FIRST_FD)
    BY <1>1, <1>5, <1>6 DEF InStep, Callbacks, Expected
  <1>8. ASSUME NEW fd \in Fds \ {FIRST_FD, EpollFd}
        PROVE  r.file[fd] = "free" /\ InStep(r, SlotOf[fd], fd)
    <2>1. SlotOf[fd] = fd /\ fd \in Slots
      BY SlotOfIs
    <2> QED
      BY <1>2, <1>4, <1>5, <2>1 DEF DifferAt, InStep
  <1>9. batch = {} /\ backlog = << >>
    BY DEF Init, SocketsInit
  <1>10. TableInv
    <2>1. Table(r, Slots, SlotOf, EpollFd)
      BY <1>5, <1>6, <1>7, <1>8 DEF Table, DifferAt
    <2>2. ASSUME NEW s \in Slots, r.slot[s].status = 1 PROVE s = FIRST_FD
      BY <1>2, <1>4, <1>5, <2>2 DEF DifferAt
    <2>3. \A fd \in Fds : r.file[fd] = "listener" => fd = FIRST_FD
      BY <1>6, <1>8
    <2> QED
      BY <1>1, <1>9, <2>1, <2>2, <2>3, SlotOfIs DEF TableInv, InSync, EventsInv
  <1>11. ControlInv
    BY <1>9 DEF Init, ControlInv
  <1>12. \A fd \in Fds : r.file[fd] \notin Conns
    BY <1>6, <1>8, ConnAssumption
  <1>13. SocketsOK /\ ConnInv
    <2> << >> \in Seq(Msgs) /\ << >> \in Seq(Conns) /\ Len(<< >>) = 0
      OBVIOUS
    <2>1. SocketsOK
      BY DEF Init, SocketsInit, SocketsOK
    <2> QED
      BY <1>9, <1>12, <2>1 DEF ConnInv, Waits
  <1>14. EchoInv
    BY <1>12 DEF Init, EchoInv, EchoesOwnInput
  <1>15. AgeInv
    BY <1>12, ScanAssumption DEF Init, AgeInv
  <1>16. ScanInv
    <2>1. SCAN \in Nat /\ MAX_EPOLL_EVENTS \in Nat \ {0} /\ checkpos = 0
      BY ScanAssumption, FdAssumption DEF Init
    <2>2. missed = [s \in Slots |-> 0]
      BY DEF Init
    <2>3. ASSUME NEW s \in Slots PROVE missed[s] * SCAN + Ahead(s) < MAX_EPOLL_EVENTS
      <3>1. missed[s] * SCAN = 0
        BY <2>1, <2>2
      <3>2. Ahead(s) = s /\ s \in 0 .. MAX_EPOLL_EVENTS - 1
        BY <2>1 DEF Ahead, Slots
      <3> QED
        BY <2>1, <3>1, <3>2
    <2> QED
      BY <2>1, <2>2, <2>3 DEF ScanInv, Slots
  <1> QED
    BY <1>10, <1>11, <1>13, <1>14, <1>15, <1>16 DEF Inv

LEMMA TickKeeps ==
    ASSUME Inv, Tick
    PROVE  Inv'
  <1>1. UNCHANGED <<r, batch, sockets, buffer, checkpos, pc, received, missed>>
    BY DEF Tick
  <1>2. TableInv' /\ ControlInv'
    BY <1>1 DEF Inv, TableInv, ControlInv, SlotOf, sockets
  <1>3. SocketsOK' /\ ConnInv'
    BY <1>1, SocketsKept DEF Inv, SocketsOK, sockets
  <1>4. EchoInv' /\ ScanInv'
    BY <1>1, ScanStays DEF Inv, EchoInv, EchoesOwnInput
  <1>5. \A n \in 0 .. TIMEOUT : Capped(n) \in 0 .. TIMEOUT
    BY ScanAssumption DEF Capped
  <1>6. AgeInv'
    <2>1. /\ age' = [s \in Slots |-> Capped(age[s])]
          /\ quiet' = [c \in Conns |-> IF FdsOf(c) = {} THEN 0 ELSE Capped(quiet[c])]
          /\ 0 \in 0 .. TIMEOUT
      BY ScanAssumption DEF Tick
    <2>2. age' \in [Slots -> 0 .. TIMEOUT] /\ quiet' \in [Conns -> 0 .. TIMEOUT]
      BY <1>5, <2>1 DEF Inv, AgeInv
    <2>3. ASSUME NEW fd \in Fds, r.file[fd] \in Conns PROVE quiet'[r.file[fd]] = age'[fd]
      <3>1. FdsOf(r.file[fd]) # {} /\ fd \in Slots
        BY SlotOfIs DEF FdsOf
      <3> QED
        BY <2>1, <2>3, <3>1 DEF Inv, AgeInv
    <2> QED
      BY <1>1, <2>2, <2>3 DEF AgeInv
  <1> QED
    BY <1>2, <1>3, <1>4, <1>6 DEF Inv

LEMMA InvNext == Inv /\ [Next]_vars => Inv'
  <1> SUFFICES ASSUME Inv, [Next]_vars PROVE Inv'
    OBVIOUS
  <1>1. ASSUME Scan PROVE Inv'
    BY <1>1, ScanKeeps
  <1>2. ASSUME NEW S \in Reports, EpollWait(S) PROVE Inv'
    <2>1. EventsInv(r, {Report(fd) : fd \in S}, Slots, SlotOf, EpollFd)
      BY Reported DEF Inv, TableInv, InSync
    <2>2. /\ r' = r /\ batch' = {Report(fd) : fd \in S} /\ pc' = "batch"
          /\ UNCHANGED <<sockets, buffer, age, checkpos, received, quiet, missed>>
      BY <1>2 DEF EpollWait
    <2>3. TableInv'
      BY <2>1, <2>2 DEF Inv, TableInv, InSync, SlotOf
    <2>4. ControlInv'
      <3>1. ASSUME NEW fd \in S, Report(fd).of = "listener" PROVE backlog # << >>
        BY <3>1 DEF Reports, ReadyFds, Ready, Report
      <3> QED
        BY <2>2, <3>1 DEF ControlInv, sockets
    <2> QED
      BY <2>2, <2>3, <2>4, TableStays
  <1>3. ASSUME EpollTimeout PROVE Inv'
    <2>1. /\ UNCHANGED <<r, batch, sockets, buffer, age, checkpos, received, quiet, missed>>
          /\ pc = "wait" /\ pc' = "scan"
      BY <1>3 DEF EpollTimeout
    <2>2. TableInv' /\ ControlInv'
      BY <2>1 DEF Inv, TableInv, ControlInv, SlotOf, sockets
    <2> QED
      BY <2>1, <2>2, TableStays
  <1>4. ASSUME NEW e \in batch, Accept(e) PROVE Inv'
    BY <1>4, AcceptKeeps
  <1>5. ASSUME NEW e \in batch, AcceptFails(e) PROVE Inv'
    <2>1. /\ r' = r /\ batch' = Wanted(r, batch \ {e}) /\ Handled(e, r) /\ backlog' = backlog
          /\ UNCHANGED <<sockets, buffer, age, checkpos, received, quiet, missed>>
      BY <1>5 DEF AcceptFails, Handled, sockets
    <2>2. TableInv'
      BY <2>1, TableKept DEF Inv, TableInv, SlotOf
    <2>3. ControlInv'
      BY <2>1, ControlStep DEF Inv
    <2> QED
      BY <2>1, <2>2, <2>3, TableStays
  <1>6. ASSUME NEW e \in batch, RecvData(e) PROVE Inv'
    BY <1>6, ReceiveKeeps
  <1>7. ASSUME NEW e \in batch, RecvClosed(e) PROVE Inv'
    <2>1. r.slot[e.slot].callback # "accept"
      BY <1>7 DEF RecvClosed, Called
    <2> QED
      BY <1>7, <2>1, CloseKeeps DEF RecvClosed
  <1>8. ASSUME NEW e \in batch, NEW full \in BOOLEAN, SendEcho(e, full) PROVE Inv'
    BY <1>8, EchoKeeps
  <1>9. ASSUME NEW e \in batch, SendError(e) PROVE Inv'
    <2>1. r.slot[e.slot].callback # "accept"
      BY <1>9 DEF SendError, Called
    <2> QED
      BY <1>9, <2>1, CloseKeeps DEF SendError
  <1>10. ASSUME Killed PROVE Inv'
    <2>1. /\ UNCHANGED <<r, batch, sockets, buffer, age, checkpos, received, quiet, missed>>
          /\ pc' = "dead"
      BY <1>10 DEF Killed
    <2>2. TableInv' /\ ControlInv'
      BY <2>1 DEF Inv, TableInv, ControlInv, SlotOf, sockets
    <2> QED
      BY <2>1, <2>2, TableStays
  <1>11. ASSUME Tick PROVE Inv'
    BY <1>11, TickKeeps
  <1>12. ASSUME ClientStep, UNCHANGED <<r, batch, buffer, age, checkpos, pc, received, quiet, missed>>
         PROVE  Inv'
    <2>1. /\ SocketsOK' /\ ConnInv'
          /\ backlog # << >> => backlog' # << >>
      BY <1>12, ConnClient DEF Inv
    <2>2. TableInv' /\ ControlInv'
      BY <1>12, <2>1 DEF Inv, TableInv, ControlInv, SlotOf
    <2>3. EchoInv' /\ AgeInv' /\ ScanInv'
      BY <1>12, ScanStays DEF Inv, EchoInv, EchoesOwnInput, AgeInv
    <2> QED
      BY <2>1, <2>2, <2>3 DEF Inv
  <1>13. CASE UNCHANGED vars
    <2>1. /\ UNCHANGED <<r, batch, sockets, buffer, age, checkpos, received, quiet, missed>>
          /\ pc' = pc
      BY <1>13 DEF vars
    <2>2. TableInv' /\ ControlInv'
      BY <2>1 DEF Inv, TableInv, ControlInv, SlotOf, sockets
    <2> QED
      BY <2>1, <2>2, TableStays
  <1> QED
    BY <1>1, <1>2, <1>3, <1>4, <1>5, <1>6, <1>7, <1>8, <1>9, <1>10, <1>11, <1>12, <1>13
    DEF Next, ServerStep, Callback

\* What the callbacks and the scan rely on holds before every step of the loop:
\* types, the slot table against the epoll set, what the buffers hold and where
\* the scan stands (c:43-91, c:262-301).
THEOREM Invariance == Spec => []Inv
  BY InvInit, InvNext, PTL DEF Spec

-----------------------------------------------------------------------------
(* What it establishes.                                                    *)

\* Every open descriptor is registered for what its callback expects, through
\* its own slot, the slot of a closed one can be used again, and accept_cb finds
\* a slot whenever there is a descriptor (c:43-91, c:174-182, c:275-292).
THEOREM TableCorrect == Spec => []SlotsOK
  <1>1. Inv => SlotsOK
    <2> SUFFICES ASSUME Inv PROVE SlotsOK
      OBVIOUS
    <2>1. Table(r, Slots, SlotOf, EpollFd) /\ EventsInv(r, batch, Slots, SlotOf, EpollFd)
      BY DEF Inv, TableInv, InSync
    <2>2. TypeOK
      <3>1. /\ r.file \in [Fds -> Conns \cup {"free", "listener", "epoll"}]
            /\ r.watch \in [Fds -> {Unwatched} \cup ({"in", "out"} \X Slots)]
            /\ r.slot \in [Slots -> Events]
        BY <2>1 DEF Table, Reactors, Owners
      <3>2. batch \subseteq [slot : Slots, events : {"in", "out"}, of : Conns \cup {"listener"}]
        BY <2>1 DEF EventsInv, Directions
      <3>3. Events \subseteq [fd : Slots, events : {"none", "in", "out"},
                              callback : {"none", "accept", "recv", "send"}, status : {0, 1}]
        <4>1. 0 .. NOFILE - 1 \subseteq Slots
          BY TableAssumption, FdAssumption DEF Slots
        <4> QED
          BY <4>1 DEF Events
      <3> QED
        BY <3>1, <3>2, <3>3 DEF TypeOK, Inv, ControlInv, EchoInv, AgeInv, ScanInv
    <2>3. ASSUME NEW fd \in Fds \ {EpollFd} PROVE InStep(r, fd, fd)
      BY <2>1, SlotOfIs DEF Table
    <2>4. ASSUME NEW fd \in Fds \ {EpollFd}
          PROVE  LET ev == r.slot[fd]
                 IN  IF r.file[fd] = "free" THEN r.watch[fd] = Unwatched /\ ev.status = 0
                     ELSE /\ ev.fd = fd /\ ev.status = 1
                          /\ r.watch[fd] = <<ev.events, fd>>
                          /\ ev.events = IF ev.callback = "send" THEN "out" ELSE "in"
      BY <2>3 DEF InStep, Registered, Expected
    <2>5. ASSUME NEW fd \in FreeFds PROVE FreeSlot
      <3>1. fd \in Fds /\ r.file[fd] = "free" /\ fd # EpollFd
        BY <2>1 DEF FreeFds, Table
      <3>2. r.slot[fd].status = 0
        BY <2>4, <3>1
      <3>3. fd \in FIRST_FD .. MAX_EPOLL_EVENTS - 1
        BY <3>1, TableAssumption, FdAssumption DEF Fds
      <3> QED
        BY <3>2, <3>3 DEF FreeSlot
    <2> QED
      BY <2>2, <2>4, <2>5 DEF SlotsOK, Watched, EpollFd
  <1> QED
    BY <1>1, Invariance, PTL

\* What is about to be echoed is what this connection sent (c:98-109, c:133).
THEOREM EchoIsOwn == Spec => []EchoesOwnInput
  <1>1. Inv => EchoesOwnInput
    BY DEF Inv, EchoInv
  <1> QED
    BY <1>1, Invariance, PTL

\* An idle slot is found within the rounds that go once through the table,
\* wherever it lies and wherever the scan stands (c:271-292).
THEOREM ScanFindsIdle == Spec => []IdleIsFound
  <1>1. Inv => IdleIsFound
    <2> SUFFICES ASSUME Inv, NEW s \in Slots PROVE missed[s] * SCAN < MAX_EPOLL_EVENTS
      BY DEF IdleIsFound
    <2>1. /\ missed[s] * SCAN + Ahead(s) < MAX_EPOLL_EVENTS
          /\ Ahead(s) \in 0 .. MAX_EPOLL_EVENTS - 1 /\ missed[s] \in Nat
      BY ScannedIs DEF Inv, ScanInv
    <2>2. missed[s] * SCAN \in Nat
      BY <2>1, ScanAssumption
    <2> QED
      BY <2>1, <2>2, FdAssumption
  <1> QED
    BY <1>1, Invariance, PTL

\* The scan closes no connection that was accepted or served less than TIMEOUT
\* ago, though last_active belongs to a slot that others have used (c:285-287).
THEOREM ServedIsKept == Spec => ServedStaysOpen
  <1>1. Inv /\ [Next]_vars =>
            [\A c \in Conns :
                pc = "scan" /\ FdsOf(c) # {} /\ FdsOf(c)' = {} => quiet[c] >= TIMEOUT]_vars
    <2> SUFFICES ASSUME Inv, [Next]_vars, NEW c \in Conns,
                        pc = "scan", FdsOf(c) # {}, FdsOf(c)' = {}
                 PROVE  quiet[c] >= TIMEOUT
      OBVIOUS
    <2>1. PICK fd \in Fds : r.file[fd] = c /\ r'.file[fd] # c
      BY DEF FdsOf
    <2>2. Scan
      BY <2>1 DEF Next, vars, ServerStep, Callback, EpollTimeout, EpollWait, Accept, AcceptFails,
                  RecvData, RecvClosed, SendEcho, SendError, Called, Killed, Tick
    <2>3. fd \in Gone
      BY <2>1, <2>2, ScanIs
    <2> QED
      BY <2>1, <2>3, GoneIs, ScanAssumption DEF Inv, AgeInv
  <1> QED
    BY <1>1, Invariance, PTL DEF Spec, ServedStaysOpen
=============================================================================

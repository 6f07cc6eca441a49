-------------------------- MODULE EpollReactorProofs --------------------------
(***************************************************************************)
(* What the proofs about WebServer and ReactorSingle share: the lemmas on  *)
(* the event table and the interest list, on the descriptors that accept   *)
(* hands out, and on connections.  S is the set of slots of the table.     *)
(***************************************************************************)
EXTENDS EpollReactor, WellFoundedInduction, SequenceTheorems, TLAPS

Callbacks == {"accept", "recv", "send"}
Serving == {"recv", "send"}
Directions == {"in", "out"}
Owners == Conns \cup {"free", "listener", "epoll"}
Events == [fd : 0 .. NOFILE - 1, events : {"none", "in", "out"},
           callback : {"none", "accept", "recv", "send"}, status : {0, 1}]
Reactors(S) == [file : [Fds -> Owners], watch : [Fds -> {Unwatched} \cup ({"in", "out"} \X S)],
                slot : [S -> Events]]

\* k and l differ at descriptor fd and slot s at most.
DifferAt(k, l, S, s, fd) ==
    /\ l \in Reactors(S)
    /\ \A g \in Fds : g # fd => l.file[g] = k.file[g] /\ l.watch[g] = k.watch[g]
    /\ \A t \in S : t # s => l.slot[t] = k.slot[t]

\* Descriptor fd is registered for events through slot s.
Registered(k, s, fd, callback, events) ==
    /\ k.watch[fd] = <<events, s>>
    /\ k.slot[s].fd = fd /\ k.slot[s].events = events
    /\ k.slot[s].callback = callback /\ k.slot[s].status = 1

LEMMA FdsAreNaturals == Fds \subseteq 0 .. NOFILE - 1 /\ Fds \subseteq Nat
  BY FdAssumption DEF Fds

LEMMA Division ==
    ASSUME NEW Q \in Nat \ {0}, NEW n \in Nat
    PROVE  n \div Q \in Nat /\ n % Q \in 0 .. Q - 1 /\ n = Q * (n \div Q) + (n % Q)
  OBVIOUS

LEMMA LessThan ==
    ASSUME NEW x \in Nat, NEW y \in Nat, ~(<<y, x>> \in OpToRel(<, Nat))
    PROVE  x <= y
  BY SMT DEF OpToRel

\* LowestFd is a free descriptor when there is one.
LEMMA LowestIsFree ==
    ASSUME FreeFds # {}
    PROVE  LowestFd \in FreeFds
  <1>1. FreeFds \subseteq Nat
    BY FdsAreNaturals DEF FreeFds
  <1>2. PICK x \in FreeFds : \A y \in FreeFds : ~(<<y, x>> \in OpToRel(<, Nat))
    BY <1>1, NatLessThanWellFounded, WFMin
  <1>3. \A y \in FreeFds : x <= y
    BY <1>1, <1>2, LessThan
  <1> QED
    BY <1>3 DEF LowestFd

-----------------------------------------------------------------------------
(* The event table: assignments to one field leave a table.                *)

LEMMA WithFile ==
    ASSUME NEW S, NEW k \in Reactors(S), NEW fd \in Fds, NEW owner \in Owners
    PROVE  [k EXCEPT !.file[fd] = owner] \in Reactors(S)
  BY DEF Reactors

LEMMA WithWatch ==
    ASSUME NEW S, NEW k \in Reactors(S), NEW fd \in Fds,
           NEW w \in {Unwatched} \cup ({"in", "out"} \X S)
    PROVE  [k EXCEPT !.watch[fd] = w] \in Reactors(S)
  BY DEF Reactors

LEMMA WithSlot ==
    ASSUME NEW S, NEW k \in Reactors(S), NEW s \in S, NEW e \in Events
    PROVE  [k EXCEPT !.slot[s] = e] \in Reactors(S)
  <1>1. [k.slot EXCEPT ![s] = e] \in [S -> Events]
    BY DEF Reactors
  <1> QED
    BY <1>1 DEF Reactors

LEMMA WithFields ==
    ASSUME NEW S, NEW k \in Reactors(S), NEW s \in S
    PROVE  /\ \A fd \in Fds : [k EXCEPT !.slot[s].fd = fd] \in Reactors(S)
           /\ \A e \in {"none", "in", "out"} : [k EXCEPT !.slot[s].events = e] \in Reactors(S)
           /\ \A c \in Callbacks :
                  [k EXCEPT !.slot[s].callback = c] \in Reactors(S)
           /\ \A n \in {0, 1} : [k EXCEPT !.slot[s].status = n] \in Reactors(S)
  <1> DEFINE ev == k.slot[s]
  <1>1. ev \in Events
    BY DEF Reactors
  <1>2. ASSUME NEW fd \in Fds PROVE [k EXCEPT !.slot[s].fd = fd] \in Reactors(S)
    <2>1. [ev EXCEPT !.fd = fd] \in Events
      BY <1>1, FdsAreNaturals DEF Events
    <2> QED
      BY <2>1, WithSlot
  <1>3. ASSUME NEW e \in {"none", "in", "out"} PROVE [k EXCEPT !.slot[s].events = e] \in Reactors(S)
    <2>1. [ev EXCEPT !.events = e] \in Events
      BY <1>1 DEF Events
    <2> QED
      BY <2>1, WithSlot
  <1>4. ASSUME NEW c \in Callbacks
        PROVE  [k EXCEPT !.slot[s].callback = c] \in Reactors(S)
    <2>1. [ev EXCEPT !.callback = c] \in Events
      BY <1>1 DEF Events, Callbacks
    <2> QED
      BY <2>1, WithSlot
  <1>5. ASSUME NEW n \in {0, 1} PROVE [k EXCEPT !.slot[s].status = n] \in Reactors(S)
    <2>1. [ev EXCEPT !.status = n] \in Events
      BY <1>1 DEF Events
    <2> QED
      BY <2>1, WithSlot
  <1> QED
    BY <1>2, <1>3, <1>4, <1>5

-----------------------------------------------------------------------------
(* The calls of the C code.                                                *)

LEMMA SetIs ==
    ASSUME NEW S, NEW k \in Reactors(S), NEW s \in S, NEW fd \in Fds,
           NEW callback \in Callbacks,
           NEW l, l = nty_event_set(k, s, fd, callback)
    PROVE  /\ l \in Reactors(S) /\ l.file = k.file /\ l.watch = k.watch
           /\ \A t \in S : t # s => l.slot[t] = k.slot[t]
           /\ l.slot[s].fd = fd /\ l.slot[s].callback = callback
           /\ l.slot[s].status = k.slot[s].status
  <1>1. l \in Reactors(S)
    <2> DEFINE k1 == [k EXCEPT !.slot[s].fd = fd]
               k2 == [k1 EXCEPT !.slot[s].callback = callback]
    <2>1. k1 \in Reactors(S)
      BY WithFields
    <2>2. l = [k2 EXCEPT !.slot[s].events = "none"]
      BY DEF nty_event_set
    <2> HIDE DEF k1
    <2>3. k2 \in Reactors(S)
      BY <2>1, WithFields
    <2> HIDE DEF k2
    <2>4. \A e \in {"none", "in", "out"} : [k2 EXCEPT !.slot[s].events = e] \in Reactors(S)
      BY <2>3, WithFields
    <2> QED
      BY <2>2, <2>4
  <1> USE DEF Reactors, Events, nty_event_set
  <1>2. l.file = k.file /\ l.watch = k.watch
    OBVIOUS
  <1>3. \A t \in S : t # s => l.slot[t] = k.slot[t]
    OBVIOUS
  <1>4. /\ l.slot[s].fd = fd /\ l.slot[s].callback = callback
        /\ l.slot[s].status = k.slot[s].status
    OBVIOUS
  <1> QED
    BY <1>1, <1>2, <1>3, <1>4

LEMMA AddIs ==
    ASSUME NEW S, NEW k \in Reactors(S), NEW s \in S, NEW fd \in Fds, NEW events \in Directions,
           k.file[fd] # "free", k.slot[s].status = 0, k.watch[fd] = Unwatched,
           NEW l, l = nty_event_add(k, s, fd, events)
    PROVE  /\ DifferAt(k, l, S, s, fd) /\ l.file = k.file
           /\ Registered(l, s, k.slot[s].fd, k.slot[s].callback, events) \/ fd # k.slot[s].fd
  <1>1. l \in Reactors(S)
    <2> DEFINE k1 == [k EXCEPT !.slot[s].events = events]
               k2 == [k1 EXCEPT !.slot[s].status = 1]
    <2>1. k1 \in Reactors(S)
      BY WithFields DEF Directions
    <2>2. k.watch[fd] = Unwatched /\ k2.watch = k.watch
      BY DEF Reactors
    <2>3. l = [k2 EXCEPT !.watch[fd] = <<events, s>>]
      BY <2>2 DEF nty_event_add
    <2> HIDE DEF k1
    <2>4. k2 \in Reactors(S)
      BY <2>1, WithFields
    <2> HIDE DEF k2
    <2> QED
      BY <2>3, <2>4, WithWatch DEF Directions
  <1> USE DEF Reactors, Events, nty_event_add
  <1>2. l.file = k.file /\ l.watch = [k.watch EXCEPT ![fd] = <<events, s>>]
    OBVIOUS
  <1>3. \A t \in S : t # s => l.slot[t] = k.slot[t]
    OBVIOUS
  <1>4. /\ l.slot[s].fd = k.slot[s].fd /\ l.slot[s].callback = k.slot[s].callback
        /\ l.slot[s].events = events /\ l.slot[s].status = 1
    OBVIOUS
  <1>5. l.watch[fd] = <<events, s>> /\ \A g \in Fds : g # fd => l.watch[g] = k.watch[g]
    BY <1>2
  <1> QED
    BY <1>1, <1>2, <1>3, <1>4, <1>5 DEF DifferAt, Registered

LEMMA DelIs ==
    ASSUME NEW S, NEW k \in Reactors(S), NEW s \in S, NEW fd \in Fds,
           NEW l, l = nty_event_del(k, s, fd)
    PROVE  /\ DifferAt(k, l, S, s, fd) /\ l.file = k.file
           /\ l.slot[s].status = 0
           /\ k.slot[s].status = 1 => l.watch[fd] = Unwatched
  <1>1. l \in Reactors(S)
    <2> DEFINE k1 == [k EXCEPT !.slot[s].status = 0]
               w == IF k.slot[s].status = 1 THEN Unwatched ELSE k1.watch[fd]
    <2>1. k1 \in Reactors(S) /\ k1.watch = k.watch
      BY WithFields DEF Reactors
    <2>2. w \in {Unwatched} \cup ({"in", "out"} \X S)
      BY <2>1 DEF Reactors
    <2>3. l = [k1 EXCEPT !.watch[fd] = w]
      BY DEF nty_event_del
    <2> HIDE DEF k1, w
    <2> QED
      BY <2>1, <2>2, <2>3, WithWatch
  <1> USE DEF Reactors, Events, nty_event_del
  <1>2. l.file = k.file /\ \A g \in Fds : g # fd => l.watch[g] = k.watch[g]
    OBVIOUS
  <1>3. \A t \in S : t # s => l.slot[t] = k.slot[t]
    OBVIOUS
  <1>4. l.slot[s].status = 0 /\ (k.slot[s].status = 1 => l.watch[fd] = Unwatched)
    OBVIOUS
  <1> QED
    BY <1>1, <1>2, <1>3, <1>4 DEF DifferAt

LEMMA CloseIs ==
    ASSUME NEW S, NEW k \in Reactors(S), NEW fd \in Fds,
           NEW l, l = Close(k, fd)
    PROVE  /\ l \in Reactors(S) /\ l.slot = k.slot
           /\ \A g \in Fds : g # fd => l.file[g] = k.file[g] /\ l.watch[g] = k.watch[g]
           /\ l.file[fd] = "free" /\ l.watch[fd] = Unwatched
  <1>1. l \in Reactors(S)
    <2> DEFINE k1 == [k EXCEPT !.file[fd] = "free"]
    <2>1. k1 \in Reactors(S)
      BY WithFile DEF Owners
    <2>2. l = [k1 EXCEPT !.watch[fd] = Unwatched]
      BY DEF Close
    <2> HIDE DEF k1
    <2> QED
      BY <2>1, <2>2, WithWatch
  <1> QED
    BY <1>1 DEF Reactors, Close

\* accept_cb: nty_event_set and nty_event_add for a descriptor that was just opened.
Opening(k, s, fd, c) ==
    nty_event_add(nty_event_set([k EXCEPT !.file[fd] = c], s, fd, "recv"), s, fd, "in")

\* Descriptor fd is the socket of c and waits for input.
Opened(k, s, fd, c) == k.file[fd] = c /\ Registered(k, s, fd, "recv", "in")

LEMMA OpenIs ==
    ASSUME NEW S, NEW k0 \in Reactors(S), NEW s \in S, NEW fd \in Fds, NEW c \in Conns,
           k0.slot[s].status = 0, k0.watch[fd] = Unwatched,
           NEW l, l = Opening(k0, s, fd, c)
    PROVE  /\ DifferAt(k0, l, S, s, fd) /\ l.file[fd] = c
           /\ Registered(l, s, fd, "recv", "in")
  <1> DEFINE k == [k0 EXCEPT !.file[fd] = c]
             m == nty_event_set(k, s, fd, "recv")
  <1>1. k \in Reactors(S)
    BY WithFile DEF Owners
  <1>2. /\ k.watch = k0.watch /\ k.slot = k0.slot /\ k.file[fd] = c
        /\ \A g \in Fds : g # fd => k.file[g] = k0.file[g]
    BY DEF Reactors
  <1> HIDE DEF k
  <1>3. /\ m \in Reactors(S) /\ m.file = k.file /\ m.watch = k.watch
        /\ \A t \in S : t # s => m.slot[t] = k.slot[t]
        /\ m.slot[s].fd = fd /\ m.slot[s].callback = "recv" /\ m.slot[s].status = k.slot[s].status
    BY <1>1, SetIs DEF Callbacks
  <1>4. c # "free"
    BY ConnAssumption
  <1>5. l = nty_event_add(m, s, fd, "in")
    BY DEF k, Opening
  <1> HIDE DEF m
  <1>6. /\ DifferAt(m, l, S, s, fd) /\ l.file = m.file
        /\ Registered(l, s, m.slot[s].fd, m.slot[s].callback, "in") \/ fd # m.slot[s].fd
    BY <1>2, <1>3, <1>4, <1>5, AddIs DEF Directions
  <1> QED
    BY <1>2, <1>3, <1>6 DEF DifferAt

\* The usual end of a callback.
LEMMA RearmIs ==
    ASSUME NEW S, NEW k \in Reactors(S), NEW s \in S, NEW fd \in Fds,
           NEW callback \in Callbacks, NEW events \in Directions,
           k.file[fd] # "free", k.slot[s].status = 1,
           NEW l, l = Rearm(k, s, fd, callback, events)
    PROVE  /\ DifferAt(k, l, S, s, fd) /\ l.file = k.file
           /\ Registered(l, s, fd, callback, events)
  <1> DEFINE d == nty_event_del(k, s, fd)
             m == nty_event_set(d, s, fd, callback)
  <1>1. /\ DifferAt(k, d, S, s, fd) /\ d.file = k.file
        /\ d.slot[s].status = 0 /\ d.watch[fd] = Unwatched
    BY DelIs
  <1>2. l = nty_event_add(m, s, fd, events)
    BY DEF Rearm
  <1> HIDE DEF d
  <1>3. /\ m \in Reactors(S) /\ m.file = d.file /\ m.watch = d.watch
        /\ \A t \in S : t # s => m.slot[t] = d.slot[t]
        /\ m.slot[s].fd = fd /\ m.slot[s].callback = callback /\ m.slot[s].status = d.slot[s].status
    <2>1. d \in Reactors(S)
      BY <1>1 DEF DifferAt
    <2>2. m = nty_event_set(d, s, fd, callback)
      OBVIOUS
    <2> HIDE DEF m
    <2> QED
      BY <2>1, <2>2, SetIs
  <1> HIDE DEF m
  <1>4. /\ DifferAt(m, l, S, s, fd) /\ l.file = m.file
        /\ Registered(l, s, m.slot[s].fd, m.slot[s].callback, events) \/ fd # m.slot[s].fd
    BY <1>1, <1>2, <1>3, AddIs
  <1> QED
    BY <1>1, <1>3, <1>4 DEF DifferAt

\* del and close, in either order.
LEMMA DelCloseIs ==
    ASSUME NEW S, NEW k \in Reactors(S), NEW s \in S, NEW fd \in Fds,
           NEW l, \/ l = Close(nty_event_del(k, s, fd), fd)
                  \/ l = nty_event_del(Close(k, fd), s, fd)
    PROVE  /\ DifferAt(k, l, S, s, fd)
           /\ l.file[fd] = "free" /\ l.watch[fd] = Unwatched /\ l.slot[s].status = 0
  <1>1. CASE l = Close(nty_event_del(k, s, fd), fd)
    <2> DEFINE d == nty_event_del(k, s, fd)
    <2>1. DifferAt(k, d, S, s, fd) /\ d.slot[s].status = 0
      BY DelIs
    <2> HIDE DEF d
    <2>2. /\ l \in Reactors(S) /\ l.slot = d.slot
          /\ \A g \in Fds : g # fd => l.file[g] = d.file[g] /\ l.watch[g] = d.watch[g]
          /\ l.file[fd] = "free" /\ l.watch[fd] = Unwatched
      BY <1>1, <2>1, CloseIs DEF DifferAt, d
    <2> QED
      BY <2>1, <2>2 DEF DifferAt
  <1>2. CASE l = nty_event_del(Close(k, fd), s, fd)
    <2> DEFINE d == Close(k, fd)
    <2>1. /\ d \in Reactors(S) /\ d.slot = k.slot
          /\ \A g \in Fds : g # fd => d.file[g] = k.file[g] /\ d.watch[g] = k.watch[g]
          /\ d.file[fd] = "free" /\ d.watch[fd] = Unwatched
      BY CloseIs
    <2> HIDE DEF d
    <2>2. /\ DifferAt(d, l, S, s, fd) /\ l.file = d.file /\ l.slot[s].status = 0
          /\ d.slot[s].status = 1 => l.watch[fd] = Unwatched
      BY <1>2, <2>1, DelIs DEF d
    <2>3. l.watch[fd] = Unwatched
      <3>1. CASE d.slot[s].status # 1
        <4>1. l.watch = [d.watch EXCEPT ![fd] = d.watch[fd]]
          BY <1>2, <2>1, <3>1 DEF nty_event_del, Reactors, d
        <4> QED
          BY <2>1, <4>1 DEF Reactors
      <3> QED
        BY <2>2, <3>1
    <2> QED
      BY <2>1, <2>2, <2>3 DEF DifferAt
  <1> QED
    BY <1>1, <1>2

-----------------------------------------------------------------------------
(* Connections: each has one descriptor or waits in the backlog once.      *)

Waits(c) == \E i \in 1 .. Len(backlog) : backlog[i] = c

ConnInv ==
    /\ \A f, g \in Fds : r.file[f] \in Conns /\ r.file[f] = r.file[g] => f = g
    /\ \A i, j \in 1 .. Len(backlog) : backlog[i] = backlog[j] => i = j
    /\ \A c \in Conns : Waits(c) => net[c] # "none" /\ \A fd \in Fds : r.file[fd] # c
    /\ \A fd \in Fds : r.file[fd] \in Conns => net[r.file[fd]] # "none"

LEMMA ConnClient ==
    ASSUME SocketsOK, ConnInv, ClientStep, r' = r
    PROVE  /\ SocketsOK' /\ ConnInv'
           /\ \A c \in Conns : Waits(c)' => Waits(c) \/ net[c] = "none"
           /\ backlog # << >> => backlog' # << >> /\ Head(backlog') = Head(backlog)
  <1>1. ASSUME NEW c \in Conns, ClientConnect(c)
        PROVE  /\ SocketsOK' /\ ConnInv'
               /\ \A d \in Conns : Waits(d)' => Waits(d) \/ net[d] = "none"
               /\ backlog # << >> => backlog' # << >> /\ Head(backlog') = Head(backlog)
    <2>1. /\ backlog' = Append(backlog, c) /\ net[c] = "none"
          /\ net' = [net EXCEPT ![c] = "up"] /\ UNCHANGED <<unread, blocked>>
      BY <1>1 DEF ClientConnect
    <2>2. /\ backlog' \in Seq(Conns) /\ Len(backlog') = Len(backlog) + 1
          /\ \A i \in 1 .. Len(backlog) : backlog'[i] = backlog[i]
          /\ backlog'[Len(backlog) + 1] = c /\ Len(backlog) \in Nat
      BY <2>1 DEF SocketsOK
    <2>3. SocketsOK'
      BY <2>1, <2>2 DEF SocketsOK
    <2>4. \A i \in 1 .. Len(backlog) : backlog[i] # c
      BY <2>1 DEF ConnInv, Waits
    <2>5. \A d \in Conns : Waits(d)' => Waits(d) \/ d = c
      BY <2>2 DEF Waits
    <2>6. \A fd \in Fds : r.file[fd] # c
      BY <2>1 DEF ConnInv
    <2>7. \A i, j \in 1 .. Len(backlog') : backlog'[i] = backlog'[j] => i = j
      BY <2>2, <2>4 DEF ConnInv
    <2>8. ConnInv'
      BY <2>1, <2>5, <2>6, <2>7 DEF ConnInv, SocketsOK
    <2>9. backlog # << >> => backlog' # << >> /\ Head(backlog') = Head(backlog)
      BY <2>2 DEF SocketsOK
    <2> QED
      BY <2>1, <2>3, <2>5, <2>8, <2>9
  <1>2. ASSUME NEW c \in Conns, ClientReads(c) \/ ClientFin(c) \/ ClientReset(c)
        PROVE  SocketsOK' /\ ConnInv' /\ backlog' = backlog
    <2> << >> \in Seq(Msgs)
      OBVIOUS
    <2>1. /\ backlog' = backlog /\ net' \in [Conns -> {"none", "up", "fin", "rst"}]
          /\ unread' \in [Conns -> Seq(Msgs)] /\ blocked' \in [Conns -> BOOLEAN]
      BY <1>2 DEF ClientReads, ClientFin, ClientReset, SocketsOK
    <2>2. \A d \in Conns : net[d] # "none" => net'[d] # "none"
      BY <1>2 DEF ClientReads, ClientFin, ClientReset, SocketsOK
    <2> QED
      BY <2>1, <2>2 DEF SocketsOK, ConnInv, Waits
  <1>3. ASSUME NEW c \in Conns, NEW m \in Msgs, ClientSend(c, m)
        PROVE  SocketsOK' /\ ConnInv' /\ backlog' = backlog
    <2>1. Append(unread[c], m) \in Seq(Msgs)
      BY DEF SocketsOK
    <2> QED
      BY <1>3, <2>1 DEF ClientSend, SocketsOK, ConnInv, Waits
  <1> QED
    BY <1>1, <1>2, <1>3 DEF ClientStep, Waits

LEMMA ConnAccept ==
    ASSUME SocketsOK, ConnInv, NEW fd \in Fds, backlog # << >>,
           r.file[fd] = "free", r'.file[fd] = Head(backlog),
           \A g \in Fds : g # fd => r'.file[g] = r.file[g],
           backlog' = Tail(backlog), UNCHANGED <<net, unread, blocked>>
    PROVE  /\ SocketsOK' /\ ConnInv' /\ Head(backlog) \in Conns /\ Waits(Head(backlog))
           /\ \A c \in Conns : Waits(c)' => Waits(c)
  <1> DEFINE c == Head(backlog)
  <1>1. /\ Len(backlog) \in Nat /\ Len(backlog) > 0 /\ c = backlog[1] /\ c \in Conns
        /\ backlog' \in Seq(Conns) /\ Len(backlog') = Len(backlog) - 1
        /\ \A i \in 1 .. Len(backlog') : backlog'[i] = backlog[i + 1]
    BY DEF SocketsOK
  <1>2. SocketsOK'
    BY <1>1 DEF SocketsOK
  <1>3. Waits(c)
    BY <1>1 DEF Waits
  <1>4. \A i \in 1 .. Len(backlog') : i + 1 \in 1 .. Len(backlog) /\ i + 1 # 1
    BY <1>1
  <1>5. \A d \in Conns : Waits(d)' => Waits(d) /\ d # c
    BY <1>1, <1>4 DEF Waits, ConnInv
  <1>6. \A i, j \in 1 .. Len(backlog') : backlog'[i] = backlog'[j] => i = j
    BY <1>1, <1>4 DEF ConnInv
  <1>7. net[c] # "none" /\ \A g \in Fds : r.file[g] # c
    BY <1>1, <1>3 DEF ConnInv
  <1>8. \A f, g \in Fds : r'.file[f] \in Conns /\ r'.file[f] = r'.file[g] => f = g
    BY <1>7 DEF ConnInv
  <1>9. \A d \in Conns : Waits(d)' => net'[d] # "none" /\ \A g \in Fds : r'.file[g] # d
    BY <1>5 DEF ConnInv
  <1>10. \A g \in Fds : r'.file[g] \in Conns => net'[r'.file[g]] # "none"
    BY <1>7 DEF ConnInv
  <1>11. ConnInv'
    BY <1>6, <1>8, <1>9, <1>10 DEF ConnInv
  <1> QED
    BY <1>1, <1>2, <1>3, <1>5, <1>11

LEMMA ConnClose ==
    ASSUME SocketsOK, ConnInv, NEW fd \in Fds, NEW c \in Conns, r.file[fd] = c,
           r'.file[fd] = "free", \A g \in Fds : g # fd => r'.file[g] = r.file[g],
           Disconnect(c), backlog' = backlog
    PROVE  SocketsOK' /\ ConnInv'
  <1>1. SocketsOK'
    BY DEF Disconnect, SocketsOK
  <1>2. ~Waits(c) /\ \A d \in Conns : Waits(d)' <=> Waits(d)
    BY DEF ConnInv, Waits
  <1>3. \A d \in Conns : d # c => net'[d] = net[d]
    BY DEF Disconnect, SocketsOK
  <1>4. \A g \in Fds : r'.file[g] # c
    BY ConnAssumption DEF ConnInv
  <1> QED
    BY <1>1, <1>2, <1>3, <1>4, ConnAssumption DEF ConnInv

-----------------------------------------------------------------------------
(* The table in step with the descriptors.  S is the set of slots, idx the  *)
(* slot of each descriptor and ep the descriptor of epoll.                 *)

Expected(callback) == IF callback = "send" THEN "out" ELSE "in"

InStep(k, s, fd) ==
    IF k.file[fd] = "free" THEN k.watch[fd] = Unwatched /\ k.slot[s].status = 0
    ELSE \E callback \in Callbacks :
            /\ Registered(k, s, fd, callback, Expected(callback))
            /\ k.file[fd] = "listener" <=> callback = "accept"

Table(k, S, idx, ep) ==
    /\ k \in Reactors(S)
    /\ k.file[ep] = "epoll" /\ k.watch[ep] = Unwatched
    /\ \A fd \in Fds \ {ep} : k.file[fd] # "epoll" /\ InStep(k, idx[fd], fd)

\* An event of the batch belongs to an open descriptor whose slot waits for it.
EventAt(k, idx, e, fd) ==
    /\ e.slot = idx[fd] /\ k.file[fd] = e.of /\ e.of # "free"
    /\ k.slot[idx[fd]].events = e.events

EventsInv(k, B, S, idx, ep) ==
    /\ B \subseteq [slot : S, events : Directions, of : Conns \cup {"listener"}]
    /\ \A e \in B : \E fd \in Fds \ {ep} : EventAt(k, idx, e, fd)

Indexing(S, idx, ep) ==
    /\ idx \in [Fds -> S] /\ ep \in Fds
    /\ \A f, g \in Fds : idx[f] = idx[g] => f = g

\* Table and batch agree with the descriptors and with epoll.
InSync(k, B, S, idx, ep) ==
    Indexing(S, idx, ep) /\ Table(k, S, idx, ep) /\ EventsInv(k, B, S, idx, ep)

LEMMA TableStep ==
    ASSUME NEW S, NEW idx, NEW ep, Indexing(S, idx, ep),
           NEW k, Table(k, S, idx, ep), NEW fd \in Fds \ {ep},
           NEW l, DifferAt(k, l, S, idx[fd], fd), l.file[fd] # "epoll", InStep(l, idx[fd], fd)
    PROVE  Table(l, S, idx, ep)
  <1>1. l.file[ep] = "epoll" /\ l.watch[ep] = Unwatched
    BY DEF Table, DifferAt, Indexing
  <1>2. ASSUME NEW g \in Fds \ {ep} PROVE l.file[g] # "epoll" /\ InStep(l, idx[g], g)
    <2>1. CASE g = fd
      BY <2>1
    <2>2. CASE g # fd
      <3>1. idx[g] \in S /\ idx[g] # idx[fd]
        BY <2>2 DEF Indexing
      <3>2. l.file[g] = k.file[g] /\ l.watch[g] = k.watch[g] /\ l.slot[idx[g]] = k.slot[idx[g]]
        BY <2>2, <3>1 DEF DifferAt
      <3> QED
        BY <3>2 DEF Table, InStep, Registered
    <2> QED
      BY <2>1, <2>2
  <1> QED
    BY <1>1, <1>2 DEF Table, DifferAt

\* A callback that changes fd and its slot keeps the other events current.
LEMMA EventsStep ==
    ASSUME NEW S, NEW idx, NEW ep, Indexing(S, idx, ep),
           NEW k, NEW B, EventsInv(k, B, S, idx, ep), NEW fd \in Fds \ {ep},
           NEW l, DifferAt(k, l, S, idx[fd], fd),
           NEW e, \A x \in B \ {e} : x.slot # idx[fd]
    PROVE  EventsInv(l, Wanted(l, B \ {e}), S, idx, ep)
  <1>1. ASSUME NEW x \in B \ {e} PROVE \E g \in Fds \ {ep} : EventAt(l, idx, x, g)
    <2>1. PICK g \in Fds \ {ep} : EventAt(k, idx, x, g)
      BY DEF EventsInv
    <2>2. g # fd /\ idx[g] \in S /\ idx[g] # idx[fd]
      BY <2>1 DEF EventAt, Indexing
    <2>3. l.file[g] = k.file[g] /\ l.slot[idx[g]] = k.slot[idx[g]]
      BY <2>2 DEF DifferAt
    <2> QED
      BY <2>1, <2>3 DEF EventAt
  <1> QED
    BY <1>1 DEF EventsInv, Wanted

\* The callback of e works on the descriptor that e was reported for.
LEMMA EventOf ==
    ASSUME NEW S, NEW idx, NEW ep, Indexing(S, idx, ep),
           NEW k, Table(k, S, idx, ep), NEW B, EventsInv(k, B, S, idx, ep),
           NEW e \in B, NEW fd, fd = k.slot[e.slot].fd
    PROVE  /\ fd \in Fds \ {ep} /\ e.slot = idx[fd] /\ idx[fd] \in S /\ k.file[fd] = e.of
           /\ e.of \in Conns \cup {"listener"} /\ k.file[fd] # "free"
           /\ e.events = k.slot[idx[fd]].events /\ k.slot[idx[fd]].status = 1
           /\ k.slot[idx[fd]].callback \in Callbacks
           /\ k.file[fd] = "listener" <=> k.slot[idx[fd]].callback = "accept"
           /\ \A x \in B \ {e} : x.slot # idx[fd]
  <1>1. PICK g \in Fds \ {ep} : EventAt(k, idx, e, g)
    BY DEF EventsInv
  <1>2. k.file[g] # "free" /\ InStep(k, idx[g], g)
    BY <1>1 DEF EventAt, Table
  <1>3. PICK callback \in Callbacks :
            /\ Registered(k, idx[g], g, callback, Expected(callback))
            /\ k.file[g] = "listener" <=> callback = "accept"
    BY <1>2 DEF InStep
  <1>4. fd = g
    BY <1>1, <1>3 DEF EventAt, Registered
  <1>5. ASSUME NEW x \in B, x.slot = e.slot PROVE x = e
    <2>1. PICK h \in Fds \ {ep} : EventAt(k, idx, x, h)
      BY DEF EventsInv
    <2>2. h = g
      BY <1>1, <1>5, <2>1 DEF EventAt, Indexing
    <2>3. x.events = e.events /\ x.of = e.of
      BY <1>1, <2>1, <2>2 DEF EventAt
    <2>4. /\ x \in [slot : S, events : Directions, of : Conns \cup {"listener"}]
          /\ e \in [slot : S, events : Directions, of : Conns \cup {"listener"}]
      BY DEF EventsInv
    <2> QED
      BY <1>5, <2>3, <2>4
  <1>6. e.of \in Conns \cup {"listener"}
    BY DEF EventsInv
  <1> QED
    BY <1>1, <1>3, <1>4, <1>5, <1>6 DEF EventAt, Registered, Indexing

\* epoll_wait reports open descriptors, for what they wait for.
LEMMA Reported ==
    ASSUME NEW S, NEW idx, NEW ep, Indexing(S, idx, ep), Table(r, S, idx, ep),
           NEW X \in Reports
    PROVE  EventsInv(r, {Report(fd) : fd \in X}, S, idx, ep)
  <1>1. X \subseteq ReadyFds
    BY DEF Reports
  <1>2. ASSUME NEW fd \in X
        PROVE  /\ fd \in Fds \ {ep} /\ EventAt(r, idx, Report(fd), fd)
               /\ Report(fd) \in [slot : S, events : Directions, of : Conns \cup {"listener"}]
    <2>1. fd \in Fds /\ r.watch[fd] # Unwatched
      BY <1>1 DEF ReadyFds, Ready
    <2>2. fd # ep
      BY <2>1 DEF Table
    <2>3. r.file[fd] # "epoll" /\ InStep(r, idx[fd], fd)
      BY <2>1, <2>2 DEF Table
    <2>4. r.file[fd] # "free"
      BY <2>1, <2>3 DEF InStep
    <2>5. PICK callback \in Callbacks : Registered(r, idx[fd], fd, callback, Expected(callback))
      BY <2>3, <2>4 DEF InStep
    <2>6. /\ r.watch[fd] = <<Expected(callback), idx[fd]>>
          /\ r.slot[idx[fd]].events = Expected(callback)
      BY <2>5 DEF Registered
    <2>7. Expected(callback) \in Directions /\ idx[fd] \in S
      BY <2>1 DEF Expected, Directions, Indexing
    <2>8. r.file[fd] \in Conns \cup {"listener"}
      BY <2>1, <2>3, <2>4 DEF Table, Reactors, Owners
    <2>9. Report(fd) = [slot |-> idx[fd], events |-> Expected(callback), of |-> r.file[fd]]
      BY <2>6 DEF Report
    <2> QED
      BY <2>1, <2>2, <2>4, <2>6, <2>7, <2>8, <2>9 DEF EventAt
  <1> QED
    BY <1>2 DEF EventsInv

-----------------------------------------------------------------------------
(* The callbacks on the table and the batch.                               *)

LEMMA TableOpen ==
    ASSUME NEW S, NEW idx, NEW ep, NEW k, NEW B, InSync(k, B, S, idx, ep), NEW e \in B,
           NEW fd \in Fds, k.file[fd] = "free", NEW c \in Conns
    PROVE  LET l == Opening(k, idx[fd], fd, c)
           IN  /\ InSync(l, Wanted(l, B \ {e}), S, idx, ep)
               /\ DifferAt(k, l, S, idx[fd], fd) /\ Opened(l, idx[fd], fd, c)
  <1> DEFINE s == idx[fd]
             l == Opening(k, s, fd, c)
  <1>0. Indexing(S, idx, ep) /\ Table(k, S, idx, ep) /\ EventsInv(k, B, S, idx, ep)
    BY DEF InSync
  <1>1. fd # ep /\ k \in Reactors(S) /\ s \in S
    BY <1>0 DEF Table, Indexing
  <1>2. k.watch[fd] = Unwatched /\ k.slot[s].status = 0
    BY <1>0, <1>1 DEF Table, InStep
  <1>3. DifferAt(k, l, S, s, fd) /\ l.file[fd] = c /\ Registered(l, s, fd, "recv", "in")
    BY <1>0, <1>1, <1>2, OpenIs
  <1>4. c # "free" /\ c # "epoll" /\ c # "listener"
    BY <1>0, ConnAssumption
  <1>5. InStep(l, s, fd)
    BY <1>0, <1>3, <1>4 DEF InStep, Callbacks, Expected
  <1>6. Table(l, S, idx, ep)
    BY <1>0, <1>1, <1>3, <1>4, <1>5, TableStep
  <1>7. ASSUME NEW x \in B PROVE x.slot # idx[fd]
    BY <1>0 DEF EventsInv, EventAt, Indexing
  <1>8. EventsInv(l, Wanted(l, B \ {e}), S, idx, ep)
    BY <1>0, <1>1, <1>3, <1>7, EventsStep
  <1> QED
    BY <1>0, <1>3, <1>6, <1>8 DEF InSync, Opened

SameFiles(k, l) == l.file = k.file

LEMMA TableRearm ==
    ASSUME NEW S, NEW idx, NEW ep, NEW k, NEW B, InSync(k, B, S, idx, ep), NEW e \in B,
           NEW fd, fd = k.slot[e.slot].fd, k.file[fd] \in Conns,
           NEW callback \in Serving
    PROVE  LET l == Rearm(k, idx[fd], fd, callback, Expected(callback))
           IN  /\ InSync(l, Wanted(l, B \ {e}), S, idx, ep)
               /\ DifferAt(k, l, S, idx[fd], fd) /\ SameFiles(k, l)
               /\ Registered(l, idx[fd], fd, callback, Expected(callback))
  <1> DEFINE s == idx[fd]
             events == Expected(callback)
             l == Rearm(k, s, fd, callback, events)
  <1>0. Indexing(S, idx, ep) /\ Table(k, S, idx, ep) /\ EventsInv(k, B, S, idx, ep)
    BY DEF InSync
  <1>1. /\ fd \in Fds \ {ep} /\ s \in S /\ k.file[fd] # "free" /\ k.slot[s].status = 1
        /\ \A x \in B \ {e} : x.slot # idx[fd]
    BY <1>0, EventOf
  <1>2. k \in Reactors(S) /\ callback \in Callbacks /\ events \in Directions
    BY <1>0 DEF Table, Callbacks, Serving, Directions, Expected
  <1>3. DifferAt(k, l, S, s, fd) /\ l.file = k.file /\ Registered(l, s, fd, callback, events)
    BY <1>0, <1>1, <1>2, RearmIs
  <1>4. k.file[fd] # "free" /\ k.file[fd] # "epoll" /\ k.file[fd] # "listener"
    BY <1>0, ConnAssumption
  <1>5. InStep(l, s, fd)
    BY <1>0, <1>2, <1>3, <1>4 DEF InStep, Serving
  <1>6. Table(l, S, idx, ep)
    BY <1>0, <1>1, <1>3, <1>4, <1>5, TableStep
  <1>7. EventsInv(l, Wanted(l, B \ {e}), S, idx, ep)
    BY <1>0, <1>1, <1>3, EventsStep
  <1> QED
    BY <1>0, <1>3, <1>6, <1>7 DEF InSync, SameFiles

LEMMA TableClose ==
    ASSUME NEW S, NEW idx, NEW ep, NEW k, NEW B, InSync(k, B, S, idx, ep), NEW e \in B,
           NEW fd, fd = k.slot[e.slot].fd,
           NEW s, s = idx[fd],
           NEW l, \/ l = Close(nty_event_del(k, s, fd), fd)
                  \/ l = nty_event_del(Close(k, fd), s, fd)
    PROVE  /\ InSync(l, Wanted(l, B \ {e}), S, idx, ep)
           /\ DifferAt(k, l, S, s, fd) /\ l.file[fd] = "free"
  <1>0. Indexing(S, idx, ep) /\ Table(k, S, idx, ep) /\ EventsInv(k, B, S, idx, ep)
    BY DEF InSync
  <1>1. fd \in Fds \ {ep} /\ s \in S /\ \A x \in B \ {e} : x.slot # idx[fd]
    BY <1>0, EventOf
  <1>2. k \in Reactors(S)
    BY <1>0 DEF Table
  <1>3. /\ DifferAt(k, l, S, s, fd)
        /\ l.file[fd] = "free" /\ l.watch[fd] = Unwatched /\ l.slot[s].status = 0
    BY <1>0, <1>1, <1>2, DelCloseIs
  <1>4. InStep(l, s, fd) /\ l.file[fd] # "epoll"
    <2>1. l.slot[s].status # 1 /\ l.file[fd] # "epoll"
      BY <1>3
    <2> QED
      BY <1>3, <2>1 DEF InStep
  <1>5. Table(l, S, idx, ep)
    BY <1>0, <1>1, <1>3, <1>4, TableStep
  <1>6. EventsInv(l, Wanted(l, B \ {e}), S, idx, ep)
    BY <1>0, <1>1, <1>3, EventsStep
  <1> QED
    BY <1>0, <1>3, <1>5, <1>6 DEF InSync

\* A callback that leaves the table as it is.
LEMMA TableKept ==
    ASSUME NEW S, NEW idx, NEW ep, NEW k, NEW B, InSync(k, B, S, idx, ep), NEW e \in B
    PROVE  InSync(k, Wanted(k, B \ {e}), S, idx, ep)
  BY DEF InSync, EventsInv, Wanted
=============================================================================

--------------------------- MODULE DnsClientProofs ---------------------------
(***************************************************************************)
(* The ep_args and sockets of pool/asyn_dns_client.c, for any number of    *)
(* requests, sockets and events per epoll_wait: the invariant behind       *)
(* ResourcesOK.                                                            *)
(***************************************************************************)
EXTENDS DnsClient, TLAPS

\* Between sendto and EPOLL_CTL_ADD nothing but main knows of a request.
CommitInv ==
    /\ main.at = "adding" =>
        /\ main.req \in Async /\ arg[main.req] = "none" /\ ~Pending(main.req)
    /\ main.at = "spinning" => main.req \in Blocking
    /\ main.at \in {"adding", "spinning"} =>
        /\ sockfd[main.req] \in Socks /\ owner[sockfd[main.req]] = main.req
        /\ result[main.req] = << >>

\* A socket is owned by, and watched for, the request that was given it.
SocketInv ==
    \A s \in Socks : \A q \in Requests : owner[s] = q \/ watch[s] = q => sockfd[q] = s

PendingInv ==
    \A q \in Requests : Pending(q) =>
        /\ sockfd[q] \in Socks /\ arg[q] = "live"
        /\ owner[sockfd[q]] = q /\ watch[sockfd[q]] = q

\* Until its callback has run, a request has no answer.
UnansweredInv ==
    /\ closing \notin batch
    /\ \A q \in Requests : Pending(q) /\ closing # q => result[q] = << >>

UnsentInv ==
    \A q \in Requests : sockfd[q] = None => arg[q] = "none" /\ result[q] = << >>

DnsInv ==
    /\ TypeOK /\ CommitInv /\ SocketInv /\ PendingInv /\ UnansweredInv /\ UnsentInv
    /\ Unread /\ GivesBack

LEMMA DnsInit == Init => DnsInv
  <1> SUFFICES ASSUME Init PROVE DnsInv
    OBVIOUS
  <1> USE RequestAssumption DEF Init, Requests
  <1>1. TypeOK
    BY DEF TypeOK
  <1>2. \A q \in Requests : ~Pending(q)
    BY DEF Pending
  <1>3. CommitInv /\ SocketInv /\ UnsentInv
    BY DEF CommitInv, SocketInv, UnsentInv
  <1>4. PendingInv /\ UnansweredInv
    BY <1>2 DEF PendingInv, UnansweredInv
  <1>5. Unread /\ GivesBack
    BY DEF Unread, GivesBack
  <1> QED
    BY <1>1, <1>3, <1>4, <1>5 DEF DnsInv

LEMMA SendStep ==
    ASSUME DnsInv, NEW q \in Requests, NEW s \in Socks, Send(q, s)
    PROVE  DnsInv'
  <1> USE RequestAssumption DEF DnsInv
  <1>1. /\ sockfd[q] = None /\ owner[s] = None
        /\ sockfd' = [sockfd EXCEPT ![q] = s] /\ owner' = [owner EXCEPT ![s] = q]
        /\ main' = [at |-> IF q \in Async THEN "adding" ELSE "spinning", req |-> q]
        /\ net' = net \cup {Query(s, q)}
        /\ UNCHANGED <<inbox, watch, arg, batch, closing, result, failed, lost>>
    BY DEF Send, Unsent
  <1>2. ~Pending(q) /\ \A p \in Requests : Pending(p)' <=> Pending(p)
    BY <1>1 DEF PendingInv, Pending
  <1>3. TypeOK'
    BY <1>1 DEF TypeOK, Requests, Query, Datagrams
  <1>4. CommitInv'
    BY <1>1, <1>2 DEF CommitInv, TypeOK, Requests, UnsentInv
  <1>5. SocketInv'
    BY <1>1 DEF SocketInv, TypeOK, Requests
  <1>6. PendingInv'
    BY <1>1, <1>2 DEF PendingInv, TypeOK, Requests
  <1>7. UnansweredInv' /\ UnsentInv'
    BY <1>1, <1>2 DEF UnansweredInv, UnsentInv, TypeOK
  <1>8. Unread'
    BY <1>1 DEF Unread, PendingInv, Pending, TypeOK, Requests
  <1>9. GivesBack'
    BY <1>1 DEF GivesBack, UnsentInv, TypeOK, Requests
  <1> QED
    BY <1>3, <1>4, <1>5, <1>6, <1>7, <1>8, <1>9

LEMMA MainSteps ==
    ASSUME DnsInv, SocketFails \/ MainStep
    PROVE  DnsInv'
  <1> USE RequestAssumption DEF DnsInv
  <1>1. CASE SocketFails
    <2>1. /\ main' = [main EXCEPT !.at = "exited"]
          /\ UNCHANGED <<owner, inbox, watch, arg, sockfd, batch, closing, net, result, failed, lost>>
      BY <1>1 DEF SocketFails
    <2>2. TypeOK' /\ CommitInv'
      BY <2>1 DEF TypeOK, CommitInv
    <2>3. \A p \in Requests : Pending(p)' <=> Pending(p)
      BY <2>1 DEF Pending
    <2> QED
      BY <2>1, <2>2, <2>3
      DEF SocketInv, PendingInv, UnansweredInv, UnsentInv, Unread, GivesBack
  <1>2. CASE Add
    <2> DEFINE q == main.req
    <2>1. /\ q \in Async /\ q \in Requests /\ arg[q] = "none" /\ ~Pending(q)
          /\ sockfd[q] \in Socks /\ result[q] = << >>
      BY <1>2 DEF Add, CommitInv, Requests
    <2>2. /\ arg' = [arg EXCEPT ![q] = "live"] /\ watch' = [watch EXCEPT ![sockfd[q]] = q]
          /\ main' = [at |-> "ready", req |-> None]
          /\ UNCHANGED <<owner, inbox, sockfd, batch, closing, net, result, failed, lost>>
      BY <1>2 DEF Add
    <2>3. owner[sockfd[q]] = q
      BY <1>2 DEF Add, CommitInv
    <2>4. TypeOK' /\ CommitInv' /\ SocketInv'
      BY <2>1, <2>2 DEF TypeOK, CommitInv, SocketInv, Requests
    <2>5. \A p \in Requests : p # q /\ Pending(p)' => Pending(p)
      BY <2>1, <2>2 DEF Pending, TypeOK
    <2>6. PendingInv'
      BY <2>1, <2>2, <2>3, <2>5 DEF PendingInv, TypeOK, Requests
    <2>7. UnansweredInv' /\ UnsentInv'
      BY <2>1, <2>2, <2>5 DEF UnansweredInv, UnsentInv, TypeOK
    <2>8. Unread' /\ GivesBack'
      BY <2>1, <2>2 DEF Unread, GivesBack, TypeOK, Requests
    <2> QED
      BY <2>4, <2>6, <2>7, <2>8
  <1>3. CASE AddFails
    <2> DEFINE q == main.req
    <2>1. /\ q \in Async /\ q \in Requests /\ arg[q] = "none" /\ ~Pending(q)
          /\ sockfd[q] \in Socks /\ result[q] = << >>
      BY <1>3 DEF AddFails, CommitInv, Requests
    <2>2. /\ arg' = arg \/ arg' = [arg EXCEPT ![q] = "live"]
          /\ failed' = failed \cup {q}
          /\ main' = [at |-> "ready", req |-> None]
          /\ UNCHANGED <<owner, inbox, watch, sockfd, batch, closing, net, result, lost>>
      BY <1>3 DEF AddFails
    <2>3. \A p \in Requests : Pending(p)' <=> Pending(p)
      BY <2>2 DEF Pending
    <2>4. TypeOK'
      <3>1. arg' \in [Requests -> {"none", "live", "freed"}]
        BY <2>1, <2>2 DEF TypeOK
      <3>2. main' \in [at : {"ready", "adding", "spinning", "exited"}, req : Requests \cup {None}]
        BY <2>2
      <3>3. failed' \subseteq Async
        BY <2>1, <2>2 DEF TypeOK
      <3> QED
        BY <2>2, <3>1, <3>2, <3>3 DEF TypeOK
    <2>5. CommitInv' /\ SocketInv'
      BY <2>2 DEF CommitInv, SocketInv
    <2>6. PendingInv' /\ UnansweredInv' /\ UnsentInv'
      BY <2>1, <2>2, <2>3 DEF PendingInv, UnansweredInv, UnsentInv, TypeOK
    <2>7. Unread' /\ GivesBack'
      BY <2>1, <2>2 DEF Unread, GivesBack, TypeOK, Requests
    <2> QED
      BY <2>4, <2>5, <2>6, <2>7
  <1>4. CASE Spin
    <2> DEFINE q == main.req  s == sockfd[q]  m == Head(inbox[s])
    <2>1. q \in Blocking /\ q \in Requests /\ q \notin Async /\ s \in Socks /\ result[q] = << >>
      BY <1>4 DEF Spin, CommitInv, Requests
    <2>2. /\ inbox[s] # << >> /\ inbox' = [inbox EXCEPT ![s] = Tail(@)]
          /\ UNCHANGED <<owner, watch, arg, sockfd, batch, closing, net, failed, lost>>
          /\ \/ UNCHANGED <<main, result>>
             \/ /\ m # Refused
                /\ result' = [result EXCEPT ![q] = Append(@, Parsed(m))]
                /\ main' = [at |-> "ready", req |-> None]
      BY <1>4 DEF Spin
    <2>3. \A p \in Requests : Pending(p)' <=> Pending(p)
      BY <2>2 DEF Pending
    <2>4. Len(inbox[s]) # 0 /\ m \in Requests \cup {Refused} /\ Tail(inbox[s]) \in Seq(Requests \cup {Refused})
      BY <2>1, <2>2 DEF TypeOK
    <2>5. \A p \in Requests : p # q => result'[p] = result[p]
      BY <2>2 DEF TypeOK
    <2>6. result' \in [Requests -> Seq(Requests \cup {None})] /\ Len(result'[q]) <= 1
      <3>1. CASE result' = result
        BY <2>1, <3>1 DEF TypeOK
      <3>2. CASE result' = [result EXCEPT ![q] = Append(@, Parsed(m))]
        <4>1. Parsed(m) \in Requests \cup {None}
          BY <2>4 DEF Parsed
        <4>2. result' = [result EXCEPT ![q] = <<Parsed(m)>>]
          BY <2>1, <3>2, <4>1 DEF TypeOK
        <4> HIDE DEF m
        <4>3. <<Parsed(m)>> \in Seq(Requests \cup {None}) /\ Len(<<Parsed(m)>>) = 1
          BY <4>1
        <4> QED
          BY <2>1, <4>2, <4>3 DEF TypeOK
      <3> QED
        BY <2>2, <3>1, <3>2
    <2>7. TypeOK'
      <3>1. inbox' \in [Socks -> Seq(Requests \cup {Refused})]
        BY <2>1, <2>2, <2>4 DEF TypeOK
      <3>2. /\ main' \in [at : {"ready", "adding", "spinning", "exited"}, req : Requests \cup {None}]
            /\ main'.at \in {"adding", "spinning"} => main'.req # None
        BY <2>2 DEF TypeOK
      <3> QED
        BY <2>2, <2>6, <3>1, <3>2 DEF TypeOK
    <2>8. CommitInv' /\ SocketInv'
      BY <2>2, <2>3 DEF CommitInv, SocketInv, TypeOK, Requests
    <2>9. owner[s] = q
      BY <1>4 DEF Spin, CommitInv
    <2>10. PendingInv' /\ UnansweredInv' /\ UnsentInv'
      BY <2>1, <2>2, <2>3, <2>5 DEF PendingInv, UnansweredInv, UnsentInv, Pending, TypeOK
    <2>11. Unread'
      BY <2>1, <2>2, <2>9 DEF Unread, PendingInv, Pending, TypeOK, Requests
    <2>12. GivesBack'
      BY <2>1, <2>2, <2>5, <2>6 DEF GivesBack, Requests
    <2> QED
      BY <2>7, <2>8, <2>10, <2>11, <2>12
  <1> QED
    BY <1>1, <1>2, <1>3, <1>4 DEF MainStep

LEMMA WaitStep ==
    ASSUME DnsInv, EpollWait
    PROVE  DnsInv'
  <1> USE RequestAssumption DEF DnsInv
  <1>1. /\ batch = {} /\ closing = None /\ batch' \subseteq Readable
        /\ UNCHANGED <<main, owner, inbox, watch, arg, sockfd, closing, net, result, failed, lost>>
    BY DEF EpollWait, Reports
  <1>2. \A q \in Readable : /\ q \in Async /\ q \in Requests /\ Pending(q)
                           /\ inbox[sockfd[q]] # << >>
    BY DEF Readable, Pending, SocketInv, TypeOK, Requests
  <1>3. TypeOK'
    BY <1>1, <1>2 DEF TypeOK
  <1>4. \A p \in Requests : Pending(p)' <=> Pending(p)
    BY <1>1, <1>2 DEF Pending
  <1>5. CommitInv' /\ SocketInv' /\ PendingInv' /\ UnsentInv'
    BY <1>1, <1>4 DEF CommitInv, SocketInv, PendingInv, UnsentInv, TypeOK, Requests
  <1>6. UnansweredInv'
    BY <1>1, <1>2, <1>4 DEF UnansweredInv, Requests
  <1>7. Unread'
    BY <1>1, <1>2 DEF Unread
  <1>8. GivesBack'
    BY <1>1 DEF GivesBack
  <1> QED
    BY <1>3, <1>5, <1>6, <1>7, <1>8

LEMMA CallbackStep ==
    ASSUME DnsInv, NEW q \in Requests, Callback(q)
    PROVE  DnsInv'
  <1> USE RequestAssumption DEF DnsInv
  <1> DEFINE s == sockfd[q]  r == Parsed(Head(inbox[s]))
  <1>1. /\ q \in batch /\ closing = None /\ batch' = batch \ {q} /\ closing' = q
        /\ inbox' = [inbox EXCEPT ![s] = Tail(@)]
        /\ result' = [result EXCEPT ![q] = Append(@, r)]
        /\ UNCHANGED <<main, owner, watch, arg, sockfd, net, failed, lost>>
    BY DEF Callback
  <1>2. /\ q \in Async /\ Pending(q) /\ s \in Socks /\ result[q] = << >>
        /\ inbox[s] # << >> /\ owner[s] = q
    BY <1>1 DEF Pending, PendingInv, UnansweredInv, Unread, TypeOK
  <1>3. r \in Requests \cup {None} /\ Tail(inbox[s]) \in Seq(Requests \cup {Refused})
    BY <1>2 DEF Parsed, TypeOK
  <1> HIDE DEF r
  <1>4. result' = [result EXCEPT ![q] = <<r>>]
    BY <1>1, <1>2, <1>3 DEF TypeOK
  <1>5. <<r>> \in Seq(Requests \cup {None}) /\ Len(<<r>>) = 1
    BY <1>3
  <1>6. result' \in [Requests -> Seq(Requests \cup {None})] /\ Len(result'[q]) = 1
    BY <1>4, <1>5 DEF TypeOK
  <1>7. \A p \in Requests : p # q => result'[p] = result[p]
    BY <1>4 DEF TypeOK
  <1>8. TypeOK'
    <2>1. inbox' \in [Socks -> Seq(Requests \cup {Refused})]
      BY <1>1, <1>2, <1>3 DEF TypeOK
    <2> QED
      BY <1>1, <1>2, <1>6, <2>1 DEF TypeOK
  <1>9. \A p \in Requests : Pending(p)' <=> Pending(p)
    BY <1>1 DEF Pending
  <1>10. CommitInv'
    BY <1>1, <1>2, <1>7, <1>9 DEF CommitInv, TypeOK, Requests
  <1>11. SocketInv' /\ PendingInv'
    BY <1>1, <1>9 DEF SocketInv, PendingInv
  <1>12. UnansweredInv' /\ UnsentInv'
    BY <1>1, <1>2, <1>7, <1>9 DEF UnansweredInv, UnsentInv
  <1>13. Unread'
    BY <1>1, <1>2 DEF Unread, PendingInv, Pending, TypeOK, Requests
  <1>14. GivesBack'
    BY <1>1, <1>6, <1>7 DEF GivesBack, Requests
  <1> QED
    BY <1>8, <1>10, <1>11, <1>12, <1>13, <1>14

LEMMA CloseStep ==
    ASSUME DnsInv, CloseSocket
    PROVE  DnsInv'
  <1> USE RequestAssumption DEF DnsInv
  <1> DEFINE q == closing  s == sockfd[q]
  <1>1. /\ q # None /\ closing' = None
        /\ watch' = [watch EXCEPT ![s] = None] /\ owner' = [owner EXCEPT ![s] = None]
        /\ inbox' = [inbox EXCEPT ![s] = << >>] /\ arg' = [arg EXCEPT ![q] = "freed"]
        /\ UNCHANGED <<main, sockfd, batch, net, result, failed, lost>>
    BY DEF CloseSocket
  <1>2. /\ q \in Async /\ q \in Requests /\ Pending(q) /\ q \notin batch
        /\ s \in Socks /\ owner[s] = q /\ watch[s] = q
    BY <1>1 DEF Pending, PendingInv, UnansweredInv, TypeOK, Requests
  <1>3. TypeOK'
    BY <1>1, <1>2 DEF TypeOK
  <1>4. \A p \in Requests : Pending(p)' => Pending(p) /\ p # q
    BY <1>1, <1>2 DEF Pending, SocketInv, TypeOK, Requests
  <1>5. \A p \in Requests : Pending(p) /\ p # q => sockfd[p] # s
    BY <1>2 DEF PendingInv
  <1>6. CommitInv'
    BY <1>1, <1>2, <1>4 DEF CommitInv, TypeOK, Requests
  <1>7. SocketInv'
    BY <1>1, <1>2 DEF SocketInv, TypeOK, Requests
  <1>8. PendingInv'
    BY <1>1, <1>2, <1>4, <1>5 DEF PendingInv, TypeOK
  <1>9. UnansweredInv' /\ UnsentInv'
    BY <1>1, <1>2, <1>4 DEF UnansweredInv, UnsentInv, TypeOK, Requests
  <1>10. Unread'
    BY <1>1, <1>2, <1>5 DEF Unread, PendingInv, Pending, TypeOK, Requests
  <1>11. GivesBack'
    BY <1>1, <1>2 DEF GivesBack, SocketInv, TypeOK, Requests
  <1> QED
    BY <1>3, <1>6, <1>7, <1>8, <1>9, <1>10, <1>11

\* The network touches nothing but datagrams and what a socket has received.
LEMMA NetStep ==
    ASSUME DnsInv, NEW d \in net, Carry(d) \/ Refuse(d) \/ Lose(d)
    PROVE  DnsInv'
  <1> USE RequestAssumption DEF DnsInv
  <1>1. UNCHANGED <<main, owner, watch, arg, sockfd, batch, closing, result, failed>>
    BY DEF Carry, ServerAnswers, Deliver, Refuse, Lose, clientVars
  <1>2. d \in Datagrams /\ d.sock \in Socks /\ d.of \in Requests
    BY DEF TypeOK, Datagrams
  <1>3. \/ inbox' = inbox
        \/ \E m \in Requests \cup {Refused} : inbox' = [inbox EXCEPT ![d.sock] = Append(@, m)]
    BY <1>2 DEF Carry, ServerAnswers, Deliver, Refuse, Lose, Receive, clientVars
  <1>4. /\ inbox' \in [Socks -> Seq(Requests \cup {Refused})]
        /\ \A s \in Socks : inbox[s] # << >> => inbox'[s] # << >>
    <2>1. CASE inbox' = inbox
      BY <2>1 DEF TypeOK
    <2>2. ASSUME NEW m \in Requests \cup {Refused},
                 inbox' = [inbox EXCEPT ![d.sock] = Append(@, m)]
          PROVE  /\ inbox' \in [Socks -> Seq(Requests \cup {Refused})]
                 /\ \A s \in Socks : inbox[s] # << >> => inbox'[s] # << >>
      <3>1. /\ Append(inbox[d.sock], m) \in Seq(Requests \cup {Refused})
            /\ Append(inbox[d.sock], m) # << >>
        <4> DEFINE b == inbox[d.sock]
        <4>1. b \in Seq(Requests \cup {Refused})
          BY <1>2 DEF TypeOK
        <4>2. Append(b, m) \in Seq(Requests \cup {Refused}) /\ Len(Append(b, m)) = Len(b) + 1
          BY <4>1
        <4>3. Len(b) \in Nat
          BY <4>1
        <4> QED
          BY <4>2, <4>3
      <3> QED
        BY <1>2, <2>2, <3>1 DEF TypeOK
    <2> QED
      BY <1>3, <2>1, <2>2
  <1>5. net' \subseteq Datagrams
    <2>1. AnswerTo(d) \in Datagrams
      BY <1>2 DEF AnswerTo, Datagrams
    <2>2. net' \subseteq net \cup {AnswerTo(d)}
      BY DEF Carry, ServerAnswers, Deliver, Refuse, Lose
    <2> QED
      BY <2>1, <2>2 DEF TypeOK
  <1>6. lost' \subseteq Requests
    <2>1. lost' = lost \/ lost' = lost \cup ({d.of} \cap Blocking) \/ lost' = lost \cup {d.of}
      BY DEF Carry, ServerAnswers, Deliver, Refuse, Lose
    <2>2. lost \subseteq Requests /\ d.of \in Requests
      BY <1>2 DEF TypeOK, Datagrams
    <2> QED
      BY <2>1, <2>2
  <1>7. TypeOK'
    BY <1>1, <1>4, <1>5, <1>6 DEF TypeOK
  <1>8. \A p \in Requests : Pending(p)' <=> Pending(p)
    BY <1>1 DEF Pending
  <1>9. CommitInv' /\ SocketInv' /\ PendingInv' /\ UnansweredInv' /\ UnsentInv' /\ GivesBack'
    BY <1>1, <1>8
    DEF CommitInv, SocketInv, PendingInv, UnansweredInv, UnsentInv, GivesBack, Pending
  <1>10. Unread'
    BY <1>1, <1>4 DEF Unread, PendingInv, Pending, TypeOK, Requests
  <1> QED
    BY <1>7, <1>9, <1>10

LEMMA DnsStep == DnsInv /\ [Next]_vars => DnsInv'
  <1> SUFFICES ASSUME DnsInv, [Next]_vars PROVE DnsInv'
    OBVIOUS
  <1>1. CASE SocketFails \/ MainStep
    BY <1>1, MainSteps
  <1>2. ASSUME NEW q \in Requests, NEW s \in Socks, Send(q, s) PROVE DnsInv'
    BY <1>2, SendStep
  <1>3. CASE ProcStep
    BY <1>3, WaitStep, CallbackStep, CloseStep DEF ProcStep
  <1>4. ASSUME NEW d \in net, Carry(d) \/ Refuse(d) \/ Lose(d) PROVE DnsInv'
    BY <1>4, NetStep
  <1>5. CASE UNCHANGED vars
    BY <1>5
    DEF vars, clientVars, DnsInv, TypeOK, CommitInv, SocketInv, PendingInv, UnansweredInv,
        UnsentInv, Unread, GivesBack, Pending
  <1> QED
    BY <1>1, <1>2, <1>3, <1>4, <1>5 DEF Next

\* Whatever the network does and however commits interleave with the epoll
\* thread, a freed ep_arg or a socket given out anew is never used, an event is
\* handled while its answer is there, and what was answered gives its socket
\* back (asyn_dns_client.c:372-391, 434-472).
THEOREM ResourcesSafe == Spec => []ResourcesOK
  <1>1. DnsInv => Alive
    BY DEF DnsInv, PendingInv, Alive
  <1>2. DnsInv => ResourcesOK
    BY <1>1 DEF DnsInv, ResourcesOK
  <1> QED
    BY <1>2, DnsInit, DnsStep, PTL DEF Spec

-----------------------------------------------------------------------------
(* Whose answer a request is given.                                        *)

Received(s, m) == \E i \in 1..Len(inbox[s]) : inbox[s][i] = m

\* A datagram, under way or received, has the port its request was sent from.
PortInv ==
    /\ \A d \in net : sockfd[d.of] = d.sock
    /\ \A s \in Socks, m \in Requests : Received(s, m) => sockfd[m] = s

\* A request lost its socket because its callback has run.
ReleasedInv ==
    /\ \A p \in Requests : sockfd[p] # None /\ owner[sockfd[p]] # p =>
           p \in Async /\ result[p] # << >>
    /\ closing # None => result[closing] # << >>

OriginInv == PortInv /\ ReleasedInv /\ AnswerOrigin

LEMMA ReceivedAppend ==
    ASSUME NEW S, NEW b \in Seq(S), NEW m \in S, NEW i \in 1..Len(Append(b, m))
    PROVE  Append(b, m)[i] = m \/ (i \in 1..Len(b) /\ Append(b, m)[i] = b[i])
  <1>1. Len(b) \in Nat /\ Len(Append(b, m)) = Len(b) + 1
    OBVIOUS
  <1>2. CASE i = Len(b) + 1
    BY <1>2
  <1>3. CASE i \in 1..Len(b)
    BY <1>3
  <1> QED
    BY <1>1, <1>2, <1>3

LEMMA ReceivedTail ==
    ASSUME NEW S, NEW b \in Seq(S), b # << >>
    PROVE  /\ Head(b) \in S /\ Head(b) = b[1] /\ 1 \in 1..Len(b)
           /\ \A i \in 1..Len(Tail(b)) : i + 1 \in 1..Len(b) /\ Tail(b)[i] = b[i + 1]
  OBVIOUS

LEMMA OriginInit == Init => OriginInv
  <1> SUFFICES ASSUME Init PROVE OriginInv
    OBVIOUS
  <1>1. PortInv
    BY DEF Init, PortInv, Received
  <1>2. ReleasedInv
    BY DEF Init, ReleasedInv
  <1>3. AnswerOrigin
    <2> SUFFICES ASSUME NEW p \in Requests, NEW q \in Requests, result[q] = <<p>>
                 PROVE  FALSE
      BY DEF AnswerOrigin
    <2> QED
      BY DEF Init
  <1> QED
    BY <1>1, <1>2, <1>3 DEF OriginInv

\* What Spin and Callback have in common: the owner of a socket reads what it
\* has received, by the request itself or by one that had the socket before.
LEMMA ReadStep ==
    ASSUME DnsInv, OriginInv, NEW q \in Requests, NEW s \in Socks,
           s = sockfd[q], owner[s] = q, inbox[s] # << >>, result[q] = << >>,
           inbox' = [inbox EXCEPT ![s] = Tail(@)],
           result' = [result EXCEPT ![q] = Append(@, Parsed(Head(inbox[s])))],
           closing' \in {closing, q},
           UNCHANGED <<owner, sockfd, net>>
    PROVE  OriginInv'
  <1> USE RequestAssumption
  <1> DEFINE m == Head(inbox[s])  r == Parsed(m)
  <1>1. TypeOK
    BY DEF DnsInv
  <1>2. inbox[s] \in Seq(Requests \cup {Refused})
    BY <1>1 DEF TypeOK
  <1>3. /\ m \in Requests \cup {Refused} /\ m = inbox[s][1] /\ 1 \in 1..Len(inbox[s])
        /\ \A i \in 1..Len(Tail(inbox[s])) :
               i + 1 \in 1..Len(inbox[s]) /\ Tail(inbox[s])[i] = inbox[s][i + 1]
    BY <1>2, ReceivedTail
  <1>4. m \in Requests => sockfd[m] = s
    BY <1>3 DEF OriginInv, PortInv, Received
  <1>5. r \in Requests \cup {None} /\ (r \in Requests => r = m)
    BY <1>3 DEF Parsed
  <1> HIDE DEF m, r
  <1>6. result' = [result EXCEPT ![q] = <<r>>]
    <2>1. result' = [result EXCEPT ![q] = Append(result[q], r)]
      BY DEF m, r
    <2>2. Append(<< >>, r) = <<r>>
      BY <1>5
    <2>3. Append(result[q], r) = <<r>>
      BY <2>2
    <2> QED
      BY <2>1, <2>3
  <1>7. result'[q] = <<r>> /\ <<r>> # << >> /\ \A p \in Requests : p # q => result'[p] = result[p]
    BY <1>1, <1>6 DEF TypeOK
  <1>8. PortInv'
    <2>1. \A d \in net' : sockfd'[d.of] = d.sock
      BY DEF OriginInv, PortInv
    <2>2. ASSUME NEW t \in Socks, NEW k \in Requests, Received(t, k)' PROVE sockfd'[k] = t
      <3>1. PICK i \in 1..Len(inbox'[t]) : inbox'[t][i] = k
        BY <2>2 DEF Received
      <3>2. CASE t = s
        <4>1. inbox'[t] = Tail(inbox[s])
          BY <1>1, <3>2 DEF TypeOK
        <4>2. i + 1 \in 1..Len(inbox[s]) /\ inbox[s][i + 1] = k
          BY <1>3, <3>1, <4>1
        <4> QED
          BY <3>2, <4>2 DEF OriginInv, PortInv, Received
      <3>3. CASE t # s
        <4>1. inbox'[t] = inbox[t]
          BY <1>1, <3>3 DEF TypeOK
        <4> QED
          BY <3>1, <4>1 DEF OriginInv, PortInv, Received
      <3> QED
        BY <3>2, <3>3
    <2> QED
      BY <2>1, <2>2 DEF PortInv
  <1>9. ReleasedInv'
    <2>1. \A p \in Requests : result[p] # << >> => result'[p] # << >>
      BY <1>7
    <2>2. closing' # None => closing' \in Requests
      BY <1>1 DEF TypeOK, Requests
    <2> QED
      BY <1>7, <2>1, <2>2 DEF OriginInv, ReleasedInv
  <1>10. AnswerOrigin'
    <2> SUFFICES ASSUME NEW p \in Requests, NEW k \in Requests, result'[k] = <<p>>, p # k
                 PROVE  p \in Async /\ result'[p] # << >> /\ sockfd'[p] = sockfd'[k]
      BY DEF AnswerOrigin
    <2>1. CASE k = q
      <3>1. p = r /\ p = m /\ sockfd[p] = s
        BY <1>4, <1>5, <1>7, <2>1
      <3>2. sockfd[p] # None /\ owner[sockfd[p]] # p
        BY <2>1, <3>1
      <3>3. p \in Async /\ result[p] # << >>
        BY <3>2 DEF OriginInv, ReleasedInv
      <3> QED
        BY <1>7, <2>1, <3>1, <3>3
    <2>2. CASE k # q
      <3>1. result[k] = <<p>>
        BY <1>7, <2>2
      <3>2. p \in Async /\ result[p] # << >> /\ sockfd[p] = sockfd[k]
        BY <3>1 DEF OriginInv, AnswerOrigin
      <3> QED
        BY <1>7, <3>2
    <2> QED
      BY <2>1, <2>2
  <1> QED
    BY <1>8, <1>9, <1>10 DEF OriginInv

\* What reads nothing and releases nothing.
LEMMA OtherStep ==
    ASSUME OriginInv,
           UNCHANGED <<owner, inbox, sockfd, net, result>>, closing' = closing
    PROVE  OriginInv'
  <1>1. PortInv'
    BY DEF OriginInv, PortInv, Received
  <1> QED
    BY <1>1 DEF OriginInv, ReleasedInv, AnswerOrigin

\* The spin drops a refusal, which a failed recvfrom has given it.
LEMMA SkipStep ==
    ASSUME DnsInv, OriginInv, NEW s \in Socks, inbox[s] # << >>,
           inbox' = [inbox EXCEPT ![s] = Tail(@)],
           UNCHANGED <<owner, sockfd, net, result, closing>>
    PROVE  OriginInv'
  <1>1. TypeOK
    BY DEF DnsInv
  <1>2. inbox[s] \in Seq(Requests \cup {Refused})
    BY <1>1 DEF TypeOK
  <1>3. \A i \in 1..Len(Tail(inbox[s])) :
            i + 1 \in 1..Len(inbox[s]) /\ Tail(inbox[s])[i] = inbox[s][i + 1]
    BY <1>2, ReceivedTail
  <1>4. ASSUME NEW t \in Socks, NEW k \in Requests, Received(t, k)' PROVE Received(t, k)
    <2>1. CASE t = s
      <3>1. inbox'[t] = Tail(inbox[s])
        BY <1>1, <2>1 DEF TypeOK
      <3> QED
        BY <1>3, <1>4, <2>1, <3>1 DEF Received
    <2>2. CASE t # s
      <3>1. inbox'[t] = inbox[t]
        BY <1>1, <2>2 DEF TypeOK
      <3> QED
        BY <1>4, <3>1 DEF Received
    <2> QED
      BY <2>1, <2>2
  <1>5. PortInv'
    BY <1>4 DEF OriginInv, PortInv
  <1> QED
    BY <1>5 DEF OriginInv, ReleasedInv, AnswerOrigin

LEMMA OriginSend ==
    ASSUME DnsInv, OriginInv, NEW q \in Requests, NEW s \in Socks, Send(q, s)
    PROVE  OriginInv'
  <1> USE RequestAssumption
  <1>1. /\ sockfd[q] = None /\ owner[s] = None
        /\ sockfd' = [sockfd EXCEPT ![q] = s] /\ owner' = [owner EXCEPT ![s] = q]
        /\ net' = net \cup {Query(s, q)}
        /\ UNCHANGED <<inbox, closing, result>>
    BY DEF Send, Unsent
  <1>2. TypeOK
    BY DEF DnsInv
  <1>3. sockfd'[q] = s /\ \A p \in Requests : p # q => sockfd'[p] = sockfd[p]
    BY <1>1, <1>2 DEF TypeOK
  <1>4. \A p \in Requests : sockfd[p] # None => p # q
    BY <1>1
  <1>5. PortInv'
    <2>1. ASSUME NEW d \in net' PROVE sockfd'[d.of] = d.sock
      <3>1. CASE d = Query(s, q)
        BY <1>3, <3>1 DEF Query
      <3>2. CASE d \in net
        <4>1. d.of \in Requests /\ d.sock \in Socks /\ sockfd[d.of] = d.sock
          BY <1>2, <3>2 DEF TypeOK, Datagrams, OriginInv, PortInv
        <4> QED
          BY <1>3, <1>4, <4>1
      <3> QED
        BY <1>1, <3>1, <3>2
    <2>2. ASSUME NEW t \in Socks, NEW m \in Requests, Received(t, m)' PROVE sockfd'[m] = t
      <3>1. Received(t, m)
        BY <1>1, <2>2 DEF Received
      <3>2. sockfd[m] = t
        BY <3>1 DEF OriginInv, PortInv
      <3> QED
        BY <1>3, <1>4, <3>2
    <2> QED
      BY <2>1, <2>2 DEF PortInv
  <1>6. ReleasedInv'
    <2>1. ASSUME NEW p \in Requests, sockfd'[p] # None, owner'[sockfd'[p]] # p
          PROVE  p \in Async /\ result'[p] # << >>
      <3>1. p # q
        BY <1>1, <1>2, <1>3, <2>1 DEF TypeOK
      <3>2. sockfd'[p] = sockfd[p] /\ sockfd[p] \in Socks
        BY <1>2, <1>3, <2>1, <3>1 DEF TypeOK
      <3>3. owner[sockfd[p]] # p
        BY <1>1, <1>2, <2>1, <3>1, <3>2 DEF TypeOK
      <3> QED
        BY <1>1, <3>2, <3>3 DEF OriginInv, ReleasedInv
    <2> QED
      BY <1>1, <2>1 DEF OriginInv, ReleasedInv
  <1>7. AnswerOrigin'
    <2> SUFFICES ASSUME NEW p \in Requests, NEW k \in Requests, result'[k] = <<p>>, p # k
                 PROVE  p \in Async /\ result'[p] # << >> /\ sockfd'[p] = sockfd'[k]
      BY DEF AnswerOrigin
    <2>1. result[k] = <<p>>
      BY <1>1
    <2>2. p \in Async /\ result[p] # << >> /\ sockfd[p] = sockfd[k]
      BY <2>1 DEF OriginInv, AnswerOrigin
    <2>3. result[q] = << >>
      BY <1>1 DEF DnsInv, UnsentInv
    <2> QED
      <3>1. p # q /\ k # q
        BY <2>1, <2>2, <2>3
      <3>2. sockfd'[p] = sockfd[p] /\ sockfd'[k] = sockfd[k]
        BY <1>3, <3>1
      <3> QED
        BY <1>1, <2>2, <3>2
  <1> QED
    BY <1>5, <1>6, <1>7 DEF OriginInv

LEMMA OriginClose ==
    ASSUME DnsInv, OriginInv, CloseSocket
    PROVE  OriginInv'
  <1> USE RequestAssumption
  <1> DEFINE s == sockfd[closing]
  <1>1. /\ closing # None /\ closing' = None
        /\ owner' = [owner EXCEPT ![s] = None] /\ inbox' = [inbox EXCEPT ![s] = << >>]
        /\ UNCHANGED <<sockfd, net, result>>
    BY DEF CloseSocket
  <1>2. TypeOK
    BY DEF DnsInv
  <1>3. /\ closing \in Async /\ closing \in Requests /\ s \in Socks /\ owner[s] = closing
        /\ result[closing] # << >>
    BY <1>1, <1>2 DEF DnsInv, PendingInv, Pending, TypeOK, Requests, OriginInv, ReleasedInv
  <1>4. PortInv'
    <2>1. ASSUME NEW t \in Socks, NEW m \in Requests, Received(t, m)' PROVE sockfd'[m] = t
      <3>1. t # s
        BY <1>1, <1>2, <2>1 DEF Received, TypeOK
      <3>2. Received(t, m)
        BY <1>1, <1>2, <2>1, <3>1 DEF Received, TypeOK
      <3> QED
        BY <1>1, <3>2 DEF OriginInv, PortInv
    <2> QED
      BY <1>1, <2>1 DEF OriginInv, PortInv
  <1>5. ReleasedInv'
    <2>1. ASSUME NEW p \in Requests, sockfd'[p] # None, owner'[sockfd'[p]] # p
          PROVE  p \in Async /\ result'[p] # << >>
      <3>1. CASE owner[sockfd[p]] # p
        BY <1>1, <2>1, <3>1 DEF OriginInv, ReleasedInv
      <3>2. CASE owner[sockfd[p]] = p
        <4>1. sockfd[p] = s
          BY <1>1, <1>2, <2>1, <3>2 DEF TypeOK
        <4> QED
          BY <1>1, <1>3, <3>2, <4>1
      <3> QED
        BY <3>1, <3>2
    <2> QED
      BY <1>1, <2>1 DEF ReleasedInv
  <1>6. AnswerOrigin'
    BY <1>1 DEF OriginInv, AnswerOrigin
  <1> QED
    BY <1>4, <1>5, <1>6 DEF OriginInv

LEMMA OriginNet ==
    ASSUME DnsInv, OriginInv, NEW d \in net, Carry(d) \/ Refuse(d) \/ Lose(d)
    PROVE  OriginInv'
  <1> USE RequestAssumption
  <1>1. UNCHANGED <<owner, closing, sockfd, result>>
    BY DEF Carry, ServerAnswers, Deliver, Refuse, Lose, clientVars
  <1>2. TypeOK
    BY DEF DnsInv
  <1>3. d.sock \in Socks /\ d.of \in Requests /\ sockfd[d.of] = d.sock
    BY <1>2 DEF TypeOK, Datagrams, OriginInv, PortInv
  <1>4. ReleasedInv' /\ AnswerOrigin'
    BY <1>1 DEF OriginInv, ReleasedInv, AnswerOrigin
  <1>5. \A e \in net' : sockfd'[e.of] = e.sock
    <2>1. net' \subseteq net \cup {AnswerTo(d)}
      BY DEF Carry, ServerAnswers, Deliver, Refuse, Lose
    <2>2. AnswerTo(d).of = d.of /\ AnswerTo(d).sock = d.sock
      BY <1>2 DEF AnswerTo, TypeOK, Datagrams
    <2> QED
      BY <1>1, <1>3, <2>1, <2>2 DEF OriginInv, PortInv
  <1>6. \/ inbox' = inbox
        \/ \E m \in {d.of, Refused} : inbox' = [inbox EXCEPT ![d.sock] = Append(@, m)]
    BY DEF Carry, ServerAnswers, Deliver, Refuse, Lose, Receive, clientVars
  <1>7. ASSUME NEW t \in Socks, NEW k \in Requests, Received(t, k)' PROVE sockfd'[k] = t
    <2>1. CASE inbox' = inbox
      BY <1>1, <1>7, <2>1 DEF Received, OriginInv, PortInv
    <2>2. ASSUME NEW m \in {d.of, Refused}, inbox' = [inbox EXCEPT ![d.sock] = Append(@, m)]
          PROVE  sockfd'[k] = t
      <3>1. CASE t # d.sock
        <4>1. inbox'[t] = inbox[t]
          BY <1>2, <1>3, <2>2, <3>1 DEF TypeOK
        <4> QED
          <5>1. Received(t, k)
            BY <1>7, <4>1 DEF Received
          <5> QED
            BY <1>1, <5>1 DEF OriginInv, PortInv
      <3>2. CASE t = d.sock
        <4> DEFINE b == inbox[t]
        <4>1. b \in Seq(Requests \cup {Refused}) /\ m \in Requests \cup {Refused}
          BY <1>2, <1>3 DEF TypeOK
        <4>2. inbox'[t] = Append(b, m)
          BY <1>2, <2>2, <3>2 DEF TypeOK
        <4>3. PICK i \in 1..Len(Append(b, m)) : Append(b, m)[i] = k
          BY <1>7, <4>2 DEF Received
        <4>4. k = m \/ (i \in 1..Len(b) /\ b[i] = k)
          BY <4>1, <4>3, ReceivedAppend
        <4>5. CASE k = m
          BY <1>1, <1>3, <3>2, <4>5
        <4>6. CASE i \in 1..Len(b) /\ b[i] = k
          BY <1>1, <4>6 DEF Received, OriginInv, PortInv
        <4> QED
          BY <4>4, <4>5, <4>6
      <3> QED
        BY <3>1, <3>2
    <2> QED
      BY <1>6, <2>1, <2>2
  <1> QED
    BY <1>4, <1>5, <1>7 DEF OriginInv, PortInv

LEMMA OriginStep == DnsInv /\ OriginInv /\ [Next]_vars => OriginInv'
  <1> SUFFICES ASSUME DnsInv, OriginInv, [Next]_vars PROVE OriginInv'
    OBVIOUS
  <1>1. CASE SocketFails \/ Add \/ AddFails \/ EpollWait \/ UNCHANGED vars
    BY <1>1, OtherStep DEF SocketFails, Add, AddFails, EpollWait, vars, clientVars
  <1>2. CASE Spin
    <2> DEFINE q == main.req  s == sockfd[q]
    <2>1. /\ q \in Requests /\ s \in Socks /\ owner[s] = q /\ result[q] = << >>
          /\ inbox[s] # << >> /\ inbox' = [inbox EXCEPT ![s] = Tail(@)]
          /\ UNCHANGED <<owner, sockfd, closing, net>>
      BY <1>2 DEF Spin, DnsInv, CommitInv, Requests
    <2>2. CASE Head(inbox[s]) # Refused
      <3>1. result' = [result EXCEPT ![q] = Append(@, Parsed(Head(inbox[s])))]
        BY <1>2, <2>2 DEF Spin
      <3> QED
        BY <2>1, <3>1, ReadStep
    <2>3. CASE Head(inbox[s]) = Refused
      <3>1. result' = result
        BY <1>2, <2>3 DEF Spin
      <3> QED
        BY <2>1, <3>1, SkipStep
    <2> QED
      BY <2>2, <2>3
  <1>3. ASSUME NEW q \in Requests, NEW s \in Socks, Send(q, s) PROVE OriginInv'
    BY <1>3, OriginSend
  <1>4. ASSUME NEW q \in Requests, Callback(q) PROVE OriginInv'
    <2>1. /\ sockfd[q] \in Socks /\ owner[sockfd[q]] = q /\ result[q] = << >>
          /\ inbox[sockfd[q]] # << >>
      BY <1>4, RequestAssumption
      DEF Callback, DnsInv, Pending, PendingInv, UnansweredInv, Unread, TypeOK, Requests
    <2> QED
      BY <1>4, <2>1, ReadStep DEF Callback
  <1>5. CASE CloseSocket
    BY <1>5, OriginClose
  <1>6. ASSUME NEW d \in net, Carry(d) \/ Refuse(d) \/ Lose(d) PROVE OriginInv'
    BY <1>6, OriginNet
  <1> QED
    BY <1>1, <1>2, <1>3, <1>4, <1>5, <1>6 DEF Next, MainStep, ProcStep

\* Although nothing compares the id of an answer (asyn_dns_client.c:197-281), a
\* request is given its own, or that of an asynchronous one which had been
\* answered and whose socket it was given anew: whatever the network delays,
\* doubles or reorders, and for any number of requests and sockets.
THEOREM AnswersKnown == Spec => []AnswerOrigin
  <1>1. OriginInv => AnswerOrigin
    BY DEF OriginInv
  <1> QED
    BY <1>1, DnsInit, DnsStep, OriginInit, OriginStep, PTL DEF Spec
=============================================================================

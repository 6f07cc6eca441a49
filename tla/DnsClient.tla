------------------------------ MODULE DnsClient ------------------------------
(***************************************************************************)
(* pool/asyn_dns_client.c: the main thread sends DNS queries, each on a    *)
(* UDP socket of its own, and hands the sockets to epoll; a second thread  *)
(* waits for answers, gives each to its callback and closes the socket.    *)
(* dns_client_commit is the other way to ask: it spins until an answer     *)
(* comes.                                                                  *)
(*                                                                         *)
(* An element of Socks is a descriptor together with the local port bound  *)
(* to it: both are given out again after close.  The network may lose,     *)
(* delay and reorder datagrams and double answers.  A datagram is known by *)
(* the request it belongs to; its id, which nothing ever compares, is left *)
(* out.                                                                    *)
(***************************************************************************)
EXTENDS Integers, Sequences, FiniteSets

CONSTANTS
    Async,              \* requests made with dns_async_client_commit, numbered in
    Blocking,           \* order together with those made with dns_client_commit
    Socks,              \* the sockets the process may have open
    ASYNC_CLIENT_NUM,   \* events per epoll_wait
    MaxUnread,          \* bound: datagrams that wait in one socket
    Refused,            \* what a socket receives when its query was refused
    None                \* no request, no socket, no records

Requests == Async \cup Blocking

ASSUME RequestAssumption ==
    /\ Requests \subseteq Nat /\ Async \cap Blocking = {}
    /\ None \notin Requests \cup Socks /\ Refused \notin Requests \cup {None}
ASSUME BoundAssumption == ASYNC_CLIENT_NUM \in Nat \ {0} /\ MaxUnread \in Nat \ {0}

VARIABLES
    main,           \* where the main thread is, and with which request
    owner,          \* the request an open socket was made for
    inbox,          \* what a socket has received and nobody has read
    watch,          \* the interest list: the ep_arg registered for a socket
    arg,            \* the ep_arg of every request: "none", "live" or "freed"
    sockfd,         \* the socket each request was given; kept as a history
    batch,          \* the ep_args epoll_wait returned, not handled yet
    closing,        \* the one whose callback has run and whose socket is still open
    net,            \* datagrams under way
    result,         \* what a callback, or dns_client_commit, was given
    failed, lost    \* histories: commits that returned -1; requests a datagram of which was lost

clientVars == <<main, owner, inbox, watch, arg, sockfd, batch, closing, result, failed>>
vars == <<clientVars, net, lost>>

\* dns_async_client_init.
Init ==
    /\ main = [at |-> "ready", req |-> None]
    /\ owner = [s \in Socks |-> None] /\ inbox = [s \in Socks |-> << >>]
    /\ watch = [s \in Socks |-> None]
    /\ arg = [q \in Requests |-> "none"] /\ sockfd = [q \in Requests |-> None]
    /\ batch = {} /\ closing = None
    /\ net = {} /\ lost = {} /\ failed = {}
    /\ result = [q \in Requests |-> << >>]

Datagrams == [kind : {"query", "answer"}, sock : Socks, of : Requests]

\* What dns_create_header, dns_create_question and dns_build_request put together.
Query(s, q) == [kind |-> "query", sock |-> s, of |-> q]
AnswerTo(d) == [d EXCEPT !.kind = "answer"]

Unsent == {q \in Requests : sockfd[q] = None}

Running == main.at # "exited"
Idle == Running /\ main.at = "ready"

-----------------------------------------------------------------------------
(* Both commits begin alike: socket, connect, sendto.                      *)

SocketFails ==
    /\ Idle /\ \A s \in Socks : owner[s] # None
    /\ Unsent # {}
    /\ main' = [main EXCEPT !.at = "exited"]
    /\ UNCHANGED <<owner, inbox, watch, arg, sockfd, batch, closing, net, result, failed, lost>>

Send(q, s) ==
    /\ Idle /\ q \in Unsent /\ owner[s] = None
    /\ \A p \in Unsent : q <= p
    /\ owner' = [owner EXCEPT ![s] = q]
    /\ sockfd' = [sockfd EXCEPT ![q] = s]
    /\ net' = net \cup {Query(s, q)}
    /\ main' = [at |-> IF q \in Async THEN "adding" ELSE "spinning", req |-> q]
    /\ UNCHANGED <<inbox, watch, arg, batch, closing, result, failed, lost>>

-----------------------------------------------------------------------------
(* dns_async_client_commit, after the query is sent.                       *)

\* Mutation: epoll_ctl is forgotten.
Add_Unwatched ==
    /\ main.at = "adding"
    /\ arg' = [arg EXCEPT ![main.req] = "live"]
    /\ main' = [at |-> "ready", req |-> None]
    /\ UNCHANGED <<owner, inbox, watch, sockfd, batch, closing, net, result, failed, lost>>

Add ==
    /\ main.at = "adding"
    /\ arg' = [arg EXCEPT ![main.req] = "live"]
    /\ watch' = [watch EXCEPT ![sockfd[main.req]] = main.req]
    /\ main' = [at |-> "ready", req |-> None]
    /\ UNCHANGED <<owner, inbox, sockfd, batch, closing, net, result, failed, lost>>

\* calloc fails and the socket stays open, or epoll_ctl does and the ep_arg stays too.
AddFails ==
    /\ main.at = "adding"
    /\ arg' \in {arg, [arg EXCEPT ![main.req] = "live"]}
    /\ failed' = failed \cup {main.req}
    /\ main' = [at |-> "ready", req |-> None]
    /\ UNCHANGED <<owner, inbox, watch, sockfd, batch, closing, net, result, lost>>

-----------------------------------------------------------------------------
(* dns_client_commit: recvfrom until it returns something; the socket is   *)
(* never closed.                                                           *)

\* dns_parse_response: a buffer that recvfrom did not fill has no records.
Parsed(m) == IF m = Refused THEN None ELSE m

Spin ==
    /\ main.at = "spinning"
    /\ LET s == sockfd[main.req] IN
       /\ inbox[s] # << >>
       /\ inbox' = [inbox EXCEPT ![s] = Tail(@)]
       /\ IF Head(inbox[s]) = Refused THEN UNCHANGED <<main, result>>
          ELSE /\ result' = [result EXCEPT ![main.req] = Append(@, Parsed(Head(inbox[s])))]
               /\ main' = [at |-> "ready", req |-> None]
    /\ UNCHANGED <<owner, watch, arg, sockfd, batch, closing, net, failed, lost>>

-----------------------------------------------------------------------------
(* dns_async_client_proc.                                                  *)

Readable == {watch[s] : s \in {s \in Socks : watch[s] # None /\ inbox[s] # << >>}}

Reports ==
    IF Cardinality(Readable) <= ASYNC_CLIENT_NUM THEN {Readable} \ {{}}
    ELSE {S \in SUBSET Readable : Cardinality(S) = ASYNC_CLIENT_NUM}

EpollWait ==
    /\ Running /\ batch = {} /\ closing = None
    /\ batch' \in Reports
    /\ UNCHANGED <<main, owner, inbox, watch, arg, sockfd, closing, net, result, failed, lost>>

\* Mutation: the descriptor of the event before it, or of any other.
Callback_AnySocket(q) ==
    /\ Running /\ q \in batch /\ closing = None
    /\ \E s \in Socks :
        /\ inbox[s] # << >>
        /\ inbox' = [inbox EXCEPT ![s] = Tail(@)]
        /\ result' = [result EXCEPT ![q] = Append(@, Parsed(Head(inbox[s])))]
    /\ batch' = batch \ {q}
    /\ closing' = q
    /\ UNCHANGED <<main, owner, watch, arg, sockfd, net, failed, lost>>

\* recvfrom, dns_parse_response and the callback.
Callback(q) ==
    /\ Running /\ q \in batch /\ closing = None
    /\ LET s == sockfd[q] IN
       /\ inbox' = [inbox EXCEPT ![s] = Tail(@)]
       /\ result' = [result EXCEPT ![q] = Append(@, Parsed(Head(inbox[s])))]
    /\ batch' = batch \ {q}
    /\ closing' = q
    /\ UNCHANGED <<main, owner, watch, arg, sockfd, net, failed, lost>>

\* Mutation: the ep_arg is freed and the socket kept.
CloseSocket_FreesOnly ==
    /\ Running /\ closing # None
    /\ arg' = [arg EXCEPT ![closing] = "freed"]
    /\ closing' = None
    /\ UNCHANGED <<main, owner, inbox, watch, sockfd, batch, net, result, failed, lost>>

\* EPOLL_CTL_DEL, close and free.
CloseSocket ==
    /\ Running /\ closing # None
    /\ LET s == sockfd[closing] IN
       /\ watch' = [watch EXCEPT ![s] = None]
       /\ owner' = [owner EXCEPT ![s] = None]
       /\ inbox' = [inbox EXCEPT ![s] = << >>]
    /\ arg' = [arg EXCEPT ![closing] = "freed"]
    /\ closing' = None
    /\ UNCHANGED <<main, sockfd, batch, net, result, failed, lost>>

-----------------------------------------------------------------------------
(* The server and the network (external).                                  *)

ServerAnswers(d) ==
    /\ d \in net /\ d.kind = "query"
    /\ net' = (net \ {d}) \cup {AnswerTo(d)}
    /\ UNCHANGED <<clientVars, lost>>

Receive(s, m) ==
    inbox' = IF owner[s] = None THEN inbox ELSE [inbox EXCEPT ![s] = Append(@, m)]

\* An answer reaches the port, whoever has it now, and may come a second time.
Deliver(d) ==
    /\ d \in net /\ d.kind = "answer" /\ Len(inbox[d.sock]) < MaxUnread
    /\ net' \in {net, net \ {d}}
    /\ Receive(d.sock, d.of)
    /\ UNCHANGED <<main, owner, watch, arg, sockfd, batch, closing, result, failed, lost>>

\* The query is refused: the next recvfrom on its socket fails.
Refuse(d) ==
    /\ d \in net /\ d.kind = "query" /\ Len(inbox[d.sock]) < MaxUnread
    /\ net' = net \ {d}
    /\ Receive(d.sock, Refused)
    /\ lost' = lost \cup ({d.of} \cap Blocking)
    /\ UNCHANGED <<main, owner, watch, arg, sockfd, batch, closing, result, failed>>

Lose(d) ==
    /\ d \in net
    /\ net' = net \ {d}
    /\ lost' = lost \cup {d.of}
    /\ UNCHANGED clientVars

-----------------------------------------------------------------------------
MainStep == Add \/ AddFails \/ Spin

ProcStep == EpollWait \/ (\E q \in Requests : Callback(q)) \/ CloseSocket

Carry(d) == ServerAnswers(d) \/ Deliver(d)

Next ==
    \/ SocketFails
    \/ \E q \in Requests, s \in Socks : Send(q, s)
    \/ MainStep \/ ProcStep
    \/ \E d \in net : Carry(d) \/ Refuse(d) \/ Lose(d)

Spec == Init /\ [][Next]_vars

(* The two threads are scheduled.  Of the network it is only assumed that a
   datagram it does not lose arrives in the end. *)
Fairness ==
    /\ WF_vars(MainStep) /\ WF_vars(ProcStep)
    /\ \A d \in Datagrams : WF_vars(Carry(d))

LiveSpec == Spec /\ Fairness

-----------------------------------------------------------------------------
(* Properties.                                                             *)

TypeOK ==
    /\ main \in [at : {"ready", "adding", "spinning", "exited"}, req : Requests \cup {None}]
    /\ main.at \in {"adding", "spinning"} => main.req # None
    /\ owner \in [Socks -> Requests \cup {None}]
    /\ inbox \in [Socks -> Seq(Requests \cup {Refused})]
    /\ watch \in [Socks -> Async \cup {None}]
    /\ arg \in [Requests -> {"none", "live", "freed"}]
    /\ sockfd \in [Requests -> Socks \cup {None}]
    /\ batch \subseteq Async /\ closing \in Async \cup {None}
    /\ net \subseteq Datagrams
    /\ result \in [Requests -> Seq(Requests \cup {None})]
    /\ failed \subseteq Async /\ lost \subseteq Requests

\* What the epoll thread may still touch: registered, reported, or being closed.
Pending(q) == (\E s \in Socks : watch[s] = q) \/ q \in batch \/ closing = q

\* The ep_arg that epoll, the batch or the loop refers to is live, and the
\* socket in it is open and still this request's: the thread neither uses a
\* freed ep_arg nor reads or closes a socket that main was given anew
\* (c:372-391 against c:434-472).
Alive ==
    \A q \in Requests : Pending(q) =>
        arg[q] = "live" /\ owner[sockfd[q]] = q /\ watch[sockfd[q]] = q

\* An event is handled while its answer is still there.
Unread == \A q \in batch : inbox[sockfd[q]] # << >>

\* A request is answered at most once, and once it is, only the epoll thread's
\* last steps stand between it and giving its socket back (c:383-391): the
\* process runs out of sockets, and exits (c:437), for unanswered ones alone.
GivesBack ==
    /\ \A q \in Requests : Len(result[q]) <= 1
    /\ \A q \in Async : result[q] # << >> =>
           closing = q \/ (arg[q] = "freed" /\ \A s \in Socks : owner[s] # q)

\* The resources of a request through commit, event, callback and close.
ResourcesOK == TypeOK /\ Alive /\ Unread /\ GivesBack

\* Nothing compares the id of an answer (c:197-281).  All the same a callback
\* is given the answer to another request only if its socket was that
\* request's before, which had been answered and closed by then.
AnswerOrigin ==
    \A p, q \in Requests :
        result[q] = <<p>> /\ p # q =>
            p \in Async /\ result[p] # << >> /\ sockfd[p] = sockfd[q]

\* An answer that comes before EPOLL_CTL_ADD (c:461-472), several at once, a
\* late or a double one: whatever the order, a request that was sent is
\* answered unless one of its datagrams was lost, its commit failed or the
\* process exited.
EndsUnlessLost ==
    \A q \in Requests :
        sockfd[q] # None ~> result[q] # << >> \/ q \in lost \cup failed \/ ~Running
=============================================================================

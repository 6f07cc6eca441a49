--------------------------- MODULE StandaloneProofs ---------------------------
(***************************************************************************)
(* Theorems about the components of MCStandalone, each for all values of   *)
(* its own constants.  A step of the composition is a step of one of them  *)
(* and leaves the variables of every other alone.  At the end, theorems    *)
(* about ZeroThreadPool, as an instance with constants and variables of    *)
(* its own.                                                                *)
(***************************************************************************)
EXTENDS MCStandalone, FiniteSetTheorems, SequenceTheorems, WellFoundedInduction, TLAPS

\* A number below the modulus is its own remainder.
LEMMA SmallMod ==
    ASSUME NEW W \in Nat, NEW a \in Nat, a < W
    PROVE  a % W = a
  OBVIOUS

LEMMA LessThan ==
    ASSUME NEW m \in Nat, NEW n \in Nat, ~(<<m, n>> \in OpToRel(<, Nat))
    PROVE  n <= m
  BY SMT DEF OpToRel

\* Whole multiples of s within a.
LEMMA WholeSeconds ==
    ASSUME NEW s \in Nat \ {0}, NEW a \in Nat
    PROVE  (a \div s) * s \in Nat /\ (a \div s) * s <= a
  <1>1. a \div s \in Nat /\ a % s \in Nat /\ a = s * (a \div s) + (a % s)
    OBVIOUS
  <1> DEFINE q == a \div s  r == a % s
  <1> HIDE DEF q, r
  <1>2. q \in Nat /\ r \in Nat /\ a = s * q + r
    BY <1>1 DEF q, r
  <1>3. q * s \in Nat /\ q * s <= a
    BY <1>2
  <1> QED
    BY <1>3 DEF q

\* A set of numbers has a least element.
LEMMA LeastExists ==
    ASSUME NEW S \in SUBSET Nat, S # {}
    PROVE  /\ \E m \in S : \A j \in S : m <= j
           /\ (CHOOSE i \in S : \A j \in S : i <= j) \in S
  <1>1. PICK m \in S : \A j \in S : ~(<<j, m>> \in OpToRel(<, Nat))
    BY NatLessThanWellFounded, WFMin
  <1>2. \A j \in S : m <= j
    BY <1>1, LessThan
  <1> QED
    BY <1>2

-----------------------------------------------------------------------------
(* The first reactor: src/reactor.c.                                       *)

\* The descriptors 3 and 4 exist, the buffer is smaller than 2^64 bytes and a
\* client is none of the names in the table.
ReactorConstants ==
    /\ rx_NOFILE \in Nat /\ rx_NOFILE > 4 /\ rx_MAX_ITEMS_SIZE \in Nat
    /\ rx_BUFFER_SIZE \in Nat /\ rx_SizeRange \in Nat /\ rx_BUFFER_SIZE < rx_SizeRange
    /\ "free" \notin rx_Conns /\ "epoll" \notin rx_Conns /\ "listener" \notin rx_Conns

ReactorTypes ==
    /\ rx_file \in [RX!Fds -> rx_Conns \cup {"free", "epoll", "listener"}]
    /\ rx_watch \subseteq RX!Fds
    /\ rx_readable \in [RX!Fds -> BOOLEAN]
    /\ rx_buf_r_len \in [RX!Fds -> Nat] /\ rx_taken \in [RX!Fds -> Nat]
    /\ rx_unread \in [rx_Conns -> Nat]
    /\ rx_failed \subseteq RX!Fds

ReactorInv == ReactorTypes /\ RX!ReadsFit

LEMMA ReactorInit == ReactorConstants /\ RX!Init => ReactorInv
  BY DEF ReactorConstants, RX!Init, ReactorInv, ReactorTypes, RX!ReadsFit, RX!Fds, RX!epfd,
         RX!server_fd

LEMMA ReactorAccept ==
    ASSUME ReactorConstants, ReactorInv, NEW c \in rx_Conns, RX!handle_accept(c)
    PROVE  ReactorInv'
  <1> USE DEF ReactorConstants
  <1>1. PICK fd \in RX!Fds :
            /\ rx_status = "up" /\ rx_file[fd] = "free"
            /\ rx_file' = [rx_file EXCEPT ![fd] = c]
            /\ \/ /\ rx_readable' = [rx_readable EXCEPT ![fd] = TRUE]
                  /\ rx_watch' = rx_watch \cup {fd}
                  /\ UNCHANGED rx_status
               \/ rx_status' = "crashed" /\ UNCHANGED <<rx_readable, rx_watch>>
            /\ UNCHANGED <<rx_buf_r_len, rx_unread, rx_taken, rx_failed>>
    <2> DEFINE fd == CHOOSE f \in RX!FreeFds : \A g \in RX!FreeFds : f <= g
    <2>1. fd \in RX!FreeFds
      <3>1. RX!FreeFds \subseteq Nat /\ RX!FreeFds # {}
        BY DEF RX!handle_accept, RX!FreeFds, RX!Fds
      <3> QED
        BY <3>1, LeastExists
    <2> QED
      BY <2>1 DEF RX!handle_accept, RX!FreeFds
  <1>2. ReactorTypes'
    BY <1>1 DEF ReactorInv, ReactorTypes
  <1>3. RX!ReadsFit'
    BY <1>1 DEF ReactorInv, ReactorTypes, RX!ReadsFit
  <1> QED
    BY <1>2, <1>3 DEF ReactorInv

LEMMA ReactorRead ==
    ASSUME ReactorConstants, ReactorInv, NEW fd \in RX!Fds, RX!handle_read(fd)
    PROVE  ReactorInv'
  <1> USE DEF ReactorConstants
  <1> DEFINE c == rx_file[fd]
             room == RX!Room(fd)
             n == IF rx_unread[c] < room THEN rx_unread[c] ELSE room
  <1>1. /\ c \in rx_Conns /\ n > 0 /\ rx_status = "up"
        /\ rx_buf_r_len[fd] <= rx_BUFFER_SIZE
        /\ rx_buf_r_len' = [rx_buf_r_len EXCEPT ![fd] = (@ + n) % rx_SizeRange]
        /\ rx_unread' = [rx_unread EXCEPT ![c] = @ - n]
        /\ rx_taken' = [rx_taken EXCEPT ![fd] = IF fd \in rx_failed THEN @ ELSE @ + n]
        /\ UNCHANGED <<rx_file, rx_watch, rx_readable, rx_net, rx_failed, rx_status>>
    BY DEF RX!handle_read, RX!Recv
  <1>2. rx_buf_r_len[fd] \in Nat /\ rx_taken[fd] \in Nat /\ rx_unread[c] \in Nat
    BY <1>1 DEF ReactorInv, ReactorTypes
  <1>3. room = rx_BUFFER_SIZE - rx_buf_r_len[fd]
    <2>1. rx_BUFFER_SIZE - rx_buf_r_len[fd] \in Nat /\ rx_BUFFER_SIZE - rx_buf_r_len[fd] < rx_SizeRange
      BY <1>1, <1>2
    <2> QED
      BY <2>1, SmallMod DEF RX!Room
  <1>4. n \in Nat /\ n <= rx_unread[c] /\ rx_buf_r_len[fd] + n <= rx_BUFFER_SIZE
    BY <1>1, <1>2, <1>3
  <1>5. (rx_buf_r_len[fd] + n) % rx_SizeRange = rx_buf_r_len[fd] + n
    BY <1>2, <1>4, SmallMod
  <1> HIDE DEF c, room, n
  <1>6. ReactorTypes'
    BY <1>1, <1>2, <1>4, <1>5 DEF ReactorInv, ReactorTypes
  <1>7. RX!ReadsFit'
    BY <1>1, <1>2, <1>4, <1>5 DEF ReactorInv, ReactorTypes, RX!ReadsFit
  <1> QED
    BY <1>6, <1>7 DEF ReactorInv

LEMMA ReactorStep ==
    ASSUME ReactorConstants, ReactorInv, [RX!Next]_rxVars
    PROVE  ReactorInv'
  <1> USE DEF ReactorConstants
  <1>1. ASSUME NEW c \in rx_Conns, RX!ClientConnect(c) \/ RX!ClientSend(c) \/ RX!ClientClose(c)
        PROVE  ReactorInv'
    <2>1. /\ rx_unread' \in [rx_Conns -> Nat]
          /\ UNCHANGED <<rx_file, rx_watch, rx_readable, rx_buf_r_len, rx_taken, rx_failed, rx_status>>
      BY <1>1 DEF ReactorInv, ReactorTypes, RX!ClientConnect, RX!ClientSend, RX!ClientClose, RX!server
    <2> QED
      BY <2>1 DEF ReactorInv, ReactorTypes, RX!ReadsFit
  <1>2. ASSUME NEW fd \in RX!Fds, RX!ReadCloses(fd) PROVE ReactorInv'
    <2>1. /\ rx_status = "up" /\ rx_file[fd] \in rx_Conns
          /\ rx_file' = [rx_file EXCEPT ![fd] = "free"] /\ rx_watch' = rx_watch \ {fd}
          /\ UNCHANGED <<rx_readable, rx_buf_r_len, rx_unread, rx_taken, rx_failed, rx_status>>
      BY <1>2 DEF RX!ReadCloses, RX!Recv
    <2>2. ReactorTypes'
      BY <2>1 DEF ReactorInv, ReactorTypes
    <2>3. RX!ReadsFit'
      BY <2>1 DEF ReactorInv, ReactorTypes, RX!ReadsFit
    <2> QED
      BY <2>2, <2>3 DEF ReactorInv
  <1>3. ASSUME NEW fd \in RX!Fds, RX!ReadFails(fd) PROVE ReactorInv'
    <2>1. /\ rx_status = "up"
          /\ rx_buf_r_len' = [rx_buf_r_len EXCEPT ![fd] = (@ - 1) % rx_SizeRange]
          /\ rx_failed' = rx_failed \cup {fd}
          /\ UNCHANGED <<rx_file, rx_watch, rx_readable, rx_unread, rx_taken, rx_status>>
      BY <1>3 DEF RX!ReadFails, RX!Recv
    <2>2. (rx_buf_r_len[fd] - 1) % rx_SizeRange \in Nat
      BY DEF ReactorInv, ReactorTypes
    <2>3. ReactorTypes'
      BY <2>1, <2>2 DEF ReactorInv, ReactorTypes
    <2>4. RX!ReadsFit'
      BY <2>1 DEF ReactorInv, ReactorTypes, RX!ReadsFit
    <2> QED
      BY <2>3, <2>4 DEF ReactorInv
  <1>4. ASSUME NEW fd \in RX!Fds, RX!ReadOutside(fd) PROVE ReactorInv'
    BY <1>4 DEF RX!ReadOutside, ReactorInv, ReactorTypes, RX!ReadsFit
  <1>5. CASE UNCHANGED rxVars
    BY <1>5 DEF rxVars, ReactorInv, ReactorTypes, RX!ReadsFit
  <1> QED
    BY <1>1, <1>2, <1>3, <1>4, <1>5, ReactorAccept, ReactorRead DEF RX!Next

\* However clients come and go on the same descriptors of the first reactor: an
\* open one is watched and handled, a closed one is not, and unless a recv
\* failed on it no recv is given more room than the buffer has left
\* (reactor.c:155-175, 268-297).
THEOREM ReadsAlwaysFit == ReactorConstants /\ StandaloneSpec => [](ReadsFit)
  <1>1. StandaloneInit => RX!Init
    BY DEF StandaloneInit
  <1>2. [StandaloneNext]_allVars => [RX!Next]_rxVars
    BY DEF StandaloneNext, allVars, mpVars, tcVars, slVars, rbVars, mhVars, tmVars, rxVars,
           zpVars
  <1>3. ReactorInv => ReadsFit
    BY DEF ReactorInv, ReadsFit
  <1> SUFFICES ASSUME ReactorConstants PROVE StandaloneSpec => []ReadsFit
    OBVIOUS
  <1>4. StandaloneInit => ReactorInv
    BY <1>1, ReactorInit
  <1>5. ReactorInv /\ [StandaloneNext]_allVars => ReactorInv'
    BY <1>2, ReactorStep
  <1> QED
    BY <1>3, <1>4, <1>5, PTL DEF StandaloneSpec

-----------------------------------------------------------------------------
(* Exceptions: src/trycatch.c.                                             *)

Statements ==
    [catches : SUBSET tc_Exceptions, finally : BOOLEAN,
     body : {"try", "catch", "finally", "end"},
     flag : {"Entered", "Thrown", "Handled", "Finalized"},
     exception : tc_Exceptions \cup {tc_None}, prev : Nat, goal : Nat]

Below(c, k) == {j \in TC!Active(c) : j < k}

\* StackIsBodies for a thread in the statements c with its innermost frame at f.
StackOf(c, f) ==
    /\ TC!IsTop(TC!Active(c), f)
    /\ \A k \in TC!Active(c) : TC!IsTop(Below(c, k), c[k].prev)

\* InnermostHandles for the statement s at k of c, and what a rethrow needs: no
\* Try body between the goal and the statement has a Catch for the exception.
HandledAt(c, k, s) ==
    /\ s.body = "catch" => s.goal = k
    /\ s.flag = "Thrown" =>
        /\ s.goal < k
        /\ s.goal # 0 => s.goal \in TC!Active(c) /\ s.exception \in c[s.goal].catches
        /\ \A j \in TC!Active(c) : s.goal < j /\ j < k => s.exception \notin c[j].catches

Handles(c) == \A k \in 1 .. Len(c) : HandledAt(c, k, c[k])

FramesInv ==
    /\ tc_code \in [tc_Threads -> Seq(Statements)]
    /\ tc_ExceptionStack \in [tc_Threads -> Nat]
    /\ \A t \in tc_Threads :
           StackOf(tc_code[t], tc_ExceptionStack[t]) /\ Handles(tc_code[t])

LEMMA GreatestExists ==
    ASSUME NEW n \in Nat, NEW S \in SUBSET (1 .. n)
    PROVE  \E m \in 0 .. n : TC!IsTop(S, m)
  <1>1. CASE S = {}
    BY <1>1 DEF TC!IsTop
  <1>2. CASE S # {}
    <2> DEFINE T == {x \in Nat : n - x \in S}
    <2>1. PICK i \in S : TRUE
      BY <1>2
    <2>2. n - i \in Nat /\ n - (n - i) = i
      BY <2>1
    <2>3. T \subseteq Nat /\ T # {}
      BY <2>1, <2>2
    <2> HIDE DEF T
    <2>4. PICK x \in T : \A y \in T : x <= y
      BY <2>3, LeastExists
    <2>5. x \in Nat /\ n - x \in S
      BY <2>4 DEF T
    <2>6. \A j \in S : n - j \in T
      <3> TAKE j \in S
      <3>1. n - j \in Nat /\ n - (n - j) = j
        OBVIOUS
      <3> QED
        BY <3>1 DEF T
    <2>7. \A j \in S : x <= n - j
      BY <2>4, <2>6
    <2>8. \A j \in S : j <= n - x
      BY <2>5, <2>7
    <2> QED
      BY <1>2, <2>5, <2>8 DEF TC!IsTop
  <1> QED
    BY <1>1, <1>2

(* c becomes d: the statements below the last of d stay. *)
Cut(c, d) ==
    /\ c \in Seq(Statements) /\ d \in Seq(Statements)
    /\ Len(d) \in Nat \ {0} /\ Len(d) <= Len(c) + 1
    /\ \A j \in 1 .. Len(d) - 1 : d[j] = c[j]

LEMMA CutActive ==
    ASSUME NEW c, NEW d, Cut(c, d)
    PROVE  /\ \A j : j < Len(d) => (j \in TC!Active(d) <=> j \in TC!Active(c))
           /\ Len(d) \in TC!Active(d) <=> d[Len(d)].body = "try"
           /\ TC!Active(d) \subseteq 1 .. Len(d) /\ TC!Active(c) \subseteq 1 .. Len(c)
  BY DEF Cut, TC!Active

LEMMA CutHandles ==
    ASSUME NEW c, NEW d, Cut(c, d), Handles(c), HandledAt(c, Len(d), d[Len(d)])
    PROVE  Handles(d)
  <1>1. ASSUME NEW k \in 1 .. Len(d) PROVE HandledAt(c, k, d[k]) /\ k <= Len(d)
    <2>1. CASE k = Len(d)
      BY <2>1
    <2>2. CASE k # Len(d)
      <3>1. k \in 1 .. Len(c) /\ d[k] = c[k] /\ k <= Len(d)
        BY <2>2 DEF Cut
      <3> QED
        BY <3>1 DEF Handles
    <2> QED
      BY <2>1, <2>2
  <1>2. ASSUME NEW k \in 1 .. Len(d) PROVE HandledAt(d, k, d[k])
    <2>1. HandledAt(c, k, d[k]) /\ k <= Len(d)
      BY <1>1
    <2>2. d[k].goal \in Nat
      <3>1. d[k] \in Statements
        BY DEF Cut
      <3> QED
        BY <3>1 DEF Statements
    <2>3. \A j \in TC!Active(d) : j < k => j \in TC!Active(c) /\ d[j] = c[j]
      BY <2>1, CutActive DEF Cut, TC!Active
    <2>4. \A j \in TC!Active(c) : j < k => j \in TC!Active(d) /\ d[j] = c[j]
      BY <2>1, CutActive DEF Cut, TC!Active
    <2> QED
      BY <2>1, <2>2, <2>3, <2>4 DEF HandledAt
  <1> QED
    BY <1>2 DEF Handles

\* A Try body is entered, above all others.
LEMMA CutEnters ==
    ASSUME NEW c, NEW d, NEW f, Cut(c, d), StackOf(c, f),
           Len(d) = Len(c) + 1, d[Len(d)].body = "try", d[Len(d)].prev = f
    PROVE  StackOf(d, Len(d))
  <1>1. TC!Active(d) = TC!Active(c) \cup {Len(d)}
    BY CutActive DEF Cut
  <1>2. Below(d, Len(d)) = TC!Active(c)
    BY <1>1, CutActive DEF Cut, Below
  <1>3. \A k \in TC!Active(c) : Below(d, k) = Below(c, k) /\ d[k] = c[k]
    BY <1>1, CutActive DEF Cut, Below
  <1>4. TC!IsTop(TC!Active(d), Len(d))
    BY <1>1, CutActive DEF Cut, TC!IsTop
  <1> QED
    BY <1>1, <1>2, <1>3, <1>4 DEF StackOf

\* No Try body is under way at the end of d.
LEMMA CutLeaves ==
    ASSUME NEW c, NEW d, NEW f, NEW g, Cut(c, d), StackOf(c, f),
           d[Len(d)].body # "try", TC!IsTop(Below(c, Len(d)), g)
    PROVE  StackOf(d, g)
  <1>1. TC!Active(d) = Below(c, Len(d))
    BY CutActive DEF Cut, Below
  <1>2. \A k \in TC!Active(d) : k \in TC!Active(c) /\ Below(d, k) = Below(c, k) /\ d[k] = c[k]
    BY <1>1, CutActive DEF Cut, Below
  <1> QED
    BY <1>1, <1>2 DEF StackOf

\* The statement s when a longjmp has led to it.
Landed(s, e, goal) == TC!Dispatch([s EXCEPT !.exception = e, !.goal = goal], e)

LEMMA DispatchIs ==
    ASSUME NEW s \in Statements, NEW e \in tc_Exceptions \cup {tc_None}, NEW goal \in Nat
    PROVE  LET r == Landed(s, e, goal) IN
           /\ r \in Statements /\ r.goal = goal
           /\ e \in s.catches => r.body = "catch" /\ r.flag = "Handled"
           /\ e \notin s.catches =>
                  r.body \in {"finally", "end"} /\ r.flag = "Thrown" /\ r.exception = e
  BY DEF Landed, TC!Dispatch, Statements

\* goal is where e should be handled.
Aimed(c, e, goal) ==
    /\ goal \in Nat
    /\ goal # 0 => goal \in TC!Active(c) /\ e \in c[goal].catches
    /\ \A j \in TC!Active(c) : goal < j => e \notin c[j].catches

LEMMA GoalIsAimed ==
    ASSUME NEW c \in Seq(Statements), NEW e
    PROVE  Aimed(c, e, TC!Goal(c, e))
  <1> DEFINE S == {k \in TC!Active(c) : e \in c[k].catches}
             n == Len(c)
  <1>1. n \in Nat /\ S \subseteq 1 .. n
    BY DEF TC!Active
  <1>2. \E m \in 0 .. n : TC!IsTop(S, m)
    <2> HIDE DEF S, n
    <2> QED
      BY <1>1, GreatestExists
  <1>3. TC!Goal(c, e) \in 0 .. n /\ TC!IsTop(S, TC!Goal(c, e))
    BY <1>2 DEF TC!Goal
  <1>4. \A j \in TC!Active(c) : j \in 1 .. n
    BY DEF TC!Active
  <1> HIDE DEF n
  <1> QED
    BY <1>1, <1>3, <1>4 DEF Aimed, TC!IsTop

\* Throw and ReThrow jump to the innermost Try body.
LEMMA JumpKeeps ==
    ASSUME NEW c \in Seq(Statements), NEW f \in Nat, f # 0, StackOf(c, f), Handles(c),
           NEW e \in tc_Exceptions \cup {tc_None}, NEW goal, Aimed(c, e, goal),
           NEW d, d = Append(SubSeq(c, 1, f - 1), Landed(c[f], e, goal))
    PROVE  d \in Seq(Statements) /\ c[f].prev \in Nat /\ StackOf(d, c[f].prev) /\ Handles(d)
  <1> DEFINE r == Landed(c[f], e, goal)
  <1>1. f \in TC!Active(c) /\ \A j \in TC!Active(c) : j <= f
    BY DEF StackOf, TC!IsTop
  <1>2. f \in 1 .. Len(c) /\ c[f] \in Statements /\ c[f].prev \in Nat
    <2>1. f \in 1 .. Len(c) /\ c[f] \in Statements
      BY <1>1 DEF TC!Active
    <2> QED
      BY <2>1 DEF Statements
  <1>3. goal \in Nat
    BY DEF Aimed
  <1>4. /\ r \in Statements /\ r.goal = goal
        /\ e \in c[f].catches => r.body = "catch" /\ r.flag = "Handled"
        /\ e \notin c[f].catches =>
               r.body \in {"finally", "end"} /\ r.flag = "Thrown" /\ r.exception = e
    <2> DEFINE s == c[f]
    <2>1. s \in Statements
      BY <1>2
    <2> HIDE DEF s
    <2>2. LET q == Landed(s, e, goal) IN
          /\ q \in Statements /\ q.goal = goal
          /\ e \in s.catches => q.body = "catch" /\ q.flag = "Handled"
          /\ e \notin s.catches =>
                 q.body \in {"finally", "end"} /\ q.flag = "Thrown" /\ q.exception = e
      BY <1>3, <2>1, DispatchIs
    <2> QED
      BY <2>2 DEF s
  <1> HIDE DEF r
  <1>5. /\ d \in Seq(Statements) /\ Len(d) = f /\ d[f] = r
        /\ \A j \in 1 .. f - 1 : d[j] = c[j]
    <2> DEFINE b == SubSeq(c, 1, f - 1)
    <2>1. b \in Seq(Statements) /\ Len(b) = f - 1 /\ \A j \in 1 .. f - 1 : b[j] = c[j]
      BY <1>2
    <2>2. d = Append(b, r)
      BY DEF r
    <2> HIDE DEF b
    <2> QED
      BY <1>2, <1>4, <2>1, <2>2
  <1>6. Cut(c, d)
    BY <1>2, <1>5 DEF Cut
  <1>7. StackOf(d, c[f].prev)
    <2>1. TC!IsTop(Below(c, f), c[f].prev)
      BY <1>1 DEF StackOf
    <2>2. r.body # "try"
      BY <1>4
    <2> QED
      BY <1>5, <1>6, <2>1, <2>2, CutLeaves
  <1>8. HandledAt(c, f, r)
    <2>1. goal <= f
      BY <1>1, <1>2 DEF Aimed
    <2>2. CASE e \in c[f].catches
      <3>1. goal = f
        BY <1>1, <1>2, <1>3, <2>1, <2>2 DEF Aimed
      <3> QED
        BY <1>4, <2>2, <3>1 DEF HandledAt
    <2>3. CASE e \notin c[f].catches
      <3>1. goal # f
        BY <1>2, <2>3 DEF Aimed
      <3>2. goal < f
        BY <1>2, <1>3, <2>1, <3>1
      <3> QED
        BY <1>4, <2>3, <3>2 DEF HandledAt, Aimed
    <2> QED
      BY <2>2, <2>3
  <1> QED
    BY <1>2, <1>5, <1>6, <1>7, <1>8, CutHandles

\* The innermost statement, s, becomes r, which is no Try body.
LEMMA BodyEnds ==
    ASSUME NEW c \in Seq(Statements), NEW f, StackOf(c, f), Handles(c), c # << >>,
           NEW r \in Statements, r.body \notin {"try", "catch"},
           r.flag = "Thrown" =>
               /\ c[Len(c)].flag = "Thrown"
               /\ r.goal = c[Len(c)].goal /\ r.exception = c[Len(c)].exception,
           NEW g, TC!IsTop(Below(c, Len(c)), g),
           NEW d, d = [c EXCEPT ![Len(c)] = r]
    PROVE  d \in Seq(Statements) /\ StackOf(d, g) /\ Handles(d)
  <1>1. /\ d \in Seq(Statements) /\ Len(d) = Len(c) /\ d[Len(d)] = r
        /\ Len(c) \in Nat \ {0} /\ \A j \in 1 .. Len(d) - 1 : d[j] = c[j]
    OBVIOUS
  <1>2. Cut(c, d)
    BY <1>1 DEF Cut
  <1>3. HandledAt(c, Len(d), r)
    <2>1. HandledAt(c, Len(c), c[Len(c)])
      BY <1>1 DEF Handles
    <2> QED
      BY <1>1, <2>1 DEF HandledAt
  <1> QED
    BY <1>1, <1>2, <1>3, CutLeaves, CutHandles

\* EndTry leaves the innermost statement behind.
LEMMA LeaveKeeps ==
    ASSUME NEW c \in Seq(Statements), NEW f, StackOf(c, f), Handles(c), c # << >>,
           c[Len(c)].body # "try",
           NEW d, d = SubSeq(c, 1, Len(c) - 1)
    PROVE  d \in Seq(Statements) /\ StackOf(d, f) /\ Handles(d)
  <1>1. /\ d \in Seq(Statements) /\ Len(d) = Len(c) - 1 /\ Len(c) \in Nat \ {0}
        /\ \A j \in 1 .. Len(d) : d[j] = c[j]
    <2> DEFINE n == Len(c)
    <2>1. n \in Nat \ {0} /\ \A j \in 1 .. n : c[j] \in Statements
      OBVIOUS
    <2> HIDE DEF n
    <2>2. d = SubSeq(c, 1, n - 1) /\ n - 1 \in Nat /\ \A j \in 1 .. n - 1 : c[j] \in Statements
      BY <2>1 DEF n
    <2>3. d \in Seq(Statements) /\ Len(d) = n - 1 /\ \A j \in 1 .. n - 1 : d[j] = c[j]
      BY <2>2
    <2> QED
      BY <2>1, <2>3 DEF n
  <1>2. TC!Active(d) = TC!Active(c)
    BY <1>1 DEF TC!Active
  <1>3. \A k \in TC!Active(d) : d[k] = c[k] /\ Below(d, k) = Below(c, k)
    BY <1>1, <1>2 DEF TC!Active, Below
  <1>4. StackOf(d, f)
    BY <1>2, <1>3 DEF StackOf
  <1>5. ASSUME NEW k \in 1 .. Len(d) PROVE HandledAt(d, k, d[k])
    <2>1. HandledAt(c, k, d[k])
      BY <1>1 DEF Handles
    <2>2. \A j \in TC!Active(c) : d[j] = c[j]
      BY <1>2, <1>3
    <2> QED
      BY <1>2, <2>1, <2>2 DEF HandledAt
  <1> QED
    BY <1>1, <1>4, <1>5 DEF Handles

LEMMA FramesThread ==
    ASSUME FramesInv, NEW t \in tc_Threads, NEW d \in Seq(Statements), NEW g \in Nat,
           StackOf(d, g), Handles(d),
           tc_code' = [tc_code EXCEPT ![t] = d],
           tc_ExceptionStack' = [tc_ExceptionStack EXCEPT ![t] = g]
    PROVE  FramesInv'
  <1>1. /\ tc_code' \in [tc_Threads -> Seq(Statements)]
        /\ tc_ExceptionStack' \in [tc_Threads -> Nat]
    BY DEF FramesInv
  <1>2. ASSUME NEW u \in tc_Threads
        PROVE  StackOf(tc_code'[u], tc_ExceptionStack'[u]) /\ Handles(tc_code'[u])
    BY DEF FramesInv
  <1> QED
    BY <1>1, <1>2 DEF FramesInv

LEMMA FramesInit == TC!Init => FramesInv
  <1> SUFFICES ASSUME TC!Init PROVE FramesInv
    OBVIOUS
  <1>1. /\ tc_code \in [tc_Threads -> Seq(Statements)]
        /\ tc_ExceptionStack \in [tc_Threads -> Nat]
        /\ \A t \in tc_Threads : tc_code[t] = << >> /\ tc_ExceptionStack[t] = 0
    BY DEF TC!Init
  <1>2. TC!Active(<< >>) = {} /\ Len(<< >>) = 0
    BY DEF TC!Active
  <1>3. StackOf(<< >>, 0) /\ Handles(<< >>)
    BY <1>2 DEF StackOf, TC!IsTop, Handles
  <1> QED
    BY <1>1, <1>3 DEF FramesInv

LEMMA TryStep ==
    ASSUME FramesInv, NEW t \in tc_Threads, NEW catches \in SUBSET tc_Exceptions,
           NEW finally \in BOOLEAN, TC!Try(t, catches, finally)
    PROVE  FramesInv'
  <1> DEFINE c == tc_code[t]
             f == tc_ExceptionStack[t]
             s == TC!Statement(catches, finally, f)
             d == Append(c, s)
  <1>1. c \in Seq(Statements) /\ f \in Nat /\ StackOf(c, f) /\ Handles(c)
    BY DEF FramesInv
  <1>2. s \in Statements /\ s.body = "try" /\ s.flag = "Entered" /\ s.prev = f
    BY <1>1 DEF TC!Statement, Statements
  <1>3. /\ tc_code' = [tc_code EXCEPT ![t] = d]
        /\ tc_ExceptionStack' = [tc_ExceptionStack EXCEPT ![t] = Len(c) + 1]
    BY DEF TC!Try
  <1> HIDE DEF c, f, s
  <1>4. /\ d \in Seq(Statements) /\ Len(c) \in Nat /\ Len(d) = Len(c) + 1 /\ d[Len(c) + 1] = s
        /\ \A j \in 1 .. Len(c) : d[j] = c[j]
    BY <1>1, <1>2
  <1> HIDE DEF d
  <1>5. Cut(c, d)
    BY <1>1, <1>4 DEF Cut
  <1>6. StackOf(d, Len(c) + 1)
    BY <1>1, <1>2, <1>4, <1>5, CutEnters
  <1>7. Handles(d)
    <2>1. HandledAt(c, Len(d), d[Len(d)])
      BY <1>2, <1>4 DEF HandledAt
    <2> QED
      BY <1>1, <1>5, <2>1, CutHandles
  <1> QED
    BY <1>3, <1>4, <1>6, <1>7, FramesThread, Len(c) + 1 \in Nat

LEMMA JumpStep ==
    ASSUME FramesInv, NEW t \in tc_Threads, tc_ExceptionStack[t] # 0,
           NEW e \in tc_Exceptions \cup {tc_None}, NEW goal,
           Aimed(tc_code[t], e, goal), TC!Jump(t, e, goal)
    PROVE  FramesInv'
  <1> DEFINE c == tc_code[t]
             f == tc_ExceptionStack[t]
             d == Append(SubSeq(c, 1, f - 1), Landed(c[f], e, goal))
  <1>1. c \in Seq(Statements) /\ f \in Nat /\ StackOf(c, f) /\ Handles(c)
    BY DEF FramesInv
  <1>2. /\ tc_code' = [tc_code EXCEPT ![t] = d]
        /\ tc_ExceptionStack' = [tc_ExceptionStack EXCEPT ![t] = c[f].prev]
    BY DEF TC!Jump, TC!ntyExceptionPopStack, Landed
  <1>3. d \in Seq(Statements) /\ c[f].prev \in Nat /\ StackOf(d, c[f].prev) /\ Handles(d)
    BY <1>1, JumpKeeps
  <1> HIDE DEF c, f, d
  <1> QED
    BY <1>2, <1>3, FramesThread

LEMMA EndTryStep ==
    ASSUME FramesInv, NEW t \in tc_Threads, TC!EndTry(t)
    PROVE  FramesInv'
  <1> DEFINE c == tc_code[t]
             f == tc_ExceptionStack[t]
             s == c[Len(c)]
  <1>1. c \in Seq(Statements) /\ f \in Nat /\ StackOf(c, f) /\ Handles(c)
    BY DEF FramesInv
  <1>2. c # << >> /\ s.body = "end"
    BY DEF TC!EndTry, TC!Inner
  <1>3. Len(c) \in Nat \ {0} /\ s \in Statements
    BY <1>1, <1>2
  <1>4. s.goal \in Nat /\ s.exception \in tc_Exceptions \cup {tc_None}
    BY <1>3 DEF Statements
  <1>5. CASE s.flag = "Thrown" /\ f # 0
    <2>1. HandledAt(c, Len(c), s)
      BY <1>1, <1>3 DEF Handles
    <2>2. \A j \in TC!Active(c) : j < Len(c)
      BY <1>2, <1>3 DEF TC!Active
    <2>3. Aimed(c, s.exception, s.goal)
      BY <1>4, <1>5, <2>1, <2>2 DEF HandledAt, Aimed
    <2>4. TC!Jump(t, s.exception, s.goal)
      BY <1>5 DEF TC!EndTry, TC!Inner
    <2> QED
      BY <1>4, <1>5, <2>3, <2>4, JumpStep
  <1>6. CASE ~(s.flag = "Thrown" /\ f # 0)
    <2> DEFINE d == SubSeq(c, 1, Len(c) - 1)
    <2>1. tc_code' = [tc_code EXCEPT ![t] = d] /\ tc_ExceptionStack' = tc_ExceptionStack
      BY <1>6 DEF TC!EndTry, TC!Inner, TC!Leave
    <2>2. tc_ExceptionStack' = [tc_ExceptionStack EXCEPT ![t] = f]
      BY <2>1 DEF FramesInv
    <2>3. d \in Seq(Statements) /\ StackOf(d, f) /\ Handles(d)
      BY <1>1, <1>2, LeaveKeeps
    <2> HIDE DEF c, f, d
    <2> QED
      BY <1>1, <2>1, <2>2, <2>3, FramesThread
  <1> QED
    BY <1>5, <1>6

\* The end of a Try body, of a Catch and of a Finally.
LEMMA EndsStep ==
    ASSUME FramesInv, NEW t \in tc_Threads,
           TC!TryEnds(t) \/ TC!CatchEnds(t) \/ TC!FinallyEnds(t)
    PROVE  FramesInv'
  <1> DEFINE c == tc_code[t]
             f == tc_ExceptionStack[t]
             s == c[Len(c)]
  <1>1. c \in Seq(Statements) /\ f \in Nat /\ StackOf(c, f) /\ Handles(c)
    BY DEF FramesInv
  <1>2. c # << >>
    BY DEF TC!TryEnds, TC!CatchEnds, TC!FinallyEnds
  <1>3. Len(c) \in Nat \ {0} /\ s \in Statements
    BY <1>1, <1>2
  <1>4. PICK r \in Statements :
            /\ r.body \notin {"try", "catch"}
            /\ r.flag = "Thrown" =>
                   s.flag = "Thrown" /\ r.goal = s.goal /\ r.exception = s.exception
            /\ tc_code' = [tc_code EXCEPT ![t] = [c EXCEPT ![Len(c)] = r]]
    <2>1. CASE TC!TryEnds(t)
      <3> DEFINE r == IF s.finally THEN [s EXCEPT !.body = "finally", !.flag = "Finalized"]
                      ELSE [s EXCEPT !.body = "end"]
      <3>1. tc_code' = [tc_code EXCEPT ![t] = [c EXCEPT ![Len(c)] = r]]
        BY <2>1 DEF TC!TryEnds, TC!Inner, TC!Replace
      <3>2. /\ r \in Statements /\ r.body \notin {"try", "catch"}
            /\ r.flag = "Thrown" =>
                   s.flag = "Thrown" /\ r.goal = s.goal /\ r.exception = s.exception
        BY <1>3 DEF Statements
      <3> HIDE DEF r, s
      <3> QED
        BY <3>1, <3>2
    <2>2. CASE TC!CatchEnds(t) \/ TC!FinallyEnds(t)
      <3>1. PICK b \in {"finally", "end"} :
                tc_code' = [tc_code EXCEPT ![t] = [c EXCEPT ![Len(c)] = [s EXCEPT !.body = b]]]
        BY <2>2 DEF TC!CatchEnds, TC!FinallyEnds, TC!Inner, TC!Replace
      <3> DEFINE r == [s EXCEPT !.body = b]
      <3>2. /\ r \in Statements /\ r.body \notin {"try", "catch"}
            /\ r.flag = "Thrown" =>
                   s.flag = "Thrown" /\ r.goal = s.goal /\ r.exception = s.exception
        BY <1>3 DEF Statements
      <3>3. tc_code' = [tc_code EXCEPT ![t] = [c EXCEPT ![Len(c)] = r]]
        BY <3>1
      <3> HIDE DEF r, s
      <3> QED
        BY <3>2, <3>3
    <2> QED
      BY <2>1, <2>2
  <1>5. PICK g \in Nat : /\ tc_ExceptionStack' = [tc_ExceptionStack EXCEPT ![t] = g]
                         /\ TC!IsTop(Below(c, Len(c)), g)
    <2>1. CASE TC!TryEnds(t)
      <3>1. s.body = "try" /\ tc_ExceptionStack' = [tc_ExceptionStack EXCEPT ![t] = c[f].prev]
        BY <2>1 DEF TC!TryEnds, TC!Inner, TC!ntyExceptionPopStack
      <3>2. Len(c) \in TC!Active(c) /\ \A j \in TC!Active(c) : j <= Len(c)
        BY <1>3, <3>1 DEF TC!Active
      <3>3. f = Len(c)
        BY <1>1, <1>3, <3>2 DEF StackOf, TC!IsTop
      <3>4. s.prev \in Nat /\ TC!IsTop(Below(c, Len(c)), s.prev)
        BY <1>1, <1>3, <3>2 DEF StackOf, Statements
      <3> QED
        BY <3>1, <3>3, <3>4
    <2>2. CASE TC!CatchEnds(t) \/ TC!FinallyEnds(t)
      <3>1. s.body # "try" /\ tc_ExceptionStack' = tc_ExceptionStack
        BY <2>2 DEF TC!CatchEnds, TC!FinallyEnds, TC!Inner
      <3>2. Below(c, Len(c)) = TC!Active(c)
        BY <1>3, <3>1 DEF TC!Active, Below
      <3>3. tc_ExceptionStack' = [tc_ExceptionStack EXCEPT ![t] = f]
        BY <3>1 DEF FramesInv
      <3> QED
        BY <1>1, <3>2, <3>3 DEF StackOf
    <2> QED
      BY <2>1, <2>2
  <1> DEFINE d == [c EXCEPT ![Len(c)] = r]
  <1>6. d \in Seq(Statements) /\ StackOf(d, g) /\ Handles(d)
    BY <1>1, <1>2, <1>4, <1>5, BodyEnds
  <1>7. tc_code' = [tc_code EXCEPT ![t] = d]
    BY <1>4
  <1> HIDE DEF d
  <1> QED
    BY <1>5, <1>6, <1>7, FramesThread

LEMMA FramesStep ==
    ASSUME FramesInv, [TC!Next]_tcVars
    PROVE  FramesInv'
  <1>1. ASSUME NEW t \in tc_Threads, NEW e \in tc_Exceptions, TC!Throw(t, e) PROVE FramesInv'
    <2>1. tc_code[t] \in Seq(Statements)
      BY DEF FramesInv
    <2>2. Aimed(tc_code[t], e, TC!Goal(tc_code[t], e))
      BY <2>1, GoalIsAimed
    <2> QED
      BY <1>1, <2>2, JumpStep DEF TC!Throw
  <1>2. CASE UNCHANGED tcVars
    BY <1>2 DEF tcVars, FramesInv
  <1> QED
    BY <1>1, <1>2, TryStep, EndTryStep, EndsStep DEF TC!Next

\* However Try statements nest, rethrow and run their Finally bodies, the frames
\* on the stack are those of the Try bodies under way, and an exception ends in
\* the innermost Catch for it that was in force when it was thrown
\* (trycatch.c:56-86, 104-126).
THEOREM ExceptionsReachTheirCatch == StandaloneSpec => []FramesOK
  <1>1. StandaloneInit => TC!Init
    BY DEF StandaloneInit
  <1>2. [StandaloneNext]_allVars => [TC!Next]_tcVars
    BY DEF StandaloneNext, allVars, mpVars, tcVars, slVars, rbVars, mhVars, tmVars, rxVars,
           zpVars
  <1>3. FramesInv => FramesOK
    BY DEF FramesInv, FramesOK, TC!FramesOK, TC!StackIsBodies, TC!InnermostHandles, StackOf,
           Below, Handles, HandledAt
  <1>4. StandaloneInit => FramesInv
    BY <1>1, FramesInit
  <1>5. FramesInv /\ [StandaloneNext]_allVars => FramesInv'
    BY <1>2, FramesStep
  <1> QED
    BY <1>3, <1>4, <1>5, PTL DEF StandaloneSpec

-----------------------------------------------------------------------------
(* Timers in a set: src/timer.cpp.                                         *)

\* Time is counted in ticks, and a timeout is not in the past.
TimerConstants == tm_Second \in Nat \ {0} /\ tm_Timeouts \subseteq Nat

Timers == [id : Nat, timeout : Nat]
Known == tm_task_sets \cup tm_deleted \cup TM!Fired

TimerTypes ==
    /\ tm_task_sets \subseteq Timers /\ tm_deleted \subseteq Timers /\ tm_running \subseteq Timers
    /\ tm_fired \in Seq(Timers)
    /\ tm_id \in Nat /\ tm_now \in Nat /\ tm_until \in Nat /\ tm_time \in Int /\ tm_slip \in Nat

\* Ids are given out once, so that the tasks the program knows are as many.
TimerIds ==
    /\ IsFiniteSet(Known) /\ Cardinality(Known) = tm_id
    /\ \A a \in Known : a.id < tm_id
    /\ \A a, b \in Known : a.id = b.id => a = b

\* A task waits, was called or was deleted; the one being called may be all three.
TimerPlaces ==
    /\ tm_task_sets \cap tm_deleted = {}
    /\ (TM!Fired \ tm_running) \cap (tm_task_sets \cup tm_deleted) = {}
    /\ tm_running \subseteq TM!Fired
    /\ tm_pc # "callback" => tm_running = {}

\* What waits comes after all that were called.
TimerAhead == \A f \in TM!Fired : \A x \in tm_task_sets \ tm_running : TM!Less(f, x)

TimerOrder ==
    /\ \A i, j \in DOMAIN tm_fired : i < j => TM!Less(tm_fired[i], tm_fired[j])
    /\ \A f \in TM!Fired : f.timeout <= tm_now

\* What time_to_sleep found at tm_now - tm_slip, and what sleep made of it.
TimerSleeps ==
    /\ tm_pc = "sleep" =>
           tm_time <= 0 \/ \A t \in tm_task_sets : tm_time + tm_now - tm_slip <= t.timeout
    /\ tm_pc = "asleep" =>
           \A t \in tm_task_sets : tm_until - tm_slip <= t.timeout \/ tm_until <= tm_now

TimerInv ==
    /\ TimerTypes /\ TimerOrder /\ TimerSleeps
    /\ tm_pc # "crashed" => TimerIds /\ TimerPlaces /\ TimerAhead

LEMMA FiredTypes == TimerTypes => TM!Fired \subseteq Timers
  BY DEF TimerTypes, TM!Fired

\* The order on timers is total on timers with different ids.
LEMMA LessTotal ==
    ASSUME NEW a \in Timers, NEW b \in Timers
    PROVE  /\ a.id # b.id => TM!Less(a, b) \/ TM!Less(b, a)
           /\ a.timeout <= b.timeout /\ a.id < b.id => TM!Less(a, b)
           /\ ~TM!Less(b, a) => a.timeout <= b.timeout
  BY DEF TM!Less, Timers

LEMMA TimerInit == TM!Init => TimerInv
  <1> SUFFICES ASSUME TM!Init PROVE TimerInv
    OBVIOUS
  <1>1. /\ tm_task_sets = {} /\ tm_id = 0 /\ tm_now = 0 /\ tm_until = 0 /\ tm_running = {}
        /\ tm_time = 0 /\ tm_slip = 0
        /\ tm_pc = "setup" /\ tm_fired = << >> /\ tm_deleted = {}
    BY DEF TM!Init
  <1>2. TM!Fired = {} /\ Known = {}
    BY <1>1 DEF TM!Fired, Known
  <1>3. TimerTypes
    BY <1>1 DEF TimerTypes
  <1>4. TimerIds
    BY <1>1, <1>2, FS_EmptySet DEF TimerIds
  <1>5. TimerOrder /\ TimerSleeps /\ TimerPlaces /\ TimerAhead
    BY <1>1, <1>2 DEF TimerOrder, TimerSleeps, TimerPlaces, TimerAhead
  <1> QED
    BY <1>3, <1>4, <1>5 DEF TimerInv

LEMMA TimerAdds ==
    ASSUME TimerConstants, TimerInv, NEW timeout \in tm_Timeouts, TM!add_task(timeout)
    PROVE  TimerInv'
  <1> DEFINE x == [id |-> tm_id, timeout |-> timeout + tm_now]
  <1>1. /\ tm_pc \in {"setup", "callback"} /\ tm_id' = tm_id + 1
        /\ tm_task_sets' = TM!Inserted(tm_task_sets, x)
        /\ UNCHANGED <<tm_now, tm_time, tm_until, tm_slip, tm_running, tm_pc, tm_fired, tm_deleted>>
    BY DEF TM!add_task, TM!sleepVars
  <1>2. TimerTypes /\ TimerOrder /\ TimerIds /\ TimerPlaces /\ TimerAhead
    BY <1>1 DEF TimerInv
  <1>3. x \in Timers /\ x.id = tm_id /\ x.timeout >= tm_now
    BY <1>2 DEF TimerTypes, Timers, TimerConstants
  <1> HIDE DEF x
  <1>4. Known \subseteq Timers /\ TM!Fired \subseteq Timers /\ tm_task_sets \subseteq Known
        /\ TM!Fired \subseteq Known
    BY <1>2, FiredTypes DEF Known, TimerTypes
  <1>5. x \notin Known
    BY <1>2, <1>3, <1>4 DEF TimerIds, Timers
  <1>6. tm_task_sets' = tm_task_sets \cup {x}
    <2>1. \A y \in tm_task_sets : TM!Less(x, y) \/ TM!Less(y, x)
      <3> TAKE y \in tm_task_sets
      <3>1. y \in Timers /\ y.id < tm_id
        BY <1>2, <1>4 DEF TimerIds
      <3>2. y.id # x.id
        BY <1>3, <3>1 DEF Timers
      <3> QED
        BY <1>3, <3>1, <3>2, LessTotal
    <2> QED
      BY <1>1, <2>1 DEF TM!Inserted
  <1>7. TM!Fired' = TM!Fired /\ Known' = Known \cup {x}
    BY <1>1, <1>6 DEF TM!Fired, Known
  <1>8. TimerTypes'
    BY <1>1, <1>2, <1>3, <1>6 DEF TimerTypes
  <1>9. TimerIds'
    <2>1. IsFiniteSet(Known') /\ Cardinality(Known') = tm_id'
      BY <1>1, <1>2, <1>5, <1>7, FS_AddElement DEF TimerIds
    <2>2. \A a \in Known' : a.id < tm_id'
      BY <1>1, <1>2, <1>3, <1>4, <1>7 DEF TimerIds, TimerTypes, Timers
    <2>3. \A a, b \in Known' : a.id = b.id => a = b
      BY <1>2, <1>3, <1>4, <1>7 DEF TimerIds, TimerTypes, Timers
    <2> QED
      BY <2>1, <2>2, <2>3 DEF TimerIds
  <1>10. TimerOrder'
    BY <1>1, <1>2, <1>7 DEF TimerOrder
  <1>11. TimerPlaces'
    BY <1>1, <1>2, <1>4, <1>5, <1>6, <1>7 DEF TimerPlaces, Known
  <1>12. TimerAhead'
    <2>1. \A f \in TM!Fired : TM!Less(f, x)
      <3> TAKE f \in TM!Fired
      <3>1. f \in Timers /\ f.id < tm_id /\ f.timeout <= tm_now
        BY <1>2, <1>4 DEF TimerIds, TimerOrder
      <3>2. f.timeout <= x.timeout
        BY <1>2, <1>3, <3>1 DEF Timers, TimerTypes
      <3> QED
        BY <1>3, <3>1, <3>2, LessTotal
    <2> QED
      BY <1>1, <1>2, <1>6, <1>7, <2>1 DEF TimerAhead
  <1>13. TimerSleeps'
    BY <1>1 DEF TimerSleeps
  <1> QED
    BY <1>8, <1>9, <1>10, <1>11, <1>12, <1>13 DEF TimerInv

LEMMA TimerDeletes ==
    ASSUME TimerInv, NEW t \in tm_task_sets, TM!del_task(t)
    PROVE  TimerInv'
  <1>1. /\ tm_pc = "callback" /\ tm_task_sets' = tm_task_sets \ {t}
        /\ tm_deleted' = tm_deleted \cup {t}
        /\ UNCHANGED <<tm_id, tm_now, tm_time, tm_until, tm_slip, tm_running, tm_pc, tm_fired>>
    BY DEF TM!del_task, TM!sleepVars
  <1>2. TimerTypes /\ TimerOrder /\ TimerIds /\ TimerPlaces /\ TimerAhead
    BY <1>1 DEF TimerInv
  <1>3. TM!Fired' = TM!Fired /\ Known' = Known
    BY <1>1 DEF TM!Fired, Known
  <1>4. TimerTypes' /\ TimerOrder' /\ TimerIds' /\ TimerAhead' /\ TimerSleeps'
    BY <1>1, <1>2, <1>3 DEF TimerTypes, TimerOrder, TimerIds, TimerAhead, TimerSleeps
  <1>5. TimerPlaces'
    BY <1>1, <1>2, <1>3 DEF TimerPlaces
  <1> QED
    BY <1>4, <1>5 DEF TimerInv

\* Of two tasks that wait, the first is called.
LEMMA TimerCalls ==
    ASSUME TimerInv, TM!check_task
    PROVE  TimerInv'
  <1>1. /\ tm_pc = "check"
        /\ UNCHANGED <<tm_task_sets, tm_id, tm_now, tm_time, tm_until, tm_slip, tm_deleted>>
    BY DEF TM!check_task, TM!sleepVars
  <1>2. /\ TimerTypes /\ TimerOrder /\ TimerIds /\ TimerPlaces /\ TimerAhead
        /\ tm_running = {}
    BY <1>1 DEF TimerInv, TimerPlaces
  <1>3. CASE tm_pc' = "loop" /\ UNCHANGED <<tm_running, tm_fired>>
    <2>1. TM!Fired' = TM!Fired /\ Known' = Known
      BY <1>1, <1>3 DEF TM!Fired, Known
    <2> QED
      BY <1>1, <1>2, <1>3, <2>1
      DEF TimerInv, TimerTypes, TimerOrder, TimerIds, TimerPlaces, TimerAhead, TimerSleeps
  <1>4. ASSUME NEW t \in tm_task_sets, TM!IsBegin(t), t.timeout <= tm_now, tm_running' = {t},
               tm_fired' = Append(tm_fired, t), tm_pc' = "callback"
        PROVE  TimerInv'
    <2>1. t \in Timers /\ TM!Fired \subseteq Timers /\ t \in Known
      BY <1>2, FiredTypes DEF TimerTypes, Known
    <2> DEFINE n == Len(tm_fired)
    <2>2. /\ n \in Nat /\ tm_fired' \in Seq(Timers) /\ Len(tm_fired') = n + 1
          /\ DOMAIN tm_fired = 1 .. n /\ DOMAIN tm_fired' = 1 .. n + 1
          /\ tm_fired'[n + 1] = t /\ \A i \in 1 .. n : tm_fired'[i] = tm_fired[i]
      BY <1>2, <1>4, <2>1 DEF TimerTypes
    <2> HIDE DEF n
    <2>3. TM!Fired' = TM!Fired \cup {t}
      <3>1. \A y : y \in TM!Fired' <=> \E i \in 1 .. n + 1 : y = tm_fired'[i]
        BY <2>2 DEF TM!Fired
      <3>2. \A y : y \in TM!Fired <=> \E i \in 1 .. n : y = tm_fired[i]
        BY <2>2 DEF TM!Fired
      <3>3. \A i \in 1 .. n + 1 : i \in 1 .. n \/ i = n + 1
        BY <2>2
      <3>4. n + 1 \in 1 .. n + 1 /\ \A i \in 1 .. n : i \in 1 .. n + 1
        BY <2>2
      <3> QED
        BY <2>2, <3>1, <3>2, <3>3, <3>4
    <2>4. Known' = Known
      BY <1>1, <2>1, <2>3 DEF Known
    <2>5. TimerTypes'
      BY <1>1, <1>2, <1>4, <2>1, <2>2 DEF TimerTypes
    <2>6. TimerIds'
      BY <1>1, <1>2, <2>4 DEF TimerIds
    <2>7. TimerPlaces'
      BY <1>1, <1>2, <1>4, <2>3 DEF TimerPlaces
    <2>8. \A f \in TM!Fired : TM!Less(f, t)
      BY <1>2 DEF TimerAhead
    <2>9. TimerAhead'
      <3>1. ASSUME NEW x \in tm_task_sets, x # t PROVE TM!Less(t, x)
        <4>1. x \in Timers /\ x.id # t.id
          BY <1>2, <2>1, <3>1 DEF TimerTypes, TimerIds, Known
        <4>2. ~TM!Less(x, t)
          BY <1>4 DEF TM!IsBegin
        <4> QED
          BY <2>1, <4>1, <4>2, LessTotal
      <3> QED
        BY <1>1, <1>2, <1>4, <2>3, <3>1 DEF TimerAhead
    <2>10. TimerOrder'
      <3>1. ASSUME NEW i \in 1 .. n + 1, NEW j \in 1 .. n + 1, i < j
            PROVE  TM!Less(tm_fired'[i], tm_fired'[j])
        <4>1. i \in 1 .. n
          BY <2>2, <3>1
        <4>2. CASE j = n + 1
          <5>1. tm_fired[i] \in TM!Fired
            BY <2>2, <4>1 DEF TM!Fired
          <5> QED
            BY <2>2, <2>8, <4>1, <4>2, <5>1
        <4>3. CASE j # n + 1
          <5>1. j \in 1 .. n
            BY <2>2, <4>3
          <5> QED
            BY <1>2, <2>2, <3>1, <4>1, <5>1 DEF TimerOrder
        <4> QED
          BY <4>2, <4>3
      <3>2. \A f \in TM!Fired' : f.timeout <= tm_now'
        BY <1>1, <1>2, <1>4, <2>3 DEF TimerOrder
      <3> QED
        BY <2>2, <3>1, <3>2 DEF TimerOrder
    <2> QED
      BY <1>4, <2>5, <2>6, <2>7, <2>9, <2>10 DEF TimerInv, TimerSleeps
  <1> QED
    BY <1>3, <1>4 DEF TM!check_task

LEMMA TimerReturns ==
    ASSUME TimerInv, TM!Returns
    PROVE  TimerInv'
  <1>1. /\ tm_pc = "callback" /\ tm_task_sets' = tm_task_sets \ tm_running /\ tm_running' = {}
        /\ tm_pc' = IF tm_running \subseteq tm_task_sets THEN "check" ELSE "crashed"
        /\ UNCHANGED <<tm_id, tm_now, tm_time, tm_until, tm_slip, tm_fired, tm_deleted>>
    BY DEF TM!Returns, TM!sleepVars
  <1>2. TimerTypes /\ TimerOrder /\ TimerIds /\ TimerPlaces /\ TimerAhead
    BY <1>1 DEF TimerInv
  <1>3. TM!Fired' = TM!Fired
    BY <1>1 DEF TM!Fired
  <1>4. Known' = Known
    BY <1>1, <1>2, <1>3 DEF Known, TimerPlaces
  <1>5. TimerTypes' /\ TimerOrder' /\ TimerIds' /\ TimerSleeps'
    BY <1>1, <1>2, <1>3, <1>4 DEF TimerTypes, TimerOrder, TimerIds, TimerSleeps
  <1>6. tm_running \subseteq tm_task_sets => TimerPlaces'
    BY <1>1, <1>2, <1>3 DEF TimerPlaces
  <1>7. TimerAhead'
    BY <1>1, <1>2, <1>3 DEF TimerAhead
  <1> QED
    BY <1>1, <1>5, <1>6, <1>7 DEF TimerInv

\* time_to_sleep takes its time from the first of the tasks.
LEMMA TimerToSleep ==
    ASSUME TimerInv, TM!time_to_sleep
    PROVE  TimerInv'
  <1>1. /\ tm_pc = "loop"
        /\ UNCHANGED <<tm_task_sets, tm_id, tm_now, tm_until, tm_running, tm_fired, tm_deleted>>
    BY DEF TM!time_to_sleep
  <1>2. TimerTypes /\ TimerOrder /\ TimerIds /\ TimerPlaces /\ TimerAhead
    BY <1>1 DEF TimerInv
  <1>3. TM!Fired' = TM!Fired /\ Known' = Known
    BY <1>1 DEF TM!Fired, Known
  <1>4. TimerOrder' /\ TimerIds' /\ TimerAhead'
    BY <1>1, <1>2, <1>3 DEF TimerOrder, TimerIds, TimerAhead
  <1>5. TimerPlaces'
    BY <1>1, <1>2, <1>3 DEF TimerPlaces, TM!time_to_sleep
  <1>6. CASE tm_pc' = "crashed" /\ UNCHANGED <<tm_time, tm_slip>>
    BY <1>1, <1>2, <1>4, <1>5, <1>6 DEF TimerInv, TimerTypes, TimerSleeps
  <1>7. ASSUME NEW t \in tm_task_sets, TM!IsBegin(t), tm_slip' = 0, tm_pc' = "sleep",
               tm_time' = IF t.timeout < tm_now THEN -1 ELSE t.timeout - tm_now
        PROVE  TimerInv'
    <2>1. t \in Timers /\ t.timeout \in Nat /\ tm_now \in Nat
      BY <1>2 DEF TimerTypes, Timers
    <2>2. tm_time' \in Int /\ (tm_time' <= 0 \/ tm_time' + tm_now = t.timeout)
      BY <1>7, <2>1
    <2>3. \A x \in tm_task_sets : x.timeout \in Nat /\ t.timeout <= x.timeout
      <3> TAKE x \in tm_task_sets
      <3>1. x \in Timers /\ ~TM!Less(x, t)
        BY <1>2, <1>7 DEF TimerTypes, TM!IsBegin
      <3>2. x.timeout \in Nat
        BY <3>1 DEF Timers
      <3> QED
        BY <2>1, <3>1, <3>2, LessTotal
    <2>4. tm_time' <= 0 \/ \A x \in tm_task_sets : tm_time' + tm_now - 0 <= x.timeout
      BY <2>1, <2>2, <2>3
    <2>5. TimerSleeps'
      BY <1>1, <1>7, <2>4 DEF TimerSleeps
    <2>6. TimerTypes'
      BY <1>1, <1>2, <1>7, <2>2 DEF TimerTypes
    <2> QED
      BY <1>4, <1>5, <2>5, <2>6 DEF TimerInv
  <1> QED
    BY <1>6, <1>7 DEF TM!time_to_sleep

\* sleep takes whole seconds, no more than time_to_sleep found, but from now on.
LEMMA TimerFallsAsleep ==
    ASSUME TimerConstants, TimerInv, TM!Sleeps
    PROVE  TimerInv'
  <1>1. /\ tm_pc = "sleep" /\ tm_pc' = "asleep"
        /\ tm_until' = IF tm_time < 0 THEN tm_now ELSE tm_now + (tm_time \div tm_Second) * tm_Second
        /\ UNCHANGED <<tm_task_sets, tm_id, tm_now, tm_time, tm_slip, tm_running, tm_fired, tm_deleted>>
    BY DEF TM!Sleeps
  <1>2. /\ TimerTypes /\ TimerOrder /\ TimerIds /\ TimerPlaces /\ TimerAhead
        /\ tm_time <= 0 \/ \A t \in tm_task_sets : tm_time + tm_now - tm_slip <= t.timeout
    BY <1>1 DEF TimerInv, TimerSleeps
  <1>3. TM!Fired' = TM!Fired /\ Known' = Known
    BY <1>1 DEF TM!Fired, Known
  <1>4. TimerOrder' /\ TimerIds' /\ TimerAhead' /\ TimerPlaces'
    BY <1>1, <1>2, <1>3 DEF TimerOrder, TimerIds, TimerAhead, TimerPlaces
  <1>5. tm_time \in Int /\ tm_now \in Nat /\ tm_slip \in Nat /\ tm_Second \in Nat \ {0}
    BY <1>2 DEF TimerTypes, TimerConstants
  <1>6. /\ tm_until' \in Nat
        /\ tm_until' <= tm_now \/ (tm_time > 0 /\ tm_until' <= tm_now + tm_time)
    <2>1. CASE tm_time < 0
      BY <1>1, <1>5, <2>1
    <2>2. CASE ~(tm_time < 0)
      <3> DEFINE b == (tm_time \div tm_Second) * tm_Second
      <3>1. tm_time \in Nat
        BY <1>5, <2>2
      <3>2. b \in Nat /\ b <= tm_time
        BY <1>5, <3>1, WholeSeconds
      <3>3. tm_until' = tm_now + b
        BY <1>1, <2>2
      <3> HIDE DEF b
      <3> QED
        BY <1>5, <3>1, <3>2, <3>3
    <2> QED
      BY <2>1, <2>2
  <1>7. TimerTypes'
    BY <1>1, <1>2, <1>6 DEF TimerTypes
  <1>8. ASSUME NEW x \in tm_task_sets
        PROVE  tm_until' - tm_slip <= x.timeout \/ tm_until' <= tm_now
    <2>1. x.timeout \in Nat
      BY <1>2 DEF TimerTypes, Timers
    <2>2. tm_time <= 0 \/ tm_time + tm_now - tm_slip <= x.timeout
      BY <1>2
    <2> QED
      BY <1>5, <1>6, <2>1, <2>2
  <1>9. TimerSleeps'
    BY <1>1, <1>8 DEF TimerSleeps
  <1> QED
    BY <1>4, <1>7, <1>9 DEF TimerInv

LEMMA TimerStep ==
    ASSUME TimerConstants, TimerInv, [TM!Next]_tmVars
    PROVE  TimerInv'
  <1>1. CASE TM!SetUp \/ TM!Wakes \/ UNCHANGED tmVars
    <2>1. /\ UNCHANGED <<tm_task_sets, tm_id, tm_now, tm_time, tm_until, tm_slip, tm_running, tm_fired,
                        tm_deleted>>
          /\ \/ tm_pc' \in {"loop", "check"} /\ tm_pc \in {"setup", "asleep"}
             \/ tm_pc' = tm_pc
      BY <1>1 DEF TM!SetUp, TM!Wakes, TM!sleepVars, tmVars
    <2>2. TM!Fired' = TM!Fired /\ Known' = Known
      BY <2>1 DEF TM!Fired, Known
    <2>3. TimerTypes' /\ TimerOrder'
      BY <2>1, <2>2 DEF TimerInv, TimerTypes, TimerOrder
    <2>4. TimerSleeps'
      BY <2>1 DEF TimerInv, TimerSleeps
    <2>5. tm_pc' # "crashed" => TimerIds' /\ TimerPlaces' /\ TimerAhead'
      BY <2>1, <2>2 DEF TimerInv, TimerIds, TimerPlaces, TimerAhead
    <2> QED
      BY <2>3, <2>4, <2>5 DEF TimerInv
  <1>2. CASE TM!Tick
    <2>1. /\ UNCHANGED <<tm_task_sets, tm_id, tm_time, tm_until, tm_running, tm_pc, tm_fired, tm_deleted>>
          /\ tm_now' = tm_now + 1 /\ tm_pc # "crashed"
          /\ tm_slip' = IF tm_pc = "sleep" THEN tm_slip + 1 ELSE tm_slip
      BY <1>2 DEF TM!Tick
    <2>2. TM!Fired' = TM!Fired /\ Known' = Known
      BY <2>1 DEF TM!Fired, Known
    <2>3. TimerTypes'
      BY <2>1 DEF TimerInv, TimerTypes
    <2>4. TimerOrder'
      <3>1. \A f \in TM!Fired : f.timeout \in Nat /\ f.timeout <= tm_now /\ tm_now \in Nat
        BY FiredTypes DEF TimerInv, TimerOrder, Timers, TimerTypes
      <3>2. \A f \in TM!Fired : f.timeout <= tm_now + 1
        BY <3>1
      <3> QED
        BY <2>1, <2>2, <3>2 DEF TimerInv, TimerOrder
    <2>5. TimerSleeps'
      <3>1. \A t \in tm_task_sets : t.timeout \in Nat
        BY DEF TimerInv, TimerTypes, Timers
      <3>2. /\ tm_until \in Nat /\ tm_now \in Nat /\ tm_time \in Int /\ tm_slip \in Nat
            /\ TimerSleeps
        BY DEF TimerInv, TimerTypes
      <3>3. CASE tm_pc = "sleep"
        <4>1. tm_time + (tm_now + 1) - (tm_slip + 1) = tm_time + tm_now - tm_slip
          BY <3>2
        <4> QED
          BY <2>1, <3>2, <3>3, <4>1 DEF TimerSleeps
      <3>4. CASE tm_pc # "sleep"
        <4>1. tm_until <= tm_now => tm_until <= tm_now + 1
          BY <3>2
        <4> QED
          BY <2>1, <3>2, <3>4, <4>1 DEF TimerSleeps
      <3> QED
        BY <3>3, <3>4
    <2>6. TimerIds' /\ TimerPlaces' /\ TimerAhead'
      BY <2>1, <2>2 DEF TimerInv, TimerIds, TimerPlaces, TimerAhead
    <2> QED
      BY <2>3, <2>4, <2>5, <2>6 DEF TimerInv
  <1> QED
    BY <1>1, <1>2, TimerAdds, TimerDeletes, TimerCalls, TimerReturns, TimerToSleep,
       TimerFallsAsleep DEF TM!Next

\* The standard operator under the name that the instance gives it.
LEMMA SameCardinality == ASSUME NEW S PROVE TM!Cardinality(S) = Cardinality(S)
  BY DEF TM!Cardinality, Cardinality

\* Whatever the callbacks add and delete and however late they run: timers are
\* called in the order of their timeouts, then of their ids, each once, none
\* before its time and none that was deleted; none is forgotten, and sleep passes
\* the first by no more than the clock moved between reading it and falling asleep
\* (timer.cpp:46-81, 100-105).
THEOREM TimersInOrder == TimerConstants /\ StandaloneSpec => []TimerOK
  <1> SUFFICES ASSUME TimerConstants PROVE StandaloneSpec => []TimerOK
    OBVIOUS
  <1>1. StandaloneInit => TimerInv
    BY TimerInit DEF StandaloneInit
  <1>2. [StandaloneNext]_allVars => [TM!Next]_tmVars
    BY DEF StandaloneNext, allVars, mpVars, tcVars, slVars, rbVars, mhVars, tmVars, rxVars,
           zpVars
  <1>3. TimerInv /\ [StandaloneNext]_allVars => TimerInv'
    BY <1>2, TimerStep
  <1>4. TimerInv => TimerOK
    <2> SUFFICES ASSUME TimerInv PROVE TM!TimerOK
      BY DEF TimerOK
    <2>1. \A i, j \in DOMAIN tm_fired :
             i < j => \/ tm_fired[i].timeout < tm_fired[j].timeout
                      \/ tm_fired[i].timeout = tm_fired[j].timeout /\ tm_fired[i].id < tm_fired[j].id
      BY DEF TimerInv, TimerOrder, TM!Less
    <2>2. \A t \in TM!Fired : t.timeout <= tm_now
      BY DEF TimerInv, TimerOrder
    <2>3. tm_pc # "crashed" => TM!Cardinality(tm_task_sets \cup tm_deleted \cup TM!Fired) = tm_id
      BY SameCardinality DEF TimerInv, TimerIds, Known
    <2>4. tm_pc # "crashed" => (TM!Fired \ tm_running) \cap (tm_task_sets \cup tm_deleted) = {}
      BY DEF TimerInv, TimerPlaces
    <2>5. tm_pc = "asleep" =>
             \A t \in tm_task_sets : tm_until - tm_slip <= t.timeout \/ tm_until <= tm_now
      BY DEF TimerInv, TimerSleeps
    <2> QED
      BY <2>1, <2>2, <2>3, <2>4, <2>5 DEF TM!TimerOK
  <1> QED
    BY <1>1, <1>3, <1>4, PTL DEF StandaloneSpec

-----------------------------------------------------------------------------
(* The ring buffer: util/ringbuf.c.                                        *)

\* ringbuff_create takes any size but zero.
RingConstants == rb_Size \in Nat \ {0}

\* tail is where the unread bytes end, counted round the buffer; at the start
\* it is Size.
RingEnds(x) == {x, x - rb_Size, x + rb_Size}
RingTail(n) == rb_tail \in RingEnds(rb_head + n)

RingHolds ==
    /\ rb_head \in 0 .. rb_Size - 1 /\ rb_tail \in 0 .. rb_Size
    /\ rb_unread \in Seq(rb_Bytes) /\ Len(rb_unread) < rb_Size
    /\ rb_head + Len(rb_unread) <= rb_Size
    /\ RingTail(Len(rb_unread))
    /\ \A i \in 1 .. Len(rb_unread) : rb_buff[rb_head + i - 1] = rb_unread[i]

RingInv == rb_sound \in BOOLEAN /\ (rb_sound /\ rb_ran = "up" => RingHolds)

LEMMA Quotient ==
    ASSUME NEW W \in Nat \ {0}, NEW a \in Nat
    PROVE  a % W \in 0 .. W - 1 /\ a \div W \in Nat /\ a = W * (a \div W) + (a % W)
  <1>1. a % W \in 0 .. W - 1
    OBVIOUS
  <1>2. a \div W \in Nat /\ a % W \in Nat /\ a = W * (a \div W) + (a % W)
    OBVIOUS
  <1> QED
    BY <1>1, <1>2

\* A whole number of turns does not change the remainder.
LEMMA Turns ==
    ASSUME NEW W \in Nat \ {0}, NEW n \in Nat, n < W
    PROVE  n % W = n /\ (n + W) % W = n /\ (n + W + W) % W = n /\ W % W = 0
  <1>1. \A a \in Nat : a % W \in 0 .. W - 1 /\ a \div W \in Nat /\ a = W * (a \div W) + (a % W)
    BY Quotient
  <1>2. \A q, p \in Nat : \A r \in 0 .. W - 1 : W * q + r = W * p + n => r = n
    <2> TAKE q, p \in Nat
    <2> TAKE r \in 0 .. W - 1
    <2> HAVE W * q + r = W * p + n
    <2>1. q < p => W * (p - q) >= W
      OBVIOUS
    <2>2. p < q => W * (q - p) >= W
      OBVIOUS
    <2>3. W * (p - q) = r - n /\ W * (q - p) = n - r
      OBVIOUS
    <2> QED
      BY <2>1, <2>2, <2>3
  <1>3. n % W = n
    BY SmallMod
  <1>4. (n + W) % W = n
    <2> DEFINE a == n + W
               q == a \div W
               r == a % W
    <2>1. a \in Nat /\ q \in Nat /\ r \in 0 .. W - 1 /\ a = W * q + r
      BY <1>1
    <2>2. a = W * 1 + n
      OBVIOUS
    <2> HIDE DEF a, q, r
    <2> QED
      BY <1>2, <2>1, <2>2 DEF a, r
  <1>5. (n + W + W) % W = n
    <2> DEFINE a == n + W + W
               q == a \div W
               r == a % W
    <2>1. a \in Nat /\ q \in Nat /\ r \in 0 .. W - 1 /\ a = W * q + r
      BY <1>1
    <2>2. a = W * 2 + n
      OBVIOUS
    <2> HIDE DEF a, q, r
    <2> QED
      BY <1>2, <2>1, <2>2 DEF a, r
  <1>6. W % W = 0
    OBVIOUS
  <1> QED
    BY <1>3, <1>4, <1>5, <1>6

\* get_use_size counts the unread bytes.
LEMMA RingUse ==
    ASSUME RingConstants, RingHolds
    PROVE  RB!get_use_size = Len(rb_unread)
  <1> DEFINE n == Len(rb_unread)
  <1>1. n \in Nat /\ n < rb_Size /\ rb_head \in Nat /\ rb_Size \in Nat \ {0}
    BY DEF RingHolds, RingConstants
  <1>0. RingTail(n) /\ rb_tail \in Nat
    BY DEF RingHolds
  <1> HIDE DEF n
  <1>2. rb_Size + rb_tail - rb_head \in {n, n + rb_Size, n + rb_Size + rb_Size}
    BY <1>0, <1>1 DEF RingTail, RingEnds
  <1>3. (rb_Size + rb_tail - rb_head) % rb_Size = n
    BY <1>1, <1>2, Turns
  <1> QED
    BY <1>3 DEF RB!get_use_size, n

LEMMA RingInit == RingConstants /\ RB!Init => RingInv
  <1> SUFFICES ASSUME RingConstants, RB!Init PROVE RingHolds /\ rb_sound \in BOOLEAN
    BY DEF RingInv
  <1> QED
    BY DEF RingConstants, RB!Init, RingHolds, RingTail, RingEnds

LEMMA RingWrites ==
    ASSUME RingConstants, RingInv, NEW data \in RB!Data, RB!ringbuff_write(data)
    PROVE  RingInv'
  <1>1. CASE RB!Overrun(Len(data))
    BY <1>1 DEF RB!Overrun, RingInv
  <1>2. CASE ~ RB!Overrun(Len(data))
    <2>1. /\ rb_ran = "up" /\ rb_head + Len(data) <= rb_Size
          /\ rb_buff' = [i \in 0 .. rb_Size - 1 |->
                             IF i \in rb_head .. rb_head + Len(data) - 1
                             THEN data[i - rb_head + 1] ELSE rb_buff[i]]
          /\ rb_tail' = (rb_tail + Len(data)) % rb_Size
          /\ rb_sound' = (rb_sound /\ rb_unread = << >> /\ Len(data) < rb_Size)
          /\ rb_unread' = (IF rb_sound' THEN data ELSE << >>)
          /\ rb_head' = rb_head /\ rb_ran' = rb_ran
      BY <1>2 DEF RB!ringbuff_write
    <2>2. rb_sound' \in BOOLEAN
      BY <2>1
    <2>3. ASSUME rb_sound' PROVE RingHolds'
      <3>1. rb_sound /\ rb_unread = << >> /\ Len(data) < rb_Size /\ rb_unread' = data
        BY <2>1, <2>3
      <3>2. RingHolds
        BY <2>1, <3>1 DEF RingInv
      <3>3. data \in Seq(rb_Bytes) /\ Len(data) \in Nat \ {0}
        BY DEF RB!Data, RingConstants
      <3> DEFINE L == Len(data)
      <3>4. /\ rb_head \in Nat /\ rb_Size \in Nat \ {0} /\ rb_head < rb_Size
            /\ L \in Nat /\ L < rb_Size /\ rb_head + L <= rb_Size
            /\ rb_tail \in {rb_head, rb_head - rb_Size, rb_head + rb_Size} /\ rb_tail \in 0 .. rb_Size
        BY <2>1, <3>1, <3>2, <3>3 DEF RingHolds, RingTail, RingEnds, RingConstants
      <3>5. \A i \in 1 .. L : rb_buff'[rb_head' + i - 1] = data[i]
        <4> TAKE i \in 1 .. L
        <4> DEFINE k == rb_head + i - 1
        <4>1. k \in 0 .. rb_Size - 1 /\ k \in rb_head .. rb_head + L - 1 /\ k - rb_head + 1 = i
          BY <3>4
        <4> QED
          BY <2>1, <4>1
      <3> HIDE DEF L
      <3>6. rb_tail' \in 0 .. rb_Size /\ rb_tail' \in {rb_head + L, rb_head + L - rb_Size}
        <4>1. rb_tail' = (rb_tail + L) % rb_Size
          BY <2>1 DEF L
        <4>2. rb_tail + L \in {rb_head + L, rb_head + L + rb_Size}
          BY <3>4
        <4>3. CASE rb_head + L < rb_Size
          BY <3>4, <4>1, <4>2, <4>3, Turns
        <4>4. CASE rb_head + L = rb_Size
          <5>1. rb_tail + L = rb_Size
            BY <3>4, <4>4
          <5> QED
            BY <3>4, <4>1, <4>4, <5>1, Turns
        <4> QED
          BY <3>4, <4>3, <4>4
      <3>7. RingTail(Len(rb_unread))'
        <4>1. rb_tail' \in RingEnds(rb_head + L)
          BY <3>4, <3>6 DEF RingEnds
        <4>2. rb_head' = rb_head /\ Len(rb_unread') = L
          BY <2>1, <3>1 DEF L
        <4> QED
          BY <4>1, <4>2 DEF RingTail
      <3> QED
        BY <2>1, <3>1, <3>3, <3>4, <3>5, <3>6, <3>7 DEF RingHolds, L
    <2> QED
      BY <2>2, <2>3 DEF RingInv
  <1> QED
    BY <1>1, <1>2

LEMMA RingReads ==
    ASSUME RingConstants, RingInv, rb_ran = "up",
           NEW r_sz, RingHolds => r_sz \in Nat, RB!Reads(r_sz)
    PROVE  RingInv'
  <1>1. CASE RB!Overrun(r_sz)
    BY <1>1 DEF RB!Overrun, RingInv
  <1>2. CASE ~ RB!Overrun(r_sz)
    <2>1. /\ r_sz <= RB!get_use_size /\ rb_head + r_sz <= rb_Size
          /\ rb_head' = (rb_head + r_sz) % rb_Size
          /\ rb_unread' = (IF rb_sound THEN SubSeq(rb_unread, r_sz + 1, Len(rb_unread)) ELSE << >>)
          /\ rb_buff' = rb_buff /\ rb_tail' = rb_tail /\ rb_sound' = rb_sound /\ rb_ran' = rb_ran
      BY <1>2 DEF RB!Reads
    <2>2. ASSUME rb_sound PROVE RingHolds'
      <3>1. RingHolds
        BY <2>2 DEF RingInv
      <3> DEFINE n == Len(rb_unread)
      <3>2. r_sz \in Nat /\ r_sz <= n
        BY <2>1, <3>1, RingUse
      <3>3. /\ rb_unread \in Seq(rb_Bytes) /\ n \in Nat /\ n < rb_Size /\ rb_Size \in Nat \ {0}
            /\ rb_head \in Nat /\ rb_head < rb_Size /\ rb_head + n <= rb_Size
        BY <3>1 DEF RingHolds, RingConstants
      <3>4. /\ rb_unread' = SubSeq(rb_unread, r_sz + 1, n)
            /\ rb_unread' \in Seq(rb_Bytes) /\ Len(rb_unread') = n - r_sz
            /\ \A i \in 1 .. n - r_sz : rb_unread'[i] = rb_unread[i + r_sz]
        BY <2>1, <2>2, <3>2, <3>3
      <3>5. \A i \in 1 .. n : rb_buff[rb_head + i - 1] = rb_unread[i]
        BY <3>1 DEF RingHolds
      <3>6. RingTail(n) /\ rb_tail \in 0 .. rb_Size
        BY <3>1 DEF RingHolds
      <3> HIDE DEF n
      <3>7. CASE rb_head + r_sz < rb_Size
        <4>1. rb_head' = rb_head + r_sz
          <5>1. rb_head + r_sz \in Nat
            BY <3>2, <3>3
          <5> QED
            BY <2>1, <3>3, <3>7, <5>1, SmallMod
        <4>2. RingTail(Len(rb_unread))'
          <5>1. rb_head' + (n - r_sz) = rb_head + n
            BY <3>2, <3>3, <4>1
          <5> QED
            <6>1. rb_head' + Len(rb_unread') = rb_head + n
              BY <3>4, <5>1
            <6>2. rb_tail' \in RingEnds(rb_head + n)
              BY <2>1, <3>6 DEF RingTail
            <6>3. rb_tail' \in RingEnds(rb_head' + Len(rb_unread'))
              BY <6>1, <6>2
            <6> QED
              BY <6>3 DEF RingTail
        <4>3. \A i \in 1 .. n - r_sz : rb_buff'[rb_head' + i - 1] = rb_unread'[i]
          <5> TAKE i \in 1 .. n - r_sz
          <5>1. i + r_sz \in 1 .. n /\ rb_head' + i - 1 = rb_head + (i + r_sz) - 1
            BY <3>2, <3>3, <4>1
          <5> QED
            BY <2>1, <3>4, <3>5, <5>1
        <4>4. rb_head' \in 0 .. rb_Size - 1 /\ rb_tail' \in 0 .. rb_Size
          BY <2>1, <3>2, <3>3, <3>6, <3>7, <4>1
        <4>5. Len(rb_unread') < rb_Size /\ rb_head' + Len(rb_unread') <= rb_Size
          BY <3>2, <3>3, <3>4, <4>1
        <4>6. \A i \in 1 .. Len(rb_unread') : rb_buff'[rb_head' + i - 1] = rb_unread'[i]
          BY <3>4, <4>3
        <4> QED
          BY <3>4, <4>2, <4>4, <4>5, <4>6 DEF RingHolds
      <3>8. CASE rb_head + r_sz = rb_Size
        <4>1. rb_head' = 0 /\ r_sz = n
          BY <2>1, <3>2, <3>3, <3>8, Turns
        <4>2. RingTail(Len(rb_unread))'
          BY <2>1, <3>2, <3>3, <3>4, <3>6, <3>8, <4>1 DEF RingTail, RingEnds
        <4> QED
          BY <2>1, <3>3, <3>4, <3>6, <4>1, <4>2 DEF RingHolds
      <3> QED
        BY <2>1, <3>2, <3>3, <3>7, <3>8
    <2> QED
      BY <2>1, <2>2 DEF RingInv
  <1> QED
    BY <1>1, <1>2

LEMMA RingClears == ASSUME RingConstants, RingInv, RB!ringbuff_clear PROVE RingInv'
  <1>1. /\ rb_tail' = rb_head /\ rb_unread' = << >> /\ rb_buff' = rb_buff
        /\ rb_head' = rb_head /\ rb_sound' = rb_sound /\ rb_ran' = rb_ran
    BY DEF RB!ringbuff_clear
  <1>2. RingHolds => RingHolds'
    BY <1>1 DEF RingHolds, RingTail, RingEnds, RingConstants
  <1> QED
    BY <1>1, <1>2 DEF RingInv

LEMMA RingLineType ==
    ASSUME RingConstants, RingHolds, NEW buf_sz \in Nat
    PROVE  RB!LineSize(buf_sz) \in Nat
  <1> DEFINE n == RB!get_use_size
             end == IF buf_sz < n THEN buf_sz ELSE n
             breaks == {pos \in 0 .. end - 1 : rb_head + pos < rb_Size /\ rb_buff[rb_head + pos] = rb_NewLine}
             m == CHOOSE pos \in breaks : \A q \in breaks : pos <= q
  <1>1. RB!LineSize(buf_sz) = 1 + (IF breaks = {} THEN end ELSE m)
    BY DEF RB!LineSize
  <1>2. n \in Nat
    BY RingUse DEF RingHolds
  <1> HIDE DEF n
  <1>3. end \in Nat /\ breaks \in SUBSET Nat
    BY <1>2
  <1>4. breaks # {} => m \in breaks
    BY <1>3, LeastExists
  <1> HIDE DEF m, end, breaks
  <1>5. breaks # {} => m \in Nat
    BY <1>3, <1>4
  <1> QED
    BY <1>1, <1>3, <1>5

\* The least place of a newline, if there is one.
LEMMA RingLine ==
    ASSUME RingConstants, RingHolds, NEW buf_sz \in Nat,
           RB!LineSize(buf_sz) <= buf_sz, RB!LineSize(buf_sz) <= RB!get_use_size
    PROVE  /\ rb_unread[RB!LineSize(buf_sz)] = rb_NewLine
           /\ \A i \in 1 .. RB!LineSize(buf_sz) - 1 : rb_unread[i] # rb_NewLine
  <1> DEFINE n == RB!get_use_size
             end == IF buf_sz < n THEN buf_sz ELSE n
             breaks == {pos \in 0 .. end - 1 : rb_head + pos < rb_Size /\ rb_buff[rb_head + pos] = rb_NewLine}
             m == CHOOSE pos \in breaks : \A q \in breaks : pos <= q
  <1>1. RB!LineSize(buf_sz) = 1 + (IF breaks = {} THEN end ELSE m)
    BY DEF RB!LineSize
  <1>2. n = Len(rb_unread)
    BY RingUse
  <1>3. /\ n \in Nat /\ rb_head \in Nat /\ rb_Size \in Nat /\ rb_head + n <= rb_Size
        /\ \A i \in 1 .. n : rb_buff[rb_head + i - 1] = rb_unread[i]
    BY <1>2 DEF RingHolds, RingConstants
  <1> HIDE DEF n
  <1>4. end \in Nat /\ end <= n /\ end <= buf_sz
    BY <1>3
  <1>5. breaks # {}
    <2>1. ~(1 + end <= buf_sz /\ 1 + end <= n)
      BY <1>3
    <2> QED
      BY <1>1, <2>1 DEF n
  <1>6. breaks \in SUBSET Nat
    BY <1>4
  <1>7. m \in breaks /\ \A j \in breaks : m <= j
    <2>1. \E x \in breaks : \A j \in breaks : x <= j
      BY <1>5, <1>6, LeastExists
    <2> QED
      BY <2>1
  <1>8. m \in 0 .. end - 1 /\ rb_buff[rb_head + m] = rb_NewLine
    BY <1>7
  <1>9. RB!LineSize(buf_sz) = m + 1
    BY <1>1, <1>5, <1>8
  <1>10. \A i \in 0 .. m - 1 : rb_buff[rb_head + i] # rb_NewLine
    <2> TAKE i \in 0 .. m - 1
    <2>1. i \notin breaks
      BY <1>6, <1>7, <1>8
    <2>2. i \in 0 .. end - 1 /\ rb_head + i < rb_Size
      BY <1>3, <1>4, <1>8
    <2> QED
      BY <2>1, <2>2
  <1> HIDE DEF m, end, breaks
  <1>11. \A i \in 0 .. n - 1 : rb_buff[rb_head + i] = rb_unread[i + 1]
    <2> TAKE i \in 0 .. n - 1
    <2>1. i + 1 \in 1 .. n /\ rb_head + (i + 1) - 1 = rb_head + i
      BY <1>3
    <2> QED
      BY <1>3, <2>1
  <1>12. rb_unread[m + 1] = rb_NewLine
    BY <1>3, <1>4, <1>8, <1>11
  <1>13. \A i \in 1 .. m : rb_unread[i] # rb_NewLine
    <2> TAKE i \in 1 .. m
    <2>1. i - 1 \in 0 .. m - 1 /\ i - 1 \in 0 .. n - 1 /\ i - 1 + 1 = i
      BY <1>3, <1>4, <1>8
    <2> QED
      BY <1>10, <1>11, <2>1
  <1>14. RB!LineSize(buf_sz) - 1 = m
    BY <1>8, <1>9 DEF end
  <1> QED
    BY <1>9, <1>12, <1>13, <1>14

\* Used for one message at a time inside the buffer, it gives back every byte
\* in order, whatever the sizes of the reads, and a line is the first of the
\* unread ones (ringbuf.c:48-101).
THEOREM MessagesAreKept == RingConstants /\ StandaloneSpec => []RingOK
  <1> SUFFICES ASSUME RingConstants PROVE StandaloneSpec => []RingOK
    OBVIOUS
  <1>1. StandaloneInit => RingInv
    BY RingInit DEF StandaloneInit
  <1>2. [StandaloneNext]_allVars => RB!Next \/ UNCHANGED rbVars
    BY DEF StandaloneNext, allVars, vars, mpVars, tcVars, slVars, rbVars, mhVars, tmVars, rxVars,
           zpVars
  <1>3. RingInv /\ [StandaloneNext]_allVars => RingInv'
    <2> SUFFICES ASSUME RingInv, RB!Next \/ UNCHANGED rbVars PROVE RingInv'
      BY <1>2
    <2>1. ASSUME NEW r_sz \in 1 .. rb_Size, RB!ringbuff_read(r_sz) PROVE RingInv'
      BY <2>1, RingReads DEF RB!ringbuff_read, RingConstants
    <2>2. ASSUME NEW buf_sz \in 1 .. rb_Size, RB!ringbuffer_readline(buf_sz) PROVE RingInv'
      <3>1. rb_ran = "up" /\ RB!LineSize(buf_sz) <= buf_sz /\ RB!Reads(RB!LineSize(buf_sz))
        BY <2>2 DEF RB!ringbuffer_readline
      <3>2. RingHolds => RB!LineSize(buf_sz) \in Nat
        BY RingLineType DEF RingConstants
      <3> QED
        BY <3>1, <3>2, RingReads
    <2>3. CASE UNCHANGED rbVars
      BY <2>3 DEF rbVars, RingInv, RingHolds, RingTail, RingEnds
    <2> QED
      BY <2>1, <2>2, <2>3, RingWrites, RingClears DEF RB!Next
  <1>4. RingInv => RingOK
    <2> SUFFICES ASSUME RingInv, rb_sound, rb_ran = "up" PROVE RB!RingOK
      BY DEF RingOK, RB!RingOK
    <2>1. RingHolds
      BY DEF RingInv
    <2>2. RB!get_use_size = Len(rb_unread)
      BY <2>1, RingUse
    <2>3. \A i \in 1 .. Len(rb_unread) : rb_buff[rb_head + i - 1] = rb_unread[i]
      BY <2>1 DEF RingHolds
    <2>4. ASSUME NEW buf_sz \in 1 .. rb_Size,
                 RB!LineSize(buf_sz) <= buf_sz, RB!LineSize(buf_sz) <= RB!get_use_size
          PROVE  /\ rb_unread[RB!LineSize(buf_sz)] = rb_NewLine
                 /\ \A i \in 1 .. RB!LineSize(buf_sz) - 1 : rb_unread[i] # rb_NewLine
      BY <2>1, <2>4, RingLine DEF RingConstants
    <2> QED
      BY <2>2, <2>3, <2>4 DEF RB!RingOK
  <1> QED
    BY <1>1, <1>3, <1>4, PTL DEF StandaloneSpec

-----------------------------------------------------------------------------
(* The memory pool: pool/mmpool.c.                                         *)

\* The standard operator under the name that the instance gives it.
LEMMA PoolCardinality == ASSUME NEW S PROVE MP!Cardinality(S) = Cardinality(S)
  BY DEF MP!Cardinality, Cardinality

\* A non-empty set of numbers up to n has a greatest element.
LEMMA GreatestOf ==
    ASSUME NEW n \in Nat, NEW P \in SUBSET (1 .. n), P # {}
    PROVE  (CHOOSE i \in P : \A j \in P : j <= i) \in P
  <1> DEFINE T == {x \in Nat : n - x \in P}
             x == CHOOSE i \in T : \A j \in T : i <= j
  <1>1. \A i \in P : n - i \in T
    <2> TAKE i \in P
    <2>1. n - i \in Nat /\ n - (n - i) = i
      OBVIOUS
    <2> QED
      BY <2>1
  <1>2. T \in SUBSET Nat /\ T # {}
    BY <1>1
  <1> HIDE DEF T
  <1>3. x \in T /\ \A j \in T : x <= j
    <2>1. \E m \in T : \A j \in T : m <= j
      BY <1>2, LeastExists
    <2> QED
      BY <2>1
  <1> HIDE DEF x
  <1>4. n - x \in P /\ x \in Nat
    BY <1>3 DEF T
  <1>5. \A j \in P : j <= n - x
    <2> TAKE j \in P
    <2>1. x <= n - j /\ j \in Nat
      BY <1>1, <1>3
    <2> QED
      BY <1>4, <2>1
  <1> QED
    BY <1>4, <1>5

\* A node, 32 bytes where size_t has 64 bits, ends on an aligned address: the
\* memory of a further block starts right behind it.
PoolConstants == MP!Parameters /\ MP!Align(mp_NODE) = mp_NODE

PoolNodes == [last : Nat, end : Nat, failed : Nat]
PoolSpan == [block : Nat, from : Nat, to : Nat]

PoolBlocks ==
    /\ mp_blocks \in Seq(PoolNodes)
    /\ \A i \in 1 .. Len(mp_blocks) :
           mp_blocks[i].end = MP!Start(i) + mp_PoolSize /\ MP!Start(i) <= mp_blocks[i].last
    /\ mp_current \in Nat \ {0} /\ (mp_blocks # << >> => mp_current <= Len(mp_blocks))

\* Where allocation s may lie when its block has bounds low and end.
Lies(s, low, end) == low <= s.from /\ s.from < s.to /\ (s.to <= end \/ s.from > end)

\* Every allocation lies below the front of its block.
PoolSpans ==
    /\ mp_spans \subseteq PoolSpan
    /\ \A a \in mp_spans :
           /\ a.block \in 1 .. Len(mp_blocks)
           /\ Lies(a, MP!Start(a.block), mp_blocks[a.block].end)
           /\ a.to <= mp_blocks[a.block].last
    /\ \A a, b \in mp_spans :
           a # b /\ a.block = b.block => a.to <= b.from \/ b.to <= a.from

\* The list holds each chunk of the heap in one node, and each node is an
\* allocation.
PoolLarge ==
    /\ mp_large \in Seq([alloc : mp_Chunks \cup {mp_NoChunk}, at : PoolSpan])
    /\ mp_heap \subseteq mp_Chunks
    /\ \A i \in 1 .. Len(mp_large) : mp_large[i].at \in mp_spans
    /\ \A i, j \in 1 .. Len(mp_large) : mp_large[i].at = mp_large[j].at => i = j
    /\ \A i \in 1 .. Len(mp_large) : mp_large[i].alloc # mp_NoChunk => mp_large[i].alloc \in mp_heap
    /\ \A i, j \in 1 .. Len(mp_large) :
           mp_large[i].alloc = mp_large[j].alloc /\ mp_large[i].alloc # mp_NoChunk => i = j
    /\ \A x \in mp_heap : \E i \in 1 .. Len(mp_large) : mp_large[i].alloc = x

PoolInv == PoolBlocks /\ PoolSpans /\ PoolLarge

LEMMA AlignUp ==
    ASSUME PoolConstants, NEW n \in Nat
    PROVE  MP!Align(n) \in Nat /\ n <= MP!Align(n)
  <1> DEFINE A == mp_MP_ALIGNMENT
             a == n + A - 1
             q == a \div A
             r == a % A
  <1>1. A \in Nat \ {0}
    BY DEF PoolConstants, MP!Parameters
  <1> HIDE DEF A
  <1>2. a \in Nat
    BY <1>1
  <1> HIDE DEF a
  <1>3. q \in Nat /\ r \in 0 .. A - 1 /\ a = A * q + r
    BY <1>1, <1>2, Quotient
  <1> HIDE DEF q, r
  <1>4. q * A \in Nat /\ q * A = a - r
    BY <1>1, <1>2, <1>3
  <1>5. a - r >= n
    BY <1>1, <1>3 DEF a
  <1> QED
    BY <1>4, <1>5 DEF MP!Align, A, a, q

LEMMA Starts ==
    ASSUME PoolConstants, NEW i \in Nat
    PROVE  MP!Start(i) \in Nat /\ (i # 1 => MP!Start(i) = mp_NODE)
  BY DEF PoolConstants, MP!Parameters, MP!Start

\* A small allocation: blocks are kept or added, fronts move up, and the new
\* span lies between the old front of its block and the new one.
Grows(s) ==
    /\ Len(mp_blocks) <= Len(mp_blocks')
    /\ \A i \in 1 .. Len(mp_blocks) :
           mp_blocks'[i].end = mp_blocks[i].end /\ mp_blocks[i].last <= mp_blocks'[i].last
    /\ s \in PoolSpan /\ s.block \in 1 .. Len(mp_blocks')
    /\ Lies(s, MP!Start(s.block), mp_blocks'[s.block].end)
    /\ s.block <= Len(mp_blocks) => mp_blocks[s.block].last <= s.from
    /\ s.to <= mp_blocks'[s.block].last
    /\ mp_spans' = mp_spans \cup {s}

LEMMA SpansGrow ==
    ASSUME PoolBlocks, PoolBlocks', PoolSpans, NEW s, Grows(s)
    PROVE  PoolSpans' /\ s \notin mp_spans
  <1>1. \A a \in mp_spans : a.block = s.block => a.to <= s.from /\ a.from < a.to /\ a # s
    <2> TAKE a \in mp_spans
    <2> HAVE a.block = s.block
    <2>1. a \in PoolSpan /\ s \in PoolSpan
      BY DEF PoolSpans, Grows
    <2>2. /\ a.block \in 1 .. Len(mp_blocks) /\ a.from < a.to
          /\ a.to <= mp_blocks[a.block].last
      BY DEF PoolSpans, Lies
    <2>3. mp_blocks[a.block] \in PoolNodes
      BY <2>2 DEF PoolBlocks
    <2>4. mp_blocks[a.block].last \in Nat
      BY <2>3 DEF PoolNodes
    <2>5. mp_blocks[a.block].last <= s.from
      BY <2>2 DEF Grows
    <2>6. a.from \in Nat /\ a.to \in Nat /\ s.from \in Nat
      BY <2>1 DEF PoolSpan
    <2>7. a.to <= s.from
      BY <2>2, <2>4, <2>5, <2>6
    <2>8. a # s
      BY <2>2, <2>6, <2>7
    <2> QED
      BY <2>2, <2>7, <2>8
  <1>2. s \notin mp_spans
    BY <1>1
  <1>3. \A a \in mp_spans :
           /\ a.block \in 1 .. Len(mp_blocks')
           /\ Lies(a, MP!Start(a.block), mp_blocks'[a.block].end)
           /\ a.to <= mp_blocks'[a.block].last
    <2> TAKE a \in mp_spans
    <2>1. /\ a.block \in 1 .. Len(mp_blocks)
          /\ Lies(a, MP!Start(a.block), mp_blocks[a.block].end)
          /\ a.to <= mp_blocks[a.block].last
      BY DEF PoolSpans
    <2>2. /\ Len(mp_blocks) \in Nat /\ Len(mp_blocks') \in Nat /\ Len(mp_blocks) <= Len(mp_blocks')
          /\ mp_blocks'[a.block].end = mp_blocks[a.block].end
          /\ mp_blocks[a.block].last <= mp_blocks'[a.block].last
      BY <2>1 DEF Grows, PoolBlocks
    <2>3. a.block \in 1 .. Len(mp_blocks')
      BY <2>1, <2>2
    <2>4. mp_blocks[a.block] \in PoolNodes /\ mp_blocks'[a.block] \in PoolNodes /\ a \in PoolSpan
      BY <2>1, <2>3 DEF PoolBlocks, PoolSpans
    <2>5. mp_blocks[a.block].last \in Nat /\ mp_blocks'[a.block].last \in Nat /\ a.to \in Nat
      BY <2>4 DEF PoolNodes, PoolSpan
    <2> QED
      BY <2>1, <2>2, <2>3, <2>5
  <1>4. /\ mp_spans' = mp_spans \cup {s} /\ s \in PoolSpan
        /\ s.block \in 1 .. Len(mp_blocks')
        /\ Lies(s, MP!Start(s.block), mp_blocks'[s.block].end)
        /\ s.to <= mp_blocks'[s.block].last
    BY DEF Grows
  <1>5. \A a, b \in mp_spans' :
           a # b /\ a.block = b.block => a.to <= b.from \/ b.to <= a.from
    BY <1>1, <1>4 DEF PoolSpans
  <1>6. mp_spans' \subseteq PoolSpan
    BY <1>4 DEF PoolSpans
  <1> QED
    BY <1>2, <1>3, <1>4, <1>5, <1>6 DEF PoolSpans

\* What a request on a pool may ask for.
LEMMA Requests ==
    ASSUME PoolConstants
    PROVE  /\ mp_LARGE \in Nat \ {0} /\ mp_LARGE <= mp_PoolSize
           /\ \A size \in mp_Sizes : size \in Nat \ {0} /\ size <= mp_PoolSize
  BY DEF PoolConstants, MP!Parameters, MP!max

\* The first block with room is cut.
LEMMA CutsBlock ==
    ASSUME PoolConstants, PoolBlocks, mp_blocks # << >>,
           NEW size \in Nat \ {0}, NEW aligned \in BOOLEAN,
           MP!Fitting(size, aligned) # {}, MP!FromBlock(size, aligned)
    PROVE  /\ PoolBlocks'
           /\ LET i == MP!First(MP!Fitting(size, aligned))
              IN  Grows(MP!Span(i, MP!Front(i, aligned), size))
  <1> DEFINE i == MP!First(MP!Fitting(size, aligned))
             m == MP!Front(i, aligned)
             s == MP!Span(i, m, size)
             b == mp_blocks[i]
  <1>1. /\ mp_blocks \in Seq(PoolNodes) /\ Len(mp_blocks) \in Nat
        /\ mp_current \in Nat \ {0} /\ mp_current <= Len(mp_blocks)
    BY DEF PoolBlocks
  <1>2. i \in MP!Fitting(size, aligned)
    <2>1. MP!Fitting(size, aligned) \in SUBSET Nat
      BY <1>1 DEF MP!Fitting
    <2> QED
      BY <2>1, LeastExists DEF MP!First
  <1>3. i \in 1 .. Len(mp_blocks) /\ (m > b.end \/ b.end - m >= size)
    BY <1>1, <1>2 DEF MP!Fitting, MP!Fits
  <1>4. /\ mp_blocks' = [mp_blocks EXCEPT ![i].last = m + size]
        /\ mp_spans' = mp_spans \cup {s} /\ mp_current' = mp_current
    BY DEF MP!FromBlock
  <1>5. b \in PoolNodes
    BY <1>1, <1>3
  <1>6. b.last \in Nat /\ b.end \in Nat /\ b.failed \in Nat
    BY <1>5 DEF PoolNodes
  <1>7. m \in Nat /\ b.last <= m
    <2>1. MP!Align(b.last) \in Nat /\ b.last <= MP!Align(b.last)
      BY <1>6, AlignUp
    <2>2. m = MP!Align(b.last) \/ m = b.last
      BY DEF MP!Front
    <2> QED
      BY <1>6, <2>1, <2>2
  <1>8. MP!Start(i) \in Nat /\ MP!Start(i) <= b.last
    <2>1. i \in Nat
      BY <1>1, <1>3
    <2> HIDE DEF i
    <2>2. MP!Start(i) \in Nat
      BY <2>1, Starts
    <2> QED
      BY <1>3, <2>2 DEF PoolBlocks
  <1>9. /\ s = [block |-> i, from |-> m, to |-> m + size] /\ s \in PoolSpan
        /\ s.block = i /\ s.from = m /\ s.to = m + size
    BY <1>3, <1>7 DEF MP!Span, PoolSpan
  <1> HIDE DEF i, m, s
  <1>10. /\ Len(mp_blocks') = Len(mp_blocks)
         /\ mp_blocks'[i] = [b EXCEPT !.last = m + size]
         /\ \A j \in 1 .. Len(mp_blocks) : j # i => mp_blocks'[j] = mp_blocks[j]
    BY <1>1, <1>3, <1>4
  <1>11. /\ mp_blocks'[i].last = m + size /\ mp_blocks'[i].end = b.end
         /\ mp_blocks'[i] \in PoolNodes
    BY <1>5, <1>7, <1>10 DEF PoolNodes
  <1>12. \A j \in 1 .. Len(mp_blocks) : mp_blocks[j] \in PoolNodes /\ mp_blocks'[j] \in PoolNodes
    BY <1>1, <1>10, <1>11
  <1>13. mp_blocks' \in Seq(PoolNodes)
    <2> DEFINE v == [b EXCEPT !.last = m + size]
    <2>1. mp_blocks' = [mp_blocks EXCEPT ![i] = v] /\ v \in PoolNodes
      BY <1>3, <1>4, <1>10, <1>11
    <2> HIDE DEF v
    <2> QED
      BY <1>1, <1>3, <2>1
  <1>14. \A j \in 1 .. Len(mp_blocks) :
            mp_blocks'[j].end = mp_blocks[j].end /\ mp_blocks[j].last <= mp_blocks'[j].last
    <2> TAKE j \in 1 .. Len(mp_blocks)
    <2>1. mp_blocks[j].last \in Nat
      BY <1>12 DEF PoolNodes
    <2>2. CASE j = i
      BY <1>6, <1>7, <1>11, <2>2
    <2>3. CASE j # i
      BY <1>10, <2>1, <2>3
    <2> QED
      BY <2>2, <2>3
  <1>15. \A j \in 1 .. Len(mp_blocks) :
            mp_blocks'[j].end = MP!Start(j) + mp_PoolSize /\ MP!Start(j) <= mp_blocks'[j].last
    <2> TAKE j \in 1 .. Len(mp_blocks)
    <2>1. mp_blocks[j].last \in Nat /\ mp_blocks'[j].last \in Nat
      BY <1>12 DEF PoolNodes
    <2>2. MP!Start(j) \in Nat
      BY Starts
    <2>3. mp_blocks[j].end = MP!Start(j) + mp_PoolSize /\ MP!Start(j) <= mp_blocks[j].last
      BY DEF PoolBlocks
    <2> QED
      BY <1>14, <2>1, <2>2, <2>3
  <1>16. PoolBlocks'
    BY <1>1, <1>4, <1>10, <1>13, <1>15 DEF PoolBlocks
  <1>17. Lies(s, MP!Start(i), b.end)
    BY <1>3, <1>6, <1>7, <1>8, <1>9 DEF Lies
  <1>18. Grows(s)
    BY <1>1, <1>3, <1>4, <1>7, <1>9, <1>10, <1>11, <1>14, <1>17 DEF Grows
  <1> QED
    BY <1>16, <1>18 DEF i, m, s

\* A further block is added behind the others.
LEMMA AddsBlock ==
    ASSUME PoolConstants, PoolBlocks, mp_blocks # << >>,
           NEW size \in Nat \ {0}, size <= mp_PoolSize, MP!FromNewBlock(size)
    PROVE  PoolBlocks' /\ Grows(MP!Span(Len(mp_blocks) + 1, MP!Align(mp_NODE), size))
  <1> DEFINE n == Len(mp_blocks)
             m == MP!Align(mp_NODE)
             s == MP!Span(n + 1, m, size)
             new == [last |-> m + size, end |-> MP!psize, failed |-> 0]
             old == [i \in 1 .. n |-> IF i \in mp_current .. n - 1
                                      THEN [mp_blocks[i] EXCEPT !.failed = @ + 1] ELSE mp_blocks[i]]
  <1>1. /\ mp_blocks \in Seq(PoolNodes) /\ n \in Nat /\ n >= 1
        /\ mp_current \in Nat \ {0} /\ mp_current <= n
        /\ \A i \in 1 .. n : mp_blocks[i].end = MP!Start(i) + mp_PoolSize /\ MP!Start(i) <= mp_blocks[i].last
    BY DEF PoolBlocks
  <1>2. m = mp_NODE /\ mp_NODE \in Nat /\ mp_POOL \in Nat /\ mp_PoolSize \in Nat
    BY DEF PoolConstants, MP!Parameters
  <1>3. MP!psize = mp_NODE + mp_PoolSize
    <2>1. mp_blocks[1].end = mp_POOL + mp_NODE + mp_PoolSize
      BY <1>1 DEF MP!Start
    <2> QED
      BY <1>2, <2>1 DEF MP!psize
  <1>4. /\ mp_blocks' = Append(old, new) /\ mp_spans' = mp_spans \cup {s}
        /\ mp_current' = IF MP!Passed = {} THEN mp_current
                         ELSE 1 + CHOOSE i \in MP!Passed : \A j \in MP!Passed : j <= i
    BY DEF MP!FromNewBlock
  <1>5. new \in PoolNodes /\ new.last = m + size /\ new.end = mp_NODE + mp_PoolSize
    BY <1>2, <1>3 DEF PoolNodes
  <1>6. \A i \in 1 .. n : old[i] \in PoolNodes /\ old[i].last = mp_blocks[i].last /\ old[i].end = mp_blocks[i].end
    <2> TAKE i \in 1 .. n
    <2>1. mp_blocks[i] \in PoolNodes
      BY <1>1
    <2> QED
      BY <2>1 DEF PoolNodes
  <1>7. old \in Seq(PoolNodes) /\ Len(old) = n
    <2>1. old \in [1 .. n -> PoolNodes]
      BY <1>6
    <2> QED
      BY <1>1, <2>1
  <1>8. /\ s = [block |-> n + 1, from |-> m, to |-> m + size] /\ s \in PoolSpan
        /\ s.block = n + 1 /\ s.from = m /\ s.to = m + size
    BY <1>1, <1>2 DEF MP!Span, PoolSpan
  <1> HIDE DEF old, new, s, m
  <1>9. /\ mp_blocks' \in Seq(PoolNodes) /\ Len(mp_blocks') = n + 1
        /\ \A i \in 1 .. n : mp_blocks'[i] = old[i]
        /\ mp_blocks'[n + 1] = new
    BY <1>1, <1>4, <1>5, <1>7
  <1>10. MP!Start(n + 1) = mp_NODE
    BY <1>1, Starts
  <1>11. \A i \in 1 .. n + 1 :
            mp_blocks'[i].end = MP!Start(i) + mp_PoolSize /\ MP!Start(i) <= mp_blocks'[i].last
    <2> TAKE i \in 1 .. n + 1
    <2>1. CASE i \in 1 .. n
      BY <1>1, <1>6, <1>9, <2>1
    <2>2. CASE i = n + 1
      BY <1>2, <1>5, <1>9, <1>10, <2>2
    <2> QED
      BY <1>1, <2>1, <2>2
  <1>12. mp_current' \in Nat \ {0} /\ mp_current' <= n + 1
    <2> DEFINE P == MP!Passed
               g == CHOOSE i \in P : \A j \in P : j <= i
    <2>1. P \subseteq 1 .. n - 1
      BY <1>1 DEF MP!Passed
    <2>2. P # {} => g \in P
      BY <1>1, <2>1, GreatestOf, n - 1 \in Nat
    <2>3. mp_current' = IF P = {} THEN mp_current ELSE 1 + g
      BY <1>4
    <2> HIDE DEF P, g
    <2>4. P # {} => g \in 1 .. n - 1
      BY <2>1, <2>2
    <2> QED
      BY <1>1, <2>3, <2>4
  <1>13. PoolBlocks'
    BY <1>1, <1>9, <1>11, <1>12 DEF PoolBlocks
  <1>14. Lies(s, MP!Start(n + 1), new.end)
    BY <1>2, <1>5, <1>8, <1>10 DEF Lies
  <1>15. \A i \in 1 .. n : mp_blocks'[i].end = mp_blocks[i].end /\ mp_blocks[i].last <= mp_blocks'[i].last
    <2> TAKE i \in 1 .. n
    <2>1. mp_blocks[i] \in PoolNodes
      BY <1>1
    <2>2. mp_blocks[i].last \in Nat
      BY <2>1 DEF PoolNodes
    <2> QED
      BY <1>6, <1>9, <2>2
  <1>16. Grows(s)
    <2>1. n + 1 \in 1 .. n + 1 /\ ~(n + 1 <= n) /\ n <= n + 1 /\ m + size <= m + size
      BY <1>1, <1>2
    <2> QED
      BY <1>4, <1>5, <1>8, <1>9, <1>14, <1>15, <2>1 DEF Grows
  <1> QED
    BY <1>13, <1>16 DEF s, m

\* mp_alloc, mp_calloc and mp_nalloc; mp_alloc's place is known beforehand.
LEMMA SmallAllocs ==
    ASSUME PoolConstants, PoolBlocks, PoolSpans, mp_blocks # << >>,
           NEW size \in Nat \ {0}, size <= mp_PoolSize, NEW aligned \in BOOLEAN,
           MP!SmallAlloc(size, aligned)
    PROVE  /\ PoolBlocks' /\ PoolSpans' /\ mp_spans \subseteq mp_spans'
           /\ aligned => /\ MP!Place(size) \in PoolSpan /\ MP!Place(size) \notin mp_spans
                         /\ mp_spans' = mp_spans \cup {MP!Place(size)}
  <1>1. CASE MP!Fitting(size, aligned) # {}
    <2> DEFINE i == MP!First(MP!Fitting(size, aligned))
               s == MP!Span(i, MP!Front(i, aligned), size)
    <2>1. PoolBlocks' /\ Grows(s)
      BY <1>1, CutsBlock DEF MP!SmallAlloc
    <2>2. aligned => s = MP!Place(size)
      BY <1>1 DEF MP!Place
    <2> HIDE DEF s
    <2>3. PoolSpans' /\ s \notin mp_spans
      BY <2>1, SpansGrow
    <2> QED
      BY <2>1, <2>2, <2>3 DEF Grows
  <1>2. CASE MP!Fitting(size, aligned) = {}
    <2> DEFINE s == MP!Span(Len(mp_blocks) + 1, MP!Align(mp_NODE), size)
    <2>1. PoolBlocks' /\ Grows(s)
      BY <1>2, AddsBlock DEF MP!SmallAlloc
    <2>2. aligned => s = MP!Place(size)
      BY <1>2 DEF MP!Place
    <2> HIDE DEF s
    <2>3. PoolSpans' /\ s \notin mp_spans
      BY <2>1, SpansGrow
    <2> QED
      BY <2>1, <2>2, <2>3 DEF Grows
  <1> QED
    BY <1>1, <1>2

\* The list after a chunk with a node of its own was put in front of it.
LEMMA LargeGrows ==
    ASSUME PoolConstants, PoolLarge, NEW x \in mp_Chunks, x \notin mp_heap, mp_heap' = mp_heap \cup {x},
           NEW s \in PoolSpan, s \notin mp_spans, mp_spans' = mp_spans \cup {s},
           mp_large' = <<[alloc |-> x, at |-> s]>> \o mp_large
    PROVE  PoolLarge'
  <1> DEFINE new == [alloc |-> x, at |-> s]
             n == Len(mp_large)
             LargeNodes == [alloc : mp_Chunks \cup {mp_NoChunk}, at : PoolSpan]
  <1>1. x # mp_NoChunk
    BY DEF PoolConstants, MP!Parameters
  <1>2. new \in LargeNodes /\ new.alloc = x /\ new.at = s
    OBVIOUS
  <1>3. mp_large \in Seq(LargeNodes) /\ n \in Nat
    BY DEF PoolLarge
  <1> HIDE DEF new, LargeNodes
  <1>4. /\ mp_large' \in Seq(LargeNodes) /\ Len(mp_large') = n + 1 /\ mp_large'[1] = new
        /\ \A i \in 2 .. n + 1 : mp_large'[i] = mp_large[i - 1]
    <2>1. mp_large' = <<new>> \o mp_large
      BY DEF new
    <2> QED
      BY <1>2, <1>3, <2>1
  <1>5. \A i \in 1 .. n + 1 : i = 1 \/ (i \in 2 .. n + 1 /\ i - 1 \in 1 .. n)
    BY <1>3
  <1>6. \A i \in 1 .. n + 1 : mp_large'[i].at \in mp_spans'
    BY <1>2, <1>4, <1>5 DEF PoolLarge
  <1>7. \A i, j \in 1 .. n + 1 : mp_large'[i].at = mp_large'[j].at => i = j
    <2> TAKE i, j \in 1 .. n + 1
    <2>1. i = 1 \/ (mp_large'[i] = mp_large[i - 1] /\ i - 1 \in 1 .. n)
      BY <1>4, <1>5
    <2>2. j = 1 \/ (mp_large'[j] = mp_large[j - 1] /\ j - 1 \in 1 .. n)
      BY <1>4, <1>5
    <2>3. \A k \in 1 .. n : mp_large[k].at # s
      BY DEF PoolLarge
    <2>4. \A k, l \in 1 .. n : mp_large[k].at = mp_large[l].at => k = l
      BY DEF PoolLarge
    <2> QED
      BY <1>2, <1>3, <1>4, <2>1, <2>2, <2>3, <2>4
  <1>8. \A i \in 1 .. n + 1 : mp_large'[i].alloc # mp_NoChunk => mp_large'[i].alloc \in mp_heap'
    BY <1>2, <1>4, <1>5 DEF PoolLarge
  <1>9. \A i, j \in 1 .. n + 1 :
           mp_large'[i].alloc = mp_large'[j].alloc /\ mp_large'[i].alloc # mp_NoChunk => i = j
    <2> TAKE i, j \in 1 .. n + 1
    <2>1. i = 1 \/ (mp_large'[i] = mp_large[i - 1] /\ i - 1 \in 1 .. n)
      BY <1>4, <1>5
    <2>2. j = 1 \/ (mp_large'[j] = mp_large[j - 1] /\ j - 1 \in 1 .. n)
      BY <1>4, <1>5
    <2>3. \A k \in 1 .. n : mp_large[k].alloc # x
      BY <1>1 DEF PoolLarge
    <2>4. \A k, l \in 1 .. n :
             mp_large[k].alloc = mp_large[l].alloc /\ mp_large[k].alloc # mp_NoChunk => k = l
      BY DEF PoolLarge
    <2> QED
      BY <1>2, <1>3, <1>4, <2>1, <2>2, <2>3, <2>4
  <1>10. \A y \in mp_heap' : \E i \in 1 .. n + 1 : mp_large'[i].alloc = y
    <2> TAKE y \in mp_heap'
    <2>1. CASE y = x
      <3>1. 1 \in 1 .. n + 1 /\ mp_large'[1].alloc = y
        BY <1>2, <1>3, <1>4, <2>1
      <3> QED
        BY <3>1
    <2>2. CASE y \in mp_heap
      <3>1. PICK i \in 1 .. n : mp_large[i].alloc = y
        BY <2>2 DEF PoolLarge
      <3>2. i + 1 \in 2 .. n + 1 /\ i + 1 \in 1 .. n + 1 /\ i + 1 - 1 = i
        BY <1>3
      <3>3. mp_large'[i + 1].alloc = y
        BY <1>4, <3>1, <3>2
      <3> QED
        BY <3>2, <3>3
    <2> QED
      BY <2>1, <2>2
  <1>11. mp_heap' \subseteq mp_Chunks
    BY DEF PoolLarge
  <1> QED
    BY <1>4, <1>6, <1>7, <1>8, <1>9, <1>10, <1>11 DEF PoolLarge, LargeNodes

\* Node i of the list gets the chunk x, or none.
LEMMA LargeChanges ==
    ASSUME PoolLarge, NEW i \in 1 .. Len(mp_large), NEW x \in mp_Chunks \cup {mp_NoChunk},
           mp_large' = [mp_large EXCEPT ![i].alloc = x], mp_spans' = mp_spans
    PROVE  /\ mp_large' \in Seq([alloc : mp_Chunks \cup {mp_NoChunk}, at : PoolSpan])
           /\ Len(mp_large') = Len(mp_large)
           /\ mp_large'[i].alloc = x
           /\ \A j \in 1 .. Len(mp_large) : j # i => mp_large'[j].alloc = mp_large[j].alloc
           /\ \A j \in 1 .. Len(mp_large) : mp_large'[j].at = mp_large[j].at
  <1> DEFINE LargeNodes == [alloc : mp_Chunks \cup {mp_NoChunk}, at : PoolSpan]
             n == Len(mp_large)
  <1>1. mp_large \in Seq(LargeNodes) /\ n \in Nat
    BY DEF PoolLarge
  <1> DEFINE v == [mp_large[i] EXCEPT !.alloc = x]
  <1>2. mp_large[i] \in LargeNodes
    <2> HIDE DEF LargeNodes
    <2> QED
      BY <1>1
  <1>3. v \in LargeNodes /\ v.alloc = x /\ v.at = mp_large[i].at
    BY <1>2
  <1>4. mp_large' = [mp_large EXCEPT ![i] = v]
    OBVIOUS
  <1> HIDE DEF LargeNodes, v
  <1>5. /\ Len(mp_large') = n /\ mp_large'[i] = v
        /\ \A j \in 1 .. n : j # i => mp_large'[j] = mp_large[j]
        /\ mp_large' \in Seq(LargeNodes)
    BY <1>1, <1>3, <1>4
  <1> QED
    BY <1>3, <1>5 DEF LargeNodes

LEMMA LargeReuses ==
    ASSUME PoolConstants, PoolLarge, NEW x \in mp_Chunks, x \notin mp_heap, mp_heap' = mp_heap \cup {x},
           NEW i \in 1 .. Len(mp_large), mp_large[i].alloc = mp_NoChunk,
           mp_large' = [mp_large EXCEPT ![i].alloc = x], mp_spans' = mp_spans
    PROVE  PoolLarge'
  <1>1. /\ mp_large' \in Seq([alloc : mp_Chunks \cup {mp_NoChunk}, at : PoolSpan])
        /\ Len(mp_large') = Len(mp_large)
        /\ mp_large'[i].alloc = x
        /\ \A j \in 1 .. Len(mp_large) : j # i => mp_large'[j].alloc = mp_large[j].alloc
        /\ \A j \in 1 .. Len(mp_large) : mp_large'[j].at = mp_large[j].at
    BY LargeChanges
  <1>2. x # mp_NoChunk
    BY DEF PoolConstants, MP!Parameters
  <1>3. \A j \in 1 .. Len(mp_large) : mp_large[j].alloc # x
    BY <1>2 DEF PoolLarge
  <1>4. \A y \in mp_heap' : \E j \in 1 .. Len(mp_large) : mp_large'[j].alloc = y
    <2> TAKE y \in mp_heap'
    <2>1. CASE y = x
      BY <1>1, <2>1
    <2>2. CASE y \in mp_heap
      <3>1. PICK j \in 1 .. Len(mp_large) : mp_large[j].alloc = y
        BY <2>2 DEF PoolLarge
      <3>2. y # mp_NoChunk
        BY <2>2 DEF PoolLarge, PoolConstants, MP!Parameters
      <3> QED
        BY <1>1, <3>1, <3>2
    <2> QED
      BY <2>1, <2>2
  <1>5. \A j, k \in 1 .. Len(mp_large) :
           mp_large'[j].alloc = mp_large'[k].alloc /\ mp_large'[j].alloc # mp_NoChunk => j = k
    BY <1>1, <1>3 DEF PoolLarge
  <1>6. \A j \in 1 .. Len(mp_large) : mp_large'[j].alloc # mp_NoChunk => mp_large'[j].alloc \in mp_heap'
    BY <1>1 DEF PoolLarge
  <1>7. mp_heap' \subseteq mp_Chunks
    BY DEF PoolLarge
  <1>8. /\ \A j \in 1 .. Len(mp_large) : mp_large'[j].at \in mp_spans'
        /\ \A j, k \in 1 .. Len(mp_large) : mp_large'[j].at = mp_large'[k].at => j = k
    BY <1>1 DEF PoolLarge
  <1> QED
    BY <1>1, <1>4, <1>5, <1>6, <1>7, <1>8 DEF PoolLarge

LEMMA LargeFrees ==
    ASSUME PoolConstants, PoolLarge, NEW x \in mp_Chunks, MP!Free(x)
    PROVE  PoolLarge'
  <1> DEFINE nodes == {i \in 1 .. Len(mp_large) : mp_large[i].alloc = x}
             i == MP!First(nodes)
  <1>1. /\ nodes # {} /\ mp_heap' = mp_heap \ {x}
        /\ mp_large' = [mp_large EXCEPT ![i].alloc = mp_NoChunk] /\ mp_spans' = mp_spans
    BY DEF MP!Free, MP!Cleared
  <1>2. i \in nodes
    <2>1. nodes \in SUBSET Nat
      OBVIOUS
    <2> QED
      BY <1>1, <2>1, LeastExists DEF MP!First
  <1>3. i \in 1 .. Len(mp_large) /\ mp_large[i].alloc = x /\ x # mp_NoChunk
    BY <1>2 DEF PoolConstants, MP!Parameters
  <1> HIDE DEF i
  <1>4. /\ mp_large' \in Seq([alloc : mp_Chunks \cup {mp_NoChunk}, at : PoolSpan])
        /\ Len(mp_large') = Len(mp_large)
        /\ mp_large'[i].alloc = mp_NoChunk
        /\ \A j \in 1 .. Len(mp_large) : j # i => mp_large'[j].alloc = mp_large[j].alloc
        /\ \A j \in 1 .. Len(mp_large) : mp_large'[j].at = mp_large[j].at
    BY <1>1, <1>3, LargeChanges
  <1>5. \A j \in 1 .. Len(mp_large) : j # i => mp_large[j].alloc # x
    BY <1>3 DEF PoolLarge
  <1>6. \A y \in mp_heap' : \E j \in 1 .. Len(mp_large) : mp_large'[j].alloc = y
    <2> TAKE y \in mp_heap'
    <2>1. y \in mp_heap /\ y # x
      BY <1>1
    <2>2. PICK j \in 1 .. Len(mp_large) : mp_large[j].alloc = y
      BY <2>1 DEF PoolLarge
    <2> QED
      BY <1>3, <1>4, <2>1, <2>2
  <1>7. \A j, k \in 1 .. Len(mp_large) :
           mp_large'[j].alloc = mp_large'[k].alloc /\ mp_large'[j].alloc # mp_NoChunk => j = k
    BY <1>4 DEF PoolLarge
  <1>8. \A j \in 1 .. Len(mp_large) : mp_large'[j].alloc # mp_NoChunk => mp_large'[j].alloc \in mp_heap'
    BY <1>1, <1>4, <1>5 DEF PoolLarge
  <1>9. mp_heap' \subseteq mp_Chunks
    BY <1>1 DEF PoolLarge
  <1>10. /\ \A j \in 1 .. Len(mp_large) : mp_large'[j].at \in mp_spans'
         /\ \A j, k \in 1 .. Len(mp_large) : mp_large'[j].at = mp_large'[k].at => j = k
    BY <1>1, <1>4 DEF PoolLarge
  <1> QED
    BY <1>4, <1>6, <1>7, <1>8, <1>9, <1>10 DEF PoolLarge

\* An emptied list after all chunks of the old one were freed.
LEMMA LargeEmptied ==
    ASSUME PoolLarge, mp_heap' = mp_heap \ {mp_large[i].alloc : i \in 1 .. Len(mp_large)},
           mp_large' = << >>
    PROVE  PoolLarge'
  <1>1. mp_heap' = {}
    BY DEF PoolLarge
  <1>2. Len(mp_large') = 0 /\ 1 .. 0 = {}
    OBVIOUS
  <1>3. mp_large' \in Seq([alloc : mp_Chunks \cup {mp_NoChunk}, at : PoolSpan])
    OBVIOUS
  <1> QED
    BY <1>1, <1>2, <1>3 DEF PoolLarge

LEMMA PoolInit == MP!Init => PoolInv
  <1> SUFFICES ASSUME MP!Init PROVE PoolInv
    OBVIOUS
  <1>1. mp_blocks = << >> /\ mp_current = 1 /\ mp_large = << >> /\ mp_spans = {} /\ mp_heap = {}
    BY DEF MP!Init
  <1>2. PoolBlocks
    BY <1>1 DEF PoolBlocks
  <1>3. PoolSpans
    BY <1>1 DEF PoolSpans
  <1>4. PoolLarge
    BY <1>1 DEF PoolLarge
  <1> QED
    BY <1>2, <1>3, <1>4 DEF PoolInv

LEMMA PoolCreates == ASSUME PoolConstants, PoolInv, MP!CreatePool PROVE PoolInv'
  <1> DEFINE new == [last |-> mp_POOL + mp_NODE, end |-> mp_POOL + mp_NODE + mp_PoolSize, failed |-> 0]
  <1>1. /\ mp_blocks = << >> /\ mp_blocks' = <<new>> /\ mp_current' = 1
        /\ mp_large' = mp_large /\ mp_spans' = mp_spans /\ mp_heap' = mp_heap
    BY DEF MP!CreatePool
  <1>2. mp_POOL \in Nat /\ mp_NODE \in Nat /\ mp_PoolSize \in Nat
    BY DEF PoolConstants, MP!Parameters
  <1>3. /\ new \in PoolNodes /\ new.end = mp_POOL + mp_NODE + mp_PoolSize
        /\ new.last = mp_POOL + mp_NODE /\ MP!Start(1) = mp_POOL + mp_NODE
    BY <1>2 DEF PoolNodes, MP!Start
  <1> HIDE DEF new
  <1>4. PoolBlocks'
    <2>1. mp_blocks' \in Seq(PoolNodes) /\ Len(mp_blocks') = 1 /\ mp_blocks'[1] = new
      BY <1>1, <1>3
    <2>2. new.end = MP!Start(1) + mp_PoolSize /\ MP!Start(1) <= new.last
      BY <1>2, <1>3
    <2>3. \A i \in 1 .. Len(mp_blocks') : i = 1
      BY <2>1
    <2> QED
      BY <1>1, <2>1, <2>2, <2>3 DEF PoolBlocks
  <1>5. mp_spans = {}
    <2>1. \A a \in mp_spans : a.block \in 1 .. Len(mp_blocks)
      BY DEF PoolInv, PoolSpans
    <2>2. 1 .. Len(mp_blocks) = {}
      BY <1>1
    <2> QED
      BY <2>1, <2>2
  <1>6. PoolSpans'
    BY <1>1, <1>5 DEF PoolSpans
  <1>7. PoolLarge'
    BY <1>1 DEF PoolInv, PoolLarge
  <1> QED
    BY <1>4, <1>6, <1>7 DEF PoolInv

LEMMA PoolResets == ASSUME PoolConstants, PoolInv, MP!ResetPool PROVE PoolInv'
  <1> DEFINE n == Len(mp_blocks)
  <1>1. /\ mp_blocks # << >> /\ mp_large' = << >>
        /\ mp_heap' = mp_heap \ {mp_large[i].alloc : i \in 1 .. Len(mp_large)}
        /\ mp_blocks' = [i \in 1 .. n |-> [mp_blocks[i] EXCEPT !.last = MP!Start(i)]]
        /\ mp_spans' = {} /\ mp_current' = mp_current
    BY DEF MP!ResetPool, MP!Emptied
  <1>2. mp_blocks \in Seq(PoolNodes) /\ n \in Nat
    BY DEF PoolInv, PoolBlocks
  <1>3. \A i \in 1 .. n : /\ mp_blocks'[i] \in PoolNodes /\ mp_blocks'[i].end = mp_blocks[i].end
                         /\ mp_blocks'[i].last = MP!Start(i) /\ MP!Start(i) \in Nat
    <2> TAKE i \in 1 .. n
    <2>1. mp_blocks[i] \in PoolNodes /\ MP!Start(i) \in Nat
      BY <1>2, Starts
    <2>2. mp_blocks'[i] = [mp_blocks[i] EXCEPT !.last = MP!Start(i)]
      BY <1>1
    <2> QED
      BY <2>1, <2>2 DEF PoolNodes
  <1>4. mp_blocks' \in Seq(PoolNodes) /\ Len(mp_blocks') = n
    <2>1. mp_blocks' \in [1 .. n -> PoolNodes]
      BY <1>1, <1>3
    <2> QED
      BY <1>2, <2>1
  <1>5. PoolBlocks'
    <2>1. \A i \in 1 .. n : mp_blocks'[i].end = MP!Start(i) + mp_PoolSize /\ MP!Start(i) <= mp_blocks'[i].last
      BY <1>3 DEF PoolInv, PoolBlocks
    <2>2. mp_current' \in Nat \ {0} /\ mp_current' <= n
      BY <1>1 DEF PoolInv, PoolBlocks
    <2> QED
      BY <1>4, <2>1, <2>2 DEF PoolBlocks
  <1>6. PoolSpans'
    BY <1>1 DEF PoolSpans
  <1>7. PoolLarge'
    BY <1>1, LargeEmptied DEF PoolInv
  <1> QED
    BY <1>5, <1>6, <1>7 DEF PoolInv

LEMMA PoolDestroys == ASSUME PoolInv, MP!DestroyPool PROVE PoolInv'
  <1>1. /\ mp_heap' = mp_heap \ {mp_large[i].alloc : i \in 1 .. Len(mp_large)}
        /\ mp_large' = << >> /\ mp_blocks' = << >> /\ mp_spans' = {} /\ mp_current' = 1
    BY DEF MP!DestroyPool
  <1>2. PoolBlocks'
    BY <1>1 DEF PoolBlocks
  <1>3. PoolSpans'
    BY <1>1 DEF PoolSpans
  <1>4. PoolLarge'
    BY <1>1, LargeEmptied DEF PoolInv
  <1> QED
    BY <1>2, <1>3, <1>4 DEF PoolInv

LEMMA PoolAllocs ==
    ASSUME PoolConstants, PoolInv, NEW size \in mp_Sizes, NEW aligned \in BOOLEAN,
           MP!Alloc(size, aligned)
    PROVE  PoolInv'
  <1>1. size \in Nat \ {0} /\ size <= mp_PoolSize
    BY Requests
  <1>2. mp_blocks # << >> /\ MP!SmallAlloc(size, aligned) /\ mp_large' = mp_large /\ mp_heap' = mp_heap
    BY DEF MP!Alloc
  <1>3. PoolBlocks' /\ PoolSpans' /\ mp_spans \subseteq mp_spans'
    BY <1>1, <1>2, SmallAllocs DEF PoolInv
  <1>4. PoolLarge'
    BY <1>2, <1>3 DEF PoolInv, PoolLarge
  <1> QED
    BY <1>3, <1>4 DEF PoolInv

\* mp_alloc_large with a node of its own, and mp_memalign.
LEMMA PoolAddsNode ==
    ASSUME PoolConstants, PoolInv, NEW x \in mp_Chunks, mp_blocks # << >>, x \notin mp_heap,
           mp_heap' = mp_heap \cup {x}, MP!WithNewNode(x)
    PROVE  PoolInv'
  <1>1. MP!SmallAlloc(mp_LARGE, TRUE) /\ mp_large' = <<[alloc |-> x, at |-> MP!Place(mp_LARGE)]>> \o mp_large
    BY DEF MP!WithNewNode
  <1>2. mp_LARGE \in Nat \ {0} /\ mp_LARGE <= mp_PoolSize
    BY Requests
  <1>3. /\ PoolBlocks' /\ PoolSpans'
        /\ MP!Place(mp_LARGE) \in PoolSpan /\ MP!Place(mp_LARGE) \notin mp_spans
        /\ mp_spans' = mp_spans \cup {MP!Place(mp_LARGE)}
    BY <1>1, <1>2, SmallAllocs DEF PoolInv
  <1>4. PoolLarge'
    BY <1>1, <1>3, LargeGrows DEF PoolInv
  <1> QED
    BY <1>3, <1>4 DEF PoolInv

LEMMA PoolAllocsLarge ==
    ASSUME PoolConstants, PoolInv, NEW x \in mp_Chunks, MP!AllocLarge(x)
    PROVE  PoolInv'
  <1>1. mp_blocks # << >> /\ x \notin mp_heap /\ mp_heap' = mp_heap \cup {x}
    BY DEF MP!AllocLarge
  <1>2. CASE MP!WithNewNode(x)
    BY <1>1, <1>2, PoolAddsNode
  <1>3. CASE ~ MP!WithNewNode(x)
    <2> DEFINE i == MP!First(MP!Reusable)
    <2>1. /\ MP!Reusable # {} /\ mp_large' = [mp_large EXCEPT ![i].alloc = x]
          /\ mp_blocks' = mp_blocks /\ mp_current' = mp_current /\ mp_spans' = mp_spans
      BY <1>3 DEF MP!AllocLarge
    <2>2. i \in MP!Reusable
      <3>1. MP!Reusable \in SUBSET Nat
        BY DEF MP!Reusable
      <3> QED
        BY <2>1, <3>1, LeastExists DEF MP!First
    <2>3. i \in 1 .. Len(mp_large) /\ mp_large[i].alloc = mp_NoChunk
      BY <2>2 DEF MP!Reusable
    <2> HIDE DEF i
    <2>4. PoolLarge'
      BY <1>1, <2>1, <2>3, LargeReuses DEF PoolInv
    <2>5. PoolBlocks' /\ PoolSpans'
      BY <2>1 DEF PoolInv, PoolBlocks, PoolSpans
    <2> QED
      BY <2>4, <2>5 DEF PoolInv
  <1> QED
    BY <1>2, <1>3

\* A chunk of the heap stands in one node, any other in none.
LEMMA LargeCounts ==
    ASSUME PoolConstants, PoolLarge, NEW x \in mp_Chunks
    PROVE  MP!Cardinality({i \in 1 .. Len(mp_large) : mp_large[i].alloc = x}) = IF x \in mp_heap THEN 1 ELSE 0
  <1> DEFINE nodes == {i \in 1 .. Len(mp_large) : mp_large[i].alloc = x}
  <1>1. x # mp_NoChunk
    BY DEF PoolConstants, MP!Parameters
  <1>2. CASE x \in mp_heap
    <2>1. PICK i \in 1 .. Len(mp_large) : mp_large[i].alloc = x
      BY <1>2 DEF PoolLarge
    <2>2. nodes = {i}
      BY <1>1, <2>1 DEF PoolLarge
    <2> QED
      BY <1>2, <2>2, FS_Singleton, PoolCardinality
  <1>3. CASE x \notin mp_heap
    <2>1. nodes = {}
      BY <1>1, <1>3 DEF PoolLarge
    <2> QED
      BY <1>3, <2>1, FS_EmptySet, PoolCardinality
  <1> QED
    BY <1>2, <1>3

\* In every sequence of calls allocations do not overlap and lie in their
\* blocks, every large chunk stands once in the list that frees it, and the
\* nodes of this list are allocations of their own (mmpool.c:54-206).
THEOREM AllocationsDisjoint == PoolConstants /\ StandaloneSpec => []PoolOK
  <1> SUFFICES ASSUME PoolConstants PROVE StandaloneSpec => []PoolOK
    OBVIOUS
  <1>1. StandaloneInit => PoolInv
    BY PoolInit DEF StandaloneInit
  <1>2. [StandaloneNext]_allVars => MP!Next \/ UNCHANGED mpVars
    BY DEF StandaloneNext, allVars, vars, mpVars, tcVars, slVars, rbVars, mhVars, tmVars, rxVars,
           zpVars
  <1>3. PoolInv /\ [StandaloneNext]_allVars => PoolInv'
    <2> SUFFICES ASSUME PoolInv, MP!Next \/ UNCHANGED mpVars PROVE PoolInv'
      BY <1>2
    <2>1. ASSUME NEW x \in mp_Chunks, MP!Memalign(x) PROVE PoolInv'
      BY <2>1, PoolAddsNode DEF MP!Memalign
    <2>2. ASSUME NEW x \in mp_Chunks, MP!Free(x) PROVE PoolInv'
      <3>1. PoolLarge'
        BY <2>2, LargeFrees DEF PoolInv
      <3>2. mp_blocks' = mp_blocks /\ mp_current' = mp_current /\ mp_spans' = mp_spans
        BY <2>2 DEF MP!Free
      <3>3. PoolBlocks' /\ PoolSpans'
        BY <3>2 DEF PoolInv, PoolBlocks, PoolSpans
      <3> QED
        BY <3>1, <3>3 DEF PoolInv
    <2>3. CASE UNCHANGED mpVars
      BY <2>3 DEF mpVars, PoolInv, PoolBlocks, PoolSpans, PoolLarge
    <2> QED
      BY <2>1, <2>2, <2>3, PoolCreates, PoolResets, PoolDestroys, PoolAllocs, PoolAllocsLarge
         DEF MP!Next
  <1>4. PoolInv => PoolOK
    <2> SUFFICES ASSUME PoolInv PROVE MP!PoolOK
      BY DEF PoolOK
    <2>1. MP!TypeOK
      BY DEF PoolInv, PoolBlocks, PoolSpans, PoolLarge, PoolNodes, PoolSpan, MP!TypeOK
    <2>2. MP!Disjoint
      BY DEF PoolInv, PoolSpans, Lies, MP!Disjoint
    <2>3. MP!NodesIntact
      BY DEF PoolInv, PoolLarge, MP!NodesIntact
    <2>4. mp_blocks = << >> => mp_heap = {}
      <3> SUFFICES ASSUME mp_blocks = << >> PROVE mp_heap = {}
        OBVIOUS
      <3>1. 1 .. Len(mp_blocks) = {}
        OBVIOUS
      <3>2. mp_spans = {}
        BY <3>1 DEF PoolInv, PoolSpans
      <3> QED
        BY <3>2 DEF PoolInv, PoolLarge
    <2>5. MP!LargeOnce
      BY <2>4, LargeCounts DEF PoolInv, MP!LargeOnce
    <2> QED
      BY <2>1, <2>2, <2>3, <2>5 DEF MP!PoolOK
  <1> QED
    BY <1>1, <1>3, <1>4, PTL DEF StandaloneSpec

-----------------------------------------------------------------------------
(* The heap of timers: util/minheap-timer.c.                               *)

\* The list and its indexes fit in a uint32_t, and NULL is no entry.
HeapConstants ==
    /\ mh_amount \in Nat \ {0} /\ mh_UIntRange \in Nat /\ mh_amount < mh_UIntRange
    /\ mh_Expires \subseteq Nat /\ mh_NULL \notin mh_Expires

HeapPlaces == 0 .. mh_amount - 1
HeapLists == [HeapPlaces -> mh_Expires \cup {mh_NULL}]

PlacesOf(l, e) == {i \in HeapPlaces : l[i] = e}

\* The entries stand at 0 .. n.
FilledTo(l, n) ==
    /\ \A i \in 0 .. n : l[i] \in mh_Expires
    /\ \A i \in HeapPlaces : i > n => l[i] = mh_NULL

SameEntries(l, m) == \A e \in mh_Expires : Cardinality(PlacesOf(m, e)) = Cardinality(PlacesOf(l, e))

HeapUpTo(l, n) == \A i \in 1 .. n : l[MH!Parent(i)] <= l[i]

\* The entry at p alone may expire before its parent.
HeapBut(l, n, p) ==
    \A i \in 1 .. n :
        /\ i # p => l[MH!Parent(i)] <= l[i]
        /\ MH!Parent(i) = p /\ p > 0 => l[MH!Parent(p)] <= l[i]

LEMMA Parents ==
    ASSUME NEW p \in Nat \ {0}
    PROVE  /\ MH!Parent(p) \in Nat /\ MH!Parent(p) < p
           /\ p = 2 * MH!Parent(p) + 1 \/ p = 2 * MH!Parent(p) + 2
  <1>1. PICK q \in Nat : p = 2 * q + 1 \/ p = 2 * q + 2
    <2>1. /\ p - 1 \in Nat /\ (p - 1) \div 2 \in Nat /\ (p - 1) % 2 \in {0, 1}
          /\ p - 1 = 2 * ((p - 1) \div 2) + ((p - 1) % 2)
      OBVIOUS
    <2> QED
      BY <2>1
  <1>2. (p - 1) \div 2 = q
    BY <1>1
  <1> QED
    BY <1>1, <1>2 DEF MH!Parent

LEMMA SwapTypes ==
    ASSUME NEW l \in HeapLists, NEW i \in HeapPlaces, NEW j \in HeapPlaces
    PROVE  /\ MH!Swapped(l, i, j) \in HeapLists
           /\ MH!Swapped(l, i, j)[j] = l[i] /\ MH!Swapped(l, i, j)[i] = l[j]
           /\ \A x \in HeapPlaces : x # i /\ x # j => MH!Swapped(l, i, j)[x] = l[x]
  BY DEF MH!Swapped, HeapLists

LEMMA PlacesFinite ==
    ASSUME HeapConstants, NEW l, NEW e
    PROVE  IsFiniteSet(PlacesOf(l, e)) /\ Cardinality(PlacesOf(l, e)) \in Nat
  <1>1. mh_amount - 1 \in Int /\ 0 \in Int
    BY DEF HeapConstants
  <1>2. IsFiniteSet(HeapPlaces)
    BY <1>1, FS_Interval DEF HeapPlaces
  <1>3. PlacesOf(l, e) \subseteq HeapPlaces
    BY DEF PlacesOf
  <1>4. IsFiniteSet(PlacesOf(l, e))
    BY <1>2, <1>3, FS_Subset
  <1> QED
    BY <1>4, FS_CardinalityType

\* A swap moves entries and loses none.
LEMMA SwapKeeps ==
    ASSUME HeapConstants, NEW l \in HeapLists, NEW i \in HeapPlaces, NEW j \in HeapPlaces
    PROVE  SameEntries(l, MH!Swapped(l, i, j))
  <1> DEFINE m == MH!Swapped(l, i, j)
  <1>1. /\ m[j] = l[i] /\ m[i] = l[j]
        /\ \A x \in HeapPlaces : x # i /\ x # j => m[x] = l[x]
    BY SwapTypes
  <1> SUFFICES ASSUME NEW e \in mh_Expires PROVE Cardinality(PlacesOf(m, e)) = Cardinality(PlacesOf(l, e))
    BY DEF SameEntries
  <1> DEFINE S == PlacesOf(l, e)  T == PlacesOf(m, e)
             g == [x \in S |-> IF x = i THEN j ELSE IF x = j THEN i ELSE x]
  <1> HIDE DEF m
  <1>2. \A x \in S : x \in HeapPlaces /\ l[x] = e /\ g[x] \in T
    BY <1>1 DEF PlacesOf
  <1>3. \A x, y \in S : g[x] = g[y] => x = y
    OBVIOUS
  <1>4. \A y \in T : \E x \in S : g[x] = y
    <2> TAKE y \in T
    <2>1. y \in HeapPlaces /\ m[y] = e
      BY DEF PlacesOf
    <2>2. CASE y = i
      <3>1. j \in S
        BY <1>1, <2>1, <2>2 DEF PlacesOf
      <3> QED
        BY <2>2, <3>1
    <2>3. CASE y # i /\ y = j
      <3>1. i \in S
        BY <1>1, <2>1, <2>3 DEF PlacesOf
      <3> QED
        BY <2>3, <3>1
    <2>4. CASE y # i /\ y # j
      <3>1. y \in S
        BY <1>1, <2>1, <2>4 DEF PlacesOf
      <3> QED
        BY <2>4, <3>1
    <2> QED
      BY <2>2, <2>3, <2>4
  <1>5. g \in Bijection(S, T)
    <2>1. g \in [S -> T]
      BY <1>2
    <2> QED
      BY <1>3, <1>4, <2>1 DEF Bijection, Injection, Surjection, IsInjective
  <1>6. IsFiniteSet(S)
    BY PlacesFinite
  <1> HIDE DEF g, S, T
  <1>7. Cardinality(S) = Cardinality(T)
    BY <1>5, <1>6, FS_Bijection DEF ExistsBijection
  <1> QED
    BY <1>7 DEF S, T, m

(* adjust_up is recursive: a function that does as it says exists, and what  *)
(* holds of one step holds of all.                                          *)

Rise(f, k, p) ==
    IF p > 0 /\ k[MH!Parent(p)] > k[p] THEN f[MH!Parent(p)][MH!Swapped(k, p, MH!Parent(p))] ELSE k

RisesTo(f, n) == \A k \in HeapLists : \A p \in HeapPlaces : p < n => f[p][k] = Rise(f, k, p)

LEMMA ParentPlaces ==
    ASSUME HeapConstants, NEW p \in HeapPlaces, p > 0
    PROVE  /\ MH!Parent(p) \in HeapPlaces /\ MH!Parent(p) < p
           /\ \A k \in HeapLists : MH!Swapped(k, p, MH!Parent(p)) \in HeapLists
  <1>1. /\ p \in Nat \ {0} /\ p < mh_amount /\ mh_amount \in Nat
    BY DEF HeapConstants, HeapPlaces
  <1>2. MH!Parent(p) \in Nat /\ MH!Parent(p) < p
    BY <1>1, Parents
  <1>3. MH!Parent(p) \in HeapPlaces
    BY <1>1, <1>2 DEF HeapPlaces
  <1> QED
    BY <1>2, <1>3, SwapTypes

LEMMA RisesFurther ==
    ASSUME HeapConstants, NEW n \in Nat, \E f : RisesTo(f, n)
    PROVE  \E f : RisesTo(f, n + 1)
  <1>1. PICK f : RisesTo(f, n)
    OBVIOUS
  <1> DEFINE g == [p \in HeapPlaces |-> [k \in HeapLists |-> IF p < n THEN f[p][k] ELSE Rise(f, k, p)]]
  <1>2. \A k \in HeapLists : \A p \in HeapPlaces : g[p][k] = IF p < n THEN f[p][k] ELSE Rise(f, k, p)
    OBVIOUS
  <1> HIDE DEF g
  <1>3. ASSUME NEW k \in HeapLists, NEW p \in HeapPlaces, p < n + 1
        PROVE  g[p][k] = Rise(g, k, p)
    <2>1. g[p][k] = Rise(f, k, p)
      BY <1>1, <1>2 DEF RisesTo
    <2>2. CASE p > 0
      <3> DEFINE q == MH!Parent(p)  s == MH!Swapped(k, p, q)
      <3>1. q \in HeapPlaces /\ q < p /\ s \in HeapLists
        BY <2>2, ParentPlaces
      <3>2. q < n
        BY <1>3, <3>1 DEF HeapPlaces
      <3>3. g[q][s] = f[q][s]
        <4> HIDE DEF q, s
        <4> QED
          BY <1>2, <3>1, <3>2
      <3> QED
        BY <2>1, <3>3 DEF Rise
    <2>3. CASE ~(p > 0)
      BY <2>1, <2>3 DEF Rise
    <2> QED
      BY <2>2, <2>3
  <1>4. RisesTo(g, n + 1)
    BY <1>3 DEF RisesTo
  <1> QED
    BY <1>4

LEMMA RiseExists == HeapConstants => \E f : RisesTo(f, mh_amount)
  <1> SUFFICES ASSUME HeapConstants PROVE \E f : RisesTo(f, mh_amount)
    OBVIOUS
  <1> DEFINE bad == {n \in Nat : ~\E f : RisesTo(f, n)}
  <1>1. bad = {}
    <2> SUFFICES ASSUME bad # {} PROVE FALSE
      OBVIOUS
    <2>1. bad \in SUBSET Nat
      OBVIOUS
    <2>2. PICK m \in bad : \A j \in bad : ~(<<j, m>> \in OpToRel(<, Nat))
      BY <2>1, NatLessThanWellFounded, WFMin
    <2>3. \A j \in bad : m <= j
      BY <2>1, <2>2, LessThan
    <2>4. m \in Nat /\ ~\E f : RisesTo(f, m)
      OBVIOUS
    <2>5. m # 0
      <3>1. RisesTo(0, 0)
        BY DEF RisesTo, HeapPlaces
      <3> QED
        BY <2>4, <3>1
    <2>6. m - 1 \in Nat /\ ~(m <= m - 1) /\ (m - 1) + 1 = m
      BY <2>4, <2>5
    <2>7. \E f : RisesTo(f, m - 1)
      BY <2>3, <2>6
    <2>8. \E f : RisesTo(f, (m - 1) + 1)
      BY <2>6, <2>7, RisesFurther
    <2> QED
      BY <2>4, <2>6, <2>8
  <1>2. mh_amount \in Nat
    BY DEF HeapConstants
  <1> QED
    BY <1>1, <1>2

\* adjust_up is the outcome of such a function.
LEMMA AdjustRises ==
    ASSUME HeapConstants, NEW l \in HeapLists, NEW start \in HeapPlaces
    PROVE  \E f : RisesTo(f, mh_amount) /\ MH!adjust_up(l, start) = f[start][l]
  <1> DEFINE IsUp(f) == f = [p \in HeapPlaces |-> [k \in HeapLists |->
                             IF p > 0 /\ k[MH!Parent(p)] > k[p]
                             THEN f[MH!Parent(p)][MH!Swapped(k, p, MH!Parent(p))] ELSE k]]
             up == CHOOSE f : IsUp(f)
  <1>1. PICK f : RisesTo(f, mh_amount)
    BY RiseExists
  <1> DEFINE g == [p \in HeapPlaces |-> [k \in HeapLists |-> f[p][k]]]
  <1>2. \A k \in HeapLists : \A p \in HeapPlaces : g[p][k] = f[p][k]
    OBVIOUS
  <1>3. \A k \in HeapLists : \A p \in HeapPlaces : f[p][k] = Rise(g, k, p)
    <2> SUFFICES ASSUME NEW k \in HeapLists, NEW p \in HeapPlaces PROVE f[p][k] = Rise(g, k, p)
      OBVIOUS
    <2> HIDE DEF g
    <2>1. p < mh_amount
      BY DEF HeapPlaces, HeapConstants
    <2>2. f[p][k] = Rise(f, k, p)
      BY <1>1, <2>1 DEF RisesTo
    <2>3. CASE p > 0
      <3> DEFINE q == MH!Parent(p)  s == MH!Swapped(k, p, q)
      <3>1. q \in HeapPlaces /\ s \in HeapLists
        BY <2>3, ParentPlaces
      <3>2. g[q][s] = f[q][s]
        <4> HIDE DEF q, s
        <4> QED
          BY <1>2, <3>1
      <3> QED
        BY <2>2, <3>2 DEF Rise
    <2>4. CASE ~(p > 0)
      BY <2>2, <2>4 DEF Rise
    <2> QED
      BY <2>3, <2>4
  <1>4. IsUp(g)
    BY <1>3 DEF Rise
  <1>5. IsUp(up)
    <2> HIDE DEF g, IsUp
    <2> QED
      BY <1>4
  <1>6. RisesTo(up, mh_amount)
    <2> HIDE DEF up
    <2> QED
      BY <1>5 DEF RisesTo, Rise
  <1>7. DOMAIN l = HeapPlaces
    BY DEF HeapLists
  <1>8. MH!adjust_up(l, start) = up[start][l]
    BY <1>7 DEF MH!adjust_up, HeapLists
  <1> QED
    BY <1>6, <1>8

\* What adjust_up makes of a heap whose last entry may be out of order.
Raised(l, m, n) == m \in HeapLists /\ SameEntries(l, m) /\ FilledTo(m, n) /\ HeapUpTo(m, n)

\* One turn of the loop moves the disorder to the parent.
LEMMA SwapUp ==
    ASSUME HeapConstants, NEW k \in HeapLists, NEW n \in HeapPlaces, NEW p \in 1 .. n,
           FilledTo(k, n), HeapBut(k, n, p), k[MH!Parent(p)] > k[p],
           NEW s, s = MH!Swapped(k, p, MH!Parent(p))
    PROVE  FilledTo(s, n) /\ HeapBut(s, n, MH!Parent(p))
  <1> DEFINE q == MH!Parent(p)
  <1>0. n \in Nat /\ n < mh_amount /\ mh_amount \in Nat /\ p \in Nat \ {0} /\ p <= n /\ p \in HeapPlaces
    BY DEF HeapPlaces, HeapConstants
  <1>1. q \in HeapPlaces /\ q \in Nat /\ q < p /\ q \in 0 .. n /\ p \in 0 .. n
    BY <1>0, Parents, ParentPlaces DEF HeapPlaces
  <1>2. /\ s[p] = k[q] /\ s[q] = k[p]
        /\ \A x \in HeapPlaces : x # p /\ x # q => s[x] = k[x]
    <2>1. s = MH!Swapped(k, p, q)
      OBVIOUS
    <2> HIDE DEF q
    <2>2. p \in HeapPlaces /\ q \in HeapPlaces
      BY <1>0, <1>1
    <2>3. /\ MH!Swapped(k, p, q)[q] = k[p] /\ MH!Swapped(k, p, q)[p] = k[q]
          /\ \A x \in HeapPlaces : x # p /\ x # q => MH!Swapped(k, p, q)[x] = k[x]
      BY <2>2, SwapTypes
    <2> QED
      BY <2>1, <2>3
  <1>3. \A i \in 0 .. n : i \in HeapPlaces /\ k[i] \in mh_Expires /\ k[i] \in Nat
    <2> TAKE i \in 0 .. n
    <2>1. i \in HeapPlaces
      BY <1>0 DEF HeapPlaces
    <2>2. k[i] \in mh_Expires
      BY DEF FilledTo
    <2> QED
      BY <2>1, <2>2 DEF HeapConstants
  <1>4. FilledTo(s, n)
    <2>1. \A i \in 0 .. n : s[i] \in mh_Expires
      BY <1>1, <1>2, <1>3
    <2>2. \A i \in HeapPlaces : i > n => s[i] = mh_NULL
      <3> TAKE i \in HeapPlaces
      <3> HAVE i > n
      <3>1. i # p /\ i # q
        BY <1>0, <1>1
      <3>2. k[i] = mh_NULL
        BY DEF FilledTo
      <3> QED
        BY <1>2, <3>1, <3>2
    <2> QED
      BY <2>1, <2>2 DEF FilledTo
  <1>5. \A i \in 1 .. n : /\ i \in 0 .. n /\ i \in HeapPlaces /\ MH!Parent(i) \in 0 .. n
                          /\ MH!Parent(i) < i /\ MH!Parent(i) \in HeapPlaces /\ i > 0
    <2> TAKE i \in 1 .. n
    <2>1. i \in Nat \ {0} /\ i <= n
      BY <1>0
    <2>2. MH!Parent(i) \in Nat /\ MH!Parent(i) < i
      BY <2>1, Parents
    <2> QED
      BY <1>0, <2>1, <2>2 DEF HeapPlaces
  <1>6. k[q] \in Nat /\ k[p] \in Nat /\ k[q] > k[p]
    BY <1>1, <1>3
  <1>7. ASSUME NEW i \in 1 .. n, i # q PROVE s[MH!Parent(i)] <= s[i]
    <2> DEFINE j == MH!Parent(i)
    <2>1. /\ i \in HeapPlaces /\ j \in HeapPlaces /\ j < i /\ k[i] \in Nat /\ k[j] \in Nat
          /\ j # i
      BY <1>3, <1>5
    <2>2. CASE i = p
      BY <1>2, <1>6, <2>2
    <2>3. CASE i # p
      <3>1. s[i] = k[i] /\ k[j] <= k[i]
        BY <1>2, <1>7, <2>1, <2>3 DEF HeapBut
      <3>2. CASE j = p
        <4>1. k[q] <= k[i]
          BY <1>0, <3>2 DEF HeapBut
        <4> QED
          BY <1>2, <3>1, <3>2, <4>1
      <3>3. CASE j = q
        <4> HIDE DEF q, j
        <4>1. s[j] = k[p]
          BY <1>2, <3>3
        <4>2. k[q] <= k[i]
          BY <3>1, <3>3
        <4> QED
          BY <1>6, <2>1, <3>1, <4>1, <4>2 DEF j
      <3>4. CASE j # p /\ j # q
        BY <1>2, <2>1, <3>1, <3>4
      <3> QED
        BY <3>2, <3>3, <3>4
    <2> QED
      BY <2>2, <2>3
  <1>8. ASSUME NEW i \in 1 .. n, MH!Parent(i) = q, q > 0 PROVE s[MH!Parent(q)] <= s[i]
    <2> DEFINE j == MH!Parent(q)
    <2>1. q \in 1 .. n
      BY <1>1, <1>8
    <2>2. j \in HeapPlaces /\ j < q /\ k[j] \in Nat /\ j # p /\ j # q
      BY <1>1, <1>3, <1>5, <2>1
    <2>3. s[j] = k[j]
      BY <1>2, <2>2
    <2>4. k[j] <= k[q]
      BY <1>1, <2>1 DEF HeapBut
    <2>5. CASE i = p
      BY <1>2, <2>3, <2>4, <2>5
    <2>6. CASE i # p
      <3>1. i # q /\ k[q] <= k[i] /\ k[i] \in Nat /\ i \in HeapPlaces
        BY <1>3, <1>5, <1>8, <2>6 DEF HeapBut
      <3>2. s[i] = k[i]
        BY <1>2, <2>6, <3>1
      <3> QED
        BY <1>6, <2>2, <2>3, <2>4, <3>1, <3>2
    <2> QED
      BY <2>5, <2>6
  <1>9. HeapBut(s, n, q)
    BY <1>7, <1>8 DEF HeapBut
  <1> QED
    BY <1>4, <1>9

LEMMA SameEntriesChain ==
    ASSUME NEW l, NEW m, NEW k, SameEntries(l, m), SameEntries(m, k)
    PROVE  SameEntries(l, k)
  BY DEF SameEntries

LEMMA RisesToHeap ==
    ASSUME HeapConstants, NEW f, RisesTo(f, mh_amount), NEW n \in HeapPlaces
    PROVE  \A p \in 0 .. n : \A k \in HeapLists :
               FilledTo(k, n) /\ HeapBut(k, n, p) => Raised(k, f[p][k], n)
  <1> DEFINE Good(p) == \A k \in HeapLists :
                            FilledTo(k, n) /\ HeapBut(k, n, p) => Raised(k, f[p][k], n)
             bad == {p \in 0 .. n : ~Good(p)}
  <1>0. n \in Nat /\ n < mh_amount /\ mh_amount \in Nat
    BY DEF HeapPlaces, HeapConstants
  <1>1. ASSUME NEW p \in 0 .. n, p > 0 => Good(MH!Parent(p)) PROVE Good(p)
    <2> SUFFICES ASSUME NEW k \in HeapLists, FilledTo(k, n), HeapBut(k, n, p)
                 PROVE  Raised(k, f[p][k], n)
      OBVIOUS
    <2>0. p \in HeapPlaces /\ p < mh_amount
      BY <1>0 DEF HeapPlaces
    <2>1. f[p][k] = Rise(f, k, p)
      BY <2>0 DEF RisesTo
    <2>2. CASE p > 0 /\ k[MH!Parent(p)] > k[p]
      <3> DEFINE q == MH!Parent(p)  s == MH!Swapped(k, p, q)
      <3>1. f[p][k] = f[q][s]
        BY <2>1, <2>2 DEF Rise
      <3>2. q \in HeapPlaces /\ s \in HeapLists
        BY <2>0, <2>2, ParentPlaces
      <3>3. p \in 1 .. n
        BY <2>2
      <3>4. FilledTo(s, n) /\ HeapBut(s, n, q)
        BY <2>2, <3>3, SwapUp
      <3>5. SameEntries(k, s)
        BY <2>0, <3>2, SwapKeeps
      <3>6. Good(q)
        BY <1>1, <2>2
      <3> HIDE DEF q, s
      <3>7. Raised(s, f[q][s], n)
        BY <3>2, <3>4, <3>6
      <3> QED
        BY <3>1, <3>5, <3>7, SameEntriesChain DEF Raised
    <2>3. CASE ~(p > 0 /\ k[MH!Parent(p)] > k[p])
      <3>1. f[p][k] = k
        BY <2>1, <2>3 DEF Rise
      <3>2. HeapUpTo(k, n)
        <4> SUFFICES ASSUME NEW i \in 1 .. n PROVE k[MH!Parent(i)] <= k[i]
          BY DEF HeapUpTo
        <4>1. CASE i # p
          BY <4>1 DEF HeapBut
        <4>2. CASE i = p
          <5>1. p \in Nat \ {0} /\ p \in 0 .. n
            BY <1>0, <4>2
          <5>2. MH!Parent(p) \in 0 .. n
            BY <1>0, <5>1, Parents
          <5>3. k[p] \in Nat /\ k[MH!Parent(p)] \in Nat
            BY <5>1, <5>2 DEF FilledTo, HeapConstants
          <5> QED
            BY <2>3, <4>2, <5>1, <5>3
        <4> QED
          BY <4>1, <4>2
      <3> QED
        BY <3>1, <3>2 DEF Raised, SameEntries
    <2> QED
      BY <2>2, <2>3
  <1> HIDE DEF Good
  <1>2. bad = {}
    <2> SUFFICES ASSUME bad # {} PROVE FALSE
      OBVIOUS
    <2>1. bad \in SUBSET Nat
      BY <1>0
    <2>2. PICK m \in bad : \A j \in bad : ~(<<j, m>> \in OpToRel(<, Nat))
      BY <2>1, NatLessThanWellFounded, WFMin
    <2>3. \A j \in bad : m <= j
      BY <2>1, <2>2, LessThan
    <2>4. m \in 0 .. n /\ ~Good(m)
      OBVIOUS
    <2>5. CASE m > 0
      <3>1. m \in Nat \ {0}
        BY <1>0, <2>4, <2>5
      <3>2. MH!Parent(m) \in 0 .. n /\ ~(m <= MH!Parent(m))
        BY <1>0, <2>4, <3>1, Parents
      <3>3. Good(MH!Parent(m))
        BY <2>3, <3>2
      <3> QED
        BY <1>1, <2>4, <3>3
    <2>6. CASE ~(m > 0)
      BY <1>1, <2>4, <2>6
    <2> QED
      BY <2>5, <2>6
  <1> QED
    BY <1>2 DEF Good

\* The first entry of a heap expires first.
LEMMA FirstIsLeast ==
    ASSUME HeapConstants, NEW l \in HeapLists, NEW n \in HeapPlaces, FilledTo(l, n), HeapUpTo(l, n)
    PROVE  \A i \in 0 .. n : l[0] <= l[i]
  <1> DEFINE bad == {i \in 0 .. n : ~(l[0] <= l[i])}
  <1>0. n \in Nat
    BY DEF HeapPlaces
  <1>1. bad = {}
    <2> SUFFICES ASSUME bad # {} PROVE FALSE
      OBVIOUS
    <2>1. bad \in SUBSET Nat
      BY <1>0
    <2>2. PICK m \in bad : \A j \in bad : ~(<<j, m>> \in OpToRel(<, Nat))
      BY <2>1, NatLessThanWellFounded, WFMin
    <2>3. \A j \in bad : m <= j
      BY <2>1, <2>2, LessThan
    <2>4. m \in 0 .. n /\ ~(l[0] <= l[m])
      OBVIOUS
    <2>5. \A i \in 0 .. n : l[i] \in Nat
      BY DEF FilledTo, HeapConstants
    <2>6. m # 0 /\ m \in Nat \ {0} /\ m \in 1 .. n
      BY <1>0, <2>4, <2>5
    <2>7. MH!Parent(m) \in 0 .. n /\ ~(m <= MH!Parent(m))
      BY <1>0, <2>4, <2>6, Parents
    <2>8. l[0] <= l[MH!Parent(m)]
      BY <2>3, <2>7
    <2>9. l[MH!Parent(m)] <= l[m]
      BY <2>6 DEF HeapUpTo
    <2>10. 0 \in 0 .. n
      BY <1>0
    <2> QED
      BY <2>4, <2>5, <2>7, <2>8, <2>9, <2>10
  <1> QED
    BY <1>1

LEMMA RisesToList ==
    ASSUME HeapConstants, NEW f, RisesTo(f, mh_amount)
    PROVE  \A p \in HeapPlaces : \A k \in HeapLists : f[p][k] \in HeapLists
  <1> DEFINE Good(p) == \A k \in HeapLists : f[p][k] \in HeapLists
             bad == {p \in HeapPlaces : ~Good(p)}
  <1>1. ASSUME NEW p \in HeapPlaces, p > 0 => Good(MH!Parent(p)) PROVE Good(p)
    <2> SUFFICES ASSUME NEW k \in HeapLists PROVE f[p][k] \in HeapLists
      OBVIOUS
    <2>1. p < mh_amount
      BY DEF HeapPlaces, HeapConstants
    <2>2. f[p][k] = Rise(f, k, p)
      BY <2>1 DEF RisesTo
    <2>3. p > 0 => MH!Swapped(k, p, MH!Parent(p)) \in HeapLists
      BY ParentPlaces
    <2> QED
      BY <1>1, <2>2, <2>3 DEF Rise
  <1> HIDE DEF Good
  <1>2. bad = {}
    <2> SUFFICES ASSUME bad # {} PROVE FALSE
      OBVIOUS
    <2>1. bad \in SUBSET Nat
      BY DEF HeapPlaces
    <2>2. PICK m \in bad : \A j \in bad : ~(<<j, m>> \in OpToRel(<, Nat))
      BY <2>1, NatLessThanWellFounded, WFMin
    <2>3. \A j \in bad : m <= j
      BY <2>1, <2>2, LessThan
    <2>4. m \in HeapPlaces /\ ~Good(m) /\ m \in Nat
      BY <2>1
    <2>5. CASE m > 0
      <3>1. MH!Parent(m) \in HeapPlaces /\ MH!Parent(m) < m /\ MH!Parent(m) \in Nat
        BY <2>4, <2>5, ParentPlaces DEF HeapPlaces
      <3>2. ~(m <= MH!Parent(m))
        BY <2>4, <3>1
      <3>3. Good(MH!Parent(m))
        BY <2>3, <3>1, <3>2
      <3> QED
        BY <1>1, <2>4, <3>3
    <2>6. CASE ~(m > 0)
      BY <1>1, <2>4, <2>6
    <2> QED
      BY <2>5, <2>6
  <1> QED
    BY <1>2 DEF Good

LEMMA AdjustKeeps ==
    ASSUME HeapConstants, NEW l \in HeapLists, NEW n \in HeapPlaces
    PROVE  /\ MH!adjust_up(l, n) \in HeapLists
           /\ FilledTo(l, n) /\ HeapBut(l, n, n) => Raised(l, MH!adjust_up(l, n), n)
  <1>1. PICK f : RisesTo(f, mh_amount) /\ MH!adjust_up(l, n) = f[n][l]
    BY AdjustRises
  <1>2. f[n][l] \in HeapLists
    BY <1>1, RisesToList
  <1>3. n \in 0 .. n
    BY DEF HeapPlaces
  <1>4. FilledTo(l, n) /\ HeapBut(l, n, n) => Raised(l, f[n][l], n)
    BY <1>1, <1>3, RisesToHeap
  <1> QED
    BY <1>1, <1>2, <1>4

LEMMA Placed ==
    ASSUME NEW l \in HeapLists, NEW i \in HeapPlaces, NEW e
    PROVE  /\ [l EXCEPT ![i] = e][i] = e
           /\ \A j \in HeapPlaces : j # i => [l EXCEPT ![i] = e][j] = l[j]
  BY DEF HeapLists

\* A new entry counts once.
LEMMA PlaceCounts ==
    ASSUME HeapConstants, NEW l \in HeapLists, NEW i \in HeapPlaces, l[i] = mh_NULL,
           NEW e \in mh_Expires, NEW x \in mh_Expires
    PROVE  Cardinality(PlacesOf([l EXCEPT ![i] = e], x)) = Cardinality(PlacesOf(l, x)) + (IF x = e THEN 1 ELSE 0)
  <1> DEFINE m == [l EXCEPT ![i] = e]
  <1> SUFFICES Cardinality(PlacesOf(m, x)) = Cardinality(PlacesOf(l, x)) + (IF x = e THEN 1 ELSE 0)
    OBVIOUS
  <1>1. m[i] = e /\ \A j \in HeapPlaces : j # i => m[j] = l[j]
    BY Placed
  <1>2. l[i] # x
    BY DEF HeapConstants
  <1> HIDE DEF m
  <1>3. CASE x = e
    <2>1. PlacesOf(m, x) = PlacesOf(l, x) \cup {i} /\ i \notin PlacesOf(l, x)
      BY <1>1, <1>2, <1>3 DEF PlacesOf
    <2>2. IsFiniteSet(PlacesOf(l, x)) /\ Cardinality(PlacesOf(l, x)) \in Nat
      BY PlacesFinite
    <2> QED
      BY <1>3, <2>1, <2>2, FS_AddElement
  <1>4. CASE x # e
    <2>1. PlacesOf(m, x) = PlacesOf(l, x)
      BY <1>1, <1>2, <1>4 DEF PlacesOf
    <2>2. Cardinality(PlacesOf(l, x)) \in Nat
      BY PlacesFinite
    <2> QED
      BY <1>4, <2>1, <2>2
  <1> QED
    BY <1>3, <1>4

\* Until the first pop.
HeapHolds ==
    /\ mh_last \in HeapPlaces
    /\ \A e \in mh_Expires : mh_pushed[e] = Cardinality(PlacesOf(mh_list, e))
    /\ IF mh_list[0] = mh_NULL
       THEN mh_last = 0 /\ \A i \in HeapPlaces : mh_list[i] = mh_NULL
       ELSE FilledTo(mh_list, mh_last) /\ HeapUpTo(mh_list, mh_last)

HeapTypes ==
    /\ mh_list \in HeapLists /\ mh_last \in Nat /\ mh_pushed \in [mh_Expires -> Nat]
    /\ mh_popped \in Seq(mh_Expires \cup {mh_NULL})

FirstWasLeast ==
    Len(mh_popped) = 1 /\ mh_popped[1] # mh_NULL /\ mh_status = "down" =>
        \A e \in mh_Expires : mh_pushed[e] > 0 => mh_popped[1] <= e

HeapInv ==
    /\ HeapTypes /\ FirstWasLeast
    /\ mh_popped = << >> => mh_status # "down" /\ (mh_status = "up" => HeapHolds)

LEMMA HeapStart == HeapConstants /\ MH!Init => HeapInv
  <1> SUFFICES ASSUME HeapConstants, MH!Init PROVE HeapInv
    OBVIOUS
  <1>1. /\ mh_list = [i \in HeapPlaces |-> mh_NULL] /\ mh_last = 0
        /\ mh_pushed = [e \in mh_Expires |-> 0] /\ mh_popped = << >> /\ mh_status = "up"
    BY DEF MH!Init, HeapPlaces
  <1>2. HeapTypes
    BY <1>1 DEF HeapTypes, HeapLists
  <1>3. 0 \in HeapPlaces
    BY DEF HeapPlaces, HeapConstants
  <1>4. \A i \in HeapPlaces : mh_list[i] = mh_NULL
    BY <1>1
  <1>5. \A e \in mh_Expires : mh_pushed[e] = Cardinality(PlacesOf(mh_list, e))
    <2> TAKE e \in mh_Expires
    <2>1. PlacesOf(mh_list, e) = {}
      BY <1>4 DEF PlacesOf, HeapConstants
    <2> QED
      BY <1>1, <2>1, FS_EmptySet
  <1>6. HeapHolds
    BY <1>1, <1>3, <1>4, <1>5 DEF HeapHolds
  <1> QED
    BY <1>1, <1>2, <1>6 DEF HeapInv, FirstWasLeast

\* mhp_timer_top, and what the first pop gives.
LEMMA TopIsLeast ==
    ASSUME HeapConstants, HeapTypes, HeapHolds, NEW e \in mh_Expires, mh_pushed[e] > 0
    PROVE  mh_list[0] # mh_NULL /\ mh_list[0] <= e
  <1>1. PlacesOf(mh_list, e) # {}
    BY FS_EmptySet DEF HeapHolds
  <1>2. PICK i \in HeapPlaces : mh_list[i] = e
    BY <1>1 DEF PlacesOf
  <1>3. e # mh_NULL
    BY DEF HeapConstants
  <1>4. mh_list[0] # mh_NULL
    BY <1>2, <1>3 DEF HeapHolds
  <1>5. mh_last \in HeapPlaces /\ FilledTo(mh_list, mh_last) /\ HeapUpTo(mh_list, mh_last)
    BY <1>4 DEF HeapHolds
  <1>6. i \in 0 .. mh_last
    BY <1>2, <1>3, <1>5 DEF FilledTo, HeapPlaces
  <1>7. mh_list \in HeapLists
    BY DEF HeapTypes
  <1>8. mh_list[0] <= mh_list[i]
    BY <1>5, <1>6, <1>7, FirstIsLeast
  <1> QED
    BY <1>2, <1>4, <1>8

LEMMA HeapPush ==
    ASSUME HeapConstants, HeapInv, NEW e \in mh_Expires, MH!mhp_timer_push(e)
    PROVE  HeapInv'
  <1> DEFINE n == mh_last + 1
             l == [mh_list EXCEPT ![n] = e]
  <1>0. /\ mh_amount \in Nat \ {0} /\ mh_UIntRange \in Nat /\ mh_amount < mh_UIntRange
        /\ mh_Expires \subseteq Nat
    BY DEF HeapConstants
  <1>1. /\ mh_status = "up" /\ mh_pushed' = [mh_pushed EXCEPT ![e] = @ + 1]
        /\ mh_popped' = mh_popped
    BY DEF MH!mhp_timer_push
  <1>2. /\ mh_list \in HeapLists /\ mh_last \in Nat /\ mh_pushed \in [mh_Expires -> Nat]
        /\ mh_popped \in Seq(mh_Expires \cup {mh_NULL}) /\ 0 \in HeapPlaces
        /\ DOMAIN mh_list = HeapPlaces
    BY <1>0 DEF HeapInv, HeapTypes, HeapPlaces, HeapLists
  <1>3. /\ mh_pushed' \in [mh_Expires -> Nat] /\ mh_popped' \in Seq(mh_Expires \cup {mh_NULL})
        /\ \A x \in mh_Expires : mh_pushed'[x] = mh_pushed[x] + (IF x = e THEN 1 ELSE 0)
    BY <1>1, <1>2
  <1>4. mh_popped = << >> => HeapHolds
    BY <1>1 DEF HeapInv
  <1>5. CASE mh_list[0] = mh_NULL
    <2>1. mh_list' = [mh_list EXCEPT ![0] = e] /\ mh_last' = mh_last /\ mh_status' = "up"
      BY <1>1, <1>5 DEF MH!mhp_timer_push
    <2>2. mh_list' \in HeapLists
      BY <1>2, <2>1 DEF HeapLists
    <2>3. ASSUME mh_popped = << >> PROVE HeapHolds'
      <3>1. /\ mh_last = 0 /\ \A i \in HeapPlaces : mh_list[i] = mh_NULL
            /\ \A x \in mh_Expires : mh_pushed[x] = Cardinality(PlacesOf(mh_list, x))
        BY <1>4, <1>5, <2>3 DEF HeapHolds
      <3>2. \A x \in mh_Expires : mh_pushed'[x] = Cardinality(PlacesOf(mh_list', x))
        <4> TAKE x \in mh_Expires
        <4>1. Cardinality(PlacesOf(mh_list', x)) = Cardinality(PlacesOf(mh_list, x)) + (IF x = e THEN 1 ELSE 0)
          <5>1. Cardinality(PlacesOf([mh_list EXCEPT ![0] = e], x))
                    = Cardinality(PlacesOf(mh_list, x)) + (IF x = e THEN 1 ELSE 0)
            BY <1>2, <1>5, PlaceCounts
          <5> QED
            BY <2>1, <5>1
        <4>2. mh_pushed'[x] = mh_pushed[x] + (IF x = e THEN 1 ELSE 0)
          BY <1>3
        <4>3. mh_pushed[x] = Cardinality(PlacesOf(mh_list, x))
          BY <3>1
        <4> QED
          BY <4>1, <4>2, <4>3
      <3>3. mh_list'[0] = e /\ e # mh_NULL /\ \A i \in HeapPlaces : i > 0 => mh_list'[i] = mh_NULL
        BY <1>2, <2>1, <3>1 DEF HeapConstants
      <3>4. FilledTo(mh_list', 0) /\ HeapUpTo(mh_list', 0)
        BY <3>3 DEF FilledTo, HeapUpTo
      <3> QED
        BY <1>2, <2>1, <3>1, <3>2, <3>3, <3>4 DEF HeapHolds, PlacesOf
    <2> QED
      BY <1>1, <1>2, <1>3, <2>1, <2>2, <2>3 DEF HeapInv, HeapTypes, FirstWasLeast
  <1>6. CASE mh_list[0] # mh_NULL /\ (mh_last + 1) % mh_UIntRange >= mh_amount
    <2>1. mh_status' = "crashed" /\ mh_list' = mh_list /\ mh_last' = mh_last
      BY <1>6 DEF MH!mhp_timer_push
    <2> QED
      BY <1>1, <1>2, <1>3, <2>1 DEF HeapInv, HeapTypes, FirstWasLeast
  <1>7. CASE mh_list[0] # mh_NULL /\ ~((mh_last + 1) % mh_UIntRange >= mh_amount)
    <2> DEFINE w == (mh_last + 1) % mh_UIntRange
               k == [mh_list EXCEPT ![w] = e]
    <2>1. mh_list' = MH!adjust_up(k, w) /\ mh_last' = w /\ mh_status' = "up"
      BY <1>1, <1>7 DEF MH!mhp_timer_push
    <2>2. w \in HeapPlaces /\ w \in Nat
      <3>1. w \in Nat
        BY <1>0, <1>2
      <3> HIDE DEF w
      <3> QED
        BY <1>0, <1>7, <3>1 DEF HeapPlaces, w
    <2>3. k \in HeapLists
      BY <1>2, <2>2 DEF HeapLists
    <2>4. mh_list' \in HeapLists
      BY <2>1, <2>2, <2>3, AdjustKeeps
    <2>5. ASSUME mh_popped = << >> PROVE HeapHolds'
      <3>1. /\ mh_last \in HeapPlaces /\ FilledTo(mh_list, mh_last) /\ HeapUpTo(mh_list, mh_last)
            /\ \A x \in mh_Expires : mh_pushed[x] = Cardinality(PlacesOf(mh_list, x))
        BY <1>4, <1>7, <2>5 DEF HeapHolds
      <3>2. w = mh_last + 1
        <4>1. mh_last + 1 < mh_UIntRange /\ mh_last + 1 \in Nat
          BY <1>0, <1>2, <3>1 DEF HeapPlaces
        <4> QED
          BY <1>0, <4>1, SmallMod
      <3> HIDE DEF w
      <3>3. mh_list[w] = mh_NULL
        BY <1>2, <2>2, <3>1, <3>2 DEF FilledTo
      <3>4. k[w] = e /\ \A i \in HeapPlaces : i # w => k[i] = mh_list[i]
        <4>1. w \in HeapPlaces /\ mh_list \in HeapLists
          BY <1>2, <2>2
        <4> QED
          BY <4>1, Placed
      <3>5. \A i \in 0 .. mh_last : i \in HeapPlaces /\ i # w
        BY <1>0, <1>2, <3>1, <3>2 DEF HeapPlaces
      <3>6. FilledTo(k, w)
        <4>1. \A i \in 0 .. w : i = w \/ i \in 0 .. mh_last
          BY <1>2, <3>2
        <4>2. \A i \in HeapPlaces : i > w => i > mh_last /\ i # w
          BY <1>2, <3>2 DEF HeapPlaces
        <4> HIDE DEF k
        <4> QED
          BY <3>1, <3>4, <3>5, <4>1, <4>2 DEF FilledTo
      <3>7. HeapBut(k, w, w)
        <4> SUFFICES ASSUME NEW i \in 1 .. w
                     PROVE  /\ i # w => k[MH!Parent(i)] <= k[i]
                            /\ ~(MH!Parent(i) = w)
          BY DEF HeapBut
        <4>1. i \in Nat \ {0} /\ i <= w
          BY <2>2
        <4>2. MH!Parent(i) \in Nat /\ MH!Parent(i) < i
          BY <4>1, Parents
        <4>3. MH!Parent(i) # w
          BY <2>2, <4>1, <4>2
        <4>4. ASSUME i # w PROVE k[MH!Parent(i)] <= k[i]
          <5>1. i \in 1 .. mh_last /\ i \in 0 .. mh_last /\ MH!Parent(i) \in 0 .. mh_last
            BY <1>2, <3>2, <4>1, <4>2, <4>4
          <5>2. mh_list[MH!Parent(i)] <= mh_list[i]
            BY <3>1, <5>1 DEF HeapUpTo
          <5> HIDE DEF k
          <5> QED
            BY <3>4, <3>5, <5>1, <5>2
        <4> QED
          BY <4>3, <4>4
      <3>8. Raised(k, mh_list', w)
        BY <2>1, <2>2, <2>3, <3>6, <3>7, AdjustKeeps
      <3>9. \A x \in mh_Expires : mh_pushed'[x] = Cardinality(PlacesOf(mh_list', x))
        <4> TAKE x \in mh_Expires
        <4>1. Cardinality(PlacesOf(k, x)) = Cardinality(PlacesOf(mh_list, x)) + (IF x = e THEN 1 ELSE 0)
          <5>1. mh_list \in HeapLists /\ w \in HeapPlaces
            BY <1>2, <2>2
          <5> QED
            BY <3>3, <5>1, PlaceCounts
        <4>2. Cardinality(PlacesOf(mh_list', x)) = Cardinality(PlacesOf(k, x))
          BY <3>8 DEF Raised, SameEntries
        <4> QED
          BY <1>3, <3>1, <4>1, <4>2
      <3>10. mh_list'[0] # mh_NULL
        <4>1. 0 \in 0 .. w
          BY <2>2
        <4> QED
          BY <3>8, <4>1 DEF Raised, FilledTo, HeapConstants
      <3>11. FilledTo(mh_list', w) /\ HeapUpTo(mh_list', w)
        BY <3>8 DEF Raised
      <3> QED
        BY <2>1, <2>2, <3>9, <3>10, <3>11 DEF HeapHolds, PlacesOf
    <2> QED
      BY <1>1, <1>3, <2>1, <2>2, <2>4, <2>5 DEF HeapInv, HeapTypes, FirstWasLeast
  <1> QED
    BY <1>5, <1>6, <1>7

LEMMA HeapPop == ASSUME HeapConstants, HeapInv, MH!nhp_timer_pop PROVE HeapInv'
  <1>0. /\ mh_amount \in Nat \ {0} /\ mh_UIntRange \in Nat \ {0} /\ mh_Expires \subseteq Nat
        /\ mh_list \in HeapLists /\ mh_last \in Nat
        /\ mh_popped \in Seq(mh_Expires \cup {mh_NULL}) /\ 0 \in HeapPlaces
    BY DEF HeapConstants, HeapInv, HeapTypes, HeapPlaces
  <1>1. /\ mh_status = "up" /\ mh_popped' = Append(mh_popped, mh_list[0]) /\ mh_pushed' = mh_pushed
        /\ mh_last' = (mh_last - 1) % mh_UIntRange
    BY DEF MH!nhp_timer_pop
  <1>2. mh_list' \in HeapLists
    <2>1. CASE mh_last < mh_amount
      <3>1. mh_list' = MH!Swapped(mh_list, 0, mh_last) /\ mh_last \in HeapPlaces
        BY <1>0, <2>1 DEF MH!nhp_timer_pop, HeapPlaces
      <3> QED
        BY <1>0, <3>1, SwapTypes
    <2>2. CASE ~(mh_last < mh_amount)
      BY <1>0, <2>2 DEF MH!nhp_timer_pop
    <2> QED
      BY <2>1, <2>2
  <1>3. mh_list[0] \in mh_Expires \cup {mh_NULL}
    BY <1>0 DEF HeapLists
  <1>4. /\ mh_popped' \in Seq(mh_Expires \cup {mh_NULL}) /\ Len(mh_popped') = Len(mh_popped) + 1
        /\ mh_popped'[Len(mh_popped) + 1] = mh_list[0] /\ Len(mh_popped) \in Nat
        /\ (Len(mh_popped) = 0 => mh_popped = << >>)
    BY <1>0, <1>1, <1>3
  <1>5. mh_popped' # << >>
    BY <1>4
  <1>6. mh_last' \in Nat
    BY <1>0, <1>1
  <1>7. ASSUME Len(mh_popped') = 1, NEW e \in mh_Expires, mh_pushed[e] > 0
        PROVE  mh_popped'[1] <= e
    <2>0. Len(mh_popped) = 0
      <3> DEFINE before == Len(mh_popped)  after == Len(mh_popped')
      <3>1. before \in Nat /\ after = before + 1 /\ after = 1
        BY <1>4, <1>7
      <3> HIDE DEF before, after
      <3>2. before = 0
        BY <3>1
      <3> QED
        BY <3>2 DEF before
    <2>1. mh_popped = << >> /\ mh_popped'[1] = mh_list[0]
      <3>1. mh_popped = << >>
        BY <1>4, <2>0
      <3>2. Len(mh_popped) + 1 = 1
        BY <2>0
      <3>3. mh_popped'[Len(mh_popped) + 1] = mh_list[0]
        BY <1>4
      <3> QED
        BY <3>1, <3>2, <3>3
    <2>2. HeapHolds /\ HeapTypes
      BY <1>1, <2>1 DEF HeapInv
    <2> QED
      BY <1>7, <2>1, <2>2, TopIsLeast
  <1> QED
    BY <1>1, <1>2, <1>4, <1>5, <1>6, <1>7 DEF HeapInv, HeapTypes, FirstWasLeast

LEMMA HeapDown == ASSUME HeapConstants, HeapInv, MH!adjust_down PROVE HeapInv'
  <1>1. /\ mh_status = "down" /\ mh_last' = mh_last /\ mh_pushed' = mh_pushed /\ mh_popped' = mh_popped
        /\ mh_popped # << >>
    BY DEF MH!adjust_down, HeapInv
  <1>2. mh_list' \in HeapLists
    <2>1. mh_list \in HeapLists /\ DOMAIN mh_list = HeapPlaces
      BY DEF HeapInv, HeapTypes, HeapLists
    <2>2. \/ mh_list' = mh_list
          \/ \E i, j \in HeapPlaces : mh_list' = MH!Swapped(mh_list, i, j)
      BY <2>1 DEF MH!adjust_down, MH!Entry
    <2> QED
      BY <2>1, <2>2, SwapTypes
  <1> QED
    BY <1>1, <1>2 DEF HeapInv, HeapTypes, FirstWasLeast

LEMMA HeapStep == HeapConstants /\ HeapInv /\ [MH!Next]_mhVars => HeapInv'
  <1> SUFFICES ASSUME HeapConstants, HeapInv, [MH!Next]_mhVars PROVE HeapInv'
    OBVIOUS
  <1>1. CASE UNCHANGED mhVars
    BY <1>1 DEF mhVars, HeapInv, HeapTypes, FirstWasLeast, HeapHolds
  <1> QED
    BY <1>1, HeapPush, HeapPop, HeapDown DEF MH!Next

LEMMA HeapCardinality == ASSUME NEW S PROVE MH!Cardinality(S) = Cardinality(S)
  BY DEF MH!Cardinality, Cardinality

\* Whatever was pushed and in whatever order: until the first pop the list holds
\* just that, no entry expires before its parent, and mhp_timer_top and the first
\* pop give the earliest (minheap-timer.c:26-35, 95-136).
THEOREM TopExpiresFirst == HeapConstants /\ StandaloneSpec => []HeapOK
  <1> SUFFICES ASSUME HeapConstants PROVE StandaloneSpec => []HeapOK
    OBVIOUS
  <1>1. StandaloneInit => HeapInv
    BY HeapStart DEF StandaloneInit
  <1>2. [StandaloneNext]_allVars => [MH!Next]_mhVars
    BY DEF StandaloneNext, allVars, mpVars, tcVars, slVars, rbVars, mhVars, tmVars, rxVars,
           zpVars
  <1>3. HeapInv /\ [StandaloneNext]_allVars => HeapInv'
    BY <1>2, HeapStep
  <1>4. HeapInv => HeapOK
    <2> SUFFICES ASSUME HeapInv PROVE MH!HeapOK
      BY DEF HeapOK
    <2>1. mh_list \in HeapLists /\ DOMAIN mh_list = HeapPlaces
      BY DEF HeapInv, HeapTypes, HeapLists
    <2>2. ASSUME mh_popped = << >>, mh_status = "up"
          PROVE  /\ \A e \in mh_Expires :
                        mh_pushed[e] = MH!Cardinality({i \in DOMAIN mh_list : mh_list[i] = e})
                 /\ \A i \in 1 .. mh_last : mh_list[(i - 1) \div 2] <= mh_list[i]
                 /\ \A e \in mh_Expires : mh_pushed[e] > 0 => mh_list[0] <= e
      <3>1. HeapTypes /\ HeapHolds
        BY <2>2 DEF HeapInv
      <3>2. \A e \in mh_Expires : {i \in DOMAIN mh_list : mh_list[i] = e} = PlacesOf(mh_list, e)
        BY <2>1 DEF PlacesOf
      <3>3. \A e \in mh_Expires : mh_pushed[e] = Cardinality(PlacesOf(mh_list, e))
        BY <3>1 DEF HeapHolds
      <3>4. \A i \in 1 .. mh_last : mh_list[(i - 1) \div 2] <= mh_list[i]
        <4>1. CASE mh_list[0] = mh_NULL
          BY <3>1, <4>1 DEF HeapHolds
        <4>2. CASE mh_list[0] # mh_NULL
          BY <3>1, <4>2 DEF HeapHolds, HeapUpTo, MH!Parent
        <4> QED
          BY <4>1, <4>2
      <3> QED
        BY <3>1, <3>2, <3>3, <3>4, HeapCardinality, TopIsLeast
    <2>3. ASSUME Len(mh_popped) = 1, mh_popped[1] # mh_NULL, mh_status = "down"
          PROVE  \A e \in mh_Expires : mh_pushed[e] > 0 => mh_popped[1] <= e
      BY <2>3 DEF HeapInv, FirstWasLeast
    <2> QED
      BY <2>2, <2>3 DEF MH!HeapOK, MH!Top
  <1> QED
    BY <1>1, <1>3, <1>4, PTL DEF StandaloneSpec

-----------------------------------------------------------------------------
(* The skip list: util/skiplist.c.                                         *)

\* The head is no node, and neither NULL nor memory behind a node is one.
SkipConstants ==
    /\ sl_SKIPLIST_LEVEL_MAX \in Nat \ {0} /\ sl_Times \subseteq Int
    /\ sl_head \notin sl_Nodes \cup {sl_NULL} /\ sl_NULL \notin sl_Nodes
    /\ SL!Off \notin sl_Nodes \cup {sl_NULL}

\* The stored nodes that level i goes through, and the head.
Row(i) == {n \in sl_stored : sl_height[n] >= i}
RowAndHead(i) == Row(i) \cup {sl_head}

SkipTypes ==
    /\ sl_stored \subseteq sl_Nodes /\ IsFiniteSet(sl_stored)
    /\ sl_length = Cardinality(sl_stored)
    /\ sl_height \in [sl_Nodes -> 0 .. sl_SKIPLIST_LEVEL_MAX]
    /\ sl_timestamp \in [sl_Nodes -> Int]
    /\ sl_level \in 0 .. sl_SKIPLIST_LEVEL_MAX
    /\ \A n \in sl_Nodes :
           /\ sl_height[n] <= sl_level
           /\ n \in sl_stored <=> sl_height[n] # 0

\* A pointer is a node's own just if the node has its level.
SkipEnds ==
    \A i \in SL!Levels :
        /\ sl_next[sl_head][i] # SL!Off
        /\ \A n \in sl_Nodes : sl_next[n][i] = SL!Off <=> sl_height[n] < i

\* r counts down along the list: one order of the nodes serves all levels.
Ranked(r) ==
    /\ r \in [sl_Nodes \cup {sl_head} -> Nat]
    /\ \A m \in sl_stored : r[m] < r[sl_head]
    /\ \A m, n \in sl_stored : r[m] = r[n] => m = n
    /\ \A m, n \in sl_stored : r[m] < r[n] => sl_timestamp[n] <= sl_timestamp[m]

\* Each node of level i leads to the one behind it.
Leads(r, i, n, x) ==
    IF x = sl_NULL THEN \A m \in Row(i) : ~(r[m] < r[n])
    ELSE x \in Row(i) /\ r[x] < r[n] /\ \A m \in Row(i) : r[m] < r[n] => r[m] <= r[x]

InRows(r) == \A i \in SL!Levels : \A n \in RowAndHead(i) : Leads(r, i, n, sl_next[n][i])

SkipHolds == SkipTypes /\ SkipEnds /\ \E r : Ranked(r) /\ InRows(r)

SkipInv ==
    /\ sl_status = "up" => SkipHolds
    /\ sl_status = "destroyed" => \A n \in sl_stored : sl_height[n] = 0

LEMMA RowTypes ==
    ASSUME SkipConstants, SkipTypes, NEW i \in SL!Levels
    PROVE  /\ Row(i) \subseteq sl_stored /\ Row(i) \subseteq sl_Nodes /\ sl_head \notin Row(i)
           /\ i \in Nat \ {0}
           /\ \A n \in sl_stored : sl_timestamp[n] \in Int /\ sl_height[n] \in Nat \ {0}
           /\ sl_NULL \notin Row(i)
  BY DEF SkipConstants, SkipTypes, Row, SL!Levels

LEMMA RankTypes ==
    ASSUME SkipConstants, SkipTypes, NEW r, Ranked(r)
    PROVE  /\ r[sl_head] \in Nat /\ \A n \in sl_stored : r[n] \in Nat
           /\ \A i : \A n \in RowAndHead(i) : r[n] \in Nat
  BY DEF SkipConstants, SkipTypes, Ranked, Row, RowAndHead

LEMMA ReachingRow ==
    ASSUME SkipConstants, SkipTypes, SkipEnds, NEW i \in SL!Levels
    PROVE  SL!Reaching(i) = RowAndHead(i)
  <1>1. i \in Nat \ {0}
    BY RowTypes
  <1>2. ASSUME NEW n \in sl_Nodes PROVE sl_next[n][i] # SL!Off <=> n \in Row(i)
    BY <1>1 DEF SkipEnds, SkipTypes, Row
  <1>3. sl_next[sl_head][i] # SL!Off
    BY DEF SkipEnds
  <1> QED
    BY <1>2, <1>3, RowTypes DEF SL!Reaching, RowAndHead

\* A set of nodes has a last one.
LEMMA LastNode ==
    ASSUME SkipConstants, SkipTypes, NEW r, Ranked(r), NEW S \in SUBSET sl_stored, S # {}
    PROVE  \E c \in S : \A m \in S : r[c] <= r[m]
  <1> DEFINE R == {r[m] : m \in S}
  <1>1. R \in SUBSET Nat /\ R # {}
    BY RankTypes
  <1>2. PICK k \in R : \A j \in R : k <= j
    BY <1>1, LeastExists
  <1> QED
    BY <1>2

-----------------------------------------------------------------------------
(* The walk.                                                               *)

Ahead(r, i, n, ts) == {m \in Row(i) : r[m] < r[n] /\ sl_timestamp[m] < ts}

\* c is where a walk along level i ends that begins at n.
EndsAt(r, i, n, ts, c) ==
    IF Ahead(r, i, n, ts) = {} THEN c = n
    ELSE c \in Ahead(r, i, n, ts) /\ \A m \in Ahead(r, i, n, ts) : r[c] <= r[m]

LEMMA EndExists ==
    ASSUME SkipConstants, SkipTypes, NEW r, Ranked(r), NEW i \in SL!Levels,
           NEW n \in RowAndHead(i), NEW ts \in Int
    PROVE  /\ \E c : EndsAt(r, i, n, ts, c)
           /\ \A c, d : EndsAt(r, i, n, ts, c) /\ EndsAt(r, i, n, ts, d) => c = d
           /\ \A c : EndsAt(r, i, n, ts, c) => c \in RowAndHead(i)
  <1> DEFINE S == Ahead(r, i, n, ts)
  <1>1. S \in SUBSET sl_stored /\ S \subseteq Row(i)
    BY RowTypes DEF Ahead
  <1>2. S # {} => \E c \in S : \A m \in S : r[c] <= r[m]
    BY <1>1, LastNode
  <1>3. \A c, d \in S : r[c] <= r[d] /\ r[d] <= r[c] => c = d
    BY <1>1, RankTypes DEF Ranked
  <1> QED
    BY <1>1, <1>2, <1>3 DEF EndsAt, RowAndHead

\* One turn of the loop.
LEMMA OneTurn ==
    ASSUME SkipConstants, SkipTypes, NEW r, Ranked(r), InRows(r), NEW i \in SL!Levels,
           NEW n \in RowAndHead(i), NEW ts \in Int, NEW x, x = sl_next[n][i]
    PROVE  /\ x # sl_NULL => x \in Row(i) /\ r[x] < r[n]
           /\ x # sl_NULL /\ SL!Before(x, ts) =>
                  \A c : EndsAt(r, i, x, ts, c) => EndsAt(r, i, n, ts, c)
           /\ ~(x # sl_NULL /\ SL!Before(x, ts)) => EndsAt(r, i, n, ts, n)
  <1>1. Leads(r, i, n, x)
    BY DEF InRows
  <1>2. \A m \in Row(i) : r[m] \in Nat /\ sl_timestamp[m] \in Int /\ m \in sl_stored
    BY RowTypes, RankTypes
  <1>3. r[n] \in Nat
    BY RankTypes
  <1>4. ASSUME x # sl_NULL, SL!Before(x, ts), NEW c, EndsAt(r, i, x, ts, c)
        PROVE  EndsAt(r, i, n, ts, c)
    <2>1. x \in Row(i) /\ r[x] < r[n] /\ \A m \in Row(i) : r[m] < r[n] => r[m] <= r[x]
      BY <1>1, <1>4 DEF Leads
    <2>2. Ahead(r, i, n, ts) = Ahead(r, i, x, ts) \cup {x}
      <3>1. ASSUME NEW m \in Row(i), r[m] < r[n] PROVE r[m] < r[x] \/ m = x
        BY <1>2, <2>1, <3>1 DEF Ranked
      <3>2. ASSUME NEW m \in Row(i), r[m] < r[x] PROVE r[m] < r[n]
        BY <1>2, <1>3, <2>1, <3>2
      <3>3. x \in Ahead(r, i, n, ts)
        BY <1>4, <2>1 DEF Ahead, SL!Before
      <3> QED
        BY <3>1, <3>2, <3>3 DEF Ahead
    <2>3. CASE Ahead(r, i, x, ts) = {}
      <3>1. c = x /\ Ahead(r, i, n, ts) = {x}
        BY <1>4, <2>2, <2>3 DEF EndsAt
      <3> QED
        BY <1>2, <2>1, <3>1 DEF EndsAt
    <2>4. CASE Ahead(r, i, x, ts) # {}
      <3>1. c \in Ahead(r, i, x, ts) /\ \A m \in Ahead(r, i, x, ts) : r[c] <= r[m]
        BY <1>4, <2>4 DEF EndsAt
      <3>2. r[c] <= r[x]
        BY <1>2, <2>1, <3>1 DEF Ahead
      <3> QED
        BY <2>2, <3>1, <3>2 DEF EndsAt
    <2> QED
      BY <2>3, <2>4
  <1>5. ASSUME ~(x # sl_NULL /\ SL!Before(x, ts)) PROVE EndsAt(r, i, n, ts, n)
    <2>1. ASSUME NEW m \in Row(i), r[m] < r[n] PROVE ~(sl_timestamp[m] < ts)
      <3>1. x # sl_NULL /\ x \in Row(i) /\ r[m] <= r[x]
        BY <1>1, <2>1 DEF Leads
      <3>2. ~(sl_timestamp[x] < ts)
        BY <1>5, <3>1 DEF SL!Before
      <3>3. m = x \/ r[m] < r[x]
        BY <1>2, <3>1 DEF Ranked
      <3>4. sl_timestamp[x] <= sl_timestamp[m]
        BY <1>2, <3>1, <3>3 DEF Ranked
      <3> QED
        BY <1>2, <3>1, <3>2, <3>4
    <2> QED
      BY <2>1 DEF EndsAt, Ahead
  <1> QED
    BY <1>1, <1>4, <1>5 DEF Leads

\* What satisfies the recursion of Along, everywhere on the level.
WalksOn(f, i, ts) ==
    \A n \in RowAndHead(i) :
        LET x == sl_next[n][i]
        IN  f[n] = IF x # sl_NULL /\ SL!Before(x, ts) THEN f[x] ELSE n

LEMMA WalkExists ==
    ASSUME SkipConstants, SkipTypes, NEW r, Ranked(r), InRows(r), NEW i \in SL!Levels, NEW ts \in Int
    PROVE  \E f : f = [n \in RowAndHead(i) |-> f[n]] /\ WalksOn(f, i, ts)
  <1> DEFINE g == [n \in RowAndHead(i) |-> CHOOSE c : EndsAt(r, i, n, ts, c)]
  <1>1. \A n \in RowAndHead(i) : EndsAt(r, i, n, ts, g[n])
    BY EndExists
  <1>2. g = [n \in RowAndHead(i) |-> g[n]]
    OBVIOUS
  <1> HIDE DEF g
  <1>3. ASSUME NEW n \in RowAndHead(i), NEW x, x = sl_next[n][i]
        PROVE  g[n] = IF x # sl_NULL /\ SL!Before(x, ts) THEN g[x] ELSE n
    <2>1. CASE x # sl_NULL /\ SL!Before(x, ts)
      <3>1. x \in RowAndHead(i)
        BY <1>3, <2>1, OneTurn DEF RowAndHead
      <3>2. EndsAt(r, i, n, ts, g[x])
        BY <1>1, <1>3, <2>1, <3>1, OneTurn
      <3> QED
        BY <1>1, <2>1, <3>2, EndExists
    <2>2. CASE ~(x # sl_NULL /\ SL!Before(x, ts))
      <3>1. EndsAt(r, i, n, ts, n)
        BY <1>3, <2>2, OneTurn
      <3> QED
        BY <1>1, <2>2, <3>1, EndExists
    <2> QED
      BY <2>1, <2>2
  <1> QED
    BY <1>2, <1>3 DEF WalksOn

LEMMA WalkEnds ==
    ASSUME SkipConstants, SkipTypes, NEW r, Ranked(r), InRows(r), NEW i \in SL!Levels, NEW ts \in Int,
           NEW f, WalksOn(f, i, ts), NEW n \in RowAndHead(i)
    PROVE  EndsAt(r, i, n, ts, f[n])
  <1> DEFINE bad == {m \in RowAndHead(i) : ~EndsAt(r, i, m, ts, f[m])}
             R == {r[m] : m \in bad}
  <1> SUFFICES ASSUME bad # {} PROVE FALSE
    OBVIOUS
  <1>1. R \in SUBSET Nat /\ R # {}
    BY RankTypes
  <1>2. PICK k \in R : \A j \in R : k <= j
    BY <1>1, LeastExists
  <1>3. PICK b \in bad : r[b] = k
    BY <1>2
  <1>4. b \in RowAndHead(i) /\ ~EndsAt(r, i, b, ts, f[b]) /\ \A m \in bad : r[b] <= r[m]
    BY <1>2, <1>3
  <1> DEFINE x == sl_next[b][i]
  <1>5. f[b] = IF x # sl_NULL /\ SL!Before(x, ts) THEN f[x] ELSE b
    BY <1>4 DEF WalksOn
  <1>6. CASE x # sl_NULL /\ SL!Before(x, ts)
    <2>1. x \in RowAndHead(i) /\ r[x] < r[b]
      BY <1>4, <1>6, OneTurn DEF RowAndHead
    <2>2. r[x] \in Nat /\ r[b] \in Nat
      BY <1>4, <2>1, RankTypes
    <2>3. x \notin bad
      BY <1>4, <2>1, <2>2
    <2>4. EndsAt(r, i, x, ts, f[x])
      BY <2>1, <2>3
    <2> QED
      BY <1>4, <1>5, <1>6, <2>4, OneTurn
  <1>7. CASE ~(x # sl_NULL /\ SL!Before(x, ts))
    BY <1>4, <1>5, <1>7, OneTurn
  <1> QED
    BY <1>6, <1>7

LEMMA AlongEnds ==
    ASSUME SkipConstants, SkipTypes, SkipEnds, NEW r, Ranked(r), InRows(r), NEW i \in SL!Levels,
           NEW ts \in Int, NEW n \in RowAndHead(i)
    PROVE  EndsAt(r, i, n, ts, SL!Along(i, n, ts))
  <1> DEFINE IsWalk(f) == f = [k \in RowAndHead(i) |->
                              LET x == sl_next[k][i]
                              IN  IF x # sl_NULL /\ SL!Before(x, ts) THEN f[x] ELSE k]
             w == CHOOSE f : IsWalk(f)
  <1>1. PICK f : f = [k \in RowAndHead(i) |-> f[k]] /\ WalksOn(f, i, ts)
    BY WalkExists
  <1>2. IsWalk(f)
    BY <1>1 DEF WalksOn
  <1>3. IsWalk(w)
    <2> HIDE DEF IsWalk
    <2> QED
      BY <1>2
  <1>4. WalksOn(w, i, ts)
    <2> HIDE DEF w
    <2> QED
      BY <1>3 DEF WalksOn
  <1>5. SL!Along(i, n, ts) = w[n]
    BY ReachingRow DEF SL!Along
  <1> HIDE DEF w
  <1> QED
    BY <1>4, <1>5, WalkEnds

\* The walk that begins where the level above ended is one from the head.
LEMMA LevelBelow ==
    ASSUME SkipConstants, SkipTypes, NEW r, Ranked(r), NEW i \in SL!Levels, i + 1 \in SL!Levels,
           NEW ts \in Int, NEW d, EndsAt(r, i + 1, sl_head, ts, d)
    PROVE  /\ d \in RowAndHead(i)
           /\ \A c : EndsAt(r, i, d, ts, c) => EndsAt(r, i, sl_head, ts, c)
  <1>1. i \in Nat /\ Row(i + 1) \subseteq Row(i)
    BY RowTypes DEF Row
  <1>2. sl_head \in RowAndHead(i + 1)
    BY DEF RowAndHead
  <1>3. d \in RowAndHead(i)
    BY <1>1, <1>2, EndExists DEF RowAndHead
  <1>4. ASSUME NEW c, EndsAt(r, i, d, ts, c) PROVE EndsAt(r, i, sl_head, ts, c)
    <2>1. CASE d = sl_head
      BY <1>4, <2>1
    <2>2. CASE d # sl_head
      <3>1. d \in Row(i) /\ sl_timestamp[d] < ts
        BY <1>1, <2>2 DEF EndsAt, Ahead
      <3>2. \A m \in Row(i) : r[m] \in Nat /\ r[m] < r[sl_head]
        BY RowTypes, RankTypes DEF Ranked
      <3>3. Ahead(r, i, sl_head, ts) = {m \in Row(i) : sl_timestamp[m] < ts}
        BY <3>2 DEF Ahead
      <3>4. d \in Ahead(r, i, sl_head, ts)
        BY <3>1, <3>3
      <3>5. CASE Ahead(r, i, d, ts) = {}
        <4>1. c = d
          BY <1>4, <3>5 DEF EndsAt
        <4>2. \A m \in Ahead(r, i, sl_head, ts) : r[d] <= r[m]
          BY <3>1, <3>2, <3>5 DEF Ahead
        <4> QED
          BY <3>4, <4>1, <4>2 DEF EndsAt
      <3>6. CASE Ahead(r, i, d, ts) # {}
        <4>1. c \in Row(i) /\ r[c] < r[d] /\ sl_timestamp[c] < ts
          BY <1>4, <3>6 DEF EndsAt, Ahead
        <4>2. \A m \in Row(i) : r[m] < r[d] /\ sl_timestamp[m] < ts => r[c] <= r[m]
          BY <1>4, <3>6 DEF EndsAt, Ahead
        <4>3. \A m \in Ahead(r, i, sl_head, ts) : r[c] <= r[m]
          BY <3>1, <3>2, <4>1, <4>2 DEF Ahead
        <4> QED
          BY <3>3, <3>4, <4>1, <4>3 DEF EndsAt
      <3> QED
        BY <3>5, <3>6
    <2> QED
      BY <2>1, <2>2
  <1> QED
    BY <1>3, <1>4

CursorOf(f, i, ts) == IF i >= sl_level THEN SL!Along(i, sl_head, ts) ELSE SL!Along(i, f[i + 1], ts)

\* The cursor of level i is where a walk along it from the head ends.
LEMMA CursorsEnd ==
    ASSUME SkipConstants, SkipTypes, SkipEnds, NEW r, Ranked(r), InRows(r), NEW ts \in Int,
           NEW i \in SL!Levels
    PROVE  EndsAt(r, i, sl_head, ts, SL!Cursors(ts)[i])
  <1> DEFINE IsCursors(f) == f = [k \in SL!Levels |->
                                  IF k >= sl_level THEN SL!Along(k, sl_head, ts) ELSE SL!Along(k, f[k + 1], ts)]
             w == CHOOSE f : IsCursors(f)
             g == [k \in SL!Levels |-> SL!Along(k, sl_head, ts)]
             M == sl_SKIPLIST_LEVEL_MAX
  <1>0. /\ M \in Nat /\ sl_level \in 0 .. M /\ SL!Levels = 1 .. M
        /\ \A k : sl_head \in RowAndHead(k)
    BY DEF SkipConstants, SkipTypes, SL!Levels, RowAndHead
  <1>1. \A k \in SL!Levels : EndsAt(r, k, sl_head, ts, g[k])
    BY <1>0, AlongEnds
  <1>2. ASSUME NEW k \in SL!Levels, k < sl_level, NEW d, EndsAt(r, k + 1, sl_head, ts, d)
        PROVE  EndsAt(r, k, sl_head, ts, SL!Along(k, d, ts))
    <2>1. k + 1 \in SL!Levels
      BY <1>0, <1>2
    <2>2. d \in RowAndHead(k)
      BY <1>2, <2>1, LevelBelow
    <2>3. EndsAt(r, k, d, ts, SL!Along(k, d, ts))
      BY <2>2, AlongEnds
    <2> QED
      BY <1>2, <2>1, <2>3, LevelBelow
  <1>3. ASSUME NEW k \in SL!Levels, k < sl_level
        PROVE  k + 1 \in SL!Levels /\ SL!Along(k, g[k + 1], ts) = SL!Along(k, sl_head, ts)
    <2>1. k + 1 \in SL!Levels
      BY <1>0, <1>3
    <2>2. EndsAt(r, k, sl_head, ts, SL!Along(k, g[k + 1], ts))
      <3> HIDE DEF g
      <3> QED
        BY <1>1, <1>2, <1>3, <2>1
    <2>3. EndsAt(r, k, sl_head, ts, SL!Along(k, sl_head, ts))
      BY <1>0, AlongEnds
    <2> HIDE DEF g
    <2> QED
      BY <1>0, <2>1, <2>2, <2>3, EndExists
  <1>4. IsCursors(g)
    <2>1. \A k \in SL!Levels : g[k] = IF k >= sl_level THEN SL!Along(k, sl_head, ts) ELSE SL!Along(k, g[k + 1], ts)
      BY <1>0, <1>3
    <2>2. g = [k \in SL!Levels |-> g[k]]
      OBVIOUS
    <2> HIDE DEF g
    <2> QED
      BY <2>1, <2>2
  <1>5. IsCursors(w)
    <2> HIDE DEF IsCursors, g
    <2> QED
      BY <1>4
  <1>6. \A k \in SL!Levels : w[k] = CursorOf(w, k, ts)
    <2> HIDE DEF w
    <2> QED
      BY <1>5 DEF CursorOf
  <1>7. SL!Cursors(ts) = w
    BY DEF SL!Cursors
  <1> HIDE DEF w, g, IsCursors
  <1> DEFINE bad == {j \in Nat : M - j \in SL!Levels /\ ~EndsAt(r, M - j, sl_head, ts, w[M - j])}
  <1>8. bad = {}
    <2> SUFFICES ASSUME bad # {} PROVE FALSE
      OBVIOUS
    <2>1. PICK j \in bad : \A k \in bad : j <= k
      BY LeastExists
    <2> DEFINE k == M - j
    <2>2. j \in Nat /\ k \in SL!Levels /\ k \in Int /\ ~EndsAt(r, k, sl_head, ts, w[k])
      BY <1>0, <2>1
    <2>3. CASE k >= sl_level
      <3>1. w[k] = SL!Along(k, sl_head, ts)
        BY <1>6, <2>2, <2>3 DEF CursorOf
      <3>2. EndsAt(r, k, sl_head, ts, SL!Along(k, sl_head, ts))
        BY <1>0, <2>2, AlongEnds
      <3> QED
        BY <2>2, <3>1, <3>2
    <2>4. CASE ~(k >= sl_level)
      <3>1. k < sl_level /\ w[k] = SL!Along(k, w[k + 1], ts)
        BY <1>0, <1>6, <2>2, <2>4 DEF CursorOf
      <3>2. j - 1 \in Nat /\ M - (j - 1) = k + 1 /\ k + 1 \in SL!Levels /\ ~(j <= j - 1)
        BY <1>0, <2>2, <3>1
      <3>3. j - 1 \notin bad
        BY <2>1, <3>2
      <3>4. EndsAt(r, k + 1, sl_head, ts, w[k + 1])
        BY <3>2, <3>3
      <3> HIDE DEF k
      <3> QED
        BY <1>2, <2>2, <3>1, <3>4
    <2> QED
      BY <2>3, <2>4
  <1>9. M - i \in Nat /\ M - (M - i) = i
    BY <1>0
  <1>10. EndsAt(r, i, sl_head, ts, w[i])
    BY <1>8, <1>9
  <1> QED
    BY <1>7, <1>10

-----------------------------------------------------------------------------
(* What lies behind a cursor.                                              *)

\* c is the last node of level i before ts, or the head.
LastBefore(r, i, ts, c) ==
    /\ c \in RowAndHead(i)
    /\ c # sl_head => sl_timestamp[c] < ts
    /\ \A m \in Row(i) : sl_timestamp[m] < ts <=> ~(r[m] < r[c])

LEMMA CursorsLast ==
    ASSUME SkipConstants, SkipTypes, SkipEnds, NEW r, Ranked(r), InRows(r), NEW ts \in Int,
           NEW i \in SL!Levels
    PROVE  LastBefore(r, i, ts, SL!Cursors(ts)[i])
  <1> DEFINE c == SL!Cursors(ts)[i]
  <1>1. EndsAt(r, i, sl_head, ts, c) /\ sl_head \in RowAndHead(i)
    BY CursorsEnd DEF RowAndHead
  <1> HIDE DEF c
  <1>2. \A m \in Row(i) : /\ m \in sl_stored /\ r[m] \in Nat /\ r[m] < r[sl_head] /\ sl_timestamp[m] \in Int
                          /\ m # sl_head
    BY RowTypes, RankTypes DEF Ranked
  <1>3. r[sl_head] \in Nat
    BY RankTypes
  <1>4. CASE Ahead(r, i, sl_head, ts) = {}
    <2>1. c = sl_head
      BY <1>1, <1>4 DEF EndsAt
    <2>2. \A m \in Row(i) : ~(sl_timestamp[m] < ts)
      BY <1>2, <1>4 DEF Ahead
    <2>3. LastBefore(r, i, ts, c)
      BY <1>1, <1>2, <2>1, <2>2 DEF LastBefore
    <2> QED
      BY <2>3 DEF c
  <1>5. CASE Ahead(r, i, sl_head, ts) # {}
    <2>1. /\ c \in Row(i) /\ sl_timestamp[c] < ts
          /\ \A m \in Row(i) : sl_timestamp[m] < ts => r[c] <= r[m]
      BY <1>1, <1>2, <1>5 DEF EndsAt, Ahead
    <2>2. ASSUME NEW m \in Row(i), ~(r[m] < r[c]) PROVE sl_timestamp[m] < ts
      <3>1. m = c \/ r[c] < r[m]
        BY <1>2, <2>1, <2>2 DEF Ranked
      <3>2. m = c \/ sl_timestamp[m] <= sl_timestamp[c]
        BY <1>2, <2>1, <3>1 DEF Ranked
      <3> QED
        BY <1>2, <2>1, <3>2
    <2>3. LastBefore(r, i, ts, c)
      BY <1>2, <2>1, <2>2 DEF LastBefore, RowAndHead
    <2> QED
      BY <2>3 DEF c
  <1> QED
    BY <1>4, <1>5

\* The node behind is the first that is not earlier.
LEMMA FirstNotBefore ==
    ASSUME SkipConstants, SkipTypes, NEW r, Ranked(r), InRows(r), NEW ts \in Int,
           NEW i \in SL!Levels, NEW c, LastBefore(r, i, ts, c), NEW x, x = sl_next[c][i]
    PROVE  /\ x = sl_NULL => \A m \in Row(i) : sl_timestamp[m] < ts
           /\ x # sl_NULL => /\ x \in Row(i) /\ sl_timestamp[x] >= ts
                             /\ \A m \in Row(i) : sl_timestamp[m] >= ts =>
                                    r[m] <= r[x] /\ sl_timestamp[x] <= sl_timestamp[m]
  <1>1. Leads(r, i, c, x)
    BY DEF InRows, LastBefore
  <1>2. \A m \in Row(i) : m \in sl_stored /\ r[m] \in Nat /\ sl_timestamp[m] \in Int
    BY RowTypes, RankTypes
  <1>3. \A m \in Row(i) : sl_timestamp[m] >= ts <=> r[m] < r[c]
    BY <1>2 DEF LastBefore
  <1>4. CASE x = sl_NULL
    BY <1>1, <1>2, <1>3, <1>4 DEF Leads
  <1>5. CASE x # sl_NULL
    <2>1. x \in Row(i) /\ r[x] < r[c] /\ \A m \in Row(i) : r[m] < r[c] => r[m] <= r[x]
      BY <1>1, <1>5 DEF Leads
    <2>2. sl_timestamp[x] >= ts
      BY <1>3, <2>1
    <2>3. ASSUME NEW m \in Row(i), sl_timestamp[m] >= ts
          PROVE  r[m] <= r[x] /\ sl_timestamp[x] <= sl_timestamp[m]
      <3>1. r[m] <= r[x]
        BY <1>3, <2>1, <2>3
      <3>2. m = x \/ r[m] < r[x]
        BY <1>2, <2>1, <3>1 DEF Ranked
      <3>3. sl_timestamp[x] <= sl_timestamp[m]
        BY <1>2, <2>1, <3>2 DEF Ranked
      <3> QED
        BY <3>1, <3>3
    <2> QED
      BY <1>5, <2>1, <2>2, <2>3
  <1> QED
    BY <1>4, <1>5

\* Meets: the cursor stands in front of a node of that time if there is one.
LEMMA MeetsStored ==
    ASSUME SkipConstants, SkipTypes, SkipEnds, NEW r, Ranked(r), InRows(r), NEW ts \in Int,
           NEW i \in SL!Levels
    PROVE  SL!Meets(ts, i) <=> \E m \in Row(i) : sl_timestamp[m] = ts
  <1> DEFINE c == SL!Cursors(ts)[i]  x == sl_next[c][i]
  <1>1. LastBefore(r, i, ts, c)
    BY CursorsLast
  <1>2. SL!Meets(ts, i) <=> x # sl_NULL /\ sl_timestamp[x] = ts
    BY DEF SL!Meets
  <1> HIDE DEF c
  <1>3. /\ x = sl_NULL => \A m \in Row(i) : sl_timestamp[m] < ts
        /\ x # sl_NULL => /\ x \in Row(i) /\ sl_timestamp[x] >= ts
                          /\ \A m \in Row(i) : sl_timestamp[m] >= ts => sl_timestamp[x] <= sl_timestamp[m]
    BY <1>1, FirstNotBefore
  <1>4. \A m \in Row(i) : sl_timestamp[m] \in Int
    BY RowTypes
  <1> HIDE DEF x
  <1> QED
    BY <1>2, <1>3, <1>4

-----------------------------------------------------------------------------
(* Chain, and what the invariant says of the list.                         *)

LEMMA ChainIs ==
    ASSUME SkipConstants, SkipTypes, SkipEnds, NEW r, Ranked(r), InRows(r), NEW i \in SL!Levels
    PROVE  SL!Chain(i) = Row(i)
  <1> DEFINE D == RowAndHead(i)
             Behind(n) == {m \in Row(i) : r[m] < r[n]}
             IsChain(f) == f = [n \in D |-> LET x == sl_next[n][i]
                                            IN  IF x = sl_NULL THEN {} ELSE {x} \cup f[x]]
             g == [n \in D |-> Behind(n)]
             w == CHOOSE f : IsChain(f)
  <1>1. \A m \in Row(i) : m \in sl_stored /\ r[m] \in Nat /\ r[m] < r[sl_head] /\ m \in D
    BY RowTypes, RankTypes DEF Ranked, RowAndHead
  <1>2. \A n \in D : r[n] \in Nat
    BY RankTypes
  <1>3. ASSUME NEW n \in D, NEW x, x = sl_next[n][i]
        PROVE  /\ x = sl_NULL => Behind(n) = {}
               /\ x # sl_NULL => x \in D /\ r[x] < r[n] /\ Behind(n) = {x} \cup Behind(x)
    <2>1. Leads(r, i, n, x)
      BY <1>3 DEF InRows
    <2>2. CASE x = sl_NULL
      BY <2>1, <2>2 DEF Leads
    <2>3. CASE x # sl_NULL
      <3>1. x \in Row(i) /\ r[x] < r[n] /\ \A m \in Row(i) : r[m] < r[n] => r[m] <= r[x]
        BY <2>1, <2>3 DEF Leads
      <3>2. ASSUME NEW m \in Row(i), r[m] < r[n] PROVE m = x \/ r[m] < r[x]
        BY <1>1, <3>1, <3>2 DEF Ranked
      <3>3. ASSUME NEW m \in Row(i), r[m] < r[x] PROVE r[m] < r[n]
        BY <1>1, <1>2, <3>1, <3>3
      <3> QED
        BY <1>1, <2>3, <3>1, <3>2, <3>3
    <2> QED
      BY <2>2, <2>3
  <1>4. IsChain(g)
    <2>1. \A n \in D : g[n] = LET x == sl_next[n][i] IN IF x = sl_NULL THEN {} ELSE {x} \cup g[x]
      <3> SUFFICES ASSUME NEW n \in D, NEW x, x = sl_next[n][i]
                   PROVE  g[n] = IF x = sl_NULL THEN {} ELSE {x} \cup g[x]
        OBVIOUS
      <3>1. x \in D => g[x] = Behind(x)
        OBVIOUS
      <3>2. g[n] = Behind(n)
        OBVIOUS
      <3> HIDE DEF g, Behind, D
      <3> QED
        BY <1>3, <3>1, <3>2
    <2>2. g = [n \in D |-> g[n]]
      OBVIOUS
    <2> HIDE DEF g
    <2> QED
      BY <2>1, <2>2
  <1>5. IsChain(w)
    <2> HIDE DEF IsChain, g
    <2> QED
      BY <1>4
  <1>6. \A n \in D : LET x == sl_next[n][i] IN w[n] = IF x = sl_NULL THEN {} ELSE {x} \cup w[x]
    <2> HIDE DEF w
    <2> QED
      BY <1>5
  <1>7. SL!Chain(i) = w[sl_head]
    BY ReachingRow DEF SL!Chain
  <1> HIDE DEF w, g, IsChain
  <1> DEFINE bad == {n \in D : w[n] # Behind(n)}  R == {r[n] : n \in bad}
  <1>8. bad = {}
    <2> SUFFICES ASSUME bad # {} PROVE FALSE
      OBVIOUS
    <2>1. R \in SUBSET Nat /\ R # {}
      BY <1>2
    <2>2. PICK k \in R : \A j \in R : k <= j
      BY <2>1, LeastExists
    <2>3. PICK b \in bad : r[b] = k
      BY <2>2
    <2>4. b \in D /\ w[b] # Behind(b) /\ \A n \in bad : r[b] <= r[n]
      BY <2>2, <2>3
    <2> DEFINE x == sl_next[b][i]
    <2>5. w[b] = IF x = sl_NULL THEN {} ELSE {x} \cup w[x]
      BY <1>6, <2>4
    <2>6. CASE x = sl_NULL
      <3>1. Behind(b) = {}
        BY <1>3, <2>4, <2>6
      <3> HIDE DEF Behind, x
      <3> QED
        BY <2>4, <2>5, <2>6, <3>1
    <2>7. CASE x # sl_NULL
      <3>1. x \in D /\ r[x] < r[b] /\ Behind(b) = {x} \cup Behind(x)
        BY <1>3, <2>4, <2>7
      <3>2. x \notin bad
        BY <1>2, <2>4, <3>1
      <3>3. w[x] = Behind(x)
        BY <3>1, <3>2
      <3> HIDE DEF Behind, x
      <3> QED
        BY <2>4, <2>5, <2>7, <3>1, <3>3
    <2> QED
      BY <2>6, <2>7
  <1>9. sl_head \in D
    BY DEF RowAndHead
  <1>10. w[sl_head] = Behind(sl_head)
    BY <1>8, <1>9
  <1>11. Behind(sl_head) = Row(i)
    BY <1>1
  <1> QED
    BY <1>7, <1>10, <1>11

\* The levels that a search stops at have a highest one.
LEMMA HighestStop ==
    ASSUME NEW n \in Nat, NEW S \in SUBSET (1 .. n), S # {}
    PROVE  (CHOOSE i \in S : \A j \in S : j <= i) \in S
  <1> DEFINE T == {k \in Nat : n - k \in S}
  <1>1. PICK s \in S : TRUE
    OBVIOUS
  <1>2. n - s \in T
    <2>1. s \in 1 .. n /\ n - s \in Nat /\ n - (n - s) = s
      BY <1>1
    <2> QED
      BY <1>1, <2>1
  <1>3. PICK k \in T : \A j \in T : k <= j
    BY <1>2, LeastExists
  <1>4. n - k \in S /\ k \in Nat
    BY <1>3
  <1>5. ASSUME NEW j \in S PROVE j <= n - k
    <2>1. j \in 1 .. n /\ n - j \in Nat /\ n - (n - j) = j
      OBVIOUS
    <2>2. n - j \in T
      BY <2>1
    <2>3. k <= n - j
      BY <1>3, <2>2
    <2> QED
      BY <1>4, <2>1, <2>3
  <1> QED
    BY <1>4, <1>5

LEMMA FindsStored ==
    ASSUME SkipConstants, SkipTypes, SkipEnds, NEW r, Ranked(r), InRows(r), NEW ts \in Int,
           SL!Find(ts) # "crash"
    PROVE  SL!Find(ts) = "0" <=> \E n \in sl_stored : sl_timestamp[n] = ts
  <1> DEFINE stops == {i \in 1 .. sl_level : SL!Meets(ts, i) \/ SL!RunsOff(ts, i)}
             first == CHOOSE i \in stops : \A j \in stops : j <= i
             found == \E n \in sl_stored : sl_timestamp[n] = ts
  <1>1. SL!Find(ts) = IF sl_length = 0 \/ stops = {} THEN "-1"
                      ELSE IF SL!RunsOff(ts, first) THEN "crash" ELSE "0"
    BY DEF SL!Find
  <1>2. sl_level \in Nat /\ 1 .. sl_level \subseteq SL!Levels
    BY DEF SkipConstants, SkipTypes, SL!Levels
  <1>3. ASSUME found PROVE sl_length # 0 /\ stops # {}
    <2>1. PICK n \in sl_stored : sl_timestamp[n] = ts
      BY <1>3
    <2>2. sl_length # 0
      <3>1. sl_length = Cardinality(sl_stored) /\ IsFiniteSet(sl_stored) /\ sl_stored # {}
        BY <2>1 DEF SkipTypes
      <3> QED
        BY <3>1, FS_EmptySet
    <2>3. n \in sl_Nodes /\ sl_height[n] \in Nat \ {0} /\ sl_height[n] <= sl_level
      BY <2>1 DEF SkipTypes
    <2>4. 1 \in 1 .. sl_level /\ n \in Row(1)
      BY <1>2, <2>1, <2>3 DEF Row
    <2>5. SL!Meets(ts, 1)
      BY <1>2, <2>1, <2>4, MeetsStored
    <2> QED
      BY <2>2, <2>4, <2>5
  <1>4. ASSUME SL!Find(ts) = "0" PROVE found
    <2>1. stops # {} /\ ~SL!RunsOff(ts, first)
      BY <1>1, <1>4
    <2>2. first \in stops
      BY <1>2, <2>1, HighestStop
    <2> HIDE DEF first
    <2>3. first \in SL!Levels /\ SL!Meets(ts, first)
      BY <1>2, <2>1, <2>2
    <2>4. PICK m \in Row(first) : sl_timestamp[m] = ts
      BY <2>3, MeetsStored
    <2> QED
      BY <2>3, <2>4, RowTypes
  <1>5. ASSUME found PROVE SL!Find(ts) = "0"
    BY <1>1, <1>3, <1>5
  <1> QED
    BY <1>4, <1>5

LEMMA SkipCardinality == ASSUME NEW S PROVE SL!Cardinality(S) = Cardinality(S)
  BY DEF SL!Cardinality, Cardinality

LEMMA SkipHoldsOK == SkipConstants /\ SkipInv => SL!ListOK
  <1> SUFFICES ASSUME SkipConstants, SkipInv PROVE SL!ListOK
    OBVIOUS
  <1>1. ASSUME sl_status = "up"
        PROVE  /\ sl_length = SL!Cardinality(sl_stored)
               /\ \A i \in SL!Levels :
                      /\ SL!Chain(i) = {n \in sl_stored : sl_height[n] >= i}
                      /\ \A n \in SL!Chain(i) :
                             sl_next[n][i] # sl_NULL => sl_timestamp[n] <= sl_timestamp[sl_next[n][i]]
               /\ \A ts \in sl_Times : SL!Find(ts) # "crash" =>
                      (SL!Find(ts) = "0" <=> \E n \in sl_stored : sl_timestamp[n] = ts)
    <2>1. SkipTypes /\ SkipEnds
      BY <1>1 DEF SkipInv, SkipHolds
    <2>2. PICK r : Ranked(r) /\ InRows(r)
      BY <1>1 DEF SkipInv, SkipHolds
    <2>3. ASSUME NEW i \in SL!Levels
          PROVE  /\ SL!Chain(i) = Row(i)
                 /\ \A n \in Row(i) :
                        sl_next[n][i] # sl_NULL => sl_timestamp[n] <= sl_timestamp[sl_next[n][i]]
      <3>1. SL!Chain(i) = Row(i)
        BY <2>1, <2>2, ChainIs
      <3>2. ASSUME NEW n \in Row(i), sl_next[n][i] # sl_NULL
            PROVE  sl_timestamp[n] <= sl_timestamp[sl_next[n][i]]
        <4>1. Leads(r, i, n, sl_next[n][i])
          BY <2>2 DEF InRows, RowAndHead
        <4> QED
          BY <2>1, <2>2, <3>2, <4>1, RowTypes DEF Leads, Ranked
      <3> QED
        BY <3>1, <3>2
    <2>4. \A ts \in sl_Times : ts \in Int
      BY DEF SkipConstants
    <2>5. sl_length = SL!Cardinality(sl_stored)
      BY <2>1, SkipCardinality DEF SkipTypes
    <2> QED
      BY <2>1, <2>2, <2>3, <2>4, <2>5, FindsStored DEF Row
  <1>2. sl_status = "destroyed" => \A n \in sl_stored : sl_height[n] = 0
    BY DEF SkipInv
  <1> QED
    BY <1>1, <1>2 DEF SL!ListOK

-----------------------------------------------------------------------------
(* The steps.                                                              *)

LEMMA SkipStart == SkipConstants /\ SL!Init => SkipInv
  <1> SUFFICES ASSUME SkipConstants, SL!Init PROVE SkipInv
    OBVIOUS
  <1>1. /\ sl_height = [n \in sl_Nodes |-> 0] /\ sl_timestamp = [n \in sl_Nodes |-> 0]
        /\ \A i \in SL!Levels : /\ sl_next[sl_head][i] = sl_NULL
                                /\ \A n \in sl_Nodes : sl_next[n][i] = SL!Off
        /\ sl_level = 0 /\ sl_length = 0 /\ sl_stored = {} /\ sl_status = "up"
    BY DEF SL!Init, SkipConstants
  <1>2. SkipTypes
    BY <1>1, FS_EmptySet DEF SkipTypes, SkipConstants
  <1>3. SkipEnds
    BY <1>1 DEF SkipEnds, SkipConstants, SL!Levels
  <1>4. Ranked([n \in sl_Nodes \cup {sl_head} |-> 0])
    BY <1>1 DEF Ranked
  <1>5. InRows([n \in sl_Nodes \cup {sl_head} |-> 0])
    BY <1>1 DEF InRows, Leads, RowAndHead, Row
  <1> QED
    BY <1>1, <1>2, <1>3, <1>4, <1>5 DEF SkipInv, SkipHolds

\* The new node comes behind all that are before ts, in front of the others.
Early(n, ts) == n = sl_head \/ sl_timestamp[n] < ts

NewRanks(r, n, ts, c) ==
    [m \in sl_Nodes \cup {sl_head} |->
        IF m = n THEN r[c] ELSE IF Early(m, ts) THEN r[m] + 1 ELSE r[m]]

LEMMA RanksMoved ==
    ASSUME SkipConstants, SkipTypes, NEW r, Ranked(r), NEW ts \in Int, NEW c, LastBefore(r, 1, ts, c),
           NEW n \in sl_Nodes \ sl_stored, NEW q, q = NewRanks(r, n, ts, c)
    PROVE  /\ q \in [sl_Nodes \cup {sl_head} -> Nat]
           /\ \A a, b \in sl_stored \cup {sl_head} : q[a] < q[b] <=> r[a] < r[b]
           /\ \A a \in sl_stored \cup {sl_head} : IF Early(a, ts) THEN q[n] < q[a] ELSE q[a] < q[n]
  <1> DEFINE S == sl_stored \cup {sl_head}
  <1>1. 1 \in SL!Levels /\ Row(1) = sl_stored
    BY DEF SkipConstants, SkipTypes, SL!Levels, Row
  <1>2. c \in S /\ \A m \in sl_stored : sl_timestamp[m] < ts <=> ~(r[m] < r[c])
    BY <1>1 DEF LastBefore, RowAndHead
  <1>3. /\ \A m \in S : r[m] \in Nat /\ m \in sl_Nodes \cup {sl_head} /\ m # n
        /\ \A m \in sl_stored : r[m] < r[sl_head] /\ m # sl_head
    BY RankTypes, RowTypes, <1>1 DEF Ranked, SkipTypes, SkipConstants
  <1>4. ~(r[sl_head] < r[c])
    BY <1>2, <1>3
  <1>5. \A m \in S : Early(m, ts) <=> ~(r[m] < r[c])
    BY <1>2, <1>3, <1>4 DEF Early
  <1>6. /\ q[n] = r[c]
        /\ \A m \in S : q[m] = IF Early(m, ts) THEN r[m] + 1 ELSE r[m]
    BY <1>3 DEF NewRanks
  <1>7. q \in [sl_Nodes \cup {sl_head} -> Nat]
    BY <1>2, <1>3 DEF NewRanks, Ranked
  <1>8. \A a, b \in S : q[a] < q[b] <=> r[a] < r[b]
    BY <1>2, <1>3, <1>5, <1>6
  <1>9. \A a \in S : IF Early(a, ts) THEN q[n] < q[a] ELSE q[a] < q[n]
    BY <1>2, <1>3, <1>5, <1>6
  <1> QED
    BY <1>7, <1>8, <1>9

LEMMA SkipInsert ==
    ASSUME SkipConstants, SkipInv, NEW n \in sl_Nodes, NEW ts \in sl_Times, NEW h \in SL!Levels,
           SL!skplist_insert(n, ts, h)
    PROVE  SkipInv'
  <1> DEFINE cur == [i \in SL!Levels |-> IF i > sl_level THEN sl_head ELSE SL!Cursors(ts)[i]]
             M == sl_SKIPLIST_LEVEL_MAX
  <1>1. /\ sl_status = "up" /\ sl_status' = "up" /\ sl_height[n] = 0
        /\ sl_level' = (IF h > sl_level THEN h ELSE sl_level)
        /\ sl_height' = [sl_height EXCEPT ![n] = h]
        /\ sl_timestamp' = [sl_timestamp EXCEPT ![n] = ts]
        /\ sl_length' = sl_length + 1 /\ sl_stored' = sl_stored \cup {n}
    BY DEF SL!skplist_insert, SL!Raise
  <1>2. sl_next' = [m \in sl_Nodes \cup {sl_head} |-> [i \in SL!Levels |->
                       CASE m = n -> IF i <= h THEN sl_next[cur[i]][i] ELSE SL!Off
                         [] m # n /\ i <= h /\ m = cur[i] -> n
                         [] OTHER -> sl_next[m][i]]]
    BY DEF SL!skplist_insert
  <1>3. SkipTypes /\ SkipEnds
    BY <1>1 DEF SkipInv, SkipHolds
  <1>4. PICK r : Ranked(r) /\ InRows(r)
    BY <1>1 DEF SkipInv, SkipHolds
  <1>5. /\ M \in Nat \ {0} /\ SL!Levels = 1 .. M /\ h \in 1 .. M /\ ts \in Int /\ 1 \in SL!Levels
        /\ n \notin sl_stored /\ n # sl_head /\ n # sl_NULL
    BY <1>1, <1>3 DEF SkipConstants, SkipTypes, SL!Levels
  <1>6. \A i \in SL!Levels : LastBefore(r, i, ts, cur[i])
    <2> SUFFICES ASSUME NEW i \in SL!Levels PROVE LastBefore(r, i, ts, cur[i])
      OBVIOUS
    <2>1. CASE i > sl_level
      <3>1. Row(i) = {}
        BY <1>3, <1>5, <2>1 DEF Row, SkipTypes
      <3> QED
        BY <2>1, <3>1 DEF LastBefore, RowAndHead
    <2>2. CASE ~(i > sl_level)
      BY <1>3, <1>4, <1>5, <2>2, CursorsLast
    <2> QED
      BY <2>1, <2>2
  <1>7. PICK c1 : c1 = cur[1]
    OBVIOUS
  <1>8. PICK q : q = NewRanks(r, n, ts, c1)
    OBVIOUS
  <1>9. PICK cu : cu = cur
    OBVIOUS
  <1>10. PICK nx : nx = sl_next
    OBVIOUS
  <1> HIDE DEF cur
  <1>11. /\ \A i \in SL!Levels : LastBefore(r, i, ts, cu[i]) /\ cu[i] \in RowAndHead(i)
         /\ LastBefore(r, 1, ts, c1)
    BY <1>5, <1>6, <1>7, <1>9 DEF LastBefore
  <1>12. \A i \in SL!Levels : \A m \in sl_Nodes \cup {sl_head} :
             sl_next'[m][i] = IF m = n THEN IF i <= h THEN nx[cu[i]][i] ELSE SL!Off
                              ELSE IF i <= h /\ m = cu[i] THEN n ELSE nx[m][i]
    BY <1>2, <1>9, <1>10
  <1>13. /\ q \in [sl_Nodes \cup {sl_head} -> Nat]
         /\ \A a, b \in sl_stored \cup {sl_head} : q[a] < q[b] <=> r[a] < r[b]
         /\ \A a \in sl_stored \cup {sl_head} : IF Early(a, ts) THEN q[n] < q[a] ELSE q[a] < q[n]
    BY <1>3, <1>4, <1>5, <1>8, <1>11, RanksMoved
  <1>14. /\ \A m \in sl_Nodes : sl_height'[m] = IF m = n THEN h ELSE sl_height[m]
         /\ \A m \in sl_Nodes : sl_timestamp'[m] = IF m = n THEN ts ELSE sl_timestamp[m]
         /\ sl_height' \in [sl_Nodes -> 0 .. M] /\ sl_timestamp' \in [sl_Nodes -> Int]
    BY <1>1, <1>3, <1>5 DEF SkipTypes
  <1>15. \A i \in SL!Levels : Row(i)' = IF i <= h THEN Row(i) \cup {n} ELSE Row(i)
    BY <1>1, <1>3, <1>5, <1>14 DEF Row, SkipTypes
  <1>16. SkipTypes'
    <2>1. IsFiniteSet(sl_stored') /\ Cardinality(sl_stored') = Cardinality(sl_stored) + 1
      BY <1>1, <1>3, <1>5, FS_AddElement DEF SkipTypes
    <2>2. sl_level' \in 0 .. M /\ sl_level <= sl_level' /\ h <= sl_level'
      BY <1>1, <1>3, <1>5 DEF SkipTypes
    <2>3. \A m \in sl_Nodes : sl_height'[m] <= sl_level' /\ (m \in sl_stored' <=> sl_height'[m] # 0)
      BY <1>1, <1>3, <1>5, <1>14, <2>2 DEF SkipTypes
    <2> QED
      BY <1>1, <1>3, <1>14, <2>1, <2>2, <2>3 DEF SkipTypes
  <1>17. SkipEnds'
    <2> SUFFICES ASSUME NEW i \in SL!Levels
                 PROVE  /\ sl_next'[sl_head][i] # SL!Off
                        /\ \A m \in sl_Nodes : sl_next'[m][i] = SL!Off <=> sl_height'[m] < i
      BY DEF SkipEnds
    <2>1. /\ nx[sl_head][i] # SL!Off
          /\ \A m \in sl_Nodes : nx[m][i] = SL!Off <=> sl_height[m] < i
      BY <1>3, <1>10 DEF SkipEnds
    <2>2. n # SL!Off
      BY DEF SkipConstants
    <2>3. nx[cu[i]][i] # SL!Off
      BY <1>3, <1>11, <2>1, RowTypes DEF RowAndHead, Row, SkipTypes
    <2>4. cu[i] = sl_head \/ cu[i] \in Row(i)
      BY <1>11 DEF RowAndHead
    <2>5. \A m \in Row(i) : ~(sl_height[m] < i)
      BY <1>3, <1>5 DEF Row, SkipTypes
    <2>6. i \in Int /\ h \in Int /\ \A m \in sl_Nodes : sl_height[m] \in Int
      BY <1>3, <1>5 DEF SkipTypes
    <2> QED
      BY <1>5, <1>12, <1>14, <2>1, <2>2, <2>3, <2>4, <2>5, <2>6
  <1>18. Ranked(q)'
    <2>1. ASSUME NEW a \in sl_stored \cup {n}, NEW b \in sl_stored \cup {n}
          PROVE  /\ q[a] = q[b] => a = b
                 /\ q[a] < q[b] => sl_timestamp'[b] <= sl_timestamp'[a]
      <3>1. \A m \in sl_stored : m # sl_head /\ m \in sl_Nodes /\ r[m] \in Nat /\ q[m] \in Nat /\ sl_timestamp[m] \in Int
        BY <1>3, <1>4, <1>13, RankTypes DEF SkipTypes, SkipConstants
      <3>2. q[n] \in Nat
        BY <1>13
      <3>3. CASE a # n /\ b # n
        BY <1>4, <1>13, <1>14, <3>1, <3>3 DEF Ranked
      <3>4. CASE a = n /\ b = n
        BY <1>5, <1>14, <3>2, <3>4
      <3>5. CASE a = n /\ b # n
        <4>1. b \in sl_stored /\ b # sl_head /\ b \in sl_Nodes
          BY <3>1, <3>5
        <4>2. IF sl_timestamp[b] < ts THEN q[n] < q[b] ELSE q[b] < q[n]
          BY <1>13, <4>1 DEF Early
        <4>3. sl_timestamp'[b] = sl_timestamp[b] /\ sl_timestamp'[n] = ts
          BY <1>14, <3>5, <4>1
        <4>4. q[b] \in Nat /\ sl_timestamp[b] \in Int
          BY <3>1, <4>1
        <4> QED
          BY <1>5, <3>2, <3>5, <4>2, <4>3, <4>4
      <3>6. CASE a # n /\ b = n
        BY <1>5, <1>13, <1>14, <3>1, <3>2, <3>6 DEF Early
      <3> QED
        BY <3>3, <3>4, <3>5, <3>6
    <2>2. \A m \in sl_stored \cup {n} : q[m] < q[sl_head]
      BY <1>4, <1>13 DEF Ranked, Early
    <2> QED
      BY <1>1, <1>13, <2>1, <2>2 DEF Ranked
  <1>19. InRows(q)'
    <2> SUFFICES ASSUME NEW i \in SL!Levels, NEW k \in RowAndHead(i)', NEW x, x = sl_next'[k][i]
                 PROVE  Leads(q, i, k, x)'
      BY DEF InRows
    <2> DEFINE c == cu[i]
    <2>0. /\ Row(i) \subseteq sl_stored /\ sl_NULL \notin Row(i) /\ RowAndHead(i) \subseteq sl_stored \cup {sl_head}
          /\ i \in Int /\ h \in Int /\ n \notin RowAndHead(i)
      BY <1>3, <1>5, RowTypes DEF RowAndHead
    <2>1. /\ c \in RowAndHead(i) /\ Leads(r, i, c, nx[c][i]) /\ Early(c, ts)
          /\ \A m \in Row(i) : Early(m, ts) <=> ~(r[m] < r[c])
      <3>1. c \in RowAndHead(i) /\ LastBefore(r, i, ts, c)
        BY <1>11
      <3>2. \A m \in Row(i) : m # sl_head
        BY <1>3, RowTypes
      <3> QED
        BY <1>4, <1>10, <3>1, <3>2 DEF LastBefore, InRows, Early
    <2> HIDE DEF c
    <2>2. k \in sl_Nodes \cup {sl_head} /\ (k \in RowAndHead(i) \/ (k = n /\ i <= h))
      BY <1>3, <1>5, <1>15, RowTypes DEF RowAndHead
    <2>3. \A m \in sl_stored \cup {sl_head} : q[m] \in Nat /\ r[m] \in Nat
      BY <1>3, <1>4, <1>13, RankTypes DEF SkipTypes, RowAndHead
    <2>4. q[n] \in Nat
      BY <1>13
    <2>5. CASE k \in RowAndHead(i) /\ ~(i <= h)
      <3>1. x = nx[k][i] /\ Row(i)' = Row(i) /\ k \in sl_stored \cup {sl_head}
        BY <1>12, <1>15, <2>0, <2>2, <2>5
      <3>2. Leads(r, i, k, x)
        BY <1>4, <1>10, <2>5, <3>1 DEF InRows
      <3>3. IF x = sl_NULL THEN \A m \in Row(i) : ~(q[m] < q[k])
            ELSE x \in Row(i) /\ q[x] < q[k] /\ \A m \in Row(i) : q[m] < q[k] => q[m] <= q[x]
        BY <1>13, <2>0, <2>3, <3>1, <3>2 DEF Leads
      <3> QED
        BY <3>1, <3>3 DEF Leads
    <2>6. CASE k = c /\ i <= h
      <3>1. x = n /\ k # n /\ Row(i)' = Row(i) \cup {n} /\ k \in sl_stored \cup {sl_head}
        BY <1>12, <1>15, <2>0, <2>1, <2>2, <2>6 DEF c
      <3>2. q[n] < q[k]
        BY <1>13, <2>1, <2>6, <3>1
      <3>3. \A m \in Row(i) : q[m] < q[k] => q[m] <= q[n]
        BY <1>13, <2>0, <2>1, <2>3, <2>4, <2>6, <3>1
      <3>4. x \in Row(i)' /\ q[x] < q[k] /\ \A m \in Row(i)' : q[m] < q[k] => q[m] <= q[x]
        BY <2>4, <3>1, <3>2, <3>3
      <3> QED
        BY <1>5, <3>1, <3>4 DEF Leads
    <2>7. CASE k = n /\ i <= h
      <3>1. x = nx[c][i] /\ Row(i)' = Row(i) \cup {n}
        BY <1>12, <1>15, <2>2, <2>7 DEF c
      <3>2. \A m \in Row(i) : r[m] < r[c] <=> q[m] < q[n]
        BY <1>13, <2>0, <2>1, <2>3, <2>4
      <3>3. CASE x = sl_NULL
        <4>1. \A m \in Row(i)' : ~(q[m] < q[k])
          BY <2>1, <2>4, <2>7, <3>1, <3>2, <3>3 DEF Leads
        <4> QED
          BY <3>3, <4>1 DEF Leads
      <3>4. CASE x # sl_NULL
        <4>1. x \in Row(i) /\ r[x] < r[c] /\ \A m \in Row(i) : r[m] < r[c] => r[m] <= r[x]
          BY <2>1, <3>1, <3>4 DEF Leads
        <4>2. \A m \in Row(i) : q[m] < q[n] => q[m] <= q[x]
          BY <1>13, <2>0, <2>3, <3>2, <4>1
        <4>3. x \in Row(i)' /\ q[x] < q[k] /\ \A m \in Row(i)' : q[m] < q[k] => q[m] <= q[x]
          BY <2>4, <2>7, <3>1, <3>2, <4>1, <4>2
        <4> QED
          BY <3>4, <4>3 DEF Leads
      <3> QED
        BY <3>3, <3>4
    <2>8. CASE k \in RowAndHead(i) /\ k # c /\ i <= h
      <3>1. x = nx[k][i] /\ Row(i)' = Row(i) \cup {n} /\ k \in sl_stored \cup {sl_head} /\ k # n
        BY <1>12, <1>15, <2>0, <2>2, <2>8 DEF c
      <3>2. Leads(r, i, k, x)
        BY <1>4, <1>10, <2>8, <3>1 DEF InRows
      <3>3. IF x = sl_NULL THEN \A m \in Row(i) : ~(q[m] < q[k])
            ELSE x \in Row(i) /\ q[x] < q[k] /\ \A m \in Row(i) : q[m] < q[k] => q[m] <= q[x]
        BY <1>13, <2>0, <2>3, <3>1, <3>2 DEF Leads
      <3>4. q[n] < q[k] => x # sl_NULL /\ q[n] <= q[x]
        <4> SUFFICES ASSUME q[n] < q[k] PROVE x # sl_NULL /\ q[n] <= q[x]
          OBVIOUS
        <4>1. Early(k, ts)
          BY <1>13, <2>3, <2>4, <3>1
        <4>2. ~(r[k] < r[c])
          <5>1. r[c] <= r[sl_head]
            BY <1>4, <2>0, <2>1, <2>3 DEF RowAndHead, Ranked
          <5> QED
            BY <2>0, <2>1, <2>3, <2>8, <4>1, <5>1 DEF RowAndHead
        <4>3. r[c] < r[k] /\ c # sl_head
          <5>1. \A m \in Row(i) : r[m] < r[sl_head]
            BY <1>4, <2>0 DEF Ranked
          <5>2. \A a, b \in Row(i) : r[a] = r[b] => a = b
            BY <1>4, <2>0 DEF Ranked
          <5> QED
            BY <2>0, <2>1, <2>3, <2>8, <4>2, <5>1, <5>2 DEF RowAndHead
        <4>4. c \in Row(i) /\ x # sl_NULL /\ x \in Row(i) /\ r[c] <= r[x]
          BY <2>1, <3>2, <4>3 DEF Leads, RowAndHead
        <4>5. ~(r[x] < r[c])
          BY <2>0, <2>3, <4>4
        <4>6. Early(x, ts)
          BY <2>1, <4>4, <4>5
        <4>7. q[n] < q[x]
          BY <1>13, <2>0, <4>4, <4>6
        <4> QED
          BY <2>0, <2>3, <2>4, <4>4, <4>7
      <3>5. IF x = sl_NULL THEN \A m \in Row(i)' : ~(q[m] < q[k])
            ELSE x \in Row(i)' /\ q[x] < q[k] /\ \A m \in Row(i)' : q[m] < q[k] => q[m] <= q[x]
        BY <3>1, <3>3, <3>4
      <3> QED
        BY <3>1, <3>5 DEF Leads
    <2> QED
      BY <2>2, <2>5, <2>6, <2>7, <2>8
  <1>20. SkipHolds'
    BY <1>16, <1>17, <1>18, <1>19 DEF SkipHolds
  <1> QED
    BY <1>1, <1>20 DEF SkipInv

\* What is cut out of a level is the node itself, on each of its levels.
LEMMA SkipRemove ==
    ASSUME SkipConstants, SkipInv, NEW n \in sl_Nodes, SL!skplist_remove(n)
    PROVE  SkipInv'
  <1> DEFINE ts == SL!Narrow(sl_timestamp[n])  cur == SL!Cursors(ts)
  <1>1. /\ sl_status = "up" /\ n \in sl_stored /\ ~SL!RemoveCrashes(n)
        /\ sl_height' = [sl_height EXCEPT ![n] = 0]
        /\ sl_timestamp' = [sl_timestamp EXCEPT ![n] = 0]
        /\ sl_length' = sl_length - 1 /\ sl_stored' = sl_stored \ {n} /\ sl_level' = sl_level
        /\ sl_status' \in {"up", "lost"}
    BY DEF SL!skplist_remove
  <1>2. /\ sl_next' = [m \in sl_Nodes \cup {sl_head} |-> [i \in SL!Levels |->
                         CASE m = n -> SL!Off
                           [] m # n /\ i \in SL!Cuts(ts) /\ m = cur[i] -> sl_next[n][i]
                           [] OTHER -> sl_next[m][i]]]
        /\ sl_status' = "up" => /\ ts = sl_timestamp[n]
                                /\ \A i \in SL!Cuts(sl_timestamp[n]) : sl_next[cur[i]][i] = n
    BY DEF SL!skplist_remove
  <1> SUFFICES ASSUME sl_status' = "up" PROVE SkipHolds'
    BY <1>1 DEF SkipInv
  <1>3. SkipTypes /\ SkipEnds
    BY <1>1 DEF SkipInv, SkipHolds
  <1>4. PICK r : Ranked(r) /\ InRows(r)
    BY <1>1 DEF SkipInv, SkipHolds
  <1>5. ts \in Int /\ ts = sl_timestamp[n]
    BY <1>2, <1>3 DEF SkipTypes
  <1>6. \A i \in SL!Levels : i \in SL!Cuts(ts) <=> i <= sl_level /\ \E m \in Row(i) : sl_timestamp[m] = ts
    BY <1>3, <1>4, <1>5, MeetsStored DEF SL!Cuts, SL!Levels
  <1>7. \A i \in SL!Cuts(ts) : sl_next[cur[i]][i] = n /\ ~(i > sl_height[n])
    BY <1>1, <1>2, <1>5 DEF SL!RemoveCrashes
  <1> HIDE DEF ts, cur
  <1>8. \A i \in SL!Levels : i \in SL!Cuts(ts) <=> i <= sl_height[n]
    <2> SUFFICES ASSUME NEW i \in SL!Levels PROVE i \in SL!Cuts(ts) <=> i <= sl_height[n]
      OBVIOUS
    <2>1. i \in Int /\ sl_height[n] \in Int /\ sl_level \in Int /\ sl_height[n] <= sl_level
      BY <1>3 DEF SkipTypes, SL!Levels
    <2>2. i <= sl_height[n] => n \in Row(i)
      BY <1>1, <2>1 DEF Row
    <2> QED
      BY <1>5, <1>6, <1>7, <2>1, <2>2
  <1>9. PICK nx, cu : nx = sl_next /\ cu = cur
    OBVIOUS
  <1>10. \A i \in SL!Levels : \A m \in sl_Nodes \cup {sl_head} :
             sl_next'[m][i] = IF m = n THEN SL!Off
                              ELSE IF i <= sl_height[n] /\ m = cu[i] THEN nx[n][i] ELSE nx[m][i]
    BY <1>2, <1>8, <1>9
  <1>11. \A i \in SL!Levels : Row(i)' = Row(i) \ {n}
    BY <1>1, <1>3 DEF Row, SkipTypes
  <1>12. n # sl_head
    BY DEF SkipConstants
  <1>13. /\ \A m \in sl_Nodes : sl_height'[m] = IF m = n THEN 0 ELSE sl_height[m]
         /\ \A m \in sl_Nodes : sl_timestamp'[m] = IF m = n THEN 0 ELSE sl_timestamp[m]
         /\ sl_height' \in [sl_Nodes -> 0 .. sl_SKIPLIST_LEVEL_MAX] /\ sl_timestamp' \in [sl_Nodes -> Int]
    BY <1>1, <1>3 DEF SkipTypes, SkipConstants
  <1>14. SkipTypes'
    <2>1. IsFiniteSet(sl_stored') /\ Cardinality(sl_stored') = Cardinality(sl_stored) - 1
      BY <1>1, <1>3, FS_RemoveElement DEF SkipTypes
    <2>2. \A m \in sl_Nodes : sl_height'[m] <= sl_level' /\ (m \in sl_stored' <=> sl_height'[m] # 0)
      BY <1>1, <1>3, <1>13 DEF SkipTypes
    <2> QED
      BY <1>1, <1>3, <1>13, <2>1, <2>2 DEF SkipTypes
  <1>15. \A i \in SL!Levels : \A k \in RowAndHead(i) : Leads(r, i, k, nx[k][i])
    BY <1>4, <1>9 DEF InRows
  <1>16. \A i \in SL!Levels : i <= sl_height[n] =>
             n \in Row(i) /\ cu[i] \in RowAndHead(i) /\ nx[cu[i]][i] = n
    <2> SUFFICES ASSUME NEW i \in SL!Levels, i <= sl_height[n]
                 PROVE  n \in Row(i) /\ cu[i] \in RowAndHead(i) /\ nx[cu[i]][i] = n
      OBVIOUS
    <2>1. LastBefore(r, i, ts, cur[i])
      BY <1>3, <1>4, <1>5, CursorsLast DEF cur
    <2>2. nx[cu[i]][i] = n
      BY <1>7, <1>8, <1>9
    <2> QED
      BY <1>1, <1>9, <2>1, <2>2 DEF LastBefore, Row
  <1>17. SkipEnds'
    <2> SUFFICES ASSUME NEW i \in SL!Levels
                 PROVE  /\ sl_next'[sl_head][i] # SL!Off
                        /\ \A m \in sl_Nodes : sl_next'[m][i] = SL!Off <=> sl_height'[m] < i
      BY DEF SkipEnds
    <2>1. /\ nx[sl_head][i] # SL!Off
          /\ \A m \in sl_Nodes : nx[m][i] = SL!Off <=> sl_height[m] < i
      BY <1>3, <1>9 DEF SkipEnds
    <2>2. i \in Nat \ {0} /\ \A m \in sl_Nodes : sl_height[m] \in Int
      BY <1>3 DEF SkipTypes, SL!Levels, SkipConstants
    <2>3. i <= sl_height[n] => nx[n][i] # SL!Off /\ cu[i] \in RowAndHead(i)
      BY <1>16, <2>1, <2>2
    <2>4. \A m \in Row(i) : ~(sl_height[m] < i) /\ m \in sl_Nodes
      BY <1>3, <2>2 DEF Row, SkipTypes
    <2> QED
      BY <1>10, <1>12, <1>13, <2>1, <2>2, <2>3, <2>4 DEF RowAndHead
  <1>18. Ranked(r)'
    BY <1>1, <1>3, <1>4, <1>13 DEF Ranked, SkipTypes
  <1>19. InRows(r)'
    <2> SUFFICES ASSUME NEW i \in SL!Levels, NEW k \in RowAndHead(i)', NEW x, x = sl_next'[k][i]
                 PROVE  Leads(r, i, k, x)'
      BY DEF InRows
    <2>1. /\ Row(i)' = Row(i) \ {n} /\ k \in RowAndHead(i) /\ k # n /\ k \in sl_Nodes \cup {sl_head}
          /\ sl_NULL \notin Row(i) /\ Row(i) \subseteq sl_stored /\ i \in Int
      BY <1>3, <1>11, <1>12, RowTypes DEF RowAndHead
    <2>2. /\ \A m \in RowAndHead(i) : r[m] \in Nat
          /\ \A a, b \in RowAndHead(i) : r[a] = r[b] => a = b
          /\ \A m \in Row(i) : r[m] < r[sl_head] /\ m \in RowAndHead(i)
      BY <1>3, <1>4, <2>1, RankTypes DEF Ranked, RowAndHead
    <2>3. Leads(r, i, k, nx[k][i])
      BY <1>15, <2>1
    <2>4. CASE i <= sl_height[n] /\ k = cu[i]
      <3>1. x = nx[n][i] /\ n \in Row(i) /\ nx[k][i] = n
        BY <1>10, <1>16, <2>1, <2>4
      <3>2. Leads(r, i, n, x) /\ n # sl_NULL
        BY <1>15, <2>1, <2>2, <3>1
      <3>3. r[n] < r[k] /\ \A m \in Row(i) : r[m] < r[k] => r[m] <= r[n]
        BY <2>3, <3>1, <3>2 DEF Leads
      <3>4. \A m \in Row(i)' : r[m] < r[k] => r[m] < r[n]
        BY <2>1, <2>2, <3>1, <3>3
      <3>5. IF x = sl_NULL THEN \A m \in Row(i)' : ~(r[m] < r[k])
            ELSE x \in Row(i)' /\ r[x] < r[k] /\ \A m \in Row(i)' : r[m] < r[k] => r[m] <= r[x]
        BY <2>1, <2>2, <3>1, <3>2, <3>3, <3>4 DEF Leads
      <3> QED
        BY <3>5 DEF Leads
    <2>5. CASE ~(i <= sl_height[n] /\ k = cu[i])
      <3>1. x = nx[k][i]
        BY <1>10, <2>1, <2>5
      <3>2. x # n
        <4> SUFFICES ASSUME x = n PROVE FALSE
          OBVIOUS
        <4>1. n # sl_NULL /\ n \in Row(i)
          BY <1>1, <2>1, <2>3, <3>1 DEF Leads, SkipConstants
        <4>2. i <= sl_height[n]
          BY <1>3, <2>1, <4>1 DEF Row, SkipTypes
        <4> DEFINE c == cu[i]
        <4>3. c \in RowAndHead(i) /\ Leads(r, i, c, n) /\ Leads(r, i, k, n) /\ c # k
          BY <1>15, <1>16, <2>3, <2>5, <3>1, <4>2
        <4> HIDE DEF c
        <4>4. /\ r[n] < r[c] /\ \A m \in Row(i) : r[m] < r[c] => r[m] <= r[n]
              /\ r[n] < r[k] /\ \A m \in Row(i) : r[m] < r[k] => r[m] <= r[n]
          BY <4>1, <4>3 DEF Leads
        <4>5. r[c] < r[k] \/ r[k] < r[c]
          BY <2>1, <2>2, <4>3
        <4>6. CASE r[c] < r[k]
          <5>1. c \in Row(i)
            BY <2>1, <2>2, <4>3, <4>6 DEF RowAndHead
          <5> QED
            BY <2>2, <4>1, <4>4, <4>6, <5>1
        <4>7. CASE r[k] < r[c]
          <5>1. k \in Row(i)
            BY <2>1, <2>2, <4>3, <4>7 DEF RowAndHead
          <5> QED
            BY <2>2, <4>1, <4>4, <4>7, <5>1
        <4> QED
          BY <4>5, <4>6, <4>7
      <3>3. IF x = sl_NULL THEN \A m \in Row(i)' : ~(r[m] < r[k])
            ELSE x \in Row(i)' /\ r[x] < r[k] /\ \A m \in Row(i)' : r[m] < r[k] => r[m] <= r[x]
        BY <2>1, <2>3, <3>1, <3>2 DEF Leads
      <3> QED
        BY <3>3 DEF Leads
    <2> QED
      BY <2>4, <2>5
  <1> QED
    BY <1>14, <1>17, <1>18, <1>19 DEF SkipHolds

LEMMA SkipStep == SkipConstants /\ SkipInv /\ [SL!Next]_slVars => SkipInv'
  <1> SUFFICES ASSUME SkipConstants, SkipInv, [SL!Next]_slVars PROVE SkipInv'
    OBVIOUS
  <1>1. CASE UNCHANGED slVars
    <2>1. /\ sl_height' = sl_height /\ sl_timestamp' = sl_timestamp /\ sl_next' = sl_next
          /\ sl_level' = sl_level /\ sl_length' = sl_length /\ sl_stored' = sl_stored
          /\ sl_status' = sl_status
      BY <1>1 DEF slVars
    <2>2. SkipHolds => SkipTypes' /\ SkipEnds'
      BY <2>1 DEF SkipHolds, SkipTypes, SkipEnds
    <2>3. SkipHolds => \E r : Ranked(r)' /\ InRows(r)'
      BY <2>1 DEF SkipHolds, Ranked, InRows, Leads, RowAndHead, Row
    <2> QED
      BY <2>1, <2>2, <2>3 DEF SkipInv, SkipHolds
  <1>2. ASSUME NEW h \in SL!Levels, SL!InsertFails(h) PROVE SkipInv'
    <2>1. /\ sl_status = "up" /\ sl_level' = (IF h > sl_level THEN h ELSE sl_level)
          /\ UNCHANGED <<sl_height, sl_timestamp, sl_next, sl_length, sl_stored, sl_status>>
      BY <1>2 DEF SL!InsertFails, SL!Raise
    <2>2. SkipHolds
      BY <2>1 DEF SkipInv
    <2>3. SkipTypes'
      <3>1. sl_level' \in 0 .. sl_SKIPLIST_LEVEL_MAX /\ sl_level <= sl_level'
        BY <2>1, <2>2 DEF SkipHolds, SkipTypes, SL!Levels, SkipConstants
      <3> QED
        BY <2>1, <2>2, <3>1 DEF SkipHolds, SkipTypes
    <2>4. SkipEnds' /\ \E r : Ranked(r)' /\ InRows(r)'
      BY <2>1, <2>2 DEF SkipHolds, SkipEnds, Ranked, InRows, Leads, RowAndHead, Row
    <2> QED
      BY <2>1, <2>3, <2>4 DEF SkipInv, SkipHolds
  <1>3. CASE SL!Crash
    BY <1>3 DEF SL!Crash, SkipInv
  <1>4. CASE SL!skplist_destroy
    <2>1. /\ sl_status = "up" /\ sl_status' = "destroyed" /\ sl_stored' = sl_stored
          /\ sl_height' = [n \in sl_Nodes |-> IF n \in SL!Chain(1) THEN 0 ELSE sl_height[n]]
      BY <1>4 DEF SL!skplist_destroy
    <2>2. SkipTypes /\ SkipEnds
      BY <2>1 DEF SkipInv, SkipHolds
    <2>3. PICK r : Ranked(r) /\ InRows(r)
      BY <2>1 DEF SkipInv, SkipHolds
    <2>4. SL!Chain(1) = sl_stored
      <3>1. 1 \in SL!Levels /\ Row(1) = sl_stored
        BY <2>2 DEF SkipConstants, SkipTypes, SL!Levels, Row
      <3> QED
        BY <2>2, <2>3, <3>1, ChainIs
    <2> QED
      BY <2>1, <2>2, <2>4 DEF SkipInv, SkipTypes
  <1> QED
    BY <1>1, <1>2, <1>3, <1>4, SkipInsert, SkipRemove DEF SL!Next

\* While no removal meets a twin or a time too wide: whatever the heights and in
\* whatever order nodes come and go, every level goes through the nodes that
\* reach it by time, a search that ends finds a time just if it is stored, and
\* skplist_destroy frees every node (skiplist.c:44-130).
THEOREM LevelsInOrder == SkipConstants /\ StandaloneSpec => []ListOK
  <1> SUFFICES ASSUME SkipConstants PROVE StandaloneSpec => []ListOK
    OBVIOUS
  <1>1. StandaloneInit => SkipInv
    BY SkipStart DEF StandaloneInit
  <1>2. [StandaloneNext]_allVars => [SL!Next]_slVars
    BY DEF StandaloneNext, allVars, mpVars, tcVars, slVars, rbVars, mhVars, tmVars, rxVars,
           zpVars
  <1>3. SkipInv /\ [StandaloneNext]_allVars => SkipInv'
    BY <1>2, SkipStep
  <1>4. SkipInv => ListOK
    BY SkipHoldsOK DEF ListOK
  <1> QED
    BY <1>1, <1>3, <1>4, PTL DEF StandaloneSpec

-----------------------------------------------------------------------------
(* The condition variable and the task queue: pool/thread_pool.c.  The push *)
(* outside the mutex costs no wakeup, and tasks leave in the order they     *)
(* came until two calls of the queue overlap or turn round at its last      *)
(* node.                                                                    *)

Places == {"add", "test", "head prev", "head next", "node prev", "next prev", "front",
           "signal", "loop", "asleep", "unlink", "fix", "free", "data", "run", "crashed"}

(* NobodySleepsOverWork is inductive once every thread is somewhere: a worker
   goes to sleep only over an empty queue, and what fills the queue is a push,
   which leads to the signal. *)
WakeInv ==
    /\ pc \in [Threads -> Places]
    /\ NobodySleepsOverWork

LEMMA WakeInit == Workers # {} /\ Init => WakeInv
  <1> SUFFICES ASSUME Workers # {}, Init PROVE WakeInv
    OBVIOUS
  <1>1. pc \in [Threads -> Places]
    BY DEF Init, Threads, Places
  <1>2. PICK w \in Workers : TRUE
    OBVIOUS
  <1>3. pc[w] # "asleep"
    BY ThreadAssumption DEF Init, Threads
  <1> QED
    BY <1>1, <1>2, <1>3 DEF WakeInv, NobodySleepsOverWork, Asleep

\* Whatever one worker does, unless it falls asleep it is awake afterwards.
LEMMA WorkerKeeps ==
    ASSUME WakeInv, NEW w \in Workers, NEW to \in Places, to # "asleep",
           pc' = [pc EXCEPT ![w] = to]
    PROVE  WakeInv'
  <1>1. pc' \in [Threads -> Places]
    BY DEF WakeInv, Threads
  <1>2. pc'[w] # "asleep"
    BY DEF WakeInv, Threads
  <1> QED
    BY <1>1, <1>2 DEF WakeInv, NobodySleepsOverWork, Asleep

\* Inside a push nothing is claimed.
LEMMA AdderKeeps ==
    ASSUME WakeInv, NEW to \in {"test", "head prev", "head next", "node prev", "next prev", "front",
                                "signal", "crashed"},
           pc' = [pc EXCEPT ![adder] = to]
    PROVE  WakeInv'
  <1>1. pc' \in [Threads -> Places]
    BY DEF WakeInv, Threads, Places
  <1>2. pc'[adder] = to
    BY DEF WakeInv, Threads
  <1> QED
    BY <1>1, <1>2 DEF WakeInv, NobodySleepsOverWork, Pushing

LEMMA WakeStep == Workers # {} /\ WakeInv /\ [Next]_vars => WakeInv'
  <1> SUFFICES ASSUME Workers # {}, WakeInv, [Next]_vars PROVE WakeInv'
    OBVIOUS
  <1>1. ASSUME NEW t \in Tasks, NEW n \in Nodes, AddTask(t, n) PROVE WakeInv'
    BY <1>1, AdderKeeps DEF AddTask, Goto
  <1>2. CASE PushTest
    BY <1>2, AdderKeeps DEF PushTest, Goto
  <1>3. CASE PushStore
    BY <1>3, AdderKeeps DEF PushStore, Store, Goto
  <1>4. CASE Signal
    <2>1. CASE Asleep = {} /\ Goto(adder, "add")
      <3>1. pc' \in [Threads -> Places]
        BY <2>1 DEF WakeInv, Goto, Threads, Places
      <3>2. PICK w \in Workers : TRUE
        OBVIOUS
      <3>3. pc'[w] = pc[w] /\ pc[w] # "asleep"
        BY <2>1, <3>2, ThreadAssumption DEF WakeInv, Goto, Asleep, Threads
      <3> QED
        BY <3>1, <3>2, <3>3 DEF WakeInv, NobodySleepsOverWork, Asleep
    <2>2. ASSUME NEW w \in Asleep, pc' = [pc EXCEPT ![adder] = "add", ![w] = "loop"]
          PROVE  WakeInv'
      <3>1. w \in Workers
        BY DEF Asleep
      <3>2. pc' \in [Threads -> Places]
        BY <2>2, <3>1 DEF WakeInv, Threads, Places
      <3>3. pc'[w] = "loop"
        BY <2>2, <3>1 DEF WakeInv, Threads
      <3> QED
        BY <3>1, <3>2, <3>3 DEF WakeInv, NobodySleepsOverWork, Asleep
    <2> QED
      BY <1>4, <2>1, <2>2 DEF Signal
  <1>5. ASSUME NEW w \in Workers, Sleep(w) PROVE WakeInv'
    <2>1. pc' \in [Threads -> Places]
      BY <1>5 DEF Sleep, Goto, WakeInv, Threads, Places
    <2>2. queue_is_empty(taskq') <=> queue_is_empty(taskq)
      BY <1>5 DEF Sleep
    <2>3. queue_is_empty(taskq)
      BY <1>5 DEF Sleep
    <2> QED
      BY <2>1, <2>2, <2>3 DEF WakeInv, NobodySleepsOverWork
  <1>6. ASSUME NEW w \in Workers,
               \/ SpuriousWake(w) \/ Take(w) \/ PopUnlink(w) \/ PopFix(w)
               \/ PopFree(w) \/ PopData(w) \/ Run(w)
        PROVE  WakeInv'
    <2>1. PICK to \in Places \ {"asleep"} : pc' = [pc EXCEPT ![w] = to]
      BY <1>6, ZenonT(30)
      DEF SpuriousWake, Take, PopUnlink, PopFix, PopFree, PopData, Run, Goto, Places
    <2> QED
      BY <2>1, WorkerKeeps
  <1>7. CASE UNCHANGED vars
    BY <1>7 DEF vars, WakeInv, NobodySleepsOverWork, Asleep, Pushing, queue_is_empty
  <1> QED
    BY <1>1, <1>2, <1>3, <1>4, <1>5, <1>6, <1>7 DEF Next

\* add_task pushes outside the mutex and signals inside it (thread_pool.c:64-68):
\* whatever the interleaving, and whatever state the stores of a push and a pop
\* that met have left, the workers never all sleep over a queue that is not empty.
THEOREM NobodySleeps ==
    ASSUME Workers # {}
    PROVE  Spec => []NobodySleepsOverWork
  <1>1. Init => WakeInv
    BY WakeInit
  <1>2. WakeInv /\ [Next]_vars => WakeInv'
    BY WakeStep
  <1>3. WakeInv => NobodySleepsOverWork
    BY DEF WakeInv
  <1> QED
    BY <1>1, <1>2, <1>3, PTL DEF Spec

-----------------------------------------------------------------------------
(* The order of the tasks.  First the stores of queue_push and queue_pop,  *)
(* as they change a queue.                                                 *)

Queues == [prev : [Cells \cup {NULL} -> Cells \cup {NULL}], next : Cells,
           data : [Nodes -> Tasks \cup {NULL}], free : SUBSET Nodes]

\* q differs from p in these fields.
Is(q, prev, next, data, free) == q.prev = prev /\ q.next = next /\ q.data = data /\ q.free = free

LEMMA Created ==
    /\ queue_create \in Queues
    /\ queue_create.prev[head] = head /\ queue_create.next = head /\ queue_create.free = Nodes
  BY NodeAssumption DEF queue_create, Queues, Cells

LEMMA Stores ==
    ASSUME NEW q \in Queues, NEW n \in Nodes
    PROVE  /\ HeadPrev(q, n) \in Queues
           /\ Is(HeadPrev(q, n), [q.prev EXCEPT ![head] = n], q.next, q.data, q.free)
           /\ HeadNext(q, n) \in Queues
           /\ Is(HeadNext(q, n), q.prev, n, q.data, q.free)
           /\ NodePrev(q, n) \in Queues
           /\ Is(NodePrev(q, n), [q.prev EXCEPT ![n] = head], q.next, q.data, q.free)
           /\ NextPrev(q, n) \in Queues
           /\ Is(NextPrev(q, n), [q.prev EXCEPT ![q.next] = n], q.next, q.data, q.free)
  <1>1. n \in Cells /\ head \in Cells
    BY DEF Cells
  <1>2. /\ HeadPrev(q, n) \in Queues
        /\ Is(HeadPrev(q, n), [q.prev EXCEPT ![head] = n], q.next, q.data, q.free)
    BY <1>1 DEF HeadPrev, Queues, Is
  <1>3. HeadNext(q, n) \in Queues /\ Is(HeadNext(q, n), q.prev, n, q.data, q.free)
    BY <1>1 DEF HeadNext, Queues, Is
  <1>4. /\ NodePrev(q, n) \in Queues
        /\ Is(NodePrev(q, n), [q.prev EXCEPT ![n] = head], q.next, q.data, q.free)
    BY <1>1 DEF NodePrev, Queues, Is
  <1>5. /\ NextPrev(q, n) \in Queues
        /\ Is(NextPrev(q, n), [q.prev EXCEPT ![q.next] = n], q.next, q.data, q.free)
    BY <1>1 DEF NextPrev, Queues, Is
  <1> QED
    BY <1>2, <1>3, <1>4, <1>5

LEMMA Allocates ==
    ASSUME NEW q \in Queues, NEW n \in Nodes, NEW t \in Tasks
    PROVE  /\ Alloc(q, n, t) \in Queues
           /\ Is(Alloc(q, n, t), [q.prev EXCEPT ![n] = NULL], q.next,
                 [q.data EXCEPT ![n] = t], q.free \ {n})
  BY DEF Alloc, Queues, Is, Cells

LEMMA Pops ==
    ASSUME NEW q \in Queues, NEW n \in Nodes
    PROVE  /\ Unlink(q, n) \in Queues
           /\ Is(Unlink(q, n), [q.prev EXCEPT ![head] = q.prev[n]], q.next, q.data, q.free)
           /\ Free(q, n) \in Queues
           /\ Is(Free(q, n), q.prev, q.next, q.data, q.free \cup {n})
           /\ FixNext(q) \in Queues
           /\ Is(FixNext(q), q.prev,
                 IF q.prev[head] = q.next THEN head ELSE q.next, q.data, q.free)
  <1>1. n \in Cells /\ head \in Cells
    BY DEF Cells
  <1>2. /\ Unlink(q, n) \in Queues
        /\ Is(Unlink(q, n), [q.prev EXCEPT ![head] = q.prev[n]], q.next, q.data, q.free)
    BY <1>1 DEF Unlink, Queues, Is
  <1>3. Free(q, n) \in Queues /\ Is(Free(q, n), q.prev, q.next, q.data, q.free \cup {n})
    BY DEF Free, Queues, Is
  <1>4. /\ FixNext(q) \in Queues
        /\ Is(FixNext(q), q.prev, IF q.prev[head] = q.next THEN head ELSE q.next, q.data, q.free)
    <2>1. /\ HeadNext(q, head) \in Queues
          /\ Is(HeadNext(q, head), q.prev, head, q.data, q.free)
      BY <1>1 DEF HeadNext, Queues, Is
    <2> QED
      BY <2>1 DEF FixNext, Last, Is
  <1> QED
    BY <1>2, <1>3, <1>4

-----------------------------------------------------------------------------
(* Types, disturbed or not: where a thread has a node in its hands it is one. *)

PushPlaces == {"test", "head prev", "head next", "node prev", "next prev", "front"}
PopPlaces == {"unlink", "fix", "free", "data"}

TypeInv ==
    /\ taskq \in Queues /\ pc \in [Threads -> Places]
    /\ node \in [Threads -> Cells \cup {NULL}] /\ task \in [Threads -> Tasks \cup {NULL}]
    /\ mutex \in Workers \cup {NULL}
    /\ pushed \in Seq(Tasks) /\ taken \in Seq(Tasks \cup {NULL})
    /\ last \in {"push", "pop"} /\ disturbed \in BOOLEAN
    /\ pc[adder] \in PushPlaces => node[adder] \in Nodes
    /\ \A w \in Workers : pc[w] \in {"fix", "free", "data"} => node[w] \in Nodes
    /\ \A w \in Workers : pc[w] \in PopPlaces => mutex = w

LEMMA TypeInit == Init => TypeInv
  <1> SUFFICES ASSUME Init PROVE TypeInv
    OBVIOUS
  <1>1. taskq \in Queues
    BY Created DEF Init
  <1>2. /\ pc \in [Threads -> Places]
        /\ node \in [Threads -> Cells \cup {NULL}] /\ task \in [Threads -> Tasks \cup {NULL}]
    BY DEF Init, Places
  <1>3. pc[adder] = "add" /\ \A w \in Workers : pc[w] = "loop"
    BY ThreadAssumption DEF Init, Threads
  <1>4. mutex = NULL /\ last = "pop" /\ disturbed \in BOOLEAN
    BY DEF Init
  <1>5. pushed \in Seq(Tasks) /\ taken \in Seq(Tasks \cup {NULL})
    BY DEF Init
  <1> QED
    BY <1>1, <1>2, <1>3, <1>4, <1>5 DEF TypeInv, PushPlaces, PopPlaces

\* One worker moves on and keeps its node and its hold on the mutex.
LEMMA TypeWorker ==
    ASSUME TypeInv, NEW w \in Workers, NEW to \in Places, pc' = [pc EXCEPT ![w] = to],
           taskq' \in Queues, UNCHANGED <<node, pushed, taken, last, disturbed, task, mutex>>,
           to \in {"fix", "free", "data"} => node[w] \in Nodes,
           to \in PopPlaces => mutex = w
    PROVE  TypeInv'
  <1>1. w # adder /\ w \in Threads /\ adder \in Threads
    BY ThreadAssumption DEF Threads
  <1>2. /\ pc' \in [Threads -> Places] /\ pc'[adder] = pc[adder] /\ pc'[w] = to
        /\ \A v \in Workers : v # w => pc'[v] = pc[v]
    BY <1>1 DEF TypeInv, Threads
  <1> QED
    BY <1>2 DEF TypeInv

LEMMA TypeAdder ==
    ASSUME TypeInv, NEW to \in Places, pc' = [pc EXCEPT ![adder] = to],
           taskq' \in Queues, UNCHANGED <<node, pushed, taken, last, disturbed, task, mutex>>,
           to \in PushPlaces => node[adder] \in Nodes
    PROVE  TypeInv'
  <1>1. adder \in Threads /\ \A v \in Workers : v # adder /\ v \in Threads
    BY ThreadAssumption DEF Threads
  <1>2. /\ pc' \in [Threads -> Places] /\ pc'[adder] = to
        /\ \A v \in Workers : pc'[v] = pc[v]
    BY <1>1 DEF TypeInv
  <1> QED
    BY <1>2 DEF TypeInv

LEMMA TypeAddTask ==
    ASSUME TypeInv, NEW t \in Tasks, NEW n \in Nodes, AddTask(t, n)
    PROVE  TypeInv'
  <1>1. /\ taskq' = Alloc(taskq, n, t)
        /\ node' = [node EXCEPT ![adder] = n] /\ task' = [task EXCEPT ![adder] = t]
        /\ pushed' = Append(pushed, t) /\ last' = "push"
        /\ disturbed' = (disturbed \/ Popping \/ Turn("push"))
        /\ pc' = [pc EXCEPT ![adder] = "test"]
        /\ mutex' = mutex /\ taken' = taken
    BY DEF AddTask, Goto
  <1>2. adder \in Threads /\ \A v \in Workers : v # adder /\ v \in Threads
    BY ThreadAssumption DEF Threads
  <1>3. taskq' \in Queues
    BY <1>1, Allocates DEF TypeInv
  <1>4. /\ pc' \in [Threads -> Places] /\ node' \in [Threads -> Cells \cup {NULL}]
        /\ task' \in [Threads -> Tasks \cup {NULL}]
        /\ node'[adder] = n /\ \A v \in Workers : pc'[v] = pc[v] /\ node'[v] = node[v]
    BY <1>1, <1>2 DEF TypeInv, Places, Cells
  <1>5. pushed' \in Seq(Tasks) /\ disturbed' \in BOOLEAN
    BY <1>1 DEF TypeInv
  <1> QED
    BY <1>1, <1>3, <1>4, <1>5 DEF TypeInv

LEMMA TypePushStore == ASSUME TypeInv, PushStore PROVE TypeInv'
  <1> DEFINE n == node[adder]
  <1>1. PICK to \in PushPlaces \cup {"signal", "crashed"} :
           /\ pc[adder] \in PushPlaces
           /\ pc' = [pc EXCEPT ![adder] = to]
           /\ taskq' \in {HeadPrev(taskq, n), HeadNext(taskq, n), NodePrev(taskq, n),
                          NextPrev(taskq, n), taskq}
           /\ UNCHANGED <<node, pushed, taken, last, disturbed, task, mutex>>
    BY Zenon DEF PushStore, Store, Goto, At, PushPlaces
  <1>2. n \in Nodes /\ taskq \in Queues
    BY <1>1 DEF TypeInv
  <1> HIDE DEF n
  <1>3. taskq' \in Queues
    BY <1>1, <1>2, Stores
  <1>4. to \in Places
    BY DEF PushPlaces, Places
  <1> QED
    BY <1>1, <1>2, <1>3, <1>4, TypeAdder DEF n

LEMMA TypePop ==
    ASSUME TypeInv, NEW w \in Workers,
           Sleep(w) \/ SpuriousWake(w) \/ PopUnlink(w) \/ PopFix(w) \/ PopFree(w)
    PROVE  TypeInv'
  <1> DEFINE n == node[w]
  <1> USE DEF Goto, At
  <1>1. CASE Sleep(w) \/ SpuriousWake(w)
    BY <1>1, TypeWorker DEF Sleep, SpuriousWake, Places, PopPlaces, TypeInv
  <1>2. CASE PopUnlink(w)
    <2>1. pc[w] = "unlink" /\ mutex = w
      BY <1>2 DEF PopUnlink, TypeInv, PopPlaces
    <2>2. CASE n = head \/ Dead(taskq, n)
      <3>1. pc' = [pc EXCEPT ![w] = "crashed"] /\ taskq' = taskq
            /\ UNCHANGED <<node, pushed, taken, last, disturbed, task, mutex>>
        BY <1>2, <2>2 DEF PopUnlink
      <3> QED
        BY <3>1, TypeWorker DEF TypeInv, Places, PopPlaces
    <2>3. CASE ~(n = head \/ Dead(taskq, n))
      <3>1. pc' = [pc EXCEPT ![w] = "fix"] /\ taskq' = Unlink(taskq, n)
            /\ UNCHANGED <<node, pushed, taken, last, disturbed, task, mutex>>
        BY <1>2, <2>3 DEF PopUnlink
      <3>2. n \in Nodes
        BY <2>3 DEF TypeInv, Dead, Cells, Threads
      <3>3. taskq' \in Queues
        BY <3>1, <3>2, Pops DEF TypeInv
      <3> QED
        BY <2>1, <3>1, <3>2, <3>3, TypeWorker DEF Places
    <2> QED
      BY <2>2, <2>3
  <1>3. CASE PopFix(w)
    <2>1. /\ pc[w] = "fix" /\ pc' = [pc EXCEPT ![w] = "free"] /\ taskq' = FixNext(taskq)
          /\ UNCHANGED <<node, pushed, taken, last, disturbed, task, mutex>>
      BY <1>3 DEF PopFix
    <2>2. mutex = w /\ n \in Nodes /\ taskq' \in Queues
      BY <2>1, Pops DEF TypeInv, PopPlaces
    <2> QED
      BY <2>1, <2>2, TypeWorker DEF Places
  <1>4. CASE PopFree(w)
    <2>1. /\ pc[w] = "free" /\ pc' = [pc EXCEPT ![w] = "data"] /\ taskq' = Free(taskq, n)
          /\ UNCHANGED <<node, pushed, taken, last, disturbed, task, mutex>>
      BY <1>4 DEF PopFree
    <2>2. mutex = w /\ n \in Nodes
      BY <2>1 DEF TypeInv, PopPlaces
    <2>3. taskq' \in Queues
      BY <2>1, <2>2, Pops DEF TypeInv
    <2> QED
      BY <2>1, <2>2, <2>3, TypeWorker DEF Places
  <1> QED
    BY <1>1, <1>2, <1>3, <1>4

LEMMA TypeTake ==
    ASSUME TypeInv, NEW w \in Workers, Take(w) \/ PopData(w) \/ Run(w)
    PROVE  TypeInv'
  <1> USE DEF Goto, At
  <1>1. w # adder /\ w \in Threads /\ adder \in Threads /\ \A v \in Workers : v # adder /\ v \in Threads
    BY ThreadAssumption DEF Threads
  <1>2. CASE Take(w)
    <2>1. /\ pc' = [pc EXCEPT ![w] = "unlink"] /\ mutex = NULL /\ mutex' = w
          /\ node' = [node EXCEPT ![w] = Last(taskq)] /\ last' = "pop"
          /\ disturbed' = (disturbed \/ Pushing \/ Turn("pop"))
          /\ UNCHANGED <<taskq, task, pushed, taken>>
      BY <1>2 DEF Take
    <2>2. Last(taskq) \in Cells \cup {NULL}
      BY DEF TypeInv, Last, Queues, Cells
    <2>3. /\ pc' \in [Threads -> Places] /\ node' \in [Threads -> Cells \cup {NULL}]
          /\ pc'[w] = "unlink" /\ pc'[adder] = pc[adder] /\ node'[adder] = node[adder]
          /\ \A v \in Workers : v # w => pc'[v] = pc[v] /\ node'[v] = node[v]
      BY <1>1, <2>1, <2>2 DEF TypeInv, Places
    <2>4. \A v \in Workers : pc[v] \notin PopPlaces
      BY <2>1, ThreadAssumption DEF TypeInv
    <2>5. disturbed' \in BOOLEAN
      BY <2>1 DEF TypeInv
    <2> QED
      BY <2>1, <2>3, <2>4, <2>5 DEF TypeInv, PopPlaces
  <1>3. CASE PopData(w)
    <2> DEFINE d == taskq.data[node[w]]
    <2>1. /\ pc[w] = "data" /\ pc' = [pc EXCEPT ![w] = "run"] /\ mutex' = NULL
          /\ task' = [task EXCEPT ![w] = d] /\ taken' = Append(taken, d)
          /\ UNCHANGED <<taskq, node, pushed, last, disturbed>>
      BY <1>3 DEF PopData
    <2>2. mutex = w /\ node[w] \in Nodes
      BY <2>1 DEF TypeInv, PopPlaces
    <2>3. d \in Tasks \cup {NULL}
      BY <2>2 DEF TypeInv, Queues
    <2> HIDE DEF d
    <2>4. taken' \in Seq(Tasks \cup {NULL})
      BY <2>1, <2>3 DEF TypeInv
    <2>5. /\ pc' \in [Threads -> Places] /\ task' \in [Threads -> Tasks \cup {NULL}]
          /\ pc'[w] = "run" /\ pc'[adder] = pc[adder]
          /\ \A v \in Workers : v # w => pc'[v] = pc[v]
      BY <1>1, <2>1, <2>3 DEF TypeInv, Places
    <2>6. \A v \in Workers : v # w => pc[v] \notin PopPlaces
      BY <2>2 DEF TypeInv
    <2> QED
      BY <2>1, <2>5, <2>6, <2>4 DEF TypeInv, PopPlaces
  <1>4. CASE Run(w)
    <2>1. /\ pc' = [pc EXCEPT ![w] = "loop"]
          /\ task' = [task EXCEPT ![w] = NULL] /\ node' = [node EXCEPT ![w] = NULL]
          /\ UNCHANGED <<taskq, mutex, pushed, taken, last, disturbed>>
      BY <1>4 DEF Run
    <2>2. /\ pc' \in [Threads -> Places] /\ task' \in [Threads -> Tasks \cup {NULL}]
          /\ node' \in [Threads -> Cells \cup {NULL}]
          /\ pc'[w] = "loop" /\ pc'[adder] = pc[adder] /\ node'[adder] = node[adder]
          /\ \A v \in Workers : v # w => pc'[v] = pc[v] /\ node'[v] = node[v]
      BY <1>1, <2>1 DEF TypeInv, Places
    <2> QED
      BY <2>1, <2>2 DEF TypeInv, PopPlaces
  <1> QED
    BY <1>2, <1>3, <1>4

LEMMA TypeSignal == ASSUME TypeInv, PushTest \/ Signal PROVE TypeInv'
  <1> USE DEF Goto, At
  <1>1. adder \in Threads /\ \A v \in Workers : v # adder /\ v \in Threads
    BY ThreadAssumption DEF Threads
  <1>2. CASE PushTest
    <2>1. PICK to \in {"head prev", "node prev"} : pc' = [pc EXCEPT ![adder] = to]
      BY <1>2 DEF PushTest
    <2>2. /\ pc[adder] \in PushPlaces
          /\ UNCHANGED <<taskq, node, pushed, taken, last, disturbed, task, mutex>>
      BY <1>2 DEF PushTest, PushPlaces
    <2> QED
      BY <2>1, <2>2, TypeAdder DEF TypeInv, Places
  <1>3. CASE Signal
    <2>1. UNCHANGED <<taskq, node, pushed, taken, last, disturbed, task, mutex>>
      BY <1>3 DEF Signal
    <2>2. CASE pc' = [pc EXCEPT ![adder] = "add"]
      BY <2>1, <2>2, TypeAdder DEF TypeInv, Places, PushPlaces
    <2>3. ASSUME NEW w \in Asleep, pc' = [pc EXCEPT ![adder] = "add", ![w] = "loop"]
          PROVE  TypeInv'
      <3>1. w \in Workers
        BY DEF Asleep
      <3>2. /\ pc' \in [Threads -> Places] /\ pc'[adder] = "add" /\ pc'[w] = "loop"
            /\ \A v \in Workers : v # w => pc'[v] = pc[v]
        BY <1>1, <2>3, <3>1 DEF TypeInv, Places
      <3> QED
        BY <2>1, <3>2 DEF TypeInv, PushPlaces, PopPlaces
    <2> QED
      BY <1>3, <2>2, <2>3 DEF Signal
  <1> QED
    BY <1>2, <1>3

LEMMA TypeStep == TypeInv /\ [Next]_vars => TypeInv'
  <1>1. TypeInv /\ UNCHANGED vars => TypeInv'
    BY DEF TypeInv, vars
  <1> QED
    BY <1>1, TypeAddTask, TypePushStore, TypePop, TypeTake, TypeSignal DEF Next

-----------------------------------------------------------------------------
(* The chain of nodes from the back of the queue to its front, and what the *)
(* stores of one call make of it when no other call comes in between.      *)

Chain(c) == c \in Seq(Nodes) /\ \A i, j \in 1 .. Len(c) : c[i] = c[j] => i = j
Off(n, c) == \A i \in 1 .. Len(c) : c[i] # n
Linked(q, c) == q.prev[head] = c[1] /\ \A i \in 1 .. Len(c) - 1 : q.prev[c[i]] = c[i + 1]

\* After a push, the first node is linked to itself and head->next is right;
\* after a pop that leaves one node, this leads back and head->next is reset.
AtRest(q, l, c) ==
    IF c = << >> THEN q.prev[head] = head /\ q.next = head
    ELSE /\ Linked(q, c)
         /\ Len(c) = 1 /\ l = "push" => q.next = c[1]
         /\ Len(c) = 1 /\ l = "pop" => q.next = head /\ q.prev[c[1]] = head
         /\ Len(c) > 1 => q.next = c[Len(c)] /\ q.prev[c[Len(c)]] = head

\* n is on its way to the front of chain c.
InPush(p, q, n, c) ==
    /\ p = "test" => AtRest(q, "push", c)
    /\ p = "head prev" => c = << >> /\ AtRest(q, "push", c)
    /\ p = "head next" => c = << >> /\ q.prev[head] = n
    /\ p \in {"node prev", "next prev"} => IF c = << >> THEN q.prev[head] = n /\ q.next = n
                                           ELSE AtRest(q, "push", c)
    /\ p \in {"next prev", "front"} /\ c # << >> => q.prev[n] = head
    /\ p = "front" => IF c = << >> THEN q.prev[head] = n
                      ELSE Linked(q, c) /\ q.prev[c[Len(c)]] = n

\* Before head->next is looked after.
Unfixed(q, c) ==
    IF c = << >> THEN q.prev[head] = head /\ q.next = head
    ELSE Linked(q, c) /\ q.next = c[Len(c)] /\ q.prev[c[Len(c)]] = head

\* n has been or will be taken off the back of chain c.
InPop(p, q, n, c) ==
    /\ p = "unlink" => Unfixed(Unlink(q, n), c)
    /\ p = "fix" => Unfixed(q, c)
    /\ p \in {"free", "data"} => AtRest(q, "pop", c)

LEMMA ChainEnds ==
    ASSUME NEW c, Chain(c), c # << >>
    PROVE  /\ Len(c) \in Nat \ {0} /\ c[1] \in Nodes /\ c[Len(c)] \in Nodes
           /\ 1 \in 1 .. Len(c) /\ Len(c) \in 1 .. Len(c)
           /\ \A i \in 1 .. Len(c) : c[i] \in Nodes /\ c[i] # head
  <1>1. Len(c) \in Nat \ {0} /\ \A i \in 1 .. Len(c) : c[i] \in Nodes
    BY DEF Chain
  <1>2. 1 \in 1 .. Len(c) /\ Len(c) \in 1 .. Len(c)
    BY <1>1
  <1> QED
    BY <1>1, <1>2, NodeAssumption

LEMMA EmptyIsEmpty ==
    ASSUME NEW q, NEW l, NEW c, Chain(c), AtRest(q, l, c)
    PROVE  queue_is_empty(q) <=> c = << >>
  <1>1. c # << >> => c[1] # head
    BY ChainEnds
  <1> QED
    BY <1>1 DEF AtRest, Linked, queue_is_empty

\* A store to a cell outside the chain.
LEMMA KeepsLinks ==
    ASSUME NEW q, NEW r, NEW c, Chain(c), c # << >>, Linked(q, c),
           r.prev[head] = q.prev[head], \A i \in 1 .. Len(c) - 1 : r.prev[c[i]] = q.prev[c[i]]
    PROVE  Linked(r, c)
  BY DEF Linked

LEMMA PushStores ==
    ASSUME NEW q \in Queues, NEW c, Chain(c), NEW n \in Nodes, Off(n, c)
    PROVE  /\ InPush("test", q, n, c) =>
                  InPush(IF queue_is_empty(q) THEN "head prev" ELSE "node prev", q, n, c)
           /\ InPush("head prev", q, n, c) => InPush("head next", HeadPrev(q, n), n, c)
           /\ InPush("head next", q, n, c) => InPush("node prev", HeadNext(q, n), n, c)
           /\ InPush("node prev", q, n, c) => InPush("next prev", NodePrev(q, n), n, c)
           /\ InPush("next prev", q, n, c) => InPush("front", NextPrev(q, n), n, c)
  <1> DEFINE k == Len(c)
  <1>1. n # head /\ n \in Cells /\ head \in Cells /\ k \in Nat /\ q.next \in Cells
        /\ DOMAIN q.prev = Cells \cup {NULL}
    BY NodeAssumption DEF Cells, Chain, Queues
  <1>2. c # << >> => /\ k >= 1 /\ k \in 1 .. k /\ c[k] \in Nodes /\ c[k] # n /\ c[k] # head
                     /\ \A i \in 1 .. k : c[i] \in Nodes /\ c[i] # n /\ c[i] # head
    BY ChainEnds DEF Off
  <1>3. \A i \in 1 .. k - 1 : i \in 1 .. k /\ k \in 1 .. k /\ i # k
    BY <1>1
  <1>4. \A i \in 1 .. k - 1 : c[i] # c[k]
    BY <1>3 DEF Chain
  <1> HIDE DEF k
  <1>5. InPush("test", q, n, c) =>
            InPush(IF queue_is_empty(q) THEN "head prev" ELSE "node prev", q, n, c)
    BY EmptyIsEmpty DEF InPush
  <1>6. ASSUME InPush("head prev", q, n, c) PROVE InPush("head next", HeadPrev(q, n), n, c)
    <2>1. c = << >> /\ HeadPrev(q, n).prev = [q.prev EXCEPT ![head] = n]
      BY <1>6, Stores DEF InPush, Is
    <2>2. HeadPrev(q, n).prev[head] = n
      BY <1>1, <2>1
    <2> QED
      BY <2>1, <2>2 DEF InPush
  <1>7. ASSUME InPush("head next", q, n, c) PROVE InPush("node prev", HeadNext(q, n), n, c)
    <2>1. c = << >> /\ q.prev[head] = n
      BY <1>7 DEF InPush
    <2>2. HeadNext(q, n).prev = q.prev /\ HeadNext(q, n).next = n
      BY Stores DEF Is
    <2> QED
      BY <2>1, <2>2 DEF InPush
  <1>8. ASSUME InPush("node prev", q, n, c) PROVE InPush("next prev", NodePrev(q, n), n, c)
    <2> DEFINE r == NodePrev(q, n)
    <2>1. r.prev = [q.prev EXCEPT ![n] = head] /\ r.next = q.next
      BY Stores DEF Is
    <2> HIDE DEF r
    <2>2. r.prev[n] = head /\ r.prev[head] = q.prev[head]
      BY <1>1, <2>1
    <2>3. CASE c = << >>
      BY <1>8, <2>1, <2>2, <2>3 DEF InPush, r
    <2>4. CASE c # << >>
      <3>1. \A i \in 1 .. k : r.prev[c[i]] = q.prev[c[i]]
        BY <1>2, <2>1, <2>4
      <3>2. AtRest(q, "push", c)
        BY <1>8, <2>4 DEF InPush
      <3>3. Linked(r, c)
        BY <1>3, <2>2, <2>4, <3>1, <3>2, KeepsLinks DEF AtRest, k
      <3>4. AtRest(r, "push", c)
        BY <1>2, <2>1, <2>4, <3>1, <3>2, <3>3 DEF AtRest, k
      <3> QED
        BY <2>2, <2>4, <3>4 DEF InPush, r
    <2> QED
      BY <2>3, <2>4
  <1>9. ASSUME InPush("next prev", q, n, c) PROVE InPush("front", NextPrev(q, n), n, c)
    <2> DEFINE r == NextPrev(q, n)
    <2>1. r.prev = [q.prev EXCEPT ![q.next] = n] /\ r.next = q.next
      BY Stores DEF Is
    <2> HIDE DEF r
    <2>2. CASE c = << >>
      <3>1. q.next = n /\ q.prev[head] = n
        BY <1>9, <2>2 DEF InPush
      <3>2. r.prev[head] = n
        BY <1>1, <2>1, <3>1
      <3> QED
        BY <2>2, <3>2 DEF InPush, r
    <2>3. CASE c # << >>
      <3>1. AtRest(q, "push", c) /\ q.prev[n] = head
        BY <1>9, <2>3 DEF InPush
      <3>2. q.next = c[k] /\ Linked(q, c)
        <4>1. k = 1 \/ k > 1
          BY <1>1, <1>2, <2>3
        <4> QED
          BY <2>3, <3>1, <4>1 DEF AtRest, k
      <3>3. r.prev[c[k]] = n /\ r.prev[head] = q.prev[head] /\ r.prev[n] = head
        BY <1>1, <1>2, <2>1, <2>3, <3>1, <3>2
      <3>4. \A i \in 1 .. k - 1 : r.prev[c[i]] = q.prev[c[i]]
        BY <1>2, <1>3, <1>4, <2>1, <2>3, <3>2
      <3>5. Linked(r, c)
        BY <2>3, <3>2, <3>3, <3>4, KeepsLinks DEF k
      <3> QED
        BY <2>3, <3>3, <3>5 DEF InPush, r, k
    <2> QED
      BY <2>2, <2>3
  <1> QED
    BY <1>5, <1>6, <1>7, <1>8, <1>9

\* The last store of a push: n is in the chain.
LEMMA PushEnds ==
    ASSUME NEW q \in Queues, NEW c, Chain(c), NEW n \in Nodes, Off(n, c), InPush("front", q, n, c)
    PROVE  Chain(Append(c, n)) /\ AtRest(HeadNext(q, n), "push", Append(c, n))
  <1> DEFINE k == Len(c)
             d == Append(c, n)
             r == HeadNext(q, n)
  <1>1. c \in Seq(Nodes) /\ k \in Nat
    BY DEF Chain
  <1>2. /\ d \in Seq(Nodes) /\ Len(d) = k + 1 /\ d[k + 1] = n /\ d # << >>
        /\ \A i \in 1 .. k : d[i] = c[i]
    BY <1>1
  <1>3. r.prev = q.prev /\ r.next = n
    BY Stores DEF Is
  <1>4. \A i \in 1 .. k + 1 : i \in 1 .. k \/ i = k + 1
    BY <1>1
  <1> HIDE DEF d, r
  <1>5. Chain(d)
    <2> SUFFICES ASSUME NEW i \in 1 .. k + 1, NEW j \in 1 .. k + 1, d[i] = d[j] PROVE i = j
      BY <1>2 DEF Chain
    <2>1. \A x \in 1 .. k : d[x] # n
      BY <1>2 DEF Off
    <2> QED
      BY <1>2, <1>4, <2>1 DEF Chain
  <1>6. CASE c = << >>
    <2>1. k = 0 /\ Len(d) = 1 /\ d[1] = n /\ q.prev[head] = n
      BY <1>2, <1>6 DEF InPush
    <2> QED
      BY <1>2, <1>3, <1>5, <2>1 DEF AtRest, Linked, d, r
  <1>7. CASE c # << >>
    <2>1. Linked(q, c) /\ q.prev[c[k]] = n /\ q.prev[n] = head
      BY <1>7 DEF InPush
    <2>2. k >= 1 /\ 1 \in 1 .. k /\ k \in 1 .. k
      BY <1>7, ChainEnds
    <2>3. \A i \in 1 .. k : i = k \/ (i \in 1 .. k - 1 /\ i + 1 \in 1 .. k)
      BY <1>1
    <2> HIDE DEF k
    <2>4. \A i \in 1 .. k : r.prev[d[i]] = d[i + 1]
      <3> TAKE i \in 1 .. k
      <3>1. CASE i = k
        BY <1>2, <1>3, <2>1, <3>1
      <3>2. CASE i \in 1 .. k - 1 /\ i + 1 \in 1 .. k
        BY <1>2, <1>3, <2>1, <3>2 DEF Linked, k
      <3> QED
        BY <2>3, <3>1, <3>2
    <2>5. r.prev[head] = d[1]
      BY <1>2, <1>3, <2>1, <2>2 DEF Linked
    <2>6. Len(d) - 1 = k /\ Len(d) # 1 /\ d[Len(d)] = n
      BY <1>1, <1>2, <2>2 DEF k
    <2>7. Linked(r, d)
      BY <2>4, <2>5, <2>6 DEF Linked
    <2>8. AtRest(r, "push", d)
      BY <1>2, <1>3, <2>1, <2>6, <2>7 DEF AtRest
    <2> QED
      BY <1>5, <2>8 DEF d, r
  <1> QED
    BY <1>6, <1>7

\* A pop begins at the back.
LEMMA PopBegins ==
    ASSUME NEW q \in Queues, NEW c, Chain(c), c # << >>, AtRest(q, "pop", c)
    PROVE  /\ Last(q) = c[1] /\ Chain(Tail(c)) /\ Off(c[1], Tail(c))
           /\ InPop("unlink", q, c[1], Tail(c))
  <1> DEFINE k == Len(c)
             d == Tail(c)
             n == c[1]
             r == Unlink(q, n)
  <1>0. k \in Nat /\ (k # 1 => k > 1)
    <2>1. k \in Nat \ {0}
      BY ChainEnds
    <2> HIDE DEF k
    <2> QED
      BY <2>1
  <1>1. /\ c \in Seq(Nodes) /\ k \in Nat \ {0} /\ n \in Nodes /\ n # head
        /\ \A i, j \in 1 .. k : c[i] = c[j] => i = j
    BY ChainEnds DEF Chain
  <1>2. /\ d \in Seq(Nodes) /\ Len(d) = k - 1 /\ \A i \in 1 .. k - 1 : d[i] = c[i + 1]
        /\ (d = << >> <=> k = 1)
    <2>1. d \in Seq(Nodes) /\ Len(d) = k - 1 /\ \A i \in 1 .. k - 1 : d[i] = c[i + 1]
      BY <1>1
    <2> HIDE DEF d
    <2>2. d = << >> <=> Len(d) = 0
      BY <2>1
    <2> HIDE DEF k
    <2>3. k - 1 = 0 <=> k = 1
      BY <1>1
    <2> QED
      BY <2>1, <2>2, <2>3
  <1>3. \A i \in 1 .. k - 1 : i + 1 \in 1 .. k /\ i + 1 # 1 /\ i \in 1 .. k
    BY <1>1
  <1>4. 1 \in 1 .. k /\ k \in 1 .. k
    BY <1>1
  <1>5. Last(q) = n /\ Linked(q, c)
    BY DEF AtRest, Linked, Last
  <1>6. Off(n, d)
    BY <1>1, <1>2, <1>3, <1>4 DEF Off
  <1>7. Chain(d)
    <2> SUFFICES ASSUME NEW i \in 1 .. k - 1, NEW j \in 1 .. k - 1, d[i] = d[j] PROVE i = j
      BY <1>2 DEF Chain
    <2>1. i + 1 = j + 1
      BY <1>1, <1>2, <1>3
    <2> QED
      BY <1>1, <2>1
  <1>8. r.prev = [q.prev EXCEPT ![head] = q.prev[n]] /\ r.next = q.next
    BY <1>1, Pops DEF Is
  <1>9. /\ r.prev[head] = q.prev[n]
        /\ \A i \in 1 .. k : r.prev[c[i]] = q.prev[c[i]]
    <2>1. DOMAIN q.prev = Cells \cup {NULL} /\ head \in Cells
      BY DEF Queues, Cells
    <2>2. \A i \in 1 .. k : c[i] # head
      BY ChainEnds
    <2> QED
      BY <1>8, <2>1, <2>2
  <1> HIDE DEF r, d, n
  <1>10. Unfixed(r, d)
    <2>1. CASE k = 1
      <3>1. q.next = head /\ q.prev[n] = head
        BY <2>1 DEF AtRest, n
      <3> QED
        BY <1>2, <1>8, <1>9, <2>1, <3>1 DEF Unfixed
    <2>2. CASE k # 1
      <3>1. q.next = c[k] /\ q.prev[c[k]] = head
        BY <1>0, <2>2 DEF AtRest
      <3>2. \A i \in 1 .. k - 1 : q.prev[c[i]] = c[i + 1]
        BY <1>5 DEF Linked
      <3>3. 1 \in 1 .. k - 1 /\ k - 1 \in 1 .. k - 1 /\ 1 + 1 \in 1 .. k /\ (k - 1) + 1 = k
        <4> HIDE DEF k
        <4> QED
          BY <1>0, <2>2
      <3>4. d[Len(d)] = c[k] /\ d # << >>
        BY <1>2, <2>2, <3>3
      <3>5. r.prev[head] = d[1]
        BY <1>2, <1>9, <3>2, <3>3 DEF n
      <3>6. \A i \in 1 .. Len(d) - 1 : r.prev[d[i]] = d[i + 1]
        <4> TAKE i \in 1 .. Len(d) - 1
        <4>1. /\ i \in 1 .. k - 1 /\ i + 1 \in 1 .. k - 1 /\ i + 1 \in 1 .. k
          BY <1>1, <1>2
        <4> HIDE DEF k
        <4>2. d[i] = c[i + 1] /\ d[i + 1] = c[(i + 1) + 1] /\ q.prev[c[i + 1]] = c[(i + 1) + 1]
          BY <1>2, <3>2, <4>1
        <4> QED
          BY <1>9, <4>1, <4>2
      <3>7. r.prev[c[k]] = head /\ r.next = c[k]
        BY <1>4, <1>8, <1>9, <3>1
      <3> QED
        BY <3>4, <3>5, <3>6, <3>7 DEF Unfixed, Linked
    <2> QED
      BY <2>1, <2>2
  <1> QED
    BY <1>5, <1>6, <1>7, <1>10 DEF InPop, r, d, n

LEMMA PopStores ==
    ASSUME NEW q \in Queues, NEW c, Chain(c), NEW n \in Nodes
    PROVE  /\ InPop("unlink", q, n, c) => InPop("fix", Unlink(q, n), n, c)
           /\ InPop("fix", q, n, c) => InPop("free", FixNext(q), n, c)
           /\ InPop("free", q, n, c) => InPop("data", Free(q, n), n, c)
  <1> DEFINE k == Len(c)
  <1>1. InPop("unlink", q, n, c) => InPop("fix", Unlink(q, n), n, c)
    BY DEF InPop
  <1>2. ASSUME InPop("fix", q, n, c) PROVE InPop("free", FixNext(q), n, c)
    <2> DEFINE r == FixNext(q)
    <2>1. r.prev = q.prev /\ r.next = IF q.prev[head] = q.next THEN head ELSE q.next
      BY Pops DEF Is
    <2> HIDE DEF r
    <2>2. Unfixed(q, c)
      BY <1>2 DEF InPop
    <2>3. CASE c = << >>
      BY <2>1, <2>2, <2>3 DEF Unfixed, AtRest, InPop, r
    <2>4. CASE c # << >>
      <3>1. k \in Nat \ {0} /\ 1 \in 1 .. k /\ k \in 1 .. k
        BY <2>4, ChainEnds
      <3>2. Linked(q, c) /\ q.next = c[k] /\ q.prev[c[k]] = head /\ q.prev[head] = c[1]
        BY <2>2, <2>4 DEF Unfixed, Linked
      <3>3. Linked(r, c)
        BY <2>1, <3>2 DEF Linked
      <3>4. c[1] = c[k] => k = 1
        BY <3>1 DEF Chain
      <3> HIDE DEF k
      <3>5. CASE k = 1
        <4>1. r.next = head /\ r.prev[c[1]] = head
          BY <2>1, <3>2, <3>5
        <4> QED
          BY <2>4, <3>3, <3>5, <4>1 DEF AtRest, InPop, r, k
      <3>6. CASE k # 1
        <4>1. r.next = c[k] /\ r.prev[c[k]] = head
          BY <2>1, <3>2, <3>4, <3>6
        <4> QED
          BY <2>4, <3>3, <3>6, <4>1 DEF AtRest, InPop, r, k
      <3> QED
        BY <3>5, <3>6
    <2> QED
      BY <2>3, <2>4
  <1>3. ASSUME InPop("free", q, n, c) PROVE InPop("data", Free(q, n), n, c)
    <2>1. Free(q, n).prev = q.prev /\ Free(q, n).next = q.next
      BY Pops DEF Is
    <2> QED
      BY <1>3, <2>1 DEF InPop, AtRest, Linked
  <1> QED
    BY <1>1, <1>2, <1>3

\* The walk from the back goes along the chain.
LEMMA Walks ==
    ASSUME NEW q, NEW c, Chain(c), c # << >>, Linked(q, c), NEW i \in 1 .. Len(c)
    PROVE  FromBack(q, i) = c[i]
  <1> DEFINE Step(f, k) == IF k = 1 THEN Last(q) ELSE q.prev[f[k - 1]]
             IsWalk(f) == f = [k \in 1 .. i |-> Step(f, k)]
             walk == CHOOSE f : IsWalk(f)
             w == [k \in 1 .. i |-> c[k]]
  <1>1. i \in Nat /\ \A k \in 1 .. i : k \in Nat /\ (k # 1 => k - 1 \in 1 .. i /\ k - 1 \in 1 .. Len(c) - 1
                                                    /\ (k - 1) + 1 = k)
    BY DEF Chain
  <1>2. \A k \in 1 .. i : Step(w, k) = c[k]
    <2> TAKE k \in 1 .. i
    <2>1. CASE k = 1
      BY <2>1 DEF Linked, Last
    <2>2. CASE k # 1
      <3>1. w[k - 1] = c[k - 1] /\ q.prev[c[k - 1]] = c[(k - 1) + 1]
        BY <1>1, <2>2 DEF Linked
      <3> QED
        BY <1>1, <2>2, <3>1
    <2> QED
      BY <2>1, <2>2
  <1>3. IsWalk(w)
    BY <1>2
  <1>4. IsWalk(walk)
    BY <1>3
  <1>5. \A k \in 1 .. i : walk[k] = Step(walk, k)
    BY <1>4
  <1> DEFINE bad == {k \in 1 .. i : walk[k] # c[k]}
  <1> HIDE DEF walk
  <1>6. bad = {}
    <2> SUFFICES ASSUME bad # {} PROVE FALSE
      OBVIOUS
    <2>1. bad \in SUBSET Nat
      BY <1>1
    <2>2. PICK m \in bad : \A j \in bad : ~(<<j, m>> \in OpToRel(<, Nat))
      BY <2>1, NatLessThanWellFounded, WFMin
    <2>3. \A j \in bad : m <= j
      BY <2>1, <2>2, LessThan
    <2>4. m \in 1 .. i /\ walk[m] # c[m]
      OBVIOUS
    <2>5. m # 1
      <3>1. m = 1 => walk[m] = q.prev[head]
        BY <1>5, <2>4 DEF Last
      <3> QED
        BY <2>4, <3>1 DEF Linked
    <2>6. m - 1 \in 1 .. i /\ ~(m <= m - 1) /\ m - 1 \in 1 .. Len(c) - 1 /\ (m - 1) + 1 = m
      BY <1>1, <2>4, <2>5
    <2>7. walk[m - 1] = c[m - 1]
      BY <2>3, <2>6
    <2>8. walk[m] = q.prev[c[m - 1]]
      BY <1>5, <2>4, <2>5, <2>7
    <2>9. q.prev[c[m - 1]] = c[m]
      BY <2>6 DEF Linked
    <2> QED
      BY <2>4, <2>8, <2>9
  <1>7. walk[i] = c[i]
    BY <1>1, <1>6
  <1>8. FromBack(q, i) = walk[i]
    BY DEF FromBack, walk
  <1> QED
    BY <1>7, <1>8

-----------------------------------------------------------------------------
(* The invariant: a chain holds the tasks that were pushed and not taken,  *)
(* except the one that is being pushed or popped.                          *)

Stored(q, tasks, k, c) == \A i \in 1 .. Len(c) : c[i] \notin q.free /\ q.data[c[i]] = tasks[k + i]

Resting(c) ==
    /\ AtRest(taskq, last, c)
    /\ Len(taken) + Len(c) = Len(pushed) /\ Stored(taskq, pushed, Len(taken), c)

HalfPushed(n, c) ==
    /\ last = "push" /\ n \in Nodes /\ Off(n, c)
    /\ Len(taken) + Len(c) + 1 = Len(pushed) /\ Stored(taskq, pushed, Len(taken), c)
    /\ n \notin taskq.free /\ taskq.data[n] = pushed[Len(pushed)]
    /\ InPush(pc[adder], taskq, n, c)

HalfPopped(w, n, c) ==
    /\ last = "pop" /\ n \in Nodes /\ Off(n, c)
    /\ Len(taken) + 1 + Len(c) = Len(pushed) /\ Stored(taskq, pushed, Len(taken) + 1, c)
    /\ pc[w] = "unlink" => n \notin taskq.free
    /\ taskq.data[n] = pushed[Len(taken) + 1]
    /\ InPop(pc[w], taskq, n, c)

Ordered(c) ==
    /\ Chain(c)
    /\ ~Pushing /\ ~Popping => Resting(c)
    /\ Pushing => HalfPushed(node[adder], c)
    /\ \A w \in Workers : pc[w] \in PopPlaces => HalfPopped(w, node[w], c)

Calm ==
    /\ Running
    /\ taken = SubSeq(pushed, 1, Len(taken))
    /\ ~(Pushing /\ Popping)
    /\ \E c : Ordered(c)

CallsInv == TypeInv /\ (~disturbed => Calm)

LEMMA Pushes ==
    /\ Pushing <=> pc[adder] \in PushPlaces
    /\ Popping <=> \E w \in Workers : pc[w] \in PopPlaces
  BY DEF Pushing, Popping, PushPlaces, PopPlaces

LEMMA OnePops ==
    ASSUME TypeInv, NEW v \in Workers, NEW w \in Workers, pc[v] \in PopPlaces, pc[w] \in PopPlaces
    PROVE  v = w
  BY DEF TypeInv

LEMMA CallsInit == Init => CallsInv
  <1> SUFFICES ASSUME Init PROVE Calm /\ TypeInv
    BY DEF CallsInv
  <1>1. TypeInv
    BY TypeInit
  <1>2. /\ \A t \in Threads : pc[t] # "crashed"
        /\ pc[adder] = "add" /\ \A w \in Workers : pc[w] = "loop"
    BY ThreadAssumption DEF Init, Threads
  <1>3. ~Pushing /\ ~Popping /\ Running /\ \A w \in Workers : pc[w] \notin PopPlaces
    BY <1>2 DEF Pushing, Popping, Running, PopPlaces
  <1>4. taken = << >> /\ pushed = << >> /\ taskq = queue_create
    BY DEF Init
  <1>5. Chain(<< >>) /\ Resting(<< >>)
    BY <1>4, Created DEF Chain, Resting, AtRest, Stored
  <1>6. Ordered(<< >>)
    BY <1>3, <1>5 DEF Ordered
  <1>7. taken = SubSeq(pushed, 1, Len(taken))
    BY <1>4
  <1> QED
    BY <1>1, <1>3, <1>6, <1>7 DEF Calm

\* A step that changes neither the queue nor who is in a call.
LEMMA QuietStep ==
    ASSUME Calm, UNCHANGED <<taskq, pushed, taken, last>>, Running',
           \/ pc'[adder] = pc[adder] /\ node'[adder] = node[adder]
           \/ pc[adder] \notin PushPlaces /\ pc'[adder] \notin PushPlaces,
           \A w \in Workers :
               \/ pc'[w] = pc[w] /\ node'[w] = node[w]
               \/ pc[w] \notin PopPlaces /\ pc'[w] \notin PopPlaces
    PROVE  Calm'
  <1>1. PICK c : Ordered(c)
    BY DEF Calm
  <1>2. Pushing' <=> Pushing
    BY DEF Pushing, PushPlaces
  <1>3. Popping' <=> Popping
    BY DEF Popping, PopPlaces
  <1>4. Resting(c) => Resting(c)'
    BY DEF Resting
  <1>5. Pushing => pc'[adder] = pc[adder] /\ node'[adder] = node[adder]
    BY Pushes
  <1>6. Pushing /\ HalfPushed(node[adder], c) => HalfPushed(node[adder], c)'
    BY <1>5 DEF HalfPushed
  <1>7. \A w \in Workers :
            pc'[w] \in PopPlaces /\ HalfPopped(w, node[w], c) => HalfPopped(w, node[w], c)'
    BY DEF HalfPopped
  <1>8. Ordered(c)'
    BY <1>1, <1>2, <1>3, <1>4, <1>6, <1>7 DEF Ordered
  <1> QED
    BY <1>2, <1>3, <1>8 DEF Calm

LEMMA QuietActions ==
    ASSUME TypeInv, Calm,
           Signal \/ (\E w \in Workers : Sleep(w) \/ SpuriousWake(w) \/ Run(w)) \/ UNCHANGED vars
    PROVE  Calm'
  <1> USE DEF Goto, At
  <1>1. adder \in Threads /\ \A w \in Workers : w \in Threads /\ w # adder
    BY ThreadAssumption DEF Threads
  <1>2. /\ pc \in [Threads -> Places] /\ node \in [Threads -> Cells \cup {NULL}]
        /\ \A t \in Threads : pc[t] # "crashed"
    BY DEF TypeInv, Calm, Running
  <1>3. CASE Signal
    <2>1. UNCHANGED <<taskq, node, pushed, taken, last>> /\ pc[adder] = "signal"
      BY <1>3 DEF Signal
    <2>2. CASE pc' = [pc EXCEPT ![adder] = "add"]
      <3>1. pc'[adder] = "add" /\ \A t \in Threads : t # adder => pc'[t] = pc[t]
        BY <1>1, <1>2, <2>2
      <3>2. Running'
        BY <1>2, <3>1 DEF Running
      <3> QED
        BY <1>1, <2>1, <3>1, <3>2, QuietStep DEF PushPlaces
    <2>3. ASSUME NEW v \in Asleep, pc' = [pc EXCEPT ![adder] = "add", ![v] = "loop"]
          PROVE  Calm'
      <3>1. v \in Workers /\ pc[v] = "asleep"
        BY DEF Asleep
      <3>2. pc'[adder] = "add" /\ pc'[v] = "loop" /\ \A t \in Threads : t # adder /\ t # v => pc'[t] = pc[t]
        BY <1>1, <1>2, <2>3, <3>1
      <3>3. Running'
        BY <1>2, <3>2 DEF Running
      <3>4. pc[adder] \notin PushPlaces /\ pc'[adder] \notin PushPlaces
        BY <2>1, <3>2 DEF PushPlaces
      <3>5. \A w \in Workers : \/ pc'[w] = pc[w] /\ node'[w] = node[w]
                               \/ pc[w] \notin PopPlaces /\ pc'[w] \notin PopPlaces
        BY <1>1, <2>1, <3>1, <3>2 DEF PopPlaces
      <3> QED
        BY <2>1, <3>3, <3>4, <3>5, QuietStep
    <2> QED
      BY <1>3, <2>2, <2>3 DEF Signal
  <1>4. ASSUME NEW v \in Workers, Sleep(v) \/ SpuriousWake(v) \/ Run(v) PROVE Calm'
    <2>1. /\ pc[v] \notin PopPlaces /\ UNCHANGED <<taskq, pushed, taken, last>>
          /\ pc' = [pc EXCEPT ![v] = "asleep"] \/ pc' = [pc EXCEPT ![v] = "loop"]
          /\ node' = node \/ node' = [node EXCEPT ![v] = NULL]
      BY <1>4 DEF Sleep, SpuriousWake, Run, PopPlaces
    <2>2. /\ pc'[v] \in {"asleep", "loop"}
          /\ \A t \in Threads : t # v => pc'[t] = pc[t] /\ node'[t] = node[t]
      BY <1>1, <1>2, <2>1
    <2>3. Running'
      BY <1>2, <2>2 DEF Running
    <2>4. pc'[adder] = pc[adder] /\ node'[adder] = node[adder]
      BY <1>1, <2>2
    <2>5. \A w \in Workers : \/ pc'[w] = pc[w] /\ node'[w] = node[w]
                             \/ pc[w] \notin PopPlaces /\ pc'[w] \notin PopPlaces
      BY <1>1, <2>1, <2>2 DEF PopPlaces
    <2> QED
      BY <2>1, <2>3, <2>4, <2>5, QuietStep
  <1>5. CASE UNCHANGED vars
    <2>1. Running'
      BY <1>5 DEF vars, Calm, Running
    <2> QED
      BY <1>5, <2>1, QuietStep DEF vars
  <1> QED
    BY <1>3, <1>4, <1>5

\* The chain and the tasks on it do not depend on the stores of a call.
LEMMA StoredKept ==
    ASSUME NEW q, NEW r, NEW tasks, NEW k, NEW c, Stored(q, tasks, k, c),
           r.data = q.data, r.free = q.free
    PROVE  Stored(r, tasks, k, c)
  BY DEF Stored

LEMMA PushMoves ==
    ASSUME TypeInv, Calm, NEW c, Ordered(c), Pushing, NEW to \in PushPlaces,
           pc' = [pc EXCEPT ![adder] = to], UNCHANGED <<node, pushed, taken, last>>,
           taskq'.data = taskq.data, taskq'.free = taskq.free,
           InPush(to, taskq', node[adder], c)
    PROVE  Calm'
  <1>1. adder \in Threads /\ \A w \in Workers : w \in Threads /\ w # adder
    BY ThreadAssumption DEF Threads
  <1>2. pc'[adder] = to /\ \A t \in Threads : t # adder => pc'[t] = pc[t]
    BY <1>1 DEF TypeInv
  <1>3. Running' /\ to # "crashed"
    BY <1>2 DEF Calm, Running, PushPlaces
  <1>4. Pushing'
    BY <1>2 DEF Pushing, PushPlaces
  <1>5. \A w \in Workers : pc'[w] \notin PopPlaces
    BY <1>1, <1>2, Pushes DEF Calm
  <1>6. ~Popping'
    BY <1>5 DEF Popping, PopPlaces
  <1>7. HalfPushed(node[adder], c)
    BY DEF Ordered
  <1>8. Stored(taskq', pushed, Len(taken), c)
    BY <1>7, StoredKept DEF HalfPushed
  <1>9. HalfPushed(node[adder], c)'
    BY <1>2, <1>7, <1>8 DEF HalfPushed
  <1>10. Ordered(c)'
    BY <1>4, <1>5, <1>9 DEF Ordered
  <1> QED
    BY <1>3, <1>6, <1>10 DEF Calm

LEMMA PushLeaves ==
    ASSUME TypeInv, Calm, NEW c, Ordered(c),
           pc[adder] = "front", pc' = [pc EXCEPT ![adder] = "signal"],
           UNCHANGED <<node, pushed, taken, last>>, taskq' = HeadNext(taskq, node[adder])
    PROVE  Calm'
  <1> DEFINE n == node[adder]
  <1>0. PICK d : d = Append(c, n)
    OBVIOUS
  <1>1. adder \in Threads /\ \A w \in Workers : w \in Threads /\ w # adder
    BY ThreadAssumption DEF Threads
  <1>2. pc'[adder] = "signal" /\ \A t \in Threads : t # adder => pc'[t] = pc[t]
    BY <1>1 DEF TypeInv
  <1>3. Running'
    BY <1>2 DEF Calm, Running
  <1>4. ~Pushing' /\ Pushing
    BY <1>2 DEF Pushing
  <1>5. \A w \in Workers : pc'[w] \notin PopPlaces
    BY <1>1, <1>2, <1>4, Pushes DEF Calm
  <1>6. ~Popping'
    BY <1>5 DEF Popping, PopPlaces
  <1>7. HalfPushed(n, c) /\ Chain(c)
    BY <1>4 DEF Ordered
  <1>8. n \in Nodes /\ taskq \in Queues /\ Off(n, c) /\ InPush("front", taskq, n, c)
    BY <1>7 DEF HalfPushed, TypeInv
  <1>9. Chain(d) /\ AtRest(taskq', "push", d)
    BY <1>0, <1>7, <1>8, PushEnds
  <1>10. taskq'.data = taskq.data /\ taskq'.free = taskq.free
    BY <1>8, Stores DEF Is
  <1>11. Stored(taskq', pushed, Len(taken), c)
    BY <1>7, <1>10, StoredKept DEF HalfPushed
  <1>12. c \in Seq(Nodes) /\ Len(c) \in Nat /\ Len(taken) \in Nat /\ Len(pushed) \in Nat
    BY <1>7 DEF Chain, TypeInv
  <1>13. Len(d) = Len(c) + 1 /\ d[Len(c) + 1] = n /\ \A i \in 1 .. Len(c) : d[i] = c[i]
    BY <1>0, <1>8, <1>12
  <1>14. Len(taken) + (Len(c) + 1) = Len(pushed) /\ n \notin taskq.free /\ taskq.data[n] = pushed[Len(pushed)]
    BY <1>7, <1>12 DEF HalfPushed
  <1> HIDE DEF n
  <1>15. Stored(taskq', pushed, Len(taken), d)
    <2> SUFFICES ASSUME NEW i \in 1 .. Len(c) + 1
                 PROVE  d[i] \notin taskq'.free /\ taskq'.data[d[i]] = pushed[Len(taken) + i]
      BY <1>13 DEF Stored
    <2>1. CASE i \in 1 .. Len(c)
      BY <1>11, <1>13, <2>1 DEF Stored
    <2>2. CASE i = Len(c) + 1
      BY <1>10, <1>13, <1>14, <2>2
    <2> QED
      BY <1>12, <2>1, <2>2
  <1>16. last = "push"
    BY <1>7 DEF HalfPushed
  <1>17. Resting(d)'
    BY <1>9, <1>13, <1>14, <1>15, <1>16 DEF Resting
  <1>18. Ordered(d)'
    BY <1>4, <1>5, <1>9, <1>17 DEF Ordered
  <1> QED
    BY <1>3, <1>6, <1>18 DEF Calm

LEMMA PushActions ==
    ASSUME TypeInv, Calm, PushTest \/ PushStore
    PROVE  Calm'
  <1> DEFINE n == node[adder]
  <1> USE DEF Goto, At
  <1>1. PICK c : Ordered(c)
    BY DEF Calm
  <1>2. pc[adder] \in PushPlaces /\ Pushing
    BY DEF PushTest, PushStore, Store, PushPlaces, Pushing
  <1>3. HalfPushed(n, c) /\ Chain(c) /\ taskq \in Queues
    BY <1>1, <1>2 DEF Ordered, TypeInv
  <1>4. n \in Nodes /\ Off(n, c) /\ InPush(pc[adder], taskq, n, c) /\ n \notin taskq.free
    BY <1>3 DEF HalfPushed
  <1>5. UNCHANGED <<node, pushed, taken, last>>
    BY DEF PushTest, PushStore, Store
  <1> HIDE DEF n
  <1>6. CASE PushTest
    <2>1. /\ pc[adder] = "test" /\ taskq' = taskq
          /\ pc' = [pc EXCEPT ![adder] = IF queue_is_empty(taskq) THEN "head prev" ELSE "node prev"]
      BY <1>6 DEF PushTest
    <2> DEFINE to == IF queue_is_empty(taskq) THEN "head prev" ELSE "node prev"
    <2>2. InPush(to, taskq, n, c)
      BY <1>3, <1>4, <2>1, PushStores
    <2>3. to \in PushPlaces
      BY DEF PushPlaces
    <2> HIDE DEF to
    <2> QED
      BY <1>1, <1>2, <1>5, <2>1, <2>2, <2>3, PushMoves DEF to, n
  <1>7. ASSUME NEW from \in PushPlaces, NEW to \in PushPlaces, NEW q, Store(from, to, q),
               q.data = taskq.data, q.free = taskq.free, InPush(to, q, n, c)
        PROVE  Calm'
    BY <1>1, <1>2, <1>7, PushMoves DEF Store, n
  <1>8. CASE PushStore
    <2>1. CASE Store("head prev", "head next", HeadPrev(taskq, n))
      <3>1. InPush("head next", HeadPrev(taskq, n), n, c)
        BY <1>3, <1>4, <2>1, PushStores DEF Store
      <3> QED
        BY <1>3, <1>4, <1>7, <2>1, <3>1, Stores DEF Is, PushPlaces
    <2>2. CASE Store("head next", "node prev", HeadNext(taskq, n))
      <3>1. InPush("node prev", HeadNext(taskq, n), n, c)
        BY <1>3, <1>4, <2>2, PushStores DEF Store
      <3> QED
        BY <1>3, <1>4, <1>7, <2>2, <3>1, Stores DEF Is, PushPlaces
    <2>3. CASE Store("node prev", "next prev", NodePrev(taskq, n))
      <3>1. InPush("next prev", NodePrev(taskq, n), n, c)
        BY <1>3, <1>4, <2>3, PushStores DEF Store
      <3> QED
        BY <1>3, <1>4, <1>7, <2>3, <3>1, Stores DEF Is, PushPlaces
    <2>4. CASE Dead(taskq, taskq.next) /\ Store("next prev", "crashed", taskq)
      <3>1. InPush("next prev", taskq, n, c)
        BY <1>4, <2>4 DEF Store
      <3>2. taskq.next \in Nodes /\ taskq.next \notin taskq.free
        <4>1. CASE c = << >>
          BY <1>4, <3>1, <4>1 DEF InPush
        <4>2. CASE c # << >>
          <5>1. /\ Len(c) \in Nat \ {0} /\ 1 \in 1 .. Len(c) /\ Len(c) \in 1 .. Len(c)
                /\ c[1] \in Nodes /\ c[Len(c)] \in Nodes
            BY <1>3, <4>2, ChainEnds
          <5>2. c[1] \notin taskq.free /\ c[Len(c)] \notin taskq.free
            BY <1>3, <5>1 DEF HalfPushed, Stored
          <5>3. Len(c) = 1 \/ Len(c) > 1
            <6> DEFINE k == Len(c)
            <6>1. k \in Nat \ {0}
              BY <5>1
            <6> HIDE DEF k
            <6>2. k = 1 \/ k > 1
              BY <6>1
            <6> QED
              BY <6>2 DEF k
          <5>4. AtRest(taskq, "push", c)
            BY <3>1, <4>2 DEF InPush
          <5> QED
            BY <4>2, <5>1, <5>2, <5>3, <5>4 DEF AtRest
        <4> QED
          BY <4>1, <4>2
      <3> QED
        BY <2>4, <3>2, NodeAssumption DEF Dead
    <2>5. CASE Store("next prev", "front", NextPrev(taskq, n))
      <3>1. InPush("front", NextPrev(taskq, n), n, c)
        BY <1>3, <1>4, <2>5, PushStores DEF Store
      <3> QED
        BY <1>3, <1>4, <1>7, <2>5, <3>1, Stores DEF Is, PushPlaces
    <2>6. CASE Store("front", "signal", HeadNext(taskq, n))
      BY <1>1, <2>6, PushLeaves DEF Store, n
    <2> QED
      BY <1>8, <2>1, <2>2, <2>3, <2>4, <2>5, <2>6 DEF PushStore, n
  <1> QED
    BY <1>6, <1>8

\* A call that does not turn round at one node finds the chain as its like left it.
LEMMA NoTurn ==
    ASSUME TypeInv, NEW c, Chain(c), Resting(c), NEW call \in {"push", "pop"}, ~Turn(call)
    PROVE  AtRest(taskq, call, c)
  <1>1. Len(taken) \in Nat /\ Len(pushed) \in Nat /\ Len(c) \in Nat
    BY DEF TypeInv, Chain
  <1>2. Len(c) = Waiting
    BY <1>1 DEF Resting, Waiting
  <1>3. Len(c) = 1 => last = call
    BY <1>2 DEF Turn
  <1>4. AtRest(taskq, last, c)
    BY DEF Resting
  <1> QED
    BY <1>3, <1>4 DEF AtRest

LEMMA Adds ==
    ASSUME TypeInv, Calm, NEW t \in Tasks, NEW n \in Nodes, AddTask(t, n), ~disturbed'
    PROVE  Calm'
  <1>1. /\ pc[adder] = "add" /\ t = Len(pushed) + 1 /\ n \in taskq.free
        /\ taskq' = Alloc(taskq, n, t) /\ node' = [node EXCEPT ![adder] = n]
        /\ pushed' = Append(pushed, t) /\ last' = "push"
        /\ disturbed' = (disturbed \/ Popping \/ Turn("push"))
        /\ pc' = [pc EXCEPT ![adder] = "test"] /\ taken' = taken
    BY DEF AddTask, At, Goto
  <1>2. adder \in Threads /\ \A w \in Workers : w \in Threads /\ w # adder
    BY ThreadAssumption DEF Threads
  <1>3. /\ pc'[adder] = "test" /\ node'[adder] = n
        /\ \A x \in Threads : x # adder => pc'[x] = pc[x]
    BY <1>1, <1>2 DEF TypeInv
  <1>4. ~Popping /\ ~Turn("push") /\ ~Pushing /\ Pushing'
    BY <1>1, <1>3 DEF Pushing
  <1>5. \A w \in Workers : pc'[w] \notin PopPlaces
    BY <1>2, <1>3, <1>4, Pushes
  <1>6. ~Popping' /\ Running'
    BY <1>3, <1>5 DEF Popping, PopPlaces, Calm, Running
  <1>7. PICK c : Ordered(c)
    BY DEF Calm
  <1>8. Chain(c) /\ Resting(c)
    BY <1>4, <1>7 DEF Ordered
  <1>9. AtRest(taskq, "push", c)
    BY <1>4, <1>8, NoTurn
  <1>10. Off(n, c)
    BY <1>1, <1>8 DEF Off, Resting, Stored
  <1>11. /\ taskq'.prev = [taskq.prev EXCEPT ![n] = NULL] /\ taskq'.next = taskq.next
         /\ taskq'.data = [taskq.data EXCEPT ![n] = t] /\ taskq'.free = taskq.free \ {n}
    <2>1. taskq \in Queues
      BY DEF TypeInv
    <2>2. Is(Alloc(taskq, n, t), [taskq.prev EXCEPT ![n] = NULL], taskq.next,
             [taskq.data EXCEPT ![n] = t], taskq.free \ {n})
      BY <2>1, Allocates
    <2>3. Is(taskq', [taskq.prev EXCEPT ![n] = NULL], taskq.next,
             [taskq.data EXCEPT ![n] = t], taskq.free \ {n})
      BY <1>1, <2>2
    <2> QED
      BY <2>3 DEF Is
  <1>12. /\ DOMAIN taskq.data = Nodes /\ n # head /\ DOMAIN taskq.prev = Cells \cup {NULL}
         /\ n \in Cells
    BY NodeAssumption DEF TypeInv, Queues, Cells
  <1>13. \A i \in 1 .. Len(c) : taskq'.prev[c[i]] = taskq.prev[c[i]]
    <2>1. \A i \in 1 .. Len(c) : c[i] # n /\ c[i] \in Cells
      BY <1>8, <1>10 DEF Off, Chain, Cells
    <2> QED
      BY <1>11, <1>12, <2>1
  <1>14. taskq'.prev[head] = taskq.prev[head]
    BY <1>11, <1>12 DEF Cells
  <1>15. AtRest(taskq', "push", c)
    <2>1. CASE c = << >>
      BY <1>9, <1>11, <1>14, <2>1 DEF AtRest
    <2>2. CASE c # << >>
      <3>1. /\ 1 \in 1 .. Len(c) /\ Len(c) \in 1 .. Len(c) /\ Len(c) \in Nat
        BY <1>8, <2>2, ChainEnds
      <3>2. \A i \in 1 .. Len(c) - 1 : i \in 1 .. Len(c)
        BY <3>1
      <3>3. Linked(taskq, c)
        BY <1>9, <2>2 DEF AtRest
      <3>4. Linked(taskq', c)
        BY <1>13, <1>14, <3>2, <3>3 DEF Linked
      <3> QED
        BY <1>9, <1>11, <1>13, <2>2, <3>1, <3>4 DEF AtRest
    <2> QED
      BY <2>1, <2>2
  <1>16. /\ Len(taken) \in Nat /\ Len(c) \in Nat /\ pushed \in Seq(Tasks) /\ Len(pushed) \in Nat
         /\ Len(taken) + Len(c) = Len(pushed)
    BY <1>8 DEF TypeInv, Chain, Resting
  <1>17. /\ Len(pushed') = Len(pushed) + 1 /\ pushed'[Len(pushed) + 1] = t
         /\ \A i \in 1 .. Len(pushed) : pushed'[i] = pushed[i]
    BY <1>1, <1>16
  <1>18. \A i \in 1 .. Len(c) : Len(taken) + i \in 1 .. Len(pushed)
    BY <1>16
  <1>19. Stored(taskq', pushed', Len(taken), c)
    <2> SUFFICES ASSUME NEW i \in 1 .. Len(c)
                 PROVE  c[i] \notin taskq'.free /\ taskq'.data[c[i]] = pushed'[Len(taken) + i]
      BY DEF Stored
    <2>1. c[i] \notin taskq.free /\ taskq.data[c[i]] = pushed[Len(taken) + i] /\ c[i] # n
      BY <1>8, <1>10 DEF Resting, Stored, Off
    <2> QED
      BY <1>11, <1>12, <1>17, <1>18, <2>1
  <1>20. n \notin taskq'.free /\ taskq'.data[n] = pushed'[Len(pushed')]
    BY <1>11, <1>12, <1>17
  <1>21. InPush("test", taskq', n, c)
    BY <1>15 DEF InPush
  <1>22. Len(taken') + Len(c) + 1 = Len(pushed')
    BY <1>1, <1>16, <1>17
  <1>23. HalfPushed(node[adder], c)'
    BY <1>1, <1>3, <1>10, <1>19, <1>20, <1>21, <1>22 DEF HalfPushed
  <1>24. Ordered(c)'
    BY <1>4, <1>5, <1>8, <1>23 DEF Ordered
  <1>25. taken' = SubSeq(pushed', 1, Len(taken'))
    <2>1. taken = SubSeq(pushed, 1, Len(taken)) /\ Len(taken) <= Len(pushed)
      BY <1>16 DEF Calm
    <2>2. SubSeq(pushed', 1, Len(taken)) = SubSeq(pushed, 1, Len(taken))
      BY <1>1, <1>16, <1>17, <2>1
    <2> QED
      BY <1>1, <2>1, <2>2
  <1> QED
    BY <1>6, <1>24, <1>25 DEF Calm

LEMMA Takes ==
    ASSUME TypeInv, Calm, NEW w \in Workers, Take(w), ~disturbed'
    PROVE  Calm'
  <1>1. /\ pc[w] = "loop" /\ mutex = NULL /\ ~queue_is_empty(taskq)
        /\ node' = [node EXCEPT ![w] = Last(taskq)] /\ last' = "pop"
        /\ disturbed' = (disturbed \/ Pushing \/ Turn("pop"))
        /\ pc' = [pc EXCEPT ![w] = "unlink"]
        /\ taskq' = taskq /\ pushed' = pushed /\ taken' = taken
    BY DEF Take, At, Goto
  <1>2. w \in Threads /\ w # adder /\ adder \in Threads /\ \A v \in Workers : v \in Threads
    BY ThreadAssumption DEF Threads
  <1>3. /\ pc'[w] = "unlink" /\ node'[w] = Last(taskq)
        /\ \A x \in Threads : x # w => pc'[x] = pc[x]
    BY <1>1, <1>2 DEF TypeInv
  <1>4. \A v \in Workers : pc[v] \notin PopPlaces
    BY <1>1, ThreadAssumption DEF TypeInv
  <1>5. ~Popping /\ ~Turn("pop") /\ ~Pushing
    BY <1>1, <1>4, Pushes
  <1>6. ~Pushing' /\ Running'
    BY <1>2, <1>3, <1>5 DEF Pushing, Calm, Running
  <1>7. \A v \in Workers : pc'[v] \in PopPlaces => v = w
    BY <1>2, <1>3, <1>4
  <1>8. Popping'
    BY <1>3 DEF Popping
  <1>9. PICK c : Ordered(c)
    BY DEF Calm
  <1>10. Chain(c) /\ Resting(c)
    BY <1>5, <1>9 DEF Ordered
  <1>11. AtRest(taskq, "pop", c)
    BY <1>5, <1>10, NoTurn
  <1>12. c # << >>
    BY <1>1, <1>10, <1>11, EmptyIsEmpty
  <1>13. PICK d : d = Tail(c)
    OBVIOUS
  <1>14. PICK n : n = c[1]
    OBVIOUS
  <1>15. /\ Last(taskq) = n /\ Chain(d) /\ Off(n, d) /\ InPop("unlink", taskq, n, d)
    BY <1>10, <1>11, <1>12, <1>13, <1>14, PopBegins DEF TypeInv
  <1>16. /\ c \in Seq(Nodes) /\ Len(c) \in Nat \ {0} /\ 1 \in 1 .. Len(c) /\ n \in Nodes
         /\ Len(taken) \in Nat /\ Len(pushed) \in Nat /\ Len(taken) + Len(c) = Len(pushed)
    BY <1>10, <1>12, <1>14, ChainEnds DEF Chain, TypeInv, Resting
  <1>17. Len(d) = Len(c) - 1 /\ \A i \in 1 .. Len(c) - 1 : d[i] = c[i + 1]
    BY <1>12, <1>13, <1>16
  <1>18. n \notin taskq.free /\ taskq.data[n] = pushed[Len(taken) + 1]
    BY <1>10, <1>14, <1>16 DEF Resting, Stored
  <1>19. Stored(taskq, pushed, Len(taken) + 1, d)
    <2> SUFFICES ASSUME NEW i \in 1 .. Len(c) - 1
                 PROVE  d[i] \notin taskq.free /\ taskq.data[d[i]] = pushed[Len(taken) + 1 + i]
      BY <1>17 DEF Stored
    <2>1. i + 1 \in 1 .. Len(c) /\ Len(taken) + (i + 1) = Len(taken) + 1 + i
      BY <1>16
    <2>2. c[i + 1] \notin taskq.free /\ taskq.data[c[i + 1]] = pushed[Len(taken) + (i + 1)]
      BY <1>10, <2>1 DEF Resting, Stored
    <2> QED
      BY <1>17, <2>1, <2>2
  <1>20. Len(taken) + 1 + Len(d) = Len(pushed)
    <2> DEFINE k == Len(c)
    <2> HIDE DEF k
    <2>1. Len(d) = k - 1 /\ k \in Nat /\ Len(taken) + k = Len(pushed) /\ Len(taken) \in Nat
      BY <1>16, <1>17 DEF k
    <2> QED
      BY <2>1
  <1>21. HalfPopped(w, node[w], d)'
    BY <1>1, <1>3, <1>15, <1>16, <1>18, <1>19, <1>20 DEF HalfPopped
  <1>22. Ordered(d)'
    BY <1>6, <1>7, <1>8, <1>15, <1>21 DEF Ordered
  <1> QED
    BY <1>1, <1>6, <1>22 DEF Calm

\* The stores of a pop, and the free.
LEMMA PopMoves ==
    ASSUME TypeInv, Calm, NEW c, Ordered(c), NEW w \in Workers, pc[w] \in PopPlaces,
           NEW to \in PopPlaces \ {"unlink"}, pc' = [pc EXCEPT ![w] = to],
           UNCHANGED <<node, pushed, taken, last>>,
           taskq'.data = taskq.data, taskq'.free \subseteq taskq.free \cup {node[w]},
           InPop(to, taskq', node[w], c)
    PROVE  Calm'
  <1>1. w \in Threads /\ w # adder /\ adder \in Threads /\ \A v \in Workers : v \in Threads
    BY ThreadAssumption DEF Threads
  <1>2. pc'[w] = to /\ \A t \in Threads : t # w => pc'[t] = pc[t]
    BY <1>1 DEF TypeInv
  <1>3. Running'
    BY <1>2 DEF Calm, Running, PopPlaces
  <1>4. ~Pushing /\ ~Pushing'
    BY <1>1, <1>2, Pushes DEF Calm, Pushing
  <1>5. Popping'
    BY <1>2 DEF Popping, PopPlaces
  <1>6. \A v \in Workers : pc'[v] \in PopPlaces => v = w
    BY <1>1, <1>2, OnePops
  <1>7. HalfPopped(w, node[w], c)
    BY DEF Ordered
  <1>8. Stored(taskq', pushed, Len(taken) + 1, c)
    BY <1>7 DEF HalfPopped, Stored, Off
  <1>9. HalfPopped(w, node[w], c)'
    BY <1>2, <1>7, <1>8 DEF HalfPopped
  <1>10. Ordered(c)'
    BY <1>4, <1>5, <1>6, <1>9 DEF Ordered
  <1> QED
    BY <1>3, <1>4, <1>10 DEF Calm

LEMMA PopActions ==
    ASSUME TypeInv, Calm, NEW w \in Workers, PopUnlink(w) \/ PopFix(w) \/ PopFree(w)
    PROVE  Calm'
  <1> DEFINE n == node[w]
  <1> USE DEF Goto, At
  <1>1. PICK c : Ordered(c)
    BY DEF Calm
  <1>2. pc[w] \in PopPlaces
    BY DEF PopUnlink, PopFix, PopFree, PopPlaces
  <1>3. HalfPopped(w, n, c) /\ Chain(c) /\ taskq \in Queues
    BY <1>1, <1>2 DEF Ordered, TypeInv
  <1>4. n \in Nodes /\ InPop(pc[w], taskq, n, c) /\ (pc[w] = "unlink" => n \notin taskq.free)
    BY <1>3 DEF HalfPopped
  <1>5. UNCHANGED <<node, pushed, taken, last>>
    BY DEF PopUnlink, PopFix, PopFree
  <1> HIDE DEF n
  <1>6. CASE PopUnlink(w)
    <2>1. pc[w] = "unlink" /\ ~(n = head \/ Dead(taskq, n))
      BY <1>4, <1>6, NodeAssumption DEF PopUnlink, Dead, Cells
    <2>2. pc' = [pc EXCEPT ![w] = "fix"] /\ taskq' = Unlink(taskq, n)
      BY <1>6, <2>1 DEF PopUnlink, n
    <2>3. InPop("fix", taskq', n, c)
      BY <1>3, <1>4, <2>1, <2>2, PopStores
    <2>4. taskq'.data = taskq.data /\ taskq'.free = taskq.free
      BY <1>3, <1>4, <2>2, Pops DEF Is
    <2> QED
      BY <1>1, <1>2, <1>5, <2>2, <2>3, <2>4, PopMoves DEF n, PopPlaces
  <1>7. CASE PopFix(w)
    <2>1. pc[w] = "fix" /\ pc' = [pc EXCEPT ![w] = "free"] /\ taskq' = FixNext(taskq)
      BY <1>7 DEF PopFix
    <2>2. InPop("free", taskq', n, c)
      BY <1>3, <1>4, <2>1, PopStores
    <2>3. taskq'.data = taskq.data /\ taskq'.free = taskq.free
      BY <1>3, <1>4, <2>1, Pops DEF Is
    <2> QED
      BY <1>1, <1>2, <1>5, <2>1, <2>2, <2>3, PopMoves DEF n, PopPlaces
  <1>8. CASE PopFree(w)
    <2>1. pc[w] = "free" /\ pc' = [pc EXCEPT ![w] = "data"] /\ taskq' = Free(taskq, n)
      BY <1>8 DEF PopFree, n
    <2>2. InPop("data", taskq', n, c)
      BY <1>3, <1>4, <2>1, PopStores
    <2>3. taskq'.data = taskq.data /\ taskq'.free = taskq.free \cup {n}
      BY <1>3, <1>4, <2>1, Pops DEF Is
    <2> QED
      BY <1>1, <1>2, <1>5, <2>1, <2>2, <2>3, PopMoves DEF n, PopPlaces
  <1> QED
    BY <1>6, <1>7, <1>8

\* queue_pop returns: the task is the next one.
LEMMA PopReturns ==
    ASSUME TypeInv, Calm, NEW w \in Workers, PopData(w)
    PROVE  Calm'
  <1>1. /\ pc[w] = "data" /\ taken' = Append(taken, taskq.data[node[w]])
        /\ pc' = [pc EXCEPT ![w] = "run"]
        /\ taskq' = taskq /\ node' = node /\ pushed' = pushed /\ last' = last
    BY DEF PopData, At, Goto
  <1>2. w \in Threads /\ w # adder /\ adder \in Threads /\ \A v \in Workers : v \in Threads
    BY ThreadAssumption DEF Threads
  <1>3. pc'[w] = "run" /\ \A t \in Threads : t # w => pc'[t] = pc[t]
    BY <1>1, <1>2 DEF TypeInv
  <1>4. pc[w] \in PopPlaces /\ Popping
    BY <1>1 DEF PopPlaces, Popping
  <1>5. ~Pushing /\ ~Pushing' /\ Running'
    BY <1>2, <1>3, <1>4 DEF Calm, Pushing, Running
  <1>6. \A v \in Workers : pc'[v] \notin PopPlaces
    <2>1. pc'[w] \notin PopPlaces
      BY <1>3 DEF PopPlaces
    <2> QED
      BY <1>2, <1>3, <1>4, <2>1, OnePops
  <1>7. ~Popping'
    BY <1>6 DEF Popping, PopPlaces
  <1>8. PICK c : Ordered(c)
    BY DEF Calm
  <1>9. Chain(c) /\ HalfPopped(w, node[w], c)
    BY <1>4, <1>8 DEF Ordered
  <1>10. /\ last = "pop" /\ Stored(taskq, pushed, Len(taken) + 1, c)
         /\ AtRest(taskq, "pop", c) /\ taskq.data[node[w]] = pushed[Len(taken) + 1]
         /\ Len(taken) + 1 + Len(c) = Len(pushed)
    BY <1>1, <1>9 DEF HalfPopped, InPop
  <1>11. /\ Len(taken) \in Nat /\ Len(c) \in Nat /\ Len(pushed) \in Nat /\ pushed \in Seq(Tasks)
         /\ taken = SubSeq(pushed, 1, Len(taken)) /\ Len(taken) + 1 <= Len(pushed)
    <2>1. Len(taken) \in Nat /\ Len(c) \in Nat /\ Len(pushed) \in Nat /\ pushed \in Seq(Tasks)
      BY <1>9 DEF TypeInv, Chain
    <2> QED
      BY <1>10, <2>1 DEF Calm
  <1>12. taken' = Append(taken, pushed[Len(taken) + 1]) /\ Len(taken') = Len(taken) + 1
    <2>1. taken \in Seq(Tasks \cup {NULL})
      BY DEF TypeInv
    <2> QED
      BY <1>1, <1>10, <2>1
  <1>13. taken' = SubSeq(pushed', 1, Len(taken'))
    <2> DEFINE m == Len(taken)
    <2>1. m \in Nat /\ m + 1 <= Len(pushed) /\ Len(pushed) \in Nat /\ pushed \in Seq(Tasks)
      BY <1>11
    <2> HIDE DEF m
    <2>2. SubSeq(pushed, 1, m + 1) = Append(SubSeq(pushed, 1, m), pushed[m + 1])
      BY <2>1
    <2> QED
      BY <1>1, <1>11, <1>12, <2>2 DEF m
  <1>14. Resting(c)'
    BY <1>1, <1>10, <1>12 DEF Resting
  <1>15. Ordered(c)'
    BY <1>5, <1>6, <1>7, <1>9, <1>14 DEF Ordered
  <1> QED
    BY <1>5, <1>13, <1>15 DEF Calm

LEMMA CallsStep == CallsInv /\ [Next]_vars => CallsInv'
  <1> SUFFICES ASSUME CallsInv, [Next]_vars, ~disturbed' PROVE Calm'
    BY TypeStep DEF CallsInv
  <1>1. ~disturbed
    BY DEF Next, vars, AddTask, PushTest, PushStore, Store, Signal, Sleep, SpuriousWake, Take,
           PopUnlink, PopFix, PopFree, PopData, Run
  <1>2. TypeInv /\ Calm
    BY <1>1 DEF CallsInv
  <1> QED
    BY <1>2, QuietActions, PushActions, Adds, Takes, PopActions, PopReturns DEF Next

\* Whatever the stores of calls that did not meet and did not turn round at one
\* node have left, the queue hands out every task, once and in order, no pointer
\* is dead, and the walk from the back meets the tasks that wait (queue.c:36-90,
\* thread_pool.c:60-71, 78-104).
THEOREM TasksInOrder == Spec => []QueueOK
  <1>1. CallsInv => QueueOK
    <2> SUFFICES ASSUME CallsInv PROVE QueueOK
      OBVIOUS
    <2>1. TypeOK
      BY DEF CallsInv, TypeInv, TypeOK, Queues, Places
    <2>2. ASSUME ~disturbed PROVE Calm /\ TypeInv
      BY <2>2 DEF CallsInv
    <2>3. ASSUME ~disturbed, ~Pushing, ~Popping
          PROVE  /\ queue_is_empty(taskq) <=> Waiting = 0
                 /\ \A i \in 1 .. Waiting :
                        /\ FromBack(taskq, i) \in Nodes
                        /\ taskq.data[FromBack(taskq, i)] = pushed[Len(taken) + i]
                 /\ Waiting > 0 => queue_first(taskq) = pushed[Len(taken) + 1]
      <3>1. PICK c : Chain(c) /\ Resting(c)
        BY <2>2, <2>3 DEF Calm, Ordered
      <3>2. Len(c) \in Nat /\ Len(taken) \in Nat /\ Len(pushed) \in Nat
        BY <2>2, <2>3, <3>1 DEF Chain, TypeInv
      <3>3. Waiting = Len(c)
        BY <3>1, <3>2 DEF Resting, Waiting
      <3>4. queue_is_empty(taskq) <=> c = << >>
        BY <3>1, EmptyIsEmpty DEF Resting
      <3>5. c = << >> <=> Len(c) = 0
        BY <3>1 DEF Chain
      <3>6. c # << >> => Linked(taskq, c)
        BY <3>1 DEF Resting, AtRest
      <3>7. ASSUME NEW i \in 1 .. Len(c)
            PROVE  FromBack(taskq, i) = c[i] /\ c[i] \in Nodes /\ taskq.data[c[i]] = pushed[Len(taken) + i]
        <4>1. c # << >>
          BY <3>2, <3>5
        <4> QED
          BY <3>1, <3>6, <4>1, Walks, ChainEnds DEF Resting, Stored
      <3>8. ASSUME Len(c) > 0 PROVE queue_first(taskq) = pushed[Len(taken) + 1]
        <4>1. c # << >> /\ 1 \in 1 .. Len(c)
          BY <3>2, <3>8
        <4>2. Last(taskq) = c[1]
          BY <3>6, <4>1 DEF Linked, Last
        <4> QED
          BY <3>4, <3>7, <4>1, <4>2 DEF queue_first
      <3> QED
        BY <3>3, <3>4, <3>5, <3>7, <3>8
    <2>4. InOrderUntilDisturbed
      BY <2>2, <2>3 DEF InOrderUntilDisturbed, Calm
    <2> QED
      BY <2>1, <2>4 DEF QueueOK
  <1> QED
    BY <1>1, CallsInit, CallsStep, PTL DEF Spec

-----------------------------------------------------------------------------
(* The C++ pool: pool/ZeroThreadPool.{h,cpp}: for any workers, tasks,      *)
(* timeouts and waiters, finite or not.                                    *)

\* The assumptions of ZeroThreadPool.
ZeroConstants ==
    zp_Timeouts \subseteq Int /\ zp_Nobody \notin zp_Tasks /\ zp_Workers \cap zp_Waiters = {}

\* Moving the head of the second sequence to the end of the first keeps their concatenation.
LEMMA MoveHead ==
  ASSUME NEW S, NEW s \in Seq(S), NEW t \in Seq(S), t # << >>
  PROVE  /\ Head(t) \in S /\ Tail(t) \in Seq(S)
         /\ Append(s, Head(t)) \in Seq(S)
         /\ Append(s, Head(t)) \o Tail(t) = s \o t
  <1>1. /\ Head(t) \in S /\ Tail(t) \in Seq(S) /\ Append(s, Head(t)) \in Seq(S)
    BY HeadTailProperties, AppendProperties
  <1>2. t = << Head(t) >> \o Tail(t)
    <2>1. Len(t) \in 1 .. Len(t) /\ 1 \in 1 .. Len(t) /\ Head(t) = t[1]
      BY HeadTailProperties, LenProperties
    <2>2. SubSeq(t, 1, Len(t)) = << t[1] >> \o SubSeq(t, 1 + 1, Len(t))
      BY <2>1, SubSeqRecursiveFirst
    <2> QED
      BY <2>1, <2>2, SubSeqFull, TailIsSubSeq
  <1>3. Append(s, Head(t)) = s \o << Head(t) >>
    BY <1>1, AppendIsConcat
  <1>4. << Head(t) >> \in Seq(S)
    BY <1>1
  <1>5. (s \o << Head(t) >>) \o Tail(t) = s \o (<< Head(t) >> \o Tail(t))
    BY <1>1, <1>4, ConcatAssociative
  <1> QED
    BY <1>1, <1>2, <1>3, <1>5

-----------------------------------------------------------------------------
(* Types.                                                                  *)

\* Every variable keeps its type; a worker holds a task exactly while it runs one.
THEOREM ZeroTypeCorrect ==
    ASSUME ZeroConstants
    PROVE  ZP!Spec => []ZP!TypeOK
  <1> USE DEF ZP!Threads
  <1>1. ZP!Init => ZP!TypeOK
    <2> SUFFICES ASSUME ZP!Init
                 PROVE  ZP!TypeOK
      OBVIOUS
    <2>1. /\ zp_taskQ \in Seq(zp_Tasks) /\ zp_submitted \in Seq(zp_Tasks) /\ zp_taken \in Seq(zp_Tasks)
          /\ zp_expire \in [zp_Tasks -> Int] /\ zp_waitSet \subseteq ZP!Threads
      BY DEF ZP!Init
    <2>4. zp_bTerminate \in BOOLEAN
      BY DEF ZP!Init
    <2>2. /\ zp_pc \in [ZP!Threads -> {"loop", "get", "run", "exited", "caller", "waiting", "returned"}]
          /\ \A w \in zp_Workers : zp_pc[w] = "loop"
      BY DEF ZP!Init
    <2>3. /\ zp_task \in [zp_Workers -> zp_Tasks \cup {zp_Nobody}]
          /\ \A w \in zp_Workers : zp_task[w] = zp_Nobody
          /\ zp_timed \in [zp_Waiters -> BOOLEAN]
          /\ zp_stopper \in {"none", "joining", "crashed"}
          /\ zp_outcome \in [zp_Tasks -> {"none", "ran", "expired"}]
      BY DEF ZP!Init
    <2> QED
      BY <2>1, <2>2, <2>3, <2>4 DEF ZP!TypeOK
  <1>2. ZP!TypeOK /\ [ZP!Next]_zpVars => ZP!TypeOK'
    <2> SUFFICES ASSUME ZP!TypeOK, [ZP!Next]_zpVars
                 PROVE  ZP!TypeOK'
      OBVIOUS
    <2> USE DEF ZP!TypeOK
    <2>1. ASSUME NEW t \in zp_Tasks, NEW timeout \in zp_Timeouts, ZP!Exec(t, timeout)
          PROVE  ZP!TypeOK'
      <3>1. timeout \in Int
        BY DEF ZeroConstants
      <3>2. zp_expire' \in [zp_Tasks -> Int]
        BY <2>1, <3>1 DEF ZP!Exec, ZP!NOW
      <3>3. zp_taskQ' \in Seq(zp_Tasks) /\ zp_submitted' \in Seq(zp_Tasks)
        BY <2>1, AppendProperties DEF ZP!Exec
      <3>4. zp_waitSet' \subseteq ZP!Threads
        BY <2>1 DEF ZP!Exec, ZP!NotifyOne
      <3> QED
        BY <2>1, <3>2, <3>3, <3>4 DEF ZP!Exec
    <2>2. ASSUME NEW w \in zp_Workers, ZP!LoopTest(w) \/ ZP!GetTerminated(w)
          PROVE  ZP!TypeOK'
      BY <2>2 DEF ZeroConstants, ZP!LoopTest, ZP!GetTerminated
    <2>3. ASSUME NEW w \in zp_Workers, ZP!GetWait(w)
          PROVE  ZP!TypeOK'
      BY <2>3 DEF ZP!GetWait
    <2>4. ASSUME NEW w \in zp_Workers, ZP!GetTake(w)
          PROVE  ZP!TypeOK'
      <3>1. /\ Head(zp_taskQ) \in zp_Tasks /\ zp_taskQ' \in Seq(zp_Tasks) /\ zp_taken' \in Seq(zp_Tasks)
        BY <2>4, MoveHead DEF ZP!GetTake
      <3> QED
        BY <2>4, <3>1 DEF ZeroConstants, ZP!GetTake
    <2>5. ASSUME NEW w \in zp_Workers, ZP!Run(w)
          PROVE  ZP!TypeOK'
      BY <2>5 DEF ZP!Run
    <2>6. ASSUME NEW t \in ZP!Threads, ZP!SpuriousWake(t)
          PROVE  ZP!TypeOK'
      BY <2>6 DEF ZP!SpuriousWake
    <2>7. ASSUME NEW v \in zp_Waiters, NEW isTimed \in BOOLEAN, ZP!WaitCall(v, isTimed)
          PROVE  ZP!TypeOK'
      BY <2>7 DEF ZeroConstants, ZP!WaitCall
    <2>8. ASSUME NEW v \in zp_Waiters, ZP!WaitSleep(v)
          PROVE  ZP!TypeOK'
      BY <2>8 DEF ZP!WaitSleep
    <2>9. ASSUME NEW v \in zp_Waiters, ZP!WaitReturn(v) \/ ZP!WaitTimeout(v)
          PROVE  ZP!TypeOK'
      BY <2>9 DEF ZeroConstants, ZP!WaitReturn, ZP!WaitTimeout
    <2>10. CASE ZP!StopSignal \/ ZP!StopJoin
      BY <2>10 DEF ZP!StopSignal, ZP!StopJoin
    <2>11. CASE UNCHANGED zpVars
      BY <2>11 DEF zpVars
    <2> QED
      BY <2>1, <2>2, <2>3, <2>4, <2>5, <2>6, <2>7, <2>8, <2>9, <2>10, <2>11
         DEF ZP!Next, ZP!WorkerStep, ZP!WaiterStep
  <1>3. ZP!Spec => ZP!Init /\ [][ZP!Next]_zpVars
    BY DEF ZP!Spec, ZP!vars, zpVars
  <1> QED
    BY <1>1, <1>2, <1>3, PTL

-----------------------------------------------------------------------------
(* Tasks are handed out in order, each to one worker.                      *)

\* TakenInOrder alone does not exclude that a task is handed out twice: the
\* invariant also needs that exec never sees a task twice.
SubmittedOnce ==
    \A i, j \in 1 .. Len(zp_submitted) : zp_submitted[i] = zp_submitted[j] => i = j

ZeroInv == ZP!TakenInOrder /\ SubmittedOnce /\ ZP!OneHolder

\* Under _mutex, get_task takes the front of _tasks and exec appends to its back,
\* so what left is a prefix of what was submitted and each task has one holder.
THEOREM ZeroInvariant ==
    ASSUME ZeroConstants
    PROVE  ZP!Spec => []ZeroInv
  <1> USE DEF ZP!Threads
  <1>1. ZP!Init => ZeroInv
    <2> SUFFICES ASSUME ZP!Init
                 PROVE  ZeroInv
      OBVIOUS
    <2>1. ZP!TakenInOrder /\ SubmittedOnce
      BY DEF ZP!Init, ZP!TakenInOrder, SubmittedOnce
    <2>2. \A t \in zp_Tasks : ZP!Holders(t) = {} /\ ~ZP!IsTaken(t) /\ zp_outcome[t] = "none"
      BY DEF ZeroConstants, ZP!Init, ZP!Holders, ZP!IsTaken
    <2> QED
      BY <2>1, <2>2 DEF ZeroInv, ZP!OneHolder
  <1>2. ZP!TypeOK /\ ZeroInv /\ [ZP!Next]_zpVars => ZeroInv'
    <2> SUFFICES ASSUME ZP!TypeOK, ZeroInv, [ZP!Next]_zpVars
                 PROVE  ZeroInv'
      OBVIOUS
    <2>0. /\ zp_taken \in Seq(zp_Tasks) /\ zp_taskQ \in Seq(zp_Tasks) /\ zp_submitted \in Seq(zp_Tasks)
          /\ zp_taken \o zp_taskQ = zp_submitted
          /\ SubmittedOnce /\ ZP!OneHolder
      BY DEF ZP!TypeOK, ZeroInv, ZP!TakenInOrder
    <2>1. ASSUME NEW t \in zp_Tasks, NEW timeout \in zp_Timeouts, ZP!Exec(t, timeout)
          PROVE  ZeroInv'
      <3>1. /\ zp_taskQ' = Append(zp_taskQ, t) /\ zp_submitted' = Append(zp_submitted, t)
            /\ \A i \in 1 .. Len(zp_submitted) : zp_submitted[i] # t
            /\ UNCHANGED <<zp_task, zp_taken, zp_outcome>>
        BY <2>1 DEF ZP!Exec
      <3>2. zp_taken \o Append(zp_taskQ, t) = Append(zp_taken \o zp_taskQ, t)
        <4>1. /\ << t >> \in Seq(zp_Tasks) /\ zp_taken \in Seq(zp_Tasks) /\ zp_taskQ \in Seq(zp_Tasks)
              /\ zp_taken \o zp_taskQ \in Seq(zp_Tasks)
          BY <2>0
        <4>2. zp_taken \o (zp_taskQ \o << t >>) = (zp_taken \o zp_taskQ) \o << t >>
          BY <4>1, ConcatAssociative
        <4> QED
          BY <2>0, <4>1, <4>2, AppendIsConcat
      <3>3. SubmittedOnce'
        <4>1. /\ Len(zp_submitted') = Len(zp_submitted) + 1 /\ Len(zp_submitted) \in Nat
              /\ \A i \in 1 .. Len(zp_submitted) : zp_submitted'[i] = zp_submitted[i]
              /\ zp_submitted'[Len(zp_submitted) + 1] = t
          BY <2>0, <3>1, AppendProperties, LenProperties
        <4> QED
          BY <2>0, <3>1, <4>1 DEF SubmittedOnce
      <3>4. ZP!OneHolder'
        BY <2>0, <3>1 DEF ZP!OneHolder, ZP!Holders, ZP!IsTaken
      <3> QED
        BY <2>0, <3>1, <3>2, <3>3, <3>4 DEF ZeroInv, ZP!TakenInOrder
    <2>2. ASSUME NEW w \in zp_Workers, ZP!GetTake(w)
          PROVE  ZeroInv'
      <3>0. PICK h \in zp_Tasks : h = Head(zp_taskQ) /\ zp_taskQ # << >>
        BY <2>2, <2>0, MoveHead DEF ZP!GetTake
      <3>1. /\ zp_taskQ # << >> /\ zp_taskQ' = Tail(zp_taskQ) /\ zp_taken' = Append(zp_taken, h)
            /\ zp_task' = [zp_task EXCEPT ![w] = h]
            /\ zp_submitted' = zp_submitted /\ zp_outcome' = zp_outcome
            /\ zp_task[w] = zp_Nobody
        BY <2>2, <3>0 DEF ZP!GetTake, ZP!TypeOK
      <3>2. ZP!TakenInOrder'
        <4>1. Append(zp_taken, Head(zp_taskQ)) \o Tail(zp_taskQ) = zp_taken \o zp_taskQ
          BY <2>0, <3>0, MoveHead
        <4> QED
          BY <2>0, <3>0, <3>1, <4>1 DEF ZP!TakenInOrder
      <3>3. SubmittedOnce'
        BY <2>0, <3>1 DEF SubmittedOnce
      <3>4. /\ Len(zp_taken') = Len(zp_taken) + 1 /\ Len(zp_taken) \in Nat
            /\ \A i \in 1 .. Len(zp_taken) : zp_taken'[i] = zp_taken[i]
            /\ zp_taken'[Len(zp_taken) + 1] = h
        BY <2>0, <3>1, AppendProperties, LenProperties
      <3>5. ~ZP!IsTaken(h)
        <4>1. /\ Len(zp_taskQ) \in Nat /\ Len(zp_taskQ) >= 1 /\ h = zp_taskQ[1]
              /\ Len(zp_taken) \in Nat /\ Len(zp_submitted) = Len(zp_taken) + Len(zp_taskQ)
          BY <2>0, <3>0, LenProperties, ConcatProperties, HeadTailProperties
        <4>2. \A i \in 1 .. Len(zp_taken) : zp_submitted[i] = zp_taken[i]
          BY <2>0, <4>1, ConcatProperties
        <4>3. zp_submitted[Len(zp_taken) + 1] = h
          <5>1. Len(zp_taken) + 1 \in 1 .. Len(zp_taken) + Len(zp_taskQ)
            BY <4>1
          <5>2. (zp_taken \o zp_taskQ)[Len(zp_taken) + 1] = zp_taskQ[Len(zp_taken) + 1 - Len(zp_taken)]
            BY <2>0, <4>1, <5>1, ConcatProperties
          <5> QED
            BY <2>0, <4>1, <5>2
        <4> QED
          BY <2>0, <4>1, <4>2, <4>3 DEF SubmittedOnce, ZP!IsTaken
      <3>6. ZP!Holders(h) = {} /\ zp_outcome[h] = "none"
        BY <2>0, <3>1, <3>5 DEF ZP!OneHolder
      <3>7. ZP!Holders(h)' = {w}
        BY <3>1, <3>6 DEF ZP!Holders, ZP!TypeOK
      <3>8. ZP!IsTaken(h)'
        BY <3>4 DEF ZP!IsTaken
      <3>9. \A t \in zp_Tasks \ {h} :
                /\ ZP!Holders(t)' = ZP!Holders(t)
                /\ ZP!IsTaken(t)' <=> ZP!IsTaken(t)
        BY <3>1, <3>4 DEF ZeroConstants, ZP!Holders, ZP!IsTaken, ZP!TypeOK
      <3>10. ZP!OneHolder'
        <4> SUFFICES ASSUME NEW t \in zp_Tasks
                     PROVE  /\ \A v, u \in ZP!Holders(t)' : v = u
                            /\ ZP!IsTaken(t)' <=> (ZP!Holders(t)' # {} \/ zp_outcome'[t] # "none")
                            /\ ZP!Holders(t)' = {} \/ zp_outcome'[t] = "none"
          BY DEF ZP!OneHolder
        <4>1. CASE t = h
          BY <3>1, <3>6, <3>7, <3>8, <4>1
        <4>2. CASE t # h
          <5>1. /\ \A v, u \in ZP!Holders(t) : v = u
                /\ ZP!IsTaken(t) <=> (ZP!Holders(t) # {} \/ zp_outcome[t] # "none")
                /\ ZP!Holders(t) = {} \/ zp_outcome[t] = "none"
            BY <2>0 DEF ZP!OneHolder
          <5>2. /\ zp_outcome' = zp_outcome /\ ZP!Holders(t)' = ZP!Holders(t)
                /\ ZP!IsTaken(t)' <=> ZP!IsTaken(t)
            BY <3>1, <3>9, <4>2
          <5> QED
            BY <5>1, <5>2
        <4> QED
          BY <4>1, <4>2
      <3> QED
        BY <3>2, <3>3, <3>10 DEF ZeroInv
    <2>3. ASSUME NEW w \in zp_Workers, ZP!Run(w)
          PROVE  ZeroInv'
      <3>0. PICK h \in zp_Tasks : h = zp_task[w]
        BY <2>3 DEF ZP!Run, ZP!TypeOK
      <3>1. /\ UNCHANGED <<zp_taskQ, zp_submitted, zp_taken>>
            /\ w \in ZP!Holders(h)
            /\ zp_task' = [zp_task EXCEPT ![w] = zp_Nobody]
            /\ zp_outcome' \in [zp_Tasks -> {"none", "ran", "expired"}]
            /\ zp_outcome'[h] # "none" /\ \A t \in zp_Tasks \ {h} : zp_outcome'[t] = zp_outcome[t]
        BY <2>3, <3>0 DEF ZP!Run, ZP!TypeOK, ZP!Holders
      <3>2. ZP!Holders(h)' = {}
        BY <2>0, <3>1 DEF ZeroConstants, ZP!OneHolder, ZP!Holders, ZP!TypeOK
      <3>3. \A t \in zp_Tasks \ {h} : ZP!Holders(t)' = ZP!Holders(t)
        BY <3>0, <3>1 DEF ZeroConstants, ZP!Holders, ZP!TypeOK
      <3>4. \A t \in zp_Tasks : ZP!IsTaken(t)' <=> ZP!IsTaken(t)
        BY <3>1 DEF ZP!IsTaken
      <3>5. ZP!IsTaken(h)
        BY <2>0, <3>1 DEF ZP!OneHolder
      <3>6. ZP!OneHolder'
        BY <2>0, <3>1, <3>2, <3>3, <3>4, <3>5 DEF ZP!OneHolder
      <3> QED
        BY <2>0, <3>1, <3>6 DEF ZeroInv, ZP!TakenInOrder, SubmittedOnce
    <2>4. ASSUME UNCHANGED <<zp_taskQ, zp_submitted, zp_taken, zp_task, zp_outcome>>
          PROVE  ZeroInv'
      BY <2>4, <2>0 DEF ZeroInv, ZP!TakenInOrder, SubmittedOnce, ZP!OneHolder, ZP!Holders, ZP!IsTaken
    <2> QED
      BY <2>1, <2>2, <2>3, <2>4
         DEF ZP!Next, ZP!WorkerStep, ZP!WaiterStep, ZP!LoopTest, ZP!GetWait, ZP!GetTerminated,
             ZP!SpuriousWake, ZP!WaitCall, ZP!WaitSleep, ZP!WaitReturn, ZP!WaitTimeout, ZP!StopSignal, ZP!StopJoin, zpVars
  <1>3. ZP!Spec => ZP!Init /\ [][ZP!Next]_zpVars
    BY DEF ZP!Spec, ZP!vars, zpVars
  <1>4. ZP!Spec => []ZP!TypeOK
    BY ZeroTypeCorrect
  <1> QED
    BY <1>1, <1>2, <1>3, <1>4, PTL

\* In every step of exec, of the workers and of stop: get_task hands the tasks out in the
\* order of exec, none is run twice, and none is lost between get_task and its outcome
\* (ZeroThreadPool.h:71, cpp:22-30, cpp:46-49).
THEOREM OneHolderInOrder == ZeroConstants /\ StandaloneSpec => []TasksTakenOnce
  <1>1. StandaloneInit => ZP!Init
    BY DEF StandaloneInit
  <1>2. [StandaloneNext]_allVars => [ZP!Next]_zpVars
    BY DEF StandaloneNext, allVars, mpVars, tcVars, slVars, rbVars, mhVars, tmVars, rxVars,
           zpVars
  <1>3. StandaloneSpec => ZP!Init /\ [][ZP!Next]_zpVars
    BY <1>1, <1>2, PTL DEF StandaloneSpec
  <1>4. ZP!Init /\ [][ZP!Next]_zpVars => ZP!Spec
    BY DEF ZP!Spec, ZP!vars, zpVars
  <1> SUFFICES ASSUME ZeroConstants PROVE StandaloneSpec => []TasksTakenOnce
    OBVIOUS
  <1>5. ZP!Spec => []ZP!TypeOK /\ []ZeroInv
    BY ZeroTypeCorrect, ZeroInvariant
  <1>6. ZP!TypeOK /\ ZeroInv => TasksTakenOnce
    BY DEF ZeroInv, TasksTakenOnce
  <1> QED
    BY <1>3, <1>4, <1>5, <1>6, PTL

\* After stop has set _bTerminate, get_task hands out nothing any more.
THEOREM StopTakesNothing == ZP!Spec => ZP!NothingTakenAfterStop
  <1>1. [ZP!Next]_zpVars => [zp_bTerminate => zp_taken' = zp_taken]_zpVars
    BY DEF ZP!Next, ZP!WorkerStep, ZP!WaiterStep, ZP!Exec, ZP!LoopTest, ZP!GetWait, ZP!GetTerminated,
           ZP!GetTake, ZP!Run, ZP!SpuriousWake, ZP!WaitCall, ZP!WaitSleep, ZP!WaitReturn,
           ZP!WaitTimeout, ZP!StopSignal, ZP!StopJoin, zpVars
  <1>2. ZP!Spec => [][ZP!Next]_zpVars
    BY DEF ZP!Spec, ZP!vars, zpVars
  <1> QED
    BY <1>1, <1>2, PTL DEF ZP!NothingTakenAfterStop, ZP!vars, zpVars
=============================================================================

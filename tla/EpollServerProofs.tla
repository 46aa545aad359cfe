------------------------- MODULE EpollServerProofs -------------------------
(* Proofs that the epoll servers of 09_epoll neither sleep on unread data    *)
(* nor close a connection that still has some, for any number of clients     *)
(* and any amount of data.                                                   *)
EXTENDS EpollServer, TLAPS

-----------------------------------------------------------------------------
(* The inductive invariant. *)

\* The state of the connections, and what the server knows about the one it
\* is working on: only the server closes a connection, so one whose answer is
\* being written is still open.
ConnTypeOK ==
    /\ prog \in Programs
    /\ backlog \in Seq(Clients)
    /\ conn \in [Clients -> {"none", "queued", "open", "unwatched", "closed"}]
    /\ unread \in [Clients -> Nat]
    /\ peer \in [Clients -> {"up", "eof", "reset", "broken"}]
    /\ pc \in {"wait", "handle", "read", "write", "exited", "killed"}
    /\ pc \in {"read", "write"} => fd \in Clients
    /\ pc = "write" => conn[fd] = "open"

\* Only the batch that is being handled has events: epoll_wait overwrites none.
NoEventsWhenWaiting == pc = "wait" => events = {}

\* A hang-up is reported only of a connection whose client has gone.
HangUpOfClient ==
    \A e \in events : e.hup => e.fd \in Clients /\ peer[e.fd] # "up"

\* Something still makes the server read connection c: an arrival that the
\* next epoll_wait reports, an event it has not handled, or its own loop.
Pending(c) ==
    \/ c \in edge
    \/ \E e \in events : e.fd = c
    \/ pc \in {"read", "write"} /\ fd = c

\* As long as the process lives, an edge-triggered server that loops until
\* EAGAIN has not forgotten any connection with data or an end of file.
NothingForgotten ==
    Server.connET /\ Server.loop /\ ~Dead =>
        \A c \in Clients :
            conn[c] = "open" /\ (unread[c] > 0 \/ peer[c] # "up") => Pending(c)

EpollInv ==
    /\ ConnTypeOK
    /\ NoEventsWhenWaiting
    /\ HangUpOfClient
    /\ NothingForgotten
    /\ ClosedAfterLastByte

-----------------------------------------------------------------------------
(* How the four servers are written. *)

\* The further descriptors are not sockets of clients, and the server that
\* closes a connection at a hang-up is not one of the edge-triggered ones.
LEMMA ServerFacts ==
    ASSUME prog \in Programs
    PROVE  /\ Others \subseteq {"udp", "stdin"}
           /\ Others \cap Clients = {} /\ "listen" \notin Clients
           /\ Server.connET => ~Server.rdhup
           /\ Server.check => ~Server.loop
BY EpollAssumption
   DEF Others, Server, Code, epoll_et, tcp_udp, do_two_thing, epollhup

\* The invariant, for the initial states.
LEMMA EpollInit == Init => EpollInv
BY DEF Init, EpollInv, ConnTypeOK, NoEventsWhenWaiting, HangUpOfClient,
       NothingForgotten, ClosedAfterLastByte

\* The invariant is preserved by what clients and the kernel do between two
\* system calls of the server: data and ends reach a connection only while it
\* is queued or open, and an open one is marked as new at each arrival.
LEMMA PeersKeepInv == EpollInv /\ Peers => EpollInv'
<1> SUFFICES ASSUME EpollInv, Peers PROVE EpollInv'
  OBVIOUS
<1> USE DEF EpollInv
<1>1. ASSUME NEW c \in Clients, Connect(c) PROVE EpollInv'
  <2>0. Server' = Server BY <1>1 DEF Connect, Server
  <2>1. ConnTypeOK' BY <1>1 DEF Connect, ConnTypeOK
  <2>2. NoEventsWhenWaiting' /\ HangUpOfClient'
    BY <1>1 DEF Connect, NoEventsWhenWaiting, HangUpOfClient
  <2>3. NothingForgotten'
    BY <1>1, <2>0 DEF Connect, ConnTypeOK, NothingForgotten, Dead, Pending
  <2>4. ClosedAfterLastByte'
    BY <1>1, <2>0 DEF Connect, ConnTypeOK, ClosedAfterLastByte
  <2> QED BY <2>1, <2>2, <2>3, <2>4
<1>2. ASSUME NEW c \in Clients, Send(c) PROVE EpollInv'
  <2>0. Server' = Server BY <1>2 DEF Send, Server
  <2>1. ConnTypeOK' BY <1>2 DEF Send, ConnTypeOK
  <2>2. NoEventsWhenWaiting' /\ HangUpOfClient'
    BY <1>2 DEF Send, NoEventsWhenWaiting, HangUpOfClient
  <2>3. NothingForgotten'
    BY <1>2, <2>0 DEF Send, ConnTypeOK, NothingForgotten, Dead, Pending
  <2>4. ClosedAfterLastByte'
    BY <1>2, <2>0 DEF Send, ConnTypeOK, ClosedAfterLastByte
  <2> QED BY <2>1, <2>2, <2>3, <2>4
<1>3. ASSUME NEW c \in Clients, NEW how \in {"eof", "reset"}, Leave(c, how)
      PROVE  EpollInv'
  <2>0. Server' = Server BY <1>3 DEF Leave, Server
  <2>1. ConnTypeOK' BY <1>3 DEF Leave, ConnTypeOK
  <2>2. NoEventsWhenWaiting' /\ HangUpOfClient'
    BY <1>3 DEF Leave, ConnTypeOK, NoEventsWhenWaiting, HangUpOfClient
  <2>3. NothingForgotten'
    BY <1>3, <2>0 DEF Leave, ConnTypeOK, NothingForgotten, Dead, Pending
  <2>4. ClosedAfterLastByte'
    BY <1>3, <2>0 DEF Leave, ConnTypeOK, ClosedAfterLastByte
  <2> QED BY <2>1, <2>2, <2>3, <2>4
<1>4. ASSUME NEW o \in Others, Arrive(o) PROVE EpollInv'
  BY <1>4 DEF Arrive, ConnTypeOK, NoEventsWhenWaiting, HangUpOfClient,
              NothingForgotten, Dead, Pending, ClosedAfterLastByte, Server
<1>5. ASSUME EndOfInput PROVE EpollInv'
  BY <1>5 DEF EndOfInput, ConnTypeOK, NoEventsWhenWaiting, HangUpOfClient,
              NothingForgotten, Dead, Pending, ClosedAfterLastByte, Server
<1> QED BY <1>1, <1>2, <1>3, <1>4, <1>5 DEF Peers

\* The invariant is preserved by every step of the server.  epoll_wait turns
\* the arrivals into events, an event is dropped only when the server starts
\* to read, and the loop is left only when recv found nothing (ReadLater) or
\* the connection was closed (ReadEnd, ReadClosed).
LEMMA RunKeepsInv == EpollInv /\ Run => EpollInv'
<1> SUFFICES ASSUME EpollInv, Run PROVE EpollInv'
  OBVIOUS
<1> USE DEF EpollInv
<1>0. /\ Others \cap Clients = {} /\ "listen" \notin Clients
      /\ Server.connET => ~Server.rdhup
      /\ Server.check => ~Server.loop
  BY ServerFacts DEF ConnTypeOK
<1>1. ASSUME EpollWait PROVE EpollInv'
  <2>e. PICK S \in SUBSET Reportable :
          /\ events' = {[fd |-> f, hup |-> f \in Clients /\ peer[f] # "up"] : f \in S}
          /\ edge' = {f \in edge \ S : Readable(f)}
    BY <1>1 DEF EpollWait
  <2>0. Server' = Server BY <1>1 DEF EpollWait, kernel, Server
  <2>1. ConnTypeOK' BY <1>1 DEF EpollWait, kernel, ConnTypeOK
  <2>2. NoEventsWhenWaiting' /\ HangUpOfClient'
    <3>1. NoEventsWhenWaiting' BY <1>1 DEF EpollWait, NoEventsWhenWaiting
    <3>2. ASSUME NEW e \in events', e.hup PROVE e.fd \in Clients /\ peer[e.fd] # "up"
      <4>1. PICK f \in S : e = [fd |-> f, hup |-> f \in Clients /\ peer[f] # "up"]
        BY <2>e
      <4>2. e.fd = f /\ e.hup = (f \in Clients /\ peer[f] # "up")
        BY <4>1, Zenon
      <4> QED BY <3>2, <4>2
    <3>3. peer' = peer BY <1>1 DEF EpollWait, kernel
    <3> QED BY <3>1, <3>2, <3>3 DEF HangUpOfClient
  <2>3. NothingForgotten'
    <3> SUFFICES ASSUME Server.connET, Server.loop, NEW c \in Clients,
                        conn[c] = "open", unread[c] > 0 \/ peer[c] # "up"
                 PROVE  Pending(c)'
      BY <1>1, <2>0 DEF EpollWait, kernel, NothingForgotten
    <3>1. c \in edge
      BY <1>1 DEF EpollWait, NothingForgotten, NoEventsWhenWaiting, Dead, Pending
    <3>2. Readable(c) BY <1>0 DEF Readable
    <3>3. CASE c \in S
      <4>1. [fd |-> c, hup |-> c \in Clients /\ peer[c] # "up"] \in events'
        BY <2>e, <3>3
      <4> QED BY <4>1 DEF Pending
    <3>4. CASE c \notin S BY <2>e, <3>1, <3>2, <3>4 DEF Pending
    <3> QED BY <3>3, <3>4
  <2>4. ClosedAfterLastByte'
    BY <1>1, <2>0 DEF EpollWait, kernel, ClosedAfterLastByte
  <2> QED BY <2>1, <2>2, <2>3, <2>4
<1>2. ASSUME HandleEvent PROVE EpollInv'
  <2>e. PICK e \in events :
          /\ events' = events \ {e}
          /\ \/ Accept(e) \/ AcceptFails(e) \/ RegisterFails(e)
             \/ ReadOther(e) \/ StdinClosed(e) \/ OtherFails(e)
             \/ HangUp(e) \/ BeginRead(e)
    BY <1>2 DEF HandleEvent
  <2>p. pc = "handle" BY <1>2 DEF HandleEvent
  <2>0. Server' = Server
    BY <2>e DEF Accept, AcceptFails, RegisterFails, ReadOther, StdinClosed, OtherFails,
                HangUp, BeginRead, kernel, Server
  <2>1. HangUpOfClient'
    <3>1. peer' = peer
      BY <2>e DEF Accept, AcceptFails, RegisterFails, ReadOther, StdinClosed, OtherFails,
                  HangUp, BeginRead, kernel
    <3> QED BY <2>e, <3>1 DEF HangUpOfClient
  <2>2. CASE Accept(e)
    <3>h. Head(backlog) \in Clients /\ Tail(backlog) \in Seq(Clients)
      BY <2>2 DEF Accept, ConnTypeOK
    <3>1. ConnTypeOK' BY <2>2, <2>p, <3>h DEF Accept, ConnTypeOK
    <3>2. NoEventsWhenWaiting' BY <2>2, <2>p DEF Accept, NoEventsWhenWaiting
    <3>3. NothingForgotten'
      BY <2>2, <2>p, <2>e, <2>0, <1>0, <3>h
         DEF Accept, ConnTypeOK, NothingForgotten, Dead, Pending
    <3>4. ClosedAfterLastByte'
      BY <2>2, <2>0, <3>h DEF Accept, ConnTypeOK, ClosedAfterLastByte
    <3> QED BY <2>1, <3>1, <3>2, <3>3, <3>4
  <2>3. CASE ReadOther(e)
    <3>1. ConnTypeOK' BY <2>3, <2>p DEF ReadOther, ConnTypeOK
    <3>2. NoEventsWhenWaiting' BY <2>3, <2>p DEF ReadOther, NoEventsWhenWaiting
    <3>3. NothingForgotten'
      BY <2>3, <2>p, <2>e, <2>0, <1>0 DEF ReadOther, NothingForgotten, Dead, Pending
    <3>4. ClosedAfterLastByte'
      BY <2>3, <2>0 DEF ReadOther, ClosedAfterLastByte
    <3> QED BY <2>1, <3>1, <3>2, <3>3, <3>4
  <2>4. CASE StdinClosed(e)
    <3>1. ConnTypeOK' BY <2>4, <2>p DEF StdinClosed, kernel, ConnTypeOK
    <3>2. NoEventsWhenWaiting' BY <2>4 DEF StdinClosed, NoEventsWhenWaiting
    <3>3. NothingForgotten' BY <2>4 DEF StdinClosed, NothingForgotten, Dead
    <3>4. ClosedAfterLastByte'
      BY <2>4, <2>0 DEF StdinClosed, kernel, ClosedAfterLastByte
    <3> QED BY <2>1, <3>1, <3>2, <3>3, <3>4
  <2>7. CASE AcceptFails(e)
    <3>1. ConnTypeOK' BY <2>7, <2>p DEF AcceptFails, kernel, ConnTypeOK
    <3>2. NoEventsWhenWaiting' BY <2>7, <2>p DEF AcceptFails, NoEventsWhenWaiting
    <3>3. NothingForgotten'
      BY <2>7, <2>p, <2>e, <2>0, <1>0
         DEF AcceptFails, kernel, NothingForgotten, Dead, Pending
    <3>4. ClosedAfterLastByte' BY <2>7, <2>0 DEF AcceptFails, kernel, ClosedAfterLastByte
    <3> QED BY <2>1, <3>1, <3>2, <3>3, <3>4
  <2>8. CASE RegisterFails(e)
    <3>h. Head(backlog) \in Clients /\ Tail(backlog) \in Seq(Clients)
      BY <2>8 DEF RegisterFails, ConnTypeOK
    <3>1. ConnTypeOK' BY <2>8, <2>p, <3>h DEF RegisterFails, ConnTypeOK
    <3>2. NoEventsWhenWaiting' BY <2>8, <2>p DEF RegisterFails, NoEventsWhenWaiting
    <3>3. NothingForgotten'
      BY <2>8, <2>p, <2>e, <2>0, <1>0, <3>h
         DEF RegisterFails, ConnTypeOK, NothingForgotten, Dead, Pending
    <3>4. ClosedAfterLastByte'
      BY <2>8, <2>0, <3>h DEF RegisterFails, ConnTypeOK, ClosedAfterLastByte
    <3> QED BY <2>1, <3>1, <3>2, <3>3, <3>4
  <2>9. CASE OtherFails(e)
    <3>1. ConnTypeOK' BY <2>9, <2>p DEF OtherFails, kernel, ConnTypeOK
    <3>2. NoEventsWhenWaiting' BY <2>9, <2>p DEF OtherFails, NoEventsWhenWaiting
    <3>3. NothingForgotten'
      BY <2>9, <2>p, <2>e, <2>0, <1>0
         DEF OtherFails, kernel, NothingForgotten, Dead, Pending
    <3>4. ClosedAfterLastByte' BY <2>9, <2>0 DEF OtherFails, kernel, ClosedAfterLastByte
    <3> QED BY <2>1, <3>1, <3>2, <3>3, <3>4
  <2>5. CASE HangUp(e)
    <3>h. e.fd \in Clients /\ peer[e.fd] # "up" BY <2>5, <2>e DEF HangUp, HangUpOfClient
    <3>1. ConnTypeOK' BY <2>5, <2>p, <3>h DEF HangUp, ConnTypeOK
    <3>2. NoEventsWhenWaiting' BY <2>5, <2>p DEF HangUp, NoEventsWhenWaiting
    <3>3. NothingForgotten' BY <2>5, <2>0, <1>0 DEF HangUp, NothingForgotten
    <3>4. ClosedAfterLastByte'
      BY <2>5, <2>0, <3>h DEF HangUp, ConnTypeOK, ClosedAfterLastByte
    <3> QED BY <2>1, <3>1, <3>2, <3>3, <3>4
  <2>6. CASE BeginRead(e)
    <3>1. ConnTypeOK' BY <2>6 DEF BeginRead, kernel, ConnTypeOK
    <3>2. NoEventsWhenWaiting' BY <2>6 DEF BeginRead, NoEventsWhenWaiting
    <3>3. NothingForgotten'
      BY <2>6, <2>p, <2>e, <2>0 DEF BeginRead, kernel, NothingForgotten, Dead, Pending
    <3>4. ClosedAfterLastByte'
      BY <2>6, <2>0 DEF BeginRead, kernel, ClosedAfterLastByte
    <3> QED BY <2>1, <3>1, <3>2, <3>3, <3>4
  <2> QED BY <2>e, <2>2, <2>3, <2>4, <2>5, <2>6, <2>7, <2>8, <2>9
<1>3. ASSUME BatchDone PROVE EpollInv'
  BY <1>3 DEF BatchDone, kernel, ConnTypeOK, NoEventsWhenWaiting,
              HangUpOfClient, NothingForgotten, Dead, Pending, ClosedAfterLastByte, Server
<1>4. ASSUME ReadChunk PROVE EpollInv'
  <2>0. Server' = Server BY <1>4 DEF ReadChunk, Server
  <2>1. ConnTypeOK' BY <1>4 DEF ReadChunk, AfterRead, ConnTypeOK
  <2>2. NoEventsWhenWaiting' /\ HangUpOfClient'
    BY <1>4 DEF ReadChunk, AfterRead, NoEventsWhenWaiting, HangUpOfClient
  <2>3. NothingForgotten'
    BY <1>4, <2>0 DEF ReadChunk, AfterRead, ConnTypeOK, NothingForgotten, Dead, Pending
  <2>4. ClosedAfterLastByte'
    BY <1>4, <2>0 DEF ReadChunk, ConnTypeOK, ClosedAfterLastByte
  <2> QED BY <2>1, <2>2, <2>3, <2>4
<1>5. ASSUME WriteBack PROVE EpollInv'
  <2>0. Server' = Server
    BY <1>5 DEF WriteBack, Answer, AnswerFails, AnswerBlocks, AnswerKills, kernel, Server
  <2>1. ConnTypeOK'
    BY <1>5 DEF WriteBack, Answer, AnswerFails, AnswerBlocks, AnswerKills, AfterRead, kernel,
                ConnTypeOK
  <2>2. NoEventsWhenWaiting' /\ HangUpOfClient'
    BY <1>5 DEF WriteBack, Answer, AnswerFails, AnswerBlocks, AnswerKills, AfterRead,
                kernel, ConnTypeOK, NoEventsWhenWaiting, HangUpOfClient
  <2>3. NothingForgotten'
    BY <1>5, <2>0, <1>0
       DEF WriteBack, Answer, AnswerFails, AnswerBlocks, AnswerKills, AfterRead, ConnTypeOK,
           NothingForgotten, Dead, Pending
  <2>4. ClosedAfterLastByte'
    BY <1>5, <2>0
       DEF WriteBack, Answer, AnswerFails, AnswerBlocks, AnswerKills, kernel, ConnTypeOK,
           ClosedAfterLastByte
  <2> QED BY <2>1, <2>2, <2>3, <2>4
<1>6. ASSUME ReadEnd PROVE EpollInv'
  <2>0. Server' = Server BY <1>6 DEF ReadEnd, Server
  <2>1. ConnTypeOK' BY <1>6 DEF ReadEnd, ConnTypeOK
  <2>2. NoEventsWhenWaiting' /\ HangUpOfClient'
    BY <1>6 DEF ReadEnd, NoEventsWhenWaiting, HangUpOfClient
  <2>3. NothingForgotten'
    BY <1>6, <2>0, <1>0 DEF ReadEnd, ConnTypeOK, NothingForgotten, Dead, Pending
  <2>4. ClosedAfterLastByte'
    BY <1>6, <2>0 DEF ReadEnd, ConnTypeOK, ClosedAfterLastByte
  <2> QED BY <2>1, <2>2, <2>3, <2>4
<1>7. ASSUME ReadClosed \/ ReadLater PROVE EpollInv'
  <2>0. Server' = Server BY <1>7 DEF ReadClosed, ReadLater, kernel, Server
  <2>1. ConnTypeOK' BY <1>7 DEF ReadClosed, ReadLater, kernel, ConnTypeOK
  <2>2. NoEventsWhenWaiting' /\ HangUpOfClient'
    BY <1>7 DEF ReadClosed, ReadLater, kernel, NoEventsWhenWaiting, HangUpOfClient
  <2>3. NothingForgotten'
    BY <1>7, <2>0
       DEF ReadClosed, ReadLater, kernel, ConnTypeOK, NothingForgotten, Dead, Pending
  <2>4. ClosedAfterLastByte'
    BY <1>7, <2>0 DEF ReadClosed, ReadLater, kernel, ClosedAfterLastByte
  <2> QED BY <2>1, <2>2, <2>3, <2>4
<1> QED BY <1>1, <1>2, <1>3, <1>4, <1>5, <1>6, <1>7 DEF Run

\* The invariant holds in every behaviour.
LEMMA EpollInvariant == Spec => []EpollInv
<1>1. EpollInv /\ [Next]_vars => EpollInv'
  <2> SUFFICES ASSUME EpollInv, [Next]_vars PROVE EpollInv'
    OBVIOUS
  <2>1. CASE Run \/ Peers BY <2>1, PeersKeepInv, RunKeepsInv
  <2>3. CASE EpollWaitFails
    BY <2>3 DEF EpollWaitFails, kernel, EpollInv, ConnTypeOK, NoEventsWhenWaiting,
                HangUpOfClient, NothingForgotten, Dead, ClosedAfterLastByte, Server
  <2>2. CASE UNCHANGED vars
    BY <2>2 DEF vars, kernel, EpollInv, ConnTypeOK, NoEventsWhenWaiting,
                HangUpOfClient, NothingForgotten, Dead, Pending, ClosedAfterLastByte,
                Server
  <2> QED BY <2>1, <2>2, <2>3 DEF Next
<1> QED BY EpollInit, <1>1, PTL DEF Spec

\* The edge-triggered servers that loop until EAGAIN (02_epoll_et.c, tcp_udp.c)
\* and the level-triggered one (epollhup.c) never sleep in epoll_wait on data
\* or an end of file, however arrivals interleave with their system calls.
THEOREM ConnectionsAlwaysDrained == Spec => []ConnectionsDrained
<1>1. EpollInv => ConnectionsDrained
  <2> SUFFICES ASSUME EpollInv, Asleep, Server.connET => Server.loop,
                      NEW c \in Clients, conn[c] = "open",
                      ~(unread[c] = 0 /\ peer[c] = "up")
               PROVE  FALSE
    BY DEF ConnectionsDrained
  <2> USE DEF EpollInv
  <2>0. Others \cap Clients = {} /\ "listen" \notin Clients
    BY ServerFacts DEF ConnTypeOK
  <2>1. unread[c] > 0 \/ peer[c] # "up" BY DEF ConnTypeOK
  <2>2. Readable(c) BY <2>0, <2>1 DEF Readable
  <2>3. EdgeTriggered(c) => c \in edge
    <3>1. EdgeTriggered(c) = Server.connET BY <2>0 DEF EdgeTriggered
    <3> QED
      BY <3>1, <2>1 DEF Asleep, NothingForgotten, NoEventsWhenWaiting, Dead, Pending
  <2>4. c \in Reportable BY <2>2, <2>3 DEF Reportable, Fds
  <2> QED BY <2>4 DEF Asleep
<1> QED BY <1>1, EpollInvariant, PTL

\* No server closes a connection with unread data, except after a reset, in
\* epollhup.c at a hang-up, and in do_two_thing_epoll.c and epollhup.c after a
\* failed epoll_ctl or write on this very connection.
THEOREM AlwaysClosedAfterLastByte == Spec => []ClosedAfterLastByte
<1>1. EpollInv => ClosedAfterLastByte BY DEF EpollInv
<1> QED BY <1>1, EpollInvariant, PTL
=============================================================================

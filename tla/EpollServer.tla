----------------------------- MODULE EpollServer -----------------------------
(* The single-threaded epoll servers of 09_epoll: 02_epoll_et.c, tcp_udp.c, *)
(* do_two_thing_epoll.c and epollhup.c.  They share one control structure,  *)
(* epoll_wait followed by a loop over the reported events, and differ in    *)
(* which descriptors are edge-triggered, in whether a reported connection   *)
(* is read in a loop or once, and in the descriptors they watch beside the  *)
(* listening socket.  The clients and the kernel act between any two system *)
(* calls of the server.                                                     *)
EXTENDS Naturals, Sequences, FiniteSets

CONSTANTS
    Clients,   \* the peers; a client is also the descriptor of its socket
    MaxData,   \* bound on the chunks a client sends
    MaxInput,  \* bound on the datagrams, or the lines on stdin
    MaxEvents, \* MAX_EVENTS, MAX_EVENT_NUMBER: the events one epoll_wait returns
    Programs   \* the servers to start from, by the names below

ASSUME EpollAssumption ==
    /\ MaxData \in Nat /\ MaxInput \in Nat /\ MaxEvents \in Nat \ {0}
    /\ Programs \subseteq {"epoll_et", "tcp_udp", "do_two_thing", "epollhup"}
    /\ Clients \cap {"listen", "udp", "stdin"} = {}

-----------------------------------------------------------------------------
(* The four servers.  listenET, connET: the sockets are registered with     *)
(* EPOLLET; loop: a connection is read until EAGAIN; rdhup: a hang-up is    *)
(* handled before EPOLLIN; echo: data is written back; check: a failed      *)
(* epoll_ctl or write closes the connection; others: further descriptors    *)
(* watched.                                                                  *)

epoll_et ==
    [listenET |-> TRUE, connET |-> TRUE, loop |-> TRUE, rdhup |-> FALSE,
     echo |-> FALSE, check |-> FALSE, others |-> {}]

tcp_udp ==
    [listenET |-> TRUE, connET |-> TRUE, loop |-> TRUE, rdhup |-> FALSE,
     echo |-> TRUE, check |-> FALSE, others |-> {"udp"}]

do_two_thing ==
    [listenET |-> FALSE, connET |-> TRUE, loop |-> FALSE, rdhup |-> FALSE,
     echo |-> TRUE, check |-> TRUE, others |-> {"stdin"}]

epollhup ==
    [listenET |-> FALSE, connET |-> FALSE, loop |-> FALSE, rdhup |-> TRUE,
     echo |-> FALSE, check |-> TRUE, others |-> {}]

Code(p) ==
    CASE p = "epoll_et"     -> epoll_et
      [] p = "tcp_udp"      -> tcp_udp
      [] p = "do_two_thing" -> do_two_thing
      [] p = "epollhup"     -> epollhup

VARIABLES
    prog,     \* the server that runs
    backlog,  \* connections that wait in the queue of listen()
    conn,     \* "none", "queued", "open", "unwatched" (accepted but not
              \* registered) or "closed", for every client
    unread,   \* chunks in the receive buffer of every connection
    peer,     \* "up", "eof" (closed or half-closed), "reset", or "broken" (an
              \* answer came back as a reset or failed), for every client
    input,    \* unread datagrams or lines on the other descriptors
    ended,    \* stdin is at end of file
    sent,     \* chunks sent so far on every descriptor (history)
    failed,   \* clients whose connection epoll_ctl or write failed on (history)
    edge,     \* descriptors with a new arrival not yet reported
    behind,   \* descriptors that did not fit into the events of epoll_wait
    pc,       \* "wait", "handle", "read", "write", "exited", "killed"
    events,   \* reported events still to be handled
    fd        \* the connection being read

kernel == <<prog, backlog, conn, unread, peer, input, ended, sent, failed>>
vars == <<kernel, edge, behind, pc, events, fd>>

\* How the running server is written.
Server == Code(prog)

Others == Server.others

Fds == Clients \cup {"listen"} \cup Others

Init ==
    /\ prog \in Programs
    /\ backlog = << >>
    /\ conn = [c \in Clients |-> "none"]
    /\ unread = [c \in Clients |-> 0]
    /\ peer = [c \in Clients |-> "up"]
    /\ input = [o \in Others |-> 0]
    /\ ended = FALSE
    /\ sent = [f \in Clients \cup Others |-> 0]
    /\ failed = {}
    /\ edge = {}
    /\ behind = {}
    /\ pc = "wait"
    /\ events = {}
    /\ fd = "listen"

-----------------------------------------------------------------------------
(* Kernel and peers. *)

Readable(f) ==
    CASE f = "listen" -> backlog # << >>
      [] f \in Others -> input[f] > 0 \/ (f = "stdin" /\ ended)
      [] OTHER        -> conn[f] = "open" /\ (unread[f] > 0 \/ peer[f] # "up")

EdgeTriggered(f) ==
    CASE f = "listen" -> Server.listenET
      [] f \in Others -> f = "udp"
      [] OTHER        -> Server.connET

\* What epoll_wait reports: an edge-triggered descriptor only after a new
\* arrival, a level-triggered one as long as it is readable.
Reportable == {f \in Fds : Readable(f) /\ (EdgeTriggered(f) => f \in edge)}

Connect(c) ==
    /\ conn[c] = "none"
    /\ conn' = [conn EXCEPT ![c] = "queued"]
    /\ backlog' = Append(backlog, c)
    /\ edge' = edge \cup {"listen"}
    /\ UNCHANGED <<behind, prog, unread, peer, input, ended, sent, failed, pc, events, fd>>

\* A client sends a chunk, also before it is accepted.
Send(c) ==
    /\ conn[c] \in {"queued", "open", "unwatched"}
    /\ peer[c] = "up"
    /\ sent[c] < MaxData
    /\ sent' = [sent EXCEPT ![c] = @ + 1]
    /\ unread' = [unread EXCEPT ![c] = @ + 1]
    /\ edge' = IF conn[c] = "open" THEN edge \cup {c} ELSE edge
    /\ UNCHANGED <<behind, prog, backlog, conn, peer, input, ended, failed, pc, events, fd>>

\* A client shuts its connection down, or resets it, which may discard data
\* that the server has not read.
Leave(c, how) ==
    /\ conn[c] \in {"queued", "open", "unwatched"}
    /\ peer[c] = "up"
    /\ peer' = [peer EXCEPT ![c] = how]
    /\ \/ UNCHANGED unread
       \/ how = "reset" /\ unread' = [unread EXCEPT ![c] = 0]
    /\ edge' = IF conn[c] = "open" THEN edge \cup {c} ELSE edge
    /\ UNCHANGED <<behind, prog, backlog, conn, input, ended, sent, failed, pc, events, fd>>

\* A datagram or a line arrives.
Arrive(o) ==
    /\ sent[o] < MaxInput
    /\ o = "stdin" => ~ended
    /\ sent' = [sent EXCEPT ![o] = @ + 1]
    /\ input' = [input EXCEPT ![o] = @ + 1]
    /\ edge' = edge \cup {o}
    /\ UNCHANGED <<behind, prog, backlog, conn, unread, peer, ended, failed, pc, events, fd>>

EndOfInput ==
    /\ "stdin" \in Others
    /\ ~ended
    /\ ended' = TRUE
    /\ UNCHANGED <<behind, prog, backlog, conn, unread, peer, input, sent, failed, edge, pc,
                   events, fd>>

-----------------------------------------------------------------------------
(* The server. *)

\* The descriptors that the next epoll_wait reports before others.
First == behind \cap Reportable

\* epoll_wait returns the reportable descriptors, MaxEvents at most, taken from
\* a queue: those that did not fit the last time come first.  hup tells whether
\* an event carries EPOLLRDHUP or EPOLLHUP.
EpollWait ==
    /\ pc = "wait"
    /\ \E S \in SUBSET Reportable :
         /\ S # {} /\ Cardinality(S) <= MaxEvents
         /\ S = Reportable \/ Cardinality(S) = MaxEvents
         /\ events' = {[fd |-> f, hup |-> f \in Clients /\ peer[f] # "up"] : f \in S}
         /\ edge' = {f \in edge \ S : Readable(f)}
         /\ S \subseteq First \/ First \subseteq S
         /\ behind' = IF First \subseteq S THEN Reportable \ S ELSE First \ S
    /\ pc' = "handle"
    /\ UNCHANGED <<kernel, fd>>

\* epoll_wait fails, interrupted by a signal for instance: the program ends.
EpollWaitFails ==
    /\ pc = "wait"
    /\ pc' = "exited"
    /\ UNCHANGED <<behind, kernel, edge, events, fd>>

\* accept() once, then register the connection: a socket that already has
\* data is reported by the next epoll_wait.
Accept(e) ==
    /\ e.fd = "listen"
    /\ backlog # << >>
    /\ conn' = [conn EXCEPT ![Head(backlog)] = "open"]
    /\ backlog' = Tail(backlog)
    /\ edge' = edge \cup {Head(backlog)}
    /\ UNCHANGED <<behind, prog, unread, peer, input, ended, sent, failed, pc, fd>>

\* accept() fails and leaves the connection in the queue.
AcceptFails(e) ==
    /\ e.fd = "listen"
    /\ UNCHANGED <<behind, kernel, edge, pc, fd>>

\* epoll_ctl() fails for the new connection, which is closed or, where the
\* result is not looked at, kept without ever being watched.
RegisterFails(e) ==
    /\ e.fd = "listen"
    /\ backlog # << >>
    /\ conn' = [conn EXCEPT ![Head(backlog)] = IF Server.check THEN "closed" ELSE "unwatched"]
    /\ failed' = failed \cup {Head(backlog)}
    /\ backlog' = Tail(backlog)
    /\ UNCHANGED <<behind, prog, unread, peer, input, ended, sent, edge, pc, fd>>

\* One datagram, or one line, is read and answered.
ReadOther(e) ==
    /\ e.fd \in Others
    /\ input[e.fd] > 0
    /\ input' = [input EXCEPT ![e.fd] = @ - 1]
    /\ UNCHANGED <<behind, prog, backlog, conn, unread, peer, ended, sent, failed, edge, pc, fd>>

\* Fault: end of file on stdin is ignored.
StdinClosedFault(e) ==
    /\ e.fd = "stdin"
    /\ input["stdin"] = 0
    /\ UNCHANGED <<behind, kernel, edge, pc, fd>>

\* End of file on stdin ends the program.
StdinClosed(e) ==
    /\ e.fd = "stdin"
    /\ input["stdin"] = 0
    /\ pc' = "exited"
    /\ UNCHANGED <<behind, kernel, edge, fd>>

\* A failed read() of stdin ends the program, a failed recvfrom() is ignored.
OtherFails(e) ==
    /\ e.fd \in Others
    /\ pc' = IF e.fd = "stdin" THEN "exited" ELSE pc
    /\ UNCHANGED <<behind, kernel, edge, fd>>

\* The branch of epollhup.c that comes before EPOLLIN: the socket is closed
\* whatever is left to read.
HangUp(e) ==
    /\ Server.rdhup
    /\ e.hup
    /\ conn' = [conn EXCEPT ![e.fd] = "closed"]
    /\ UNCHANGED <<behind, prog, backlog, unread, peer, input, ended, sent, failed, edge, pc, fd>>

BeginRead(e) ==
    /\ e.fd \in Clients
    /\ ~(Server.rdhup /\ e.hup)
    /\ fd' = e.fd
    /\ pc' = "read"
    /\ UNCHANGED <<behind, kernel, edge>>

HandleEvent ==
    /\ pc = "handle"
    /\ \E e \in events :
         /\ events' = events \ {e}
         /\ \/ Accept(e) \/ AcceptFails(e) \/ RegisterFails(e)
            \/ ReadOther(e) \/ StdinClosed(e) \/ OtherFails(e)
            \/ HangUp(e) \/ BeginRead(e)

\* The batch is done; wait for the next one.
BatchDone ==
    /\ pc = "handle"
    /\ events = {}
    /\ pc' = "wait"
    /\ UNCHANGED <<behind, kernel, edge, events, fd>>

\* Fault: one recv per event.
AfterReadFault == "handle"

\* Where the server goes on after a chunk.
AfterRead == IF Server.loop THEN "read" ELSE "handle"

\* recv returns data, which the server prints or sends back.
ReadChunk ==
    /\ pc = "read"
    /\ conn[fd] = "open"
    /\ unread[fd] > 0
    /\ unread' = [unread EXCEPT ![fd] = @ - 1]
    /\ pc' = IF Server.echo THEN "write" ELSE AfterRead
    /\ UNCHANGED <<behind, prog, backlog, conn, peer, input, ended, sent, failed, edge, events, fd>>

\* The answer is written, or dropped by a server that does not look at the
\* result; a client that has closed both directions answers it
\* with a reset, one that has only shut down its own direction does not.
Answer ==
    /\ pc = "write"
    /\ peer[fd] \in {"up", "eof"}
    /\ \/ UNCHANGED <<peer, edge>>
       \/ /\ peer[fd] = "eof"
          /\ peer' = [peer EXCEPT ![fd] = "broken"]
          /\ edge' = edge \cup {fd}
    /\ pc' = AfterRead
    /\ UNCHANGED <<behind, prog, backlog, conn, unread, input, ended, sent, failed, events, fd>>

\* The client reset the connection since the read: the write fails and the
\* connection is closed, or the failure is ignored.
AnswerFails ==
    /\ pc = "write"
    /\ peer[fd] = "reset"
    /\ IF Server.check
       THEN conn' = [conn EXCEPT ![fd] = "closed"] /\ UNCHANGED peer
       ELSE peer' = [peer EXCEPT ![fd] = "broken"] /\ UNCHANGED conn
    /\ pc' = AfterRead
    /\ UNCHANGED <<behind, prog, backlog, unread, input, ended, sent, failed, edge, events, fd>>

\* The connection is not blocking: when the client does not read its answers,
\* the write fails with EAGAIN, and a server that looks closes the connection.
AnswerBlocks ==
    /\ pc = "write"
    /\ peer[fd] \in {"up", "eof"}
    /\ Server.check
    /\ conn' = [conn EXCEPT ![fd] = "closed"]
    /\ failed' = failed \cup {fd}
    /\ pc' = AfterRead
    /\ UNCHANGED <<behind, prog, backlog, unread, peer, input, ended, sent, edge, events, fd>>

\* Writing to a connection that an earlier answer found broken raises SIGPIPE, which
\* no server handles: the process ends.
AnswerKills ==
    /\ pc = "write"
    /\ peer[fd] = "broken"
    /\ pc' = "killed"
    /\ UNCHANGED <<behind, kernel, edge, events, fd>>

WriteBack == Answer \/ AnswerFails \/ AnswerBlocks \/ AnswerKills

\* Fault: end of file is taken for "nothing to read yet".
ReadEndFault ==
    /\ pc = "read"
    /\ conn[fd] = "open"
    /\ unread[fd] = 0
    /\ peer[fd] # "up"
    /\ pc' = "handle"
    /\ UNCHANGED <<behind, kernel, edge, events, fd>>

\* Fault: the connection is closed when the peer is known to be gone, whatever
\* is left to read.
ReadEndEarly ==
    /\ pc = "read"
    /\ conn[fd] = "open"
    /\ peer[fd] # "up"
    /\ conn' = [conn EXCEPT ![fd] = "closed"]
    /\ pc' = "handle"
    /\ UNCHANGED <<behind, prog, backlog, unread, peer, input, ended, sent, failed, edge,
                   events, fd>>

\* recv returns 0 or an error other than EAGAIN: the socket is closed, except
\* that epollhup.c leaves a failed read to the hang-up event that follows.  The
\* looping servers break out of the loop only on an error, so after an end of
\* file they call recv on the closed descriptor.
ReadEnd ==
    /\ pc = "read"
    /\ conn[fd] = "open"
    /\ unread[fd] = 0
    /\ peer[fd] # "up"
    /\ conn' = IF Server.rdhup /\ peer[fd] = "reset" THEN conn
               ELSE [conn EXCEPT ![fd] = "closed"]
    /\ pc' = IF Server.loop /\ peer[fd] # "reset" THEN "read" ELSE "handle"
    /\ UNCHANGED <<behind, prog, backlog, unread, peer, input, ended, sent, failed, edge,
                   events, fd>>

\* recv on the closed descriptor fails with EBADF; the second close fails too
\* and the loop ends.
ReadClosed ==
    /\ pc = "read"
    /\ conn[fd] = "closed"
    /\ pc' = "handle"
    /\ UNCHANGED <<behind, kernel, edge, events, fd>>

\* recv fails with EAGAIN.
ReadLater ==
    /\ pc = "read"
    /\ conn[fd] = "open"
    /\ unread[fd] = 0
    /\ peer[fd] = "up"
    /\ pc' = "handle"
    /\ UNCHANGED <<behind, kernel, edge, events, fd>>

Run ==
    \/ EpollWait \/ HandleEvent \/ BatchDone
    \/ ReadChunk \/ WriteBack \/ ReadEnd \/ ReadClosed \/ ReadLater

Peers ==
    \/ \E c \in Clients :
         Connect(c) \/ Send(c) \/ \E how \in {"eof", "reset"} : Leave(c, how)
    \/ \E o \in Others : Arrive(o)
    \/ EndOfInput

\* The server process has ended; what its clients do then is not followed.
Dead == pc \in {"exited", "killed"}

Next == Run \/ EpollWaitFails \/ (~Dead /\ Peers)

\* The server process runs whenever it is not blocked in epoll_wait.
Spec == Init /\ [][Next]_vars /\ WF_vars(Run)

-----------------------------------------------------------------------------
(* Properties. *)

\* The server sleeps in epoll_wait and nothing will wake it up.
Asleep == pc = "wait" /\ Reportable = {}

\* A server that reads until EAGAIN, or is level-triggered, never goes to
\* sleep on data or on an end of file that it has not read, at any
\* interleaving of arrivals with its system calls.
ConnectionsDrained ==
    Asleep /\ (Server.connET => Server.loop) =>
        \A c \in Clients : conn[c] = "open" => unread[c] = 0 /\ peer[c] = "up"

\* What the comment on edge triggering asks for (12_aio/epoll_nonblocking.c):
\* everything is taken before the next epoll_wait, so that the server never
\* goes to sleep while a connection, a datagram or data waits for it.
SleepsOnlyWhenDrained == Asleep => \A f \in Fds : ~Readable(f)

\* A connection is closed while data of it is unread only when its client reset
\* it, or when a hang-up came first (epollhup.c), or, in the two servers that
\* look at the results, when epoll_ctl or write failed on this connection: a
\* client of do_two_thing_epoll.c that does not read its answers is cut off.
ClosedAfterLastByte ==
    \A c \in Clients :
        conn[c] = "closed" /\ unread[c] > 0 =>
            \/ peer[c] = "reset"
            \/ Server.rdhup /\ peer[c] # "up"
            \/ Server.check /\ c \in failed

\* Every connection that was registered and that its client has shut down is
\* closed by the server, except by the one that reads an edge-triggered
\* connection only once.
DisconnectsNoticed ==
    \A c \in Clients :
        (conn[c] = "open" /\ peer[c] # "up" /\ (Server.connET => Server.loop))
          ~> (conn[c] = "closed" \/ Dead)

\* End of file on stdin ends the server, whatever the clients do meanwhile.
StdinEndsServer == ended ~> Dead
=============================================================================

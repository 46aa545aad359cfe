------------------------------ MODULE Processes ------------------------------
(* Processes that run the programs of module Programs over the kernel's      *)
(* pipes, stream and datagram sockets, signals and child states.  One run    *)
(* of the machine is one program (prog) with the peers it is used with;      *)
(* every system call is one step.  Process 0 is the program's main, 1, 2, .. *)
(* are its children or threads in the order of creation, 11, 12, .. are      *)
(* processes that were started separately.                                   *)
EXTENDS Programs, SequencesExt, FiniteSetsExt

CONSTANTS
    Runs,       \* the programs that are run, names of the table Setup
    Cap,        \* how many messages a pipe or a socket buffer holds
    MaxLines    \* how many lines are typed at the terminals of the two peers:
                \* the pairs of bounds to try, for each program

ASSUME CapAssumption == Cap \in Nat \ {0}
ASSUME LinesAssumption == MaxLines \in [Runs -> SUBSET ((0 .. 3) \X (0 .. 3))]

VARIABLES
    prog,       \* the program that is run
    proc,       \* the state of each process, see Start
    fds,        \* the descriptor table of each process
    chan,       \* the bytes in each pipe, file, or direction of a connection
    cond,       \* what happened to the end that reads a channel of a connection
    backlog,    \* connections that were not accepted yet
    forks,      \* how many children or threads were created
    count,      \* numDone, reclaim_num
    timer,      \* the interval timer
    aio,        \* the asynchronous read request
    failed,     \* history: some call of the kernel failed
    lost        \* history: a signal merged with a pending one or came just
                \* before pause(), or a datagram was lost

vars == << prog, proc, fds, chan, cond, backlog, forks, count, timer, aio,
           failed, lost >>

-----------------------------------------------------------------------------
(* The programs: main, and the processes started separately. *)

Bodies ==
    [pipe_test |-> pipe_test, pipe_test_child |-> pipe_test_child,
     two_pipe |-> two_pipe, two_pipe_A |-> two_pipe_A,
     two_pipe_B |-> two_pipe_B, two_pipe_C |-> two_pipe_C,
     pipe_fork_exec |-> pipe_fork_exec,
     pipe_fork_exec_child |-> pipe_fork_exec_child, command |-> command,
     loud_command |-> loud_command, no_command |-> no_command,
     popen_test |-> popen_test, popen_child |-> popen_child, A |-> A,
     myshell |-> myshell, cat |-> cat, wc |-> wc,
     myshell_cat |-> myshell_child("f", "p1", "cat"),
     myshell_wc |-> myshell_child("p0", "q1", "wc"),
     myshell_cat2 |-> myshell_child("g", "r1", "cat"),
     myshell_wc2 |-> myshell_child("r0", "s1", "wc"),
     sigpipe_a |-> sigpipe_a, sigpipe_b |-> sigpipe_b,
     sigpipe_b_child |-> sigpipe_b_child, worker |-> worker,
     five_children |-> five_children, multi_process |-> multi_process,
     two_fork_in_if |-> two_fork_in_if, signal_handler |-> signal_handler,
     fork_sigprocmask |-> fork_sigprocmask,
     fork_sigprocmask_child |-> fork_sigprocmask_child,
     sigaction_usr |-> sigaction_usr, alarm_test |-> alarm_test,
     setitimer_test |-> setitimer_test, setitimer_test2 |-> setitimer_test2,
     aio_thread |-> aio_thread,
     aio_completion_handler |-> aio_completion_handler,
     aio_signal |-> aio_signal, server |-> server,
     tcp_socket_server |-> tcp_socket_server, multiprocess |-> multiprocess,
     multiprocess_child |-> multiprocess_child, multithread |-> multithread,
     do_work |-> do_work, uds_server |-> uds_server, client |-> client, nc |-> nc,
     tcp_socket_client |-> tcp_socket_client, uds_client |-> uds_client,
     handle_udp_msg |-> handle_udp_msg, udp_msg_sender |-> udp_msg_sender,
     two_phase_commit |-> two_phase_commit,
     votes_ready |-> participant(<< "READY" >>),
     votes_in_pieces |-> participant(<< "REA", "DY" >>),
     votes_no |-> participant(<< "NO" >>)]

\* The programs with peers; the others are run alone.  client.c knows one port
\* only, on which multithread.c does not listen.
PeersOf(r) ==
    CASE r \in {"server", "multiprocess"} -> << "nc", "client" >>
      [] r = "multithread" -> << "nc", "nc" >>
      [] r = "tcp_socket_server" -> << "tcp_socket_client" >>
      [] r = "uds_server" -> << "uds_client" >>
      [] r = "handle_udp_msg" -> << "udp_msg_sender" >>
      [] r \in {"votes_ready", "votes_in_pieces", "votes_no"} -> << "two_phase_commit" >>
      [] OTHER -> << >>

Peers == {11, 12}
Pids == 0 .. Max({Children, 4})
Procs == Pids \cup Peers

Signals == {"CHLD", "INT", "USR1", "USR2", "ALRM", "PIPE"}
Voting == {"votes_ready", "votes_in_pieces", "votes_no"}
Threaded == prog \in {"multithread", "aio_thread"}
Datagrams == prog = "handle_udp_msg"

\* A channel is the name of a pipe or a file, or a direction of the connection
\* of a peer.
Tty == << "tty", 0 >>
NoChannel == << "none", 0 >>
Pipes == {"p1", "q1", "r1", "s1", "ab1", "ac1", "o1", "e1"} \X {0}
Files == {"f", "g"} \X {0}
Sockets == {"up", "down"} \X Peers
Channels == Pipes \cup Files \cup Sockets
Opposite(k) == << IF k[1] = "up" THEN "down" ELSE "up", k[2] >>

\* A descriptor: the channel it reads and the channel it writes.
End(r, w) == [r |-> r, w |-> w]
Terminal == [f \in {"in", "out", "err"} |->
                IF f = "in" THEN End(Tty, NoChannel) ELSE End(NoChannel, Tty)]
With(table, f, end) == [g \in DOMAIN table \cup {f} |-> IF g = f THEN end ELSE table[g]]
Without(table, f) == [g \in DOMAIN table \ {f} |-> table[g]]

\* A process that is about to take the first step of a body.
Start(b) ==
    [body |-> b, pc |-> 1, life |-> "run", buf |-> << "?" >>, shown |-> << >>,
     sent |-> << >>, lines |-> 0, asleep |-> FALSE, handling |-> FALSE,
     pending |-> {}, masked |-> {}, action |-> [s \in Signals |-> "default"]]

Absent == [Start("worker") EXCEPT !.life = "none"]

InitTable(p) ==
    CASE p = 0 /\ Datagrams ->
           With(Terminal, "u", End(<< "up", 11 >>, << "down", 11 >>))
      [] p = 11 /\ Datagrams ->
           With(Terminal, "u", End(<< "down", 11 >>, << "up", 11 >>))
      [] p = 0 /\ PeersOf(prog) # << >> ->
           With(Terminal, "lfd", End(NoChannel, NoChannel))
      [] OTHER -> Terminal

Init ==
    /\ prog \in Runs
    /\ proc = [p \in Procs |->
                 CASE p = 0 -> Start(prog)
                   [] p > 10 /\ p - 10 \in DOMAIN PeersOf(prog) ->
                        Start(PeersOf(prog)[p - 10])
                   [] OTHER -> Absent]
    /\ fds = [p \in Procs |-> IF proc[p].life = "run" THEN InitTable(p) ELSE << >>]
    /\ chan = [k \in Channels |-> IF k \in Files THEN << "m1" >> ELSE << >>]
    /\ cond = [k \in Sockets |-> "open"]
    /\ backlog = << >> /\ forks = 0 /\ count = 0
    /\ timer = "off" /\ aio = "idle" /\ failed = FALSE /\ lost = FALSE

-----------------------------------------------------------------------------
(* Descriptors and channels. *)

ReadersIn(tables, k) == {p \in Procs : \E f \in DOMAIN tables[p] : tables[p][f].r = k}
WritersIn(tables, k) == {p \in Procs : \E f \in DOMAIN tables[p] : tables[p][f].w = k}
Readers(k) == ReadersIn(fds, k)
Writers(k) == WritersIn(fds, k)
InBacklog(k) == k \in Sockets /\ k[2] \in Range(backlog)
ListenersIn(tables) == {p \in Procs : "lfd" \in DOMAIN tables[p]}

\* The descriptor tables become `tables`.  Closing the last descriptor of a
\* connection that has unread data, or the listening socket with connections
\* in its backlog, resets them.
Tables(tables) ==
    LET refused == IF ListenersIn(tables) = {} THEN Range(backlog) ELSE {}
        closed == {k \in Sockets : Readers(k) # {} /\ ReadersIn(tables, k) = {}}
    IN  /\ fds' = tables
        /\ backlog' = IF refused = {} THEN backlog ELSE << >>
        /\ cond' = [k \in Sockets |->
                      IF \/ Opposite(k) \in closed /\ chan[Opposite(k)] # << >>
                         \/ k[1] = "down" /\ k[2] \in refused
                      THEN "rst" ELSE cond[k]]

UnchangedTables == UNCHANGED << fds, backlog, cond >>
UnchangedOther == UNCHANGED << prog, forks, count, timer, aio, failed, lost >>

-----------------------------------------------------------------------------
(* The step a process is at. *)

Deliverable(p) == proc[p].pending \ proc[p].masked
Body(p) == Bodies[proc[p].body]
\* A jump is part of the step it leads to.
Pc(p) ==
    LET pc == proc[p].pc
    IN  IF pc \in DOMAIN Body(p) /\ Body(p)[pc].op = "goto" THEN Body(p)[pc].to ELSE pc
Now(p) == IF Pc(p) \in DOMAIN Body(p) THEN Body(p)[Pc(p)] ELSE [op |-> "end"]

\* A signal is delivered before the process takes its next step.
Running(p) == proc[p].life = "run" /\ ~proc[p].handling /\ Deliverable(p) = {}
GoTo(p, pc) == proc' = [proc EXCEPT ![p].pc = pc]
Advance(p) == GoTo(p, Pc(p) + 1)

\* The processes S end; `before` is the state they end in.  A child becomes a
\* zombie and its parent gets SIGCHLD.
Terminate(S, before) ==
    LET children == IF Threaded THEN {} ELSE S \cap (1 .. forks)
        after == [p \in Procs |->
                    IF p \notin S THEN before[p]
                    ELSE [before[p] EXCEPT !.life = IF p \in children THEN "zombie" ELSE "gone"]]
        notify == children # {} /\ after[0].life = "run"
                    /\ after[0].action["CHLD"] # "default"
    IN  /\ proc' = IF notify THEN [after EXCEPT ![0].pending = @ \cup {"CHLD"}] ELSE after
        /\ lost' = (lost \/ (notify /\ "CHLD" \in after[0].pending))
        /\ Tables([p \in Procs |-> IF p \in S THEN << >> ELSE fds[p]])
        /\ UNCHANGED << prog, chan, forks, count, timer, aio >>

\* A signal or exit() ends all threads.
Group(p) ==
    IF Threaded /\ p \in Pids THEN {q \in Pids : proc[q].life \in {"run", "failed"}} ELSE {p}

\* SIGPIPE: its handler prints and exits.
Sigpipe(p) ==
    /\ Terminate(Group(p), IF proc[p].action["PIPE"] = "exit"
                           THEN [proc EXCEPT ![p].shown = Append(@, "PIPE")]
                           ELSE proc)
    /\ UNCHANGED failed

Finish(p) ==
    /\ Terminate(IF p = 0 THEN Group(p) ELSE {p}, proc)
    /\ UNCHANGED failed

\* A failed call after which the process exits.
FailAndExit(p) == Terminate(Group(p), proc) /\ failed' = TRUE

-----------------------------------------------------------------------------
(* Processes. *)

NewProcess(p, b) == [Start(b) EXCEPT !.masked = proc[p].masked, !.action = proc[p].action]

DoFork(p, s) ==
    /\ s.op = "fork"
    /\ \/ /\ forks' = forks + 1
          /\ proc' = [proc EXCEPT ![p].pc = Pc(p) + 1,
                                  ![forks + 1] = NewProcess(p, s.child)]
          /\ Tables([fds EXCEPT ![forks + 1] = fds[p]])
          /\ UNCHANGED << prog, chan, count, timer, aio, failed, lost >>
       \/ s.fail = "exit" /\ FailAndExit(p)
       \/ /\ s.fail # "exit" /\ forks' = forks + 1 /\ failed' = TRUE
          /\ proc' = [proc EXCEPT
                        ![p].pc = IF s.fail = "as child" THEN 1 ELSE Pc(p) + 1,
                        ![p].body = IF s.fail = "as child" THEN s.child ELSE @,
                        ![forks + 1].life = "failed"]
          /\ UnchangedTables /\ UNCHANGED << prog, chan, count, timer, aio, lost >>

\* The connection goes to the thread; it is not closed when there is no thread.
DoSpawn(p, s) ==
    /\ s.op = "spawn"
    /\ forks' = forks + 1
    /\ Tables([fds EXCEPT ![p] = Without(@, "cfd"),
                          ![forks + 1] = [f \in {"cfd"} |-> fds[p][f]]])
    /\ \E ok \in BOOLEAN :
          /\ proc' = [proc EXCEPT ![p].pc = Pc(p) + 1,
                                  ![forks + 1] = IF ok THEN Start(s.child)
                                                 ELSE [Absent EXCEPT !.life = "failed"]]
          /\ failed' = (failed \/ ~ok)
    /\ UNCHANGED << prog, chan, count, timer, aio, lost >>

DoExec(p, s) ==
    /\ s.op = "exec"
    /\ \E image \in s.images :
          proc' = [proc EXCEPT ![p].body = image, ![p].pc = 1]
    /\ UnchangedTables /\ UNCHANGED chan /\ UnchangedOther

Zombies == {c \in 1 .. forks : proc[c].life = "zombie"}
HasChildren == \E c \in 1 .. forks : proc[c].life \in {"run", "zombie"}

\* A process that forked fewer children than it believes waits with pid -1.
Reapable(p, s) ==
    CASE s.op = "wait" /\ proc[s.n].life # "failed" -> Zombies \cap {s.n}
      [] OTHER -> Zombies
NothingToReap(p, s) ==
    \/ ~HasChildren
    \/ s.op = "wait" /\ proc[s.n].life = "gone"

DoWait(p, s) ==
    /\ s.op = "wait" \/ s.op = "waitany"
    /\ \/ \E c \in Reapable(p, s) :
             proc' = [proc EXCEPT ![p].pc = Pc(p) + 1, ![c].life = "gone"]
       \/ NothingToReap(p, s) /\ Advance(p)
    /\ UnchangedTables /\ UNCHANGED chan /\ UnchangedOther

\* The busy loop around waitpid(-1, NULL, WNOHANG): a round that changes nothing
\* is not a step.
DoPoll(p, s) ==
    /\ s.op = "poll"
    /\ \E c \in Zombies :
          proc' = [proc EXCEPT ![c].life = "gone",
                               ![p].pc = IF count + 1 = s.n THEN Pc(p) + 1 ELSE @]
    /\ count' = count + 1
    /\ UnchangedTables /\ UNCHANGED << prog, chan, forks, timer, aio, failed, lost >>

DoUntil(p, s) ==
    /\ s.op = "until" /\ count >= s.n
    /\ Advance(p)
    /\ UnchangedTables /\ UNCHANGED chan /\ UnchangedOther

-----------------------------------------------------------------------------
(* Descriptors. *)

DoPipe(p, s) ==
    /\ s.op = "pipe"
    /\ LET k == << s.w, 0 >> IN
       \/ /\ Tables([fds EXCEPT ![p] = With(With(@, s.r, End(k, NoChannel)),
                                            s.w, End(NoChannel, k))])
          /\ Advance(p) /\ UNCHANGED chan /\ UnchangedOther
       \/ FailAndExit(p)

DoOpen(p, s) ==
    /\ s.op = "open"
    /\ \/ /\ Tables([fds EXCEPT ![p] = With(@, s.f, End(<< s.f, 0 >>, NoChannel))])
          /\ UNCHANGED failed
       \/ failed' = TRUE /\ UnchangedTables
    /\ Advance(p)
    /\ UNCHANGED << prog, chan, forks, count, timer, aio, lost >>

DoClose(p, s) ==
    /\ s.op = "close"
    /\ Tables([fds EXCEPT ![p] = Without(@, s.f)])
    /\ Advance(p) /\ UNCHANGED chan /\ UnchangedOther

\* dup2() of a descriptor that could not be opened changes nothing.
DoDup2(p, s) ==
    /\ s.op = "dup2"
    /\ IF s.f \in DOMAIN fds[p]
       THEN Tables([fds EXCEPT ![p] = With(@, s.g, fds[p][s.f])])
       ELSE UnchangedTables
    /\ Advance(p) /\ UNCHANGED chan /\ UnchangedOther

DoShutdown(p, s) ==
    /\ s.op = "shutdown"
    /\ Tables([fds EXCEPT ![p][s.f].w = NoChannel])
    /\ Advance(p) /\ UNCHANGED chan /\ UnchangedOther

\* One read() returns some of the bytes that are there; without any it waits for
\* a writer, or reports the end of the file, or a reset once.
DoRead(p, s) ==
    /\ s.op = "read"
    /\ LET k == IF s.f \in DOMAIN fds[p] THEN fds[p][s.f].r ELSE NoChannel
           most == IF Datagrams THEN 1 ELSE Len(chan[k])
       IN
       \/ /\ k \in Channels
          /\ \E n \in 1 .. most :
                /\ n <= Len(chan[k])
                /\ chan' = [chan EXCEPT ![k] = SubSeq(@, n + 1, Len(@))]
                /\ proc' = [proc EXCEPT ![p].pc = Pc(p) + 1, ![p].buf = SubSeq(chan[k], 1, n)]
          /\ UNCHANGED cond
       \/ /\ k \in Sockets /\ chan[k] = << >> /\ cond[k] = "rst"
          /\ cond' = [cond EXCEPT ![k] = "dead"]
          /\ GoTo(p, s.err) /\ UNCHANGED chan
       \/ /\ k \in Channels /\ chan[k] = << >> /\ ~Datagrams
          /\ k \in Sockets => cond[k] # "rst"
          /\ \/ k \in Sockets /\ cond[k] = "dead"
             \/ Writers(k) = {} /\ ~InBacklog(k)
          /\ GoTo(p, s.end) /\ UNCHANGED << chan, cond >>
    /\ UNCHANGED << fds, backlog >> /\ UnchangedOther

\* poll() returns since a read() would not wait.
DoSelect(p, s) ==
    /\ s.op = "select"
    /\ LET k == fds[p][s.f].r IN
       \/ chan[k] # << >>
       \/ cond[k] # "open"
       \/ Writers(k) = {} /\ ~InBacklog(k)
    /\ GoTo(p, s.read)
    /\ UnchangedTables /\ UNCHANGED chan /\ UnchangedOther

Upper(m) == CASE m = "m1" -> "M1" [] m = "m2" -> "M2" [] m = "m3" -> "M3" [] OTHER -> m

Bytes(p, m) ==
    CASE m = "buf" -> proc[p].buf
      [] m = "BUF" -> [i \in DOMAIN proc[p].buf |-> Upper(proc[p].buf[i])]
      [] m = "" -> << >>
      [] OTHER -> << m >>

Written(p, d) == [proc EXCEPT ![p].pc = Pc(p) + 1, ![p].sent = @ \o d]
Room(k, d) == chan[k] = << >> \/ Len(chan[k]) + Len(d) <= Cap

WriteTerminal(p, d) ==
    /\ proc' = [proc EXCEPT ![p].pc = Pc(p) + 1, ![p].shown = @ \o d]
    /\ UnchangedTables /\ UNCHANGED chan /\ UnchangedOther

WritePipe(p, k, d) ==
    \/ /\ Readers(k) # {} /\ Room(k, d)
       /\ chan' = [chan EXCEPT ![k] = @ \o d]
       /\ Advance(p) /\ UnchangedTables /\ UnchangedOther
    \/ Readers(k) = {} /\ Sigpipe(p)

\* A datagram is lost when there is no room for it.
WriteDatagram(p, k, d) ==
    /\ chan' = IF Room(k, d) /\ Readers(k) # {} THEN [chan EXCEPT ![k] = @ \o d] ELSE chan
    /\ proc' = Written(p, d)
    /\ lost' = (lost \/ ~Room(k, d))
    /\ UnchangedTables /\ UNCHANGED << prog, forks, count, timer, aio, failed >>

\* The first write after the other side closed succeeds and is answered by a
\* reset; after a reset a write fails, and raises SIGPIPE when the reset was
\* already reported or the other side had ended its stream before.
WriteSocket(p, k, d) ==
    LET here == Opposite(k)
        there == Readers(k) # {} \/ InBacklog(k)
    IN
    \/ /\ cond[here] = "open" /\ there /\ Room(k, d)
       /\ chan' = [chan EXCEPT ![k] = @ \o d] /\ proc' = Written(p, d)
       /\ UnchangedTables /\ UnchangedOther
    \/ /\ cond[here] = "open" /\ ~there
       /\ cond' = IF d = << >> THEN cond ELSE [cond EXCEPT ![here] = "rst"]
       /\ proc' = Written(p, d)
       /\ UNCHANGED << fds, backlog, chan >> /\ UnchangedOther
    \/ /\ cond[here] = "rst"
       /\ cond' = [cond EXCEPT ![here] = "dead"] /\ Advance(p)
       /\ UNCHANGED << fds, backlog, chan >> /\ UnchangedOther
    \/ cond[here] \in {"rst", "dead"} /\ Sigpipe(p)

DoWrite(p, s) ==
    /\ s.op = "write"
    /\ LET k == fds[p][s.f].w
           d == Bytes(p, s.m)
       IN  \/ k = Tty /\ WriteTerminal(p, d)
           \/ k \in Pipes /\ WritePipe(p, k, d)
           \/ k \in Sockets /\ Datagrams /\ WriteDatagram(p, k, d)
           \/ k \in Sockets /\ ~Datagrams /\ WriteSocket(p, k, d)

\* The stream socket is refused when nobody listens; a program that does not
\* look at it goes on with a dead descriptor.
DoConnect(p, s) ==
    /\ s.op = "connect"
    /\ \/ /\ ListenersIn(fds) # {}
          /\ fds' = [fds EXCEPT ![p] = With(@, s.f, End(<< "down", p >>, << "up", p >>))]
          /\ backlog' = Append(backlog, p)
          /\ Advance(p) /\ UNCHANGED << chan, cond >> /\ UnchangedOther
       \/ /\ ListenersIn(fds) = {} /\ s.fail = "go on"
          /\ fds' = [fds EXCEPT ![p] = With(@, s.f, End(<< "down", p >>, << "up", p >>))]
          /\ cond' = [cond EXCEPT ![<< "down", p >>] = "dead"]
          /\ Advance(p) /\ UNCHANGED << chan, backlog >> /\ UnchangedOther
       \/ ListenersIn(fds) = {} /\ s.fail = "exit" /\ FailAndExit(p)

DoAccept(p, s) ==
    /\ s.op = "accept" /\ backlog # << >>
    /\ LET c == Head(backlog) IN
       fds' = [fds EXCEPT ![p] = With(@, s.f, End(<< "up", c >>, << "down", c >>))]
    /\ backlog' = Tail(backlog)
    /\ Advance(p) /\ UNCHANGED << chan, cond >> /\ UnchangedOther

-----------------------------------------------------------------------------
(* Control, signals, timers, asynchronous I/O. *)

\* What is in the buffer: the two pieces of a vote read together are the vote.
Content(buf) == IF buf = << "REA", "DY" >> THEN << "READY" >> ELSE buf

DoControl(p, s) ==
    /\ \/ /\ s.op = "if"
          /\ GoTo(p, IF Content(proc[p].buf) = << s.m >> THEN Pc(p) + 1
                     ELSE s.else)
       \/ s.op = "ifbusy" /\ GoTo(p, IF aio = "busy" THEN Pc(p) + 1 ELSE s.else)
    /\ UnchangedTables /\ UNCHANGED chan /\ UnchangedOther

DoSignal(p, s) ==
    /\ \/ /\ s.op = "signal"
          /\ proc' = [proc EXCEPT ![p].pc = Pc(p) + 1, ![p].action[s.s] = s.h]
       \/ /\ s.op = "mask"
          /\ proc' = [proc EXCEPT ![p].pc = Pc(p) + 1, ![p].masked = @ \cup {s.s}]
       \/ /\ s.op = "unmask"
          /\ proc' = [proc EXCEPT ![p].pc = Pc(p) + 1, ![p].masked = @ \ {s.s}]
       \/ /\ s.op = "kill"
          /\ proc' = [proc EXCEPT ![p].pc = Pc(p) + 1, ![p].pending = @ \cup {s.s}]
       \/ /\ s.op = "pause" /\ ~proc[p].asleep
          /\ proc' = [proc EXCEPT ![p].asleep = TRUE]
    /\ UnchangedTables /\ UNCHANGED chan /\ UnchangedOther

DoTimer(p, s) ==
    /\ s.op = "timer"
    /\ timer' = s.how
    /\ Advance(p)
    /\ UnchangedTables /\ UNCHANGED << prog, chan, forks, count, aio, failed, lost >>

DoAioRead(p, s) ==
    /\ s.op = "aio"
    /\ \/ /\ aio' = "busy" /\ Advance(p)
          /\ UnchangedTables
          /\ UNCHANGED << prog, chan, forks, count, timer, failed, lost >>
       \/ FailAndExit(p)

Step(p) ==
    /\ Running(p)
    /\ LET s == Now(p) IN
       \/ s.op = "end" /\ Finish(p)
       \/ DoFork(p, s) \/ DoSpawn(p, s) \/ DoExec(p, s)
       \/ DoWait(p, s) \/ DoPoll(p, s) \/ DoUntil(p, s)
       \/ DoPipe(p, s) \/ DoOpen(p, s) \/ DoClose(p, s) \/ DoDup2(p, s) \/ DoShutdown(p, s)
       \/ DoRead(p, s) \/ DoSelect(p, s) \/ DoWrite(p, s) \/ DoConnect(p, s) \/ DoAccept(p, s)
       \/ DoControl(p, s) \/ DoSignal(p, s) \/ DoTimer(p, s) \/ DoAioRead(p, s)

\* A signal is delivered: by default SIGCHLD is ignored and the others end the
\* process; a handler that prints wakes pause(); the SIGCHLD handlers go on in
\* HandlerReaps.
Deliver(p) ==
    /\ proc[p].life = "run" /\ ~proc[p].handling
    /\ \E s \in Deliverable(p) :
         LET without == [proc EXCEPT ![p].pending = @ \ {s}]
             act == proc[p].action[s]
         IN
         \/ /\ act = "default" /\ s # "CHLD"
            /\ Terminate(Group(p), without) /\ UNCHANGED failed
         \/ /\ act = "print"
            /\ proc' = [without EXCEPT ![p].asleep = FALSE,
                                       ![p].pc = IF proc[p].asleep THEN Pc(p) + 1 ELSE @]
            /\ lost' = (lost \/ (Now(p).op = "pause" /\ ~proc[p].asleep))
            /\ UnchangedTables
            /\ UNCHANGED << prog, chan, forks, count, timer, aio, failed >>
         \/ /\ act = "reap"
            /\ proc' = [without EXCEPT ![p].handling = TRUE]
            /\ UnchangedTables /\ UNCHANGED chan /\ UnchangedOther

\* reapChildren(): waitpid(-1, NULL, 0); numDone++
HandlerReaps(p) ==
    /\ proc[p].life = "run" /\ proc[p].handling
    /\ \/ \E c \in Zombies :
             proc' = [proc EXCEPT ![p].handling = FALSE, ![c].life = "gone"]
       \/ ~HasChildren /\ proc' = [proc EXCEPT ![p].handling = FALSE]
    /\ count' = count + 1
    /\ UnchangedTables /\ UNCHANGED << prog, chan, forks, timer, aio, failed, lost >>

Raise(s) == proc' = [p \in Procs |->
                       IF p \in 0 .. forks /\ proc[p].life = "run"
                       THEN [proc[p] EXCEPT !.pending = @ \cup {s}] ELSE proc[p]]

Alarm ==
    /\ timer # "off"
    /\ Raise("ALRM")
    /\ timer' = IF timer = "once" THEN "off" ELSE timer
    /\ UnchangedTables /\ UNCHANGED << prog, chan, forks, count, aio, failed, lost >>

\* The request completes, and then its completion is announced.
AioDone ==
    /\ aio = "busy" /\ aio' = "done"
    /\ UnchangedTables
    /\ UNCHANGED << prog, proc, chan, forks, count, timer, failed, lost >>

AioNotify ==
    /\ aio = "done" /\ aio' = "notified" /\ proc[0].life = "run"
    /\ IF prog = "aio_signal" THEN Raise("USR1") /\ UNCHANGED forks
       ELSE /\ forks' = forks + 1
            /\ proc' = [proc EXCEPT ![forks + 1] = Start("aio_completion_handler")]
    /\ fds' = IF prog = "aio_signal" THEN fds ELSE [fds EXCEPT ![forks + 1] = Terminal]
    /\ UNCHANGED << prog, chan, cond, backlog, count, timer, failed, lost >>

-----------------------------------------------------------------------------
(* The environment: the user and the network. *)

Line(n) == << "m1", "m2", "m3" >>[n]

MayType(p) ==
    \E most \in MaxLines[prog] :
       \A q \in Peers : proc[q].lines + (IF q = p THEN 1 ELSE 0) <= most[q - 10]

\* A line is typed, or the end of the input: the buffer then keeps what it held.
TypeLine(p) ==
    /\ Running(p) /\ Now(p).op \in {"input", "select"} /\ MayType(p)
    /\ \/ proc' = [proc EXCEPT ![p].pc = Pc(p) + 1, ![p].lines = @ + 1,
                               ![p].buf = << Line(proc[p].lines + 1) >>]
       \/ proc' = [proc EXCEPT ![p].pc = Now(p).end, ![p].lines = @ + 1]
    /\ UnchangedTables /\ UNCHANGED chan /\ UnchangedOther

\* A separately started process is killed; so is a participant.
Leave(p) ==
    /\ p \in Peers \/ (p = 0 /\ prog \in Voting)
    /\ proc[p].life = "run"
    /\ Terminate({p}, proc)
    /\ UNCHANGED failed

SendSignal ==
    /\ \/ prog = "fork_sigprocmask" /\ Raise("INT")
       \/ prog = "sigaction_usr" /\ (Raise("USR1") \/ Raise("USR2"))
    /\ UnchangedTables /\ UNCHANGED chan /\ UnchangedOther

LoseDatagram ==
    /\ Datagrams
    /\ \E k \in Sockets : chan[k] # << >> /\ chan' = [chan EXCEPT ![k] = Tail(@)]
    /\ lost' = TRUE
    /\ UnchangedTables /\ UNCHANGED << prog, proc, forks, count, timer, aio, failed >>

Next ==
    \/ \E p \in Procs : Step(p) \/ Deliver(p) \/ HandlerReaps(p) \/ TypeLine(p) \/ Leave(p)
    \/ Alarm \/ AioDone \/ AioNotify \/ SendSignal \/ LoseDatagram

\* Processes run, signals are delivered, timers expire and requests complete (no
\* program has both a timer and a request);
\* nobody has to type, to leave, to send a signal or to lose a datagram.
Fairness ==
    /\ \A p \in Procs : WF_vars(Step(p) \/ Deliver(p) \/ HandlerReaps(p))
    /\ WF_vars(Alarm \/ AioDone \/ AioNotify)

Spec == Init /\ [][Next]_vars /\ Fairness

-----------------------------------------------------------------------------
(* Properties. *)

Gone(p) == proc[p].life = "gone"

Pipelines == {"pipe_test", "two_pipe", "pipe_fork_exec", "popen_test", "myshell"}
Reaping == Pipelines \cup {"sigpipe_b", "five_children", "multi_process"}
Finishing ==
    Reaping \cup Voting
      \cup {"sigpipe_a", "two_fork_in_if", "signal_handler", "fork_sigprocmask",
            "alarm_test", "setitimer_test", "aio_thread", "aio_signal"}

\* Every program that is meant to end does, whatever the interleaving of its
\* processes (for 2pc.c the coordinator, whenever the participant crashes), as
\* long as the kernel refuses no call, with three exceptions: five_children.c
\* hangs only when two SIGCHLDs became one, glibc_aio.c only when the signal
\* came just before pause(), and pipe_fork_exec.c only when the command writes
\* more errors than the pipe holds before its output ends.
Finishes ==
    prog \in Finishing =>
      <>(\/ Gone(IF prog \in Voting THEN 11 ELSE 0) \/ failed
         \/ lost /\ prog \in {"five_children", "aio_signal"}
         \/ prog = "pipe_fork_exec" /\ proc[1].body = "loud_command")

\* A program that waits for its children has reaped all of them when it ends,
\* also when a handler counts them (five_children.c) or a loop polls for them
\* (multi-process.cpp).
NobodyLeftBehind ==
    prog \in Reaping /\ Gone(0) /\ ~failed => \A c \in 1 .. forks : Gone(c)

\* What each process has printed when the program has ended.
Printed ==
    [pipe_test |-> {<< 1, << "m1" >> >>},
     two_pipe |-> {<< 2, << "m1" >> >>, << 3, << "e1" >> >>},
     popen_test |-> {<< 1, << "m1" >> >>},
     myshell |-> {<< 0, << "total" >> >>},
     sigpipe_a |-> {<< 0, << "PIPE" >> >>},
     sigpipe_b |-> {<< 0, << "PIPE" >> >>, << 1, << "m1" >> >>}]

\* What is written into a pipe comes out at the process the code connected it
\* to: output and error output are not mixed up or lost by the redirections
\* (two_pipe.c, pipe_fork_exec.c), a pipeline ends because every process closed
\* the ends it inherited (popen_test.c, myshell.c), a write into a pipe that
\* nobody reads any more is reported by SIGPIPE (06_sigpipe_b.c), and the signals
\* that have a handler which prints them do not end sigaction.c and
\* setitimer_test2.c once they wait in their loops.
OutputArrives ==
    Gone(0) /\ ~failed =>
      /\ prog \in DOMAIN Printed => \A x \in Printed[prog] : proc[x[1]].shown = x[2]
      /\ prog = "pipe_fork_exec" => proc[0].shown \in {<< "m1", "e1" >>, << "e1" >>}
      /\ prog \in {"sigaction_usr", "setitimer_test2"} => Now(0).op # "spin"

\* A client prints the answers to its own lines, in order and without a gap,
\* whatever the other client does and although datagrams are lost.
AnswersInOrder ==
    prog \in {"server", "multiprocess", "multithread", "handle_udp_msg"} =>
      \A p \in Peers :
        IsPrefix(proc[p].shown, [i \in DOMAIN proc[p].sent |-> Upper(proc[p].sent[i])])

\* A client left while two messages or more that it had sent were not answered: two
\* lines, or one of which TCP made two.
LeftUnanswered ==
    \E p \in Peers : Gone(p) /\ Len(proc[p].shown) + 2 <= Len(proc[p].sent)

\* A client was killed; nc ends by itself when the server has closed the connection.
Killed(p) == Gone(p) /\ Now(p).op # "end"

\* A client of the concurrent servers gets an answer to every line and is not cut off,
\* whatever the other client does or leaves undone, with one exception: in
\* multithread.c the answers to a client that left with two messages unanswered
\* raise SIGPIPE, which ends the threads of all clients.  So does the UDP client get
\* an answer, unless a datagram is lost.
LinesAnswered ==
    LET c == IF Datagrams THEN 11 ELSE 12 IN
    /\ prog \in {"multiprocess", "multithread", "handle_udp_msg"}
    /\ Len(proc[c].shown) < Len(proc[c].sent)
    ~> \/ Len(proc[c].shown) = Len(proc[c].sent)
       \/ Killed(c) \/ failed \/ lost
       \/ prog = "multithread" /\ LeftUnanswered

\* When a client has gone, the server closes its side of the connection: no
\* process or thread keeps the descriptor.  (04_tcp_socket_server.c does so because
\* it goes on to answer, until SIGPIPE ends it.)
ClientsReleased ==
    prog \in {"multiprocess", "multithread", "uds_server", "tcp_socket_server"} /\ Gone(11)
      ~> Readers(<< "up", 11 >>) = {} \/ failed

\* The coordinator sends COMMIT only after the participant has voted READY, and
\* never both decisions, however the vote is cut into pieces and whenever the
\* participant crashes.
CommitOnlyIfReady ==
    prog \in Voting =>
      LET decisions == Range(proc[11].sent) \cap {"COMMIT", "ABORT"}
          votes == proc[0].sent
      IN  /\ "COMMIT" \in decisions =>
               \E n \in 1 .. Len(votes) :
                  /\ Content(SubSeq(votes, 1, n)) = << "READY" >>
                  /\ \A i \in n + 1 .. Len(votes) : votes[i] = "DONE"
          /\ Cardinality(decisions) <= 1
=============================================================================

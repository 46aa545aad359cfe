------------------------------ MODULE Programs ------------------------------
(* The programs of 03_process, 05_ipc, 07_signal, 08_socket, 09_epoll and   *)
(* 10_project that fork, wait, use pipes, signals or blocking sockets, each  *)
(* process or thread as the sequence of its system calls.  A target names    *)
(* the step at which the code goes on; target 0, and the end of a sequence,  *)
(* end the process.  Module Processes gives the calls their meaning.         *)
EXTENDS Naturals, Sequences

CONSTANT Children   \* how many children a program forks in a loop (5)

ASSUME ChildrenAssumption == Children \in Nat \ {0}

-----------------------------------------------------------------------------
(* The calls. *)

\* pipe(): read end r, write end w; failure ends the process.  two_pipe.c and
\* myshell.c do not look: they go on with descriptors that were never set, what
\* they do then is undefined, and they are not followed further either.
Pipe(r, w) == [op |-> "pipe", r |-> r, w |-> w]
\* fork(): the child continues with a sequence of its own; what the parent does
\* when fork() returns -1: "exit", "go on", or "as child"
Fork(child, fail) == [op |-> "fork", child |-> child, fail |-> fail]
\* pthread_create() with the connection in the descriptor cfd
Spawn(child) == [op |-> "spawn", child |-> child]
\* exec: the process continues as one of several programs
Exec(images) == [op |-> "exec", images |-> images]
Open(f) == [op |-> "open", f |-> f]
Close(f) == [op |-> "close", f |-> f]
Dup2(f, g) == [op |-> "dup2", f |-> f, g |-> g]
\* one read(); where the code goes on after 0 and after -1
Read(f, end, err) == [op |-> "read", f |-> f, end |-> end, err |-> err]
\* one write() of a message, of the buffer ("buf"), or of the buffer in upper
\* case ("BUF"), or of 0 bytes ("")
Write(f, m) == [op |-> "write", f |-> f, m |-> m]
\* fgets() from the terminal
Input(end) == [op |-> "input", end |-> end]
\* poll() of the terminal and of f: a line is typed, or its end is, or f is
\* readable and the code goes on at step read
Select(f, read, end) == [op |-> "select", f |-> f, read |-> read, end |-> end]
Goto(to) == [op |-> "goto", to |-> to]
\* strcmp(buffer, m) == 0, or else go on at another step
IfBuffer(m, else) == [op |-> "if", m |-> m, else |-> else]
\* waitpid() for the n-th child; wait(NULL)
Wait(n) == [op |-> "wait", n |-> n]
WaitAny == [op |-> "waitany"]
\* waitpid(-1, NULL, WNOHANG) until n children are counted
Poll(n) == [op |-> "poll", n |-> n]
\* sleep until the handler has counted n
Until(n) == [op |-> "until", n |-> n]
Signal(s, h) == [op |-> "signal", s |-> s, h |-> h]
Mask(s) == [op |-> "mask", s |-> s]
Unmask(s) == [op |-> "unmask", s |-> s]
\* kill(getpid(), s)
Kill(s) == [op |-> "kill", s |-> s]
Timer(how) == [op |-> "timer", how |-> how]
\* while (1) ;
Spin == [op |-> "spin"]
Pause == [op |-> "pause"]
\* aio_read(), whose completion is announced by "signal" or by "thread"
AioRead(how) == [op |-> "aio", how |-> how]
\* aio_error() == EINPROGRESS, or else go on at another step
IfInProgress(else) == [op |-> "ifbusy", else |-> else]
\* connect(); whether the code looks at a refusal ("exit") or not ("go on")
Connect(f, fail) == [op |-> "connect", f |-> f, fail |-> fail]
Accept(f) == [op |-> "accept", f |-> f]
Shutdown(f) == [op |-> "shutdown", f |-> f]

-----------------------------------------------------------------------------
(* 05_ipc/pipe, 10_project/myshell.c: pipes. *)

pipe_test_child == << Close("p1"), Read("p0", 0, 0), Write("out", "buf") >>

pipe_test ==
    << Pipe("p0", "p1"), Fork("pipe_test_child", "exit"), Close("p0"),
       Write("p1", "m1"), WaitAny >>

\* Fault: the two redirections of A are swapped.
two_pipe_AFault ==
    << Close("ab0"), Close("ac0"), Dup2("ac1", "out"), Dup2("ab1", "err"),
       Close("ab1"), Close("ac1"), Write("err", "e1"), Write("out", "m1") >>

two_pipe_A ==
    << Close("ab0"), Close("ac0"), Dup2("ab1", "out"), Dup2("ac1", "err"),
       Close("ab1"), Close("ac1"), Write("err", "e1"), Write("out", "m1") >>

two_pipe_B ==
    << Close("ab1"), Close("ac0"), Close("ac1"), Dup2("ab0", "in"),
       Close("ab0"), Read("in", 7, 7), Write("out", "buf") >>

two_pipe_C ==
    << Close("ab0"), Close("ab1"), Close("ac1"), Dup2("ac0", "in"),
       Close("ac0"), Read("in", 7, 7), Write("out", "buf") >>

two_pipe ==
    << Pipe("ab0", "ab1"), Pipe("ac0", "ac1"),
       Fork("two_pipe_A", "go on"), Fork("two_pipe_B", "go on"),
       Fork("two_pipe_C", "go on"), Wait(1), Wait(2), Wait(3) >>

\* Fault: the parent keeps the write end of the pipe it reads to its end.
pipe_fork_execFault ==
    << Pipe("o0", "o1"), Pipe("e0", "e1"),
       Fork("pipe_fork_exec_child", "exit"), Close("e1"), Close("e1"),
       Read("o0", 9, 9), Write("out", "buf"), Goto(6),
       Read("e0", 12, 12), Write("err", "buf"), Goto(9),
       Close("o0"), Close("e0"), Wait(1) >>

pipe_fork_exec ==
    << Pipe("o0", "o1"), Pipe("e0", "e1"),
       Fork("pipe_fork_exec_child", "exit"), Close("o1"), Close("e1"),
       Read("o0", 9, 9), Write("out", "buf"), Goto(6),
       Read("e0", 12, 12), Write("err", "buf"), Goto(9),
       Close("o0"), Close("e0"), Wait(1) >>

pipe_fork_exec_child ==
    << Close("o0"), Dup2("o1", "out"), Close("o1"),
       Close("e0"), Dup2("e1", "err"), Close("e1"),
       Exec({"command", "loud_command", "no_command"}) >>

\* The command that is run: a few lines, or more error output than the pipe
\* holds before the first line of output; or execlp() fails.
command == << Write("out", "m1"), Write("err", "e1") >>

loud_command ==
    << Write("err", "e1"), Write("err", "e1"), Write("err", "e1"),
       Write("out", "m1") >>

no_command == << Write("err", "e1") >>

\* popen() and pclose(): a pipe to the standard input of a shell command; the
\* stream is written out by pclose().
popen_test ==
    << Pipe("p0", "p1"), Fork("popen_child", "exit"), Close("p0"),
       Write("p1", "m1"), Close("p1"), Wait(1) >>

popen_child == << Dup2("p0", "in"), Close("p0"), Close("p1"), Exec({"A"}) >>

\* 05_ipc/pipe/main.c reads lines to the end of its input.
A == << Read("in", 0, 0), Write("out", "buf"), Goto(1) >>

\* One round of myshell.c: file f through cat and wc; both ends of a pipe are
\* inherited by later children unless they are closed before the fork.
myshell_file(f, p0, p1, cat, q0, q1, wc) ==
    << Open(f), Pipe(p0, p1), Fork(cat, "as child"), Close(p1),
       Pipe(q0, q1), Fork(wc, "as child"), Close(q1) >>

myshell ==
    myshell_file("f", "p0", "p1", "myshell_cat", "q0", "q1", "myshell_wc")
      \o << Wait(1), Wait(2) >>
      \o myshell_file("g", "r0", "r1", "myshell_cat2", "s0", "s1", "myshell_wc2")
      \o << Wait(3), Wait(4), Read("s0", 20, 20), Write("out", "buf") >>

\* The child: standard input from fd, standard output to the new pipe.
myshell_child(fd, p1, image) ==
    << Dup2(fd, "in"), Close(fd), Dup2(p1, "out"), Close(p1), Exec({image}) >>

cat == << Read("in", 0, 0), Write("out", "buf"), Goto(1) >>

wc == << Read("in", 3, 3), Goto(1), Write("out", "total") >>

-----------------------------------------------------------------------------
(* 03_process, 07_signal: children and signals. *)

sigpipe_a ==
    << Pipe("p0", "p1"), Signal("PIPE", "exit"), Close("p0"),
       Write("p1", "m1"), Close("p1") >>

sigpipe_b ==
    << Pipe("p0", "p1"), Signal("PIPE", "exit"),
       Fork("sigpipe_b_child", "go on"), Close("p0"), Write("p1", "m1"),
       Wait(1), Write("p1", "m1") >>

sigpipe_b_child ==
    << Close("p1"), Read("p0", 3, 3), Write("out", "buf"), Close("p0") >>

worker == << >>

\* Fault: the loop ends one child early.
five_childrenFault ==
    << Signal("CHLD", "reap") >>
      \o [i \in 1 .. Children |-> Fork("worker", "go on")]
      \o << Until(Children - 1) >>

five_children ==
    << Signal("CHLD", "reap") >>
      \o [i \in 1 .. Children |-> Fork("worker", "go on")]
      \o << Until(Children) >>

multi_process ==
    [i \in 1 .. Children |-> Fork("worker", "go on")]
      \o << Poll(Children), Write("out", "total") >>

two_fork_in_if ==
    << Write("out", "A"), Fork("worker", "go on"), Fork("worker", "go on"),
       Write("out", "D") >>

signal_handler == << Signal("CHLD", "reap"), Kill("CHLD") >>

fork_sigprocmask ==
    << Mask("INT"), Fork("fork_sigprocmask_child", "exit"), Unmask("INT") >>

fork_sigprocmask_child == << Signal("INT", "print"), Spin >>

sigaction_usr == << Signal("USR1", "print"), Signal("USR2", "print"), Spin >>

alarm_test == << Timer("once"), Spin >>

setitimer_test == << Timer("once"), Spin >>

setitimer_test2 == << Signal("ALRM", "print"), Timer("every"), Spin >>

(* 09_epoll/glibc_aio.c: its two main functions.  The failures of open() and *)
(* malloc(), which end the program too, are in the failure of aio_read().    *)

aio_thread == << AioRead("thread"), IfInProgress(4), Goto(2) >>

aio_completion_handler == << Write("out", "m1") >>

aio_signal ==
    << Signal("USR1", "print"), AioRead("signal"), IfInProgress(6), Pause,
       Goto(3) >>

-----------------------------------------------------------------------------
(* 10_project, 08_socket, 09_epoll/2pc.c: blocking sockets. *)

\* After the end of the file it goes on to write 0 bytes, for ever.
server ==
    << Accept("cfd"), Read("cfd", 5, 2), Write("cfd", "BUF"), Goto(2),
       Write("cfd", ""), Goto(2) >>

\* BUF stands for the line in upper case with a '!' behind it.  After the end of
\* the file it goes on to answer a single '!', after an error 0 bytes.
tcp_socket_server ==
    << Accept("cfd"), Read("cfd", 5, 7), Write("cfd", "BUF"), Goto(2),
       Write("cfd", "!"), Goto(2), Write("cfd", ""), Goto(2) >>

\* Fault: the parent keeps the connection open.
multiprocessFault ==
    << Accept("cfd"), Fork("multiprocess_child", "exit"), Goto(1) >>

multiprocess ==
    << Accept("cfd"), Fork("multiprocess_child", "exit"), Close("cfd"),
       Goto(1) >>

multiprocess_child ==
    << Close("lfd"), Read("cfd", 5, 0), Write("cfd", "BUF"), Goto(2),
       Close("cfd") >>

\* Fault: only one client is accepted.
multithreadFault == << Accept("cfd"), Spawn("do_work"), Pause >>

multithread == << Accept("cfd"), Spawn("do_work"), Goto(1) >>

do_work ==
    << Read("cfd", 4, 1), Write("cfd", "BUF"), Goto(1), Close("cfd") >>

uds_server ==
    << Accept("cfd"), Read("cfd", 5, 2), Write("out", "buf"), Goto(2),
       Close("lfd"), Close("cfd") >>

client ==
    << Connect("cfd", "go on"), Input(3), Write("cfd", "buf"), Read("cfd", 2, 2),
       Write("out", "buf"), Goto(2) >>

\* nc, with which the servers are tested (10_project/README.md): it sends every
\* line at once, however many answers are outstanding, and prints what comes.
nc ==
    << Connect("cfd", "exit"), Select("cfd", 5, 8), Write("cfd", "buf"), Goto(2),
       Read("cfd", 0, 0), Write("out", "buf"), Goto(2),
       Read("cfd", 0, 0), Write("out", "buf"), Goto(8) >>

tcp_socket_client ==
    << Connect("cfd", "go on"), Input(3), Write("cfd", "buf"), Shutdown("cfd") >>

uds_client ==
    << Connect("cfd", "go on"), Input(5), Write("cfd", "buf"), Goto(2), Close("cfd") >>

\* Fault: the server answers before it has received the next datagram.
handle_udp_msgFault ==
    << Read("u", 0, 0), Write("u", "BUF"), Write("u", "BUF"), Goto(1) >>

\* BUF stands for the answer to the datagram, which tells its length.
handle_udp_msg == << Read("u", 0, 0), Write("u", "BUF"), Goto(1) >>

\* Input bounds the rounds and tells them apart.
udp_msg_sender ==
    << Input(1), Write("u", "buf"), Read("u", 4, 4), Write("out", "buf"),
       Goto(1) >>

\* Fault: any answer counts as a vote to commit.
two_phase_commitFault ==
    << Connect("cfd", "exit"), Write("cfd", "PREPARE"), Read("cfd", 4, 4),
       Write("cfd", "COMMIT"), Read("cfd", 0, 0) >>

two_phase_commit ==
    << Connect("cfd", "exit"), Write("cfd", "PREPARE"), Read("cfd", 4, 4),
       IfBuffer("READY", 8), Write("cfd", "COMMIT"), Read("cfd", 0, 0),
       Goto(0), Write("cfd", "ABORT"), Read("cfd", 0, 0) >>

\* The participant is not in the repository.  It votes, perhaps in two pieces,
\* takes the decision and acknowledges it.
participant(vote) ==
    << Accept("cfd"), Read("cfd", 0, 0) >>
      \o [i \in 1 .. Len(vote) |-> Write("cfd", vote[i])]
      \o << Read("cfd", 0, 0), Write("out", "buf"), Write("cfd", "DONE") >>
=============================================================================

---------------------------- MODULE MCProcesses ----------------------------
EXTENDS Processes

MCRuns ==
    {"pipe_test", "two_pipe", "pipe_fork_exec", "popen_test", "myshell",
     "sigpipe_a", "sigpipe_b", "five_children", "multi_process",
     "two_fork_in_if", "signal_handler", "fork_sigprocmask", "sigaction_usr",
     "alarm_test", "setitimer_test", "setitimer_test2", "aio_thread",
     "aio_signal", "server", "tcp_socket_server", "multiprocess",
     "multithread", "uds_server", "handle_udp_msg", "votes_ready",
     "votes_in_pieces", "votes_no"}

\* Two lines in all; at the clients of multithread.c one types two and the other
\* one, or only the other types.
MCMaxLines ==
    [r \in MCRuns |-> IF r = "multithread" THEN {<< 2, 1 >>, << 0, 2 >>}
                      ELSE {<< 2, 0 >>, << 1, 1 >>, << 0, 2 >>}]
=============================================================================

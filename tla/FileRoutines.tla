---------------------------- MODULE FileRoutines -----------------------------
(* The file I/O programs of 12_aio, 02_file_io and 09_epoll/unblocking.c:    *)
(* main functions that call routines in turn, each a straight line of system *)
(* calls in which any call may fail.  A routine is a sequence of steps; a    *)
(* checked step carries the releases its error branch performs, in their     *)
(* order, before the routine returns -1.  Data moves from the program (Size  *)
(* units) through the stdio buffer and the page cache to the disk; what is   *)
(* on the disk is what survives a crash.                                     *)
EXTENDS Naturals, Sequences, FiniteSets

CONSTANTS
    Size   \* units of data a routine writes

ASSUME SizeAssumption == Size \in Nat \ {0}

-----------------------------------------------------------------------------
(* The kinds of steps. *)

Step(kind, res, uses, undo) ==
    [kind |-> kind, res |-> res, uses |-> uses, undo |-> undo]

\* acquire res; on failure release undo and return
Open(res, undo) == Step("open", {res}, {}, undo)
\* pipe() acquires both ends or none
Pipe(r, w, undo) == Step("open", {r, w}, {}, undo)
\* a call whose failure is handled
Call(uses, undo) == Step("call", {}, uses, undo)
\* a call whose failure is ignored or only printed
Try(uses) == Step("try", {}, uses, << >>)
Close(res) == Step("close", {res}, {res}, << >>)
\* an open whose result is not looked at, and the close of what it may have
\* opened: on a descriptor of -1 the calls in between fail with EBADF
OpenTry(res) == Step("opentry", {res}, {}, << >>)
CloseTry(res) == Step("close", {res}, {}, << >>)
\* one write: some of the remaining data reaches the page cache
Write(fd, undo) == Step("write", {}, {fd}, undo)
\* the same with O_SYNC: what it writes is on the disk
WriteSync(fd, undo) == Step("writesync", {}, {fd}, undo)
\* a loop that goes on until nothing remains; uses is what its calls use
WriteAll(uses, undo) == Step("writeall", {}, uses, undo)
\* read and write until a read ends the loop; short writes go unnoticed
Copy(uses, undo) == Step("copy", {}, uses, undo)
\* fwrite: all data goes to the stdio buffer, which may overflow into the page
\* cache, or it is an error
Fwrite(fp, undo) == Step("fwrite", {}, {fp}, undo)
\* fflush: stdio buffer to page cache
Fflush(fp, undo) == Step("fflush", {}, {fp}, undo)
\* data stored through a shared mapping is in the page cache
Store(map) == Step("store", {}, {map}, << >>)
\* fsync, fdatasync, msync, sync_file_range
Sync(fd, undo) == Step("sync", {}, {fd}, undo)
\* submit a request that uses buf until it completes
Submit(ctx, fd, undo) == Step("submit", {}, {ctx, fd, "buf"}, undo)
\* wait for the completion
Reap(ctx, undo) == Step("reap", {}, {ctx}, undo)

-----------------------------------------------------------------------------
(* standard_io.c *)

standard_write_file ==
    << Open("fd", << >>), WriteAll({"fd"}, <<"fd">>), Sync("fd", <<"fd">>),
       Close("fd") >>

standard_read_file ==
    << Open("fd", << >>), Call({"fd"}, <<"fd">>), Close("fd") >>

lseek_example == << Open("fd", << >>), Try({"fd"}), Close("fd") >>

(* buffered_io.c *)

\* Fault: the stdio buffer is not flushed before fsync.
buffered_write_fileFault ==
    << Open("fp", << >>), Call({"fp"}, <<"fp">>), Fwrite("fp", <<"fp">>),
       Sync("fp", <<"fp">>), Close("fp") >>

buffered_write_file ==
    << Open("fp", << >>), Call({"fp"}, <<"fp">>), Fwrite("fp", <<"fp">>),
       Fflush("fp", <<"fp">>), Sync("fp", <<"fp">>), Close("fp") >>

buffered_read_file ==
    << Open("fp", << >>), Call({"fp"}, <<"fp">>), Call({"fp"}, <<"fp">>),
       Close("fp") >>

read_line_by_line ==
    << Open("fp", << >>), Call({"fp"}, <<"fp">>), Call({"fp"}, <<"fp">>),
       Close("fp") >>

fprintf_example == << Open("fp", << >>), Try({"fp"}), Close("fp") >>

fscanf_example == << Open("fp", << >>), Try({"fp"}), Close("fp") >>

(* page_cache.c *)

standard_io_with_fsync ==
    << Open("fd", << >>), Write("fd", <<"fd">>), Sync("fd", <<"fd">>),
       Close("fd") >>

\* ftruncate, mmap, the store, msync; a failed munmap is only reported
mmap_with_msync ==
    << Open("fd", << >>), Call({"fd"}, <<"fd">>), Open("map", <<"fd">>),
       Store("map"), Sync("map", <<"map", "fd">>), Close("map"), Close("fd") >>

o_direct_io ==
    << Open("buf", << >>), Open("fd", <<"buf">>),
       Write("fd", <<"fd", "buf">>), Sync("fd", <<"fd", "buf">>),
       Close("fd"), Close("buf") >>

standard_io_with_fdatasync ==
    << Open("fd", << >>), Write("fd", <<"fd">>), Sync("fd", <<"fd">>),
       Close("fd") >>

o_sync_io ==
    << Open("fd", << >>), WriteSync("fd", <<"fd">>), Close("fd") >>

sync_file_range_example ==
    << Open("fd", << >>), Write("fd", <<"fd">>), Sync("fd", <<"fd">>),
       Close("fd") >>

(* libaio_demo.c; io_setup, open, io_submit, io_getevents, result, fsync *)

\* Fault: the buffer is freed before the context is destroyed.
aio_writeFault ==
    LET all == <<"buf", "fd", "ctx">>
    IN  << Open("buf", << >>), Open("ctx", <<"buf">>),
           Open("fd", <<"ctx", "buf">>), Submit("ctx", "fd", all),
           Reap("ctx", all), Call({}, all), Sync("fd", all),
           Close("fd"), Close("ctx"), Close("buf") >>

aio_write ==
    LET all == <<"fd", "ctx", "buf">>
    IN  << Open("buf", << >>), Open("ctx", <<"buf">>),
           Open("fd", <<"ctx", "buf">>), Submit("ctx", "fd", all),
           Reap("ctx", all), Call({}, all), Sync("fd", all),
           Close("fd"), Close("ctx"), Close("buf") >>

aio_read ==
    LET all == <<"fd", "ctx", "buf">>
    IN  << Open("buf", << >>), Open("ctx", <<"buf">>),
           Open("fd", <<"ctx", "buf">>), Submit("ctx", "fd", all),
           Reap("ctx", all), Call({}, all),
           Close("fd"), Close("ctx"), Close("buf") >>

(* io_uring_1.c *)

io_uring_read_example ==
    LET all == <<"fd", "ring", "buf">>
    IN  << Open("buf", << >>), Open("ring", <<"buf">>),
           Open("fd", <<"ring", "buf">>), Submit("ring", "fd", all),
           Reap("ring", all), Try({"ring"}),
           Close("fd"), Close("ring"), Close("buf") >>

(* epoll_nonblocking.c *)

epoll_read_example ==
    LET both == <<"fd", "ep">>
    IN  << Open("ep", << >>), Open("fd", <<"ep">>), Call({"fd"}, both),
           Call({"ep", "fd"}, both), Call({"ep"}, both), Try({"fd"}),
           Try({"ep", "fd"}), Close("fd"), Close("ep") >>

\* Fault: the error branch of the second open forgets the first file.
epoll_multi_file_exampleFault ==
    LET all == <<"fd1", "fd2", "ep">>
    IN  << Open("ep", << >>), Open("fd1", <<"ep">>), Try({"fd1"}),
           Open("fd2", <<"ep">>), Try({"fd2"}),
           Try({"ep", "fd1"}), Try({"ep", "fd2"}), Call({"ep"}, all),
           Try({"fd1", "fd2"}), Try({"ep", "fd1", "fd2"}),
           Close("fd1"), Close("fd2"), Close("ep") >>

epoll_multi_file_example ==
    LET all == <<"fd1", "fd2", "ep">>
    IN  << Open("ep", << >>), Open("fd1", <<"ep">>), Try({"fd1"}),
           Open("fd2", <<"fd1", "ep">>), Try({"fd2"}),
           Try({"ep", "fd1"}), Try({"ep", "fd2"}), Call({"ep"}, all),
           Try({"fd1", "fd2"}), Try({"ep", "fd1", "fd2"}),
           Close("fd1"), Close("fd2"), Close("ep") >>

epoll_edge_triggered_example ==
    LET both == <<"fd", "ep">>
    IN  << Open("ep", << >>), Open("fd", <<"ep">>), Try({"fd"}),
           Call({"ep", "fd"}, both), Call({"ep"}, both), Try({"fd"}),
           Try({"ep", "fd"}), Close("fd"), Close("ep") >>

epoll_timeout_example ==
    << Open("ep", << >>), Open("fd", <<"ep">>), Try({"fd"}),
       Try({"ep", "fd"}), Call({"ep"}, <<"fd", "ep">>), Try({"fd"}),
       Try({"ep", "fd"}), Close("fd"), Close("ep") >>

(* splice_demo.c *)

\* Fault: the write end, closed before the read, is closed again at the end.
splice_file_to_pipeFault ==
    << Pipe("p0", "p1", << >>), Open("fd", <<"p0", "p1">>),
       Call({"fd", "p1"}, <<"fd", "p0", "p1">>), Close("p1"), Try({"p0"}),
       Close("fd"), Close("p0"), Close("p1") >>

splice_file_to_pipe ==
    << Pipe("p0", "p1", << >>), Open("fd", <<"p0", "p1">>),
       Call({"fd", "p1"}, <<"fd", "p0", "p1">>), Close("p1"), Try({"p0"}),
       Close("fd"), Close("p0") >>

splice_pipe_to_file ==
    << Pipe("p0", "p1", << >>), Try({"p1"}), Close("p1"),
       Open("fd", <<"p0">>), Write("fd", <<"fd", "p0">>),
       Sync("fd", <<"fd", "p0">>), Close("fd"), Close("p0") >>

splice_pipe_to_pipe ==
    << Pipe("p0", "p1", << >>),
       Pipe("q0", "q1", <<"p0", "p1">>),
       Try({"p1"}), Close("p1"), Call({"p0", "q1"}, <<"p0", "q0", "q1">>),
       Close("q1"), Try({"q0"}), Close("p0"), Close("q0") >>

splice_chunked ==
    LET all == <<"src", "dst", "p0", "p1">>
    IN  << Pipe("p0", "p1", << >>),
           Open("src", <<"p0", "p1">>), Call({"src"}, <<"src", "p0", "p1">>),
           Open("dst", <<"src", "p0", "p1">>),
           WriteAll({"src", "p0", "p1", "dst"}, all), Sync("dst", all),
           Close("src"), Close("dst"), Close("p0"), Close("p1") >>

splice_with_tee ==
    << Pipe("p0", "p1", << >>),
       Pipe("q0", "q1", <<"p0", "p1">>),
       Try({"p1"}), Close("p1"), Call({"p0", "q1"}, <<"p0", "q0", "q1">>),
       Close("q1"), Try({"q0"}), Try({"p0"}), Close("p0"), Close("q0") >>

(* sendfile_demo.c *)

sendfile_file_to_file ==
    LET both == <<"src", "dst">>
    IN  << Open("src", << >>), Call({"src"}, <<"src">>),
           Open("dst", <<"src">>), Write("dst", both), Sync("dst", both),
           Close("src"), Close("dst") >>

sendfile_file_to_socket ==
    LET all == <<"file", "client", "server">>
    IN  << Open("server", << >>), Try({"server"}),
           Call({"server"}, <<"server">>), Call({"server"}, <<"server">>),
           Open("client", <<"server">>), Open("file", <<"client", "server">>),
           Call({"file"}, all), Call({"client", "file"}, all),
           Close("file"), Close("client"), Close("server") >>

sendfile_chunked ==
    LET both == <<"src", "dst">>
    IN  << Open("src", << >>), Call({"src"}, <<"src">>),
           Open("dst", <<"src">>), WriteAll({"src", "dst"}, both), Sync("dst", both),
           Close("src"), Close("dst") >>

\* The second pair of descriptors is opened without looking at the result.
compare_performance ==
    << Open("src", << >>), Call({"src"}, <<"src">>), Open("dst", <<"src">>),
       Copy({"src", "dst"}, <<"src", "dst">>), Try({"dst"}),
       Close("dst"), Close("src"),
       OpenTry("src"), OpenTry("dst"), Try({}), Try({}),
       CloseTry("dst"), CloseTry("src") >>

(* splice_demo.c: as compare_performance, with a pipe in between. *)
compare_splice_traditional ==
    << Open("src", << >>), Call({"src"}, <<"src">>), Open("dst", <<"src">>),
       Copy({"src", "dst"}, <<"src", "dst">>), Try({"dst"}),
       Close("dst"), Close("src"),
       Pipe("p0", "p1", << >>), OpenTry("src"), OpenTry("dst"),
       Try({"p1"}), Try({"p0"}), Try({}),
       CloseTry("dst"), CloseTry("src"), Close("p0"), Close("p1") >>

(* The main functions of three of the programs create the file they read. *)
create_test_file ==
    << Open("fd", << >>), Try({"fd"}), Try({"fd"}), Close("fd") >>

(* Programs of one function: 02_file_io/open.c, 02_file_io/direct_io.c and  *)
(* 09_epoll/unblocking.c.                                                   *)

open_read_write ==
    << Open("fd", << >>), Call({"fd"}, <<"fd">>), Close("fd") >>

direct_io ==
    << Open("fd", << >>), Open("buf", <<"fd">>), Try({"fd", "buf"}),
       Close("buf"), Close("fd") >>

unblocking ==
    << Open("fd", << >>), Call({"fd"}, <<"fd">>), Call({"fd"}, <<"fd">>),
       Call({"fd"}, <<"fd">>), Close("fd") >>

\* aio_batch_io, which has a module of its own (AioBatch)
aio_batch_io == << Call({}, << >>) >>

-----------------------------------------------------------------------------
Routines ==
    [ standard_write_file |-> standard_write_file,
      standard_read_file |-> standard_read_file,
      lseek_example |-> lseek_example,
      buffered_write_file |-> buffered_write_file,
      buffered_read_file |-> buffered_read_file,
      read_line_by_line |-> read_line_by_line,
      fprintf_example |-> fprintf_example,
      fscanf_example |-> fscanf_example,
      standard_io_with_fsync |-> standard_io_with_fsync,
      mmap_with_msync |-> mmap_with_msync,
      o_direct_io |-> o_direct_io,
      standard_io_with_fdatasync |-> standard_io_with_fdatasync,
      o_sync_io |-> o_sync_io,
      sync_file_range_example |-> sync_file_range_example,
      aio_write |-> aio_write,
      aio_read |-> aio_read,
      io_uring_read_example |-> io_uring_read_example,
      epoll_read_example |-> epoll_read_example,
      epoll_multi_file_example |-> epoll_multi_file_example,
      epoll_edge_triggered_example |-> epoll_edge_triggered_example,
      epoll_timeout_example |-> epoll_timeout_example,
      splice_file_to_pipe |-> splice_file_to_pipe,
      splice_pipe_to_file |-> splice_pipe_to_file,
      splice_pipe_to_pipe |-> splice_pipe_to_pipe,
      splice_chunked |-> splice_chunked,
      splice_with_tee |-> splice_with_tee,
      sendfile_file_to_file |-> sendfile_file_to_file,
      sendfile_file_to_socket |-> sendfile_file_to_socket,
      sendfile_chunked |-> sendfile_chunked,
      compare_performance |-> compare_performance,
      compare_splice_traditional |-> compare_splice_traditional,
      create_test_file |-> create_test_file,
      open_read_write |-> open_read_write,
      direct_io |-> direct_io,
      unblocking |-> unblocking,
      aio_batch_io |-> aio_batch_io ]

(* The main functions: the routines they call, and whether they return at   *)
(* the first one that fails or report it and go on.                         *)

standard_io_main ==
    [calls |-> <<"standard_write_file", "standard_read_file", "lseek_example">>,
     stops |-> TRUE]

buffered_io_main ==
    [calls |-> <<"buffered_write_file", "buffered_read_file",
                 "read_line_by_line", "fprintf_example", "fscanf_example">>,
     stops |-> TRUE]

page_cache_main ==
    [calls |-> <<"standard_io_with_fsync", "mmap_with_msync", "o_direct_io",
                 "standard_io_with_fdatasync", "o_sync_io",
                 "sync_file_range_example">>,
     stops |-> FALSE]

libaio_main ==
    [calls |-> <<"aio_write", "aio_read", "aio_batch_io">>, stops |-> TRUE]

io_uring_main == [calls |-> <<"io_uring_read_example">>, stops |-> FALSE]

epoll_nonblocking_main ==
    [calls |-> <<"create_test_file", "epoll_read_example",
                 "epoll_multi_file_example", "epoll_edge_triggered_example",
                 "epoll_timeout_example">>,
     stops |-> FALSE]

splice_main ==
    [calls |-> <<"create_test_file", "splice_file_to_pipe",
                 "splice_pipe_to_file", "splice_pipe_to_pipe", "splice_chunked",
                 "splice_with_tee", "compare_splice_traditional">>,
     stops |-> FALSE]

sendfile_main ==
    [calls |-> <<"create_test_file", "sendfile_file_to_file",
                 "sendfile_chunked", "compare_performance">>,
     stops |-> FALSE]

\* A program of one routine; sendfile_file_to_socket is called by hand.
Single(r) == [calls |-> <<r>>, stops |-> TRUE]

Mains ==
    [ standard_io |-> standard_io_main, buffered_io |-> buffered_io_main,
      page_cache |-> page_cache_main, libaio |-> libaio_main,
      io_uring |-> io_uring_main, epoll_nonblocking |-> epoll_nonblocking_main,
      splice |-> splice_main, sendfile |-> sendfile_main,
      sendfile_by_hand |-> Single("sendfile_file_to_socket"),
      open |-> Single("open_read_write"), direct_io |-> Single("direct_io"),
      unblocking |-> Single("unblocking") ]

VARIABLES
    program,   \* the program that runs
    call,      \* which of its calls main has reached
    at,        \* index of its next step
    cleanup,   \* releases that its error branch still has to do
    result,    \* "running", "ok" or "failed"
    held,      \* resources acquired and not released
    inflight,  \* a submitted request has not completed
    staged,    \* units in the stdio buffer
    cached,    \* units that reached the page cache
    disk       \* units that reached the disk

vars == <<program, call, at, cleanup, result, held, inflight, staged, cached, disk>>

main == <<program, call>>
routine == Mains[program].calls[call]
Steps == Routines[routine]
step == Steps[at]

Init ==
    /\ program \in DOMAIN Mains
    /\ call = 1
    /\ at = 1
    /\ cleanup = << >>
    /\ result = "running"
    /\ held = {}
    /\ inflight = FALSE
    /\ staged = 0
    /\ cached = 0
    /\ disk = 0

data == <<staged, cached, disk>>

AtStep(kinds) ==
    result = "running" /\ at <= Len(Steps) /\ step.kind \in kinds

Goto == at' = at + 1 /\ UNCHANGED <<main, cleanup, result>>

\* The steps whose failure the routine looks at.
Checked ==
    {"open", "call", "write", "writesync", "writeall", "copy", "fwrite",
     "fflush", "sync", "submit", "reap"}

\* A checked call fails: its error branch runs and the routine returns -1.
Fail ==
    /\ AtStep(Checked)
    /\ result' = "failed"
    /\ cleanup' = step.undo
    /\ UNCHANGED <<main, at, held, inflight, data>>

Acquire ==
    /\ AtStep({"open", "opentry"})
    /\ held' = held \cup step.res
    /\ Goto
    /\ UNCHANGED <<inflight, data>>

Proceed ==
    /\ AtStep({"call", "try", "opentry"})
    /\ Goto
    /\ UNCHANGED <<held, inflight, data>>

\* io_destroy waits for the requests of a context, io_uring_queue_exit does
\* not; fclose flushes the stream.
Released(res) ==
    /\ held' = held \ res
    /\ inflight' = (inflight /\ "ctx" \notin res)
    /\ cached' = IF "fp" \in res THEN cached + staged ELSE cached
    /\ staged' = IF "fp" \in res THEN 0 ELSE staged
    /\ UNCHANGED disk

ReleaseStep ==
    /\ AtStep({"close"})
    /\ Released(step.res)
    /\ Goto

ReleaseInCleanup ==
    /\ result = "failed"
    /\ cleanup # << >>
    /\ Released({Head(cleanup)})
    /\ cleanup' = Tail(cleanup)
    /\ UNCHANGED <<main, at, result>>

\* A single write may be short and the routine goes on.
WriteOnce ==
    /\ AtStep({"write", "writesync"})
    /\ \E n \in 1 .. Size - cached :
         /\ cached' = cached + n
         /\ disk' = IF step.kind = "writesync" THEN cached + n ELSE disk
    /\ Goto
    /\ UNCHANGED <<held, inflight, staged>>

\* A loop of writes goes on until everything is written; an interrupted write
\* is tried again.
WriteLoop ==
    /\ AtStep({"writeall"})
    /\ \E n \in 1 .. Size - cached : cached' = cached + n
    /\ at' = IF cached' = Size THEN at + 1 ELSE at
    /\ UNCHANGED <<main, cleanup, result, held, inflight, staged, disk>>

\* The loops of compare_performance and compare_splice_traditional do not look
\* at how much was written, and end at any result of read below 1.
CopyLoop ==
    /\ AtStep({"copy"})
    /\ \E n \in 0 .. Size - cached : cached' = cached + n
    /\ at' \in {at, at + 1}
    /\ UNCHANGED <<main, cleanup, result, held, inflight, staged, disk>>

Stdio ==
    /\ \/ AtStep({"fwrite"}) /\ \E n \in 0 .. Size : staged' = n /\ cached' = Size - n
       \/ AtStep({"fflush"}) /\ staged' = 0 /\ cached' = cached + staged
       \/ AtStep({"store"}) /\ staged' = 0 /\ cached' = Size
    /\ Goto
    /\ UNCHANGED <<held, inflight, disk>>

SyncStep ==
    /\ AtStep({"sync"})
    /\ disk' = cached
    /\ Goto
    /\ UNCHANGED <<held, inflight, staged, cached>>

SubmitStep ==
    /\ AtStep({"submit"})
    /\ inflight' = TRUE
    /\ Goto
    /\ UNCHANGED <<held, data>>

\* The device completes the request.
Complete ==
    /\ inflight
    /\ inflight' = FALSE
    /\ UNCHANGED <<main, at, cleanup, result, held, data>>

ReapStep ==
    /\ AtStep({"reap"})
    /\ ~inflight
    /\ Goto
    /\ UNCHANGED <<held, inflight, data>>

\* The kernel writes dirty pages back when it likes.
WriteBack ==
    /\ disk < cached
    /\ disk' = disk + 1
    /\ UNCHANGED <<main, at, cleanup, result, held, inflight, staged, cached>>

Return ==
    /\ result = "running"
    /\ at = Len(Steps) + 1
    /\ result' = "ok"
    /\ UNCHANGED <<main, at, cleanup, held, inflight, data>>

Returned == result # "running" /\ cleanup = << >>

\* main goes on with the next routine, whose data is its own; what an earlier
\* routine failed to release would still be held.
NextCall ==
    /\ Returned
    /\ call < Len(Mains[program].calls)
    /\ result = "ok" \/ ~Mains[program].stops
    /\ call' = call + 1
    /\ at' = 1
    /\ result' = "running"
    /\ staged' = 0 /\ cached' = 0 /\ disk' = 0
    /\ UNCHANGED <<program, cleanup, held, inflight>>

Next ==
    \/ Fail \/ Acquire \/ Proceed \/ ReleaseStep \/ ReleaseInCleanup
    \/ WriteOnce \/ WriteLoop \/ CopyLoop \/ Stdio \/ SyncStep
    \/ SubmitStep \/ Complete \/ ReapStep \/ WriteBack \/ Return \/ NextCall

Spec == Init /\ [][Next]_vars

-----------------------------------------------------------------------------
(* Properties. *)

\* Whichever calls fail, in whichever of the routines that main calls in turn, a
\* routine releases everything it acquired before it returns: no error branch
\* forgets a descriptor, a buffer or a context.
NoLeak == Returned => held = {}

\* No step and no error branch releases, or uses, what is not held: nothing is
\* closed twice and nothing is used after it was closed (except the descriptors
\* the two comparisons open without looking at the result).
OnlyHeldIsUsed ==
    /\ cleanup # << >> => Head(cleanup) \in held
    /\ result = "running" /\ at <= Len(Steps) => step.uses \subseteq held

\* The buffer of a libaio request is not freed while the device may still
\* access it, also when waiting for the completion fails.
BufferOutlivesRequest ==
    routine \in {"aio_write", "aio_read"} /\ inflight => "buf" \in held

\* The routines that write in a loop or through a stream and then sync.  The
\* others call write once and accept a short count.
LoopingWriters ==
    {"standard_write_file", "buffered_write_file", "mmap_with_msync",
     "splice_chunked", "sendfile_chunked"}

\* When a routine that loops or flushes, and syncs, reports success, all its
\* data is on the disk, whatever writes were short or interrupted.
SuccessIsDurable ==
    result = "ok" /\ routine \in LoopingWriters => disk = Size
=============================================================================

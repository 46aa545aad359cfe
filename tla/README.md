# Verification of SystemProgramming

TLA+ models of the programs of this repository that keep state across steps,
with model-checking runs (TLC) and machine-checked proofs (TLAPS). The
repository is a collection of small C and C++ programs about Linux system
programming; there is no single system. What the programs share is the kind of
mistake they are exposed to: threads and signals that interleave, callbacks
that re-enter a container, descriptors that must be closed on every error
branch, edge-triggered events that come once, writes that are short. The models
follow the programs that carry logic of their own; `PROJECT.json` maps every
definition to the lines it models.

## Inventory

| Part | State | Operations | What is hard |
|---|---|---|---|
| `06_mutex/semaphone.c` | ring buffer, `in`, `out`, two semaphores, a mutex | producer and consumer threads | interleaving; `in` and `out` are never compared |
| `09_epoll/time_heap.c` | array of timer pointers ordered as a min-heap, capacity | constructors, `add_timer`, `del_timer`, `pop_timer`, `tick`, destructor | callbacks re-enter the container while `tick()` holds its top; lazy deletion; growth |
| `09_epoll/time_wheel.c` | `N` doubly linked lists, current slot | `add_timer`, `del_timer`, `tick`, destructor | callbacks change the list that `tick()` walks; wrap-around at multiples of `N` |
| `09_epoll/02_epoll_et.c`, `tcp_udp.c`, `do_two_thing_epoll.c`, `epollhup.c` | epoll set, connections, receive buffers | accept, read, echo, close | arrivals between any two system calls; one event per edge; resets; SIGPIPE |
| `12_aio/*.c` routines | descriptors, buffers, contexts held; data in stdio, page cache, disk | 31 routines of up to about 15 calls, and the main functions that call them in turn | any call may fail, writes may be short, requests outlive a failed wait |
| `12_aio/libaio_demo.c`, `aio_batch_io` | requests in flight, buffers | submit, wait, clean up | partial submission, signals, order of completion |
| `09_epoll/glibc_aio.c` | one request, a signal handler | submit, test, `pause` | the signal may come before `pause` |
| `09_epoll/2pc.c` | the connection, the vote | coordinator with one participant | a vote in pieces, a participant that crashes |
| `07_signal/*`, `03_process/05_sigpipe_a.c`, `06_sigpipe_b.c` | handlers, masks, pending signals, timers | install, block, raise, deliver | delivery between any two steps |
| `07_signal/five_children.c`, `03_process/multi-process.cpp` | children, a counter | fork, SIGCHLD handler, wait | signals coalesce |
| `05_ipc/pipe/*`, `10_project/myshell.c` | pipe ends of several processes | fork, dup, exec, read to end of file | an end that stays open, a pipe that fills |
| `08_socket/*`, `10_project/server.c`, `multiprocess.c`, `multithread.c` | sockets, processes or threads | request and answer | lost datagrams, resources per client |
| `11_algorithm/hash_table.c`, `linked_list.c`, `01_linux/bubble_sort.c` | tables and lists | put, get, remove, sort | duplicates, empty and single-element cases |
| everything else | none that lasts | one demonstration each | - |

The programs do not call each other. Inside a program the interactions are:
producer and consumer over semaphores and a mutex; parent and children over
pipes, signals and `waitpid`; clients and servers over sockets; a timer container and the
callbacks it calls; a server, the kernel and its peers; a routine and the
device that works on its requests.

What makes each modelled part correct:

* *ring buffer*: it is a bounded first-in first-out queue, and neither thread
  starves;
* *timer heap*: timers fire earliest first, never early, once, never after
  `del_timer`; the array is a heap of exactly the allocated timers; `tick()`
  returns;
* *time wheel*: a timer fires exactly at the tick that its slot and rotation
  encode; the lists are well formed; the walk never holds a freed timer;
* *servers*: a server does not sleep on what it has not read; a connection is
  closed after its last byte, unless the client or a failed call broke it off,
  and is closed once its client is gone;
* *file routines*: nothing leaks and nothing is used after release, whichever
  call fails; success means the data is on the disk;
* *processes and pipes*: a program that is to end does, with every child reaped,
  and output arrives where the redirections lead it;
* *clients and servers*: a client is answered, in order and whatever other
  clients do, and its connection is released when it leaves;
* *two-phase commit*: no commit without a vote for it, and one decision;
* *data structures*: the hash table is a write-once map, the list holds what
  was added and not removed, the array is a sorted rearrangement;
* *batched I/O*: exactly what was allocated is freed, no request is left in
  flight, and the routine returns.

`PROJECT.json` lists every component, the ones that are not modelled with the
reason, and the hazards at their lines.

## Modules

| Module | Role |
|---|---|
| `BoundedQueue` | abstract specification: a bounded FIFO queue |
| `SemBuffer`, `MCSemBuffer`, `SemBufferProofs` | `semaphone.c`; implements `BoundedQueue` |
| `HeapParameters`, `WheelParameters` | constants of the timer containers and their assumptions |
| `TimerQueue` | abstract specification of the timer heap |
| `TimeHeap`, `MCTimeHeap`, `TimeHeapProofs` | `time_heap.c`; implements `TimerQueue` |
| `TickTimers` | abstract specification of the time wheel |
| `TimeWheel`, `MCTimeWheel`, `TimeWheelProofs` | `time_wheel.c`; implements `TickTimers` |
| `EpollServer`, `MCEpollServer`, `EpollServerProofs` | the four epoll servers |
| `FileRoutines`, `MCFileRoutines`, `FileRoutinesProofs` | the programs of `12_aio`, `02_file_io` and `unblocking.c` |
| `AioBatch`, `MCAioBatch`, `AioBatchProofs` | `aio_batch_io` |
| `Programs` | the programs with processes, pipes, signals and blocking sockets, as sequences of calls |
| `Processes`, `MCProcesses`, `ProcessesProofs` | the processes and the kernel that run them |
| `WriteOnceMap` | abstract specification of the hash table |
| `HashTable` | `hash_table.c`; implements `WriteOnceMap` |
| `LinkedList`, `BubbleSort` | `linked_list.c`, `bubble_sort.c` |
| `MCStructures`, `StructuresProofs` | the run and the proofs of the three |

Operators whose names end in `Fault`, `Stale` or `Early` are not part of any specification. Each is a variant of the definition that
follows it, with a mistake the code could plausibly contain; `PROJECT.json`
("mutants") says which property notices it.

### Correspondence with the code

**SemBuffer.** One action per statement that touches shared state: `sem_wait`,
`pthread_mutex_lock`, the access to `buffer[in]` or `buffer[out]`, the advance
of the position, `pthread_mutex_unlock`, `sem_post`. `pcP` and `pcC` are the
next statements. `rand() % 100` is a choice from `Items`. Printing and `sleep`
are left out; a sleep is an interleaving. The refinement mapping counts an
item from the write to the read, before `sem_post(&full)` and after
`sem_wait(&full)`.

**TimeHeap.** `add_timer`, `del_timer`, `pop_timer` and the destructor are one
action each. `tick()` is split where control leaves the class, at the call of
`cb_func`: `TickBegin` reads the clock and the top, `TickCall` enters a
callback, `TickSkip` pops a lazily deleted timer, `CallbackReturn` pops
`array[0]` whatever it is by then, `TickEnd` leaves the loop. In state
`callback` the clients' operations are enabled, which is re-entrancy. Timer
objects are addresses: a freed one may be allocated again. Each loop over
the array is its body, a function of the array and the hole (`SiftUpBody`,
`PercolateBody`), repeated as often as the loop can go round at most; a round
that changes nothing is the `break`. A timer is built when it is added, with a
delay that is not negative: `expire` is fixed by the constructor, so a timer that
was built before a callback and is added in it could be earlier than the one
that fires, and the properties about the running timer are not claimed for it.

**TimeWheel.** As above, down to `next`, `prev` and the slot heads. `count`
(completed ticks), `asked` and `due` are history variables for the refinement
mapping. A callback may add timers and delete any timer but its own: `tick()`
deletes that one itself after the call, so deleting it is a use the class does
not support, and no code in the repository does it.

**EpollServer.** The four programs share one event loop and differ in which
sockets are edge-triggered, whether a connection is read in a loop, whether
hang-ups come first, whether data is echoed and the result of the echo is
looked at, and what else is watched. The variable `prog`, fixed at the start,
names the program; the records `epoll_et`, `tcp_udp`, `do_two_thing` and
`epollhup` say how it is written. Each system call of the server is a step.
Clients connect, send, half-close, close and reset between any two of them,
before being accepted too. `edge` is the set of descriptors with an arrival
that `epoll_wait` has not yet reported. It reports `MaxEvents` descriptors at
most, from a queue: `behind` are the ones that did not fit and come first the
next time. Data is counted in chunks of one
buffer. A client that has closed may answer an echo with a reset, and the next
echo then raises SIGPIPE (`AnswerKills`). The calls fail where the code has a
branch for it or ignores the result: `epoll_wait` ends the program
(`EpollWaitFails`); `accept` leaves the connection in the backlog
(`AcceptFails`); when `epoll_ctl` fails the connection is closed, or kept
without being watched (`RegisterFails`, state `unwatched`); reading stdin
or the datagram socket fails (`OtherFails`); the echo fails on a client that reset
(`AnswerFails`) and, with EAGAIN, on one that is up and does not read its answers
(`AnswerBlocks`). `failed` is a history variable with the clients whose `epoll_ctl` or
`write` failed. `fcntl` on a descriptor that was just opened does not fail. The
set-up before the loop, which exits on failure, is the initial state.

**FileRoutines.** A main function is a sequence of routines and the choice
between stopping at the first failure and going on; what a routine fails to
release is still held in the next one. Each routine is a sequence of steps, and a checked step
carries the releases of its error branch in their order. One interpreter runs
all of them: any checked step may fail, writes may be short, requests complete
when the device likes, and the kernel writes pages back when it likes. `staged`,
`cached` and `disk` count the data in the stdio buffer, the page cache and on
the disk; what is on the disk is what a crash leaves. The pair of `splice`
calls in the loop of `splice_chunked` is one write that makes progress (nothing
is claimed about the end of that loop), and a `munmap` or `close` that fails
counts as a release: the code does not try again.

**AioBatch.** `aio_batch_io` with its loops. `io_submit` accepts a prefix of
the requests, `io_getevents` asks for all of them, a signal ends it early with
what there is, `io_destroy` waits for the requests in flight.

**Programs and Processes.** `Programs` has one sequence per process, thread or
handler: the calls that touch other processes, in the order of the code, with
the step the code goes to after an end of file and after an error, and what it
does when `fork` fails. `Processes` gives the calls their meaning, one step per
system call. The state is a process table (`proc`: next step, buffer, pending
and blocked signals, handlers, run, zombie or gone), the descriptor table of
each process (`fds`, copied by `fork`), the contents of pipes and connections
(`chan`), resets (`cond`) and the backlog. End of file is a channel that no
descriptor table writes any more, so that a forgotten `close` shows. `prog`,
fixed at the start, names the program. `server.c` and `multiprocess.c` are run with
two clients, `client.c` and `nc`, which is what `10_project/README.md` says to
test the servers with; `multithread.c` listens on a port that `client.c` does not
know and is run with two `nc`. `client.c` waits for the answer to a line before
it sends the next one; `nc` sends every line at once and prints what comes. The
coordinator of `2pc.c` has a participant. `failed` and `lost` are history
variables: a call of the kernel failed; a signal merged with a pending one or
came just before `pause()`, or a datagram was lost. The commands that are
executed, `cat`, `wc`, `nc` and the participant are not in the repository and are
written from how the programs use them. A read returns any prefix of what is
there; a pipe holds `Cap` messages. A message is what no read divides: a line that
TCP delivers in two parts is two messages, and a part of an answer that
`client.c` takes for all of it is not seen. A failed `pipe()` ends the process;
`two_pipe.c` and `myshell.c` do not look at the result and would go on with
uninitialised descriptors, which is not followed. Datagrams are lost but neither
duplicated nor reordered. Left out: set-up of the sockets, errors of
`accept`, `execvp` failing in `myshell.c`, and what servers print on their own
terminals.

**HashTable, LinkedList, BubbleSort.** `hash` is any function into the table,
chosen at the start and fixed: nothing depends on what `hashCode()` computes.
The list is its nodes with `next` pointers, `head`, `tail` and `len`, which
main() does not initialise and which wraps around; one step is one turn of the
loop of `remove_node` or `iterate_list`. One step of `BubbleSort` is one
comparison.

## Runs

| Run | Instance | Distinct states | Shows |
|---|---|---|---|
| `sem_buffer` | 5 slots (the program's), 2 items | 39 000 | exclusion, conservation of slots, no lost item, FIFO, progress of both threads |
| `time_heap` | 4 timers, delays 0-2, capacities 1 and 4, symmetric | 968 000 | heap order, ownership, the timer that runs is the earliest, order of firing across ticks and callbacks, refinement |
| `time_heap_live` | 3 timers, delays 0-1 | 620 000 | `tick()` returns |
| `time_wheel` | 3 timers, 3 slots, 9 ticks | 57 000 | lists, walk, no timer overdue, refinement, `tick()` returns |
| `time_wheel_on_time` | the same | violation | see below |
| `epoll_servers` | 2 clients, 2 chunks each, 1 datagram or line, 2 events at a time, all four programs | 890 000 | nothing left unread, what a connection is closed for, disconnects noticed, stdin ends the server |
| `epoll_et_accept` | the same, `02_epoll_et.c` | violation | see below |
| `file_routines` | 3 units of data, 12 programs, 31 routines | 1 500 | no leak, no use after release, durable success |
| `aio_batch` | 4 requests | 730 | exact clean-up, nothing in flight at return, return |
| `aio_batch_wait` | the same | violation | see below |
| `processes` | 27 programs, 5 children, pipes of 2 messages, 2 lines typed (3 for `multithread.c`) | 87 000 | programs end, children are reaped, output arrives, clients answered and released, commit only after READY |
| `structures` | 3 keys and 2 buckets with every hash function; 5 nodes; arrays of up to 5 | 892 000 | map, list, sort |

*Why these bounds.* Five slots is the program's own size, and two items tell
any two slots apart. Four timers give a heap of three levels, with an inner
node that has one child and one that has two; capacity 1 makes the array grow
twice. Delay 0 makes a callback add a timer that is as early as the one that
fires, and the clock moves while `tick()` runs. Three timers in one slot have a
head, a middle and a tail; distances below, at and above `N` = 3 and up to two
revolutions are in `Timeouts`. Two clients are enough for two arrivals to share
one event, and two chunks for data to be left after one read; with two events at a
time, one of three or four ready descriptors waits for the next `epoll_wait`, as
one beyond `MAX_EVENTS` would in the programs. Two chunks also mean that a client stops
sending: one that never does keeps the inner loop of `02_epoll_et.c` and `tcp_udp.c`
busy for as long as it sends, and the liveness properties are not claimed against
it. Three units let a
write be short twice. Five children is the number of `five_children.c` and
`multi-process.cpp`; a pipe of two messages is filled by the third line of
errors of a loud command; two lines, typed at either of two clients, let the
second one pass or wait for the first, and three let one client of
`multithread.c` leave with two of them unanswered while the other waits for the
answer to its own; two files take `myshell.c` through a
round that inherits the descriptors of the one before.

*Bounds by name.* `MaxTime` and `MaxTicks` bound the clocks, `MaxData` the data
a client sends, `MaxInput` the datagrams and lines, `Capacities` the initial capacities,
`MaxEvents` what one `epoll_wait` reports, `Cap` a pipe or socket buffer,
`MaxLines` the lines typed at the two terminals, for each program, `MaxEntries` a
bucket, `MaxNodes` and `MaxLen` the list and the array. The heap's capacity grows
only by doubling and is bounded by the number of timers.

*Deadlock* is checked in `sem_buffer`. The others may really stop: a routine returns, a container is destroyed, a server
waits for peers that have nothing more to say.

*Symmetry* is used for timers in runs that check no liveness.

### Fairness

* `SemBuffer`: weak fairness of each thread, that is, the scheduler runs a
  thread that can take a step. Nothing is assumed of the order in which the
  mutex or the semaphores admit threads.
* `TimeHeap`, `TimeWheel`: `tick()` runs to its end once called, since it is a
  loop of a running thread, and callbacks return. Nobody is obliged to call
  `tick()`, and the clock need not move.
* `EpollServer`: the server runs when it is not blocked in `epoll_wait`. Peers
  owe nothing, and calls may fail for ever.
* `Processes`: a process that can take a step does, a signal that can be
  delivered is, a timer expires and a request completes. Nobody has to type,
  leave, send a signal or lose a datagram.
* `AioBatch`: the process runs when it is not blocked and the device completes
  every request. Signals need not come.

`TickReturns` of the heap excludes one case: callbacks that go on for ever
adding timers with delay 0. Such a timer is expired at the time `tick()` read,
so the loop takes it in the same call; the code sets no bound.

### Where the code and its comments disagree

* `time_wheel_on_time`: the comments say that `rotation` records the rotations
  before a timer takes effect. A timer that a callback adds at a distance of a
  multiple of `N` is put at the head of the slot being walked, in front of the
  walk, and fires a revolution later. Between ticks the same distance is exact.
  `TickTimers` describes what the code does in both cases.
* `epoll_et_accept`: the repository's rule for edge triggering is to take
  everything at once (`12_aio/epoll_nonblocking.c:228`), but `et()` accepts one
  connection per event. The second of two clients that connect together waits
  in the backlog until a third one connects. With `Programs = {"tcp_udp"}` the
  same property fails on datagrams, with `{"do_two_thing"}` on connections that
  hold more than one buffer of data; with `{"epollhup"}` it holds.
* `aio_batch_wait`: the comment says that all requests are awaited. A signal
  ends `io_getevents` early, the routine reports that all requests are complete
  and frees buffers of requests in flight. `io_destroy`, which comes after,
  waits for them, so that none is left after the return.

`Finishes` excludes, by the history variables, three hangs that the code really
has: `five_children.c` when two SIGCHLDs became one, `glibc_aio.c` when the
signal came between `aio_error` and `pause`, `pipe_fork_exec.c` when the command
writes more errors than the pipe holds before its output ends. Without the
exclusions TLC shows each of them.

`LinesAnswered` excludes one behaviour of `multithread.c`: a client that sends two
messages and leaves makes the second answer (line 37) raise SIGPIPE, which
nobody handles, so that the process ends with all its threads and the other
client is cut off without its answer. Without the exclusion TLC shows it. In
`multiprocess.c` the same ends one child and disturbs no other client, and nothing
is excluded. A client that ends because the server closed its connection does
not count as answered or as one that left; a client that was killed does.

`ClosedAfterLastByte` allows three reasons for closing a connection that has data
left: the client reset it; in `epollhup.c` the hang-up is served before the
data; and a call on this very connection failed in one of the servers that look.
The last one includes a client of `do_two_thing_epoll.c` that is up but does not read
its answers: the connection is not blocking, the echo fails with EAGAIN, and the
server closes it whatever is unread.

More that the models show without a run of their own: the child of
`fork_sigprocmask.c` never unblocks SIGINT although its comment says so (line
28); `server.c` goes on for ever with reads that return 0 once its client has
left; `multiprocess.c` does not reap the children it forks; `02_epoll_et.c` and `tcp_udp.c`
keep a connection that `epoll_ctl` refused and never serve it;
`04_tcp_socket_server.c` releases a client that has gone only because it goes on
answering until SIGPIPE ends it; `myshell.c` prints
the result of the last file only; when `io_submit`
accepts fewer requests than asked for, `aio_batch_io` waits for ever
(`FullBatchReturns` is stated for the other case); the routines of
`page_cache.c` that call `write` once report success after a short write
(`SuccessIsDurable` is stated for the routines that loop or flush).

## Proofs

TLAPS proves the following for every value of the constants that satisfies the
named assumptions.

**SemBufferProofs** (`BUFFER_SIZE` a positive number, `Items` not empty). The
inductive invariant `IInv` is `TypeOK /\ MutualExclusion /\ SlotsConserved /\
PositionsAgree`. None of the four is inductive alone: that a position update
keeps `in` and `out` apart needs the number of unread slots to be at most
`BUFFER_SIZE`, which needs the sum of the two semaphores, which counts a thread
by its place between wait and post. `NoItemIsLost` follows from `IInv` by
arithmetic on the circle: a slot `Unread` steps ahead of the read position
differs from every slot fewer steps ahead when `Unread < BUFFER_SIZE`.
`Refinement` shows that the write is `Put`, the read is `Get`, and every other
statement leaves the abstract queue as it is, although it moves an item between
the counts that make up `Unread`.

**TimeHeapProofs** (finitely many timer addresses, `Delays` natural numbers,
`Capacities` positive). `HeapRefinesTimerQueue`, and for the container itself
`ArrayIsHeap`, `ArrayHoldsAliveTimers`, `FiringTimerStaysRoot`,
`HeapFiresInOrder` and the action property `HeapFireOrder`. The proof has three
layers. *Loops*: an invariant of the rounds holds at the end of a loop
(`RepeatKeeps`), by induction in the form that every nonempty set of naturals
has a least element. *Arrays*: in the loop of `add_timer` the array is ordered
but at the hole, and the children of the hole are not earlier than its parent
(`Rising`); in `percolate_down` only the children of the hole may be earlier
than it (`Sinking`, from the node the loop started at, which is what the
constructor's loop needs); a round exchanges the timer in the hole with an entry,
so nothing is lost or kept twice. `SiftUpRight` says one thing more: a timer that
is not earlier than the root does not reach it, and this is where the `<=` of
`add_timer` counts. *Container*: the inductive invariant `HeapInv` joins the
order and the content of the array with three facts. `tick()` holds the root; the
timer whose callback runs is the root and was due when the tick read the clock;
nothing left is due before what fired last. What a callback adds is due at or
after `now`, hence not before the timer that is firing, which therefore stays the
root until `pop_timer` deletes it.

**TimeWheelProofs** (`N` and the tick interval positive, finitely many timer
addresses). `WheelRefinesTickTimers`, `ListsAlwaysWellFormed`, `WalkNeverStale`
and `NoneEverOverdue`, for every number of slots and timers and all timeouts.
The inductive invariant `WheelInv` has two parts besides the types. `Ranked`
says that the timers of each list can be ordered by a number so that the head
comes first and `next` and `prev` lead to the neighbours; a new head gets a
smaller number than all others, so nothing is renumbered. `Encodes` says that
`due` is the completed ticks, plus the revolutions left, plus the slots ahead,
where a timer that `tick()` has passed in the current slot, which is one of a
smaller rank than `tmp`, is a whole revolution ahead. This is what is not
inductive without the ranks: a callback may add to the slot being walked, and
whether the timer is reached in this tick is decided by its place in the list.
That the destructor meets every timer (`ListOfSlot`) is a counting argument: a
walk that missed one would go on in front of it for more steps than there are
timers. `ListOf` is a recursive function on numbers; what it computes is proved
by induction in the form that every nonempty set of naturals has a least
element (`Least`, `Induction`, `WalkExists`).

**AioBatchProofs** (`AIO_EVENTS` positive). `NothingLeaks`, `FreesExactly` and
`QuietAfterReturn` from the invariant `Ownership`, which says for every
statement which buffers are allocated (those below `i` while allocating, those
from `i` to the limit of the loop while freeing) and which of file and context
are open, together with the fact that requests are in flight only between
submission and `io_destroy`.

**StructuresProofs.** *Hash table* (`Size` positive, nothing about keys, values
or the hash function). `DictRefinesMap`: `dictPut` and `dictGet` are steps of
`WriteOnceMap` under the map that gives each key what a lookup finds. The
inductive invariant is that the table has its type. The argument is in three
lemmas: the cursor stops at one place at most; a new entry in front of a bucket
is found by its own key, also when the key is there already with NULL; and it
hides no other key of the same bucket.

*Linked list*. `ListAlwaysHoldsContent`: `head`, `tail` and the `next` pointers
are those of the sequence of nodes added and not removed, `len` is its length
modulo the width of the counter, and a finished iteration has printed all of
it. What is needed besides: while `remove_node` searches, `prev` is the node
before `cursor` and no node up to `prev` has the value; while `iterate_list`
runs, what is printed and what is reached from `cursor` make up the list. That
the counter may start anywhere and wrap needs a lemma on remainders.

*Bubble sort*. `AlwaysSortsTheInput`: at the end the array is sorted and has
every value as often as the input. The invariant says that after `i` rounds the
last `i` elements are in order and at least as large as every other, and that
inside a round the element at `j` is the largest so far. That a swap keeps the
number of occurrences is a bijection between the two sets of positions.

**EpollServerProofs** (clients are none of the server's own descriptors).
`ConnectionsAlwaysDrained` and `AlwaysClosedAfterLastByte` for every set of
clients, every amount of data, every size of the event array and all four
programs, whichever calls fail. The first one is not
inductive: an arrival may come at any place of the loop. `NothingForgotten`
states, for the edge-triggered server that reads in a loop, where the
obligation to read a connection is at every moment: in the edge that
`epoll_wait` has not reported, in the events that the loop has yet to serve, or
in the loop that reads this connection now. A level-triggered connection is
reported again. The other parts say that no event is left when the server
waits, that a hang-up is only seen of a client that is gone, and for every
closed connection with data left which of the three reasons closed it.

**FileRoutinesProofs** (`Size` positive). `RoutinesNeverLeak`,
`OnlyHeldIsEverUsed`, `BufferAlwaysOutlivesRequest` and
`SuccessIsAlwaysDurable`. The routines are data, so the proof has two halves.
The first one looks at each of the 36 routines by itself: `Walks(S, H, O)` says
that `H` and `O`, what is held for certain and perhaps before each step, start
and end empty, that every step uses only what is held for certain, and that the
error branch of every checked step releases exactly what is held, each thing
once and the context of a request before its buffer. There is one lemma per
routine with its `H`. The second half is about the interpreter: the running
routine holds what its walk says, an error branch has exactly the rest to
release, a request in flight has its context and its buffer. For the five
writers that loop or flush, and sync, `ReachesDisk` gives the phase of the data
before each step (written in part, staged, cached, on the disk), and the
invariant says that the data is in this phase whatever writes were short. A
change to a routine that breaks one of the properties breaks its lemma.

**ProcessesProofs** (`Children` positive; nothing about the capacity of pipes
or the lines typed). The programs are data here too. A first group of lemmas
says once what each call does to the record of a process, its descriptors and
the channels, and that a process which is not the subject of a step keeps its
record but for the arrival of signals.

*Two-phase commit.* `CommitsOnlyIfReady`, from the invariant `VoteState` of the
two processes. `CommitOnlyIfReady` is far from inductive: that COMMIT is sent is
decided by what is in the coordinator's buffer, which came through the
connection, which carries what the participant wrote. `VoteConnection` says who
holds which end of the connection at which step and when it is in the backlog;
`VoteOrder` that, until the coordinator reads, what is on the way to it is
exactly what the participant has sent, and that nothing but DONE follows a vote
for READY, which may be in one piece or two; `VoteDecision` that the coordinator reaches the COMMIT
branch only with READY in its buffer, and that it has sent a decision only when
it has passed a branch. A reset, a crash and a write to a closed connection end
a process and keep all four parts.

*Reaping.* `NoneLeftBehind`, for the eight programs that wait, from `ReapBase`
and `ReapFeeding`. For the programs that fork a fixed number of children and
call `wait` or `waitpid` for each, `ReapProgress` ties the step of the main
process to the number of forks made and to the children reaped so far; one lemma
per program shows that no jump of its main function passes a fork or leaves out
a wait. For `five_children.c` and `multi-process.cpp`, whose number of children is
a parameter, `ReapCounting` says that the counter is the number of children that
were reaped, and that a SIGCHLD which is pending or being handled has a zombie to
show for it, two when it is both, so that the handler, which looks at no result
of `wait`, counts none it has not reaped. Merged signals make the counter late,
never early. `ReapFeeding` is what one would not expect to need: a
main process that writes to its child before it waits would be killed by SIGPIPE,
and leave the child behind, if the child could stop reading first. The invariant
says that before this write the pipe is empty and the child has not passed its
first `read`, so that it holds the read end.

**Only model-checked.** Liveness, which the prover does not handle, and
`OutputArrives` and `AnswersInOrder` of `Processes`: each needs an invariant of
the contents of every pipe or connection of its own for each program it is about
(seven and four programs), where `VoteState` is the one for a single program.

## What is not modelled

Output, formatting and `sleep`; the contents of buffers (so an overrun such as
`buffer[count] = '\0'` after a full read is not seen); signals other than the
ones named; exhaustion of memory inside the timer containers, whose `new` is
not checked; a wall clock that is set back. `01_epoll.c` uses `listen_fd`
outside its scope, `tee.c` has split identifiers and `01_fork.c` includes a C++
header: they do not compile. `02_wait.c`, `03_waitpid.c` and `04_exec.c` are
empty. The FIFO programs poll or replace themselves by `rm` and agree on
nothing; the counter of `pthread_mutex.c` rests on the mutual exclusion that
`SemBuffer` has; the mmap examples have no second process. The demonstrations
of a single call and the language exercises under `00_basic`, `C` and
`13_profiling` have no state to model.

## Plan

Modelled in this order: the ring buffer, the timer containers, the epoll
servers, the file routines, batched I/O; then the processes with pipes, signals
and sockets, the main functions of the file programs and the data structures.
What remains:

1. Proofs: `AnswersInOrder` and `OutputArrives` of `Processes`, program by
   program, on the lemmas about the calls in `ProcessesProofs`.
2. `epoll_wait` on regular files, which epoll refuses, in `FileRoutines`.

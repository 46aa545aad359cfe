--------------------------- MODULE ProcessesProofs ---------------------------
(* Two invariants of Processes, for every number of children and every       *)
(* capacity of a pipe: the coordinator of 2pc.c commits only after the vote   *)
(* READY (CommitsOnlyIfReady), and a program that waits for its children has  *)
(* reaped all of them when it ends (NoneLeftBehind).  The first part states   *)
(* what the calls do to the record of a process, the second is the invariant  *)
(* of a vote, the third the invariant of the programs with children.          *)
EXTENDS Processes, SequenceTheorems, FiniteSetTheorems, TLAPS

-----------------------------------------------------------------------------
(* The interpreter. *)

\* The fields of a process.
Rec(r) ==
    r = [body |-> r.body, pc |-> r.pc, life |-> r.life, buf |-> r.buf, shown |-> r.shown,
         sent |-> r.sent, lines |-> r.lines, asleep |-> r.asleep, handling |-> r.handling,
         pending |-> r.pending, masked |-> r.masked, action |-> r.action]

\* Every process has them.
Recs == DOMAIN proc = Procs /\ \A p \in Procs : Rec(proc[p])

\* The main process, the first children and the peers exist.
LEMMA ProcsHas == {0, 1, 2, 3, 4, 11, 12} \subseteq Procs /\ 0 .. Children \subseteq Procs
<1>1. PICK m : m = Max({Children, 4}) OBVIOUS
<1>2. \E x \in {Children, 4} : \A y \in {Children, 4} : x >= y BY ChildrenAssumption
<1>3. m \in {Children, 4} /\ \A y \in {Children, 4} : m >= y BY <1>1, <1>2 DEF Max
<1>4. m \in Nat /\ m >= 4 /\ m >= Children /\ Children \in Nat BY <1>3, ChildrenAssumption
<1>5. Pids = 0 .. m BY <1>1 DEF Pids
<1> QED BY <1>4, <1>5 DEF Procs, Peers

\* A process that starts has its fields.
LEMMA StartIs == ASSUME NEW b PROVE Rec(Start(b)) /\ Rec(Absent)
<1>1. \A c : Rec(Start(c)) BY DEF Rec, Start
<1>2. PICK r : r = Start("worker") OBVIOUS
<1>3. Rec(r) /\ Absent = [r EXCEPT !.life = "none"] BY <1>1, <1>2 DEF Absent
<1>4. Rec([r EXCEPT !.life = "none"]) BY <1>3 DEF Rec
<1> QED BY <1>1, <1>3, <1>4

\* Each call has a name, and a process takes the step it is at.
LEMMA StepIs ==
    ASSUME NEW p \in Procs, NEW s, Step(p), s = Now(p)
    PROVE  /\ Running(p)
           /\ s.op = "end" => Finish(p)
           /\ s.op = "fork" => DoFork(p, s)
           /\ s.op = "spawn" => DoSpawn(p, s)
           /\ s.op = "exec" => DoExec(p, s)
           /\ s.op \in {"wait", "waitany"} => DoWait(p, s)
           /\ s.op = "poll" => DoPoll(p, s)
           /\ s.op = "until" => DoUntil(p, s)
           /\ s.op = "pipe" => DoPipe(p, s)
           /\ s.op = "open" => DoOpen(p, s)
           /\ s.op = "close" => DoClose(p, s)
           /\ s.op = "dup2" => DoDup2(p, s)
           /\ s.op = "read" => DoRead(p, s)
           /\ s.op = "write" => DoWrite(p, s)
           /\ s.op = "connect" => DoConnect(p, s)
           /\ s.op = "accept" => DoAccept(p, s)
           /\ s.op = "if" => DoControl(p, s)
           /\ s.op = "signal" => DoSignal(p, s)
           /\ s.op # "input" /\ s.op # "spin"
<1>1. Running(p) BY DEF Step
<1>2. DoFork(p, s) => s.op = "fork" BY DEF DoFork
<1>3. DoSpawn(p, s) => s.op = "spawn" BY DEF DoSpawn
<1>4. DoExec(p, s) => s.op = "exec" BY DEF DoExec
<1>5. DoWait(p, s) => s.op \in {"wait", "waitany"} BY DEF DoWait
<1>6. DoPoll(p, s) => s.op = "poll" BY DEF DoPoll
<1>7. DoUntil(p, s) => s.op = "until" BY DEF DoUntil
<1>8. DoPipe(p, s) => s.op = "pipe" BY DEF DoPipe
<1>9. DoOpen(p, s) => s.op = "open" BY DEF DoOpen
<1>10. DoClose(p, s) => s.op = "close" BY DEF DoClose
<1>11. DoDup2(p, s) => s.op = "dup2" BY DEF DoDup2
<1>12. DoShutdown(p, s) => s.op = "shutdown" BY DEF DoShutdown
<1>13. DoRead(p, s) => s.op = "read" BY DEF DoRead
<1>14. DoWrite(p, s) => s.op = "write" BY DEF DoWrite
<1>15. DoConnect(p, s) => s.op = "connect" BY DEF DoConnect
<1>16. DoAccept(p, s) => s.op = "accept" BY DEF DoAccept
<1>17. DoControl(p, s) => s.op \in {"if", "ifbusy"} BY DEF DoControl
<1>18. DoSignal(p, s) => s.op \in {"signal", "mask", "unmask", "kill", "pause"}
  BY DEF DoSignal
<1>19. DoTimer(p, s) => s.op = "timer" BY DEF DoTimer
<1>20. DoAioRead(p, s) => s.op = "aio" BY DEF DoAioRead
<1>21. DoSelect(p, s) => s.op = "select" BY DEF DoSelect
<1>22. \/ s.op = "end" /\ Finish(p)
       \/ DoFork(p, s) \/ DoSpawn(p, s) \/ DoExec(p, s)
       \/ DoWait(p, s) \/ DoPoll(p, s) \/ DoUntil(p, s)
       \/ DoPipe(p, s) \/ DoOpen(p, s) \/ DoClose(p, s) \/ DoDup2(p, s) \/ DoShutdown(p, s)
       \/ DoRead(p, s) \/ DoSelect(p, s) \/ DoWrite(p, s) \/ DoConnect(p, s) \/ DoAccept(p, s)
       \/ DoControl(p, s) \/ DoSignal(p, s) \/ DoTimer(p, s) \/ DoAioRead(p, s)
  BY DEF Step
<1> QED
  BY <1>1, <1>2, <1>3, <1>4, <1>5, <1>6, <1>7, <1>8, <1>9, <1>10, <1>11, <1>12, <1>13,
     <1>14, <1>15, <1>16, <1>17, <1>18, <1>19, <1>20, <1>21, <1>22

\* The program that is run does not change.
LEMMA ProgStays == ASSUME [Next]_vars PROVE prog' = prog
<1>1. ASSUME NEW S, NEW before, Terminate(S, before) PROVE prog' = prog
  BY <1>1 DEF Terminate
<1>2. ASSUME NEW p \in Procs, FailAndExit(p) \/ Finish(p) \/ Sigpipe(p) PROVE prog' = prog
  BY <1>1, <1>2 DEF FailAndExit, Finish, Sigpipe
<1>3. ASSUME NEW p \in Procs, Step(p) PROVE prog' = prog
  <2> DEFINE s == Now(p)
  <2>1. CASE Finish(p) BY <1>2, <2>1
  <2> HIDE DEF s
  <2>2. CASE DoFork(p, s) BY <1>2, <2>2 DEF DoFork
  <2>3. CASE DoSpawn(p, s) \/ DoExec(p, s) \/ DoWait(p, s) \/ DoPoll(p, s) \/ DoUntil(p, s)
    BY <2>3 DEF DoSpawn, DoExec, DoWait, DoPoll, DoUntil, UnchangedOther
  <2>4. CASE DoPipe(p, s) BY <1>2, <2>4 DEF DoPipe, UnchangedOther
  <2>5. CASE DoOpen(p, s) \/ DoClose(p, s) \/ DoDup2(p, s) \/ DoShutdown(p, s) \/ DoRead(p, s)
    BY <2>5 DEF DoOpen, DoClose, DoDup2, DoShutdown, DoRead, UnchangedOther
  <2>6. CASE DoWrite(p, s)
    BY <1>2, <2>6 DEF DoWrite, WriteTerminal, WritePipe, WriteDatagram, WriteSocket,
                      UnchangedOther
  <2>7. CASE DoConnect(p, s) BY <1>2, <2>7 DEF DoConnect, UnchangedOther
  <2>8. CASE DoSelect(p, s) \/ DoAccept(p, s) \/ DoControl(p, s) \/ DoSignal(p, s)
             \/ DoTimer(p, s)
    BY <2>8 DEF DoSelect, DoAccept, DoControl, DoSignal, DoTimer, UnchangedOther
  <2>9. CASE DoAioRead(p, s) BY <1>2, <2>9 DEF DoAioRead
  <2> QED
    BY <1>3, <2>1, <2>2, <2>3, <2>4, <2>5, <2>6, <2>7, <2>8, <2>9 DEF Step, s
<1>4. ASSUME NEW p \in Procs, Deliver(p) PROVE prog' = prog
  BY <1>1, <1>4 DEF Deliver, UnchangedOther
<1>5. ASSUME NEW p \in Procs, HandlerReaps(p) \/ TypeLine(p) PROVE prog' = prog
  BY <1>5 DEF HandlerReaps, TypeLine, UnchangedOther
<1>6. ASSUME NEW p \in Procs, Leave(p) PROVE prog' = prog BY <1>1, <1>6 DEF Leave
<1>7. CASE Alarm \/ AioDone \/ AioNotify \/ SendSignal \/ LoseDatagram
  BY <1>7 DEF Alarm, AioDone, AioNotify, SendSignal, LoseDatagram, UnchangedOther
<1>8. CASE UNCHANGED vars BY <1>8 DEF vars
<1> QED BY <1>3, <1>4, <1>5, <1>6, <1>7, <1>8 DEF Next

-----------------------------------------------------------------------------
(* What the calls change. *)

\* The fields of a process that no call on descriptors changes.
Kept(p) ==
    /\ proc'[p].body = proc[p].body
    /\ proc'[p].life = proc[p].life
    /\ proc'[p].handling = proc[p].handling
    /\ proc'[p].pending = proc[p].pending
    /\ proc'[p].masked = proc[p].masked
    /\ proc'[p].action = proc[p].action
    /\ proc'[p].lines = proc[p].lines
    /\ proc'[p].asleep = proc[p].asleep

\* Nothing happens to the other processes.
Only(p) == \A q \in Procs : q # p => proc'[q] = proc[q]

\* The record of one process becomes r.
LEMMA UpdateOne ==
    ASSUME Recs, NEW p \in Procs, NEW r,
           proc' = [proc EXCEPT ![p] = r], Rec(r)
    PROVE  Recs' /\ Only(p) /\ proc'[p] = r
<1>1. DOMAIN proc' = Procs /\ (\A q \in Procs : q # p => proc'[q] = proc[q]) /\ proc'[p] = r
  BY DEF Recs
<1>2. \A q \in Procs : Rec(proc'[q]) BY <1>1 DEF Recs
<1> QED BY <1>1, <1>2 DEF Recs, Only

\* A step that sets the program counter.
LEMMA SetPc ==
    ASSUME Recs, NEW p \in Procs, NEW x, proc' = [proc EXCEPT ![p].pc = x]
    PROVE  /\ Recs' /\ Only(p) /\ Kept(p) /\ proc'[p].pc = x /\ proc'[p].buf = proc[p].buf
           /\ proc'[p].shown = proc[p].shown /\ proc'[p].sent = proc[p].sent
<1>1. PICK r : r = [proc[p] EXCEPT !.pc = x] OBVIOUS
<1>2. proc' = [proc EXCEPT ![p] = r] BY <1>1 DEF Recs
<1>3. Rec(proc[p]) BY DEF Recs
<1>4. /\ Rec(r) /\ r.pc = x /\ r.buf = proc[p].buf /\ r.shown = proc[p].shown
      /\ r.sent = proc[p].sent /\ r.body = proc[p].body /\ r.life = proc[p].life
      /\ r.handling = proc[p].handling /\ r.pending = proc[p].pending
      /\ r.masked = proc[p].masked /\ r.action = proc[p].action
      /\ r.lines = proc[p].lines /\ r.asleep = proc[p].asleep
  BY <1>1, <1>3 DEF Rec
<1>5. Recs' /\ Only(p) /\ proc'[p] = r BY <1>2, <1>4, UpdateOne
<1> QED BY <1>4, <1>5 DEF Kept

\* A step that also sets the buffer.
LEMMA SetBuf ==
    ASSUME Recs, NEW p \in Procs, NEW x, NEW b,
           proc' = [proc EXCEPT ![p].pc = x, ![p].buf = b]
    PROVE  /\ Recs' /\ Only(p) /\ Kept(p) /\ proc'[p].pc = x /\ proc'[p].buf = b
           /\ proc'[p].shown = proc[p].shown /\ proc'[p].sent = proc[p].sent
<1>1. PICK r : r = [proc[p] EXCEPT !.pc = x, !.buf = b] OBVIOUS
<1>2. proc' = [proc EXCEPT ![p] = r] BY <1>1 DEF Recs
<1>3. Rec(proc[p]) BY DEF Recs
<1>4. /\ Rec(r) /\ r.pc = x /\ r.buf = b /\ r.shown = proc[p].shown
      /\ r.sent = proc[p].sent /\ r.body = proc[p].body /\ r.life = proc[p].life
      /\ r.handling = proc[p].handling /\ r.pending = proc[p].pending
      /\ r.masked = proc[p].masked /\ r.action = proc[p].action
      /\ r.lines = proc[p].lines /\ r.asleep = proc[p].asleep
  BY <1>1, <1>3 DEF Rec
<1>5. Recs' /\ Only(p) /\ proc'[p] = r BY <1>2, <1>4, UpdateOne
<1> QED BY <1>4, <1>5 DEF Kept

\* A step after which more was sent.
LEMMA SetSent ==
    ASSUME Recs, NEW p \in Procs, NEW d, proc' = Written(p, d)
    PROVE  /\ Recs' /\ Only(p) /\ Kept(p) /\ proc'[p].pc = Pc(p) + 1
           /\ proc'[p].buf = proc[p].buf /\ proc'[p].shown = proc[p].shown
           /\ proc'[p].sent = proc[p].sent \o d
<1>1. PICK r : r = [proc[p] EXCEPT !.pc = Pc(p) + 1, !.sent = @ \o d] OBVIOUS
<1>2. proc' = [proc EXCEPT ![p] = r] BY <1>1 DEF Recs, Written
<1>3. Rec(proc[p]) BY DEF Recs
<1>4. /\ Rec(r) /\ r.pc = Pc(p) + 1 /\ r.buf = proc[p].buf /\ r.shown = proc[p].shown
      /\ r.sent = proc[p].sent \o d /\ r.body = proc[p].body /\ r.life = proc[p].life
      /\ r.handling = proc[p].handling /\ r.pending = proc[p].pending
      /\ r.masked = proc[p].masked /\ r.action = proc[p].action
      /\ r.lines = proc[p].lines /\ r.asleep = proc[p].asleep
  BY <1>1, <1>3 DEF Rec
<1>5. Recs' /\ Only(p) /\ proc'[p] = r BY <1>2, <1>4, UpdateOne
<1> QED BY <1>4, <1>5 DEF Kept

\* A step after which more was printed.
LEMMA SetShown ==
    ASSUME Recs, NEW p \in Procs, NEW x, NEW d,
           proc' = [proc EXCEPT ![p].pc = x, ![p].shown = @ \o d]
    PROVE  /\ Recs' /\ Only(p) /\ Kept(p) /\ proc'[p].pc = x
           /\ proc'[p].buf = proc[p].buf /\ proc'[p].sent = proc[p].sent
           /\ proc'[p].shown = proc[p].shown \o d
<1>1. PICK r : r = [proc[p] EXCEPT !.pc = x, !.shown = @ \o d] OBVIOUS
<1>2. proc' = [proc EXCEPT ![p] = r] BY <1>1 DEF Recs
<1>3. Rec(proc[p]) BY DEF Recs
<1>4. /\ Rec(r) /\ r.pc = x /\ r.buf = proc[p].buf /\ r.sent = proc[p].sent
      /\ r.shown = proc[p].shown \o d /\ r.body = proc[p].body /\ r.life = proc[p].life
      /\ r.handling = proc[p].handling /\ r.pending = proc[p].pending
      /\ r.masked = proc[p].masked /\ r.action = proc[p].action
      /\ r.lines = proc[p].lines /\ r.asleep = proc[p].asleep
  BY <1>1, <1>3 DEF Rec
<1>5. Recs' /\ Only(p) /\ proc'[p] = r BY <1>2, <1>4, UpdateOne
<1> QED BY <1>4, <1>5 DEF Kept

\* The record r of a process differs from b only in its life and its pending signals.
Alike(r, b) ==
    /\ r.body = b.body /\ r.pc = b.pc /\ r.buf = b.buf /\ r.shown = b.shown /\ r.sent = b.sent
    /\ r.lines = b.lines /\ r.asleep = b.asleep /\ r.handling = b.handling
    /\ r.masked = b.masked /\ r.action = b.action

\* Processes end, from the state before: one that is a child becomes a zombie, and
\* the main process perhaps gets SIGCHLD.
LEMMA TerminateEffect ==
    ASSUME Recs, ~Threaded, NEW S, NEW before, DOMAIN before = Procs,
           \A p \in Procs : Rec(before[p]), Terminate(S, before)
    PROVE  /\ Recs'
           /\ \A p \in Procs :
                /\ Alike(proc'[p], before[p])
                /\ p \notin S => proc'[p].life = before[p].life
                /\ p \in S /\ p \in 1 .. forks => proc'[p].life = "zombie"
                /\ p \in S /\ p \notin 1 .. forks => proc'[p].life = "gone"
                /\ \/ /\ proc'[p].pending = before[p].pending
                      /\ \/ p # 0 \/ S \cap (1 .. forks) = {} \/ 0 \in S
                         \/ before[0].life # "run"
                         \/ before[0].action["CHLD"] = "default"
                   \/ /\ p = 0 /\ proc'[p].pending = before[p].pending \cup {"CHLD"}
                      /\ before[p].action["CHLD"] # "default"
                      /\ S \cap (1 .. forks) # {} /\ 0 \notin S
           /\ fds' = [p \in Procs |-> IF p \in S THEN << >> ELSE fds[p]]
           /\ backlog' = backlog \/ backlog' = << >>
           /\ UNCHANGED << prog, chan, forks, count, timer, aio >>
<1> DEFINE children == S \cap (1 .. forks)
           after == [p \in Procs |->
                       IF p \notin S THEN before[p]
                       ELSE [before[p] EXCEPT
                               !.life = IF p \in children THEN "zombie" ELSE "gone"]]
           notify == children # {} /\ after[0].life = "run"
                       /\ after[0].action["CHLD"] # "default"
<1>1. /\ proc' = IF notify THEN [after EXCEPT ![0].pending = @ \cup {"CHLD"}] ELSE after
      /\ fds' = [p \in Procs |-> IF p \in S THEN << >> ELSE fds[p]]
      /\ backlog' = backlog \/ backlog' = << >>
      /\ UNCHANGED << prog, chan, forks, count, timer, aio >>
  BY DEF Terminate, Tables
<1>2. ASSUME NEW p \in Procs
      PROVE  /\ Rec(after[p]) /\ Alike(after[p], before[p])
             /\ p \notin S => after[p].life = before[p].life
             /\ p \in S /\ p \in 1 .. forks => after[p].life = "zombie"
             /\ p \in S /\ p \notin 1 .. forks => after[p].life = "gone"
             /\ after[p].pending = before[p].pending
  BY DEF Rec, Alike
<1>3. DOMAIN after = Procs /\ 0 \in Procs /\ 0 \notin 1 .. forks BY ProcsHas
<1> HIDE DEF after
<1>4. /\ after[0].life = "run" => 0 \notin S /\ before[0].life = "run"
      /\ 0 \notin S => after[0].life = before[0].life
      /\ after[0].action = before[0].action
      /\ after[0].pending = before[0].pending
  BY <1>2, <1>3 DEF Alike
<1>5. CASE ~notify
  <2>1. proc' = after BY <1>1, <1>5
  <2>2. S \cap (1 .. forks) = {} \/ 0 \in S \/ before[0].life # "run"
          \/ before[0].action["CHLD"] = "default"
    BY <1>4, <1>5
  <2> HIDE DEF children, notify
  <2>3. Recs' BY <1>2, <1>3, <2>1 DEF Recs
  <2> QED BY <1>1, <1>2, <2>1, <2>2, <2>3
<1>6. CASE notify
  <2>1. PICK r : r = [after[0] EXCEPT !.pending = @ \cup {"CHLD"}] OBVIOUS
  <2>2. proc' = [after EXCEPT ![0] = r] BY <1>1, <1>3, <1>6, <2>1
  <2>3. /\ proc'[0] = r /\ DOMAIN proc' = Procs
        /\ \A p \in Procs : p # 0 => proc'[p] = after[p]
    BY <1>3, <2>2
  <2>4. Rec(after[0]) BY <1>2, <1>3
  <2>5. /\ Rec(r) /\ Alike(r, after[0]) /\ r.life = after[0].life
        /\ r.pending = after[0].pending \cup {"CHLD"}
    BY <2>1, <2>4 DEF Rec, Alike
  <2>6. /\ S \cap (1 .. forks) # {} /\ before[0].action["CHLD"] # "default"
        /\ after[0].life = "run" /\ 0 \notin S
    BY <1>4, <1>6
  <2> HIDE DEF children, notify
  <2>7. Recs' BY <1>2, <2>3, <2>5 DEF Recs
  <2>8. /\ Alike(r, before[0]) /\ r.life = before[0].life
        /\ r.pending = before[0].pending \cup {"CHLD"}
    BY <1>2, <1>3, <1>4, <2>5, <2>6 DEF Alike
  <2> QED BY <1>1, <1>2, <1>3, <2>3, <2>6, <2>7, <2>8
<1> QED BY <1>5, <1>6

\* What happens when process p ends: its descriptors are closed; when it is a child it
\* becomes a zombie, and the main process gets SIGCHLD unless it ignores it.
Ends(p) ==
    /\ Recs'
    /\ \A q \in Procs :
         /\ proc'[q].body = proc[q].body /\ proc'[q].pc = proc[q].pc
         /\ proc'[q].buf = proc[q].buf /\ proc'[q].sent = proc[q].sent
         /\ proc'[q].handling = proc[q].handling /\ proc'[q].masked = proc[q].masked
         /\ proc'[q].action = proc[q].action
         /\ q # p => proc'[q].life = proc[q].life /\ proc'[q].shown = proc[q].shown
         /\ q # 0 => proc'[q].pending = proc[q].pending
    /\ p \in 1 .. forks => proc'[p].life = "zombie"
    /\ p \notin 1 .. forks => proc'[p].life = "gone"
    /\ \/ proc'[0].pending = proc[0].pending
       \/ /\ proc'[0].pending = proc[0].pending \cup {"CHLD"}
          /\ p \in 1 .. forks /\ proc[0].action["CHLD"] # "default"
    /\ fds' = [q \in Procs |-> IF q = p THEN << >> ELSE fds[q]]
    /\ backlog' = backlog \/ backlog' = << >>
    /\ UNCHANGED << prog, chan, forks, count, timer, aio >>

\* A process that is not a thread ends alone.
LEMMA Ending ==
    ASSUME Recs, ~Threaded, NEW p \in Procs,
           Finish(p) \/ Sigpipe(p) \/ FailAndExit(p) \/ Leave(p)
    PROVE  Ends(p) /\ (failed' = failed \/ failed' = TRUE)
<1>1. Group(p) = {p} BY DEF Group
<1>2. PICK before :
        /\ Terminate({p}, before) /\ (failed' = failed \/ failed' = TRUE)
        /\ before = proc \/ before = [proc EXCEPT ![p].shown = Append(@, "PIPE")]
  <2>1. CASE Finish(p) BY <1>1, <2>1 DEF Finish
  <2>2. CASE FailAndExit(p) BY <1>1, <2>2 DEF FailAndExit
  <2>3. CASE Leave(p) BY <2>3 DEF Leave
  <2>4. CASE Sigpipe(p)
    <3>1. CASE proc[p].action["PIPE"] = "exit" BY <1>1, <2>4, <3>1 DEF Sigpipe
    <3>2. CASE proc[p].action["PIPE"] # "exit" BY <1>1, <2>4, <3>2 DEF Sigpipe
    <3> QED BY <3>1, <3>2
  <2> QED BY <2>1, <2>2, <2>3, <2>4
<1>3. /\ DOMAIN before = Procs
      /\ \A q \in Procs :
           /\ Rec(before[q]) /\ before[q].body = proc[q].body /\ before[q].pc = proc[q].pc
           /\ before[q].buf = proc[q].buf /\ before[q].sent = proc[q].sent
           /\ before[q].handling = proc[q].handling /\ before[q].masked = proc[q].masked
           /\ before[q].action = proc[q].action /\ before[q].life = proc[q].life
           /\ before[q].pending = proc[q].pending
           /\ q # p => before[q].shown = proc[q].shown
  <2>1. CASE before = proc BY <2>1 DEF Recs
  <2>2. CASE before = [proc EXCEPT ![p].shown = Append(@, "PIPE")]
    <3>1. PICK r : r = [proc[p] EXCEPT !.shown = Append(@, "PIPE")] OBVIOUS
    <3>2. before = [proc EXCEPT ![p] = r] BY <2>2, <3>1 DEF Recs
    <3>3. Rec(proc[p]) BY DEF Recs
    <3>4. /\ Rec(r) /\ r.pc = proc[p].pc /\ r.buf = proc[p].buf /\ r.pending = proc[p].pending
          /\ r.sent = proc[p].sent /\ r.body = proc[p].body /\ r.life = proc[p].life
          /\ r.handling = proc[p].handling /\ r.masked = proc[p].masked
          /\ r.action = proc[p].action
      BY <3>1, <3>3 DEF Rec
    <3>5. /\ DOMAIN before = Procs /\ before[p] = r
          /\ \A q \in Procs : q # p => before[q] = proc[q]
      BY <3>2 DEF Recs
    <3> QED BY <3>4, <3>5 DEF Recs
  <2> QED BY <1>2, <2>1, <2>2
<1> DEFINE Out(q) ==
              /\ Alike(proc'[q], before[q])
              /\ q # p => proc'[q].life = before[q].life
              /\ q = p /\ q \in 1 .. forks => proc'[q].life = "zombie"
              /\ q = p /\ q \notin 1 .. forks => proc'[q].life = "gone"
              /\ \/ proc'[q].pending = before[q].pending
                 \/ /\ q = 0 /\ proc'[q].pending = before[q].pending \cup {"CHLD"}
                    /\ before[q].action["CHLD"] # "default" /\ p \in 1 .. forks
<1>4. /\ Recs' /\ \A q \in Procs : Out(q)
      /\ fds' = [q \in Procs |-> IF q = p THEN << >> ELSE fds[q]]
      /\ backlog' = backlog \/ backlog' = << >>
      /\ UNCHANGED << prog, chan, forks, count, timer, aio >>
  <2> DEFINE S == {p}
  <2>1. Terminate(S, before) BY <1>2
  <2>2. \A q : q \in S <=> q = p OBVIOUS
  <2> HIDE DEF S
  <2>3. /\ Recs'
        /\ \A q \in Procs :
             /\ Alike(proc'[q], before[q])
             /\ q \notin S => proc'[q].life = before[q].life
             /\ q \in S /\ q \in 1 .. forks => proc'[q].life = "zombie"
             /\ q \in S /\ q \notin 1 .. forks => proc'[q].life = "gone"
             /\ \/ proc'[q].pending = before[q].pending
                \/ /\ q = 0 /\ proc'[q].pending = before[q].pending \cup {"CHLD"}
                   /\ before[q].action["CHLD"] # "default"
                   /\ S \cap (1 .. forks) # {}
        /\ fds' = [q \in Procs |-> IF q \in S THEN << >> ELSE fds[q]]
        /\ backlog' = backlog \/ backlog' = << >>
        /\ UNCHANGED << prog, chan, forks, count, timer, aio >>
    BY <1>3, <2>1, TerminateEffect
  <2>4. S \cap (1 .. forks) # {} => p \in 1 .. forks BY <2>2
  <2>5. \A q \in Procs : Out(q) BY <2>2, <2>3, <2>4
  <2>6. fds' = [q \in Procs |-> IF q = p THEN << >> ELSE fds[q]] BY <2>2, <2>3
  <2> QED BY <2>3, <2>5, <2>6
<1>5. ASSUME NEW q \in Procs
      PROVE  /\ proc'[q].body = proc[q].body /\ proc'[q].pc = proc[q].pc
             /\ proc'[q].buf = proc[q].buf /\ proc'[q].sent = proc[q].sent
             /\ proc'[q].handling = proc[q].handling /\ proc'[q].masked = proc[q].masked
             /\ proc'[q].action = proc[q].action
             /\ q # p => proc'[q].life = proc[q].life /\ proc'[q].shown = proc[q].shown
             /\ q # 0 => proc'[q].pending = proc[q].pending
  <2>1. Out(q) BY <1>4
  <2> QED BY <1>3, <2>1 DEF Alike
<1>6. 0 \in Procs BY ProcsHas
<1>7. Out(p) /\ Out(0) BY <1>4, <1>6
<1>8. /\ p \in 1 .. forks => proc'[p].life = "zombie"
      /\ p \notin 1 .. forks => proc'[p].life = "gone"
      /\ \/ proc'[0].pending = proc[0].pending
         \/ /\ proc'[0].pending = proc[0].pending \cup {"CHLD"}
            /\ p \in 1 .. forks /\ proc[0].action["CHLD"] # "default"
  BY <1>3, <1>6, <1>7
<1> HIDE DEF Out
<1> QED BY <1>2, <1>4, <1>5, <1>8 DEF Ends

\* A write of d to the other side of a connection: it is sent, or swallowed, or refused.
SocketWrote(p, k, d) ==
    /\ Recs' /\ Only(p) /\ Kept(p) /\ proc'[p].pc = Pc(p) + 1
    /\ proc'[p].buf = proc[p].buf /\ proc'[p].shown = proc[p].shown
    /\ UNCHANGED << prog, fds, backlog, forks, count, timer, aio, failed >>
    /\ \/ /\ proc'[p].sent = proc[p].sent \o d
          /\ chan' = [chan EXCEPT ![k] = @ \o d]
       \/ /\ proc'[p].sent = proc[p].sent \o d
          /\ chan' = chan /\ Readers(k) = {}
       \/ proc'[p].sent = proc[p].sent /\ chan' = chan

\* A write to a connection does that, or ends the process.
LEMMA SocketWrite ==
    ASSUME Recs, ~Threaded, NEW p \in Procs, NEW k, NEW d, WriteSocket(p, k, d),
           DOMAIN chan = Channels, k \in Channels
    PROVE  SocketWrote(p, k, d) \/ (Ends(p) /\ failed' = failed)
<1> DEFINE here == Opposite(k)
           there == Readers(k) # {} \/ InBacklog(k)
<1>1. CASE /\ chan' = [chan EXCEPT ![k] = @ \o d] /\ proc' = Written(p, d)
           /\ UnchangedTables /\ UnchangedOther
  BY <1>1, SetSent DEF SocketWrote, UnchangedTables, UnchangedOther
<1>2. CASE /\ ~there /\ proc' = Written(p, d)
           /\ UNCHANGED << fds, backlog, chan >> /\ UnchangedOther
  BY <1>2, SetSent DEF SocketWrote, UnchangedOther
<1>3. CASE Advance(p) /\ UNCHANGED << fds, backlog, chan >> /\ UnchangedOther
  BY <1>3, SetPc DEF SocketWrote, UnchangedOther, Advance, GoTo
<1>4. CASE Sigpipe(p)
  <2>1. Ends(p) BY <1>4, Ending
  <2> QED BY <1>4, <2>1 DEF Sigpipe
<1> QED BY <1>1, <1>2, <1>3, <1>4 DEF WriteSocket

-----------------------------------------------------------------------------
(* The vote of 2pc.c: process 0 is the participant, process 11 the coordinator. *)

\* What the coordinator sends and what the participant sends.
Up == << "up", 11 >>
Down == << "down", 11 >>
\* In how many pieces the vote is sent.
Pieces == IF prog = "votes_in_pieces" THEN 2 ELSE 1
\* What each of them may send.
Votes == {"READY", "REA", "DY", "NO", "DONE"}
Decisions == {"PREPARE", "COMMIT", "ABORT"}

\* Only the two of them run, without signals, timers or asynchronous requests.
VoteProcesses ==
    /\ Recs /\ DOMAIN fds = Procs /\ DOMAIN chan = Channels
    /\ \A p \in Procs : p # 0 /\ p # 11 => proc[p].life = "none"
    /\ \A p \in {0, 11} : /\ proc[p].life \in {"run", "gone"}
                          /\ proc[p].pending = {} /\ proc[p].handling = FALSE
    /\ forks = 0 /\ timer = "off" /\ aio = "idle"
    /\ proc[0].body = prog /\ proc[0].pc \in 0 .. 6 + Pieces
    /\ proc[11].body = "two_phase_commit" /\ proc[11].pc \in 0 .. 10

\* Each has its end of the one connection, from connect() and accept() on.
VoteConnection ==
    /\ backlog \in {<< >>, << 11 >>}
    /\ proc[11].life = "run" /\ proc[11].pc = 1 => backlog = << >> /\ proc[0].pc = 1
    /\ proc[11].life = "run" /\ proc[11].pc # 1 =>
         "cfd" \in DOMAIN fds[11] /\ fds[11]["cfd"] = End(Down, Up)
    /\ proc[0].life = "run" => "out" \in DOMAIN fds[0] /\ fds[0]["out"].w = Tty
    /\ proc[0].life = "run" /\ proc[0].pc # 1 =>
         "cfd" \in DOMAIN fds[0] /\ fds[0]["cfd"] = End(Up, Down)

\* The participant has voted READY, in one piece or two, and has then only acknowledged.
VotedReady(s) ==
    \E n \in 1 .. Len(s) :
       /\ (n = 1 /\ s[1] = "READY") \/ (n = 2 /\ s[1] = "REA" /\ s[2] = "DY")
       /\ \A i \in n + 1 .. Len(s) : s[i] = "DONE"

\* Nothing but acknowledgements follows the last piece of a vote.
ThenDone(s) ==
    \A i, j \in 1 .. Len(s) : i < j /\ s[i] \in {"READY", "DY"} => s[j] = "DONE"
\* The last piece of a vote for READY was not sent.
Unvoted(s) == \A i \in 1 .. Len(s) : s[i] \notin {"READY", "DY"}

\* The participant sends its vote once; until the coordinator reads, all of it is in the
\* connection.
VoteOrder ==
    /\ proc[0].sent \in Seq(Votes)
    /\ ThenDone(proc[0].sent)
    /\ proc[0].pc \in 1 .. 2 + Pieces => Unvoted(proc[0].sent)
    /\ proc[11].life = "run" /\ proc[11].pc \in 1 .. 3 =>
         chan[Down] = proc[0].sent /\ proc[11].buf = << "?" >>

\* The decisions d of a coordinator at step pc, with buf in its buffer, after the votes s.
Decided(pc, buf, d, s) ==
    /\ d \in Seq(Decisions)
    /\ pc \in {1, 2, 3, 4, 5, 8} => Range(d) \subseteq {"PREPARE"}
    /\ Range(d) \subseteq {"PREPARE", "COMMIT"} \/ Range(d) \subseteq {"PREPARE", "ABORT"}
    /\ pc = 5 => VotedReady(s)
    /\ pc = 4 /\ Content(buf) = << "READY" >> => VotedReady(s)
    /\ "COMMIT" \in Range(d) => VotedReady(s)

\* The coordinator decides on what it has read.
VoteDecision == Decided(proc[11].pc, proc[11].buf, proc[11].sent, proc[0].sent)

\* The inductive invariant of a vote.
VoteState == VoteProcesses /\ VoteConnection /\ VoteOrder /\ VoteDecision

\* Concatenation, element by element.
LEMMA Joined ==
    ASSUME NEW S, NEW s \in Seq(S), NEW t \in Seq(S)
    PROVE  /\ s \o t \in Seq(S) /\ Len(s \o t) = Len(s) + Len(t)
           /\ \A i \in 1 .. Len(s) : (s \o t)[i] = s[i]
           /\ \A i \in 1 .. Len(t) : (s \o t)[Len(s) + i] = t[i]
BY ConcatProperties

\* The steps of a participant that votes in n pieces.
ParticipantSteps(b, n) ==
    /\ DOMAIN b = 1 .. 5 + n
    /\ b[1] = Accept("cfd") /\ b[2] = Read("cfd", 0, 0)
    /\ \A i \in 3 .. 2 + n : \E m \in Votes :
         b[i] = Write("cfd", m) /\ (m \in {"READY", "DY"} => i = 2 + n)
    /\ b[3 + n] = Read("cfd", 0, 0)
    /\ b[4 + n] = Write("out", "buf")
    /\ b[5 + n] = Write("cfd", "DONE")

\* The steps of the participant.
LEMMA ParticipantBody ==
    ASSUME prog \in Voting
    PROVE  ParticipantSteps(Bodies[prog], Pieces) /\ Pieces \in {1, 2}
<1>1. ASSUME NEW v, NEW n \in {1, 2}, v \in Seq(Votes), Len(v) = n,
             \A i \in 1 .. n : v[i] \in {"READY", "DY"} => i = n
      PROVE  ParticipantSteps(participant(v), n)
  <2> DEFINE S == {Accept("cfd"), Read("cfd", 0, 0), Write("out", "buf"), Write("cfd", "DONE")}
                    \cup {Write("cfd", m) : m \in Votes}
             x == << Accept("cfd"), Read("cfd", 0, 0) >>
             y == [i \in 1 .. Len(v) |-> Write("cfd", v[i])]
             z == << Read("cfd", 0, 0), Write("out", "buf"), Write("cfd", "DONE") >>
  <2>1. Accept("cfd") \in S /\ Read("cfd", 0, 0) \in S /\ Write("out", "buf") \in S
          /\ Write("cfd", "DONE") \in S /\ \A m \in Votes : Write("cfd", m) \in S
    OBVIOUS
  <2> HIDE DEF S
  <2>2. x \in Seq(S) /\ Len(x) = 2 /\ z \in Seq(S) /\ Len(z) = 3
    BY <2>1
  <2>3. y \in Seq(S) /\ Len(y) = n /\ \A i \in 1 .. n : y[i] = Write("cfd", v[i])
    <3>1. \A i \in 1 .. n : v[i] \in Votes BY <1>1
    <3> QED BY <1>1, <2>1, <3>1
  <2>4. x[1] = Accept("cfd") /\ x[2] = Read("cfd", 0, 0) /\ z[1] = Read("cfd", 0, 0)
          /\ z[2] = Write("out", "buf") /\ z[3] = Write("cfd", "DONE")
    OBVIOUS
  <2>5. participant(v) = (x \o y) \o z BY DEF participant
  <2> HIDE DEF x, y, z
  <2>6. PICK xy : xy = x \o y OBVIOUS
  <2>7. /\ xy \in Seq(S) /\ Len(xy) = 2 + n
        /\ xy[1] = x[1] /\ xy[2] = x[2]
        /\ \A i \in 1 .. n : xy[2 + i] = y[i]
    BY <2>2, <2>3, <2>6, Joined
  <2>8. PICK b : b = xy \o z OBVIOUS
  <2>9. /\ b \in Seq(S) /\ Len(b) = 2 + n + 3
        /\ \A i \in 1 .. 2 + n : b[i] = xy[i]
        /\ \A i \in 1 .. 3 : b[2 + n + i] = z[i]
    <3>1. xy \in Seq(S) /\ z \in Seq(S) BY <2>2, <2>7
    <3>2. /\ xy \o z \in Seq(S) /\ Len(xy \o z) = Len(xy) + Len(z)
          /\ \A i \in 1 .. Len(xy) : (xy \o z)[i] = xy[i]
          /\ \A i \in 1 .. Len(z) : (xy \o z)[Len(xy) + i] = z[i]
      BY <3>1, Joined
    <3> QED BY <2>2, <2>7, <2>8, <3>2
  <2>10. DOMAIN b = 1 .. 5 + n BY <2>9
  <2>11. b[1] = x[1] /\ b[2] = x[2] BY <2>7, <2>9
  <2>12. \A i \in 1 .. n : b[2 + i] = y[i] BY <2>7, <2>9
  <2>13. b[2 + n + 1] = z[1] /\ b[2 + n + 2] = z[2] /\ b[2 + n + 3] = z[3] BY <2>9
  <2>14. ASSUME NEW i \in 3 .. 2 + n
         PROVE  \E m \in Votes : b[i] = Write("cfd", m) /\ (m \in {"READY", "DY"} => i = 2 + n)
    <3>1. PICK j \in 1 .. n : i = 2 + j
      <4>1. i - 2 \in 1 .. n /\ i = 2 + (i - 2) OBVIOUS
      <4> QED BY <4>1
    <3>2. b[i] = Write("cfd", v[j]) BY <2>3, <2>12, <3>1
    <3>3. v[j] \in Votes BY <1>1
    <3>4. v[j] \in {"READY", "DY"} => i = 2 + n BY <1>1, <3>1
    <3> QED BY <3>2, <3>3, <3>4
  <2>15. 2 + n + 1 = 3 + n /\ 2 + n + 2 = 4 + n /\ 2 + n + 3 = 5 + n OBVIOUS
  <2>16. b[3 + n] = z[1] /\ b[4 + n] = z[2] /\ b[5 + n] = z[3] BY <2>13, <2>15
  <2>17. ParticipantSteps(b, n) BY <2>4, <2>10, <2>11, <2>14, <2>16 DEF ParticipantSteps
  <2> QED BY <2>5, <2>6, <2>8, <2>17
<1>2. CASE prog = "votes_ready"
  <2>1. Bodies[prog] = participant(<< "READY" >>) /\ Pieces = 1 BY <1>2 DEF Bodies, Pieces
  <2>2. << "READY" >> \in Seq(Votes) /\ Len(<< "READY" >>) = 1 BY DEF Votes
  <2>3. \A i \in 1 .. 1 : << "READY" >>[i] \in {"READY", "DY"} => i = 1 OBVIOUS
  <2> QED BY <1>1, <2>1, <2>2, <2>3
<1>3. CASE prog = "votes_no"
  <2>1. Bodies[prog] = participant(<< "NO" >>) /\ Pieces = 1 BY <1>3 DEF Bodies, Pieces
  <2>2. << "NO" >> \in Seq(Votes) /\ Len(<< "NO" >>) = 1 BY DEF Votes
  <2>3. \A i \in 1 .. 1 : << "NO" >>[i] \in {"READY", "DY"} => i = 1 OBVIOUS
  <2> QED BY <1>1, <2>1, <2>2, <2>3
<1>4. CASE prog = "votes_in_pieces"
  <2>1. Bodies[prog] = participant(<< "REA", "DY" >>) /\ Pieces = 2 BY <1>4 DEF Bodies, Pieces
  <2>2. << "REA", "DY" >> \in Seq(Votes) /\ Len(<< "REA", "DY" >>) = 2 BY DEF Votes
  <2>3. \A i \in 1 .. 2 : << "REA", "DY" >>[i] \in {"READY", "DY"} => i = 2 OBVIOUS
  <2> QED BY <1>1, <2>1, <2>2, <2>3
<1> QED BY <1>2, <1>3, <1>4 DEF Voting

\* A process that is not at a jump takes the step its counter points to.
LEMMA AtStep ==
    ASSUME NEW p, NEW b, b = Bodies[proc[p].body], proc[p].pc \in DOMAIN b,
           b[proc[p].pc].op # "goto"
    PROVE  Pc(p) = proc[p].pc /\ Now(p) = b[proc[p].pc]
<1>1. Body(p) = b BY DEF Body
<1>2. Pc(p) = proc[p].pc BY <1>1 DEF Pc
<1> QED BY <1>1, <1>2 DEF Now

\* Behind the last step of its body a process ends.
LEMMA AtEnd ==
    ASSUME NEW p, NEW b, b = Bodies[proc[p].body], proc[p].pc \notin DOMAIN b
    PROVE  Now(p).op = "end"
<1>1. Body(p) = b BY DEF Body
<1>2. Pc(p) = proc[p].pc BY <1>1 DEF Pc
<1> QED BY <1>1, <1>2 DEF Now

\* What one read() of process p from channel k does: it takes bytes from the channel, or
\* it reports the end or an error.
Reads(p, s, k) ==
    /\ Recs' /\ Only(p) /\ Kept(p)
    /\ proc'[p].shown = proc[p].shown /\ proc'[p].sent = proc[p].sent
    /\ UNCHANGED << prog, fds, backlog, forks, count, timer, aio, failed >>
    /\ k \in Channels
    /\ \/ \E n \in 1 .. Len(chan[k]) :
            /\ proc'[p].pc = Pc(p) + 1
            /\ proc'[p].buf = SubSeq(chan[k], 1, n)
            /\ chan' = [chan EXCEPT ![k] = SubSeq(@, n + 1, Len(@))]
       \/ /\ proc'[p].pc \in {s.end, s.err}
          /\ proc'[p].buf = proc[p].buf /\ chan' = chan

\* A read changes nothing but the buffer and the channel.
LEMMA ReadEffect ==
    ASSUME Recs, ~Datagrams, NEW p \in Procs, NEW s, NEW k, DoRead(p, s),
           DOMAIN chan = Channels, s.f \in DOMAIN fds[p], k = fds[p][s.f].r
    PROVE  Reads(p, s, k)
<1>1. /\ \/ /\ k \in Channels
            /\ \E n \in 1 .. Len(chan[k]) :
                /\ chan' = [chan EXCEPT ![k] = SubSeq(@, n + 1, Len(@))]
                /\ proc' = [proc EXCEPT ![p].pc = Pc(p) + 1, ![p].buf = SubSeq(chan[k], 1, n)]
         \/ k \in Sockets /\ GoTo(p, s.err) /\ UNCHANGED chan
         \/ k \in Channels /\ GoTo(p, s.end) /\ UNCHANGED chan
      /\ UNCHANGED << fds, backlog >> /\ UnchangedOther
  BY DEF DoRead
<1>2. UNCHANGED << prog, fds, backlog, forks, count, timer, aio, failed >>
  BY <1>1 DEF UnchangedOther
<1>3. CASE /\ k \in Channels
           /\ \E n \in 1 .. Len(chan[k]) :
                /\ chan' = [chan EXCEPT ![k] = SubSeq(@, n + 1, Len(@))]
                /\ proc' = [proc EXCEPT ![p].pc = Pc(p) + 1, ![p].buf = SubSeq(chan[k], 1, n)]
  <2>1. PICK n \in 1 .. Len(chan[k]) :
                /\ chan' = [chan EXCEPT ![k] = SubSeq(@, n + 1, Len(@))]
                /\ proc' = [proc EXCEPT ![p].pc = Pc(p) + 1, ![p].buf = SubSeq(chan[k], 1, n)]
    BY <1>3
  <2>2. PICK b, x : b = SubSeq(chan[k], 1, n) /\ x = Pc(p) + 1 OBVIOUS
  <2>3. proc' = [proc EXCEPT ![p].pc = x, ![p].buf = b] BY <2>1, <2>2
  <2>4. /\ Recs' /\ Only(p) /\ Kept(p) /\ proc'[p].pc = x /\ proc'[p].buf = b
        /\ proc'[p].shown = proc[p].shown /\ proc'[p].sent = proc[p].sent
    BY <2>3, SetBuf
  <2> QED BY <1>2, <1>3, <2>1, <2>2, <2>4 DEF Reads
<1>4. CASE k \in Channels /\ (GoTo(p, s.err) \/ GoTo(p, s.end)) /\ UNCHANGED chan
  <2>1. PICK x \in {s.end, s.err} : proc' = [proc EXCEPT ![p].pc = x] BY <1>4 DEF GoTo
  <2>2. /\ Recs' /\ Only(p) /\ Kept(p) /\ proc'[p].pc = x /\ proc'[p].buf = proc[p].buf
        /\ proc'[p].shown = proc[p].shown /\ proc'[p].sent = proc[p].sent
    BY <2>1, SetPc
  <2> QED BY <1>2, <1>4, <2>1, <2>2 DEF Reads
<1>5. Sockets \subseteq Channels BY DEF Channels
<1> QED BY <1>1, <1>3, <1>4, <1>5

\* What a participant or the coordinator does leaves the other processes and the signals
\* alone.
LEMMA VoteRest ==
    ASSUME VoteProcesses, NEW p \in {0, 11}, Recs', Only(p), Kept(p), DOMAIN fds' = Procs,
           DOMAIN chan' = Channels, UNCHANGED << prog, forks, timer, aio >>,
           p = 0 => proc'[0].pc \in 0 .. 6 + Pieces,
           p = 11 => proc'[11].pc \in 0 .. 10
    PROVE  VoteProcesses'
<1>1. 0 \in Procs /\ 11 \in Procs BY ProcsHas
<1>2. /\ proc'[0].body = proc[0].body /\ proc'[0].life = proc[0].life
      /\ proc'[0].pending = proc[0].pending /\ proc'[0].handling = proc[0].handling
      /\ proc'[11].body = proc[11].body /\ proc'[11].life = proc[11].life
      /\ proc'[11].pending = proc[11].pending /\ proc'[11].handling = proc[11].handling
  BY <1>1 DEF Only, Kept
<1>3. p # 0 => proc'[0].pc = proc[0].pc BY <1>1 DEF Only
<1>4. p # 11 => proc'[11].pc = proc[11].pc BY <1>1 DEF Only
<1>5. \A q \in Procs : q # 0 /\ q # 11 => proc'[q].life = "none"
  BY DEF VoteProcesses, Only
<1>6. Pieces' = Pieces BY DEF Pieces
<1>7. /\ \A q \in {0, 11} : /\ proc'[q].life \in {"run", "gone"}
                            /\ proc'[q].pending = {} /\ proc'[q].handling = FALSE
      /\ proc'[0].body = prog' /\ proc'[11].body = "two_phase_commit"
  BY <1>2 DEF VoteProcesses
<1>8. proc'[0].pc \in 0 .. 6 + Pieces' /\ proc'[11].pc \in 0 .. 10
  BY <1>3, <1>4, <1>6 DEF VoteProcesses
<1> QED BY <1>5, <1>7, <1>8 DEF VoteProcesses

\* A participant or a coordinator that ends leaves everything as it was.
LEMMA VoteEnd ==
    ASSUME prog \in Voting, VoteState, NEW p \in {0, 11}, Ends(p)
    PROVE  VoteState'
<1>1. 0 \in Procs /\ 11 \in Procs /\ p \in Procs BY ProcsHas
<1>2. p \notin 1 .. forks BY DEF VoteState, VoteProcesses
<1>3. \A q \in {0, 11} :
        /\ proc'[q].body = proc[q].body /\ proc'[q].pc = proc[q].pc
        /\ proc'[q].buf = proc[q].buf /\ proc'[q].sent = proc[q].sent
        /\ proc'[q].handling = proc[q].handling /\ proc'[q].pending = proc[q].pending
  BY <1>1, <1>2 DEF Ends
<1>4. /\ proc'[p].life = "gone" /\ \A q \in Procs : q # p => proc'[q].life = proc[q].life
  BY <1>2 DEF Ends
<1>5. /\ Recs' /\ DOMAIN fds' = Procs /\ \A q \in Procs : q # p => fds'[q] = fds[q]
      /\ backlog' = backlog \/ backlog' = << >>
      /\ UNCHANGED << prog, chan, forks, timer, aio >>
  BY DEF Ends
<1>6. Pieces' = Pieces BY <1>5 DEF Pieces
<1>7. VoteProcesses'
  <2>1. \A q \in Procs : q # 0 /\ q # 11 => proc'[q].life = "none"
    BY <1>4 DEF VoteState, VoteProcesses
  <2>2. \A q \in {0, 11} : /\ proc'[q].life \in {"run", "gone"}
                           /\ proc'[q].pending = {} /\ proc'[q].handling = FALSE
    BY <1>1, <1>3, <1>4 DEF VoteState, VoteProcesses
  <2>3. /\ proc'[0].body = prog' /\ proc'[11].body = "two_phase_commit"
        /\ proc'[0].pc \in 0 .. 6 + Pieces' /\ proc'[11].pc \in 0 .. 10
    BY <1>3, <1>5, <1>6 DEF VoteState, VoteProcesses
  <2> QED BY <1>5, <2>1, <2>2, <2>3 DEF VoteState, VoteProcesses
<1>8. VoteConnection'
  <2>1. \A q \in {0, 11} :
          proc'[q].life = "run" => proc[q].life = "run" /\ fds'[q] = fds[q]
    BY <1>1, <1>4, <1>5
  <2>2. backlog' \in {<< >>, << 11 >>} BY <1>5 DEF VoteState, VoteConnection
  <2>3. proc'[11].life = "run" /\ proc'[11].pc = 1 => backlog' = << >> /\ proc'[0].pc = 1
    BY <1>3, <1>5, <2>1 DEF VoteState, VoteConnection
  <2>4. proc'[11].life = "run" /\ proc'[11].pc # 1 =>
          "cfd" \in DOMAIN fds'[11] /\ fds'[11]["cfd"] = End(Down, Up)
    BY <1>3, <2>1 DEF VoteState, VoteConnection
  <2>5. proc'[0].life = "run" => "out" \in DOMAIN fds'[0] /\ fds'[0]["out"].w = Tty
    BY <2>1 DEF VoteState, VoteConnection
  <2>6. proc'[0].life = "run" /\ proc'[0].pc # 1 =>
          "cfd" \in DOMAIN fds'[0] /\ fds'[0]["cfd"] = End(Up, Down)
    BY <1>3, <2>1 DEF VoteState, VoteConnection
  <2> QED BY <2>2, <2>3, <2>4, <2>5, <2>6 DEF VoteConnection
<1>9. VoteOrder'
  <2>1. proc'[11].life = "run" => proc[11].life = "run" BY <1>1, <1>4
  <2> QED BY <1>3, <1>5, <1>6, <2>1 DEF VoteState, VoteOrder, ThenDone, Unvoted
<1>10. VoteDecision'
  BY <1>3 DEF VoteState, VoteDecision
<1> QED BY <1>7, <1>8, <1>9, <1>10 DEF VoteState

\* The two directions of the connection are different channels.
LEMMA Directions ==
    /\ Up # Down /\ Up \in Sockets /\ Down \in Sockets /\ Up \in Channels /\ Down \in Channels
    /\ Up \notin Pipes /\ Down \notin Pipes /\ Up # Tty /\ Down # Tty
    /\ Tty \notin Pipes /\ Tty \notin Sockets /\ Tty \notin Channels
BY DEF Up, Down, Sockets, Channels, Peers, Pipes, Tty, Files

\* The coordinator's steps.
LEMMA CoordinatorBody ==
    LET b == Bodies["two_phase_commit"] IN
    /\ DOMAIN b = 1 .. 9
    /\ b[1] = Connect("cfd", "exit") /\ b[2] = Write("cfd", "PREPARE")
    /\ b[3] = Read("cfd", 4, 4) /\ b[4] = IfBuffer("READY", 8)
    /\ b[5] = Write("cfd", "COMMIT") /\ b[6] = Read("cfd", 0, 0)
    /\ b[7] = Goto(0) /\ b[8] = Write("cfd", "ABORT") /\ b[9] = Read("cfd", 0, 0)
BY DEF Bodies, two_phase_commit

\* What a sequence of words holds after another word.
LEMMA OneMore ==
    ASSUME NEW S, NEW s \in Seq(S), NEW m \in S
    PROVE  /\ s \o << m >> \in Seq(S) /\ Len(s \o << m >>) = Len(s) + 1
           /\ (s \o << m >>)[Len(s) + 1] = m
           /\ \A i \in 1 .. Len(s) : (s \o << m >>)[i] = s[i]
           /\ Range(s \o << m >>) \subseteq Range(s) \cup {m}
<1>1. << m >> \in Seq(S) /\ Len(<< m >>) = 1 /\ << m >>[1] = m OBVIOUS
<1>2. PICK t : t = s \o << m >> OBVIOUS
<1>3. /\ t \in Seq(S) /\ Len(t) = Len(s) + 1
      /\ \A i \in 1 .. Len(s) : t[i] = s[i]
      /\ t[Len(s) + 1] = m
  <2>1. PICK u : u = << m >> OBVIOUS
  <2>2. u \in Seq(S) /\ Len(u) = 1 /\ u[1] = m BY <1>1, <2>1
  <2>3. /\ s \o u \in Seq(S) /\ Len(s \o u) = Len(s) + Len(u)
        /\ \A i \in 1 .. Len(s) : (s \o u)[i] = s[i]
        /\ \A i \in 1 .. Len(u) : (s \o u)[Len(s) + i] = u[i]
    BY <2>2, Joined
  <2> QED BY <1>2, <2>1, <2>2, <2>3
<1>4. ASSUME NEW x \in Range(t) PROVE x \in Range(s) \cup {m}
  <2>1. PICK i \in 1 .. Len(s) + 1 : x = t[i] BY <1>3 DEF Range
  <2>2. CASE i \in 1 .. Len(s)
    <3>1. x = s[i] /\ i \in DOMAIN s BY <1>3, <2>1, <2>2
    <3> QED BY <3>1 DEF Range
  <2>3. CASE i = Len(s) + 1 BY <1>3, <2>1, <2>3
  <2> QED BY <2>2, <2>3
<1> QED BY <1>2, <1>3, <1>4

\* The coordinator sends what it is at.
LEMMA SendDecision ==
    ASSUME NEW pc, NEW buf, NEW d, NEW s, NEW m, NEW e, NEW buf2, Decided(pc, buf, d, s),
           e = d \o << m >> \/ e = d,
           \/ (pc = 2 /\ m = "PREPARE") \/ (pc = 5 /\ m = "COMMIT")
           \/ (pc = 8 /\ m = "ABORT"),
           pc = 2 => Content(buf2) # << "READY" >>
    PROVE  Decided(pc + 1, buf2, e, s)
<1>1. d \in Seq(Decisions) /\ Range(d) \subseteq {"PREPARE"} /\ m \in Decisions
  BY DEF Decided, Decisions
<1>2. e \in Seq(Decisions) /\ Range(e) \subseteq Range(d) \cup {m}
  <2>1. d \o << m >> \in Seq(Decisions) /\ Range(d \o << m >>) \subseteq Range(d) \cup {m}
    BY <1>1, OneMore
  <2> QED BY <1>1, <2>1
<1>3. pc = 5 => VotedReady(s) BY DEF Decided
<1>4. CASE pc = 2 BY <1>1, <1>2, <1>4 DEF Decided
<1>5. CASE pc = 5 BY <1>1, <1>2, <1>3, <1>5 DEF Decided
<1>6. CASE pc = 8 BY <1>1, <1>2, <1>6 DEF Decided
<1> QED BY <1>4, <1>5, <1>6

\* A coordinator that has read the vote: what it has in its buffer is what was sent.
LEMMA VoteRead ==
    ASSUME NEW s \in Seq(Votes), ThenDone(s), NEW n \in 1 .. Len(s),
           Content(SubSeq(s, 1, n)) = << "READY" >>
    PROVE  VotedReady(s)
<1>1. PICK b : b = SubSeq(s, 1, n) OBVIOUS
<1>2. b \in Seq(Votes) /\ Len(b) = n /\ \A i \in 1 .. n : b[i] = s[i]
  BY <1>1, SubSeqProperties
<1>3. b = << "REA", "DY" >> \/ b = << "READY" >> BY <1>1 DEF Content
<1>4. CASE b = << "READY" >>
  <2>1. n = 1 /\ s[1] = "READY" BY <1>2, <1>4
  <2>2. \A i \in 2 .. Len(s) : s[i] = "DONE" BY <2>1 DEF ThenDone
  <2> QED BY <2>1, <2>2 DEF VotedReady
<1>5. CASE b = << "REA", "DY" >>
  <2>1. n = 2 /\ s[1] = "REA" /\ s[2] = "DY" BY <1>2, <1>5
  <2>2. \A i \in 3 .. Len(s) : s[i] = "DONE" BY <2>1 DEF ThenDone
  <2> QED BY <2>1, <2>2 DEF VotedReady
<1> QED BY <1>3, <1>4, <1>5

\* What the participant sends after its vote changes nothing about it.
LEMMA VoteStays ==
    ASSUME NEW s \in Seq(Votes), NEW m \in Votes, ThenDone(s), m = "DONE" \/ Unvoted(s)
    PROVE  /\ ThenDone(s \o << m >>)
           /\ VotedReady(s) => VotedReady(s \o << m >>)
           /\ Unvoted(s) /\ m \notin {"READY", "DY"} => Unvoted(s \o << m >>)
<1>1. PICK t : t = s \o << m >> OBVIOUS
<1>2. /\ t \in Seq(Votes) /\ Len(t) = Len(s) + 1 /\ t[Len(s) + 1] = m
      /\ \A i \in 1 .. Len(s) : t[i] = s[i]
  BY <1>1, OneMore
<1>3. ThenDone(t)
  <2> SUFFICES ASSUME NEW i \in 1 .. Len(t), NEW j \in 1 .. Len(t), i < j,
                      t[i] \in {"READY", "DY"}
               PROVE  t[j] = "DONE"
    BY DEF ThenDone
  <2>1. i \in 1 .. Len(s) /\ s[i] \in {"READY", "DY"} BY <1>2
  <2>2. m = "DONE" BY <2>1 DEF Unvoted
  <2>3. CASE j \in 1 .. Len(s) BY <1>2, <2>1, <2>3 DEF ThenDone
  <2>4. CASE j = Len(s) + 1 BY <1>2, <2>2, <2>4
  <2> QED BY <1>2, <2>3, <2>4
<1>4. ASSUME VotedReady(s) PROVE VotedReady(t)
  <2>1. PICK n \in 1 .. Len(s) :
          /\ (n = 1 /\ s[1] = "READY") \/ (n = 2 /\ s[1] = "REA" /\ s[2] = "DY")
          /\ \A i \in n + 1 .. Len(s) : s[i] = "DONE"
    BY <1>4 DEF VotedReady
  <2>2. ~Unvoted(s)
    <3>1. s[n] \in {"READY", "DY"} BY <2>1
    <3> QED BY <3>1 DEF Unvoted
  <2>3. m = "DONE" BY <2>2
  <2>4. \A i \in n + 1 .. Len(t) : t[i] = "DONE" BY <1>2, <2>1, <2>3
  <2>5. (n = 1 /\ t[1] = "READY") \/ (n = 2 /\ t[1] = "REA" /\ t[2] = "DY") BY <1>2, <2>1
  <2>6. n \in 1 .. Len(t) BY <1>2
  <2> QED BY <2>4, <2>5, <2>6 DEF VotedReady
<1>5. Unvoted(s) /\ m \notin {"READY", "DY"} => Unvoted(t) BY <1>2 DEF Unvoted
<1> QED BY <1>1, <1>3, <1>4, <1>5

\* The coordinator keeps the invariant with every step it takes.
LEMMA CoordinatorStep ==
    ASSUME prog \in Voting, VoteState, Step(11)
    PROVE  VoteState'
<1> DEFINE b == Bodies["two_phase_commit"]
           pc == proc[11].pc
<1>1. 0 \in Procs /\ 11 \in Procs BY ProcsHas
<1>2. ~Threaded /\ ~Datagrams BY DEF Threaded, Datagrams, Voting
<1>3. /\ Recs /\ DOMAIN fds = Procs /\ DOMAIN chan = Channels /\ b = Bodies[proc[11].body]
      /\ pc \in 0 .. 10 /\ proc[11].buf = proc[11].buf
  BY DEF VoteState, VoteProcesses
<1>4. proc[11].life = "run" BY DEF Step, Running
<1>5. ASSUME pc # 1
      PROVE  "cfd" \in DOMAIN fds[11] /\ fds[11]["cfd"].r = Down /\ fds[11]["cfd"].w = Up
  BY <1>4, <1>5 DEF VoteState, VoteConnection, End
<1>6. ASSUME Only(11), UNCHANGED << fds, backlog >>, proc'[11].pc # 1, Kept(11), pc # 1
      PROVE  VoteConnection'
  <2>1. proc'[0] = proc[0] /\ proc'[11].life = proc[11].life BY <1>1, <1>6 DEF Only, Kept
  <2> QED BY <1>6, <2>1 DEF VoteState, VoteConnection
<1>7. ASSUME Only(11), UNCHANGED prog,
             proc'[11].pc \in 1 .. 3 => chan'[Down] = chan[Down] /\ proc'[11].buf = proc[11].buf
                                         /\ pc \in 1 .. 3
      PROVE  VoteOrder'
  <2>1. proc'[0] = proc[0] /\ Pieces' = Pieces BY <1>1, <1>7 DEF Only, Pieces
  <2> QED BY <1>4, <1>7, <2>1 DEF VoteState, VoteOrder
<1> HIDE DEF b
<1>8. CASE pc = 1
  <2>1. Now(11) = Connect("cfd", "exit") /\ Pc(11) = 1
    BY <1>3, <1>8, AtStep, CoordinatorBody DEF b, Connect
  <2>2. PICK s : s = Now(11) OBVIOUS
  <2>3. s.op = "connect" /\ s.f = "cfd" /\ s.fail = "exit" BY <2>1, <2>2 DEF Connect
  <2>4. DoConnect(11, s) BY <1>1, <2>2, <2>3, StepIs
  <2>5. CASE FailAndExit(11) BY <1>1, <1>2, <1>3, <2>5, Ending, VoteEnd
  <2>6. CASE /\ fds' = [fds EXCEPT ![11] = With(@, "cfd", End(<< "down", 11 >>, << "up", 11 >>))]
             /\ backlog' = Append(backlog, 11)
             /\ Advance(11) /\ UNCHANGED << chan, cond >> /\ UnchangedOther
    <3>1. backlog = << >> /\ proc[0].pc = 1 BY <1>4, <1>8 DEF VoteState, VoteConnection
    <3>2. backlog' = << 11 >> BY <2>6, <3>1
    <3>3. /\ Recs' /\ Only(11) /\ Kept(11) /\ proc'[11].pc = 2
          /\ proc'[11].buf = proc[11].buf /\ proc'[11].sent = proc[11].sent
      <4>1. GoTo(11, Pc(11) + 1) BY <2>6 DEF Advance
      <4>2. Pc(11) + 1 = 2 BY <2>1
      <4>3. GoTo(11, 2) BY <4>1, <4>2
      <4>4. proc' = [proc EXCEPT ![11].pc = 2] BY <4>3 DEF GoTo
      <4>5. PICK x : x = 2 OBVIOUS
      <4> QED BY <1>1, <1>3, <4>4, <4>5, SetPc
    <3>4. /\ DOMAIN fds' = Procs /\ fds'[0] = fds[0] /\ "cfd" \in DOMAIN fds'[11]
          /\ fds'[11]["cfd"] = End(Down, Up)
      BY <1>1, <1>3, <2>6 DEF With, Up, Down
    <3>5. UNCHANGED << prog, forks, timer, aio, chan >> BY <2>6 DEF UnchangedOther
    <3>6. VoteProcesses' BY <1>1, <1>3, <3>3, <3>4, <3>5, VoteRest DEF VoteState
    <3>7. proc'[0] = proc[0] /\ proc'[11].life = "run" BY <1>1, <1>4, <3>3 DEF Only, Kept
    <3>8. VoteConnection'
      BY <3>1, <3>2, <3>3, <3>4, <3>7 DEF VoteState, VoteConnection
    <3>9. VoteOrder' BY <1>7, <1>8, <3>3, <3>5
    <3>10. VoteDecision' BY <1>8, <3>3, <3>7 DEF VoteState, VoteDecision, Decided
    <3> QED BY <3>6, <3>8, <3>9, <3>10 DEF VoteState
  <2> QED BY <2>3, <2>4, <2>5, <2>6 DEF DoConnect
<1>9. CASE pc \in {2, 5, 8}
  <2>1. PICK m \in {"PREPARE", "COMMIT", "ABORT"} :
          /\ b[pc] = Write("cfd", m)
          /\ \/ (pc = 2 /\ m = "PREPARE") \/ (pc = 5 /\ m = "COMMIT")
             \/ (pc = 8 /\ m = "ABORT")
    BY <1>9, CoordinatorBody DEF b
  <2>2. Now(11) = Write("cfd", m) /\ Pc(11) = pc
    BY <1>3, <1>9, <2>1, AtStep, CoordinatorBody DEF b, Write
  <2>3. PICK s : s = Now(11) OBVIOUS
  <2>4. s.op = "write" /\ s.f = "cfd" /\ s.m = m BY <2>2, <2>3 DEF Write
  <2>5. DoWrite(11, s) BY <1>1, <2>3, <2>4, StepIs
  <2>6. Bytes(11, s.m) = << m >> BY <2>4 DEF Bytes
  <2>7. WriteSocket(11, Up, << m >>)
    BY <1>2, <1>5, <1>9, <2>4, <2>5, <2>6, Directions DEF DoWrite
  <2>8. CASE Ends(11) BY <2>8, VoteEnd
  <2>9. CASE /\ Recs' /\ Only(11) /\ Kept(11) /\ proc'[11].pc = pc + 1
             /\ proc'[11].buf = proc[11].buf
             /\ UNCHANGED << prog, fds, backlog, forks, count, timer, aio, failed >>
             /\ proc'[11].sent \in {proc[11].sent \o << m >>, proc[11].sent}
             /\ chan' = chan \/ chan' = [chan EXCEPT ![Up] = @ \o << m >>]
    <3>1. DOMAIN chan' = Channels /\ chan'[Down] = chan[Down]
      BY <1>3, <2>9, Directions
    <3>2. pc + 1 \in {3, 6, 9} BY <1>9
    <3>3. VoteProcesses' BY <1>3, <2>9, <3>1, <3>2, VoteRest DEF VoteState
    <3>4. VoteConnection' BY <1>6, <1>9, <2>9, <3>2
    <3>5. VoteOrder' BY <1>7, <1>9, <2>9, <3>1, <3>2
    <3>6. proc'[0] = proc[0] BY <1>1, <2>9 DEF Only
    <3>7. pc = 2 => Content(proc[11].buf) # << "READY" >>
      <4>1. pc = 2 => proc[11].buf = << "?" >> BY <1>4 DEF VoteState, VoteOrder
      <4>2. << "?" >>[1] = "?" /\ << "READY" >>[1] = "READY" /\ << "REA", "DY" >>[1] = "REA"
      OBVIOUS
      <4> QED BY <4>1, <4>2 DEF Content
    <3>8. Decided(pc, proc[11].buf, proc[11].sent, proc[0].sent) BY DEF VoteState, VoteDecision
    <3>9. PICK at, buf, d, e, v :
            /\ at = pc /\ buf = proc[11].buf /\ d = proc[11].sent
            /\ e = proc'[11].sent /\ v = proc[0].sent
      OBVIOUS
    <3>10. Decided(at + 1, buf, e, v)
      <4>1. Decided(at, buf, d, v) /\ (e = d \o << m >> \/ e = d) BY <2>9, <3>8, <3>9
      <4>2. /\ \/ (at = 2 /\ m = "PREPARE") \/ (at = 5 /\ m = "COMMIT")
               \/ (at = 8 /\ m = "ABORT")
            /\ at = 2 => Content(buf) # << "READY" >>
        BY <2>1, <3>7, <3>9
      <4> QED BY <4>1, <4>2, SendDecision
    <3>11. VoteDecision' BY <2>9, <3>6, <3>9, <3>10 DEF VoteDecision
    <3> QED BY <3>3, <3>4, <3>5, <3>11 DEF VoteState
  <2>10. Up \in Channels BY Directions
  <2>11. PICK d, k : d = << m >> /\ k = Up OBVIOUS
  <2>12. WriteSocket(11, k, d) /\ k \in Channels BY <2>7, <2>10, <2>11
  <2>13. \/ Ends(11)
         \/ /\ Recs' /\ Only(11) /\ Kept(11) /\ proc'[11].pc = Pc(11) + 1
            /\ proc'[11].buf = proc[11].buf
            /\ UNCHANGED << prog, fds, backlog, forks, count, timer, aio, failed >>
            /\ proc'[11].sent \in {proc[11].sent \o d, proc[11].sent}
            /\ chan' = chan \/ chan' = [chan EXCEPT ![k] = @ \o d]
    <3>1. SocketWrote(11, k, d) \/ Ends(11) BY <1>1, <1>2, <1>3, <2>12, SocketWrite
    <3> QED BY <3>1 DEF SocketWrote
  <2> QED BY <2>2, <2>8, <2>9, <2>11, <2>13
<1>10. CASE pc \in {3, 6, 9}
  <2>1. PICK t \in {0, 4} : b[pc] = Read("cfd", t, t) /\ (t = 4 <=> pc = 3)
    BY <1>10, CoordinatorBody DEF b
  <2>2. Now(11) = Read("cfd", t, t) /\ Pc(11) = pc
    BY <1>3, <1>10, <2>1, AtStep, CoordinatorBody DEF b, Read
  <2>3. PICK s : s = Now(11) OBVIOUS
  <2>4. s.op = "read" /\ s.f = "cfd" /\ s.end = t /\ s.err = t BY <2>2, <2>3 DEF Read
  <2>5. DoRead(11, s) BY <1>1, <2>3, <2>4, StepIs
  <2>6. fds[11][s.f].r = Down /\ s.f \in DOMAIN fds[11] BY <1>5, <1>10, <2>4
  <2>7. /\ Recs' /\ Only(11) /\ Kept(11) /\ proc'[11].sent = proc[11].sent
        /\ UNCHANGED << prog, fds, backlog, forks, count, timer, aio, failed >>
        /\ \/ \E n \in 1 .. Len(chan[Down]) :
                /\ proc'[11].pc = pc + 1
                /\ proc'[11].buf = SubSeq(chan[Down], 1, n)
                /\ chan' = [chan EXCEPT ![Down] = SubSeq(@, n + 1, Len(@))]
           \/ /\ proc'[11].pc = t
              /\ proc'[11].buf = proc[11].buf /\ chan' = chan
    <3>1. PICK k : k = fds[11][s.f].r OBVIOUS
    <3>2. Reads(11, s, k) BY <1>1, <1>2, <1>3, <2>5, <2>6, <3>1, ReadEffect
    <3> QED BY <2>2, <2>4, <2>6, <3>1, <3>2 DEF Reads
  <2>8. DOMAIN chan' = Channels BY <1>3, <2>7
  <2>9. proc'[11].pc \in {0, 4, 7, 10} /\ (proc'[11].pc = 4 <=> pc = 3) BY <1>10, <2>1, <2>7
  <2>10. VoteProcesses' BY <1>3, <2>7, <2>8, <2>9, VoteRest DEF VoteState
  <2>11. VoteConnection' BY <1>6, <1>10, <2>7, <2>9
  <2>12. VoteOrder' BY <1>7, <2>7, <2>9
  <2>13. proc'[0] = proc[0] BY <1>1, <2>7 DEF Only
  <2>14. Decided(pc, proc[11].buf, proc[11].sent, proc[0].sent) BY DEF VoteState, VoteDecision
  <2>15. ASSUME pc = 3, Content(proc'[11].buf) = << "READY" >> PROVE VotedReady(proc[0].sent)
    <3>1. chan[Down] = proc[0].sent /\ proc[11].buf = << "?" >>
      BY <1>4, <2>15 DEF VoteState, VoteOrder
    <3>2. << "?" >>[1] = "?" /\ << "READY" >>[1] = "READY" /\ << "REA", "DY" >>[1] = "REA"
      OBVIOUS
    <3>3. proc'[11].buf # proc[11].buf BY <2>15, <3>1, <3>2 DEF Content
    <3>4. PICK n \in 1 .. Len(proc[0].sent) : proc'[11].buf = SubSeq(proc[0].sent, 1, n)
      BY <2>7, <3>1, <3>3
    <3> QED BY <2>15, <3>4, VoteRead DEF VoteState, VoteOrder
  <2>16. Decided(proc'[11].pc, proc'[11].buf, proc[11].sent, proc[0].sent)
    BY <1>10, <2>9, <2>14, <2>15 DEF Decided
  <2>17. VoteDecision' BY <2>7, <2>13, <2>16 DEF VoteDecision
  <2> QED BY <2>10, <2>11, <2>12, <2>17 DEF VoteState
<1>11. CASE pc = 4
  <2>1. Now(11) = IfBuffer("READY", 8) /\ Pc(11) = 4
    BY <1>3, <1>11, AtStep, CoordinatorBody DEF b, IfBuffer
  <2>2. PICK s : s = Now(11) OBVIOUS
  <2>3. s.op = "if" /\ s.m = "READY" /\ s.else = 8 BY <2>1, <2>2 DEF IfBuffer
  <2>4. DoControl(11, s) BY <1>1, <2>2, <2>3, StepIs
  <2>5. PICK x : x = IF Content(proc[11].buf) = << "READY" >> THEN 5 ELSE 8 OBVIOUS
  <2>5a. proc' = [proc EXCEPT ![11].pc = x] BY <2>1, <2>3, <2>4, <2>5 DEF DoControl, GoTo
  <2>6. UNCHANGED << prog, fds, backlog, forks, timer, aio, chan >>
    BY <2>4 DEF DoControl, UnchangedTables, UnchangedOther
  <2>7. /\ Recs' /\ Only(11) /\ Kept(11) /\ proc'[11].pc = x /\ proc'[11].buf = proc[11].buf
        /\ proc'[11].sent = proc[11].sent
    BY <1>1, <1>3, <2>5a, SetPc
  <2>8. x \in {5, 8} BY <2>5
  <2>9. VoteProcesses' BY <1>3, <2>6, <2>7, <2>8, VoteRest DEF VoteState
  <2>10. VoteConnection' BY <1>6, <1>11, <2>6, <2>7, <2>8
  <2>11. VoteOrder' BY <1>7, <2>6, <2>7, <2>8
  <2>12. proc'[0] = proc[0] BY <1>1, <2>7 DEF Only
  <2>13. VoteDecision'
    BY <1>11, <2>5, <2>7, <2>8, <2>12 DEF VoteState, VoteDecision, Decided
  <2> QED BY <2>9, <2>10, <2>11, <2>13 DEF VoteState
<1>12. CASE pc \in {0, 7, 10}
  <2>1. Now(11).op = "end"
    <3>1. CASE pc = 7
      <4>1. Body(11) = b BY <1>3 DEF Body
      <4>2. pc \in DOMAIN b /\ b[pc].op = "goto" /\ b[pc].to = 0 /\ 0 \notin DOMAIN b
        BY <3>1, CoordinatorBody DEF b, Goto
      <4>3. Pc(11) = 0 BY <4>1, <4>2 DEF Pc
      <4> QED BY <4>1, <4>2, <4>3 DEF Now
    <3>2. CASE pc \in {0, 10}
      <4>1. pc \notin DOMAIN b BY <3>2, CoordinatorBody DEF b
      <4> QED BY <1>3, <4>1, AtEnd
    <3> QED BY <1>12, <3>1, <3>2
  <2>2. Finish(11) BY <1>1, <2>1, StepIs
  <2> QED BY <1>1, <1>2, <1>3, <2>2, Ending, VoteEnd
<1> QED BY <1>3, <1>8, <1>9, <1>10, <1>11, <1>12

\* The participant keeps the invariant with every step it takes.
LEMMA ParticipantStep ==
    ASSUME prog \in Voting, VoteState, Step(0)
    PROVE  VoteState'
<1> DEFINE b == Bodies[prog]
           n == Pieces
           pc == proc[0].pc
<1>1. 0 \in Procs /\ 11 \in Procs BY ProcsHas
<1>2. ~Threaded /\ ~Datagrams BY DEF Threaded, Datagrams, Voting
<1>3. /\ Recs /\ DOMAIN fds = Procs /\ DOMAIN chan = Channels /\ b = Bodies[proc[0].body]
      /\ pc \in 0 .. 6 + n
  BY DEF VoteState, VoteProcesses
<1>4. proc[0].life = "run" BY DEF Step, Running
<1>5. ASSUME pc # 1
      PROVE  "cfd" \in DOMAIN fds[0] /\ fds[0]["cfd"].r = Up /\ fds[0]["cfd"].w = Down
  BY <1>4, <1>5 DEF VoteState, VoteConnection, End
<1>6. ParticipantSteps(b, n) /\ n \in {1, 2} BY ParticipantBody
<1>7. ASSUME Only(0), UNCHANGED << fds, backlog >>, proc'[0].pc # 1, Kept(0), pc # 1
      PROVE  VoteConnection'
  <2>1. proc'[11] = proc[11] /\ proc'[0].life = proc[0].life BY <1>1, <1>7 DEF Only, Kept
  <2>2. ~(proc[11].life = "run" /\ proc[11].pc = 1) BY <1>7 DEF VoteState, VoteConnection
  <2> QED BY <1>7, <2>1, <2>2 DEF VoteState, VoteConnection
<1>8. ASSUME Only(0), UNCHANGED prog, chan'[Down] = chan[Down], proc'[0].sent = proc[0].sent,
             proc'[0].pc \in 1 .. 2 + n => pc \in 1 .. 2 + n
      PROVE  VoteOrder' /\ VoteDecision'
  <2>1. proc'[11] = proc[11] /\ Pieces' = Pieces BY <1>1, <1>8 DEF Only, Pieces
  <2>2. VoteOrder' BY <1>8, <2>1 DEF VoteState, VoteOrder
  <2>3. VoteDecision' BY <1>8, <2>1 DEF VoteState, VoteDecision
  <2> QED BY <2>2, <2>3
<1> HIDE DEF b, n
<1>9. CASE pc = 1
  <2>1. Now(0) = Accept("cfd") /\ Pc(0) = 1
    <3>1. pc \in DOMAIN b /\ b[pc] = Accept("cfd") BY <1>6, <1>9 DEF ParticipantSteps
    <3>2. b[pc].op # "goto" BY <3>1 DEF Accept
    <3> QED BY <1>3, <1>9, <3>1, <3>2, AtStep
  <2>2. PICK s : s = Now(0) OBVIOUS
  <2>3. s.op = "accept" /\ s.f = "cfd" BY <2>1, <2>2 DEF Accept
  <2>4. DoAccept(0, s) BY <1>1, <2>2, <2>3, StepIs
  <2>5. backlog = << 11 >> BY <2>4 DEF DoAccept, VoteState, VoteConnection
  <2>6. Head(backlog) = 11 /\ Tail(backlog) = << >> BY <2>5
  <2>7. /\ fds' = [fds EXCEPT ![0] = With(@, "cfd", End(<< "up", 11 >>, << "down", 11 >>))]
        /\ backlog' = << >> /\ Advance(0) /\ UnchangedOther /\ UNCHANGED chan
    BY <2>3, <2>4, <2>6 DEF DoAccept
  <2>8. /\ Recs' /\ Only(0) /\ Kept(0) /\ proc'[0].pc = 2 /\ proc'[0].sent = proc[0].sent
    <3>1. Advance(0) BY <2>7
    <3>2. PICK x : x = Pc(0) + 1 OBVIOUS
    <3>3. proc' = [proc EXCEPT ![0].pc = x] BY <3>1, <3>2 DEF Advance, GoTo
    <3>4. x = 2 BY <2>1, <3>2
    <3> QED BY <1>1, <1>3, <3>3, <3>4, SetPc
  <2>9. /\ DOMAIN fds' = Procs /\ fds'[11] = fds[11] /\ "cfd" \in DOMAIN fds'[0]
        /\ fds'[0]["cfd"] = End(Up, Down) /\ DOMAIN fds'[0] = DOMAIN fds[0] \cup {"cfd"}
        /\ "out" \in DOMAIN fds[0] => fds'[0]["out"] = fds[0]["out"]
    BY <1>1, <1>3, <2>7 DEF With, Up, Down
  <2>10. UNCHANGED << prog, forks, timer, aio, chan >> BY <2>7 DEF UnchangedOther
  <2>11. 2 \in 0 .. 6 + Pieces /\ 2 \in 1 .. 2 + n BY <1>6 DEF n
  <2>12. VoteProcesses' BY <1>3, <2>8, <2>9, <2>10, <2>11, VoteRest DEF VoteState
  <2>13. proc'[11] = proc[11] /\ proc'[0].life = "run" BY <1>1, <1>4, <2>8 DEF Only, Kept
  <2>14. ~(proc[11].life = "run" /\ proc[11].pc = 1)
    BY <2>5 DEF VoteState, VoteConnection
  <2>15. VoteConnection'
    BY <1>4, <2>7, <2>9, <2>13, <2>14 DEF VoteState, VoteConnection
  <2>16. 1 \in 1 .. 2 + n BY <1>6
  <2>17. VoteOrder' /\ VoteDecision' BY <1>8, <1>9, <2>8, <2>10, <2>16
  <2> QED BY <2>12, <2>15, <2>17 DEF VoteState
<1>10. CASE pc \in {2, 3 + n}
  <2>1. Now(0) = Read("cfd", 0, 0) /\ Pc(0) = pc
    <3>1. pc \in DOMAIN b /\ b[pc] = Read("cfd", 0, 0) BY <1>6, <1>10 DEF ParticipantSteps
    <3>2. b[pc].op # "goto" BY <3>1 DEF Read
    <3> QED BY <1>3, <3>1, <3>2, AtStep
  <2>2. PICK s : s = Now(0) OBVIOUS
  <2>3. s.op = "read" /\ s.f = "cfd" /\ s.end = 0 /\ s.err = 0 BY <2>1, <2>2 DEF Read
  <2>4. DoRead(0, s) BY <1>1, <2>2, <2>3, StepIs
  <2>5. pc # 1 BY <1>6, <1>10
  <2>6. PICK k : k = fds[0][s.f].r OBVIOUS
  <2>7. k = Up /\ s.f \in DOMAIN fds[0] BY <1>5, <2>3, <2>5, <2>6
  <2>8. Reads(0, s, k) BY <1>1, <1>2, <1>3, <2>4, <2>6, <2>7, ReadEffect
  <2>9. /\ Recs' /\ Only(0) /\ Kept(0) /\ proc'[0].sent = proc[0].sent
        /\ UNCHANGED << prog, fds, backlog, forks, timer, aio >>
        /\ proc'[0].pc \in {0, pc + 1}
    BY <2>1, <2>3, <2>8 DEF Reads
  <2>10. DOMAIN chan' = Channels /\ chan'[Down] = chan[Down]
    BY <1>3, <2>7, <2>8, Directions DEF Reads
  <2>11. /\ proc'[0].pc \in 0 .. 6 + n /\ proc'[0].pc # 1
         /\ proc'[0].pc \in 1 .. 2 + n => pc \in 1 .. 2 + n
    BY <1>6, <1>10, <2>9
  <2>12. VoteProcesses' BY <1>3, <2>9, <2>10, <2>11, VoteRest DEF VoteState, n
  <2>13. VoteConnection' BY <1>7, <2>5, <2>9, <2>11
  <2>14. VoteOrder' /\ VoteDecision' BY <1>8, <2>9, <2>10, <2>11
  <2> QED BY <2>12, <2>13, <2>14 DEF VoteState
<1>11. CASE pc \in 3 .. 2 + n \/ pc = 5 + n
  <2>1. PICK m \in Votes :
          /\ b[pc] = Write("cfd", m) /\ pc \in DOMAIN b
          /\ (pc \in 1 .. 2 + n /\ (m \in {"READY", "DY"} => pc = 2 + n))
             \/ (pc = 5 + n /\ m = "DONE")
    <3>1. CASE pc \in 3 .. 2 + n BY <1>6, <3>1 DEF ParticipantSteps
    <3>2. CASE pc = 5 + n
      <4>1. b[pc] = Write("cfd", "DONE") /\ pc \in DOMAIN b BY <1>6, <3>2 DEF ParticipantSteps
      <4>2. "DONE" \in Votes BY DEF Votes
      <4> QED BY <3>2, <4>1, <4>2
    <3> QED BY <1>11, <3>1, <3>2
  <2>2. b[pc].op # "goto" BY <2>1 DEF Write
  <2>3. Now(0) = Write("cfd", m) /\ Pc(0) = pc BY <1>3, <2>1, <2>2, AtStep
  <2>4. PICK s : s = Now(0) OBVIOUS
  <2>5. s.op = "write" /\ s.f = "cfd" /\ s.m = m BY <2>3, <2>4 DEF Write
  <2>6. DoWrite(0, s) BY <1>1, <2>4, <2>5, StepIs
  <2>7. pc # 1 BY <1>6, <1>11
  <2>8. Bytes(0, s.m) = << m >>
    <3>1. m # "buf" /\ m # "BUF" /\ m # "" BY DEF Votes
    <3> QED BY <2>5, <3>1 DEF Bytes
  <2>9. PICK d, k : d = << m >> /\ k = Down OBVIOUS
  <2>10. WriteSocket(0, k, d) /\ k \in Channels
    BY <1>2, <1>5, <2>5, <2>6, <2>7, <2>8, <2>9, Directions DEF DoWrite
  <2>11. CASE Ends(0) BY <2>11, VoteEnd
  <2>12. CASE ~Ends(0)
    <3>1. /\ Recs' /\ Only(0) /\ Kept(0) /\ proc'[0].pc = pc + 1
          /\ UNCHANGED << prog, fds, backlog, forks, timer, aio >>
          /\ \/ /\ proc'[0].sent = proc[0].sent \o d
                /\ chan' = [chan EXCEPT ![k] = @ \o d]
             \/ /\ proc'[0].sent = proc[0].sent \o d
                /\ chan' = chan /\ Readers(k) = {}
             \/ proc'[0].sent = proc[0].sent /\ chan' = chan
      <4>1. SocketWrote(0, k, d) BY <1>1, <1>2, <1>3, <2>10, <2>12, SocketWrite
      <4> QED BY <2>3, <4>1 DEF SocketWrote
    <3>2. DOMAIN chan' = Channels BY <1>3, <3>1
    <3>3. pc + 1 \in 0 .. 6 + Pieces /\ pc + 1 # 1
      BY <1>6, <1>11 DEF n
    <3>4. VoteProcesses' BY <1>3, <3>1, <3>2, <3>3, VoteRest DEF VoteState
    <3>5. VoteConnection' BY <1>7, <2>7, <3>1, <3>3
    <3>6. proc'[11] = proc[11] /\ Pieces' = Pieces BY <1>1, <3>1 DEF Only, Pieces
    <3>7. CASE proc'[0].sent = proc[0].sent /\ chan' = chan
      <4>1. proc'[0].pc \in 1 .. 2 + n => pc \in 1 .. 2 + n BY <1>6, <1>11, <3>1
      <4>2. VoteOrder' /\ VoteDecision' BY <1>8, <3>1, <3>7, <4>1
      <4> QED BY <3>4, <3>5, <4>2 DEF VoteState
    <3>8. CASE /\ proc'[0].sent = proc[0].sent \o d
               /\ chan' = [chan EXCEPT ![k] = @ \o d] \/ Readers(k) = {}
      <4>1. PICK s0 : s0 = proc[0].sent OBVIOUS
      <4>2. s0 \in Seq(Votes) /\ ThenDone(s0) /\ (pc \in 1 .. 2 + n => Unvoted(s0))
        BY <4>1 DEF VoteState, VoteOrder, n
      <4>3. m = "DONE" \/ Unvoted(s0) BY <2>1, <4>2
      <4>4. PICK s1 : s1 = s0 \o << m >> OBVIOUS
      <4>5. /\ s1 \in Seq(Votes) /\ ThenDone(s1)
            /\ VotedReady(s0) => VotedReady(s1)
            /\ Unvoted(s0) /\ m \notin {"READY", "DY"} => Unvoted(s1)
        <5>1. s0 \o << m >> \in Seq(Votes) BY <4>2, OneMore
        <5>2. /\ ThenDone(s0 \o << m >>)
              /\ VotedReady(s0) => VotedReady(s0 \o << m >>)
              /\ Unvoted(s0) /\ m \notin {"READY", "DY"} => Unvoted(s0 \o << m >>)
          BY <4>2, <4>3, VoteStays
        <5> QED BY <4>4, <5>1, <5>2
      <4>6. proc'[0].sent = s1 BY <2>9, <3>8, <4>1, <4>4
      <4>7. proc'[0].pc \in 1 .. 2 + n => Unvoted(s1)
        <5> SUFFICES ASSUME pc + 1 \in 1 .. 2 + n PROVE Unvoted(s1) BY <3>1
        <5>1. pc \in 1 .. 2 + n /\ pc # 2 + n /\ pc # 5 + n BY <1>3, <1>6, <1>11
        <5>2. m \notin {"READY", "DY"} BY <2>1, <5>1
        <5> QED BY <4>2, <4>5, <5>1, <5>2
      <4>8. ASSUME proc[11].life = "run", proc[11].pc \in 1 .. 3
            PROVE  chan'[Down] = s1 /\ proc[11].buf = << "?" >>
        <5>1. chan[Down] = s0 /\ proc[11].buf = << "?" >>
          BY <4>1, <4>8 DEF VoteState, VoteOrder
        <5>2. proc[11].pc # 1 BY <2>7, <4>8 DEF VoteState, VoteConnection
        <5>3. "cfd" \in DOMAIN fds[11] /\ fds[11]["cfd"].r = Down
          BY <4>8, <5>2 DEF VoteState, VoteConnection, End
        <5>4. 11 \in Readers(Down) BY <1>1, <5>3 DEF Readers, ReadersIn
        <5>5. chan' = [chan EXCEPT ![k] = @ \o d] BY <2>9, <3>8, <5>4
        <5>6. chan'[Down] = chan[Down] \o << m >> BY <1>3, <2>9, <5>5, Directions
        <5> QED BY <4>4, <5>1, <5>6
      <4>9. VoteOrder'
        BY <3>6, <4>5, <4>6, <4>7, <4>8 DEF VoteOrder, n
      <4>10. VoteDecision'
        <5>1. PICK at, buf, dec : at = proc[11].pc /\ buf = proc[11].buf /\ dec = proc[11].sent
          OBVIOUS
        <5>2. Decided(at, buf, dec, s0) BY <4>1, <5>1 DEF VoteState, VoteDecision
        <5>3. Decided(at, buf, dec, s1) BY <4>5, <5>2 DEF Decided
        <5> QED BY <3>6, <4>6, <5>1, <5>3 DEF VoteDecision
      <4> QED BY <3>4, <3>5, <4>9, <4>10 DEF VoteState
    <3> QED BY <3>1, <3>7, <3>8
  <2> QED BY <2>11, <2>12
<1>12. CASE pc = 4 + n
  <2>1. b[pc] = Write("out", "buf") /\ pc \in DOMAIN b BY <1>6, <1>12 DEF ParticipantSteps
  <2>2. b[pc].op # "goto" BY <2>1 DEF Write
  <2>3. Now(0) = Write("out", "buf") /\ Pc(0) = pc BY <1>3, <2>1, <2>2, AtStep
  <2>4. PICK s : s = Now(0) OBVIOUS
  <2>5. s.op = "write" /\ s.f = "out" BY <2>3, <2>4 DEF Write
  <2>6. DoWrite(0, s) BY <1>1, <2>4, <2>5, StepIs
  <2>7. fds[0][s.f].w = Tty BY <1>4, <2>5 DEF VoteState, VoteConnection
  <2>8. PICK d : WriteTerminal(0, d) BY <2>6, <2>7, Directions DEF DoWrite
  <2>9. /\ Recs' /\ Only(0) /\ Kept(0) /\ proc'[0].pc = pc + 1
        /\ proc'[0].sent = proc[0].sent
    <3>1. PICK x : x = Pc(0) + 1 OBVIOUS
    <3>2. proc' = [proc EXCEPT ![0].pc = x, ![0].shown = @ \o d]
      BY <2>8, <3>1 DEF WriteTerminal
    <3> QED BY <1>1, <1>3, <2>3, <3>1, <3>2, SetShown
  <2>10. UNCHANGED << prog, fds, backlog, forks, timer, aio, chan >>
    BY <2>8 DEF WriteTerminal, UnchangedTables, UnchangedOther
  <2>11. pc # 1 /\ pc + 1 # 1 /\ pc + 1 \in 0 .. 6 + n /\ pc + 1 \notin 1 .. 2 + n
    BY <1>6, <1>12
  <2>12. VoteProcesses' BY <1>3, <2>9, <2>10, <2>11, VoteRest DEF VoteState, n
  <2>13. VoteConnection' BY <1>7, <2>9, <2>10, <2>11
  <2>14. VoteOrder' /\ VoteDecision' BY <1>8, <2>9, <2>10, <2>11
  <2> QED BY <2>12, <2>13, <2>14 DEF VoteState
<1>13. CASE pc = 0 \/ pc = 6 + n
  <2>1. pc \notin DOMAIN b BY <1>6, <1>13 DEF ParticipantSteps
  <2>2. Now(0).op = "end" BY <1>3, <2>1, AtEnd
  <2>3. Finish(0) BY <1>1, <2>2, StepIs
  <2> QED BY <1>1, <1>2, <1>3, <2>3, Ending, VoteEnd
<1> QED
  <2>1. pc = 1 \/ pc \in {2, 3 + n} \/ pc \in 3 .. 2 + n \/ pc = 5 + n \/ pc = 4 + n
          \/ pc = 0 \/ pc = 6 + n
    BY <1>3, <1>6
  <2> QED BY <1>9, <1>10, <1>11, <1>12, <1>13, <2>1

\* The invariant holds at the start.
LEMMA VoteInit == ASSUME Init, prog \in Voting PROVE VoteState
<1>1. 0 \in Procs /\ 11 \in Procs /\ 12 \in Procs BY ProcsHas
<1>2. PeersOf(prog) = << "two_phase_commit" >> BY DEF Voting, PeersOf
<1>3. PICK pr : pr = << "two_phase_commit" >> OBVIOUS
<1>4. DOMAIN pr = {1} /\ pr[1] = "two_phase_commit" BY <1>3
<1>5. proc = [p \in Procs |->
                 CASE p = 0 -> Start(prog)
                   [] p > 10 /\ p - 10 \in DOMAIN pr -> Start(pr[p - 10])
                   [] OTHER -> Absent]
  BY <1>2, <1>3 DEF Init
<1>6. proc[0] = Start(prog) BY <1>1, <1>5
<1>7. proc[11] = Start("two_phase_commit")
  <2>1. 11 > 10 /\ 11 - 10 = 1 /\ 11 # 0 OBVIOUS
  <2> QED BY <1>1, <1>4, <1>5, <2>1
<1>8. ASSUME NEW p \in Procs, p # 0, p # 11 PROVE proc[p] = Absent
  <2>1. p \in Int BY DEF Procs, Pids, Peers
  <2>2. ~(p > 10 /\ p - 10 \in DOMAIN pr) BY <1>4, <1>8, <2>1
  <2> QED BY <1>5, <1>8, <2>2
<1>9. Recs
  <2>1. DOMAIN proc = Procs BY <1>5
  <2>2. \A p \in Procs : Rec(proc[p]) BY <1>6, <1>7, <1>8, StartIs
  <2> QED BY <2>1, <2>2 DEF Recs
<1>10. /\ proc[0].life = "run" /\ proc[0].body = prog /\ proc[0].pc = 1
       /\ proc[0].pending = {} /\ proc[0].handling = FALSE /\ proc[0].sent = << >>
  BY <1>6 DEF Start
<1>11. /\ proc[11].life = "run" /\ proc[11].body = "two_phase_commit" /\ proc[11].pc = 1
       /\ proc[11].pending = {} /\ proc[11].handling = FALSE /\ proc[11].sent = << >>
       /\ proc[11].buf = << "?" >>
  BY <1>7 DEF Start
<1>12. Absent.life = "none"
  <2>1. PICK r : r = Start("worker") OBVIOUS
  <2>2. Absent = [r EXCEPT !.life = "none"] BY <2>1 DEF Absent
  <2>3. Rec(r) BY <2>1, StartIs
  <2> QED BY <2>2, <2>3 DEF Rec
<1>13. /\ forks = 0 /\ timer = "off" /\ aio = "idle" /\ backlog = << >>
       /\ DOMAIN fds = Procs /\ DOMAIN chan = Channels
       /\ chan[Down] = << >> /\ fds[0] = InitTable(0)
  <2>1. Down \in Channels /\ Down \notin Files BY Directions DEF Files, Down
  <2> QED BY <1>1, <1>10, <2>1 DEF Init
<1>14. VoteProcesses
  <2>1. Pieces \in {1, 2} BY DEF Pieces
  <2> QED BY <1>8, <1>9, <1>10, <1>11, <1>12, <1>13, <2>1 DEF VoteProcesses
<1>15. "out" \in DOMAIN fds[0] /\ fds[0]["out"].w = Tty
  <2>1. "out" \in DOMAIN Terminal /\ Terminal["out"].w = Tty BY DEF Terminal, End
  <2>2. ~Datagrams BY DEF Datagrams, Voting
  <2>3. fds[0] = Terminal \/ fds[0] = With(Terminal, "lfd", End(NoChannel, NoChannel))
    BY <1>13, <2>2 DEF InitTable
  <2>4. PICK t : t = Terminal OBVIOUS
  <2> QED BY <2>1, <2>3, <2>4 DEF With
<1>16. VoteConnection BY <1>10, <1>11, <1>13, <1>15 DEF VoteConnection
<1>17. VoteOrder
  <2>1. << >> \in Seq(Votes) /\ Len(<< >>) = 0 OBVIOUS
  <2>2. ThenDone(<< >>) /\ Unvoted(<< >>) BY <2>1 DEF ThenDone, Unvoted
  <2> QED BY <1>10, <1>11, <1>13, <2>1, <2>2 DEF VoteOrder
<1>18. VoteDecision
  <2>1. << >> \in Seq(Decisions) /\ Range(<< >>) = {} BY DEF Range
  <2>2. Decided(1, << "?" >>, << >>, << >>) BY <2>1 DEF Decided
  <2> QED BY <1>10, <1>11, <2>2 DEF VoteDecision
<1> QED BY <1>14, <1>16, <1>17, <1>18 DEF VoteState

\* Every step of the machine keeps the invariant: only the participant and the
\* coordinator run, and both may be killed at any time.
LEMMA VoteNext == ASSUME prog \in Voting, VoteState, [Next]_vars PROVE VoteState'
<1>1. 0 \in Procs /\ 11 \in Procs BY ProcsHas
<1>2. ~Threaded /\ ~Datagrams BY DEF Threaded, Datagrams, Voting
<1>3. /\ Recs /\ \A p \in Procs : p # 0 /\ p # 11 => proc[p].life = "none"
      /\ \A p \in {0, 11} : proc[p].pending = {} /\ proc[p].handling = FALSE
      /\ timer = "off" /\ aio = "idle" /\ proc[0].body = prog
      /\ proc[11].body = "two_phase_commit"
      /\ proc[0].pc \in 0 .. 6 + Pieces /\ proc[11].pc \in 0 .. 10
  BY DEF VoteState, VoteProcesses
<1>4. ASSUME NEW p \in Procs, Step(p) PROVE VoteState'
  <2>1. p = 0 \/ p = 11 BY <1>3, <1>4 DEF Step, Running
  <2> QED BY <1>4, <2>1, CoordinatorStep, ParticipantStep
<1>5. ASSUME NEW p \in Procs, Deliver(p) PROVE FALSE
  <2>1. p = 0 \/ p = 11 BY <1>3, <1>5 DEF Deliver
  <2>2. Deliverable(p) = {} BY <1>3, <2>1 DEF Deliverable
  <2> QED BY <1>5, <2>2 DEF Deliver
<1>6. ASSUME NEW p \in Procs, HandlerReaps(p) PROVE FALSE
  <2>1. proc[p].life = "run" /\ proc[p].handling BY <1>6 DEF HandlerReaps
  <2>2. p = 0 \/ p = 11 BY <1>3, <2>1
  <2> QED BY <1>3, <2>1, <2>2
<1>7. ASSUME NEW p \in Procs, TypeLine(p) PROVE FALSE
  <2>1. p = 0 \/ p = 11 BY <1>3, <1>7 DEF TypeLine, Running
  <2>2. Now(p).op \in {"input", "select"} BY <1>7 DEF TypeLine
  <2>3. CASE p = 0
    <3>1. PICK b : b = Bodies[prog] OBVIOUS
    <3>2. ParticipantSteps(b, Pieces) /\ Pieces \in {1, 2} BY <3>1, ParticipantBody
    <3>3. ASSUME NEW i \in DOMAIN b PROVE b[i].op \in {"accept", "read", "write"}
      <4>1. \A m, f : Write(f, m).op = "write" BY DEF Write
      <4>2. Accept("cfd").op = "accept" /\ Read("cfd", 0, 0).op = "read" BY DEF Accept, Read
      <4>3. CASE i \in 3 .. 2 + Pieces BY <3>2, <4>1, <4>3 DEF ParticipantSteps
      <4>4. CASE i \in {1, 2} BY <3>2, <4>2, <4>4 DEF ParticipantSteps
      <4>5. CASE i \in {3 + Pieces, 4 + Pieces, 5 + Pieces}
        BY <3>2, <4>1, <4>2, <4>5 DEF ParticipantSteps
      <4>6. i \in 3 .. 2 + Pieces \/ i \in {1, 2} \/ i \in {3 + Pieces, 4 + Pieces, 5 + Pieces}
        BY <3>2, <3>3 DEF ParticipantSteps
      <4> QED BY <4>3, <4>4, <4>5, <4>6
    <3>4. b = Bodies[proc[0].body] BY <1>3, <3>1
    <3>5. CASE proc[0].pc \in DOMAIN b
      <4>1. b[proc[0].pc].op \in {"accept", "read", "write"} BY <3>3, <3>5
      <4>2. b[proc[0].pc].op # "goto" BY <4>1
      <4>3. Now(0) = b[proc[0].pc] BY <3>4, <3>5, <4>2, AtStep
      <4> QED BY <2>2, <2>3, <4>1, <4>3
    <3>6. CASE proc[0].pc \notin DOMAIN b BY <2>2, <2>3, <3>4, <3>6, AtEnd
    <3> QED BY <3>5, <3>6
  <2>4. CASE p = 11
    <3>1. PICK b : b = Bodies["two_phase_commit"] OBVIOUS
    <3>2. /\ DOMAIN b = 1 .. 9 /\ b[7].op = "goto" /\ b[7].to = 0
          /\ \A i \in 1 .. 9 : b[i].op \notin {"input", "select"}
          /\ \A i \in 1 .. 9 : i # 7 => b[i].op # "goto"
      BY <3>1, CoordinatorBody DEF Connect, Write, Read, IfBuffer, Goto
    <3>3. b = Bodies[proc[11].body] BY <1>3, <3>1
    <3>4. CASE proc[11].pc \in DOMAIN b /\ proc[11].pc # 7
      <4>1. Now(11) = b[proc[11].pc] BY <3>2, <3>3, <3>4, AtStep
      <4> QED BY <2>2, <2>4, <3>2, <3>4, <4>1
    <3>5. CASE proc[11].pc \notin DOMAIN b BY <2>2, <2>4, <3>3, <3>5, AtEnd
    <3>6. CASE proc[11].pc = 7
      <4>1. Body(11) = b BY <3>3 DEF Body
      <4>2. Pc(11) = 0 BY <3>2, <3>6, <4>1 DEF Pc
      <4>3. Now(11).op = "end" BY <3>2, <4>1, <4>2 DEF Now
      <4> QED BY <2>2, <2>4, <4>3
    <3> QED BY <3>4, <3>5, <3>6
  <2> QED BY <2>1, <2>3, <2>4
<1>8. ASSUME NEW p \in Procs, Leave(p) PROVE VoteState'
  <2>1. p = 0 \/ p = 11 BY <1>3, <1>8 DEF Leave
  <2>2. Ends(p) BY <1>2, <1>3, <1>8, Ending
  <2> QED BY <2>1, <2>2, VoteEnd
<1>9. ASSUME Alarm \/ AioDone \/ AioNotify \/ SendSignal \/ LoseDatagram PROVE FALSE
  <2>1. ~Alarm BY <1>3 DEF Alarm
  <2>2. ~AioDone /\ ~AioNotify BY <1>3 DEF AioDone, AioNotify
  <2>3. ~SendSignal BY DEF SendSignal, Voting
  <2>4. ~LoseDatagram BY <1>2 DEF LoseDatagram
  <2> QED BY <1>9, <2>1, <2>2, <2>3, <2>4
<1>10. CASE UNCHANGED vars
  <2>1. UNCHANGED << prog, proc, fds, chan, backlog, forks, timer, aio >> BY <1>10 DEF vars
  <2>2. VoteProcesses' BY <2>1 DEF VoteState, VoteProcesses, Recs, Pieces
  <2>3. VoteConnection' BY <2>1 DEF VoteState, VoteConnection
  <2>4. VoteOrder' BY <2>1 DEF VoteState, VoteOrder, Pieces
  <2>5. VoteDecision' BY <2>1 DEF VoteState, VoteDecision
  <2> QED BY <2>2, <2>3, <2>4, <2>5 DEF VoteState
<1> QED BY <1>4, <1>5, <1>6, <1>7, <1>8, <1>9, <1>10 DEF Next

\* The coordinator of 2pc.c sends COMMIT only after the participant has sent its whole vote
\* READY, and never both COMMIT and ABORT, however the vote is cut into pieces, however much
\* of it one read() returns, and whenever either of the two is killed.
THEOREM CommitsOnlyIfReady == Spec => []CommitOnlyIfReady
<1> DEFINE Inv == prog \in Voting => VoteState
<1>1. Init => Inv BY VoteInit
<1>2. Inv /\ [Next]_vars => Inv' BY VoteNext, ProgStays
<1>3. Inv => CommitOnlyIfReady
  <2> SUFFICES ASSUME Inv, prog \in Voting
               PROVE  LET decisions == Range(proc[11].sent) \cap {"COMMIT", "ABORT"}
                          votes == proc[0].sent
                      IN  /\ "COMMIT" \in decisions =>
                               \E n \in 1 .. Len(votes) :
                                  /\ Content(SubSeq(votes, 1, n)) = << "READY" >>
                                  /\ \A i \in n + 1 .. Len(votes) : votes[i] = "DONE"
                          /\ Cardinality(decisions) <= 1
    BY DEF CommitOnlyIfReady
  <2>1. PICK d, v, pc, buf :
          /\ d = proc[11].sent /\ v = proc[0].sent /\ pc = proc[11].pc /\ buf = proc[11].buf
    OBVIOUS
  <2>2. Decided(pc, buf, d, v) /\ v \in Seq(Votes)
    BY <2>1 DEF VoteState, VoteDecision, VoteOrder
  <2>3. PICK D : D = Range(d) \cap {"COMMIT", "ABORT"} OBVIOUS
  <2>4. D = {} \/ D = {"COMMIT"} \/ D = {"ABORT"}
    BY <2>2, <2>3 DEF Decided
  <2>5. Cardinality(D) <= 1
    <3>1. Cardinality({}) = 0 /\ Cardinality({"COMMIT"}) = 1 /\ Cardinality({"ABORT"}) = 1
      BY FS_EmptySet, FS_Singleton
    <3> QED BY <2>4, <3>1
  <2>6. ASSUME "COMMIT" \in D
        PROVE  \E n \in 1 .. Len(v) :
                  /\ Content(SubSeq(v, 1, n)) = << "READY" >>
                  /\ \A i \in n + 1 .. Len(v) : v[i] = "DONE"
    <3>1. PICK n \in 1 .. Len(v) :
            /\ (n = 1 /\ v[1] = "READY") \/ (n = 2 /\ v[1] = "REA" /\ v[2] = "DY")
            /\ \A i \in n + 1 .. Len(v) : v[i] = "DONE"
      BY <2>2, <2>3, <2>6 DEF Decided, VotedReady
    <3>2. PICK w : w = SubSeq(v, 1, n) OBVIOUS
    <3>3. w \in Seq(Votes) /\ Len(w) = n /\ \A i \in 1 .. n : w[i] = v[i]
      BY <2>2, <3>1, <3>2, SubSeqProperties
    <3>4. CASE n = 1
      <4>1. Len(w) = 1 /\ w[1] = "READY" BY <3>1, <3>3, <3>4
      <4>2. w = << "READY" >> BY <3>3, <4>1
      <4>3. w # << "REA", "DY" >> BY <4>1
      <4> QED BY <3>1, <3>2, <4>2, <4>3 DEF Content
    <3>5. CASE n = 2
      <4>1. Len(w) = 2 /\ w[1] = "REA" /\ w[2] = "DY" BY <3>1, <3>3, <3>5
      <4>2. w = << "REA", "DY" >> BY <3>3, <4>1
      <4> QED BY <3>1, <3>2, <4>2 DEF Content
    <3> QED BY <3>1, <3>4, <3>5
  <2> QED BY <2>1, <2>3, <2>5, <2>6
<1> QED BY <1>1, <1>2, <1>3, PTL DEF Spec

-----------------------------------------------------------------------------
(* Children are reaped. *)

\* The programs that count the children they reap.
Counting == {"five_children", "multi_process"}

\* The bodies of the children: they neither fork nor wait.
ChildBodies ==
    {"pipe_test_child", "two_pipe_A", "two_pipe_B", "two_pipe_C", "pipe_fork_exec_child",
     "command", "loud_command", "no_command", "popen_child", "A", "myshell_cat",
     "myshell_wc", "myshell_cat2", "myshell_wc2", "cat", "wc", "sigpipe_b_child", "worker"}

\* A body with only these calls, which executes only such bodies.
Harmless(b) ==
    \A i \in DOMAIN b :
      /\ b[i].op \in {"close", "read", "write", "dup2", "exec", "goto"}
      /\ b[i].op = "exec" => b[i].images \subseteq ChildBodies
      /\ b[i].op = "goto" => b[i].to \in DOMAIN b /\ b[b[i].to].op # "goto"

\* A child never forks or waits, whatever it executes.
LEMMA ChildrenHarmless == ASSUME NEW c \in ChildBodies PROVE Harmless(Bodies[c])
<1> USE DEF Harmless, ChildBodies, Close, Read, Write, Dup2, Exec, Goto
<1>1. Harmless(<< >>) OBVIOUS
<1>2. Harmless(pipe_test_child) /\ Harmless(sigpipe_b_child)
  BY DEF pipe_test_child, sigpipe_b_child
<1>3. Harmless(two_pipe_A) BY DEF two_pipe_A
<1>4. Harmless(two_pipe_B) BY DEF two_pipe_B
<1>5. Harmless(two_pipe_C) BY DEF two_pipe_C
<1>6. Harmless(pipe_fork_exec_child) BY DEF pipe_fork_exec_child
<1>7. Harmless(command) /\ Harmless(no_command) BY DEF command, no_command
<1>8. Harmless(loud_command) BY DEF loud_command
<1>9. Harmless(popen_child) BY DEF popen_child
<1>10. Harmless(A) BY DEF A
<1>11. Harmless(cat) BY DEF cat
<1>12. Harmless(wc) BY DEF wc
<1>13. ASSUME NEW f, NEW g, NEW x \in {"cat", "wc"} PROVE Harmless(myshell_child(f, g, x))
  BY DEF myshell_child
<1> HIDE DEF Harmless, Close, Read, Write, Dup2, Exec, Goto
<1>14. CASE c \in {"pipe_test_child", "sigpipe_b_child", "worker"}
  BY <1>1, <1>2, <1>14 DEF Bodies, worker
<1>15. CASE c \in {"two_pipe_A", "two_pipe_B", "two_pipe_C", "pipe_fork_exec_child"}
  BY <1>3, <1>4, <1>5, <1>6, <1>15 DEF Bodies
<1>16. CASE c \in {"command", "no_command", "loud_command", "popen_child"}
  BY <1>7, <1>8, <1>9, <1>16 DEF Bodies
<1>17. CASE c \in {"A", "cat", "wc"} BY <1>10, <1>11, <1>12, <1>17 DEF Bodies
<1>18. CASE c \in {"myshell_cat", "myshell_wc", "myshell_cat2", "myshell_wc2"}
  BY <1>13, <1>18 DEF Bodies
<1> QED BY <1>14, <1>15, <1>16, <1>17, <1>18

\* Where the main processes of the other programs fork.
ForkAt == [pipe_test |-> << 2 >>, two_pipe |-> << 3, 4, 5 >>, pipe_fork_exec |-> << 3 >>,
           popen_test |-> << 2 >>, myshell |-> << 3, 6, 12, 15 >>, sigpipe_b |-> << 3 >>]
\* Where they wait for each child.
WaitAt == [pipe_test |-> << 5 >>, two_pipe |-> << 6, 7, 8 >>, pipe_fork_exec |-> << 14 >>,
           popen_test |-> << 6 >>, myshell |-> << 8, 9, 17, 18 >>, sigpipe_b |-> << 6 >>]
\* The programs whose main process writes into a pipe that its child reads.
Feeding == {"pipe_test", "popen_test", "sigpipe_b"}
\* The step at which they write.
WriteAt == [pipe_test |-> 4, popen_test |-> 4, sigpipe_b |-> 5]

\* Going from step i to step t passes no fork and leaves no wait out.
Near(i, t, forkAt, waitAt) ==
    \A j \in DOMAIN forkAt :
      (forkAt[j] < t <=> forkAt[j] < i) /\ (waitAt[j] < t => waitAt[j] < i)

\* A call of a main process that touches neither children, nor SIGCHLD, nor the standard
\* output.
Quiet(c) ==
    \/ c.op = "pipe" /\ c.r \notin {"out", "err"} /\ c.w \notin {"out", "err"}
    \/ c.op \in {"open", "close"} /\ c.f \notin {"out", "err"}
    \/ c.op = "signal" /\ c.s # "CHLD"
    \/ c.op = "write" /\ c.f \in {"out", "err"}

\* A step of a main process: it forks and waits where it should.
OrderlyStep(b, i, forkAt, waitAt, writeAt) ==
    \/ /\ \A j \in DOMAIN forkAt : forkAt[j] # i /\ waitAt[j] # i
       /\ \/ Quiet(b[i])
          \/ b[i].op = "write" /\ (i = writeAt \/ \A j \in DOMAIN waitAt : waitAt[j] < i)
          \/ /\ b[i].op = "read"
             /\ b[i].end \in DOMAIN b /\ Near(i, b[i].end, forkAt, waitAt)
             /\ b[i].err \in DOMAIN b /\ Near(i, b[i].err, forkAt, waitAt)
          \/ /\ b[i].op = "goto" /\ b[i].to \in DOMAIN b /\ Near(i, b[i].to, forkAt, waitAt)
             /\ b[b[i].to].op \in {"read"}
    \/ /\ b[i].op = "fork" /\ b[i].child \in ChildBodies
       /\ \E j \in DOMAIN forkAt : forkAt[j] = i
       /\ \A j \in DOMAIN waitAt : waitAt[j] # i
    \/ /\ b[i].op = "wait" /\ b[i].n \in DOMAIN waitAt /\ waitAt[b[i].n] = i
       /\ \A j \in DOMAIN forkAt : forkAt[j] # i
    \/ /\ b[i].op = "waitany" /\ DOMAIN waitAt = {1} /\ waitAt[1] = i
       /\ \A j \in DOMAIN forkAt : forkAt[j] # i

\* A body of n steps forks at the steps forkAt and waits for each child at waitAt.
Orderly(b, n, forkAt, waitAt, writeAt) ==
    /\ n \in Nat /\ DOMAIN b = 1 .. n
    /\ DOMAIN waitAt = DOMAIN forkAt
    /\ \E m \in 1 .. 4 : DOMAIN forkAt = 1 .. m
    /\ \A j \in DOMAIN forkAt : forkAt[j] \in 1 .. n /\ waitAt[j] \in 1 .. n
    /\ \A j, k \in DOMAIN forkAt : j < k => forkAt[j] < forkAt[k] /\ waitAt[j] < waitAt[k]
    /\ \A j \in DOMAIN forkAt : forkAt[j] < waitAt[j]
    /\ \A i \in 1 .. n : OrderlyStep(b, i, forkAt, waitAt, writeAt)

\* The step at which the program that is run writes, or 0.
WritesAt == IF prog \in Feeding THEN WriteAt[prog] ELSE 0

\* The sequence u is s followed by t.
Joint(S, s, t, u) ==
    /\ u \in Seq(S) /\ Len(u) = Len(s) + Len(t)
    /\ \A i \in 1 .. Len(s) : u[i] = s[i]
    /\ \A i \in 1 .. Len(t) : u[Len(s) + i] = t[i]

\* Concatenation, as a relation.
LEMMA JoinedAs ==
    ASSUME NEW S, NEW s, NEW t, NEW u, s \in Seq(S), t \in Seq(S), u = s \o t
    PROVE  Joint(S, s, t, u)
BY Joined DEF Joint

\* The steps of myshell.c.
LEMMA MyshellBody ==
    LET b == Bodies["myshell"] IN
    /\ DOMAIN b = 1 .. 20
    /\ b[1].op = "open" /\ b[1].f = "f"
    /\ b[2].op = "pipe" /\ b[2].r = "p0" /\ b[2].w = "p1"
    /\ b[3].op = "fork" /\ b[3].child = "myshell_cat"
    /\ b[4].op = "close" /\ b[4].f = "p1"
    /\ b[5].op = "pipe" /\ b[5].r = "q0" /\ b[5].w = "q1"
    /\ b[6].op = "fork" /\ b[6].child = "myshell_wc"
    /\ b[7].op = "close" /\ b[7].f = "q1"
    /\ b[8].op = "wait" /\ b[8].n = 1
    /\ b[9].op = "wait" /\ b[9].n = 2
    /\ b[10].op = "open" /\ b[10].f = "g"
    /\ b[11].op = "pipe" /\ b[11].r = "r0" /\ b[11].w = "r1"
    /\ b[12].op = "fork" /\ b[12].child = "myshell_cat2"
    /\ b[13].op = "close" /\ b[13].f = "r1"
    /\ b[14].op = "pipe" /\ b[14].r = "s0" /\ b[14].w = "s1"
    /\ b[15].op = "fork" /\ b[15].child = "myshell_wc2"
    /\ b[16].op = "close" /\ b[16].f = "s1"
    /\ b[17].op = "wait" /\ b[17].n = 3
    /\ b[18].op = "wait" /\ b[18].n = 4
    /\ b[19].op = "read" /\ b[19].end = 20 /\ b[19].err = 20
    /\ b[20].op = "write" /\ b[20].f = "out"
<1> DEFINE x == << Open("f"), Pipe("p0", "p1"), Fork("myshell_cat", "as child"), Close("p1"),
                   Pipe("q0", "q1"), Fork("myshell_wc", "as child"), Close("q1") >>
           y == << Wait(1), Wait(2) >>
           z == << Open("g"), Pipe("r0", "r1"), Fork("myshell_cat2", "as child"), Close("r1"),
                   Pipe("s0", "s1"), Fork("myshell_wc2", "as child"), Close("s1") >>
           w == << Wait(3), Wait(4), Read("s0", 20, 20), Write("out", "buf") >>
<1>1. Bodies["myshell"] = ((x \o y) \o z) \o w
  BY DEF Bodies, myshell, myshell_file
<1>2. PICK S : /\ \A i \in 1 .. 7 : x[i] \in S /\ z[i] \in S
               /\ \A i \in 1 .. 2 : y[i] \in S
               /\ \A i \in 1 .. 4 : w[i] \in S
  <2>1. PICK S : S = {x[i] : i \in 1 .. 7} \cup {z[i] : i \in 1 .. 7}
                       \cup {y[i] : i \in 1 .. 2} \cup {w[i] : i \in 1 .. 4}
    OBVIOUS
  <2> HIDE DEF x, y, z, w
  <2> QED BY <2>1
<1>3. x[1].op = "open" /\ x[1].f = "f" BY DEF Open
<1>4. /\ x[2].op = "pipe" /\ x[2].r = "p0" /\ x[2].w = "p1"
      /\ x[5].op = "pipe" /\ x[5].r = "q0" /\ x[5].w = "q1"
  BY DEF Pipe
<1>5. /\ x[3].op = "fork" /\ x[3].child = "myshell_cat"
      /\ x[6].op = "fork" /\ x[6].child = "myshell_wc"
  BY DEF Fork
<1>6. /\ x[4].op = "close" /\ x[4].f = "p1"
      /\ x[7].op = "close" /\ x[7].f = "q1"
  BY DEF Close
<1>7. /\ y[1].op = "wait" /\ y[1].n = 1
      /\ y[2].op = "wait" /\ y[2].n = 2
  BY DEF Wait
<1>8. z[1].op = "open" /\ z[1].f = "g" BY DEF Open
<1>9. /\ z[2].op = "pipe" /\ z[2].r = "r0" /\ z[2].w = "r1"
      /\ z[5].op = "pipe" /\ z[5].r = "s0" /\ z[5].w = "s1"
  BY DEF Pipe
<1>10. /\ z[3].op = "fork" /\ z[3].child = "myshell_cat2"
      /\ z[6].op = "fork" /\ z[6].child = "myshell_wc2"
  BY DEF Fork
<1>11. /\ z[4].op = "close" /\ z[4].f = "r1"
      /\ z[7].op = "close" /\ z[7].f = "s1"
  BY DEF Close
<1>12. /\ w[1].op = "wait" /\ w[1].n = 3
      /\ w[2].op = "wait" /\ w[2].n = 4
  BY DEF Wait
<1>13. w[3].op = "read" /\ w[3].end = 20 /\ w[3].err = 20 BY DEF Read
<1>14. w[4].op = "write" /\ w[4].f = "out" BY DEF Write
<1>15. Len(x) = 7 /\ Len(y) = 2 /\ Len(z) = 7 /\ Len(w) = 4 OBVIOUS
<1>16. x \in Seq(S)
  <2>1. x = [i \in 1 .. 7 |-> x[i]] OBVIOUS
  <2> HIDE DEF x, y, z, w
  <2> QED BY <1>2, <2>1
<1>17. y \in Seq(S)
  <2>1. y = [i \in 1 .. 2 |-> y[i]] OBVIOUS
  <2> HIDE DEF x, y, z, w
  <2> QED BY <1>2, <2>1
<1>18. z \in Seq(S)
  <2>1. z = [i \in 1 .. 7 |-> z[i]] OBVIOUS
  <2> HIDE DEF x, y, z, w
  <2> QED BY <1>2, <2>1
<1>19. w \in Seq(S)
  <2>1. w = [i \in 1 .. 4 |-> w[i]] OBVIOUS
  <2> HIDE DEF x, y, z, w
  <2> QED BY <1>2, <2>1
<1> HIDE DEF x, y, z, w
<1>20. PICK xy : xy = x \o y OBVIOUS
<1>21. Joint(S, x, y, xy) BY <1>16, <1>17, <1>20, JoinedAs
<1>22. xy \in Seq(S) /\ Len(xy) = 9 BY <1>15, <1>21 DEF Joint
<1>23. (\A i \in 1 .. 7 : xy[i] = x[i]) /\ xy[8] = y[1] /\ xy[9] = y[2]
  BY <1>15, <1>21 DEF Joint
<1>24. PICK xyz : xyz = xy \o z OBVIOUS
<1>25. Joint(S, xy, z, xyz) BY <1>18, <1>22, <1>24, JoinedAs
<1>26. xyz \in Seq(S) /\ Len(xyz) = 16 BY <1>15, <1>22, <1>25 DEF Joint
<1>27. /\ \A i \in 1 .. 9 : xyz[i] = xy[i]
       /\ xyz[10] = z[1] /\ xyz[11] = z[2] /\ xyz[12] = z[3] /\ xyz[13] = z[4]
       /\ xyz[14] = z[5] /\ xyz[15] = z[6] /\ xyz[16] = z[7]
  BY <1>15, <1>22, <1>25 DEF Joint
<1>28. PICK b : b = xyz \o w OBVIOUS
<1>29. Joint(S, xyz, w, b) BY <1>19, <1>26, <1>28, JoinedAs
<1>30. /\ \A i \in 1 .. 16 : b[i] = xyz[i]
       /\ b[17] = w[1] /\ b[18] = w[2] /\ b[19] = w[3] /\ b[20] = w[4]
  BY <1>15, <1>26, <1>29 DEF Joint
<1>31. DOMAIN b = 1 .. 20 BY <1>15, <1>26, <1>29 DEF Joint
<1>32. b = Bodies["myshell"] BY <1>1, <1>20, <1>24, <1>28
<1>33. \A i \in 1 .. 7 : b[i] = x[i] BY <1>23, <1>27, <1>30
<1>34. b[8] = y[1] /\ b[9] = y[2] BY <1>23, <1>27, <1>30
<1>35. b[10] = z[1] /\ b[11] = z[2] /\ b[12] = z[3] /\ b[13] = z[4]
         /\ b[14] = z[5] /\ b[15] = z[6] /\ b[16] = z[7]
  BY <1>27, <1>30
<1>36. /\ b[1].op = "open" /\ b[1].f = "f"
       /\ b[2].op = "pipe" /\ b[2].r = "p0" /\ b[2].w = "p1"
       /\ b[3].op = "fork" /\ b[3].child = "myshell_cat"
       /\ b[4].op = "close" /\ b[4].f = "p1"
       /\ b[5].op = "pipe" /\ b[5].r = "q0" /\ b[5].w = "q1"
       /\ b[6].op = "fork" /\ b[6].child = "myshell_wc"
       /\ b[7].op = "close" /\ b[7].f = "q1"
  BY <1>3, <1>4, <1>5, <1>6, <1>33
<1>37. /\ b[8].op = "wait" /\ b[8].n = 1
       /\ b[9].op = "wait" /\ b[9].n = 2
  BY <1>7, <1>34
<1>38. /\ b[10].op = "open" /\ b[10].f = "g"
       /\ b[11].op = "pipe" /\ b[11].r = "r0" /\ b[11].w = "r1"
       /\ b[12].op = "fork" /\ b[12].child = "myshell_cat2"
       /\ b[13].op = "close" /\ b[13].f = "r1"
       /\ b[14].op = "pipe" /\ b[14].r = "s0" /\ b[14].w = "s1"
       /\ b[15].op = "fork" /\ b[15].child = "myshell_wc2"
       /\ b[16].op = "close" /\ b[16].f = "s1"
  BY <1>8, <1>9, <1>10, <1>11, <1>35
<1>39. /\ b[17].op = "wait" /\ b[17].n = 3
       /\ b[18].op = "wait" /\ b[18].n = 4
       /\ b[19].op = "read" /\ b[19].end = 20 /\ b[19].err = 20
       /\ b[20].op = "write" /\ b[20].f = "out"
  BY <1>12, <1>13, <1>14, <1>30
<1> QED BY <1>31, <1>32, <1>36, <1>37, <1>38, <1>39

\* The main processes of the pipelines are orderly.
LEMMA MainsOrderly ==
    ASSUME prog \in Reaping \ Counting
    PROVE  \E n \in Nat : Orderly(Bodies[prog], n, ForkAt[prog], WaitAt[prog], WritesAt)
<1>1. CASE prog = "pipe_test"
  <2>1. PICK b, F, W : b = Bodies["pipe_test"] /\ F = << 2 >> /\ W = << 5 >> OBVIOUS
  <2>2. ForkAt[prog] = F /\ WaitAt[prog] = W BY <1>1, <2>1 DEF ForkAt, WaitAt
  <2>3. WritesAt = 4 BY <1>1 DEF WritesAt, Feeding, WriteAt
  <2>4. /\ DOMAIN F = {1} /\ DOMAIN W = {1}
        /\ F[1] = 2
        /\ W[1] = 5
    BY <2>1
  <2>5. DOMAIN b = 1 .. 5 /\ b = pipe_test
    <3>1. b = pipe_test BY <2>1 DEF Bodies
    <3>2. DOMAIN pipe_test = 1 .. 5 BY DEF pipe_test
    <3> QED BY <3>1, <3>2
  <2>6. b[1].op = "pipe" /\ b[1].r = "p0" /\ b[1].w = "p1" BY <2>5 DEF pipe_test, Pipe
  <2>7. b[2].op = "fork" /\ b[2].child = "pipe_test_child" BY <2>5 DEF pipe_test, Fork
  <2>8. b[3].op = "close" /\ b[3].f = "p0" BY <2>5 DEF pipe_test, Close
  <2>9. b[4].op = "write" /\ b[4].f = "p1" BY <2>5 DEF pipe_test, Write
  <2>10. b[5].op = "waitany" BY <2>5 DEF pipe_test, WaitAny
  <2>11. \A i \in {1} : OrderlyStep(b, i, F, W, 4)
    BY <2>4, <2>6 DEF OrderlyStep, Quiet
  <2>12. \A i \in {2} : OrderlyStep(b, i, F, W, 4)
    BY <2>4, <2>7 DEF OrderlyStep, ChildBodies
  <2>13. \A i \in {3} : OrderlyStep(b, i, F, W, 4)
    BY <2>4, <2>8 DEF OrderlyStep, Quiet
  <2>14. \A i \in {4} : OrderlyStep(b, i, F, W, 4)
    BY <2>4, <2>9 DEF OrderlyStep, Quiet
  <2>15. \A i \in {5} : OrderlyStep(b, i, F, W, 4)
    BY <2>4, <2>10 DEF OrderlyStep
  <2>16. \A i \in 1 .. 5 : OrderlyStep(b, i, F, W, 4)
    BY <2>11, <2>12, <2>13, <2>14, <2>15
  <2>17. DOMAIN b = 1 .. 5 BY <2>5
  <2>18. Orderly(b, 5, F, W, 4) BY <2>4, <2>16, <2>17 DEF Orderly
  <2> QED BY <1>1, <2>1, <2>2, <2>3, <2>18
<1>2. CASE prog = "popen_test"
  <2>1. PICK b, F, W : b = Bodies["popen_test"] /\ F = << 2 >> /\ W = << 6 >> OBVIOUS
  <2>2. ForkAt[prog] = F /\ WaitAt[prog] = W BY <1>2, <2>1 DEF ForkAt, WaitAt
  <2>3. WritesAt = 4 BY <1>2 DEF WritesAt, Feeding, WriteAt
  <2>4. /\ DOMAIN F = {1} /\ DOMAIN W = {1}
        /\ F[1] = 2
        /\ W[1] = 6
    BY <2>1
  <2>5. DOMAIN b = 1 .. 6 /\ b = popen_test
    <3>1. b = popen_test BY <2>1 DEF Bodies
    <3>2. DOMAIN popen_test = 1 .. 6 BY DEF popen_test
    <3> QED BY <3>1, <3>2
  <2>6. b[1].op = "pipe" /\ b[1].r = "p0" /\ b[1].w = "p1" BY <2>5 DEF popen_test, Pipe
  <2>7. b[2].op = "fork" /\ b[2].child = "popen_child" BY <2>5 DEF popen_test, Fork
  <2>8. /\ b[3].op = "close" /\ b[3].f = "p0"
        /\ b[5].op = "close" /\ b[5].f = "p1"
    BY <2>5 DEF popen_test, Close
  <2>9. b[4].op = "write" /\ b[4].f = "p1" BY <2>5 DEF popen_test, Write
  <2>10. b[6].op = "wait" /\ b[6].n = 1 BY <2>5 DEF popen_test, Wait
  <2>11. \A i \in {1} : OrderlyStep(b, i, F, W, 4)
    BY <2>4, <2>6 DEF OrderlyStep, Quiet
  <2>12. \A i \in {2} : OrderlyStep(b, i, F, W, 4)
    BY <2>4, <2>7 DEF OrderlyStep, ChildBodies
  <2>13. \A i \in {3, 5} : OrderlyStep(b, i, F, W, 4)
    BY <2>4, <2>8 DEF OrderlyStep, Quiet
  <2>14. \A i \in {4} : OrderlyStep(b, i, F, W, 4)
    BY <2>4, <2>9 DEF OrderlyStep, Quiet
  <2>15. \A i \in {6} : OrderlyStep(b, i, F, W, 4)
    BY <2>4, <2>10 DEF OrderlyStep
  <2>16. \A i \in 1 .. 6 : OrderlyStep(b, i, F, W, 4)
    BY <2>11, <2>12, <2>13, <2>14, <2>15
  <2>17. DOMAIN b = 1 .. 6 BY <2>5
  <2>18. Orderly(b, 6, F, W, 4) BY <2>4, <2>16, <2>17 DEF Orderly
  <2> QED BY <1>2, <2>1, <2>2, <2>3, <2>18
<1>3. CASE prog = "sigpipe_b"
  <2>1. PICK b, F, W : b = Bodies["sigpipe_b"] /\ F = << 3 >> /\ W = << 6 >> OBVIOUS
  <2>2. ForkAt[prog] = F /\ WaitAt[prog] = W BY <1>3, <2>1 DEF ForkAt, WaitAt
  <2>3. WritesAt = 5 BY <1>3 DEF WritesAt, Feeding, WriteAt
  <2>4. /\ DOMAIN F = {1} /\ DOMAIN W = {1}
        /\ F[1] = 3
        /\ W[1] = 6
    BY <2>1
  <2>5. DOMAIN b = 1 .. 7 /\ b = sigpipe_b
    <3>1. b = sigpipe_b BY <2>1 DEF Bodies
    <3>2. DOMAIN sigpipe_b = 1 .. 7 BY DEF sigpipe_b
    <3> QED BY <3>1, <3>2
  <2>6. b[1].op = "pipe" /\ b[1].r = "p0" /\ b[1].w = "p1" BY <2>5 DEF sigpipe_b, Pipe
  <2>7. b[2].op = "signal" /\ b[2].s = "PIPE" BY <2>5 DEF sigpipe_b, Signal
  <2>8. b[3].op = "fork" /\ b[3].child = "sigpipe_b_child" BY <2>5 DEF sigpipe_b, Fork
  <2>9. b[4].op = "close" /\ b[4].f = "p0" BY <2>5 DEF sigpipe_b, Close
  <2>10. /\ b[5].op = "write" /\ b[5].f = "p1"
        /\ b[7].op = "write" /\ b[7].f = "p1"
    BY <2>5 DEF sigpipe_b, Write
  <2>11. b[6].op = "wait" /\ b[6].n = 1 BY <2>5 DEF sigpipe_b, Wait
  <2>12. \A i \in {1} : OrderlyStep(b, i, F, W, 5)
    BY <2>4, <2>6 DEF OrderlyStep, Quiet
  <2>13. \A i \in {2} : OrderlyStep(b, i, F, W, 5)
    BY <2>4, <2>7 DEF OrderlyStep, Quiet
  <2>14. \A i \in {3} : OrderlyStep(b, i, F, W, 5)
    BY <2>4, <2>8 DEF OrderlyStep, ChildBodies
  <2>15. \A i \in {4} : OrderlyStep(b, i, F, W, 5)
    BY <2>4, <2>9 DEF OrderlyStep, Quiet
  <2>16. \A i \in {5, 7} : OrderlyStep(b, i, F, W, 5)
    BY <2>4, <2>10 DEF OrderlyStep, Quiet
  <2>17. \A i \in {6} : OrderlyStep(b, i, F, W, 5)
    BY <2>4, <2>11 DEF OrderlyStep
  <2>18. \A i \in 1 .. 7 : OrderlyStep(b, i, F, W, 5)
    BY <2>12, <2>13, <2>14, <2>15, <2>16, <2>17
  <2>19. DOMAIN b = 1 .. 7 BY <2>5
  <2>20. Orderly(b, 7, F, W, 5) BY <2>4, <2>18, <2>19 DEF Orderly
  <2> QED BY <1>3, <2>1, <2>2, <2>3, <2>20
<1>4. CASE prog = "two_pipe"
  <2>1. PICK b, F, W : b = Bodies["two_pipe"] /\ F = << 3, 4, 5 >> /\ W = << 6, 7, 8 >> OBVIOUS
  <2>2. ForkAt[prog] = F /\ WaitAt[prog] = W BY <1>4, <2>1 DEF ForkAt, WaitAt
  <2>3. WritesAt = 0 BY <1>4 DEF WritesAt, Feeding, WriteAt
  <2>4. /\ DOMAIN F = {1, 2, 3} /\ DOMAIN W = {1, 2, 3}
        /\ F[1] = 3 /\ F[2] = 4 /\ F[3] = 5
        /\ W[1] = 6 /\ W[2] = 7 /\ W[3] = 8
    BY <2>1
  <2>5. DOMAIN b = 1 .. 8 /\ b = two_pipe
    <3>1. b = two_pipe BY <2>1 DEF Bodies
    <3>2. DOMAIN two_pipe = 1 .. 8 BY DEF two_pipe
    <3> QED BY <3>1, <3>2
  <2>6. /\ b[1].op = "pipe" /\ b[1].r = "ab0" /\ b[1].w = "ab1"
        /\ b[2].op = "pipe" /\ b[2].r = "ac0" /\ b[2].w = "ac1"
    BY <2>5 DEF two_pipe, Pipe
  <2>7. /\ b[3].op = "fork" /\ b[3].child = "two_pipe_A"
        /\ b[4].op = "fork" /\ b[4].child = "two_pipe_B"
        /\ b[5].op = "fork" /\ b[5].child = "two_pipe_C"
    BY <2>5 DEF two_pipe, Fork
  <2>8. /\ b[6].op = "wait" /\ b[6].n = 1
        /\ b[7].op = "wait" /\ b[7].n = 2
        /\ b[8].op = "wait" /\ b[8].n = 3
    BY <2>5 DEF two_pipe, Wait
  <2>9. \A i \in {1, 2} : OrderlyStep(b, i, F, W, 0)
    BY <2>4, <2>6 DEF OrderlyStep, Quiet
  <2>10. \A i \in {3, 4, 5} : OrderlyStep(b, i, F, W, 0)
    BY <2>4, <2>7 DEF OrderlyStep, ChildBodies
  <2>11. \A i \in {6, 7, 8} : OrderlyStep(b, i, F, W, 0)
    BY <2>4, <2>8 DEF OrderlyStep
  <2>12. \A i \in 1 .. 8 : OrderlyStep(b, i, F, W, 0)
    BY <2>9, <2>10, <2>11
  <2>13. DOMAIN b = 1 .. 8 BY <2>5
  <2>14. Orderly(b, 8, F, W, 0) BY <2>4, <2>12, <2>13 DEF Orderly
  <2> QED BY <1>4, <2>1, <2>2, <2>3, <2>14
<1>5. CASE prog = "pipe_fork_exec"
  <2>1. PICK b, F, W : b = Bodies["pipe_fork_exec"] /\ F = << 3 >> /\ W = << 14 >> OBVIOUS
  <2>2. ForkAt[prog] = F /\ WaitAt[prog] = W BY <1>5, <2>1 DEF ForkAt, WaitAt
  <2>3. WritesAt = 0 BY <1>5 DEF WritesAt, Feeding, WriteAt
  <2>4. /\ DOMAIN F = {1} /\ DOMAIN W = {1}
        /\ F[1] = 3
        /\ W[1] = 14
    BY <2>1
  <2>5. DOMAIN b = 1 .. 14 /\ b = pipe_fork_exec
    <3>1. b = pipe_fork_exec BY <2>1 DEF Bodies
    <3>2. DOMAIN pipe_fork_exec = 1 .. 14 BY DEF pipe_fork_exec
    <3> QED BY <3>1, <3>2
  <2>6. /\ b[1].op = "pipe" /\ b[1].r = "o0" /\ b[1].w = "o1"
        /\ b[2].op = "pipe" /\ b[2].r = "e0" /\ b[2].w = "e1"
    BY <2>5 DEF pipe_fork_exec, Pipe
  <2>7. b[3].op = "fork" /\ b[3].child = "pipe_fork_exec_child" BY <2>5 DEF pipe_fork_exec, Fork
  <2>8. /\ b[4].op = "close" /\ b[4].f = "o1"
        /\ b[5].op = "close" /\ b[5].f = "e1"
        /\ b[12].op = "close" /\ b[12].f = "o0"
        /\ b[13].op = "close" /\ b[13].f = "e0"
    BY <2>5 DEF pipe_fork_exec, Close
  <2>9. /\ b[6].op = "read" /\ b[6].end = 9 /\ b[6].err = 9
        /\ b[9].op = "read" /\ b[9].end = 12 /\ b[9].err = 12
    BY <2>5 DEF pipe_fork_exec, Read
  <2>10. /\ b[7].op = "write" /\ b[7].f = "out"
        /\ b[10].op = "write" /\ b[10].f = "err"
    BY <2>5 DEF pipe_fork_exec, Write
  <2>11. /\ b[8].op = "goto" /\ b[8].to = 6
        /\ b[11].op = "goto" /\ b[11].to = 9
    BY <2>5 DEF pipe_fork_exec, Goto
  <2>12. b[14].op = "wait" /\ b[14].n = 1 BY <2>5 DEF pipe_fork_exec, Wait
  <2>13. \A i \in {1, 2} : OrderlyStep(b, i, F, W, 0)
    BY <2>4, <2>6 DEF OrderlyStep, Quiet
  <2>14. \A i \in {3} : OrderlyStep(b, i, F, W, 0)
    BY <2>4, <2>7 DEF OrderlyStep, ChildBodies
  <2>15. \A i \in {4, 5, 12, 13} : OrderlyStep(b, i, F, W, 0)
    BY <2>4, <2>8 DEF OrderlyStep, Quiet
  <2>16. \A i \in {6, 9} : OrderlyStep(b, i, F, W, 0)
    BY <2>4, <2>9, <2>5 DEF OrderlyStep, Near
  <2>17. \A i \in {7, 10} : OrderlyStep(b, i, F, W, 0)
    BY <2>4, <2>10 DEF OrderlyStep, Quiet
  <2>18. \A i \in {8, 11} : OrderlyStep(b, i, F, W, 0)
    BY <2>4, <2>11, <2>5, <2>9 DEF OrderlyStep, Near
  <2>19. \A i \in {14} : OrderlyStep(b, i, F, W, 0)
    BY <2>4, <2>12 DEF OrderlyStep
  <2>20. \A i \in 1 .. 14 : OrderlyStep(b, i, F, W, 0)
    BY <2>13, <2>14, <2>15, <2>16, <2>17, <2>18, <2>19
  <2>21. DOMAIN b = 1 .. 14 BY <2>5
  <2>22. Orderly(b, 14, F, W, 0) BY <2>4, <2>20, <2>21 DEF Orderly
  <2> QED BY <1>5, <2>1, <2>2, <2>3, <2>22
<1>6. CASE prog = "myshell"
  <2>1. PICK b, F, W : b = Bodies["myshell"] /\ F = << 3, 6, 12, 15 >> /\ W = << 8, 9, 17, 18 >>
    OBVIOUS
  <2>2. ForkAt[prog] = F /\ WaitAt[prog] = W BY <1>6, <2>1 DEF ForkAt, WaitAt
  <2>3. WritesAt = 0 BY <1>6 DEF WritesAt, Feeding, WriteAt
  <2>4. /\ DOMAIN F = {1, 2, 3, 4} /\ DOMAIN W = {1, 2, 3, 4}
        /\ F[1] = 3 /\ F[2] = 6 /\ F[3] = 12 /\ F[4] = 15
        /\ W[1] = 8 /\ W[2] = 9 /\ W[3] = 17 /\ W[4] = 18
    BY <2>1
  <2>5. DOMAIN b = 1 .. 20 BY <2>1, MyshellBody
  <2>6. /\ b[1].op = "open" /\ b[1].f = "f"
        /\ b[10].op = "open" /\ b[10].f = "g"
    BY <2>1, MyshellBody
  <2>7. /\ b[2].op = "pipe" /\ b[2].r = "p0" /\ b[2].w = "p1"
        /\ b[5].op = "pipe" /\ b[5].r = "q0" /\ b[5].w = "q1"
        /\ b[11].op = "pipe" /\ b[11].r = "r0" /\ b[11].w = "r1"
        /\ b[14].op = "pipe" /\ b[14].r = "s0" /\ b[14].w = "s1"
    BY <2>1, MyshellBody
  <2>8. /\ b[3].op = "fork" /\ b[3].child = "myshell_cat"
        /\ b[6].op = "fork" /\ b[6].child = "myshell_wc"
        /\ b[12].op = "fork" /\ b[12].child = "myshell_cat2"
        /\ b[15].op = "fork" /\ b[15].child = "myshell_wc2"
    BY <2>1, MyshellBody
  <2>9. /\ b[4].op = "close" /\ b[4].f = "p1"
        /\ b[7].op = "close" /\ b[7].f = "q1"
        /\ b[13].op = "close" /\ b[13].f = "r1"
        /\ b[16].op = "close" /\ b[16].f = "s1"
    BY <2>1, MyshellBody
  <2>10. /\ b[8].op = "wait" /\ b[8].n = 1
        /\ b[9].op = "wait" /\ b[9].n = 2
        /\ b[17].op = "wait" /\ b[17].n = 3
        /\ b[18].op = "wait" /\ b[18].n = 4
    BY <2>1, MyshellBody
  <2>11. /\ b[19].op = "read" /\ b[19].end = 20 /\ b[19].err = 20
    BY <2>1, MyshellBody
  <2>12. /\ b[20].op = "write" /\ b[20].f = "out"
    BY <2>1, MyshellBody
  <2>13. \A i \in {1, 10} : OrderlyStep(b, i, F, W, 0)
    BY <2>4, <2>6 DEF OrderlyStep, Quiet
  <2>14. \A i \in {2, 5, 11, 14} : OrderlyStep(b, i, F, W, 0)
    BY <2>4, <2>7 DEF OrderlyStep, Quiet
  <2>15. \A i \in {3, 6, 12, 15} : OrderlyStep(b, i, F, W, 0)
    BY <2>4, <2>8 DEF OrderlyStep, ChildBodies
  <2>16. \A i \in {4, 7, 13, 16} : OrderlyStep(b, i, F, W, 0)
    BY <2>4, <2>9 DEF OrderlyStep, Quiet
  <2>17. \A i \in {8, 9, 17, 18} : OrderlyStep(b, i, F, W, 0)
    BY <2>4, <2>10 DEF OrderlyStep
  <2>18. \A i \in {19} : OrderlyStep(b, i, F, W, 0)
    BY <2>4, <2>11, <2>5 DEF OrderlyStep, Near
  <2>19. \A i \in {20} : OrderlyStep(b, i, F, W, 0)
    BY <2>4, <2>12 DEF OrderlyStep, Quiet
  <2>20. \A i \in 1 .. 20 : OrderlyStep(b, i, F, W, 0)
    BY <2>13, <2>14, <2>15, <2>16, <2>17, <2>18, <2>19
  <2>21. DOMAIN b = 1 .. 20 BY <2>5
  <2>22. Orderly(b, 20, F, W, 0) BY <2>4, <2>20, <2>21 DEF Orderly
  <2> QED BY <1>6, <2>1, <2>2, <2>3, <2>22
<1> QED BY <1>1, <1>2, <1>3, <1>4, <1>5, <1>6 DEF Reaping, Pipelines, Counting

-----------------------------------------------------------------------------
(* What the calls of the pipelines do. *)

\* Process p goes on at step x with the descriptors `table`; the channels become c.
Did(p, x, table, c) ==
    /\ Recs' /\ Only(p) /\ Kept(p) /\ proc'[p].pc = x
    /\ DOMAIN fds' = Procs /\ fds'[p] = table
    /\ \A q \in Procs : q # p => fds'[q] = fds[q]
    /\ chan' = c
    /\ UNCHANGED << prog, forks, count, timer, aio, failed >>

\* A step that sets the counter and the descriptor table.
LEMMA TableStep ==
    ASSUME Recs, DOMAIN fds = Procs, NEW p \in Procs, NEW x, NEW t, NEW c,
           proc' = [proc EXCEPT ![p].pc = x],
           Tables([fds EXCEPT ![p] = t]) \/ (UnchangedTables /\ t = fds[p]),
           chan' = c, UNCHANGED << prog, forks, count, timer, aio, failed >>
    PROVE  Did(p, x, t, c)
<1>1. Recs' /\ Only(p) /\ Kept(p) /\ proc'[p].pc = x BY SetPc
<1>2. fds' = [fds EXCEPT ![p] = t] \/ (fds' = fds /\ t = fds[p])
  BY DEF Tables, UnchangedTables
<1>3. DOMAIN fds' = Procs /\ fds'[p] = t /\ \A q \in Procs : q # p => fds'[q] = fds[q]
  BY <1>2
<1> QED BY <1>1, <1>3 DEF Did

\* close(): the descriptor is gone.
LEMMA CloseDoes ==
    ASSUME Recs, DOMAIN fds = Procs, NEW p \in Procs, NEW s, DoClose(p, s)
    PROVE  Did(p, Pc(p) + 1, Without(fds[p], s.f), chan)
<1>1. PICK x, t : x = Pc(p) + 1 /\ t = Without(fds[p], s.f) OBVIOUS
<1>2. proc' = [proc EXCEPT ![p].pc = x] BY <1>1 DEF DoClose, Advance, GoTo
<1>3. Tables([fds EXCEPT ![p] = t]) BY <1>1 DEF DoClose
<1>4. UNCHANGED << prog, chan, forks, count, timer, aio, failed >>
  BY DEF DoClose, UnchangedOther
<1>5. Did(p, x, t, chan) BY <1>2, <1>3, <1>4, TableStep
<1> QED BY <1>1, <1>5

\* dup2(): the descriptor g becomes a copy of f, when f is open.
LEMMA Dup2Does ==
    ASSUME Recs, DOMAIN fds = Procs, NEW p \in Procs, NEW s, DoDup2(p, s)
    PROVE  Did(p, Pc(p) + 1, IF s.f \in DOMAIN fds[p] THEN With(fds[p], s.g, fds[p][s.f])
                             ELSE fds[p], chan)
<1>1. PICK x, t : /\ x = Pc(p) + 1
                  /\ t = IF s.f \in DOMAIN fds[p] THEN With(fds[p], s.g, fds[p][s.f])
                         ELSE fds[p]
  OBVIOUS
<1>2. proc' = [proc EXCEPT ![p].pc = x] BY <1>1 DEF DoDup2, Advance, GoTo
<1>3. Tables([fds EXCEPT ![p] = t]) \/ (UnchangedTables /\ t = fds[p]) BY <1>1 DEF DoDup2
<1>4. UNCHANGED << prog, chan, forks, count, timer, aio, failed >>
  BY DEF DoDup2, UnchangedOther
<1>5. Did(p, x, t, chan) BY <1>2, <1>3, <1>4, TableStep
<1> QED BY <1>1, <1>5

\* pipe(): two new descriptors, or the process exits.
LEMMA PipeDoes ==
    ASSUME Recs, DOMAIN fds = Procs, NEW p \in Procs, NEW s, DoPipe(p, s), ~failed'
    PROVE  Did(p, Pc(p) + 1,
               With(With(fds[p], s.r, End(<< s.w, 0 >>, NoChannel)),
                    s.w, End(NoChannel, << s.w, 0 >>)), chan)
<1>1. PICK x, t : /\ x = Pc(p) + 1
                  /\ t = With(With(fds[p], s.r, End(<< s.w, 0 >>, NoChannel)),
                              s.w, End(NoChannel, << s.w, 0 >>))
  OBVIOUS
<1>2. ~FailAndExit(p) BY DEF FailAndExit
<1>3. proc' = [proc EXCEPT ![p].pc = x] BY <1>1, <1>2 DEF DoPipe, Advance, GoTo
<1>4. Tables([fds EXCEPT ![p] = t]) BY <1>1, <1>2 DEF DoPipe
<1>5. UNCHANGED << prog, chan, forks, count, timer, aio, failed >>
  BY <1>2 DEF DoPipe, UnchangedOther
<1>6. Did(p, x, t, chan) BY <1>3, <1>4, <1>5, TableStep
<1> QED BY <1>1, <1>6

\* open(): a new descriptor, or the call failed.
LEMMA OpenDoes ==
    ASSUME Recs, DOMAIN fds = Procs, NEW p \in Procs, NEW s, DoOpen(p, s), ~failed'
    PROVE  Did(p, Pc(p) + 1, With(fds[p], s.f, End(<< s.f, 0 >>, NoChannel)), chan)
<1>1. PICK x, t : x = Pc(p) + 1 /\ t = With(fds[p], s.f, End(<< s.f, 0 >>, NoChannel))
  OBVIOUS
<1>2. proc' = [proc EXCEPT ![p].pc = x] BY <1>1 DEF DoOpen, Advance, GoTo
<1>3. Tables([fds EXCEPT ![p] = t]) /\ failed' = failed BY <1>1 DEF DoOpen
<1>4. UNCHANGED << prog, chan, forks, count, timer, aio >> BY DEF DoOpen
<1>5. Did(p, x, t, chan) BY <1>2, <1>3, <1>4, TableStep
<1> QED BY <1>1, <1>5

\* The end of a busy loop.
LEMMA UntilDoes ==
    ASSUME Recs, DOMAIN fds = Procs, NEW p \in Procs, NEW s, DoUntil(p, s)
    PROVE  Did(p, Pc(p) + 1, fds[p], chan) /\ count >= s.n
<1>1. PICK x, t : x = Pc(p) + 1 /\ t = fds[p] OBVIOUS
<1>2. proc' = [proc EXCEPT ![p].pc = x] BY <1>1 DEF DoUntil, Advance, GoTo
<1>3. UnchangedTables /\ t = fds[p] BY <1>1 DEF DoUntil
<1>4. UNCHANGED << prog, chan, forks, count, timer, aio, failed >>
  BY DEF DoUntil, UnchangedOther
<1>5. Did(p, x, t, chan) BY <1>2, <1>3, <1>4, TableStep
<1> QED BY <1>1, <1>5 DEF DoUntil

\* read() from channel k: bytes, or the end of the file once nobody can write.
LEMMA ReadDoes ==
    ASSUME Recs, DOMAIN fds = Procs, ~Datagrams, NEW p \in Procs, NEW s, DoRead(p, s)
    PROVE  /\ \E c : \E x \in {Pc(p) + 1, s.end, s.err} : Did(p, x, fds[p], c)
           /\ s.f \in DOMAIN fds[p]
           /\ fds[p][s.f].r \in Pipes /\ chan[fds[p][s.f].r] = << >> =>
                Writers(fds[p][s.f].r) = {}
<1>1. PICK k : k = IF s.f \in DOMAIN fds[p] THEN fds[p][s.f].r ELSE NoChannel OBVIOUS
<1>2. /\ \/ /\ k \in Channels
            /\ \E n \in 1 .. Len(chan[k]) :
                 proc' = [proc EXCEPT ![p].pc = Pc(p) + 1, ![p].buf = SubSeq(chan[k], 1, n)]
         \/ k \in Sockets /\ GoTo(p, s.err)
         \/ /\ k \in Channels /\ GoTo(p, s.end)
            /\ k \in Sockets \/ Writers(k) = {}
      /\ UNCHANGED << fds, backlog >> /\ UnchangedOther
  BY <1>1 DEF DoRead
<1>3. UNCHANGED << prog, fds, forks, count, timer, aio, failed >>
  BY <1>2 DEF UnchangedOther
<1>4. k \in Channels BY <1>2 DEF Channels
<1>5. s.f \in DOMAIN fds[p] /\ k = fds[p][s.f].r
  <2>1. NoChannel \notin Channels
    BY DEF NoChannel, Channels, Pipes, Files, Sockets
  <2> QED BY <1>1, <1>4, <2>1
<1>6. \E x \in {Pc(p) + 1, s.end, s.err} : Recs' /\ Only(p) /\ Kept(p) /\ proc'[p].pc = x
  <2>1. CASE GoTo(p, s.err) \/ GoTo(p, s.end)
    <3>1. PICK x \in {s.end, s.err} : proc' = [proc EXCEPT ![p].pc = x] BY <2>1 DEF GoTo
    <3>2. Recs' /\ Only(p) /\ Kept(p) /\ proc'[p].pc = x BY <3>1, SetPc
    <3> QED BY <3>2
  <2>2. CASE \E n \in 1 .. Len(chan[k]) :
               proc' = [proc EXCEPT ![p].pc = Pc(p) + 1, ![p].buf = SubSeq(chan[k], 1, n)]
    <3>1. PICK x, b : x = Pc(p) + 1 /\ proc' = [proc EXCEPT ![p].pc = x, ![p].buf = b]
      BY <2>2
    <3>2. Recs' /\ Only(p) /\ Kept(p) /\ proc'[p].pc = x BY <3>1, SetBuf
    <3> QED BY <3>1, <3>2
  <2> QED BY <1>2, <2>1, <2>2
<1>7. PICK c : c = chan' OBVIOUS
<1>8. \E x \in {Pc(p) + 1, s.end, s.err} : Did(p, x, fds[p], c)
  BY <1>3, <1>6, <1>7 DEF Did
<1>9. k \in Pipes /\ chan[k] = << >> => Writers(k) = {}
  <2>1. k \in Pipes => k \notin Sockets BY DEF Pipes, Sockets
  <2>2. chan[k] = << >> => 1 .. Len(chan[k]) = {} OBVIOUS
  <2> QED BY <1>2, <2>1, <2>2
<1> QED BY <1>5, <1>8, <1>9

\* write(): it goes on, or the process gets SIGPIPE, which needs a pipe without a reader
\* or a connection.
LEMMA WriteDoes ==
    ASSUME Recs, DOMAIN fds = Procs, ~Datagrams, ~Threaded, NEW p \in Procs, NEW s,
           DoWrite(p, s)
    PROVE  \/ \E c : Did(p, Pc(p) + 1, fds[p], c)
           \/ /\ Ends(p) /\ failed' = failed
              /\ \/ fds[p][s.f].w \in Pipes /\ Readers(fds[p][s.f].w) = {}
                 \/ fds[p][s.f].w \in Sockets
<1>1. PICK k, d, x, t : k = fds[p][s.f].w /\ d = Bytes(p, s.m) /\ x = Pc(p) + 1 /\ t = fds[p]
  OBVIOUS
<1>2. PICK c : c = chan' OBVIOUS
<1>3. \/ WriteTerminal(p, d) \/ (k \in Pipes /\ WritePipe(p, k, d))
      \/ (k \in Sockets /\ WriteSocket(p, k, d))
  BY <1>1 DEF DoWrite
<1>4. ASSUME Recs', Only(p), Kept(p), proc'[p].pc = x,
             UNCHANGED << prog, fds, forks, count, timer, aio, failed >>
      PROVE  Did(p, x, t, c)
  BY <1>1, <1>2, <1>4 DEF Did
<1>5. ASSUME Sigpipe(p) PROVE Ends(p) /\ failed' = failed
  BY <1>5, Ending DEF Sigpipe
<1>6. CASE WriteTerminal(p, d)
  <2>1. proc' = [proc EXCEPT ![p].pc = x, ![p].shown = @ \o d] BY <1>1, <1>6 DEF WriteTerminal
  <2>2. Recs' /\ Only(p) /\ Kept(p) /\ proc'[p].pc = x BY <2>1, SetShown
  <2>3. UNCHANGED << prog, fds, forks, count, timer, aio, failed >>
    BY <1>6 DEF WriteTerminal, UnchangedTables, UnchangedOther
  <2> QED BY <1>1, <1>4, <2>2, <2>3
<1>7. CASE k \in Pipes /\ WritePipe(p, k, d)
  <2>1. CASE Readers(k) = {} /\ Sigpipe(p) BY <1>1, <1>5, <1>7, <2>1
  <2>2. CASE Advance(p) /\ UnchangedTables /\ UnchangedOther
    <3>1. proc' = [proc EXCEPT ![p].pc = x] BY <1>1, <2>2 DEF Advance, GoTo
    <3>2. Recs' /\ Only(p) /\ Kept(p) /\ proc'[p].pc = x BY <3>1, SetPc
    <3>3. UNCHANGED << prog, fds, forks, count, timer, aio, failed >>
      BY <2>2 DEF UnchangedTables, UnchangedOther
    <3> QED BY <1>1, <1>4, <3>2, <3>3
  <2> QED BY <1>7, <2>1, <2>2 DEF WritePipe
<1>8. CASE k \in Sockets /\ WriteSocket(p, k, d)
  <2>1. CASE Sigpipe(p) BY <1>1, <1>5, <1>8, <2>1
  <2>2. CASE proc' = Written(p, d) /\ fds' = fds /\ UnchangedOther
    <3>1. Recs' /\ Only(p) /\ Kept(p) /\ proc'[p].pc = x BY <1>1, <2>2, SetSent
    <3>2. UNCHANGED << prog, fds, forks, count, timer, aio, failed >>
      BY <2>2 DEF UnchangedOther
    <3> QED BY <1>1, <1>4, <3>1, <3>2
  <2>3. CASE Advance(p) /\ fds' = fds /\ UnchangedOther
    <3>1. proc' = [proc EXCEPT ![p].pc = x] BY <1>1, <2>3 DEF Advance, GoTo
    <3>2. Recs' /\ Only(p) /\ Kept(p) /\ proc'[p].pc = x BY <3>1, SetPc
    <3>3. UNCHANGED << prog, fds, forks, count, timer, aio, failed >>
      BY <2>3 DEF UnchangedOther
    <3> QED BY <1>1, <1>4, <3>2, <3>3
  <2> QED BY <1>8, <2>1, <2>2, <2>3 DEF WriteSocket, UnchangedTables
<1> QED BY <1>3, <1>6, <1>7, <1>8

-----------------------------------------------------------------------------
(* The inductive invariant of the programs that reap their children. *)

\* The main process and its children; only five_children.c handles SIGCHLD.
ReapProcesses ==
    /\ Recs /\ DOMAIN fds = Procs
    /\ timer = "off" /\ aio = "idle"
    /\ forks \in Nat /\ 1 .. forks \subseteq Procs
    /\ proc[0].life \in {"run", "gone"} /\ proc[0].body = prog
    /\ DOMAIN proc[0].action = Signals
    /\ \A p \in Procs :
         /\ proc[p].masked = {}
         /\ p # 0 => proc[p].pending = {} /\ proc[p].handling = FALSE
         /\ p \in 1 .. forks => proc[p].life \in {"run", "zombie", "gone"}
                                  /\ proc[p].body \in ChildBodies
         /\ p \notin 0 .. forks => proc[p].life = "none"
    /\ prog # "five_children" =>
         /\ proc[0].pending = {} /\ proc[0].handling = FALSE
         /\ proc[0].action["CHLD"] = "default"

\* A main process that ended has reaped its children.
ReapAll == Gone(0) => \A c \in 1 .. forks : Gone(c)

\* The main process prints at the terminal.
ReapTerminal ==
    proc[0].life = "run" =>
      \A f \in {"out", "err"} : f \in DOMAIN fds[0] /\ fds[0][f].w = Tty

\* At step pc of a body of n steps that forks at forkAt, k children were created.
Reached(n, forkAt, pc, k) ==
    /\ pc \in 1 .. n + 1 /\ k \in Nat /\ 1 .. k \subseteq DOMAIN forkAt
    /\ \A j \in DOMAIN forkAt : j <= k <=> forkAt[j] < pc

\* The children whose wait was passed are gone.
Waited(waitAt, pc) == \A j \in DOMAIN waitAt : waitAt[j] < pc => Gone(j)

\* The main process of a pipeline is where its children say it is.
ReapProgress ==
    \E n \in Nat :
      /\ Orderly(Bodies[prog], n, ForkAt[prog], WaitAt[prog], WritesAt)
      /\ Reached(n, ForkAt[prog], proc[0].pc, forks)
      /\ Waited(WaitAt[prog], proc[0].pc)

\* The step at which a counting program starts to fork.
First == IF prog = "five_children" THEN 2 ELSE 1

\* How many children were created before step pc.
Created(pc, first) ==
    IF pc < first THEN 0 ELSE IF pc - first > Children THEN Children ELSE pc - first

\* The children that were reaped.
Reaped == {c \in 1 .. forks : Gone(c)}

\* SIGCHLD is pending, or being handled, only when there is a zombie for it.
Notified(pending, handling) ==
    /\ pending \subseteq {"CHLD"} /\ handling \in BOOLEAN
    /\ pending # {} \/ handling => Zombies # {}
    /\ pending # {} /\ handling => \E c, d \in Zombies : c # d

\* numDone and reclaim_num count the children that were reaped.
ReapCounting ==
    /\ proc[0].pc \in 1 .. Children + 3
    /\ forks = Created(proc[0].pc, First)
    /\ prog = "five_children" /\ proc[0].pc >= 2 => proc[0].action["CHLD"] = "reap"
    /\ prog = "five_children" /\ proc[0].pc < 2 => proc[0].action["CHLD"] = "default"
    /\ count = Cardinality(Reaped)
    /\ Notified(proc[0].pending, proc[0].handling)
    /\ proc[0].pc > First + Children => count = Children

\* The inductive invariant, but for the pipes.
ReapBase ==
    /\ ReapProcesses /\ ReapTerminal /\ ReapAll
    /\ prog \notin Counting => ReapProgress
    /\ prog \in Counting => ReapCounting

\* Child p makes a call of its own.
ChildGoes(p) ==
    /\ Recs' /\ Only(p)
    /\ proc'[p].body \in ChildBodies /\ proc'[p].life = proc[p].life
    /\ proc'[p].handling = proc[p].handling /\ proc'[p].pending = proc[p].pending
    /\ proc'[p].masked = proc[p].masked
    /\ DOMAIN fds' = Procs /\ \A q \in Procs : q # p => fds'[q] = fds[q]
    /\ UNCHANGED << prog, forks, count, timer, aio, failed >>

\* What a child does: a call that concerns nobody else, or it ends.
LEMMA ChildStep ==
    ASSUME prog \in Reaping, ReapProcesses, NEW p \in 1 .. forks, Step(p)
    PROVE  (ChildGoes(p) \/ Ends(p)) /\ failed' = failed
<1>1. ~Threaded /\ ~Datagrams BY DEF Threaded, Datagrams, Reaping, Pipelines
<1>2. p \in Procs /\ Recs /\ DOMAIN fds = Procs /\ proc[p].body \in ChildBodies
  BY DEF ReapProcesses
<1>3. PICK b : b = Bodies[proc[p].body] OBVIOUS
<1>4. Harmless(b) BY <1>2, <1>3, ChildrenHarmless
<1>5. Body(p) = b BY <1>3 DEF Body
<1>6. PICK s : s = Now(p) OBVIOUS
<1>7. \/ s.op = "end"
      \/ /\ s.op \in {"close", "read", "write", "dup2", "exec"}
         /\ s.op = "exec" => s.images \subseteq ChildBodies
  <2>1. CASE Pc(p) \notin DOMAIN b BY <1>5, <1>6, <2>1 DEF Now
  <2>2. CASE Pc(p) \in DOMAIN b
    <3>1. s = b[Pc(p)] BY <1>5, <1>6, <2>2 DEF Now
    <3>2. b[Pc(p)].op # "goto" BY <1>4, <1>5, <2>2 DEF Pc, Harmless
    <3> QED BY <1>4, <2>2, <3>1, <3>2 DEF Harmless
  <2> QED BY <2>1, <2>2
<1>8. ASSUME NEW x, NEW t, NEW c, Did(p, x, t, c) PROVE ChildGoes(p) /\ failed' = failed
  BY <1>2, <1>8 DEF Did, ChildGoes, Kept
<1>9. CASE s.op = "end"
  <2>1. Finish(p) BY <1>2, <1>6, <1>9, StepIs
  <2>2. Ends(p) BY <1>1, <1>2, <2>1, Ending
  <2> QED BY <2>1, <2>2 DEF Finish
<1>10. CASE s.op = "close"
  <2>1. DoClose(p, s) BY <1>2, <1>6, <1>10, StepIs
  <2>2. PICK x, t, c : x = Pc(p) + 1 /\ t = Without(fds[p], s.f) /\ c = chan OBVIOUS
  <2>3. Did(p, x, t, c) BY <1>2, <2>1, <2>2, CloseDoes
  <2> QED BY <1>8, <2>3
<1>11. CASE s.op = "dup2"
  <2>1. DoDup2(p, s) BY <1>2, <1>6, <1>11, StepIs
  <2>2. PICK x, t, c : /\ x = Pc(p) + 1 /\ c = chan
                       /\ t = IF s.f \in DOMAIN fds[p] THEN With(fds[p], s.g, fds[p][s.f])
                              ELSE fds[p]
    OBVIOUS
  <2>3. Did(p, x, t, c) BY <1>2, <2>1, <2>2, Dup2Does
  <2> QED BY <1>8, <2>3
<1>12. CASE s.op = "read"
  <2>1. DoRead(p, s) BY <1>2, <1>6, <1>12, StepIs
  <2>2. PICK x, t, c : Did(p, x, t, c) BY <1>1, <1>2, <2>1, ReadDoes
  <2> QED BY <1>8, <2>2
<1>13. CASE s.op = "write"
  <2>1. DoWrite(p, s) BY <1>2, <1>6, <1>13, StepIs
  <2>2. CASE Ends(p) /\ failed' = failed BY <2>2
  <2>3. CASE \E x, t, c : Did(p, x, t, c) BY <1>8, <2>3
  <2>4. \/ \E c : Did(p, Pc(p) + 1, fds[p], c)
        \/ Ends(p) /\ failed' = failed
    BY <1>1, <1>2, <2>1, WriteDoes
  <2> QED BY <2>2, <2>3, <2>4
<1>14. CASE s.op = "exec"
  <2>1. DoExec(p, s) BY <1>2, <1>6, <1>14, StepIs
  <2>2. PICK image \in ChildBodies : proc' = [proc EXCEPT ![p].body = image, ![p].pc = 1]
    BY <1>7, <1>14, <2>1 DEF DoExec
  <2>3. UNCHANGED << prog, fds, forks, count, timer, aio, failed >>
    BY <2>1 DEF DoExec, UnchangedTables, UnchangedOther
  <2>4. PICK r : r = [proc[p] EXCEPT !.body = image, !.pc = 1] OBVIOUS
  <2>5. proc' = [proc EXCEPT ![p] = r] BY <1>2, <2>2, <2>4 DEF Recs
  <2>6. Rec(proc[p]) BY <1>2 DEF Recs
  <2>7. /\ Rec(r) /\ r.body = image /\ r.life = proc[p].life
        /\ r.handling = proc[p].handling /\ r.pending = proc[p].pending
        /\ r.masked = proc[p].masked
    BY <2>4, <2>6 DEF Rec
  <2>8. Recs' /\ Only(p) /\ proc'[p] = r BY <1>2, <2>5, <2>7, UpdateOne
  <2> QED BY <1>2, <2>2, <2>3, <2>7, <2>8 DEF ChildGoes
<1> QED BY <1>7, <1>9, <1>10, <1>11, <1>12, <1>13, <1>14

\* The waits that were passed stay passed as long as who is gone stays gone.
LEMMA WaitedMore ==
    ASSUME NEW W, NEW pc, NEW pc2, Waited(W, pc), DOMAIN W \subseteq Procs,
           \A j \in DOMAIN W : W[j] < pc2 => W[j] < pc,
           \A q \in Procs : proc[q].life = "gone" => proc'[q].life = "gone"
    PROVE  Waited(W, pc2)'
BY DEF Waited, Gone

\* There are at most four waits.
LEMMA WaitsAreProcs ==
    ASSUME NEW b, NEW n, NEW F, NEW W, NEW w, Orderly(b, n, F, W, w)
    PROVE  DOMAIN W \subseteq Procs /\ DOMAIN F = DOMAIN W
<1>1. PICK m \in 1 .. 4 : DOMAIN F = 1 .. m BY DEF Orderly
<1>2. DOMAIN W = 1 .. m BY <1>1 DEF Orderly
<1>3. 1 .. m \subseteq {1, 2, 3, 4} BY <1>1
<1> QED BY <1>1, <1>2, <1>3, ProcsHas

\* The progress of the main process does not depend on what its children do.
LEMMA ProgressStays ==
    ASSUME ReapProgress, UNCHANGED << prog, forks >>, proc'[0].pc = proc[0].pc,
           \A q \in Procs : proc[q].life = "gone" => proc'[q].life = "gone"
    PROVE  ReapProgress'
<1>1. PICK b, F, W, w, pc, k :
        /\ b = Bodies[prog] /\ F = ForkAt[prog] /\ W = WaitAt[prog] /\ w = WritesAt
        /\ pc = proc[0].pc /\ k = forks
  OBVIOUS
<1>2. PICK n \in Nat : Orderly(b, n, F, W, w) /\ Reached(n, F, pc, k) /\ Waited(W, pc)
  BY <1>1 DEF ReapProgress
<1>3. Waited(W, pc)' BY <1>2, WaitedMore, WaitsAreProcs
<1>4. /\ b = Bodies[prog'] /\ F = ForkAt[prog'] /\ W = WaitAt[prog'] /\ w = WritesAt'
      /\ pc = proc'[0].pc /\ k = forks'
  BY <1>1 DEF WritesAt
<1>5. \E m \in Nat : Orderly(b, m, F, W, w) /\ Reached(m, F, pc, k) /\ Waited(W, pc)'
  BY <1>2, <1>3
<1> QED BY <1>4, <1>5 DEF ReapProgress

\* The count does not depend on what the children do.
LEMMA CountingStays ==
    ASSUME ReapCounting, UNCHANGED << prog, forks, count >>, proc'[0].pc = proc[0].pc,
           proc'[0].action = proc[0].action,
           \A q \in 1 .. forks : proc[q].life = "gone" <=> proc'[q].life = "gone",
           Notified(proc[0].pending, proc[0].handling)'
    PROVE  ReapCounting'
<1>1. Reaped' = Reaped BY DEF Reaped, Gone
<1>2. First' = First BY DEF First
<1>3. PICK pc, n, f, r : pc = proc[0].pc /\ n = forks /\ f = First /\ r = Cardinality(Reaped)
  OBVIOUS
<1>4. pc = proc'[0].pc /\ n = forks' /\ f = First' /\ r = Cardinality(Reaped')
  BY <1>1, <1>2, <1>3
<1>5. /\ pc \in 1 .. Children + 3 /\ n = Created(pc, f) /\ count = r
      /\ pc > f + Children => count = Children
      /\ prog = "five_children" /\ pc >= 2 => proc[0].action["CHLD"] = "reap"
      /\ prog = "five_children" /\ pc < 2 => proc[0].action["CHLD"] = "default"
  BY <1>3 DEF ReapCounting
<1> QED BY <1>4, <1>5 DEF ReapCounting

\* A child that makes a call leaves the others as they are.
LEMMA BaseChildGoes ==
    ASSUME prog \in Reaping, ReapBase, NEW p \in 1 .. forks, ChildGoes(p)
    PROVE  ReapBase'
<1>1. p \in Procs /\ 0 \in Procs /\ p # 0 BY ProcsHas DEF ReapBase, ReapProcesses
<1>2. proc'[0] = proc[0] /\ fds'[0] = fds[0] BY <1>1 DEF ChildGoes, Only
<1>3. /\ \A q \in Procs : proc'[q].life = proc[q].life
      /\ UNCHANGED << prog, forks, count, timer, aio >>
  BY DEF ChildGoes, Only
<1>4. \A q \in 1 .. forks : q \in Procs BY DEF ReapBase, ReapProcesses
<1>5. ReapProcesses'
  <2>1. /\ Recs' /\ DOMAIN fds' = Procs /\ timer' = "off" /\ aio' = "idle"
        /\ forks' \in Nat /\ 1 .. forks' \subseteq Procs
        /\ proc'[0].life \in {"run", "gone"} /\ proc'[0].body = prog'
        /\ DOMAIN proc'[0].action = Signals
    BY <1>2, <1>3 DEF ReapBase, ReapProcesses, ChildGoes
  <2>2. ASSUME NEW q \in Procs
        PROVE  /\ proc'[q].masked = {}
               /\ q # 0 => proc'[q].pending = {} /\ proc'[q].handling = FALSE
               /\ q \in 1 .. forks' => proc'[q].life \in {"run", "zombie", "gone"}
                                        /\ proc'[q].body \in ChildBodies
               /\ q \notin 0 .. forks' => proc'[q].life = "none"
    <3>1. CASE q = p
      <4>1. /\ proc'[p].masked = proc[p].masked /\ proc'[p].pending = proc[p].pending
            /\ proc'[p].handling = proc[p].handling /\ proc'[p].body \in ChildBodies
            /\ proc'[p].life = proc[p].life /\ forks' = forks
        BY DEF ChildGoes
      <4> QED BY <1>1, <3>1, <4>1 DEF ReapBase, ReapProcesses
    <3>2. CASE q # p
      <4>1. proc'[q] = proc[q] /\ forks' = forks BY <3>2 DEF ChildGoes, Only
      <4> QED BY <4>1 DEF ReapBase, ReapProcesses
    <3> QED BY <3>1, <3>2
  <2>3. prog' # "five_children" =>
          /\ proc'[0].pending = {} /\ proc'[0].handling = FALSE
          /\ proc'[0].action["CHLD"] = "default"
    BY <1>2, <1>3 DEF ReapBase, ReapProcesses
  <2> QED BY <2>1, <2>2, <2>3 DEF ReapProcesses
<1>6. ReapTerminal' BY <1>2 DEF ReapBase, ReapTerminal
<1>7. ReapAll' BY <1>1, <1>3, <1>4 DEF ReapBase, ReapAll, Gone
<1>8. prog' \notin Counting => ReapProgress'
  BY <1>2, <1>3, ProgressStays DEF ReapBase
<1>9. prog' \in Counting => ReapCounting'
  <2>1. Zombies' = Zombies BY <1>3, <1>4 DEF Zombies
  <2>2. PICK pe, ha : pe = proc[0].pending /\ ha = proc[0].handling OBVIOUS
  <2>3. Notified(pe, ha) => Notified(pe, ha)' BY <2>1 DEF Notified
  <2>4. pe = proc'[0].pending /\ ha = proc'[0].handling BY <1>2, <2>2
  <2>5. ReapCounting => Notified(proc[0].pending, proc[0].handling)'
    BY <2>2, <2>3, <2>4 DEF ReapCounting, Notified
  <2> QED BY <1>2, <1>3, <1>4, <2>5, CountingStays DEF ReapBase
<1> QED BY <1>5, <1>6, <1>7, <1>8, <1>9 DEF ReapBase

\* A child that ends becomes a zombie; only a handler gets to know of it.
LEMMA BaseChildEnds ==
    ASSUME prog \in Reaping, ReapBase, NEW p \in 1 .. forks, proc[p].life = "run", Ends(p)
    PROVE  ReapBase'
<1>1. p \in Procs /\ 0 \in Procs /\ p # 0 BY ProcsHas DEF ReapBase, ReapProcesses
<1>2. /\ proc'[0].body = proc[0].body /\ proc'[0].pc = proc[0].pc
      /\ proc'[0].handling = proc[0].handling /\ proc'[0].masked = proc[0].masked
      /\ proc'[0].action = proc[0].action /\ proc'[0].life = proc[0].life
      /\ UNCHANGED << prog, forks, count, timer, aio >>
      /\ fds'[0] = fds[0]
  BY <1>1 DEF Ends
<1>3. proc'[p].life = "zombie" /\ \A q \in Procs : q # p => proc'[q].life = proc[q].life
  BY DEF Ends
<1>4. \A q \in 1 .. forks : q \in Procs BY DEF ReapBase, ReapProcesses
<1>5. \/ proc'[0].pending = proc[0].pending
      \/ /\ proc'[0].pending = proc[0].pending \cup {"CHLD"}
         /\ proc[0].action["CHLD"] # "default"
  BY DEF Ends
<1>6. ReapProcesses'
  <2>1. /\ Recs' /\ DOMAIN fds' = Procs /\ timer' = "off" /\ aio' = "idle"
        /\ forks' \in Nat /\ 1 .. forks' \subseteq Procs
        /\ proc'[0].life \in {"run", "gone"} /\ proc'[0].body = prog'
        /\ DOMAIN proc'[0].action = Signals
    <3>1. Recs' /\ DOMAIN fds' = Procs BY DEF Ends
    <3> QED BY <1>2, <3>1 DEF ReapBase, ReapProcesses
  <2>2. ASSUME NEW q \in Procs
        PROVE  /\ proc'[q].masked = {}
               /\ q # 0 => proc'[q].pending = {} /\ proc'[q].handling = FALSE
               /\ q \in 1 .. forks' => proc'[q].life \in {"run", "zombie", "gone"}
                                        /\ proc'[q].body \in ChildBodies
               /\ q \notin 0 .. forks' => proc'[q].life = "none"
    <3>1. /\ proc'[q].masked = proc[q].masked /\ proc'[q].handling = proc[q].handling
          /\ proc'[q].body = proc[q].body
          /\ q # 0 => proc'[q].pending = proc[q].pending
      BY DEF Ends
    <3>2. /\ proc[q].masked = {}
          /\ q # 0 => proc[q].pending = {} /\ proc[q].handling = FALSE
          /\ q \in 1 .. forks => proc[q].life \in {"run", "zombie", "gone"}
                                  /\ proc[q].body \in ChildBodies
          /\ q \notin 0 .. forks => proc[q].life = "none"
      BY DEF ReapBase, ReapProcesses
    <3>3. p \in 0 .. forks BY <1>1 DEF ReapBase, ReapProcesses
    <3> QED BY <1>2, <1>3, <3>1, <3>2, <3>3
  <2>3. prog' # "five_children" =>
          /\ proc'[0].pending = {} /\ proc'[0].handling = FALSE
          /\ proc'[0].action["CHLD"] = "default"
    BY <1>2, <1>5 DEF ReapBase, ReapProcesses
  <2> QED BY <2>1, <2>2, <2>3 DEF ReapProcesses
<1>7. ReapTerminal' BY <1>2 DEF ReapBase, ReapTerminal
<1>8. ReapAll' BY <1>1, <1>2 DEF ReapBase, ReapAll, Gone
<1>9. prog' \notin Counting => ReapProgress'
  <2>1. \A q \in Procs : proc[q].life = "gone" => proc'[q].life = "gone" BY <1>3
  <2> QED BY <1>2, <2>1, ProgressStays DEF ReapBase
<1>10. prog' \in Counting => ReapCounting'
  <2>1. Zombies' = Zombies \cup {p} /\ p \notin Zombies BY <1>2, <1>3, <1>4 DEF Zombies
  <2>2. PICK pe, ha, pe2 : /\ pe = proc[0].pending /\ ha = proc[0].handling
                           /\ pe2 = proc'[0].pending
    OBVIOUS
  <2>3. pe2 = pe \/ pe2 = pe \cup {"CHLD"} BY <1>5, <2>2
  <2>4. Notified(pe, ha) => Notified(pe2, ha)'
    <3> SUFFICES ASSUME Notified(pe, ha) PROVE Notified(pe2, ha)'
      OBVIOUS
    <3>1. pe2 \subseteq {"CHLD"} /\ ha \in BOOLEAN BY <2>3 DEF Notified
    <3>2. Zombies' # {} BY <2>1
    <3>3. ASSUME ha PROVE \E c, d \in Zombies' : c # d
      <4>1. PICK c \in Zombies : TRUE BY <3>3 DEF Notified
      <4> QED BY <2>1, <4>1
    <3> QED BY <3>1, <3>2, <3>3 DEF Notified
  <2>5. Notified(pe2, ha)' => Notified(proc[0].pending, proc[0].handling)'
    BY <1>2, <2>2 DEF Notified
  <2>6. ReapCounting => Notified(proc[0].pending, proc[0].handling)'
    BY <2>2, <2>4, <2>5 DEF ReapCounting
  <2>7. \A q \in 1 .. forks : proc[q].life = "gone" <=> proc'[q].life = "gone"
    BY <1>3, <1>4
  <2> QED BY <1>2, <2>6, <2>7, CountingStays DEF ReapBase
<1> QED BY <1>6, <1>7, <1>8, <1>9, <1>10 DEF ReapBase

-----------------------------------------------------------------------------
(* The main process. *)

\* The main process goes on at step x, and its output still goes to the terminal.
MainGoes(x) ==
    /\ Recs' /\ Only(0)
    /\ proc'[0].pc = x
    /\ proc'[0].body = proc[0].body /\ proc'[0].life = proc[0].life
    /\ proc'[0].handling = proc[0].handling /\ proc'[0].pending = proc[0].pending
    /\ proc'[0].masked = proc[0].masked
    /\ DOMAIN proc'[0].action = DOMAIN proc[0].action
    /\ prog # "five_children" => proc'[0].action["CHLD"] = proc[0].action["CHLD"]
    /\ DOMAIN fds' = Procs /\ \A q \in Procs : q # 0 => fds'[q] = fds[q]
    /\ \A f \in {"out", "err"} :
         f \in DOMAIN fds[0] => f \in DOMAIN fds'[0] /\ fds'[0][f] = fds[0][f]
    /\ UNCHANGED << prog, forks, count, timer, aio >>

\* A call that does not touch the standard output.
LEMMA DidMain ==
    ASSUME NEW x, NEW t, NEW c, Did(0, x, t, c),
           \A f \in {"out", "err"} : f \in DOMAIN fds[0] => f \in DOMAIN t /\ t[f] = fds[0][f]
    PROVE  MainGoes(x) /\ failed' = failed
BY DEF Did, MainGoes, Kept

\* Other descriptors come and go.
LEMMA OtherDescriptors ==
    ASSUME NEW t, NEW f, NEW g, NEW e, f # g, f \in DOMAIN t
    PROVE  /\ f \in DOMAIN With(t, g, e) /\ With(t, g, e)[f] = t[f]
           /\ f \in DOMAIN Without(t, g) /\ Without(t, g)[f] = t[f]
BY DEF With, Without

\* Calls that concern neither children, nor SIGCHLD, nor the standard output.
LEMMA QuietStep ==
    ASSUME prog \in Reaping, ReapProcesses, ReapTerminal, Step(0), NEW s, s = Now(0), Quiet(s),
           ~failed'
    PROVE  MainGoes(Pc(0) + 1) /\ failed' = failed
<1>1. ~Threaded /\ ~Datagrams BY DEF Threaded, Datagrams, Reaping, Pipelines
<1>2. 0 \in Procs /\ Recs /\ DOMAIN fds = Procs BY ProcsHas DEF ReapProcesses
<1>3. PICK x, c, u : x = Pc(0) + 1 /\ c = chan /\ u = fds[0] OBVIOUS
<1>4. CASE s.op = "pipe" /\ s.r \notin {"out", "err"} /\ s.w \notin {"out", "err"}
  <2>1. DoPipe(0, s) BY <1>2, <1>4, StepIs
  <2>2. PICK e1, e2 : e1 = End(<< s.w, 0 >>, NoChannel) /\ e2 = End(NoChannel, << s.w, 0 >>)
    OBVIOUS
  <2>3. PICK t1 : t1 = With(u, s.r, e1) OBVIOUS
  <2>4. PICK t : t = With(t1, s.w, e2) OBVIOUS
  <2>5. Did(0, x, t, c) BY <1>2, <1>3, <2>1, <2>2, <2>3, <2>4, PipeDoes
  <2>6. \A f \in {"out", "err"} : f \in DOMAIN u => f \in DOMAIN t1 /\ t1[f] = u[f]
    BY <1>4, <2>3, OtherDescriptors
  <2>7. \A f \in {"out", "err"} : f \in DOMAIN t1 => f \in DOMAIN t /\ t[f] = t1[f]
    BY <1>4, <2>4, OtherDescriptors
  <2>8. \A f \in {"out", "err"} : f \in DOMAIN u => f \in DOMAIN t /\ t[f] = u[f]
    BY <2>6, <2>7
  <2> QED BY <1>3, <2>5, <2>8, DidMain
<1>5. CASE s.op = "open" /\ s.f \notin {"out", "err"}
  <2>1. DoOpen(0, s) BY <1>2, <1>5, StepIs
  <2>2. PICK e : e = End(<< s.f, 0 >>, NoChannel) OBVIOUS
  <2>3. PICK t : t = With(u, s.f, e) OBVIOUS
  <2>4. Did(0, x, t, c) BY <1>2, <1>3, <2>1, <2>2, <2>3, OpenDoes
  <2>5. \A f \in {"out", "err"} : f \in DOMAIN u => f \in DOMAIN t /\ t[f] = u[f]
    BY <1>5, <2>3, OtherDescriptors
  <2> QED BY <1>3, <2>4, <2>5, DidMain
<1>6. CASE s.op = "close" /\ s.f \notin {"out", "err"}
  <2>1. DoClose(0, s) BY <1>2, <1>6, StepIs
  <2>2. PICK t : t = Without(u, s.f) OBVIOUS
  <2>3. Did(0, x, t, c) BY <1>2, <1>3, <2>1, <2>2, CloseDoes
  <2>4. \A f \in {"out", "err"} : f \in DOMAIN u => f \in DOMAIN t /\ t[f] = u[f]
    BY <1>6, <2>2, OtherDescriptors
  <2> QED BY <1>3, <2>3, <2>4, DidMain
<1>7. CASE s.op = "write" /\ s.f \in {"out", "err"}
  <2>1. DoWrite(0, s) BY <1>2, <1>7, StepIs
  <2>2. proc[0].life = "run" BY <1>2, StepIs DEF Running
  <2>3. fds[0][s.f].w = Tty BY <1>7, <2>2 DEF ReapTerminal
  <2>4. Tty \notin Pipes /\ Tty \notin Sockets BY Directions
  <2>5. \E d : Did(0, x, u, d) BY <1>1, <1>2, <1>3, <2>1, <2>3, <2>4, WriteDoes
  <2> QED BY <1>3, <2>5, DidMain
<1>8. CASE s.op = "signal" /\ s.s # "CHLD"
  <2>1. DoSignal(0, s) BY <1>2, <1>8, StepIs
  <2>2. /\ proc' = [proc EXCEPT ![0].pc = x, ![0].action[s.s] = s.h]
        /\ UNCHANGED << prog, fds, forks, count, timer, aio, failed >>
    BY <1>3, <1>8, <2>1 DEF DoSignal, UnchangedTables, UnchangedOther
  <2>3. PICK a : a = [proc[0].action EXCEPT ![s.s] = s.h] OBVIOUS
  <2>4. DOMAIN a = DOMAIN proc[0].action /\ a["CHLD"] = proc[0].action["CHLD"]
    <3>1. DOMAIN proc[0].action = Signals /\ "CHLD" \in Signals BY DEF ReapProcesses, Signals
    <3> QED BY <1>8, <2>3, <3>1
  <2>5. PICK r : r = [proc[0] EXCEPT !.pc = x, !.action = a] OBVIOUS
  <2>6. Rec(proc[0]) BY <1>2 DEF Recs
  <2>7. proc' = [proc EXCEPT ![0] = r] BY <1>2, <2>2, <2>3, <2>5, <2>6 DEF Recs, Rec
  <2>8. /\ Rec(r) /\ r.pc = x /\ r.body = proc[0].body /\ r.life = proc[0].life
        /\ r.handling = proc[0].handling /\ r.pending = proc[0].pending
        /\ r.masked = proc[0].masked /\ r.action = a
    BY <2>5, <2>6 DEF Rec
  <2>9. Recs' /\ Only(0) /\ proc'[0] = r BY <1>2, <2>7, <2>8, UpdateOne
  <2> QED BY <1>2, <1>3, <2>2, <2>4, <2>8, <2>9 DEF MainGoes
<1> QED BY <1>4, <1>5, <1>6, <1>7, <1>8 DEF Quiet

\* What a step of the main process leaves true whatever the program is.
LEMMA MainGoesOn ==
    ASSUME prog \in Reaping, ReapBase, proc[0].life = "run", NEW x, MainGoes(x)
    PROVE  ReapProcesses' /\ ReapTerminal' /\ ReapAll' /\ UNCHANGED << prog, forks, count >>
<1>1. 0 \in Procs BY ProcsHas
<1>2. /\ proc'[0].body = proc[0].body /\ proc'[0].life = proc[0].life
      /\ proc'[0].handling = proc[0].handling /\ proc'[0].pending = proc[0].pending
      /\ proc'[0].masked = proc[0].masked
      /\ DOMAIN proc'[0].action = DOMAIN proc[0].action
      /\ prog # "five_children" => proc'[0].action["CHLD"] = proc[0].action["CHLD"]
      /\ UNCHANGED << prog, forks, count, timer, aio >>
      /\ Recs' /\ DOMAIN fds' = Procs
  BY DEF MainGoes
<1>3. \A q \in Procs : q # 0 => proc'[q] = proc[q] BY DEF MainGoes, Only
<1>4. ReapProcesses'
  <2>1. /\ timer' = "off" /\ aio' = "idle"
        /\ forks' \in Nat /\ 1 .. forks' \subseteq Procs
        /\ proc'[0].life \in {"run", "gone"} /\ proc'[0].body = prog'
        /\ DOMAIN proc'[0].action = Signals
    BY <1>2 DEF ReapBase, ReapProcesses
  <2>2. ASSUME NEW q \in Procs
        PROVE  /\ proc'[q].masked = {}
               /\ q # 0 => proc'[q].pending = {} /\ proc'[q].handling = FALSE
               /\ q \in 1 .. forks' => proc'[q].life \in {"run", "zombie", "gone"}
                                        /\ proc'[q].body \in ChildBodies
               /\ q \notin 0 .. forks' => proc'[q].life = "none"
    <3>1. CASE q = 0
      <4>1. 0 \notin 1 .. forks' /\ 0 \in 0 .. forks' /\ proc[0].masked = {}
        BY <1>1, <2>1 DEF ReapBase, ReapProcesses
      <4> QED BY <1>2, <3>1, <4>1
    <3>2. CASE q # 0
      <4>1. proc'[q] = proc[q] /\ forks' = forks BY <1>2, <1>3, <3>2
      <4> QED BY <4>1 DEF ReapBase, ReapProcesses
    <3> QED BY <3>1, <3>2
  <2>3. prog' # "five_children" =>
          /\ proc'[0].pending = {} /\ proc'[0].handling = FALSE
          /\ proc'[0].action["CHLD"] = "default"
    BY <1>2 DEF ReapBase, ReapProcesses
  <2> QED BY <1>2, <2>1, <2>2, <2>3 DEF ReapProcesses
<1>5. ReapTerminal'
  <2>1. \A f \in {"out", "err"} :
          f \in DOMAIN fds[0] => f \in DOMAIN fds'[0] /\ fds'[0][f] = fds[0][f]
    BY DEF MainGoes
  <2> QED BY <2>1 DEF ReapBase, ReapTerminal
<1>6. ReapAll' BY <1>2 DEF ReapAll, Gone
<1> QED BY <1>2, <1>4, <1>5, <1>6

\* The main process ends after all its children are gone.
LEMMA BaseMainEnds ==
    ASSUME prog \in Reaping, ReapBase, Ends(0), \A c \in 1 .. forks : Gone(c)
    PROVE  ReapBase'
<1>1. 0 \in Procs /\ 0 \notin 1 .. forks BY ProcsHas
<1>2. /\ proc'[0].body = proc[0].body /\ proc'[0].pc = proc[0].pc
      /\ proc'[0].handling = proc[0].handling /\ proc'[0].masked = proc[0].masked
      /\ proc'[0].action = proc[0].action /\ proc'[0].life = "gone"
      /\ proc'[0].pending = proc[0].pending
      /\ UNCHANGED << prog, forks, count, timer, aio >>
      /\ Recs' /\ DOMAIN fds' = Procs
  BY <1>1 DEF Ends
<1>3. \A q \in Procs : q # 0 => /\ proc'[q].life = proc[q].life /\ proc'[q].body = proc[q].body
                                /\ proc'[q].pending = proc[q].pending
                                /\ proc'[q].handling = proc[q].handling
                                /\ proc'[q].masked = proc[q].masked
  BY DEF Ends
<1>4. \A q \in 1 .. forks : q \in Procs /\ q # 0 BY <1>1 DEF ReapBase, ReapProcesses
<1>5. ReapProcesses'
  <2>1. /\ timer' = "off" /\ aio' = "idle"
        /\ forks' \in Nat /\ 1 .. forks' \subseteq Procs
        /\ proc'[0].life \in {"run", "gone"} /\ proc'[0].body = prog'
        /\ DOMAIN proc'[0].action = Signals
    BY <1>2 DEF ReapBase, ReapProcesses
  <2>2. ASSUME NEW q \in Procs
        PROVE  /\ proc'[q].masked = {}
               /\ q # 0 => proc'[q].pending = {} /\ proc'[q].handling = FALSE
               /\ q \in 1 .. forks' => proc'[q].life \in {"run", "zombie", "gone"}
                                        /\ proc'[q].body \in ChildBodies
               /\ q \notin 0 .. forks' => proc'[q].life = "none"
    <3>1. CASE q = 0
      <4>1. 0 \notin 1 .. forks' /\ 0 \in 0 .. forks' /\ proc[0].masked = {}
        BY <1>1, <2>1 DEF ReapBase, ReapProcesses
      <4> QED BY <1>2, <3>1, <4>1
    <3>2. CASE q # 0
      <4>1. /\ proc[q].masked = {} /\ proc[q].pending = {} /\ proc[q].handling = FALSE
            /\ q \in 1 .. forks => proc[q].life \in {"run", "zombie", "gone"}
                                     /\ proc[q].body \in ChildBodies
            /\ q \notin 0 .. forks => proc[q].life = "none"
        BY <3>2 DEF ReapBase, ReapProcesses
      <4> QED BY <1>2, <1>3, <3>2, <4>1
    <3> QED BY <3>1, <3>2
  <2>3. prog' # "five_children" =>
          /\ proc'[0].pending = {} /\ proc'[0].handling = FALSE
          /\ proc'[0].action["CHLD"] = "default"
    BY <1>2 DEF ReapBase, ReapProcesses
  <2> QED BY <1>2, <2>1, <2>2, <2>3 DEF ReapProcesses
<1>6. ReapTerminal' BY <1>2 DEF ReapTerminal
<1>7. ReapAll' BY <1>2, <1>3, <1>4 DEF ReapAll, Gone
<1>8. prog' \notin Counting => ReapProgress'
  <2>1. \A q \in Procs : proc[q].life = "gone" => proc'[q].life = "gone" BY <1>2, <1>3
  <2> QED BY <1>2, <2>1, ProgressStays DEF ReapBase
<1>9. prog' \in Counting => ReapCounting'
  <2>1. Zombies' = Zombies BY <1>2, <1>3, <1>4 DEF Zombies
  <2>2. PICK pe, ha : pe = proc[0].pending /\ ha = proc[0].handling OBVIOUS
  <2>3. Notified(pe, ha) => Notified(pe, ha)' BY <2>1 DEF Notified
  <2>4. pe = proc'[0].pending /\ ha = proc'[0].handling BY <1>2, <2>2
  <2>5. ReapCounting => Notified(proc[0].pending, proc[0].handling)'
    BY <2>2, <2>3, <2>4 DEF ReapCounting, Notified
  <2>6. \A q \in 1 .. forks : proc[q].life = "gone" <=> proc'[q].life = "gone"
    BY <1>3, <1>4
  <2> QED BY <1>2, <2>5, <2>6, CountingStays DEF ReapBase
<1> QED BY <1>5, <1>6, <1>7, <1>8, <1>9 DEF ReapBase

\* The main process creates child c, which starts with a copy of its descriptors, and goes
\* on at step x.
Forks(c, body, x) ==
    /\ Recs' /\ proc'[0].pc = x
    /\ proc'[0].body = proc[0].body /\ proc'[0].life = proc[0].life
    /\ proc'[0].handling = proc[0].handling /\ proc'[0].pending = proc[0].pending
    /\ proc'[0].masked = proc[0].masked /\ proc'[0].action = proc[0].action
    /\ proc'[c].life = "run" /\ proc'[c].body = body /\ proc'[c].pc = 1
    /\ proc'[c].pending = {} /\ proc'[c].handling = FALSE
    /\ proc'[c].masked = proc[0].masked
    /\ \A q \in Procs : q # 0 /\ q # c => proc'[q] = proc[q]
    /\ DOMAIN fds' = Procs /\ fds'[c] = fds[0] /\ \A q \in Procs : q # c => fds'[q] = fds[q]
    /\ forks' = c /\ UNCHANGED << prog, chan, count, timer, aio, failed >>

\* fork() that succeeds.
LEMMA ForkDoes ==
    ASSUME Recs, DOMAIN fds = Procs, NEW s, DoFork(0, s), ~failed', forks \in Nat,
           forks + 1 \in Procs
    PROVE  Forks(forks + 1, s.child, Pc(0) + 1)
<1>1. 0 \in Procs /\ ~FailAndExit(0) BY ProcsHas DEF FailAndExit
<1>2. PICK c, x, N : c = forks + 1 /\ x = Pc(0) + 1 /\ N = NewProcess(0, s.child) OBVIOUS
<1>3. /\ forks' = c
      /\ proc' = [proc EXCEPT ![0].pc = x, ![c] = N]
      /\ Tables([fds EXCEPT ![c] = fds[0]])
      /\ UNCHANGED << prog, chan, count, timer, aio, failed >>
  BY <1>1, <1>2 DEF DoFork
<1>4. c # 0 /\ c \in Procs BY <1>2
<1>5. fds' = [fds EXCEPT ![c] = fds[0]] BY <1>3 DEF Tables
<1>6. PICK r : r = [proc[0] EXCEPT !.pc = x] OBVIOUS
<1>7. Rec(proc[0]) BY <1>1 DEF Recs
<1>8. /\ Rec(r) /\ r.pc = x /\ r.body = proc[0].body /\ r.life = proc[0].life
      /\ r.handling = proc[0].handling /\ r.pending = proc[0].pending
      /\ r.masked = proc[0].masked /\ r.action = proc[0].action
  BY <1>6, <1>7 DEF Rec
<1>9. PICK u : u = Start(s.child) OBVIOUS
<1>10. /\ Rec(u) /\ u.life = "run" /\ u.body = s.child /\ u.pc = 1 /\ u.pending = {}
       /\ u.handling = FALSE
  BY <1>9, StartIs DEF Start
<1>11. /\ Rec(N) /\ N.life = "run" /\ N.body = s.child /\ N.pc = 1 /\ N.pending = {}
       /\ N.handling = FALSE /\ N.masked = proc[0].masked
  BY <1>2, <1>9, <1>10 DEF NewProcess, Rec
<1>12. /\ DOMAIN proc' = Procs /\ proc'[0] = r /\ proc'[c] = N
       /\ \A q \in Procs : q # 0 /\ q # c => proc'[q] = proc[q]
  BY <1>1, <1>3, <1>4, <1>6 DEF Recs
<1>13. Recs' BY <1>8, <1>11, <1>12 DEF Recs
<1>14. DOMAIN fds' = Procs /\ fds'[c] = fds[0] /\ \A q \in Procs : q # c => fds'[q] = fds[q]
  BY <1>4, <1>5
<1> QED BY <1>2, <1>3, <1>8, <1>11, <1>12, <1>13, <1>14 DEF Forks

\* A new child is one more process.
LEMMA MainForks ==
    ASSUME prog \in Reaping, ReapBase, proc[0].life = "run", forks + 1 \in Procs,
           NEW body \in ChildBodies, NEW x, Forks(forks + 1, body, x)
    PROVE  ReapProcesses' /\ ReapTerminal' /\ ReapAll'
<1>1. 0 \in Procs /\ forks \in Nat BY ProcsHas DEF ReapBase, ReapProcesses
<1>2. PICK c : c = forks + 1 OBVIOUS
<1>3. Forks(c, body, x) /\ c \in Procs /\ c # 0 BY <1>1, <1>2
<1>4. /\ proc'[0].body = proc[0].body /\ proc'[0].life = proc[0].life
      /\ proc'[0].handling = proc[0].handling /\ proc'[0].pending = proc[0].pending
      /\ proc'[0].masked = proc[0].masked /\ proc'[0].action = proc[0].action
      /\ proc'[c].life = "run" /\ proc'[c].body = body
      /\ proc'[c].pending = {} /\ proc'[c].handling = FALSE
      /\ proc'[c].masked = proc[0].masked
      /\ Recs' /\ DOMAIN fds' = Procs /\ fds'[0] = fds[0]
      /\ forks' = c /\ UNCHANGED << prog, count, timer, aio >>
  BY <1>1, <1>3 DEF Forks
<1>5. \A q \in Procs : q # 0 /\ q # c => proc'[q] = proc[q] BY <1>3 DEF Forks
<1>6. ReapProcesses'
  <2>1. /\ timer' = "off" /\ aio' = "idle"
        /\ proc'[0].life \in {"run", "gone"} /\ proc'[0].body = prog'
        /\ DOMAIN proc'[0].action = Signals /\ proc[0].masked = {}
    BY <1>1, <1>4 DEF ReapBase, ReapProcesses
  <2>2. forks' \in Nat /\ 1 .. forks' \subseteq Procs
    <3>1. 1 .. forks' = (1 .. forks) \cup {forks + 1} BY <1>1, <1>2, <1>4
    <3> QED BY <1>1, <1>2, <1>3, <1>4, <3>1 DEF ReapBase, ReapProcesses
  <2>3. ASSUME NEW q \in Procs
        PROVE  /\ proc'[q].masked = {}
               /\ q # 0 => proc'[q].pending = {} /\ proc'[q].handling = FALSE
               /\ q \in 1 .. forks' => proc'[q].life \in {"run", "zombie", "gone"}
                                        /\ proc'[q].body \in ChildBodies
               /\ q \notin 0 .. forks' => proc'[q].life = "none"
    <3>1. CASE q = 0
      <4>1. 0 \notin 1 .. forks' /\ 0 \in 0 .. forks' BY <2>2
      <4> QED BY <1>4, <2>1, <3>1, <4>1
    <3>2. CASE q = c
      <4>1. c \in 0 .. forks' BY <1>1, <1>2, <1>4
      <4> QED BY <1>4, <2>1, <3>2, <4>1
    <3>3. CASE q # 0 /\ q # c
      <4>1. proc'[q] = proc[q] BY <1>5, <3>3
      <4>2. /\ q \in 1 .. forks' <=> q \in 1 .. forks
            /\ q \in 0 .. forks' <=> q \in 0 .. forks
        BY <1>1, <1>2, <1>4, <3>3
      <4>3. /\ proc[q].masked = {} /\ proc[q].pending = {} /\ proc[q].handling = FALSE
            /\ q \in 1 .. forks => proc[q].life \in {"run", "zombie", "gone"}
                                     /\ proc[q].body \in ChildBodies
            /\ q \notin 0 .. forks => proc[q].life = "none"
        BY <3>3 DEF ReapBase, ReapProcesses
      <4> QED BY <3>3, <4>1, <4>2, <4>3
    <3> QED BY <3>1, <3>2, <3>3
  <2>4. prog' # "five_children" =>
          /\ proc'[0].pending = {} /\ proc'[0].handling = FALSE
          /\ proc'[0].action["CHLD"] = "default"
    BY <1>4 DEF ReapBase, ReapProcesses
  <2> QED BY <1>4, <2>1, <2>2, <2>3, <2>4 DEF ReapProcesses
<1>7. ReapTerminal' BY <1>4 DEF ReapBase, ReapTerminal
<1>8. ReapAll' BY <1>4 DEF ReapAll, Gone
<1> QED BY <1>6, <1>7, <1>8

\* The main process goes on at step x after it has reaped child c; h is whether its handler
\* runs then.
Reaps(c, x, h) ==
    /\ Recs' /\ proc'[0].pc = x
    /\ proc'[0].body = proc[0].body /\ proc'[0].life = proc[0].life
    /\ proc'[0].handling = h /\ proc'[0].pending = proc[0].pending
    /\ proc'[0].masked = proc[0].masked /\ proc'[0].action = proc[0].action
    /\ proc'[c].life = "gone" /\ proc'[c].body = proc[c].body
    /\ proc'[c].pending = proc[c].pending /\ proc'[c].handling = proc[c].handling
    /\ proc'[c].masked = proc[c].masked
    /\ \A q \in Procs : q # 0 /\ q # c => proc'[q] = proc[q]
    /\ fds' = fds
    /\ UNCHANGED << prog, chan, forks, timer, aio, failed >>

\* The record of the main process and of a child change together.
LEMMA ReapEffect ==
    ASSUME Recs, NEW c \in Procs, c # 0, NEW r, NEW x, NEW h,
           proc' = [proc EXCEPT ![0] = r, ![c].life = "gone"],
           Rec(r), r.pc = x, r.body = proc[0].body, r.life = proc[0].life, r.handling = h,
           r.pending = proc[0].pending, r.masked = proc[0].masked, r.action = proc[0].action,
           UNCHANGED << prog, fds, chan, forks, timer, aio, failed >>
    PROVE  Reaps(c, x, h)
<1>1. 0 \in Procs BY ProcsHas
<1>2. PICK u : u = [proc[c] EXCEPT !.life = "gone"] OBVIOUS
<1>3. Rec(proc[c]) BY DEF Recs
<1>4. /\ Rec(u) /\ u.life = "gone" /\ u.body = proc[c].body /\ u.pending = proc[c].pending
      /\ u.handling = proc[c].handling /\ u.masked = proc[c].masked
  BY <1>2, <1>3 DEF Rec
<1>5. /\ DOMAIN proc' = Procs /\ proc'[0] = r /\ proc'[c] = u
      /\ \A q \in Procs : q # 0 /\ q # c => proc'[q] = proc[q]
  BY <1>1, <1>2 DEF Recs
<1>6. Recs' BY <1>4, <1>5 DEF Recs
<1> QED BY <1>4, <1>5, <1>6 DEF Reaps

\* waitpid(): a child is reaped, or there is nothing to wait for.
LEMMA WaitDoes ==
    ASSUME Recs, DOMAIN fds = Procs, 1 .. forks \subseteq Procs, NEW s, DoWait(0, s)
    PROVE  \/ \E c \in Reapable(0, s) : Reaps(c, Pc(0) + 1, proc[0].handling) /\ count' = count
           \/ NothingToReap(0, s) /\ Did(0, Pc(0) + 1, fds[0], chan)
<1>1. 0 \in Procs BY ProcsHas
<1>2. PICK x, h, t, d : x = Pc(0) + 1 /\ h = proc[0].handling /\ t = fds[0] /\ d = chan OBVIOUS
<1>3. UNCHANGED << prog, fds, chan, forks, count, timer, aio, failed >>
  BY DEF DoWait, UnchangedTables, UnchangedOther
<1>4. CASE \E c \in Reapable(0, s) :
             proc' = [proc EXCEPT ![0].pc = x, ![c].life = "gone"]
  <2>1. PICK c \in Reapable(0, s) : proc' = [proc EXCEPT ![0].pc = x, ![c].life = "gone"]
    BY <1>4
  <2>2. c \in Procs /\ c # 0
    <3>1. c \in Zombies BY DEF Reapable
    <3> QED BY <3>1 DEF Zombies
  <2>3. PICK r : r = [proc[0] EXCEPT !.pc = x] OBVIOUS
  <2>4. Rec(proc[0]) BY <1>1 DEF Recs
  <2>5. /\ Rec(r) /\ r.pc = x /\ r.body = proc[0].body /\ r.life = proc[0].life
        /\ r.handling = proc[0].handling /\ r.pending = proc[0].pending
        /\ r.masked = proc[0].masked /\ r.action = proc[0].action
    BY <2>3, <2>4 DEF Rec
  <2>6. proc' = [proc EXCEPT ![0] = r, ![c].life = "gone"]
    BY <1>1, <2>1, <2>2, <2>3 DEF Recs
  <2>7. Reaps(c, x, h) BY <1>2, <1>3, <2>2, <2>5, <2>6, ReapEffect
  <2> QED BY <1>2, <1>3, <2>7
<1>5. CASE NothingToReap(0, s) /\ Advance(0)
  <2>1. proc' = [proc EXCEPT ![0].pc = x] BY <1>2, <1>5 DEF Advance, GoTo
  <2>2. UnchangedTables BY DEF DoWait
  <2>3. Did(0, x, t, d) BY <1>1, <1>2, <1>3, <2>1, <2>2, TableStep
  <2> QED BY <1>2, <1>5, <2>3
<1> QED BY <1>2, <1>4, <1>5 DEF DoWait

\* A child is reaped: nothing else changes.
LEMMA MainReaps ==
    ASSUME prog \in Reaping, ReapBase, proc[0].life = "run", NEW c \in 1 .. forks, NEW x, NEW h,
           prog # "five_children" => h = FALSE, Reaps(c, x, h)
    PROVE  ReapProcesses' /\ ReapTerminal' /\ ReapAll'
<1>1. 0 \in Procs /\ forks \in Nat /\ c \in Procs /\ c # 0
  BY ProcsHas DEF ReapBase, ReapProcesses
<1>2. /\ proc'[0].body = proc[0].body /\ proc'[0].life = proc[0].life
      /\ proc'[0].handling = h /\ proc'[0].pending = proc[0].pending
      /\ proc'[0].masked = proc[0].masked /\ proc'[0].action = proc[0].action
      /\ proc'[c].life = "gone" /\ proc'[c].body = proc[c].body
      /\ proc'[c].pending = proc[c].pending /\ proc'[c].handling = proc[c].handling
      /\ proc'[c].masked = proc[c].masked
      /\ Recs' /\ fds' = fds /\ UNCHANGED << prog, forks, timer, aio >>
  BY DEF Reaps
<1>3. \A q \in Procs : q # 0 /\ q # c => proc'[q] = proc[q] BY DEF Reaps
<1>4. ReapProcesses'
  <2>1. /\ timer' = "off" /\ aio' = "idle" /\ DOMAIN fds' = Procs
        /\ forks' \in Nat /\ 1 .. forks' \subseteq Procs
        /\ proc'[0].life \in {"run", "gone"} /\ proc'[0].body = prog'
        /\ DOMAIN proc'[0].action = Signals /\ proc[0].masked = {}
    BY <1>1, <1>2 DEF ReapBase, ReapProcesses
  <2>2. ASSUME NEW q \in Procs
        PROVE  /\ proc'[q].masked = {}
               /\ q # 0 => proc'[q].pending = {} /\ proc'[q].handling = FALSE
               /\ q \in 1 .. forks' => proc'[q].life \in {"run", "zombie", "gone"}
                                        /\ proc'[q].body \in ChildBodies
               /\ q \notin 0 .. forks' => proc'[q].life = "none"
    <3>1. CASE q = 0
      <4>1. 0 \notin 1 .. forks' /\ 0 \in 0 .. forks' BY <2>1
      <4> QED BY <1>2, <2>1, <3>1, <4>1
    <3>2. CASE q = c
      <4>1. c \in 0 .. forks' BY <1>1, <1>2
      <4>2. /\ proc[c].masked = {} /\ proc[c].pending = {} /\ proc[c].handling = FALSE
            /\ proc[c].body \in ChildBodies
        BY <1>1 DEF ReapBase, ReapProcesses
      <4> QED BY <1>2, <3>2, <4>1, <4>2
    <3>3. CASE q # 0 /\ q # c
      <4>1. proc'[q] = proc[q] /\ forks' = forks BY <1>2, <1>3, <3>3
      <4> QED BY <3>3, <4>1 DEF ReapBase, ReapProcesses
    <3> QED BY <3>1, <3>2, <3>3
  <2>3. prog' # "five_children" =>
          /\ proc'[0].pending = {} /\ proc'[0].handling = FALSE
          /\ proc'[0].action["CHLD"] = "default"
    BY <1>2 DEF ReapBase, ReapProcesses
  <2> QED BY <1>2, <2>1, <2>2, <2>3 DEF ReapProcesses
<1>5. ReapTerminal' BY <1>2 DEF ReapBase, ReapTerminal
<1>6. ReapAll' BY <1>2 DEF ReapAll, Gone
<1> QED BY <1>4, <1>5, <1>6

-----------------------------------------------------------------------------
(* The main process of a pipeline. *)

\* A jump passes no fork and no wait.
LEMMA AtJump ==
    ASSUME NEW b, NEW n, NEW F, NEW W, NEW w, NEW pc, NEW k, Orderly(b, n, F, W, w),
           b = Bodies[proc[0].body], pc = proc[0].pc, pc \in 1 .. n, Reached(n, F, pc, k),
           Waited(W, pc)
    PROVE  \E i \in 1 .. n :
             /\ i = Pc(0) /\ Now(0) = b[i] /\ b[i].op # "goto"
             /\ Reached(n, F, i, k) /\ Waited(W, i)
<1>1. DOMAIN b = 1 .. n /\ n \in Nat /\ OrderlyStep(b, pc, F, W, w) BY DEF Orderly
<1>2. CASE b[pc].op # "goto" BY <1>1, <1>2, AtStep
<1>3. CASE b[pc].op = "goto"
  <2>1. PICK i : i = b[pc].to OBVIOUS
  <2>2. i \in DOMAIN b /\ Near(pc, i, F, W) /\ b[i].op = "read"
    BY <1>1, <1>3, <2>1 DEF OrderlyStep, Quiet
  <2>3. Body(0) = b BY DEF Body
  <2>4. Pc(0) = i BY <1>1, <1>3, <2>1, <2>3 DEF Pc
  <2>5. Now(0) = b[i] BY <2>2, <2>3, <2>4 DEF Now
  <2>6. Reached(n, F, i, k) BY <1>1, <2>2 DEF Reached, Near
  <2>7. Waited(W, i) BY <2>2 DEF Waited, Near, Orderly
  <2> QED BY <1>1, <2>2, <2>4, <2>5, <2>6, <2>7
<1> QED BY <1>2, <1>3

\* A step that is no fork is not counted.
LEMMA ReachedNext ==
    ASSUME NEW b, NEW n, NEW F, NEW W, NEW w, NEW i \in 1 .. n, NEW t, NEW k,
           Orderly(b, n, F, W, w), Reached(n, F, i, k),
           \/ t = i + 1 /\ \A j \in DOMAIN F : F[j] # i
           \/ t \in 1 .. n /\ Near(i, t, F, W)
    PROVE  Reached(n, F, t, k)
<1>1. n \in Nat /\ \A j \in DOMAIN F : F[j] \in 1 .. n BY DEF Orderly
<1>2. CASE t = i + 1 /\ \A j \in DOMAIN F : F[j] # i BY <1>1, <1>2 DEF Reached
<1>3. CASE t \in 1 .. n /\ Near(i, t, F, W) BY <1>1, <1>3 DEF Reached, Near
<1> QED BY <1>2, <1>3

\* The children are created in the order of the forks.
LEMMA ReachedFork ==
    ASSUME NEW b, NEW n, NEW F, NEW W, NEW w, NEW i \in 1 .. n, NEW k,
           Orderly(b, n, F, W, w), Reached(n, F, i, k), \E j \in DOMAIN F : F[j] = i
    PROVE  Reached(n, F, i + 1, k + 1) /\ k + 1 \in Procs
<1>1. n \in Nat /\ \A j \in DOMAIN F : F[j] \in 1 .. n BY DEF Orderly
<1>2. PICK m \in 1 .. 4 : DOMAIN F = 1 .. m BY DEF Orderly
<1>3. PICK j \in 1 .. m : F[j] = i BY <1>2
<1>4. k \in Nat /\ \A l \in 1 .. m : l <= k <=> F[l] < i BY <1>2 DEF Reached
<1>5. \A l1, l2 \in 1 .. m : l1 < l2 => F[l1] < F[l2] BY <1>2 DEF Orderly
<1>6. j = k + 1
  <2>1. j > k BY <1>1, <1>3, <1>4
  <2>2. CASE j > k + 1
    <3>1. k + 1 \in 1 .. m /\ k + 1 < j BY <1>2, <1>4, <2>2
    <3>2. F[k + 1] < i BY <1>3, <1>5, <3>1
    <3> QED BY <1>4, <3>1, <3>2
  <2> QED BY <1>4, <2>1, <2>2
<1>7. ASSUME NEW l \in 1 .. m PROVE l <= k + 1 <=> F[l] < i + 1
  <2>1. F[l] \in 1 .. n BY <1>1, <1>2
  <2>2. CASE l <= k BY <1>4, <2>1, <2>2
  <2>3. CASE l = k + 1 BY <1>3, <1>6, <2>3
  <2>4. CASE l > k + 1
    <3>1. F[k + 1] = i BY <1>3, <1>6
    <3>2. F[l] > i BY <1>5, <1>6, <2>4, <3>1
    <3> QED BY <1>4, <2>1, <2>4, <3>2
  <2> QED BY <1>4, <2>2, <2>3, <2>4
<1>8. 1 .. k + 1 \subseteq 1 .. m BY <1>3, <1>4, <1>6
<1>9. k + 1 \in {1, 2, 3, 4} BY <1>2, <1>3, <1>6
<1> QED BY <1>1, <1>2, <1>4, <1>7, <1>8, <1>9, ProcsHas DEF Reached

\* The progress after a step of the main process.
LEMMA ProgressAfter ==
    ASSUME NEW b, NEW n \in Nat, NEW F, NEW W, NEW w, NEW pc, NEW k, Orderly(b, n, F, W, w),
           b = Bodies[prog], F = ForkAt[prog], W = WaitAt[prog], w = WritesAt, prog' = prog,
           Reached(n, F, pc, k), Waited(W, pc)', pc = proc'[0].pc, k = forks'
    PROVE  ReapProgress'
<1>1. /\ b = Bodies[prog'] /\ F = ForkAt[prog'] /\ W = WaitAt[prog'] /\ w = WritesAt'
  BY DEF WritesAt
<1>2. \E m \in Nat : Orderly(b, m, F, W, w) /\ Reached(m, F, pc, k) /\ Waited(W, pc)'
  OBVIOUS
<1> QED BY <1>1, <1>2 DEF ReapProgress

\* The pipe that the main process writes into has a reader.
Fed ==
    Pc(0) = WritesAt =>
      /\ fds[0][Now(0).f].w \in Pipes
      /\ Readers(fds[0][Now(0).f].w) # {}

\* A step of the main process of a pipeline.
LEMMA PipelineStep ==
    ASSUME prog \in Reaping \ Counting, ReapBase, Fed, Step(0), ~failed'
    PROVE  ReapBase' /\ failed' = failed
<1>1. ~Threaded /\ ~Datagrams BY DEF Threaded, Datagrams, Reaping, Pipelines
<1>2. /\ 0 \in Procs /\ Recs /\ DOMAIN fds = Procs /\ proc[0].body = prog /\ forks \in Nat
      /\ 1 .. forks \subseteq Procs
  BY ProcsHas DEF ReapBase, ReapProcesses
<1>3. proc[0].life = "run" BY <1>2, StepIs DEF Running
<1>4. PICK b, F, W, w, pc, k :
        /\ b = Bodies[prog] /\ F = ForkAt[prog] /\ W = WaitAt[prog] /\ w = WritesAt
        /\ pc = proc[0].pc /\ k = forks
  OBVIOUS
<1>5. PICK n \in Nat : Orderly(b, n, F, W, w) /\ Reached(n, F, pc, k) /\ Waited(W, pc)
  BY <1>4 DEF ReapBase, ReapProgress
<1>6. prog \in Reaping /\ prog \notin Counting /\ prog # "five_children" BY DEF Counting
<1>7. /\ DOMAIN b = 1 .. n /\ DOMAIN W = DOMAIN F
      /\ \A j \in DOMAIN F : F[j] \in 1 .. n /\ W[j] \in 1 .. n /\ F[j] < W[j]
      /\ \A i \in 1 .. n : OrderlyStep(b, i, F, W, w)
  BY <1>5 DEF Orderly
<1>8. DOMAIN W \subseteq Procs BY <1>5, WaitsAreProcs
<1>9. 1 .. k \subseteq DOMAIN F BY <1>5 DEF Reached
<1>10. CASE pc \notin 1 .. n
  <2>1. pc = n + 1 BY <1>5, <1>10 DEF Reached
  <2>2. \A c \in 1 .. forks : Gone(c) BY <1>4, <1>5, <1>7, <1>9, <2>1 DEF Waited
  <2>3. Now(0).op = "end" BY <1>2, <1>4, <1>7, <1>10, AtEnd
  <2>4. Finish(0) BY <1>2, <2>3, StepIs
  <2>5. Ends(0) BY <1>1, <1>2, <2>4, Ending
  <2>6. ReapBase' BY <1>6, <2>2, <2>5, BaseMainEnds
  <2> QED BY <2>4, <2>6 DEF Finish
<1>11. CASE pc \in 1 .. n
  <2>1. PICK i \in 1 .. n : /\ i = Pc(0) /\ Now(0) = b[i] /\ b[i].op # "goto"
                            /\ Reached(n, F, i, k) /\ Waited(W, i)
    BY <1>2, <1>4, <1>5, <1>11, AtJump
  <2>2. PICK s : s = Now(0) OBVIOUS
  <2>3. s = b[i] /\ OrderlyStep(b, i, F, W, w) BY <1>7, <2>1, <2>2
  <2>4. ASSUME NEW t, MainGoes(t), Reached(n, F, t, k),
               \A j \in DOMAIN W : W[j] < t => (W[j] < i \/ Gone(j))
        PROVE  ReapBase'
    <3>1. ReapProcesses' /\ ReapTerminal' /\ ReapAll' /\ UNCHANGED << prog, forks >>
      BY <1>3, <1>6, <2>4, MainGoesOn
    <3>2. proc'[0].pc = t /\ \A q \in Procs : q # 0 => proc'[q] = proc[q]
      BY <2>4 DEF MainGoes, Only
    <3>3. \A j \in DOMAIN W : W[j] < t => Gone(j) BY <2>1, <2>4 DEF Waited
    <3>4. \A j \in DOMAIN W : j \in Procs /\ j # 0
      BY <1>5, <1>8 DEF Orderly
    <3>5. Waited(W, t)' BY <3>2, <3>3, <3>4 DEF Waited, Gone
    <3>6. ReapProgress' BY <1>4, <1>5, <2>4, <3>1, <3>2, <3>5, ProgressAfter
    <3> QED BY <1>6, <3>1, <3>6 DEF ReapBase
  <2>5. i + 1 \in Nat /\ \A j \in DOMAIN W : W[j] < i + 1 => W[j] < i \/ W[j] = i
    BY <1>5, <1>7
  <2>6. CASE Quiet(s) /\ \A j \in DOMAIN F : F[j] # i /\ W[j] # i
    <3>1. PICK t : t = i + 1 OBVIOUS
    <3>2. MainGoes(t) /\ failed' = failed
      BY <1>6, <2>1, <2>2, <2>6, <3>1, QuietStep DEF ReapBase
    <3>3. Reached(n, F, t, k) BY <1>5, <2>1, <2>6, <3>1, ReachedNext
    <3>4. \A j \in DOMAIN W : W[j] < t => W[j] < i BY <1>7, <2>5, <2>6, <3>1
    <3> QED BY <2>4, <3>2, <3>3, <3>4
  <2>7. CASE /\ \A j \in DOMAIN F : F[j] # i /\ W[j] # i
             /\ s.op = "write" /\ (i = w \/ \A j \in DOMAIN W : W[j] < i)
    <3>1. DoWrite(0, s) BY <1>2, <2>2, <2>7, StepIs
    <3>2. \/ \E c : Did(0, Pc(0) + 1, fds[0], c)
          \/ /\ Ends(0) /\ failed' = failed
             /\ \/ fds[0][s.f].w \in Pipes /\ Readers(fds[0][s.f].w) = {}
                \/ fds[0][s.f].w \in Sockets
      BY <1>1, <1>2, <3>1, WriteDoes
    <3>3. CASE \E c : Did(0, Pc(0) + 1, fds[0], c)
      <4>1. PICK t, u, c : t = i + 1 /\ u = fds[0] /\ Did(0, t, u, c) BY <2>1, <3>3
      <4>2. MainGoes(t) /\ failed' = failed BY <4>1, DidMain
      <4>3. Reached(n, F, t, k) BY <1>5, <2>1, <2>7, <4>1, ReachedNext
      <4>4. \A j \in DOMAIN W : W[j] < t => W[j] < i BY <1>7, <2>5, <2>7, <4>1
      <4> QED BY <2>4, <4>2, <4>3, <4>4
    <3>4. CASE /\ Ends(0) /\ failed' = failed
               /\ \/ fds[0][s.f].w \in Pipes /\ Readers(fds[0][s.f].w) = {}
                  \/ fds[0][s.f].w \in Sockets
      <4>1. Pipes \cap Sockets = {} BY DEF Pipes, Sockets
      <4>2. i # w BY <1>4, <2>1, <2>2, <3>4, <4>1 DEF Fed
      <4>3. \A c \in 1 .. forks : Gone(c) BY <1>4, <1>7, <1>9, <2>1, <2>7, <4>2 DEF Waited
      <4> QED BY <1>6, <3>4, <4>3, BaseMainEnds
    <3> QED BY <3>2, <3>3, <3>4
  <2>8. CASE /\ \A j \in DOMAIN F : F[j] # i /\ W[j] # i
             /\ s.op = "read"
             /\ s.end \in DOMAIN b /\ Near(i, s.end, F, W)
             /\ s.err \in DOMAIN b /\ Near(i, s.err, F, W)
    <3>1. DoRead(0, s) BY <1>2, <2>2, <2>8, StepIs
    <3>2. \E c : \E x \in {Pc(0) + 1, s.end, s.err} : Did(0, x, fds[0], c)
      BY <1>1, <1>2, <3>1, ReadDoes
    <3>3. PICK t, u, c : t \in {i + 1, s.end, s.err} /\ u = fds[0] /\ Did(0, t, u, c)
      BY <2>1, <3>2
    <3>4. MainGoes(t) /\ failed' = failed BY <3>3, DidMain
    <3>5. CASE t = i + 1
      <4>1. Reached(n, F, t, k) BY <1>5, <2>1, <2>8, <3>5, ReachedNext
      <4>2. \A j \in DOMAIN W : W[j] < t => W[j] < i BY <1>7, <2>5, <2>8, <3>5
      <4> QED BY <2>4, <3>4, <4>1, <4>2
    <3>6. CASE t \in {s.end, s.err}
      <4>1. t \in 1 .. n /\ Near(i, t, F, W) BY <1>7, <2>8, <3>6
      <4>2. Reached(n, F, t, k) BY <1>5, <2>1, <4>1, ReachedNext
      <4>3. \A j \in DOMAIN W : W[j] < t => W[j] < i BY <1>7, <4>1 DEF Near
      <4> QED BY <2>4, <3>4, <4>2, <4>3
    <3> QED BY <3>3, <3>5, <3>6
  <2>9. CASE /\ s.op = "fork" /\ s.child \in ChildBodies
             /\ \E j \in DOMAIN F : F[j] = i
             /\ \A j \in DOMAIN W : W[j] # i
    <3>1. DoFork(0, s) BY <1>2, <2>2, <2>9, StepIs
    <3>2. Reached(n, F, i + 1, k + 1) /\ k + 1 \in Procs BY <1>5, <2>1, <2>9, ReachedFork
    <3>3. PICK c, t, body : c = k + 1 /\ t = i + 1 /\ body = s.child OBVIOUS
    <3>4. Forks(c, body, t) BY <1>2, <1>4, <2>1, <3>1, <3>2, <3>3, ForkDoes
    <3>5. c = forks + 1 /\ c \in Procs /\ body \in ChildBodies BY <1>4, <2>9, <3>2, <3>3
    <3>6. ReapProcesses' /\ ReapTerminal' /\ ReapAll'
      BY <1>3, <1>6, <3>4, <3>5, MainForks
    <3>7. /\ proc'[0].pc = t /\ forks' = c /\ UNCHANGED << prog, failed >>
          /\ \A q \in Procs : q # 0 /\ q # c => proc'[q] = proc[q]
      BY <3>4 DEF Forks
    <3>8. proc[c].life = "none"
      <4>1. c \notin 0 .. forks BY <1>2, <3>5
      <4> QED BY <3>5, <4>1 DEF ReapBase, ReapProcesses
    <3>9. \A j \in DOMAIN W : W[j] < t => Gone(j)
      BY <1>7, <2>1, <2>5, <2>9, <3>3 DEF Waited
    <3>10. \A j \in DOMAIN W : j \in Procs /\ j # 0 BY <1>5, <1>8 DEF Orderly
    <3>11. Waited(W, t)' BY <3>7, <3>8, <3>9, <3>10 DEF Waited, Gone
    <3>12. ReapProgress' BY <1>4, <1>5, <3>2, <3>3, <3>7, <3>11, ProgressAfter
    <3> QED BY <1>6, <3>6, <3>7, <3>12 DEF ReapBase
  <2>10. CASE /\ s.op \in {"wait", "waitany"}
              /\ \A j \in DOMAIN F : F[j] # i
              /\ s.op = "wait" => s.n \in DOMAIN W /\ W[s.n] = i
              /\ s.op = "waitany" => DOMAIN W = {1} /\ W[1] = i
    <3>1. DoWait(0, s) BY <1>2, <2>2, <2>10, StepIs
    <3>2. PICK t : t = i + 1 OBVIOUS
    <3>3. PICK h : h = proc[0].handling OBVIOUS
    <3>4. h = FALSE BY <1>6, <3>3 DEF ReapBase, ReapProcesses
    <3>5. Reached(n, F, t, k) BY <1>5, <2>1, <2>10, <3>2, ReachedNext
    <3>6. PICK g : g \in DOMAIN W /\ W[g] = i /\ (s.op = "wait" => g = s.n)
                     /\ (s.op = "waitany" => DOMAIN W = {1})
      BY <2>10
    <3>7. g \in 1 .. forks
      <4>1. F[g] < i BY <1>7, <3>6
      <4>2. g <= k BY <1>7, <2>1, <3>6, <4>1 DEF Reached
      <4>3. g \in Nat /\ g >= 1 BY <1>5, <3>6 DEF Orderly
      <4> QED BY <1>2, <1>4, <4>2, <4>3
    <3>8. proc[g].life \in {"run", "zombie", "gone"} /\ g \in Procs /\ g # 0
      BY <1>2, <3>7 DEF ReapBase, ReapProcesses
    <3>9. \A j \in DOMAIN W : W[j] < t => (W[j] < i \/ j = g)
      <4>1. \A j, l \in DOMAIN W : W[j] = i /\ W[l] = i => j = l
        <5> SUFFICES ASSUME NEW j \in DOMAIN W, NEW l \in DOMAIN W, W[j] = i, W[l] = i
                     PROVE  j = l
          OBVIOUS
        <5>1. j \in Nat /\ l \in Nat BY <1>5 DEF Orderly
        <5>2. ~(j < l) /\ ~(l < j) BY <1>5, <1>7 DEF Orderly
        <5> QED BY <5>1, <5>2
      <4> QED BY <2>5, <3>2, <3>6, <4>1
    <3>10. CASE NothingToReap(0, s) /\ Did(0, Pc(0) + 1, fds[0], chan)
      <4>1. PICK u, c : u = fds[0] /\ c = chan OBVIOUS
      <4>2. Did(0, t, u, c) BY <2>1, <3>2, <3>10, <4>1
      <4>3. MainGoes(t) /\ failed' = failed BY <4>1, <4>2, DidMain
      <4>4. Gone(g) BY <3>6, <3>7, <3>8, <3>10 DEF NothingToReap, HasChildren, Gone
      <4>5. \A j \in DOMAIN W : W[j] < t => (W[j] < i \/ Gone(j)) BY <3>9, <4>4
      <4> QED BY <2>4, <3>5, <4>3, <4>5
    <3>11. CASE \E c \in Reapable(0, s) : Reaps(c, Pc(0) + 1, proc[0].handling)
      <4>1. PICK c \in Reapable(0, s) : Reaps(c, t, h) BY <2>1, <3>2, <3>3, <3>11
      <4>2. c = g
        <5>1. c \in Zombies /\ (s.op = "wait" => c = s.n)
          BY <3>6, <3>8 DEF Reapable
        <5>2. c \in 1 .. k BY <1>4, <5>1 DEF Zombies
        <5> QED BY <1>7, <1>9, <2>10, <3>6, <5>1, <5>2
      <4>3. Reaps(g, t, h) BY <4>1, <4>2
      <4>4. ReapProcesses' /\ ReapTerminal' /\ ReapAll'
        BY <1>3, <1>6, <3>4, <3>7, <4>3, MainReaps
      <4>5. /\ proc'[0].pc = t /\ UNCHANGED << prog, forks, failed >> /\ proc'[g].life = "gone"
            /\ \A q \in Procs : q # 0 /\ q # g => proc'[q] = proc[q]
        BY <4>3 DEF Reaps
      <4>6. \A j \in DOMAIN W : j \in Procs /\ j # 0 BY <1>5, <1>8 DEF Orderly
      <4>7. \A j \in DOMAIN W : W[j] < t => (Gone(j) \/ j = g) BY <2>1, <3>9 DEF Waited
      <4>8. Waited(W, t)' BY <4>5, <4>6, <4>7 DEF Waited, Gone
      <4>9. ReapProgress' BY <1>4, <1>5, <3>5, <4>5, <4>8, ProgressAfter
      <4> QED BY <1>6, <4>4, <4>5, <4>9 DEF ReapBase
    <3>12. \/ \E c \in Reapable(0, s) : Reaps(c, Pc(0) + 1, proc[0].handling)
           \/ NothingToReap(0, s) /\ Did(0, Pc(0) + 1, fds[0], chan)
      BY <1>2, <3>1, WaitDoes
    <3> QED BY <3>10, <3>11, <3>12
  <2> QED BY <1>7, <2>1, <2>3, <2>6, <2>7, <2>8, <2>9, <2>10 DEF OrderlyStep
<1> QED BY <1>10, <1>11

-----------------------------------------------------------------------------
(* The pipes that a main process writes into. *)

\* The pipe.
TheirPipe == << "p1", 0 >>
\* The table has the read end, or the write end, of this pipe.
Reading(table, f) == f \in DOMAIN table /\ table[f].r = TheirPipe
Writing(table) == "p1" \in DOMAIN table /\ table["p1"].w = TheirPipe

\* The bodies of the children that read it.
FedBodies == {"pipe_test_child", "sigpipe_b_child", "popen_child"}

\* The child with descriptors `table` is before its first read() returned.
FedChild(body, pc, table) ==
    \/ /\ body \in {"pipe_test_child", "sigpipe_b_child"} /\ pc \in {1, 2}
       /\ Reading(table, "p0")
    \/ body = "popen_child" /\ pc = 1 /\ Reading(table, "p0")
    \/ body = "popen_child" /\ pc \in {2, 3, 4} /\ Reading(table, "in")
    \/ body = "A" /\ pc = 1 /\ Reading(table, "in")

\* The main process is at step pc, with descriptors `table`; it writes at step w; c is what
\* is in the pipe; k children were created.
FedMain(w, pc, table, c, k) ==
    /\ pc <= w => c = << >>
    /\ pc > 1 /\ pc <= w => Writing(table)
    /\ pc > 1 /\ k = 0 => Reading(table, "p0")

\* Until the main process writes, the pipe is empty and the child that will read it has
\* not got past its first read().
ReapFeeding ==
    prog \in Feeding /\ proc[0].life = "run" =>
      /\ FedMain(WriteAt[prog], proc[0].pc, fds[0], chan[TheirPipe], forks)
      /\ forks = 1 /\ proc[0].pc <= WriteAt[prog] =>
           proc[1].life = "run" /\ FedChild(proc[1].body, proc[1].pc, fds[1])

\* The steps of a main process that writes at step w.
FeedBody(b, w) ==
    /\ w \in {4, 5} /\ 1 .. w \subseteq DOMAIN b
    /\ b[1].op = "pipe" /\ b[1].r = "p0" /\ b[1].w = "p1"
    /\ w = 5 => b[2].op = "signal" /\ b[2].s = "PIPE"
    /\ b[w - 2].op = "fork" /\ b[w - 2].child \in FedBodies
    /\ b[w - 1].op = "close" /\ b[w - 1].f = "p0"
    /\ b[w].op = "write" /\ b[w].f = "p1"
    /\ \A i \in DOMAIN b : b[i].op \in {"pipe", "signal", "fork", "close", "write", "wait",
                                        "waitany"}

\* The three programs have this form.
LEMMA FeedBodies ==
    ASSUME prog \in Feeding
    PROVE  /\ FeedBody(Bodies[prog], WriteAt[prog]) /\ WritesAt = WriteAt[prog]
           /\ DOMAIN ForkAt[prog] = {1} /\ ForkAt[prog][1] = WriteAt[prog] - 2
           /\ WriteAt[prog] \in {4, 5}
<1>1. CASE prog = "pipe_test"
  <2>1. PICK b : b = Bodies["pipe_test"] OBVIOUS
  <2>2. b = pipe_test BY <2>1 DEF Bodies
  <2>3. DOMAIN b = 1 .. 5
    <3>1. DOMAIN pipe_test = 1 .. 5 BY DEF pipe_test
    <3> QED BY <2>2, <3>1
  <2>4. b[1].op = "pipe" /\ b[1].r = "p0" /\ b[1].w = "p1" BY <2>2 DEF pipe_test, Pipe
  <2>5. b[2].op = "fork" /\ b[2].child = "pipe_test_child" BY <2>2 DEF pipe_test, Fork
  <2>6. b[3].op = "close" /\ b[3].f = "p0" BY <2>2 DEF pipe_test, Close
  <2>7. b[4].op = "write" /\ b[4].f = "p1" BY <2>2 DEF pipe_test, Write
  <2>8. b[5].op = "waitany" BY <2>2 DEF pipe_test, WaitAny
  <2>9. FeedBody(b, 4) BY <2>3, <2>4, <2>5, <2>6, <2>7, <2>8 DEF FeedBody, FedBodies
  <2>10. WriteAt[prog] = 4 BY <1>1 DEF WriteAt
  <2>11. DOMAIN ForkAt[prog] = {1} /\ ForkAt[prog][1] = 2 BY <1>1 DEF ForkAt
  <2> QED BY <1>1, <2>1, <2>9, <2>10, <2>11 DEF WritesAt
<1>2. CASE prog = "popen_test"
  <2>1. PICK b : b = Bodies["popen_test"] OBVIOUS
  <2>2. b = popen_test BY <2>1 DEF Bodies
  <2>3. DOMAIN b = 1 .. 6
    <3>1. DOMAIN popen_test = 1 .. 6 BY DEF popen_test
    <3> QED BY <2>2, <3>1
  <2>4. b[1].op = "pipe" /\ b[1].r = "p0" /\ b[1].w = "p1" BY <2>2 DEF popen_test, Pipe
  <2>5. b[2].op = "fork" /\ b[2].child = "popen_child" BY <2>2 DEF popen_test, Fork
  <2>6. b[3].op = "close" /\ b[3].f = "p0" /\ b[5].op = "close" BY <2>2 DEF popen_test, Close
  <2>7. b[4].op = "write" /\ b[4].f = "p1" BY <2>2 DEF popen_test, Write
  <2>8. b[6].op = "wait" BY <2>2 DEF popen_test, Wait
  <2>9. FeedBody(b, 4) BY <2>3, <2>4, <2>5, <2>6, <2>7, <2>8 DEF FeedBody, FedBodies
  <2>10. WriteAt[prog] = 4 BY <1>2 DEF WriteAt
  <2>11. DOMAIN ForkAt[prog] = {1} /\ ForkAt[prog][1] = 2 BY <1>2 DEF ForkAt
  <2> QED BY <1>2, <2>1, <2>9, <2>10, <2>11 DEF WritesAt
<1>3. CASE prog = "sigpipe_b"
  <2>1. PICK b : b = Bodies["sigpipe_b"] OBVIOUS
  <2>2. b = sigpipe_b BY <2>1 DEF Bodies
  <2>3. DOMAIN b = 1 .. 7
    <3>1. DOMAIN sigpipe_b = 1 .. 7 BY DEF sigpipe_b
    <3> QED BY <2>2, <3>1
  <2>4. b[1].op = "pipe" /\ b[1].r = "p0" /\ b[1].w = "p1" BY <2>2 DEF sigpipe_b, Pipe
  <2>5. b[2].op = "signal" /\ b[2].s = "PIPE" BY <2>2 DEF sigpipe_b, Signal
  <2>6. b[3].op = "fork" /\ b[3].child = "sigpipe_b_child" BY <2>2 DEF sigpipe_b, Fork
  <2>7. b[4].op = "close" /\ b[4].f = "p0" BY <2>2 DEF sigpipe_b, Close
  <2>8. b[5].op = "write" /\ b[5].f = "p1" /\ b[7].op = "write" BY <2>2 DEF sigpipe_b, Write
  <2>9. b[6].op = "wait" BY <2>2 DEF sigpipe_b, Wait
  <2>10. FeedBody(b, 5) BY <2>3, <2>4, <2>5, <2>6, <2>7, <2>8, <2>9 DEF FeedBody, FedBodies
  <2>11. WriteAt[prog] = 5 BY <1>3 DEF WriteAt
  <2>12. DOMAIN ForkAt[prog] = {1} /\ ForkAt[prog][1] = 3 BY <1>3 DEF ForkAt
  <2> QED BY <1>3, <2>1, <2>10, <2>11, <2>12 DEF WritesAt
<1> QED BY <1>1, <1>2, <1>3 DEF Feeding

\* Where the main process of such a program is.
LEMMA FeedAt ==
    ASSUME prog \in Feeding, ReapBase
    PROVE  /\ prog \in Reaping \ Counting
           /\ proc[0].pc \in Nat \ {0} /\ forks \in {0, 1}
           /\ forks = 1 <=> WriteAt[prog] - 2 < proc[0].pc
           /\ proc[0].pc \in DOMAIN Bodies[prog] =>
                Pc(0) = proc[0].pc /\ Now(0) = Bodies[prog][proc[0].pc]
           /\ proc[0].pc \notin DOMAIN Bodies[prog] =>
                Pc(0) = proc[0].pc /\ Now(0).op = "end"
<1>1. prog \in Reaping \ Counting BY DEF Feeding, Reaping, Pipelines, Counting
<1>2. PICK b, F, W, w, pc, k :
        /\ b = Bodies[prog] /\ F = ForkAt[prog] /\ W = WaitAt[prog] /\ w = WritesAt
        /\ pc = proc[0].pc /\ k = forks
  OBVIOUS
<1>3. PICK n \in Nat : Orderly(b, n, F, W, w) /\ Reached(n, F, pc, k)
  BY <1>1, <1>2 DEF ReapBase, ReapProgress
<1>4. FeedBody(b, w) /\ DOMAIN F = {1} /\ F[1] = w - 2 /\ w = WriteAt[prog]
  BY <1>2, FeedBodies
<1>5. pc \in Nat \ {0} /\ k \in {0, 1} /\ (k = 1 <=> w - 2 < pc)
  <2>1. k \in Nat /\ 1 .. k \subseteq {1} /\ (1 <= k <=> w - 2 < pc) /\ pc \in 1 .. n + 1
    BY <1>3, <1>4 DEF Reached
  <2>2. k \in {0, 1}
    <3>1. CASE k >= 2
      <4>1. 2 \in 1 .. k BY <2>1, <3>1
      <4> QED BY <2>1, <4>1
    <3> QED BY <2>1, <3>1
  <2> QED BY <1>3, <2>1, <2>2
<1>6. b = Bodies[proc[0].body] BY <1>2 DEF ReapBase, ReapProcesses
<1>7. CASE pc \in DOMAIN b
  <2>1. b[pc].op # "goto" BY <1>4, <1>7 DEF FeedBody
  <2> QED BY <1>1, <1>2, <1>4, <1>5, <1>6, <1>7, <2>1, AtStep
<1>8. CASE pc \notin DOMAIN b
  <2>1. Now(0).op = "end" BY <1>2, <1>6, <1>8, AtEnd
  <2>2. Pc(0) = pc BY <1>2, <1>6, <1>8 DEF Pc, Body
  <2> QED BY <1>1, <1>2, <1>4, <1>5, <1>8, <2>1, <2>2
<1> QED BY <1>7, <1>8

\* The main process of a pipeline never writes into a pipe without a reader before it has
\* waited for its children.
LEMMA IsFed ==
    ASSUME prog \in Reaping \ Counting, ReapBase, ReapFeeding, proc[0].life = "run"
    PROVE  Fed
<1>1. CASE prog \in Feeding
  <2> SUFFICES ASSUME Pc(0) = WritesAt
               PROVE  /\ fds[0][Now(0).f].w \in Pipes
                      /\ Readers(fds[0][Now(0).f].w) # {}
    BY DEF Fed
  <2>1. PICK b, w, pc : b = Bodies[prog] /\ w = WriteAt[prog] /\ pc = proc[0].pc OBVIOUS
  <2>2. FeedBody(b, w) /\ WritesAt = w /\ w \in {4, 5} BY <1>1, <2>1, FeedBodies
  <2>3. pc = w BY <1>1, <2>1, <2>2, FeedAt
  <2>4. Now(0).f = "p1"
    <3>1. w \in DOMAIN b /\ b[w].f = "p1" BY <2>2 DEF FeedBody
    <3> QED BY <1>1, <2>1, <2>3, <3>1, FeedAt
  <2>5. forks = 1 BY <1>1, <2>1, <2>2, <2>3, FeedAt
  <2>6. fds[0]["p1"].w = TheirPipe
    BY <1>1, <2>1, <2>2, <2>3 DEF ReapFeeding, FedMain, Writing
  <2>7. FedChild(proc[1].body, proc[1].pc, fds[1])
    BY <1>1, <2>1, <2>2, <2>3, <2>5 DEF ReapFeeding
  <2>8. \E f \in DOMAIN fds[1] : fds[1][f].r = TheirPipe BY <2>7 DEF FedChild, Reading
  <2>9. 1 \in Readers(TheirPipe) BY <2>8, ProcsHas DEF Readers, ReadersIn
  <2>10. TheirPipe \in Pipes BY DEF TheirPipe, Pipes
  <2> QED BY <2>4, <2>6, <2>9, <2>10
<1>2. CASE prog \notin Feeding
  <2>1. WritesAt = 0 BY <1>2 DEF WritesAt
  <2>2. PICK b, F, W, w, pc, k :
        /\ b = Bodies[prog] /\ F = ForkAt[prog] /\ W = WaitAt[prog] /\ w = WritesAt
        /\ pc = proc[0].pc /\ k = forks
    OBVIOUS
  <2>3. PICK n \in Nat : Orderly(b, n, F, W, w) /\ Reached(n, F, pc, k) /\ Waited(W, pc)
    BY <2>2 DEF ReapBase, ReapProgress
  <2>4. b = Bodies[proc[0].body] BY <2>2 DEF ReapBase, ReapProcesses
  <2>5. CASE pc \in 1 .. n
    <3>1. \E i \in 1 .. n : i = Pc(0) BY <2>2, <2>3, <2>4, <2>5, AtJump
    <3> QED BY <2>1, <2>3, <3>1 DEF Fed
  <2>6. CASE pc \notin 1 .. n
    <3>1. pc = n + 1 /\ DOMAIN b = 1 .. n BY <2>3, <2>6 DEF Reached, Orderly
    <3>2. Pc(0) = pc BY <2>2, <2>4, <2>6, <3>1 DEF Pc, Body
    <3> QED BY <2>1, <2>3, <3>1, <3>2 DEF Fed
  <2> QED BY <2>5, <2>6
<1> QED BY <1>1, <1>2

\* Each of these calls goes on with the next step, or ends the process.
LEMMA Advances ==
    ASSUME prog \in Reaping, ReapProcesses, ReapTerminal, Step(0), NEW s, s = Now(0), ~failed',
           s.op \in {"pipe", "signal", "fork", "close", "write", "wait", "waitany"},
           forks + 1 \in Procs
    PROVE  Ends(0) \/ proc'[0].pc = Pc(0) + 1
<1>1. ~Threaded /\ ~Datagrams BY DEF Threaded, Datagrams, Reaping, Pipelines
<1>2. /\ 0 \in Procs /\ Recs /\ DOMAIN fds = Procs /\ forks \in Nat
      /\ 1 .. forks \subseteq Procs
  BY ProcsHas DEF ReapProcesses
<1>3. PICK x : x = Pc(0) + 1 OBVIOUS
<1>4. ASSUME NEW t, NEW c, Did(0, x, t, c) PROVE proc'[0].pc = x BY <1>4 DEF Did
<1>5. CASE s.op = "pipe"
  <2>1. DoPipe(0, s) BY <1>2, <1>5, StepIs
  <2> QED BY <1>2, <1>3, <1>4, <2>1, PipeDoes
<1>6. CASE s.op = "close"
  <2>1. DoClose(0, s) BY <1>2, <1>6, StepIs
  <2> QED BY <1>2, <1>3, <1>4, <2>1, CloseDoes
<1>7. CASE s.op = "write"
  <2>1. DoWrite(0, s) BY <1>2, <1>7, StepIs
  <2>2. Ends(0) \/ \E t, c : Did(0, x, t, c) BY <1>1, <1>2, <1>3, <2>1, WriteDoes
  <2> QED BY <1>3, <1>4, <2>2
<1>8. CASE s.op = "fork"
  <2>1. DoFork(0, s) BY <1>2, <1>8, StepIs
  <2>2. PICK c, body : c = forks + 1 /\ body = s.child OBVIOUS
  <2>3. Forks(c, body, x) BY <1>2, <1>3, <2>1, <2>2, ForkDoes
  <2> QED BY <1>3, <2>3 DEF Forks
<1>9. CASE s.op \in {"wait", "waitany"}
  <2>1. DoWait(0, s) BY <1>2, <1>9, StepIs
  <2>2. PICK h, t, d : h = proc[0].handling /\ t = fds[0] /\ d = chan OBVIOUS
  <2>3. (\E c : Reaps(c, x, h)) \/ Did(0, x, t, d) BY <1>2, <1>3, <2>1, <2>2, WaitDoes
  <2>4. CASE \E c : Reaps(c, x, h) BY <1>3, <2>4 DEF Reaps
  <2> QED BY <1>3, <1>4, <2>3, <2>4
<1>10. CASE s.op = "signal"
  <2>1. DoSignal(0, s) BY <1>2, <1>10, StepIs
  <2>2. proc' = [proc EXCEPT ![0].pc = x, ![0].action[s.s] = s.h]
    BY <1>3, <1>10, <2>1 DEF DoSignal
  <2>3. PICK a : a = [proc[0].action EXCEPT ![s.s] = s.h] OBVIOUS
  <2>4. PICK r : r = [proc[0] EXCEPT !.pc = x, !.action = a] OBVIOUS
  <2>5. Rec(proc[0]) BY <1>2 DEF Recs
  <2>6. proc' = [proc EXCEPT ![0] = r] BY <1>2, <2>2, <2>3, <2>4, <2>5 DEF Recs, Rec
  <2>7. r.pc = x BY <2>4, <2>5 DEF Rec
  <2> QED BY <1>2, <1>3, <2>6, <2>7 DEF Recs
<1> QED BY <1>5, <1>6, <1>7, <1>8, <1>9, <1>10

\* The main process keeps the pipe ready until it writes.
LEMMA FeedMainStep ==
    ASSUME prog \in Feeding, ReapBase, ReapFeeding, Step(0), ~failed', prog' = prog
    PROVE  ReapFeeding'
<1> SUFFICES ASSUME proc'[0].life = "run"
             PROVE  /\ FedMain(WriteAt[prog], proc[0].pc, fds[0], chan[TheirPipe], forks)'
                    /\ forks' = 1 /\ proc'[0].pc <= WriteAt[prog] =>
                         /\ proc'[1].life = "run"
                         /\ FedChild(proc'[1].body, proc'[1].pc, fds'[1])
  BY DEF ReapFeeding, FedChild, Reading
<1>1. /\ 0 \in Procs /\ 1 \in Procs /\ 2 \in Procs /\ Recs /\ DOMAIN fds = Procs
      /\ ReapProcesses /\ ReapTerminal
  BY ProcsHas DEF ReapBase, ReapProcesses
<1>2. proc[0].life = "run" BY <1>1, StepIs DEF Running
<1>3. PICK b, w, pc, t, c, k :
        /\ b = Bodies[prog] /\ w = WriteAt[prog] /\ pc = proc[0].pc /\ t = fds[0]
        /\ c = chan[TheirPipe] /\ k = forks
  OBVIOUS
<1>4. FeedBody(b, w) /\ w \in {4, 5} BY <1>3, FeedBodies
<1>5. /\ prog \in Reaping /\ pc \in Nat \ {0} /\ k \in {0, 1} /\ (k = 1 <=> w - 2 < pc)
      /\ pc \in DOMAIN b => Pc(0) = pc /\ Now(0) = b[pc]
      /\ pc \notin DOMAIN b => Pc(0) = pc /\ Now(0).op = "end"
  BY <1>3, FeedAt
<1>6. /\ FedMain(w, pc, t, c, k)
      /\ k = 1 /\ pc <= w => proc[1].life = "run" /\ FedChild(proc[1].body, proc[1].pc, fds[1])
  BY <1>2, <1>3 DEF ReapFeeding
<1>7. forks + 1 \in Procs /\ forks \in Nat BY <1>1, <1>3, <1>5
<1>8. PICK pc2, t2, c2, k2 :
        pc2 = proc'[0].pc /\ t2 = fds'[0] /\ c2 = chan'[TheirPipe] /\ k2 = forks'
  OBVIOUS
<1>9. SUFFICES /\ FedMain(w, pc2, t2, c2, k2)
               /\ k2 = 1 /\ pc2 <= w =>
                    proc'[1].life = "run" /\ FedChild(proc'[1].body, proc'[1].pc, fds'[1])
  BY <1>3, <1>8 DEF FedMain
<1>10. ~Ends(0)
  <2>1. 0 \notin 1 .. forks OBVIOUS
  <2> QED BY <2>1 DEF Ends
<1>11. pc \in DOMAIN b
  <2>1. ~Threaded BY <1>5 DEF Threaded, Reaping, Pipelines
  <2> SUFFICES ASSUME pc \notin DOMAIN b PROVE FALSE OBVIOUS
  <2>2. Now(0).op = "end" BY <1>5
  <2>3. Finish(0) BY <1>1, <2>2, StepIs
  <2> QED BY <1>1, <1>10, <2>1, <2>3, Ending
<1>12. PICK s : s = Now(0) OBVIOUS
<1>13. s = b[pc] /\ Pc(0) = pc BY <1>5, <1>11, <1>12
<1>14. pc2 = pc + 1
  <2>1. s.op \in {"pipe", "signal", "fork", "close", "write", "wait", "waitany"}
    BY <1>4, <1>11, <1>13 DEF FeedBody
  <2> QED BY <1>1, <1>5, <1>7, <1>8, <1>10, <1>12, <1>13, <2>1, Advances
<1>15. CASE pc >= w
  <2>1. pc2 > w /\ pc2 > 1 /\ k = 1 BY <1>4, <1>5, <1>14, <1>15
  <2>2. k2 # 0
    <3>1. s.op # "fork" => k2 = k
      <4>1. s.op \in {"pipe", "signal", "fork", "close", "write", "wait", "waitany"}
        BY <1>4, <1>11, <1>13 DEF FeedBody
      <4>2. CASE s.op = "pipe"
        <5>1. DoPipe(0, s) BY <1>1, <1>12, <4>2, StepIs
        <5>2. ~FailAndExit(0) BY DEF FailAndExit
        <5> QED BY <1>3, <1>8, <5>1, <5>2 DEF DoPipe, UnchangedOther
      <4>3. CASE s.op = "signal"
        <5>1. DoSignal(0, s) BY <1>1, <1>12, <4>3, StepIs
        <5> QED BY <1>3, <1>8, <5>1 DEF DoSignal, UnchangedOther
      <4>4. CASE s.op = "close"
        <5>1. DoClose(0, s) BY <1>1, <1>12, <4>4, StepIs
        <5> QED BY <1>3, <1>8, <5>1 DEF DoClose, UnchangedOther
      <4>5. CASE s.op \in {"wait", "waitany"}
        <5>1. DoWait(0, s) BY <1>1, <1>12, <4>5, StepIs
        <5> QED BY <1>3, <1>8, <5>1 DEF DoWait, UnchangedOther
      <4>6. CASE s.op = "write"
        <5>1. DoWrite(0, s) BY <1>1, <1>12, <4>6, StepIs
        <5>2. ~Threaded /\ ~Datagrams BY <1>5 DEF Threaded, Datagrams, Reaping, Pipelines
        <5>3. \E x, u, d : Did(0, x, u, d) BY <1>1, <1>10, <5>1, <5>2, WriteDoes
        <5> QED BY <1>3, <1>8, <5>3 DEF Did
      <4> QED BY <4>1, <4>2, <4>3, <4>4, <4>5, <4>6
    <3>2. CASE s.op = "fork"
      <4>1. DoFork(0, s) BY <1>1, <1>12, <3>2, StepIs
      <4>2. PICK g, body, x : g = forks + 1 /\ body = s.child /\ x = Pc(0) + 1 OBVIOUS
      <4>3. Forks(g, body, x) BY <1>1, <1>7, <4>1, <4>2, ForkDoes
      <4> QED BY <1>7, <1>8, <4>2, <4>3 DEF Forks
    <3> QED BY <2>1, <3>1, <3>2
  <2> QED BY <1>4, <2>1, <2>2, <1>14, <1>5 DEF FedMain
<1>16. CASE pc = 1
  <2>1. s.op = "pipe" /\ s.r = "p0" /\ s.w = "p1" BY <1>4, <1>13, <1>16 DEF FeedBody
  <2>2. DoPipe(0, s) BY <1>1, <1>12, <2>1, StepIs
  <2>3. PICK x, e1, e2, d :
          /\ x = Pc(0) + 1 /\ e1 = End(TheirPipe, NoChannel) /\ e2 = End(NoChannel, TheirPipe)
          /\ d = chan
    OBVIOUS
  <2>4. PICK t1 : t1 = With(t, "p0", e1) OBVIOUS
  <2>5. PICK u : u = With(t1, "p1", e2) OBVIOUS
  <2>6. Did(0, x, u, d)
    BY <1>1, <1>3, <2>1, <2>2, <2>3, <2>4, <2>5, PipeDoes DEF TheirPipe
  <2>7. t2 = u /\ chan' = chan /\ forks' = forks BY <1>8, <2>3, <2>6 DEF Did
  <2>8. Writing(u) BY <2>3, <2>5 DEF Writing, With, End
  <2>9. Reading(t1, "p0") BY <2>3, <2>4 DEF Reading, With, End
  <2>10. Reading(u, "p0") BY <2>5, <2>9 DEF Reading, With
  <2>11. k2 = 0 /\ c2 = c /\ c = << >>
    BY <1>3, <1>4, <1>5, <1>6, <1>8, <1>16, <2>7 DEF FedMain
  <2> QED BY <2>7, <2>8, <2>10, <2>11 DEF FedMain
<1>17. CASE pc = 2 /\ w = 5
  <2>1. s.op = "signal" BY <1>4, <1>13, <1>17 DEF FeedBody
  <2>2. DoSignal(0, s) BY <1>1, <1>12, <2>1, StepIs
  <2>3. fds' = fds /\ chan' = chan /\ forks' = forks
    BY <2>2 DEF DoSignal, UnchangedTables, UnchangedOther
  <2>4. t2 = t /\ c2 = c /\ k2 = k /\ k = 0 BY <1>3, <1>5, <1>8, <1>17, <2>3
  <2>5. c = << >> /\ Writing(t) /\ Reading(t, "p0") BY <1>6, <1>17, <2>4 DEF FedMain
  <2> QED BY <2>4, <2>5 DEF FedMain
<1>18. CASE pc = w - 2
  <2>1. s.op = "fork" /\ s.child \in FedBodies BY <1>4, <1>13, <1>18 DEF FeedBody
  <2>2. DoFork(0, s) BY <1>1, <1>12, <2>1, StepIs
  <2>3. k = 0 BY <1>4, <1>5, <1>18
  <2>4. PICK g, body, x : g = forks + 1 /\ body = s.child /\ x = Pc(0) + 1 OBVIOUS
  <2>5. Forks(g, body, x) BY <1>1, <1>7, <2>2, <2>4, ForkDoes
  <2>6. g = 1
    <3>1. forks = 0 BY <1>3, <2>3
    <3> QED BY <2>4, <3>1
  <2>7. /\ proc'[1].life = "run" /\ proc'[1].body = body /\ proc'[1].pc = 1
        /\ fds'[1] = t /\ t2 = t /\ k2 = 1 /\ c2 = c
    BY <1>1, <1>3, <1>8, <2>5, <2>6 DEF Forks
  <2>8. c = << >> /\ Writing(t) /\ Reading(t, "p0") BY <1>4, <1>6, <1>18, <2>3 DEF FedMain
  <2>9. FedChild(proc'[1].body, proc'[1].pc, fds'[1])
    BY <2>1, <2>4, <2>7, <2>8 DEF FedChild, FedBodies
  <2> QED BY <2>7, <2>8, <2>9 DEF FedMain
<1>19. CASE pc = w - 1
  <2>1. s.op = "close" /\ s.f = "p0" BY <1>4, <1>13, <1>19 DEF FeedBody
  <2>2. DoClose(0, s) BY <1>1, <1>12, <2>1, StepIs
  <2>3. PICK x, u, d : x = Pc(0) + 1 /\ u = Without(t, "p0") /\ d = chan OBVIOUS
  <2>4. Did(0, x, u, d) BY <1>1, <1>3, <2>1, <2>2, <2>3, CloseDoes
  <2>5. /\ t2 = u /\ c2 = c /\ k2 = k /\ proc'[1] = proc[1] /\ fds'[1] = fds[1]
    BY <1>1, <1>3, <1>8, <2>3, <2>4 DEF Did, Only
  <2>6. k = 1 /\ pc <= w /\ pc > 1 BY <1>4, <1>5, <1>19
  <2>7. c = << >> /\ Writing(t) BY <1>6, <2>6 DEF FedMain
  <2>8. Writing(u) BY <2>3, <2>7 DEF Writing, Without
  <2> QED BY <1>6, <2>5, <2>6, <2>7, <2>8 DEF FedMain
<1> QED BY <1>4, <1>5, <1>15, <1>16, <1>17, <1>18, <1>19

\* The first steps of the children that are fed.
LEMMA FedSteps ==
    /\ \A x \in {"pipe_test_child", "sigpipe_b_child"} :
         LET b == Bodies[x] IN
         /\ {1, 2} \subseteq DOMAIN b /\ b[1].op = "close" /\ b[1].f = "p1"
         /\ b[2].op = "read" /\ b[2].f = "p0"
    /\ LET b == Bodies["popen_child"] IN
       /\ {1, 2, 3, 4} \subseteq DOMAIN b
       /\ b[1].op = "dup2" /\ b[1].f = "p0" /\ b[1].g = "in"
       /\ b[2].op = "close" /\ b[2].f = "p0" /\ b[3].op = "close" /\ b[3].f = "p1"
       /\ b[4].op = "exec" /\ b[4].images = {"A"}
    /\ LET b == Bodies["A"] IN
       1 \in DOMAIN b /\ b[1].op = "read" /\ b[1].f = "in"
<1>1. ASSUME NEW x \in {"pipe_test_child", "sigpipe_b_child"}, NEW b, b = Bodies[x]
      PROVE  /\ {1, 2} \subseteq DOMAIN b /\ b[1].op = "close" /\ b[1].f = "p1"
             /\ b[2].op = "read" /\ b[2].f = "p0"
  <2>1. CASE x = "pipe_test_child"
    <3>1. b = pipe_test_child BY <1>1, <2>1 DEF Bodies
    <3>2. {1, 2} \subseteq DOMAIN b BY <3>1 DEF pipe_test_child
    <3>3. b[1].op = "close" /\ b[1].f = "p1" BY <3>1 DEF pipe_test_child, Close
    <3>4. b[2].op = "read" /\ b[2].f = "p0" BY <3>1 DEF pipe_test_child, Read
    <3> QED BY <3>2, <3>3, <3>4
  <2>2. CASE x = "sigpipe_b_child"
    <3>1. b = sigpipe_b_child BY <1>1, <2>2 DEF Bodies
    <3>2. {1, 2} \subseteq DOMAIN b BY <3>1 DEF sigpipe_b_child
    <3>3. b[1].op = "close" /\ b[1].f = "p1" BY <3>1 DEF sigpipe_b_child, Close
    <3>4. b[2].op = "read" /\ b[2].f = "p0" BY <3>1 DEF sigpipe_b_child, Read
    <3> QED BY <3>2, <3>3, <3>4
  <2> QED BY <2>1, <2>2
<1>2. ASSUME NEW b, b = Bodies["popen_child"]
      PROVE  /\ {1, 2, 3, 4} \subseteq DOMAIN b
             /\ b[1].op = "dup2" /\ b[1].f = "p0" /\ b[1].g = "in"
             /\ b[2].op = "close" /\ b[2].f = "p0" /\ b[3].op = "close" /\ b[3].f = "p1"
             /\ b[4].op = "exec" /\ b[4].images = {"A"}
  <2>1. b = popen_child BY <1>2 DEF Bodies
  <2>2. {1, 2, 3, 4} \subseteq DOMAIN b BY <2>1 DEF popen_child
  <2>3. b[1].op = "dup2" /\ b[1].f = "p0" /\ b[1].g = "in" BY <2>1 DEF popen_child, Dup2
  <2>4. b[2].op = "close" /\ b[2].f = "p0" /\ b[3].op = "close" /\ b[3].f = "p1"
    BY <2>1 DEF popen_child, Close
  <2>5. b[4].op = "exec" /\ b[4].images = {"A"} BY <2>1 DEF popen_child, Exec
  <2> QED BY <2>2, <2>3, <2>4, <2>5
<1>3. ASSUME NEW b, b = Bodies["A"]
      PROVE  1 \in DOMAIN b /\ b[1].op = "read" /\ b[1].f = "in"
  <2>1. b = A BY <1>3 DEF Bodies
  <2> QED BY <2>1 DEF A, Read
<1> QED BY <1>1, <1>2, <1>3

\* A descriptor that is not touched still reads the pipe.
LEMMA StillReading ==
    ASSUME NEW t, NEW f, NEW g, NEW e, f # g, Reading(t, f)
    PROVE  Reading(With(t, g, e), f) /\ Reading(Without(t, g), f)
BY OtherDescriptors DEF Reading

\* The child does not get past its first read() before the main process has written.
LEMMA FeedChildStep ==
    ASSUME prog \in Feeding, ReapBase, ReapFeeding, proc[0].life = "run", forks = 1, Step(1),
           proc'[0].pc = proc[0].pc, proc'[0].life = proc[0].life, fds'[0] = fds[0],
           forks' = forks, prog' = prog
    PROVE  ReapFeeding'
<1>1. /\ 0 \in Procs /\ 1 \in Procs /\ Recs /\ DOMAIN fds = Procs
  BY ProcsHas DEF ReapBase, ReapProcesses
<1>2. PICK w, pc : w = WriteAt[prog] /\ pc = proc[0].pc OBVIOUS
<1>3. pc \in Nat /\ w \in {4, 5} /\ prog \in Reaping BY <1>2, FeedAt, FeedBodies
<1>4. ~Datagrams BY <1>3 DEF Datagrams, Reaping, Pipelines
<1>5. CASE pc > w
  BY <1>2, <1>3, <1>5 DEF ReapFeeding, FedMain
<1>6. CASE pc <= w
  <2>1. /\ chan[TheirPipe] = << >>
        /\ FedChild(proc[1].body, proc[1].pc, fds[1]) /\ proc[1].life = "run"
    BY <1>2, <1>6 DEF ReapFeeding, FedMain
  <2>2. Writing(fds[0])
    <3>1. pc > 1 BY <1>2, <1>3, FeedAt
    <3> QED BY <1>2, <1>6, <3>1 DEF ReapFeeding, FedMain
  <2>3. 0 \in Writers(TheirPipe) BY <1>1, <2>2 DEF Writing, Writers, WritersIn
  <2>4. PICK s, t, x, b, i : /\ s = Now(1) /\ t = fds[1] /\ x = proc[1].body /\ i = proc[1].pc
                             /\ b = Bodies[x]
    OBVIOUS
  <2>5. ASSUME i \in DOMAIN b, b[i].op # "goto" PROVE s = b[i] /\ Pc(1) = i
    BY <2>4, <2>5, AtStep
  <2>6. ASSUME NEW u, NEW j, NEW y, NEW c, c = chan, chan' = c, proc'[1].life = "run",
               fds'[1] = u, proc'[1].pc = j, proc'[1].body = y, FedChild(y, j, u)
        PROVE  ReapFeeding'
    <3>1. FedChild(proc'[1].body, proc'[1].pc, fds'[1]) BY <2>6
    <3>2. chan'[TheirPipe] = chan[TheirPipe] BY <2>6
    <3> QED BY <2>6, <3>1, <3>2 DEF ReapFeeding, FedMain, FedChild, Reading, Writing
  <2>7. ASSUME NEW j, NEW u, NEW c, c = chan, Did(1, j, u, c), FedChild(x, j, u)
        PROVE  ReapFeeding'
    <3>1. /\ chan' = c /\ proc'[1].life = "run" /\ fds'[1] = u /\ proc'[1].pc = j
          /\ proc'[1].body = x
      BY <2>1, <2>4, <2>7 DEF Did, Kept
    <3> QED BY <2>6, <2>7, <3>1
  <2>8. ASSUME s.op = "read", Reading(t, s.f) PROVE FALSE
    <3>1. DoRead(1, s) BY <1>1, <2>4, <2>8, StepIs
    <3>2. fds[1][s.f].r = TheirPipe BY <2>4, <2>8 DEF Reading
    <3>3. TheirPipe \in Pipes BY DEF TheirPipe, Pipes
    <3> QED BY <1>1, <1>4, <2>1, <2>3, <3>1, <3>2, <3>3, ReadDoes
  <2>9. ASSUME s.op = "close", Pc(1) = i, NEW u, u = Without(t, s.f), FedChild(x, i + 1, u)
        PROVE  ReapFeeding'
    <3>1. DoClose(1, s) BY <1>1, <2>4, <2>9, StepIs
    <3>2. PICK j, c : j = Pc(1) + 1 /\ c = chan OBVIOUS
    <3>3. Did(1, j, u, c) BY <1>1, <2>4, <2>9, <3>1, <3>2, CloseDoes
    <3> QED BY <2>7, <2>9, <3>2, <3>3
  <2>10. CASE x \in {"pipe_test_child", "sigpipe_b_child"}
    <3>1. i \in {1, 2} /\ Reading(t, "p0") BY <2>1, <2>4, <2>10 DEF FedChild
    <3>2. /\ {1, 2} \subseteq DOMAIN b /\ b[1].op = "close" /\ b[1].f = "p1"
          /\ b[2].op = "read" /\ b[2].f = "p0"
      BY <2>4, <2>10, FedSteps
    <3>3. CASE i = 1
      <4>1. s.op = "close" /\ s.f = "p1" /\ Pc(1) = i BY <2>5, <3>2, <3>3
      <4>2. PICK u : u = Without(t, s.f) OBVIOUS
      <4>3. Reading(u, "p0") BY <3>1, <4>1, <4>2, StillReading
      <4>4. FedChild(x, i + 1, u) BY <2>10, <3>3, <4>3 DEF FedChild
      <4> QED BY <2>9, <4>1, <4>2, <4>4
    <3>4. CASE i = 2
      <4>1. s.op = "read" /\ s.f = "p0" BY <2>5, <3>2, <3>4
      <4> QED BY <2>8, <3>1, <4>1
    <3> QED BY <3>1, <3>3, <3>4
  <2>11. CASE x = "popen_child"
    <3>1. /\ {1, 2, 3, 4} \subseteq DOMAIN b
          /\ b[1].op = "dup2" /\ b[1].f = "p0" /\ b[1].g = "in"
          /\ b[2].op = "close" /\ b[2].f = "p0" /\ b[3].op = "close" /\ b[3].f = "p1"
          /\ b[4].op = "exec" /\ b[4].images = {"A"}
      BY <2>4, <2>11, FedSteps
    <3>2. \/ i = 1 /\ Reading(t, "p0")
          \/ i \in {2, 3, 4} /\ Reading(t, "in")
      BY <2>1, <2>4, <2>11 DEF FedChild
    <3>3. CASE i = 1
      <4>1. s.op = "dup2" /\ s.f = "p0" /\ s.g = "in" /\ Pc(1) = i BY <2>5, <3>1, <3>3
      <4>2. DoDup2(1, s) BY <1>1, <2>4, <4>1, StepIs
      <4>3. Reading(t, "p0") BY <3>2, <3>3
      <4>4. PICK j, c, u : j = Pc(1) + 1 /\ c = chan /\ u = With(t, "in", t["p0"]) OBVIOUS
      <4>5. Did(1, j, u, c)
        BY <1>1, <2>4, <4>1, <4>2, <4>3, <4>4, Dup2Does DEF Reading
      <4>6. Reading(u, "in") BY <4>3, <4>4 DEF Reading, With
      <4>7. FedChild(x, j, u) BY <2>11, <3>3, <4>1, <4>4, <4>6 DEF FedChild
      <4> QED BY <2>7, <4>4, <4>5, <4>7
    <3>4. CASE i \in {2, 3}
      <4>1. s.op = "close" /\ s.f \in {"p0", "p1"} /\ Pc(1) = i BY <2>5, <3>1, <3>4
      <4>2. PICK u : u = Without(t, s.f) OBVIOUS
      <4>3. Reading(u, "in") BY <3>2, <3>4, <4>1, <4>2, StillReading
      <4>4. FedChild(x, i + 1, u) BY <2>11, <3>4, <4>3 DEF FedChild
      <4> QED BY <2>9, <4>1, <4>2, <4>4
    <3>5. CASE i = 4
      <4>1. s.op = "exec" /\ s.images = {"A"} BY <2>5, <3>1, <3>5
      <4>2. DoExec(1, s) BY <1>1, <2>4, <4>1, StepIs
      <4>3. /\ proc' = [proc EXCEPT ![1].body = "A", ![1].pc = 1]
            /\ fds' = fds /\ chan' = chan
        BY <4>1, <4>2 DEF DoExec, UnchangedTables
      <4>4. PICK r, a : a = "A" /\ r = [proc[1] EXCEPT !.body = a, !.pc = 1] OBVIOUS
      <4>5. Rec(proc[1]) BY <1>1 DEF Recs
      <4>6. r.body = a /\ r.pc = 1 /\ r.life = proc[1].life BY <4>4, <4>5 DEF Rec
      <4>7. proc'[1] = r BY <1>1, <4>3, <4>4 DEF Recs
      <4>8. PICK c : c = chan OBVIOUS
      <4>9. FedChild(a, 1, t) BY <3>2, <3>5, <4>4 DEF FedChild
      <4>10. /\ chan' = c /\ proc'[1].life = "run" /\ fds'[1] = t /\ proc'[1].pc = 1
             /\ proc'[1].body = a
        BY <2>1, <2>4, <4>3, <4>6, <4>7, <4>8
      <4> QED BY <2>6, <4>8, <4>9, <4>10
    <3> QED BY <3>2, <3>3, <3>4, <3>5
  <2>12. CASE x = "A"
    <3>1. i = 1 /\ Reading(t, "in") BY <2>1, <2>4, <2>12 DEF FedChild
    <3>2. 1 \in DOMAIN b /\ b[1].op = "read" /\ b[1].f = "in" BY <2>4, <2>12, FedSteps
    <3>3. s.op = "read" /\ s.f = "in" BY <2>5, <3>1, <3>2
    <3> QED BY <2>8, <3>1, <3>3
  <2> QED BY <2>1, <2>4, <2>10, <2>11, <2>12 DEF FedChild
<1> QED BY <1>3, <1>5, <1>6

-----------------------------------------------------------------------------
(* The programs that count the children they reap. *)

\* The steps of a program that forks from step f on.
CountBody(b, f) ==
    /\ DOMAIN b = 1 .. Children + 2
    /\ \A i \in f .. f + Children - 1 : b[i].op = "fork" /\ b[i].child = "worker"
    /\ b[f + Children].n = Children
    /\ f = 2 => /\ b[1].op = "signal" /\ b[1].s = "CHLD" /\ b[1].h = "reap"
                /\ b[f + Children].op = "until"
    /\ f = 1 => /\ b[f + Children].op = "poll"
                /\ b[Children + 2].op = "write" /\ b[Children + 2].f = "out"

\* five_children.c and multi-process.cpp have this form.
LEMMA CountBodies ==
    ASSUME prog \in Counting
    PROVE  /\ CountBody(Bodies[prog], First) /\ First \in {1, 2}
           /\ First = 2 <=> prog = "five_children"
<1>1. PICK y : y = [i \in 1 .. Children |-> Fork("worker", "go on")] OBVIOUS
<1>2. Children \in Nat /\ Children >= 1 BY ChildrenAssumption
<1>3. \A i \in 1 .. Children : y[i].op = "fork" /\ y[i].child = "worker" BY <1>1 DEF Fork
<1>4. CASE prog = "five_children"
  <2>1. PICK x, z, S :
          /\ x = << Signal("CHLD", "reap") >> /\ z = << Until(Children) >>
          /\ x \in Seq(S) /\ Len(x) = 1 /\ z \in Seq(S) /\ Len(z) = 1
          /\ y \in Seq(S) /\ Len(y) = Children
    <3>1. PICK g, u, f : g = Signal("CHLD", "reap") /\ u = Until(Children)
                           /\ f = Fork("worker", "go on")
      OBVIOUS
    <3>2. PICK x, z, S : x = << g >> /\ z = << u >> /\ S = {g, u, f} OBVIOUS
    <3>3. y = [i \in 1 .. Children |-> f] BY <1>1, <3>1
    <3>4. x \in Seq(S) /\ Len(x) = 1 /\ z \in Seq(S) /\ Len(z) = 1 BY <3>2
    <3>5. y \in Seq(S) /\ Len(y) = Children BY <1>2, <3>2, <3>3
    <3> QED BY <3>1, <3>2, <3>4, <3>5
  <2>2. x \in Seq(S) /\ Len(x) = 1 /\ z \in Seq(S) /\ Len(z) = 1 BY <2>1
  <2>3. y \in Seq(S) /\ Len(y) = Children BY <2>1
  <2>4. x[1].op = "signal" /\ x[1].s = "CHLD" /\ x[1].h = "reap" BY <2>1 DEF Signal
  <2>5. z[1].op = "until" /\ z[1].n = Children BY <2>1 DEF Until
  <2>6. PICK xy : xy = x \o y OBVIOUS
  <2>7. Joint(S, x, y, xy) BY <2>2, <2>3, <2>6, JoinedAs
  <2>8. xy \in Seq(S) /\ Len(xy) = Children + 1 BY <1>2, <2>2, <2>3, <2>7 DEF Joint
  <2>9. PICK b : b = xy \o z OBVIOUS
  <2>10. Joint(S, xy, z, b) BY <2>2, <2>8, <2>9, JoinedAs
  <2>11. b = Bodies[prog]
    <3>1. five_children = (x \o y) \o z BY <1>1, <2>1 DEF five_children
    <3>2. Bodies[prog] = five_children BY <1>4 DEF Bodies
    <3> QED BY <2>6, <2>9, <3>1, <3>2
  <2>12. DOMAIN b = 1 .. Children + 2 BY <1>2, <2>2, <2>8, <2>10 DEF Joint
  <2>13. b[1] = x[1] /\ b[Children + 2] = z[1]
    <3>1. \A i \in 1 .. Children + 1 : b[i] = xy[i] BY <2>8, <2>10 DEF Joint
    <3>2. 1 \in 1 .. Children + 1 /\ xy[1] = x[1] BY <1>2, <2>2, <2>7 DEF Joint
    <3>3. b[Children + 1 + 1] = z[1] BY <2>2, <2>8, <2>10 DEF Joint
    <3>4. Children + 1 + 1 = Children + 2 BY <1>2
    <3> QED BY <3>1, <3>2, <3>3, <3>4
  <2>14. ASSUME NEW i \in 2 .. 2 + Children - 1 PROVE b[i].op = "fork" /\ b[i].child = "worker"
    <3>1. PICK j \in 1 .. Children : i = 1 + j
      <4>1. i - 1 \in 1 .. Children /\ i = 1 + (i - 1) BY <1>2
      <4> QED BY <4>1
    <3>2. xy[1 + j] = y[j] BY <2>2, <2>3, <2>7, <3>1 DEF Joint
    <3>3. i \in 1 .. Children + 1 BY <1>2
    <3>4. b[i] = xy[i] BY <2>8, <2>10, <3>3 DEF Joint
    <3> QED BY <1>3, <3>1, <3>2, <3>4
  <2>15. 2 + Children = Children + 2 BY <1>2
  <2>16. CountBody(b, 2) BY <2>4, <2>5, <2>12, <2>13, <2>14, <2>15 DEF CountBody
  <2>17. First = 2 BY <1>4 DEF First
  <2> QED BY <1>4, <2>11, <2>16, <2>17
<1>5. CASE prog = "multi_process"
  <2>1. PICK z, S :
          /\ z = << Poll(Children), Write("out", "total") >>
          /\ z \in Seq(S) /\ Len(z) = 2
          /\ y \in Seq(S) /\ Len(y) = Children
    <3>1. PICK g, u, f : g = Poll(Children) /\ u = Write("out", "total")
                           /\ f = Fork("worker", "go on")
      OBVIOUS
    <3>2. PICK z, S : z = << g, u >> /\ S = {g, u, f} OBVIOUS
    <3>3. y = [i \in 1 .. Children |-> f] BY <1>1, <3>1
    <3>4. z \in Seq(S) /\ Len(z) = 2 BY <3>2
    <3>5. y \in Seq(S) /\ Len(y) = Children BY <1>2, <3>2, <3>3
    <3> QED BY <3>1, <3>2, <3>4, <3>5
  <2>2. z \in Seq(S) /\ Len(z) = 2 BY <2>1
  <2>3. y \in Seq(S) /\ Len(y) = Children BY <2>1
  <2>4. z[1].op = "poll" /\ z[1].n = Children BY <2>1 DEF Poll
  <2>5. z[2].op = "write" /\ z[2].f = "out" BY <2>1 DEF Write
  <2>6. PICK b : b = y \o z OBVIOUS
  <2>7. Joint(S, y, z, b) BY <2>2, <2>3, <2>6, JoinedAs
  <2>8. b = Bodies[prog]
    <3>1. multi_process = y \o z BY <1>1, <2>1 DEF multi_process
    <3>2. Bodies[prog] = multi_process BY <1>5 DEF Bodies
    <3> QED BY <2>6, <3>1, <3>2
  <2>9. DOMAIN b = 1 .. Children + 2 BY <1>2, <2>2, <2>3, <2>7 DEF Joint
  <2>10. b[Children + 1] = z[1] /\ b[Children + 2] = z[2] BY <2>2, <2>3, <2>7 DEF Joint
  <2>11. \A i \in 1 .. 1 + Children - 1 : b[i].op = "fork" /\ b[i].child = "worker"
    <3>1. 1 .. 1 + Children - 1 = 1 .. Children BY <1>2
    <3>2. \A i \in 1 .. Children : b[i] = y[i] BY <2>3, <2>7 DEF Joint
    <3> QED BY <1>3, <3>1, <3>2
  <2>12. 1 + Children = Children + 1 BY <1>2
  <2>13. CountBody(b, 1) BY <2>4, <2>5, <2>9, <2>10, <2>11, <2>12 DEF CountBody
  <2>14. First = 1 BY <1>5 DEF First
  <2> QED BY <1>5, <2>8, <2>13, <2>14
<1> QED BY <1>4, <1>5 DEF Counting

\* The count is a number of children, and they are all reaped when it is complete.
LEMMA CountIs ==
    ASSUME forks \in Nat, count = Cardinality(Reaped)
    PROVE  /\ count \in Nat /\ count <= forks /\ IsFiniteSet(Reaped)
           /\ count = forks => \A c \in 1 .. forks : Gone(c)
<1>1. PICK S, T : S = 1 .. forks /\ T = Reaped OBVIOUS
<1>2. IsFiniteSet(S) /\ Cardinality(S) = forks
  <2>1. /\ IsFiniteSet(1 .. forks)
        /\ Cardinality(1 .. forks) = IF 1 > forks THEN 0 ELSE forks - 1 + 1
    BY FS_Interval
  <2> QED BY <1>1, <2>1
<1>3. T \in SUBSET S BY <1>1 DEF Reaped
<1>4. /\ IsFiniteSet(T) /\ Cardinality(T) <= Cardinality(S)
      /\ Cardinality(S) = Cardinality(T) => S = T
  BY <1>2, <1>3, FS_Subset
<1>5. Cardinality(T) \in Nat BY <1>4, FS_CardinalityType
<1> QED BY <1>1, <1>2, <1>4, <1>5 DEF Reaped

\* Reaping one more child counts one more.
LEMMA CountOne ==
    ASSUME forks \in Nat, count = Cardinality(Reaped), NEW c \in Zombies,
           Reaped' = Reaped \cup {c}
    PROVE  Cardinality(Reaped') = count + 1
<1>1. PICK T : T = Reaped OBVIOUS
<1>2. IsFiniteSet(T) BY <1>1, CountIs
<1>3. c \notin T BY <1>1 DEF Zombies, Reaped, Gone
<1>4. Cardinality(T \cup {c}) = Cardinality(T) + 1 BY <1>2, <1>3, FS_AddElement
<1> QED BY <1>1, <1>4

\* The counting part of the invariant after a step, from its parts.
LEMMA CountingBecomes ==
    ASSUME prog \in Counting, prog' = prog, NEW x, NEW n, NEW f, NEW a,
           f = First, a = proc'[0].action["CHLD"],
           proc'[0].pc = x, x \in 1 .. Children + 3, forks' = Created(x, f),
           prog = "five_children" /\ x >= 2 => a = "reap",
           prog = "five_children" /\ x < 2 => a = "default",
           count' = n, Cardinality(Reaped') = n,
           Notified(proc[0].pending, proc[0].handling)',
           x > f + Children => n = Children
    PROVE  ReapCounting'
<1>1. First' = f BY DEF First
<1> QED BY <1>1 DEF ReapCounting

\* A step of the main process that neither forks nor reaps.
LEMMA CountGoes ==
    ASSUME prog \in Counting, prog \in Reaping, ReapBase, proc[0].life = "run",
           NEW x, NEW a, a = proc'[0].action["CHLD"],
           MainGoes(x), x \in 1 .. Children + 3, forks = Created(x, First),
           prog = "five_children" /\ x >= 2 => a = "reap",
           prog = "five_children" /\ x < 2 => a = "default",
           x > First + Children => count = Children
    PROVE  ReapBase'
<1>1. ReapProcesses' /\ ReapTerminal' /\ ReapAll' /\ UNCHANGED << prog, forks, count >>
  BY MainGoesOn
<1>2. /\ proc'[0].pc = x /\ proc'[0].pending = proc[0].pending
      /\ proc'[0].handling = proc[0].handling
  BY DEF MainGoes
<1>3. \A c \in 1 .. forks : proc'[c] = proc[c]
  <2>1. \A q \in Procs : q # 0 => proc'[q] = proc[q] BY DEF MainGoes, Only
  <2>2. \A c \in 1 .. forks : c \in Procs /\ c # 0 BY DEF ReapBase, ReapProcesses
  <2> QED BY <2>1, <2>2
<1>4. Zombies' = Zombies /\ Reaped' = Reaped BY <1>1, <1>3 DEF Zombies, Reaped, Gone
<1>5. ReapCounting BY DEF ReapBase
<1>6. Notified(proc[0].pending, proc[0].handling)'
  BY <1>2, <1>4, <1>5 DEF ReapCounting, Notified
<1>7. PICK n, f : n = count /\ f = First OBVIOUS
<1>8. count' = n /\ Cardinality(Reaped') = n BY <1>1, <1>4, <1>5, <1>7 DEF ReapCounting
<1>9. forks' = Created(x, f) BY <1>1, <1>7
<1>10. ReapCounting' BY <1>1, <1>2, <1>6, <1>7, <1>8, <1>9, CountingBecomes
<1> QED BY <1>1, <1>10 DEF ReapBase

\* The main process, or its handler, reaps one child and counts it.
LEMMA CountReaps ==
    ASSUME prog \in Counting, prog \in Reaping, ReapBase, proc[0].life = "run",
           NEW c \in Zombies, NEW x, Reaps(c, x, FALSE), count' = count + 1,
           x \in 1 .. Children + 3, forks = Created(x, First),
           prog = "five_children" => x = proc[0].pc,
           proc[0].pending # {} => \E d \in Zombies : d # c,
           x > First + Children => count + 1 = Children
    PROVE  ReapBase'
<1>1. c \in 1 .. forks BY DEF Zombies
<1>2. ReapProcesses' /\ ReapTerminal' /\ ReapAll' BY <1>1, MainReaps
<1>3. /\ proc'[0].pc = x /\ proc'[0].pending = proc[0].pending
      /\ proc'[0].handling = FALSE /\ proc'[0].action = proc[0].action
      /\ proc'[c].life = "gone" /\ UNCHANGED << prog, forks >>
  BY DEF Reaps
<1>4. \A d \in 1 .. forks : d # c => proc'[d] = proc[d]
  <2>1. \A q \in Procs : q # 0 /\ q # c => proc'[q] = proc[q] BY DEF Reaps
  <2>2. \A d \in 1 .. forks : d \in Procs /\ d # 0 BY DEF ReapBase, ReapProcesses
  <2> QED BY <2>1, <2>2
<1>5. Zombies' = Zombies \ {c} /\ Reaped' = Reaped \cup {c}
  BY <1>1, <1>3, <1>4 DEF Zombies, Reaped, Gone
<1>6. ReapCounting /\ forks \in Nat BY DEF ReapBase, ReapProcesses
<1>7. PICK pe : pe = proc[0].pending OBVIOUS
<1>8. pe \subseteq {"CHLD"} /\ (pe # {} => Zombies' # {})
  BY <1>5, <1>6, <1>7 DEF ReapCounting, Notified
<1>9. Notified(proc[0].pending, proc[0].handling)' BY <1>3, <1>7, <1>8 DEF Notified
<1>10. PICK n, f, a : n = count + 1 /\ f = First /\ a = proc'[0].action["CHLD"] OBVIOUS
<1>11. Cardinality(Reaped') = n BY <1>5, <1>6, <1>10, CountOne DEF ReapCounting
<1>12. /\ prog = "five_children" /\ x >= 2 => a = "reap"
       /\ prog = "five_children" /\ x < 2 => a = "default"
  BY <1>3, <1>6, <1>10 DEF ReapCounting
<1>13. forks' = Created(x, f) /\ count' = n /\ (x > f + Children => n = Children)
  BY <1>3, <1>10
<1>14. ReapCounting' BY <1>3, <1>9, <1>10, <1>11, <1>12, <1>13, CountingBecomes
<1> QED BY <1>2, <1>3, <1>14 DEF ReapBase

\* The main process creates one more child.
LEMMA CountForks ==
    ASSUME prog \in Counting, prog \in Reaping, ReapBase, proc[0].life = "run",
           NEW c, c = forks + 1, c \in Procs, NEW x, Forks(c, "worker", x),
           x \in 1 .. Children + 3, c = Created(x, First), x <= First + Children,
           First \in Nat, x >= 2 /\ proc[0].pc >= First
    PROVE  ReapBase'
<1>1. ReapProcesses' /\ ReapTerminal' /\ ReapAll'
  <2>1. "worker" \in ChildBodies BY DEF ChildBodies
  <2> QED BY <2>1, MainForks
<1>2. /\ proc'[0].pc = x /\ proc'[0].pending = proc[0].pending
      /\ proc'[0].handling = proc[0].handling /\ proc'[0].action = proc[0].action
      /\ proc'[c].life = "run" /\ forks' = c /\ UNCHANGED << prog, count >>
  BY DEF Forks
<1>3. forks \in Nat /\ ReapCounting BY DEF ReapBase, ReapProcesses
<1>4. 1 .. forks' = (1 .. forks) \cup {c} /\ c \notin 1 .. forks BY <1>2, <1>3
<1>5. \A d \in 1 .. forks : proc'[d] = proc[d]
  <2>1. \A q \in Procs : q # 0 /\ q # c => proc'[q] = proc[q] BY DEF Forks
  <2>2. \A d \in 1 .. forks : d \in Procs /\ d # 0 BY DEF ReapBase, ReapProcesses
  <2> QED BY <1>4, <2>1, <2>2
<1>6. Zombies' = Zombies /\ Reaped' = Reaped
  BY <1>2, <1>4, <1>5 DEF Zombies, Reaped, Gone
<1>7. Notified(proc[0].pending, proc[0].handling)'
  BY <1>2, <1>3, <1>6 DEF ReapCounting, Notified
<1>8. PICK n, f, a : n = count /\ f = First /\ a = proc'[0].action["CHLD"] OBVIOUS
<1>9. count' = n /\ Cardinality(Reaped') = n BY <1>2, <1>3, <1>6, <1>8 DEF ReapCounting
<1>10. /\ prog = "five_children" /\ x >= 2 => a = "reap"
       /\ prog = "five_children" /\ x < 2 => a = "default"
  BY <1>2, <1>3, <1>8 DEF ReapCounting, First
<1>11. forks' = Created(x, f) /\ (x > f + Children => n = Children)
  BY <1>2, <1>8, ChildrenAssumption
<1>12. ReapCounting' BY <1>2, <1>7, <1>8, <1>9, <1>10, <1>11, CountingBecomes
<1> QED BY <1>1, <1>2, <1>12 DEF ReapBase

\* Where a main process that counts its children is: it forks from step f on.
CountPlace(b, f, i) ==
    \/ i = Children + 3
    \/ f = 2 /\ i = 1 /\ b[i].op = "signal" /\ b[i].s = "CHLD" /\ b[i].h = "reap"
    \/ i \in f .. f + Children - 1 /\ b[i].op = "fork" /\ b[i].child = "worker"
    \/ f = 2 /\ i = f + Children /\ b[i].op = "until" /\ b[i].n = Children
    \/ f = 1 /\ i = f + Children /\ b[i].op = "poll" /\ b[i].n = Children
    \/ f = 1 /\ i = Children + 2 /\ b[i].op = "write" /\ b[i].f = "out"

\* Such a process is at one of these places.
LEMMA CountAt ==
    ASSUME prog \in Counting, ReapProcesses, ReapCounting, NEW b, NEW f, NEW i, NEW s,
           b = Bodies[prog], f = First, i = proc[0].pc, s = Now(0)
    PROVE  /\ CountPlace(b, f, i) /\ f \in {1, 2} /\ (f = 2 <=> prog = "five_children")
           /\ Pc(0) = i
           /\ i = Children + 3 => s.op = "end"
           /\ i # Children + 3 => s = b[i]
<1>1. CountBody(b, f) /\ f \in {1, 2} /\ (f = 2 <=> prog = "five_children") BY CountBodies
<1>2. Children \in Nat /\ Children >= 1 BY ChildrenAssumption
<1>3. i \in 1 .. Children + 3 BY DEF ReapCounting
<1>4. DOMAIN b = 1 .. Children + 2 BY <1>1 DEF CountBody
<1>5. Body(0) = b BY DEF Body, ReapProcesses
<1>6. i \in f .. f + Children - 1 => b[i].op = "fork" /\ b[i].child = "worker"
  BY <1>1 DEF CountBody
<1>7. \/ i = Children + 3 \/ (f = 2 /\ i = 1) \/ i \in f .. f + Children - 1
      \/ i = f + Children \/ (f = 1 /\ i = Children + 2)
  BY <1>1, <1>2, <1>3
<1>8. CountPlace(b, f, i)
  <2>1. CASE i = f + Children BY <1>1, <2>1 DEF CountBody, CountPlace
  <2>2. CASE f = 2 /\ i = 1 BY <1>1, <2>2 DEF CountBody, CountPlace
  <2>3. CASE f = 1 /\ i = Children + 2 BY <1>1, <2>3 DEF CountBody, CountPlace
  <2> QED BY <1>6, <1>7, <2>1, <2>2, <2>3 DEF CountPlace
<1>9. i \in DOMAIN b <=> i # Children + 3 BY <1>2, <1>3, <1>4
<1>10. i \in DOMAIN b => b[i].op # "goto" BY <1>8, <1>9 DEF CountPlace
<1>11. Pc(0) = i BY <1>5, <1>10 DEF Pc
<1>12. /\ i = Children + 3 => s.op = "end"
       /\ i # Children + 3 => s = b[i]
  BY <1>5, <1>9, <1>11 DEF Now
<1> QED BY <1>1, <1>8, <1>11, <1>12

\* A main process that counts its children takes a step.
LEMMA CountingStep ==
    ASSUME prog \in Counting, prog \in Reaping, ReapBase, Step(0), ~failed'
    PROVE  ReapBase' /\ failed' = failed
<1>1. ~Threaded /\ ~Datagrams BY DEF Threaded, Datagrams, Reaping, Pipelines
<1>2. /\ 0 \in Procs /\ Recs /\ DOMAIN fds = Procs /\ forks \in Nat
      /\ 1 .. forks \subseteq Procs /\ ReapCounting /\ ReapProcesses /\ ReapTerminal
  BY ProcsHas DEF ReapBase, ReapProcesses
<1>3. PICK b, f, i, s : b = Bodies[prog] /\ f = First /\ i = proc[0].pc /\ s = Now(0) OBVIOUS
<1>4. CountPlace(b, f, i) /\ f \in {1, 2} /\ (f = 2 <=> prog = "five_children")
  BY <1>2, <1>3, CountAt
<1>5. Children \in Nat /\ Children >= 1 BY ChildrenAssumption
<1>6. i \in 1 .. Children + 3 /\ forks = Created(i, f) /\ (i > f + Children => count = Children)
  BY <1>2, <1>3 DEF ReapCounting
<1>7. proc[0].life = "run" BY <1>2, StepIs DEF Running
<1>8. /\ Pc(0) = i
      /\ i = Children + 3 => s.op = "end"
      /\ i # Children + 3 => s = b[i]
  BY <1>2, <1>3, CountAt
<1>9. count = Cardinality(Reaped) BY <1>2 DEF ReapCounting
<1>10. count \in Nat /\ count <= forks BY <1>2, <1>9, CountIs
<1>11. CASE i = Children + 3
  <2>1. Finish(0) BY <1>2, <1>3, <1>8, <1>11, StepIs
  <2>2. Ends(0) BY <1>1, <1>2, <2>1, Ending
  <2>3. count = Children BY <1>4, <1>5, <1>6, <1>11
  <2>4. forks = Children BY <1>4, <1>5, <1>6, <1>11 DEF Created
  <2>5. \A c \in 1 .. forks : Gone(c) BY <1>2, <1>9, <2>3, <2>4, CountIs
  <2> QED BY <2>1, <2>2, <2>5, BaseMainEnds DEF Finish
<1>12. CASE f = 2 /\ i = 1 /\ b[i].op = "signal" /\ b[i].s = "CHLD" /\ b[i].h = "reap"
  <2>1. s.op = "signal" /\ s.s = "CHLD" /\ s.h = "reap" BY <1>5, <1>8, <1>12
  <2>2. DoSignal(0, s) BY <1>2, <1>3, <2>1, StepIs
  <2>3. /\ proc' = [proc EXCEPT ![0].pc = 2, ![0].action["CHLD"] = "reap"]
        /\ UNCHANGED << prog, fds, forks, count, timer, aio, failed >>
    <3>1. Pc(0) + 1 = 2 BY <1>8, <1>12
    <3> QED BY <2>1, <2>2, <3>1 DEF DoSignal, UnchangedTables, UnchangedOther
  <2>4. PICK a : a = [proc[0].action EXCEPT !["CHLD"] = "reap"] OBVIOUS
  <2>5. DOMAIN a = DOMAIN proc[0].action /\ a["CHLD"] = "reap"
    <3>1. DOMAIN proc[0].action = Signals /\ "CHLD" \in Signals
      BY <1>2 DEF ReapProcesses, Signals
    <3> QED BY <2>4, <3>1
  <2>6. PICK r : r = [proc[0] EXCEPT !.pc = 2, !.action = a] OBVIOUS
  <2>7. Rec(proc[0]) BY <1>2 DEF Recs
  <2>8. proc' = [proc EXCEPT ![0] = r] BY <1>2, <2>3, <2>4, <2>6, <2>7 DEF Recs, Rec
  <2>9. /\ Rec(r) /\ r.pc = 2 /\ r.body = proc[0].body /\ r.life = proc[0].life
        /\ r.handling = proc[0].handling /\ r.pending = proc[0].pending
        /\ r.masked = proc[0].masked /\ r.action = a
    BY <2>6, <2>7 DEF Rec
  <2>10. Recs' /\ Only(0) /\ proc'[0] = r BY <1>2, <2>8, <2>9, UpdateOne
  <2>11. MainGoes(2) BY <1>2, <1>4, <1>12, <2>3, <2>5, <2>9, <2>10 DEF MainGoes
  <2>12. forks = Created(2, f)
    <3>1. forks = 0 BY <1>6, <1>12 DEF Created
    <3> QED BY <1>5, <1>12, <3>1 DEF Created
  <2>13. PICK e : e = proc'[0].action["CHLD"] OBVIOUS
  <2>14. e = "reap" BY <2>5, <2>9, <2>10, <2>13
  <2>15. 2 \in 1 .. Children + 3 /\ ~(2 > f + Children) BY <1>5, <1>12
  <2>16. ReapBase' BY <1>3, <1>7, <2>11, <2>12, <2>13, <2>14, <2>15, CountGoes
  <2> QED BY <2>3, <2>16
<1>13. CASE i \in f .. f + Children - 1 /\ b[i].op = "fork" /\ b[i].child = "worker"
  <2>1. s.op = "fork" /\ s.child = "worker" BY <1>4, <1>5, <1>8, <1>13
  <2>2. DoFork(0, s) BY <1>2, <1>3, <2>1, StepIs
  <2>3. PICK c, x : c = forks + 1 /\ x = i + 1 OBVIOUS
  <2>4. forks = i - f BY <1>4, <1>5, <1>6, <1>13 DEF Created
  <2>5. c \in 0 .. Children BY <1>4, <1>5, <1>13, <2>3, <2>4
  <2>6. c \in Procs BY <2>5, ProcsHas
  <2>7. Forks(c, "worker", x) BY <1>2, <1>8, <2>1, <2>2, <2>3, <2>6, ForkDoes
  <2>8. c = Created(x, f) BY <1>4, <1>5, <1>13, <2>3, <2>4 DEF Created
  <2>9. /\ x \in 1 .. Children + 3 /\ x <= f + Children /\ f \in Nat /\ x >= 2 /\ i >= f
    BY <1>4, <1>5, <1>13, <2>3
  <2>10. ReapBase' BY <1>3, <1>7, <2>3, <2>6, <2>7, <2>8, <2>9, CountForks
  <2> QED BY <2>7, <2>10 DEF Forks
<1>14. CASE f = 2 /\ i = f + Children /\ b[i].op = "until" /\ b[i].n = Children
  <2>1. s.op = "until" /\ s.n = Children BY <1>5, <1>8, <1>14
  <2>2. DoUntil(0, s) BY <1>2, <1>3, <2>1, StepIs
  <2>3. PICK x, t, c : x = i + 1 /\ t = fds[0] /\ c = chan OBVIOUS
  <2>4. Did(0, x, t, c) /\ count >= Children BY <1>2, <1>8, <2>1, <2>2, <2>3, UntilDoes
  <2>5. MainGoes(x) /\ failed' = failed BY <2>3, <2>4, DidMain
  <2>6. proc'[0].action = proc[0].action BY <2>4 DEF Did, Kept
  <2>7. forks = Children BY <1>5, <1>6, <1>14 DEF Created
  <2>8. forks = Created(x, f) BY <1>5, <1>14, <2>3, <2>7 DEF Created
  <2>9. count = Children BY <1>5, <1>10, <2>4, <2>7
  <2>10. PICK e : e = proc'[0].action["CHLD"] OBVIOUS
  <2>11. e = "reap" BY <1>2, <1>3, <1>4, <1>5, <1>14, <2>6, <2>10 DEF ReapCounting
  <2>12. x \in 1 .. Children + 3 /\ x >= 2 BY <1>5, <1>14, <2>3
  <2>13. ReapBase' BY <1>3, <1>7, <2>5, <2>8, <2>9, <2>10, <2>11, <2>12, CountGoes
  <2> QED BY <2>5, <2>13
<1>15. CASE f = 1 /\ i = f + Children /\ b[i].op = "poll" /\ b[i].n = Children
  <2>1. s.op = "poll" /\ s.n = Children BY <1>5, <1>8, <1>15
  <2>2. DoPoll(0, s) BY <1>2, <1>3, <2>1, StepIs
  <2>3. PICK x : x = IF count + 1 = Children THEN i + 1 ELSE i OBVIOUS
  <2>4. PICK c \in Zombies : proc' = [proc EXCEPT ![c].life = "gone", ![0].pc = x]
    <3>1. PICK c \in Zombies :
            proc' = [proc EXCEPT ![c].life = "gone",
                                 ![0].pc = IF count + 1 = s.n THEN Pc(0) + 1 ELSE @]
      BY <2>2 DEF DoPoll
    <3>2. c # 0 BY DEF Zombies
    <3> QED BY <1>2, <1>3, <1>8, <2>1, <2>3, <3>1, <3>2 DEF Recs
  <2>5. UNCHANGED << prog, fds, chan, forks, timer, aio, failed >> /\ count' = count + 1
    BY <2>2 DEF DoPoll, UnchangedTables
  <2>6. c \in Procs /\ c # 0 BY <1>2 DEF Zombies
  <2>7. PICK r : r = [proc[0] EXCEPT !.pc = x] OBVIOUS
  <2>8. Rec(proc[0]) BY <1>2 DEF Recs
  <2>9. proc' = [proc EXCEPT ![0] = r, ![c].life = "gone"] BY <1>2, <2>4, <2>6, <2>7 DEF Recs
  <2>10. proc[0].handling = FALSE /\ proc[0].pending = {} BY <1>2, <1>4, <1>15 DEF ReapProcesses
  <2>11. /\ Rec(r) /\ r.pc = x /\ r.body = proc[0].body /\ r.life = proc[0].life
         /\ r.handling = FALSE /\ r.pending = proc[0].pending
         /\ r.masked = proc[0].masked /\ r.action = proc[0].action
    BY <2>7, <2>8, <2>10 DEF Rec
  <2>12. Reaps(c, x, FALSE) BY <1>2, <2>5, <2>6, <2>9, <2>11, ReapEffect
  <2>13. forks = Children BY <1>5, <1>6, <1>15 DEF Created
  <2>14. forks = Created(x, f) BY <1>5, <1>15, <2>3, <2>13 DEF Created
  <2>15. x \in 1 .. Children + 3 /\ (x > f + Children => count + 1 = Children)
    BY <1>5, <1>15, <2>3
  <2>16. /\ forks = Created(x, First) /\ (x > First + Children => count + 1 = Children)
         /\ prog # "five_children" /\ count' = count + 1
    BY <1>3, <1>4, <1>15, <2>5, <2>14, <2>15
  <2>17. ReapBase' BY <1>7, <2>10, <2>12, <2>15, <2>16, CountReaps
  <2> QED BY <2>5, <2>17
<1>16. CASE f = 1 /\ i = Children + 2 /\ b[i].op = "write" /\ b[i].f = "out"
  <2>1. s.op = "write" /\ s.f = "out" BY <1>5, <1>8, <1>16
  <2>2. Quiet(s) BY <2>1 DEF Quiet
  <2>3. PICK x : x = i + 1 OBVIOUS
  <2>4. MainGoes(x) /\ failed' = failed BY <1>2, <1>3, <1>8, <2>2, <2>3, QuietStep
  <2>5. forks = Children BY <1>5, <1>6, <1>16 DEF Created
  <2>6. forks = Created(x, f) BY <1>5, <1>16, <2>3, <2>5 DEF Created
  <2>7. x \in 1 .. Children + 3 /\ count = Children BY <1>5, <1>6, <1>16, <2>3
  <2>8. PICK e : e = proc'[0].action["CHLD"] OBVIOUS
  <2>9. ReapBase' BY <1>3, <1>4, <1>7, <1>16, <2>4, <2>6, <2>7, <2>8, CountGoes
  <2> QED BY <2>4, <2>9
<1> QED BY <1>4, <1>11, <1>12, <1>13, <1>14, <1>15, <1>16 DEF CountPlace

\* SIGCHLD is delivered: the handler of five_children.c starts.
LEMMA CountingDeliver ==
    ASSUME prog \in Reaping, ReapBase, NEW p \in Procs, Deliver(p)
    PROVE  ReapBase' /\ prog \in Counting /\ failed' = failed
<1>1. /\ Recs /\ DOMAIN fds = Procs /\ forks \in Nat /\ 0 \in Procs
      /\ proc[p].masked = {} /\ 1 .. forks \subseteq Procs
  BY ProcsHas DEF ReapBase, ReapProcesses
<1>2. PICK g \in proc[p].pending : g \in Deliverable(p) BY DEF Deliver, Deliverable
<1>3. p = 0 /\ prog = "five_children"
  <2>1. proc[p].pending # {} BY <1>2
  <2>2. p = 0 BY <2>1 DEF ReapBase, ReapProcesses
  <2> QED BY <2>1, <2>2 DEF ReapBase, ReapProcesses
<1>4. prog \in Counting /\ ReapCounting BY <1>3 DEF Counting, ReapBase
<1>5. PICK pe : pe = proc[0].pending OBVIOUS
<1>6. pe = {"CHLD"} /\ Zombies # {}
  <2>1. pe \subseteq {"CHLD"} /\ (pe # {} => Zombies # {})
    BY <1>4, <1>5 DEF ReapCounting, Notified
  <2> QED BY <1>2, <1>3, <1>5, <2>1
<1>7. proc[0].action["CHLD"] = "reap"
  <2>1. forks # 0
    <3>1. PICK c : c \in 1 .. forks BY <1>6 DEF Zombies
    <3> QED BY <1>1, <3>1
  <2>2. First = 2 BY <1>3 DEF First
  <2>3. proc[0].pc \in 1 .. Children + 3 /\ forks = Created(proc[0].pc, First)
    BY <1>4 DEF ReapCounting
  <2>4. ~(proc[0].pc < 2) BY <2>1, <2>2, <2>3 DEF Created
  <2>5. proc[0].pc >= 2 BY <2>3, <2>4, ChildrenAssumption
  <2> QED BY <1>3, <1>4, <2>5 DEF ReapCounting
<1>8. /\ proc[0].life = "run" /\ ~proc[0].handling
      /\ proc' = [[proc EXCEPT ![0].pending = @ \ {"CHLD"}] EXCEPT ![0].handling = TRUE]
      /\ UnchangedTables /\ UnchangedOther
  <2>1. \A y \in Deliverable(0) : y = "CHLD" BY <1>5, <1>6 DEF Deliverable
  <2> QED BY <1>3, <1>7, <2>1 DEF Deliver
<1>9. PICK r : r = [proc[0] EXCEPT !.pending = {}, !.handling = TRUE] OBVIOUS
<1>10. Rec(proc[0]) BY <1>1 DEF Recs
<1>11. proc' = [proc EXCEPT ![0] = r]
  <2>1. proc[0].pending \ {"CHLD"} = {} BY <1>5, <1>6
  <2>2. PICK v : v = proc[0].pending \ {"CHLD"} OBVIOUS
  <2>3. proc' = [[proc EXCEPT ![0].pending = v] EXCEPT ![0].handling = TRUE] BY <1>8, <2>2
  <2>4. r = [proc[0] EXCEPT !.pending = v, !.handling = TRUE] BY <1>9, <2>1, <2>2
  <2> QED BY <1>1, <1>10, <2>3, <2>4 DEF Recs, Rec
<1>12. /\ Rec(r) /\ r.pc = proc[0].pc /\ r.body = proc[0].body /\ r.life = proc[0].life
       /\ r.handling = TRUE /\ r.pending = {} /\ r.masked = proc[0].masked
       /\ r.action = proc[0].action
  BY <1>9, <1>10 DEF Rec
<1>13. Recs' /\ Only(0) /\ proc'[0] = r BY <1>1, <1>11, <1>12, UpdateOne
<1>14. UNCHANGED << prog, fds, forks, count, timer, aio, failed >>
  BY <1>8 DEF UnchangedTables, UnchangedOther
<1>15. \A q \in Procs : q # 0 => proc'[q] = proc[q] BY <1>13 DEF Only
<1>16. \A c \in 1 .. forks : proc'[c] = proc[c] /\ c \in Procs BY <1>1, <1>15
<1>17. ReapProcesses'
  <2>1. /\ timer' = "off" /\ aio' = "idle" /\ DOMAIN fds' = Procs
        /\ forks' \in Nat /\ 1 .. forks' \subseteq Procs
        /\ proc'[0].life \in {"run", "gone"} /\ proc'[0].body = prog'
        /\ DOMAIN proc'[0].action = Signals /\ proc[0].masked = {}
    BY <1>1, <1>12, <1>13, <1>14 DEF ReapBase, ReapProcesses
  <2>2. ASSUME NEW q \in Procs
        PROVE  /\ proc'[q].masked = {}
               /\ q # 0 => proc'[q].pending = {} /\ proc'[q].handling = FALSE
               /\ q \in 1 .. forks' => proc'[q].life \in {"run", "zombie", "gone"}
                                        /\ proc'[q].body \in ChildBodies
               /\ q \notin 0 .. forks' => proc'[q].life = "none"
    <3>1. CASE q = 0
      <4>1. 0 \notin 1 .. forks' /\ 0 \in 0 .. forks' BY <2>1
      <4> QED BY <1>12, <1>13, <2>1, <3>1, <4>1
    <3>2. CASE q # 0
      <4>1. proc'[q] = proc[q] /\ forks' = forks BY <1>14, <1>15, <3>2
      <4> QED BY <4>1 DEF ReapBase, ReapProcesses
    <3> QED BY <3>1, <3>2
  <2> QED BY <1>3, <1>13, <1>14, <2>1, <2>2 DEF ReapProcesses
<1>18. ReapTerminal' BY <1>12, <1>13, <1>14 DEF ReapBase, ReapTerminal
<1>19. ReapAll' BY <1>8, <1>12, <1>13 DEF ReapAll, Gone
<1>20. Notified(proc[0].pending, proc[0].handling)'
  <2>1. Zombies' = Zombies BY <1>14, <1>16 DEF Zombies
  <2> QED BY <1>6, <1>12, <1>13, <2>1 DEF Notified
<1>21. ReapCounting'
  <2>1. proc'[0].pc = proc[0].pc /\ proc'[0].action = proc[0].action BY <1>12, <1>13
  <2>2. \A c \in 1 .. forks : proc[c].life = "gone" <=> proc'[c].life = "gone" BY <1>16
  <2> QED BY <1>4, <1>14, <1>20, <2>1, <2>2, CountingStays
<1> QED BY <1>4, <1>14, <1>17, <1>18, <1>19, <1>21 DEF ReapBase

\* The handler finds a zombie, reaps it and counts it.
LEMMA CountingHandler ==
    ASSUME prog \in Reaping, ReapBase, NEW p \in Procs, HandlerReaps(p)
    PROVE  ReapBase' /\ prog \in Counting /\ failed' = failed
<1>1. /\ Recs /\ DOMAIN fds = Procs /\ forks \in Nat /\ 0 \in Procs
      /\ 1 .. forks \subseteq Procs
  BY ProcsHas DEF ReapBase, ReapProcesses
<1>2. proc[p].life = "run" /\ proc[p].handling BY DEF HandlerReaps
<1>3. p = 0 /\ prog = "five_children"
  <2>1. p = 0 BY <1>2 DEF ReapBase, ReapProcesses
  <2> QED BY <1>2, <2>1 DEF ReapBase, ReapProcesses
<1>4. prog \in Counting /\ ReapCounting BY <1>3 DEF Counting, ReapBase
<1>5. PICK pe, ha : pe = proc[0].pending /\ ha = proc[0].handling OBVIOUS
<1>6. Zombies # {} /\ (pe # {} => \E c, d \in Zombies : c # d)
  BY <1>2, <1>3, <1>4, <1>5 DEF ReapCounting, Notified
<1>7. HasChildren BY <1>6 DEF HasChildren, Zombies
<1>8. PICK c \in Zombies : proc' = [proc EXCEPT ![0].handling = FALSE, ![c].life = "gone"]
  BY <1>3, <1>7 DEF HandlerReaps
<1>9. UNCHANGED << prog, fds, chan, forks, timer, aio, failed >> /\ count' = count + 1
  BY DEF HandlerReaps, UnchangedTables
<1>10. c \in Procs /\ c # 0 BY <1>1 DEF Zombies
<1>11. PICK r, x : r = [proc[0] EXCEPT !.handling = FALSE] /\ x = proc[0].pc OBVIOUS
<1>12. Rec(proc[0]) BY <1>1 DEF Recs
<1>13. proc' = [proc EXCEPT ![0] = r, ![c].life = "gone"] BY <1>1, <1>8, <1>10, <1>11 DEF Recs
<1>14. /\ Rec(r) /\ r.pc = x /\ r.body = proc[0].body /\ r.life = proc[0].life
       /\ r.handling = FALSE /\ r.pending = proc[0].pending
       /\ r.masked = proc[0].masked /\ r.action = proc[0].action
  BY <1>11, <1>12 DEF Rec
<1>15. Reaps(c, x, FALSE) BY <1>1, <1>9, <1>10, <1>13, <1>14, ReapEffect
<1>16. x \in 1 .. Children + 3 /\ forks = Created(x, First) BY <1>4, <1>11 DEF ReapCounting
<1>17. ~(x > First + Children)
  <2> SUFFICES ASSUME x > First + Children PROVE FALSE OBVIOUS
  <2>1. count = Children BY <1>4, <1>11 DEF ReapCounting
  <2>2. First = 2 BY <1>3 DEF First
  <2>3. forks = Children BY <1>16, <2>2, ChildrenAssumption DEF Created
  <2>4. \A d \in 1 .. forks : Gone(d) BY <1>1, <1>4, <2>1, <2>3, CountIs DEF ReapCounting
  <2> QED BY <2>4 DEF Zombies, Gone
<1>18. proc[0].pending # {} => \E d \in Zombies : d # c BY <1>5, <1>6
<1>19. ReapBase'
  BY <1>2, <1>3, <1>4, <1>9, <1>11, <1>15, <1>16, <1>17, <1>18, CountReaps
<1> QED BY <1>4, <1>9, <1>19

-----------------------------------------------------------------------------
(* Nobody is left behind. *)

\* A call that failed is not forgotten.
LEMMA FailedStays == ASSUME [Next]_vars, ~failed' PROVE ~failed
<1>1. ASSUME NEW p \in Procs, FailAndExit(p) \/ Finish(p) \/ Sigpipe(p) PROVE ~failed
  BY <1>1 DEF FailAndExit, Finish, Sigpipe
<1>2. ASSUME NEW p \in Procs, Step(p) PROVE ~failed
  <2> DEFINE s == Now(p)
  <2>1. CASE Finish(p) BY <1>1, <2>1
  <2> HIDE DEF s
  <2>2. CASE DoFork(p, s) BY <1>1, <2>2 DEF DoFork
  <2>3. CASE DoSpawn(p, s) \/ DoExec(p, s) \/ DoWait(p, s) \/ DoPoll(p, s) \/ DoUntil(p, s)
    BY <2>3 DEF DoSpawn, DoExec, DoWait, DoPoll, DoUntil, UnchangedOther
  <2>4. CASE DoPipe(p, s) BY <1>1, <2>4 DEF DoPipe, UnchangedOther
  <2>5. CASE DoOpen(p, s) \/ DoClose(p, s) \/ DoDup2(p, s) \/ DoShutdown(p, s) \/ DoRead(p, s)
    BY <2>5 DEF DoOpen, DoClose, DoDup2, DoShutdown, DoRead, UnchangedOther
  <2>6. CASE DoWrite(p, s)
    BY <1>1, <2>6 DEF DoWrite, WriteTerminal, WritePipe, WriteDatagram, WriteSocket,
                      UnchangedOther
  <2>7. CASE DoConnect(p, s) BY <1>1, <2>7 DEF DoConnect, UnchangedOther
  <2>8. CASE DoSelect(p, s) \/ DoAccept(p, s) \/ DoControl(p, s) \/ DoSignal(p, s)
             \/ DoTimer(p, s)
    BY <2>8 DEF DoSelect, DoAccept, DoControl, DoSignal, DoTimer, UnchangedOther
  <2>9. CASE DoAioRead(p, s) BY <1>1, <2>9 DEF DoAioRead
  <2> QED
    BY <1>2, <2>1, <2>2, <2>3, <2>4, <2>5, <2>6, <2>7, <2>8, <2>9 DEF Step, s
<1>3. ASSUME NEW p \in Procs, Deliver(p) PROVE ~failed BY <1>3 DEF Deliver, UnchangedOther
<1>4. ASSUME NEW p \in Procs, HandlerReaps(p) \/ TypeLine(p) \/ Leave(p) PROVE ~failed
  BY <1>4 DEF HandlerReaps, TypeLine, Leave, UnchangedOther
<1>5. CASE Alarm \/ AioDone \/ AioNotify \/ SendSignal \/ LoseDatagram
  BY <1>5 DEF Alarm, AioDone, AioNotify, SendSignal, LoseDatagram, UnchangedOther
<1>6. CASE UNCHANGED vars BY <1>6 DEF vars
<1> QED BY <1>2, <1>3, <1>4, <1>5, <1>6 DEF Next

\* The programs that reap their children start alone.
LEMMA ReapInit == ASSUME Init, prog \in Reaping PROVE ReapBase /\ ReapFeeding
<1>1. 0 \in Procs BY ProcsHas
<1>2. PeersOf(prog) = << >> /\ ~Datagrams
  BY DEF Reaping, Pipelines, PeersOf, Datagrams
<1>3. PICK pr : pr = << >> OBVIOUS
<1>4. DOMAIN pr = {} BY <1>3
<1>5. proc = [p \in Procs |->
                 CASE p = 0 -> Start(prog)
                   [] p > 10 /\ p - 10 \in DOMAIN pr -> Start(pr[p - 10])
                   [] OTHER -> Absent]
  BY <1>2, <1>3 DEF Init
<1>6. proc[0] = Start(prog) BY <1>1, <1>5
<1>7. \A p \in Procs : p # 0 => proc[p] = Absent BY <1>4, <1>5
<1>8. Recs
  <2>1. DOMAIN proc = Procs BY <1>5
  <2>2. \A p \in Procs : Rec(proc[p]) BY <1>6, <1>7, StartIs
  <2> QED BY <2>1, <2>2 DEF Recs
<1>9. /\ proc[0].life = "run" /\ proc[0].body = prog /\ proc[0].pc = 1
      /\ proc[0].pending = {} /\ proc[0].handling = FALSE /\ proc[0].masked = {}
      /\ proc[0].action = [s \in Signals |-> "default"]
  BY <1>6 DEF Start
<1>10. DOMAIN proc[0].action = Signals /\ proc[0].action["CHLD"] = "default"
  BY <1>9 DEF Signals
<1>11. /\ Absent.life = "none" /\ Absent.pending = {} /\ Absent.handling = FALSE
       /\ Absent.masked = {}
  <2>1. PICK r : r = Start("worker") OBVIOUS
  <2>2. Absent = [r EXCEPT !.life = "none"] BY <2>1 DEF Absent
  <2>3. Rec(r) BY <2>1, StartIs
  <2>4. r.pending = {} /\ r.handling = FALSE /\ r.masked = {} BY <2>1 DEF Start
  <2> QED BY <2>2, <2>3, <2>4 DEF Rec
<1>12. /\ forks = 0 /\ count = 0 /\ timer = "off" /\ aio = "idle" /\ DOMAIN fds = Procs
       /\ fds[0] = InitTable(0)
  BY <1>1, <1>9 DEF Init
<1>13. 1 .. forks = {} BY <1>12
<1>14. ReapProcesses
  <2>1. ASSUME NEW p \in Procs
        PROVE  /\ proc[p].masked = {}
               /\ p # 0 => proc[p].pending = {} /\ proc[p].handling = FALSE
               /\ p \notin 0 .. forks => proc[p].life = "none"
    <3>1. 0 \in 0 .. forks BY <1>12
    <3>2. CASE p = 0 BY <1>9, <3>1, <3>2
    <3>3. CASE p # 0 BY <1>7, <1>11, <3>3
    <3> QED BY <3>2, <3>3
  <2> QED BY <1>8, <1>9, <1>10, <1>12, <1>13, <2>1 DEF ReapProcesses
<1>15. ReapTerminal
  <2>1. \A f \in {"out", "err"} : f \in DOMAIN Terminal /\ Terminal[f].w = Tty
    BY DEF Terminal, End
  <2>2. fds[0] = Terminal BY <1>2, <1>12 DEF InitTable
  <2> QED BY <2>1, <2>2 DEF ReapTerminal
<1>16. ReapAll BY <1>13 DEF ReapAll
<1>17. prog \notin Counting => ReapProgress
  <2> SUFFICES ASSUME prog \notin Counting PROVE ReapProgress OBVIOUS
  <2>1. PICK b, F, W, w : /\ b = Bodies[prog] /\ F = ForkAt[prog] /\ W = WaitAt[prog]
                          /\ w = WritesAt
    OBVIOUS
  <2>2. PICK n \in Nat : Orderly(b, n, F, W, w) BY <2>1, MainsOrderly
  <2>3. /\ \A j \in DOMAIN F : F[j] \in 1 .. n /\ W[j] \in 1 .. n
        /\ DOMAIN W = DOMAIN F /\ \E m \in 1 .. 4 : DOMAIN F = 1 .. m
    BY <2>2 DEF Orderly
  <2>4. Reached(n, F, 1, 0)
    <3>1. \A j \in DOMAIN F : ~(j <= 0) /\ ~(F[j] < 1) BY <2>3
    <3>2. 1 \in 1 .. n + 1 /\ 1 .. 0 = {} BY <2>2
    <3> QED BY <3>1, <3>2 DEF Reached
  <2>5. Waited(W, 1) BY <2>3 DEF Waited
  <2> QED BY <1>9, <1>12, <2>1, <2>2, <2>4, <2>5 DEF ReapProgress
<1>18. prog \in Counting => ReapCounting
  <2> SUFFICES ASSUME prog \in Counting PROVE ReapCounting OBVIOUS
  <2>1. 1 \in 1 .. Children + 3 /\ ~(1 > First + Children) /\ Created(1, First) = 0
    BY ChildrenAssumption DEF First, Created
  <2>2. Reaped = {} /\ Zombies = {} BY <1>13 DEF Reaped, Zombies
  <2>3. Cardinality(Reaped) = 0 BY <2>2, FS_EmptySet
  <2>4. Notified(proc[0].pending, proc[0].handling) BY <1>9, <2>2 DEF Notified
  <2>5. ~(proc[0].pc >= 2) BY <1>9
  <2> QED BY <1>9, <1>10, <1>12, <2>1, <2>3, <2>4, <2>5 DEF ReapCounting
<1>19. ReapFeeding
  <2> SUFFICES ASSUME prog \in Feeding
               PROVE  /\ FedMain(WriteAt[prog], proc[0].pc, fds[0], chan[TheirPipe], forks)
                      /\ forks # 1
    BY DEF ReapFeeding
  <2>1. chan[TheirPipe] = << >>
    <3>1. TheirPipe \in Channels /\ TheirPipe \notin Files
      BY DEF TheirPipe, Channels, Pipes, Files
    <3> QED BY <3>1 DEF Init
  <2> QED BY <1>9, <1>12, <2>1 DEF FedMain
<1> QED BY <1>14, <1>15, <1>16, <1>17, <1>18, <1>19 DEF ReapBase

\* None of these programs reads from the terminal.
LEMMA NothingTyped ==
    ASSUME prog \in Reaping, ReapBase, NEW p \in Procs, TypeLine(p)
    PROVE  FALSE
<1>1. Now(p).op \in {"input", "select"} /\ proc[p].life = "run" BY DEF TypeLine, Running
<1>2. CASE p \in 1 .. forks
  <2>1. PICK b : b = Bodies[proc[p].body] OBVIOUS
  <2>2. Harmless(b) BY <1>2, <2>1, ChildrenHarmless DEF ReapBase, ReapProcesses
  <2>3. Body(p) = b BY <2>1 DEF Body
  <2>4. CASE Pc(p) \notin DOMAIN b BY <1>1, <2>3, <2>4 DEF Now
  <2>5. CASE Pc(p) \in DOMAIN b
    <3>1. Now(p) = b[Pc(p)] BY <2>3, <2>5 DEF Now
    <3> QED BY <1>1, <2>2, <2>5, <3>1 DEF Harmless
  <2> QED BY <2>4, <2>5
<1>3. CASE p = 0 /\ prog \notin Counting
  <2>1. PICK b, F, W, w, pc, k :
        /\ b = Bodies[prog] /\ F = ForkAt[prog] /\ W = WaitAt[prog] /\ w = WritesAt
        /\ pc = proc[0].pc /\ k = forks
    OBVIOUS
  <2>2. PICK n \in Nat : Orderly(b, n, F, W, w) /\ Reached(n, F, pc, k) /\ Waited(W, pc)
    BY <1>3, <2>1 DEF ReapBase, ReapProgress
  <2>3. b = Bodies[proc[0].body] BY <2>1 DEF ReapBase, ReapProcesses
  <2>4. CASE pc \in 1 .. n
    <3>1. PICK i \in 1 .. n : Now(0) = b[i] BY <2>1, <2>2, <2>3, <2>4, AtJump
    <3>2. OrderlyStep(b, i, F, W, w) BY <2>2 DEF Orderly
    <3> QED BY <1>1, <1>3, <3>1, <3>2 DEF OrderlyStep, Quiet
  <2>5. CASE pc \notin 1 .. n
    <3>1. pc \notin DOMAIN b BY <2>2, <2>5 DEF Orderly
    <3>2. Now(0).op = "end" BY <2>1, <2>3, <3>1, AtEnd
    <3> QED BY <1>1, <1>3, <3>2
  <2> QED BY <2>4, <2>5
<1>4. CASE p = 0 /\ prog \in Counting
  <2>1. PICK b, f, i, s : b = Bodies[prog] /\ f = First /\ i = proc[0].pc /\ s = Now(0) OBVIOUS
  <2>2. ReapProcesses /\ ReapCounting BY <1>4 DEF ReapBase
  <2>3. /\ CountPlace(b, f, i)
        /\ i = Children + 3 => s.op = "end"
        /\ i # Children + 3 => s = b[i]
    BY <1>4, <2>1, <2>2, CountAt
  <2> QED BY <1>1, <1>4, <2>1, <2>3 DEF CountPlace
<1>5. p \in 1 .. forks \/ p = 0
  <2>1. p \in 0 .. forks BY <1>1 DEF ReapBase, ReapProcesses
  <2> QED BY <2>1 DEF ReapBase, ReapProcesses
<1> QED BY <1>2, <1>3, <1>4, <1>5

\* The main process takes a step.
LEMMA ReapMainStep ==
    ASSUME prog \in Reaping, ReapBase, ReapFeeding, Step(0), ~failed', prog' = prog
    PROVE  ReapBase' /\ ReapFeeding'
<1>1. ReapBase'
  <2>1. CASE prog \in Counting BY <2>1, CountingStep
  <2>2. CASE prog \notin Counting
    <3>1. proc[0].life = "run" BY DEF Step, Running
    <3>2. Fed BY <2>2, <3>1, IsFed
    <3> QED BY <2>2, <3>2, PipelineStep
  <2> QED BY <2>1, <2>2
<1>2. ReapFeeding'
  <2>1. CASE prog \in Feeding BY <2>1, FeedMainStep
  <2>2. CASE prog \notin Feeding BY <2>2 DEF ReapFeeding
  <2> QED BY <2>1, <2>2
<1> QED BY <1>1, <1>2

\* Another process takes a step: it is a child of a main process that has not ended.
LEMMA ReapChildStep ==
    ASSUME prog \in Reaping, ReapBase, ReapFeeding, NEW p \in Procs, p # 0, Step(p)
    PROVE  ReapBase' /\ ReapFeeding'
<1>1. proc[p].life = "run" BY DEF Step, Running
<1>2. p \in 1 .. forks /\ ReapProcesses
  <2>1. p \in 0 .. forks BY <1>1 DEF ReapBase, ReapProcesses
  <2> QED BY <2>1 DEF ReapBase, ReapProcesses
<1>3. proc[0].life = "run" BY <1>1, <1>2 DEF ReapBase, ReapProcesses, ReapAll, Gone
<1>4. ChildGoes(p) \/ Ends(p) BY <1>2, ChildStep
<1>5. ReapBase' BY <1>1, <1>2, <1>4, BaseChildGoes, BaseChildEnds
<1>6. /\ proc'[0].pc = proc[0].pc /\ proc'[0].life = proc[0].life /\ fds'[0] = fds[0]
      /\ forks' = forks /\ prog' = prog
  <2>1. 0 \in Procs BY ProcsHas
  <2>2. CASE ChildGoes(p) BY <2>1, <2>2 DEF ChildGoes, Only
  <2>3. CASE Ends(p) BY <2>1, <2>3 DEF Ends
  <2> QED BY <1>4, <2>2, <2>3
<1>7. ReapFeeding'
  <2>1. CASE prog \in Feeding
    <3>1. forks = 1 /\ p = 1
      <4>1. forks \in {0, 1} BY <2>1, FeedAt
      <4> QED BY <1>2, <4>1
    <3> QED BY <1>3, <1>6, <2>1, <3>1, FeedChildStep
  <2>2. CASE prog \notin Feeding BY <1>6, <2>2 DEF ReapFeeding
  <2> QED BY <2>1, <2>2
<1> QED BY <1>5, <1>7

\* Every step of the machine keeps the invariant.
LEMMA ReapNext ==
    ASSUME prog \in Reaping, ReapBase, ReapFeeding, [Next]_vars, ~failed'
    PROVE  ReapBase' /\ ReapFeeding'
<1>1. prog' = prog BY ProgStays
<1>2. ~Threaded /\ ~Datagrams BY DEF Threaded, Datagrams, Reaping, Pipelines
<1>3. Recs /\ timer = "off" /\ aio = "idle" BY DEF ReapBase, ReapProcesses
<1>4. ASSUME NEW p \in Procs, Step(p) PROVE ReapBase' /\ ReapFeeding'
  <2>1. CASE p = 0 BY <1>1, <1>4, <2>1, ReapMainStep
  <2>2. CASE p # 0 BY <1>4, <2>2, ReapChildStep
  <2> QED BY <2>1, <2>2
<1>5. ASSUME NEW p \in Procs, Deliver(p) \/ HandlerReaps(p) PROVE ReapBase' /\ ReapFeeding'
  <2>1. ReapBase' /\ prog \in Counting BY <1>5, CountingDeliver, CountingHandler
  <2>2. prog' \notin Feeding BY <1>1, <2>1 DEF Counting, Feeding
  <2> QED BY <2>1, <2>2 DEF ReapFeeding
<1>6. ASSUME NEW p \in Procs, TypeLine(p) PROVE FALSE BY <1>6, NothingTyped
<1>7. ASSUME NEW p \in Procs, Leave(p) PROVE ReapBase' /\ ReapFeeding'
  <2>1. p \in Peers /\ proc[p].life = "run" BY <1>7 DEF Leave, Voting, Reaping, Pipelines
  <2>2. p \in 1 .. forks /\ ReapProcesses
    <3>1. ReapProcesses /\ forks \in Nat BY DEF ReapBase, ReapProcesses
    <3>2. p \in 0 .. forks BY <2>1, <3>1 DEF ReapProcesses
    <3>3. p # 0 BY <2>1 DEF Peers
    <3> QED BY <3>1, <3>2, <3>3
  <2>3. Ends(p) BY <1>2, <1>3, <1>7, Ending
  <2>4. ReapBase' BY <2>1, <2>2, <2>3, BaseChildEnds
  <2>5. prog \notin Feeding
    <3>1. prog \in Feeding => forks \in {0, 1} BY FeedAt
    <3>2. p \in {11, 12} BY <2>1 DEF Peers
    <3> QED BY <2>2, <3>1, <3>2
  <2> QED BY <1>1, <2>4, <2>5 DEF ReapFeeding
<1>8. ASSUME Alarm \/ AioDone \/ AioNotify \/ SendSignal \/ LoseDatagram PROVE FALSE
  <2>1. ~Alarm BY <1>3 DEF Alarm
  <2>2. ~AioDone /\ ~AioNotify BY <1>3 DEF AioDone, AioNotify
  <2>3. ~SendSignal BY DEF SendSignal, Reaping, Pipelines
  <2>4. ~LoseDatagram BY <1>2 DEF LoseDatagram
  <2> QED BY <1>8, <2>1, <2>2, <2>3, <2>4
<1>9. CASE UNCHANGED vars
  <2>1. UNCHANGED << prog, proc, fds, chan, forks, count, timer, aio >> BY <1>9 DEF vars
  <2>2. ReapProcesses' BY <2>1 DEF ReapBase, ReapProcesses, Recs
  <2>3. ReapTerminal' /\ ReapAll' BY <2>1 DEF ReapBase, ReapTerminal, ReapAll, Gone
  <2>4. prog' \notin Counting => ReapProgress' BY <2>1, ProgressStays DEF ReapBase
  <2>5. prog' \in Counting => ReapCounting'
    BY <2>1 DEF ReapBase, ReapCounting, Reaped, Zombies, Gone, First, Notified
  <2>6. ReapFeeding' BY <2>1 DEF ReapFeeding
  <2> QED BY <2>2, <2>3, <2>4, <2>5, <2>6 DEF ReapBase
<1> QED BY <1>4, <1>5, <1>6, <1>7, <1>8, <1>9 DEF Next

\* A program that waits for its children has reaped all of them when it ends, unless a
\* call of the kernel failed: the pipelines because each wait comes after its fork and is
\* never jumped over, and because their main process is not killed by SIGPIPE before it
\* waits; five_children.c and multi-process.cpp because what they count is exactly the
\* number of children that were reaped.
THEOREM NoneLeftBehind == Spec => []NobodyLeftBehind
<1> DEFINE Inv == prog \in Reaping /\ ~failed => ReapBase /\ ReapFeeding
<1>1. Init => Inv BY ReapInit
<1>2. Inv /\ [Next]_vars => Inv'
  <2> SUFFICES ASSUME Inv, [Next]_vars, prog' \in Reaping, ~failed'
               PROVE  ReapBase' /\ ReapFeeding'
    OBVIOUS
  <2>1. prog \in Reaping /\ ~failed BY ProgStays, FailedStays
  <2> QED BY <2>1, ReapNext
<1>3. Inv => NobodyLeftBehind BY DEF ReapBase, ReapAll, NobodyLeftBehind
<1> QED BY <1>1, <1>2, <1>3, PTL DEF Spec
=============================================================================

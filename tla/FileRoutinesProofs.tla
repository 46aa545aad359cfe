------------------------- MODULE FileRoutinesProofs -------------------------
(* Proofs about the file I/O routines: whichever calls fail, nothing leaks,  *)
(* nothing is released twice or used after its release, the buffer of an     *)
(* asynchronous request outlives it, and a routine that syncs after a loop   *)
(* of writes reports success only when its data is on the disk.              *)
(*                                                                           *)
(* A routine is checked once, statically: its steps are walked with the set  *)
(* of resources that are held before each of them (Walks).  The invariant    *)
(* then says that the running routine holds what its walk says.              *)
EXTENDS FileRoutines, Integers, TLAPS

-----------------------------------------------------------------------------
(* Error branches. *)

\* The error branch u releases every resource in h, each one once, and the
\* context of a request before its buffer.
Undoes(u, h) ==
    /\ u \in Seq(h)
    /\ \A x \in h : \E a \in 1 .. Len(u) : u[a] = x
    /\ \A a \in 1 .. Len(u), b \in 1 .. Len(u) : u[a] = u[b] => a = b
    /\ \A a \in 1 .. Len(u), b \in 1 .. Len(u) :
         u[a] = "ctx" /\ u[b] = "buf" => a < b

\* The error branches that occur have up to four releases.  None.
LEMMA UndoesNothing == Undoes(<< >>, {})
BY DEF Undoes

\* One release.
LEMMA UndoesOne == ASSUME NEW x PROVE Undoes(<< x >>, {x})
<1>1. << x >> \in Seq({x}) /\ Len(<< x >>) = 1 OBVIOUS
<1> QED BY <1>1 DEF Undoes

\* Two releases, the context not after the buffer.
LEMMA UndoesTwo ==
    ASSUME NEW x, NEW y, x # y, ~(x = "buf" /\ y = "ctx")
    PROVE  Undoes(<< x, y >>, {x, y})
<1> DEFINE u == << x, y >>
<1>1. u \in Seq({x, y}) /\ Len(u) = 2 /\ u[1] = x /\ u[2] = y OBVIOUS
<1> HIDE DEF u
<1>2. Undoes(u, {x, y}) BY <1>1 DEF Undoes
<1> QED BY <1>2 DEF u

\* Three releases, the buffer last if at all.
LEMMA UndoesThree ==
    ASSUME NEW x, NEW y, NEW z, x # y, y # z, x # z, x # "buf", y # "buf"
    PROVE  Undoes(<< x, y, z >>, {x, y, z})
<1> DEFINE u == << x, y, z >>
<1>1. u \in Seq({x, y, z}) /\ Len(u) = 3 /\ u[1] = x /\ u[2] = y /\ u[3] = z
  OBVIOUS
<1> HIDE DEF u
<1>2. \A a \in 1 .. 3 : a = 1 \/ a = 2 \/ a = 3 OBVIOUS
<1>3. Undoes(u, {x, y, z}) BY <1>1, <1>2 DEF Undoes
<1> QED BY <1>3 DEF u

\* Four releases, the buffer last if at all.
LEMMA UndoesFour ==
    ASSUME NEW w, NEW x, NEW y, NEW z, w # x, w # y, w # z, x # y, x # z, y # z,
           w # "buf", x # "buf", y # "buf"
    PROVE  Undoes(<< w, x, y, z >>, {w, x, y, z})
<1> DEFINE u == << w, x, y, z >>
<1>1. /\ u \in Seq({w, x, y, z}) /\ Len(u) = 4
      /\ u[1] = w /\ u[2] = x /\ u[3] = y /\ u[4] = z
  OBVIOUS
<1> HIDE DEF u
<1>2. \A a \in 1 .. 4 : a = 1 \/ a = 2 \/ a = 3 \/ a = 4 OBVIOUS
<1>3. Undoes(u, {w, x, y, z}) BY <1>1, <1>2 DEF Undoes
<1> QED BY <1>3 DEF u

\* One release of an error branch: it is of something held, and the rest of
\* the branch undoes the rest; the buffer comes after the context.
LEMMA UndoesRest ==
    ASSUME NEW h, NEW u, Undoes(u, h), u # << >>
    PROVE  /\ Head(u) \in h
           /\ Undoes(Tail(u), h \ {Head(u)})
           /\ Head(u) = "buf" => "ctx" \notin h
<1> DEFINE t == Tail(u)
<1>1. u \in Seq(h) /\ Len(u) \in Nat /\ Len(u) > 0 /\ 1 \in 1 .. Len(u)
  BY DEF Undoes
<1>2. t \in Seq(h) /\ Len(t) = Len(u) - 1 /\ \A a \in 1 .. Len(t) : t[a] = u[a + 1]
  BY <1>1
<1>3. Head(u) = u[1] /\ u[1] \in h
  BY <1>1
<1> HIDE DEF t
<1>4. \A a \in 1 .. Len(t) : a + 1 \in 1 .. Len(u) /\ a + 1 # 1 /\ u[a + 1] \in h
  BY <1>1, <1>2
<1>5. t \in Seq(h \ {u[1]})
  <2>1. \A a \in 1 .. Len(t) : t[a] # u[1]
    BY <1>1, <1>2, <1>4 DEF Undoes
  <2>2. \A a \in 1 .. Len(t) : t[a] \in h \ {u[1]}
    BY <1>2, <1>4, <2>1
  <2> QED BY <1>2, <2>2
<1>6. \A x \in h \ {u[1]} : \E a \in 1 .. Len(t) : t[a] = x
  <2> SUFFICES ASSUME NEW x \in h \ {u[1]}
               PROVE  \E a \in 1 .. Len(t) : t[a] = x
    OBVIOUS
  <2>1. PICK a \in 1 .. Len(u) : u[a] = x BY DEF Undoes
  <2>2. a - 1 \in 1 .. Len(t) /\ t[a - 1] = x BY <1>1, <1>2, <2>1
  <2> QED BY <2>2
<1>7. ASSUME NEW a \in 1 .. Len(t), NEW b \in 1 .. Len(t)
      PROVE  /\ t[a] = t[b] => a = b
             /\ t[a] = "ctx" /\ t[b] = "buf" => a < b
  <2>1. /\ a + 1 \in 1 .. Len(u) /\ b + 1 \in 1 .. Len(u)
        /\ t[a] = u[a + 1] /\ t[b] = u[b + 1]
    BY <1>2, <1>4
  <2>2. /\ u[a + 1] = u[b + 1] => a + 1 = b + 1
        /\ u[a + 1] = "ctx" /\ u[b + 1] = "buf" => a + 1 < b + 1
    BY <2>1 DEF Undoes
  <2> QED BY <1>1, <1>2, <2>1, <2>2
<1>8. Undoes(t, h \ {Head(u)})
  BY <1>3, <1>5, <1>6, <1>7 DEF Undoes
<1>9. u[1] = "buf" => "ctx" \notin h
  <2> SUFFICES ASSUME u[1] = "buf", "ctx" \in h PROVE FALSE
    OBVIOUS
  <2>1. PICK a \in 1 .. Len(u) : u[a] = "ctx" BY DEF Undoes
  <2>2. a < 1 BY <1>1, <2>1 DEF Undoes
  <2> QED BY <1>1, <2>2
<1> QED BY <1>3, <1>8, <1>9 DEF t

-----------------------------------------------------------------------------
(* Walks. *)

\* A step fits between what is held before it, h for certain and o perhaps,
\* and what is held after it: it uses what is held for certain, its error branch
\* undoes exactly what is held, and the buffer is not closed under the context.
Fits(s, h, o, h2, o2) ==
    /\ s.uses \subseteq h
    /\ s.kind \in Checked => o = {} /\ Undoes(s.undo, h)
    /\ s.kind = "open" => h2 = h \cup s.res /\ o2 = o
    /\ s.kind = "opentry" => h2 = h /\ o2 = o \cup s.res
    /\ s.kind = "close" => /\ h2 = h \ s.res /\ o2 = o \ s.res
                           /\ "buf" \in s.res => "ctx" \notin h \cup o
    /\ s.kind \notin {"open", "opentry", "close"} => h2 = h /\ o2 = o

\* A step that acquires res.
LEMMA OpenFits ==
    ASSUME NEW res, NEW u, NEW h, NEW h2, Undoes(u, h), h2 = h \cup res
    PROVE  Fits(Step("open", res, {}, u), h, {}, h2, {})
BY DEF Fits, Step, Checked

\* A checked step that acquires nothing.
LEMMA CheckedFits ==
    ASSUME NEW k \in Checked \ {"open"}, NEW uses, NEW u, NEW h,
           uses \subseteq h, Undoes(u, h)
    PROVE  Fits(Step(k, {}, uses, u), h, {}, h, {})
BY DEF Fits, Step, Checked

\* A step that cannot fail, or whose failure is ignored.
LEMMA TryFits ==
    ASSUME NEW k \in {"try", "store"}, NEW uses, NEW h, NEW o, uses \subseteq h
    PROVE  Fits(Step(k, {}, uses, << >>), h, o, h, o)
BY DEF Fits, Step, Checked

\* A step that releases what is held for certain.
LEMMA CloseFits ==
    ASSUME NEW x, NEW h, NEW h2, x \in h, x = "buf" => "ctx" \notin h,
           h2 = h \ {x}
    PROVE  Fits(Step("close", {x}, {x}, << >>), h, {}, h2, {})
BY DEF Fits, Step, Checked

\* The unchecked open of the two comparisons.
LEMMA OpenTryFits ==
    ASSUME NEW res, NEW h, NEW o, NEW o2, o2 = o \cup res
    PROVE  Fits(Step("opentry", res, {}, << >>), h, o, h, o2)
BY DEF Fits, Step, Checked

\* The unchecked close.
LEMMA CloseTryFits ==
    ASSUME NEW res, NEW h, NEW o, NEW o2, "buf" \notin res, o2 = o \ res,
           \A x \in res : x \notin h
    PROVE  Fits(Step("close", res, {}, << >>), h, o, h, o2)
BY DEF Fits, Step, Checked

\* A routine is walked with H and O, what is held before each of its steps for
\* certain and perhaps: it starts and ends with nothing, and every step fits.
Walks(S, H, O) ==
    /\ Len(S) \in Nat /\ H[1] = {} /\ O[1] = {}
    /\ H[Len(S) + 1] = {} /\ O[Len(S) + 1] = {}
    /\ \A p \in 1 .. Len(S) : Fits(S[p], H[p], O[p], H[p + 1], O[p + 1])

HasWalk(S) == \E H, O : Walks(S, H, O)

\* The same for a routine without unchecked opens.
CheckedWalk(S, H) ==
    /\ Len(S) \in Nat /\ H[1] = {} /\ H[Len(S) + 1] = {}
    /\ \A p \in 1 .. Len(S) : Fits(S[p], H[p], {}, H[p + 1], {})

\* It is a walk in which nothing is perhaps held.
LEMMA WalkOfCheckedSteps ==
    ASSUME NEW S, NEW H, CheckedWalk(S, H) PROVE HasWalk(S)
<1> DEFINE None == [p \in Nat |-> {}]
<1>1. \A p \in Nat : None[p] = {} OBVIOUS
<1>2. Len(S) + 1 \in Nat /\ \A p \in 1 .. Len(S) : p \in Nat /\ p + 1 \in Nat
  BY DEF CheckedWalk
<1> HIDE DEF None
<1>3. Walks(S, H, None) BY <1>1, <1>2 DEF Walks, CheckedWalk
<1> QED BY <1>3 DEF HasWalk

-----------------------------------------------------------------------------
(* The walks of the routines. *)

\* standard_write_file: standard_io.c.
LEMMA standard_write_fileWalk == HasWalk(standard_write_file)
<1> DEFINE S == standard_write_file
           H == << {}, {"fd"}, {"fd"}, {"fd"}, {} >>
           OK(p) == Fits(S[p], H[p], {}, H[p + 1], {})
<1>1. Len(S) = 4 /\ H[1] = {} /\ H[5] = {}
  BY DEF standard_write_file
<1>2. /\ OK(1) /\ OK(2) /\ OK(3) /\ OK(4)
  BY UndoesNothing, UndoesOne, OpenFits, CheckedFits, CloseFits
  DEF standard_write_file, Open, Close, WriteAll, Sync, Checked
<1> HIDE DEF OK
<1>3. \A p \in 1 .. 4 : OK(p) BY <1>2
<1> HIDE DEF S, H
<1>4. CheckedWalk(S, H) BY <1>1, <1>3 DEF OK, CheckedWalk
<1> QED BY <1>4, WalkOfCheckedSteps DEF S

\* standard_read_file: standard_io.c.
LEMMA standard_read_fileWalk == HasWalk(standard_read_file)
<1> DEFINE S == standard_read_file
           H == << {}, {"fd"}, {"fd"}, {} >>
           OK(p) == Fits(S[p], H[p], {}, H[p + 1], {})
<1>1. Len(S) = 3 /\ H[1] = {} /\ H[4] = {}
  BY DEF standard_read_file
<1>2. /\ OK(1) /\ OK(2) /\ OK(3)
  BY UndoesNothing, UndoesOne, OpenFits, CheckedFits, CloseFits
  DEF standard_read_file, Open, Call, Close, Checked
<1> HIDE DEF OK
<1>3. \A p \in 1 .. 3 : OK(p) BY <1>2
<1> HIDE DEF S, H
<1>4. CheckedWalk(S, H) BY <1>1, <1>3 DEF OK, CheckedWalk
<1> QED BY <1>4, WalkOfCheckedSteps DEF S

\* lseek_example: standard_io.c.
LEMMA lseek_exampleWalk == HasWalk(lseek_example)
<1> DEFINE S == lseek_example
           H == << {}, {"fd"}, {"fd"}, {} >>
           OK(p) == Fits(S[p], H[p], {}, H[p + 1], {})
<1>1. Len(S) = 3 /\ H[1] = {} /\ H[4] = {}
  BY DEF lseek_example
<1>2. /\ OK(1) /\ OK(2) /\ OK(3)
  BY UndoesNothing, OpenFits, TryFits, CloseFits
  DEF lseek_example, Open, Try, Close
<1> HIDE DEF OK
<1>3. \A p \in 1 .. 3 : OK(p) BY <1>2
<1> HIDE DEF S, H
<1>4. CheckedWalk(S, H) BY <1>1, <1>3 DEF OK, CheckedWalk
<1> QED BY <1>4, WalkOfCheckedSteps DEF S

\* buffered_write_file: buffered_io.c.
LEMMA buffered_write_fileWalk == HasWalk(buffered_write_file)
<1> DEFINE S == buffered_write_file
           H == << {}, {"fp"}, {"fp"}, {"fp"}, {"fp"}, {"fp"}, {} >>
           OK(p) == Fits(S[p], H[p], {}, H[p + 1], {})
<1>1. Len(S) = 6 /\ H[1] = {} /\ H[7] = {}
  BY DEF buffered_write_file
<1>2. /\ OK(1) /\ OK(2) /\ OK(3) /\ OK(4) /\ OK(5) /\ OK(6)
  BY UndoesNothing, UndoesOne, OpenFits, CheckedFits, CloseFits
  DEF buffered_write_file, Open, Call, Close, Fwrite, Fflush, Sync, Checked
<1> HIDE DEF OK
<1>3. \A p \in 1 .. 6 : OK(p) BY <1>2
<1> HIDE DEF S, H
<1>4. CheckedWalk(S, H) BY <1>1, <1>3 DEF OK, CheckedWalk
<1> QED BY <1>4, WalkOfCheckedSteps DEF S

\* buffered_read_file: buffered_io.c.
LEMMA buffered_read_fileWalk == HasWalk(buffered_read_file)
<1> DEFINE S == buffered_read_file
           H == << {}, {"fp"}, {"fp"}, {"fp"}, {} >>
           OK(p) == Fits(S[p], H[p], {}, H[p + 1], {})
<1>1. Len(S) = 4 /\ H[1] = {} /\ H[5] = {}
  BY DEF buffered_read_file
<1>2. /\ OK(1) /\ OK(2) /\ OK(3) /\ OK(4)
  BY UndoesNothing, UndoesOne, OpenFits, CheckedFits, CloseFits
  DEF buffered_read_file, Open, Call, Close, Checked
<1> HIDE DEF OK
<1>3. \A p \in 1 .. 4 : OK(p) BY <1>2
<1> HIDE DEF S, H
<1>4. CheckedWalk(S, H) BY <1>1, <1>3 DEF OK, CheckedWalk
<1> QED BY <1>4, WalkOfCheckedSteps DEF S

\* read_line_by_line: buffered_io.c.
LEMMA read_line_by_lineWalk == HasWalk(read_line_by_line)
BY buffered_read_fileWalk DEF read_line_by_line, buffered_read_file

\* fprintf_example: buffered_io.c.
LEMMA fprintf_exampleWalk == HasWalk(fprintf_example)
<1> DEFINE S == fprintf_example
           H == << {}, {"fp"}, {"fp"}, {} >>
           OK(p) == Fits(S[p], H[p], {}, H[p + 1], {})
<1>1. Len(S) = 3 /\ H[1] = {} /\ H[4] = {}
  BY DEF fprintf_example
<1>2. /\ OK(1) /\ OK(2) /\ OK(3)
  BY UndoesNothing, OpenFits, TryFits, CloseFits
  DEF fprintf_example, Open, Try, Close
<1> HIDE DEF OK
<1>3. \A p \in 1 .. 3 : OK(p) BY <1>2
<1> HIDE DEF S, H
<1>4. CheckedWalk(S, H) BY <1>1, <1>3 DEF OK, CheckedWalk
<1> QED BY <1>4, WalkOfCheckedSteps DEF S

\* fscanf_example: buffered_io.c.
LEMMA fscanf_exampleWalk == HasWalk(fscanf_example)
BY fprintf_exampleWalk DEF fscanf_example, fprintf_example

\* standard_io_with_fsync: page_cache.c.
LEMMA standard_io_with_fsyncWalk == HasWalk(standard_io_with_fsync)
<1> DEFINE S == standard_io_with_fsync
           H == << {}, {"fd"}, {"fd"}, {"fd"}, {} >>
           OK(p) == Fits(S[p], H[p], {}, H[p + 1], {})
<1>1. Len(S) = 4 /\ H[1] = {} /\ H[5] = {}
  BY DEF standard_io_with_fsync
<1>2. /\ OK(1) /\ OK(2) /\ OK(3) /\ OK(4)
  BY UndoesNothing, UndoesOne, OpenFits, CheckedFits, CloseFits
  DEF standard_io_with_fsync, Open, Close, Write, Sync, Checked
<1> HIDE DEF OK
<1>3. \A p \in 1 .. 4 : OK(p) BY <1>2
<1> HIDE DEF S, H
<1>4. CheckedWalk(S, H) BY <1>1, <1>3 DEF OK, CheckedWalk
<1> QED BY <1>4, WalkOfCheckedSteps DEF S

\* mmap_with_msync: page_cache.c.
LEMMA mmap_with_msyncWalk == HasWalk(mmap_with_msync)
<1> DEFINE S == mmap_with_msync
           w == {"map", "fd"}
           H == << {}, {"fd"}, {"fd"}, w, w, w, {"fd"}, {} >>
           OK(p) == Fits(S[p], H[p], {}, H[p + 1], {})
<1>1. Len(S) = 7 /\ H[1] = {} /\ H[8] = {}
  BY DEF mmap_with_msync
<1>2. /\ OK(1) /\ OK(2) /\ OK(3)
  BY UndoesNothing, UndoesOne, OpenFits, CheckedFits
  DEF mmap_with_msync, Open, Call, Checked
<1>3. OK(4)
  BY TryFits
  DEF mmap_with_msync, Store
<1>4. OK(5)
  BY UndoesTwo, CheckedFits
  DEF mmap_with_msync, Sync, Checked
<1>5. /\ OK(6) /\ OK(7)
  BY CloseFits
  DEF mmap_with_msync, Close
<1> HIDE DEF OK
<1>6. \A p \in 1 .. 7 : OK(p) BY <1>2, <1>3, <1>4, <1>5
<1> HIDE DEF S, H
<1>7. CheckedWalk(S, H) BY <1>1, <1>6 DEF OK, CheckedWalk
<1> QED BY <1>7, WalkOfCheckedSteps DEF S

\* o_direct_io: page_cache.c.
LEMMA o_direct_ioWalk == HasWalk(o_direct_io)
<1> DEFINE S == o_direct_io
           w == {"fd", "buf"}
           H == << {}, {"buf"}, w, w, w, {"buf"}, {} >>
           OK(p) == Fits(S[p], H[p], {}, H[p + 1], {})
<1>1. Len(S) = 6 /\ H[1] = {} /\ H[7] = {}
  BY DEF o_direct_io
<1>2. /\ OK(1) /\ OK(2) /\ OK(3) /\ OK(4)
  BY UndoesNothing, UndoesOne, UndoesTwo, OpenFits, CheckedFits
  DEF o_direct_io, Open, Write, Sync, Checked
<1>3. /\ OK(5) /\ OK(6)
  BY CloseFits
  DEF o_direct_io, Close
<1> HIDE DEF OK
<1>4. \A p \in 1 .. 6 : OK(p) BY <1>2, <1>3
<1> HIDE DEF S, H
<1>5. CheckedWalk(S, H) BY <1>1, <1>4 DEF OK, CheckedWalk
<1> QED BY <1>5, WalkOfCheckedSteps DEF S

\* standard_io_with_fdatasync: page_cache.c.
LEMMA standard_io_with_fdatasyncWalk == HasWalk(standard_io_with_fdatasync)
BY standard_io_with_fsyncWalk DEF standard_io_with_fdatasync, standard_io_with_fsync

\* o_sync_io: page_cache.c.
LEMMA o_sync_ioWalk == HasWalk(o_sync_io)
<1> DEFINE S == o_sync_io
           H == << {}, {"fd"}, {"fd"}, {} >>
           OK(p) == Fits(S[p], H[p], {}, H[p + 1], {})
<1>1. Len(S) = 3 /\ H[1] = {} /\ H[4] = {}
  BY DEF o_sync_io
<1>2. /\ OK(1) /\ OK(2) /\ OK(3)
  BY UndoesNothing, UndoesOne, OpenFits, CheckedFits, CloseFits
  DEF o_sync_io, Open, Close, WriteSync, Checked
<1> HIDE DEF OK
<1>3. \A p \in 1 .. 3 : OK(p) BY <1>2
<1> HIDE DEF S, H
<1>4. CheckedWalk(S, H) BY <1>1, <1>3 DEF OK, CheckedWalk
<1> QED BY <1>4, WalkOfCheckedSteps DEF S

\* sync_file_range_example: page_cache.c.
LEMMA sync_file_range_exampleWalk == HasWalk(sync_file_range_example)
BY standard_io_with_fsyncWalk DEF sync_file_range_example, standard_io_with_fsync

\* aio_write: libaio_demo.c.
LEMMA aio_writeWalk == HasWalk(aio_write)
<1> DEFINE S == aio_write
           w == {"ctx", "buf"}
           x == {"fd", "ctx", "buf"}
           H == << {}, {"buf"}, w, x, x, x, x, x, w, {"buf"}, {} >>
           OK(p) == Fits(S[p], H[p], {}, H[p + 1], {})
<1>1. Len(S) = 10 /\ H[1] = {} /\ H[11] = {}
  BY DEF aio_write
<1>2. /\ OK(1) /\ OK(2) /\ OK(3)
  BY UndoesNothing, UndoesOne, UndoesTwo, OpenFits
  DEF aio_write, Open
<1>3. /\ OK(4) /\ OK(5) /\ OK(6) /\ OK(7)
  BY UndoesThree, CheckedFits
  DEF aio_write, Call, Sync, Submit, Reap, Checked
<1>4. OK(8)
  BY CloseFits
  DEF aio_write, Close
<1>5. OK(9)
  BY CloseFits
  DEF aio_write, Close
<1>6. OK(10)
  BY CloseFits
  DEF aio_write, Close
<1> HIDE DEF OK
<1>7. \A p \in 1 .. 10 : OK(p) BY <1>2, <1>3, <1>4, <1>5, <1>6
<1> HIDE DEF S, H
<1>8. CheckedWalk(S, H) BY <1>1, <1>7 DEF OK, CheckedWalk
<1> QED BY <1>8, WalkOfCheckedSteps DEF S

\* aio_read: libaio_demo.c.
LEMMA aio_readWalk == HasWalk(aio_read)
<1> DEFINE S == aio_read
           w == {"ctx", "buf"}
           x == {"fd", "ctx", "buf"}
           H == << {}, {"buf"}, w, x, x, x, x, w, {"buf"}, {} >>
           OK(p) == Fits(S[p], H[p], {}, H[p + 1], {})
<1>1. Len(S) = 9 /\ H[1] = {} /\ H[10] = {}
  BY DEF aio_read
<1>2. /\ OK(1) /\ OK(2) /\ OK(3)
  BY UndoesNothing, UndoesOne, UndoesTwo, OpenFits
  DEF aio_read, Open
<1>3. /\ OK(4) /\ OK(5) /\ OK(6)
  BY UndoesThree, CheckedFits
  DEF aio_read, Call, Submit, Reap, Checked
<1>4. OK(7)
  BY CloseFits
  DEF aio_read, Close
<1>5. OK(8)
  BY CloseFits
  DEF aio_read, Close
<1>6. OK(9)
  BY CloseFits
  DEF aio_read, Close
<1> HIDE DEF OK
<1>7. \A p \in 1 .. 9 : OK(p) BY <1>2, <1>3, <1>4, <1>5, <1>6
<1> HIDE DEF S, H
<1>8. CheckedWalk(S, H) BY <1>1, <1>7 DEF OK, CheckedWalk
<1> QED BY <1>8, WalkOfCheckedSteps DEF S

\* io_uring_read_example: io_uring_1.c.
LEMMA io_uring_read_exampleWalk == HasWalk(io_uring_read_example)
<1> DEFINE S == io_uring_read_example
           w == {"ring", "buf"}
           x == {"fd", "ring", "buf"}
           H == << {}, {"buf"}, w, x, x, x, x, w, {"buf"}, {} >>
           OK(p) == Fits(S[p], H[p], {}, H[p + 1], {})
<1>1. Len(S) = 9 /\ H[1] = {} /\ H[10] = {}
  BY DEF io_uring_read_example
<1>2. /\ OK(1) /\ OK(2) /\ OK(3)
  BY UndoesNothing, UndoesOne, UndoesTwo, OpenFits
  DEF io_uring_read_example, Open
<1>3. /\ OK(4) /\ OK(5)
  BY UndoesThree, CheckedFits
  DEF io_uring_read_example, Submit, Reap, Checked
<1>4. /\ OK(6) /\ OK(7)
  BY TryFits, CloseFits
  DEF io_uring_read_example, Try, Close
<1>5. /\ OK(8) /\ OK(9)
  BY CloseFits
  DEF io_uring_read_example, Close
<1> HIDE DEF OK
<1>6. \A p \in 1 .. 9 : OK(p) BY <1>2, <1>3, <1>4, <1>5
<1> HIDE DEF S, H
<1>7. CheckedWalk(S, H) BY <1>1, <1>6 DEF OK, CheckedWalk
<1> QED BY <1>7, WalkOfCheckedSteps DEF S

\* epoll_read_example: epoll_nonblocking.c.
LEMMA epoll_read_exampleWalk == HasWalk(epoll_read_example)
<1> DEFINE S == epoll_read_example
           w == {"fd", "ep"}
           H == << {}, {"ep"}, w, w, w, w, w, w, {"ep"}, {} >>
           OK(p) == Fits(S[p], H[p], {}, H[p + 1], {})
<1>1. Len(S) = 9 /\ H[1] = {} /\ H[10] = {}
  BY DEF epoll_read_example
<1>2. /\ OK(1) /\ OK(2) /\ OK(3) /\ OK(4)
  BY UndoesNothing, UndoesOne, UndoesTwo, OpenFits, CheckedFits
  DEF epoll_read_example, Open, Call, Checked
<1>3. OK(5)
  BY UndoesTwo, CheckedFits
  DEF epoll_read_example, Call, Checked
<1>4. /\ OK(6) /\ OK(7) /\ OK(8) /\ OK(9)
  BY TryFits, CloseFits
  DEF epoll_read_example, Try, Close
<1> HIDE DEF OK
<1>5. \A p \in 1 .. 9 : OK(p) BY <1>2, <1>3, <1>4
<1> HIDE DEF S, H
<1>6. CheckedWalk(S, H) BY <1>1, <1>5 DEF OK, CheckedWalk
<1> QED BY <1>6, WalkOfCheckedSteps DEF S

\* epoll_multi_file_example: epoll_nonblocking.c.
LEMMA epoll_multi_file_exampleWalk == HasWalk(epoll_multi_file_example)
<1> DEFINE S == epoll_multi_file_example
           w == {"fd1", "ep"}
           x == {"fd1", "fd2", "ep"}
           y == {"fd2", "ep"}
           H == << {}, {"ep"}, w, w, x, x, x, x, x, x, x, y, {"ep"}, {} >>
           OK(p) == Fits(S[p], H[p], {}, H[p + 1], {})
<1>1. Len(S) = 13 /\ H[1] = {} /\ H[14] = {}
  BY DEF epoll_multi_file_example
<1>2. /\ OK(1) /\ OK(2)
  BY UndoesNothing, UndoesOne, OpenFits
  DEF epoll_multi_file_example, Open
<1>3. OK(3)
  BY TryFits
  DEF epoll_multi_file_example, Try
<1>4. OK(4)
  BY UndoesTwo, OpenFits
  DEF epoll_multi_file_example, Open
<1>5. /\ OK(5) /\ OK(6)
  BY TryFits
  DEF epoll_multi_file_example, Try
<1>6. OK(7)
  BY TryFits
  DEF epoll_multi_file_example, Try
<1>7. OK(8)
  BY UndoesThree, CheckedFits
  DEF epoll_multi_file_example, Call, Checked
<1>8. /\ OK(9) /\ OK(10)
  BY TryFits
  DEF epoll_multi_file_example, Try
<1>9. /\ OK(11) /\ OK(12)
  BY CloseFits
  DEF epoll_multi_file_example, Close
<1>10. OK(13)
  BY CloseFits
  DEF epoll_multi_file_example, Close
<1> HIDE DEF OK
<1>11. \A p \in 1 .. 13 : OK(p) BY <1>2, <1>3, <1>4, <1>5, <1>6, <1>7, <1>8, <1>9, <1>10
<1> HIDE DEF S, H
<1>12. CheckedWalk(S, H) BY <1>1, <1>11 DEF OK, CheckedWalk
<1> QED BY <1>12, WalkOfCheckedSteps DEF S

\* epoll_edge_triggered_example: epoll_nonblocking.c.
LEMMA epoll_edge_triggered_exampleWalk == HasWalk(epoll_edge_triggered_example)
<1> DEFINE S == epoll_edge_triggered_example
           w == {"fd", "ep"}
           H == << {}, {"ep"}, w, w, w, w, w, w, {"ep"}, {} >>
           OK(p) == Fits(S[p], H[p], {}, H[p + 1], {})
<1>1. Len(S) = 9 /\ H[1] = {} /\ H[10] = {}
  BY DEF epoll_edge_triggered_example
<1>2. /\ OK(1) /\ OK(2)
  BY UndoesNothing, UndoesOne, OpenFits
  DEF epoll_edge_triggered_example, Open
<1>3. OK(3)
  BY TryFits
  DEF epoll_edge_triggered_example, Try
<1>4. /\ OK(4) /\ OK(5)
  BY UndoesTwo, CheckedFits
  DEF epoll_edge_triggered_example, Call, Checked
<1>5. /\ OK(6) /\ OK(7) /\ OK(8) /\ OK(9)
  BY TryFits, CloseFits
  DEF epoll_edge_triggered_example, Try, Close
<1> HIDE DEF OK
<1>6. \A p \in 1 .. 9 : OK(p) BY <1>2, <1>3, <1>4, <1>5
<1> HIDE DEF S, H
<1>7. CheckedWalk(S, H) BY <1>1, <1>6 DEF OK, CheckedWalk
<1> QED BY <1>7, WalkOfCheckedSteps DEF S

\* epoll_timeout_example: epoll_nonblocking.c.
LEMMA epoll_timeout_exampleWalk == HasWalk(epoll_timeout_example)
<1> DEFINE S == epoll_timeout_example
           w == {"fd", "ep"}
           H == << {}, {"ep"}, w, w, w, w, w, w, {"ep"}, {} >>
           OK(p) == Fits(S[p], H[p], {}, H[p + 1], {})
<1>1. Len(S) = 9 /\ H[1] = {} /\ H[10] = {}
  BY DEF epoll_timeout_example
<1>2. /\ OK(1) /\ OK(2)
  BY UndoesNothing, UndoesOne, OpenFits
  DEF epoll_timeout_example, Open
<1>3. /\ OK(3) /\ OK(4)
  BY TryFits
  DEF epoll_timeout_example, Try
<1>4. OK(5)
  BY UndoesTwo, CheckedFits
  DEF epoll_timeout_example, Call, Checked
<1>5. /\ OK(6) /\ OK(7) /\ OK(8) /\ OK(9)
  BY TryFits, CloseFits
  DEF epoll_timeout_example, Try, Close
<1> HIDE DEF OK
<1>6. \A p \in 1 .. 9 : OK(p) BY <1>2, <1>3, <1>4, <1>5
<1> HIDE DEF S, H
<1>7. CheckedWalk(S, H) BY <1>1, <1>6 DEF OK, CheckedWalk
<1> QED BY <1>7, WalkOfCheckedSteps DEF S

\* splice_file_to_pipe: splice_demo.c.
LEMMA splice_file_to_pipeWalk == HasWalk(splice_file_to_pipe)
<1> DEFINE S == splice_file_to_pipe
           w == {"p0", "p1"}
           x == {"fd", "p0", "p1"}
           y == {"fd", "p0"}
           z == {"p0", "fd"}
           H == << {}, w, x, x, y, z, {"p0"}, {} >>
           OK(p) == Fits(S[p], H[p], {}, H[p + 1], {})
<1>1. Len(S) = 7 /\ H[1] = {} /\ H[8] = {}
  BY DEF splice_file_to_pipe
<1>2. /\ OK(1) /\ OK(2)
  BY UndoesNothing, UndoesTwo, OpenFits
  DEF splice_file_to_pipe, Open, Pipe
<1>3. OK(3)
  BY UndoesThree, CheckedFits
  DEF splice_file_to_pipe, Call, Checked
<1>4. /\ OK(4) /\ OK(5)
  BY TryFits, CloseFits
  DEF splice_file_to_pipe, Try, Close
<1>5. /\ OK(6) /\ OK(7)
  BY CloseFits
  DEF splice_file_to_pipe, Close
<1> HIDE DEF OK
<1>6. \A p \in 1 .. 7 : OK(p) BY <1>2, <1>3, <1>4, <1>5
<1> HIDE DEF S, H
<1>7. CheckedWalk(S, H) BY <1>1, <1>6 DEF OK, CheckedWalk
<1> QED BY <1>7, WalkOfCheckedSteps DEF S

\* splice_pipe_to_file: splice_demo.c.
LEMMA splice_pipe_to_fileWalk == HasWalk(splice_pipe_to_file)
<1> DEFINE S == splice_pipe_to_file
           w == {"p0", "p1"}
           x == {"fd", "p0"}
           H == << {}, w, w, {"p0"}, x, x, x, {"p0"}, {} >>
           OK(p) == Fits(S[p], H[p], {}, H[p + 1], {})
<1>1. Len(S) = 8 /\ H[1] = {} /\ H[9] = {}
  BY DEF splice_pipe_to_file
<1>2. OK(1)
  BY UndoesNothing, OpenFits
  DEF splice_pipe_to_file, Pipe
<1>3. /\ OK(2) /\ OK(3)
  BY TryFits, CloseFits
  DEF splice_pipe_to_file, Try, Close
<1>4. /\ OK(4) /\ OK(5) /\ OK(6)
  BY UndoesOne, UndoesTwo, OpenFits, CheckedFits
  DEF splice_pipe_to_file, Open, Write, Sync, Checked
<1>5. /\ OK(7) /\ OK(8)
  BY CloseFits
  DEF splice_pipe_to_file, Close
<1> HIDE DEF OK
<1>6. \A p \in 1 .. 8 : OK(p) BY <1>2, <1>3, <1>4, <1>5
<1> HIDE DEF S, H
<1>7. CheckedWalk(S, H) BY <1>1, <1>6 DEF OK, CheckedWalk
<1> QED BY <1>7, WalkOfCheckedSteps DEF S

\* splice_pipe_to_pipe: splice_demo.c.
LEMMA splice_pipe_to_pipeWalk == HasWalk(splice_pipe_to_pipe)
<1> DEFINE S == splice_pipe_to_pipe
           w == {"p0", "p1"}
           x == {"p0", "p1", "q0", "q1"}
           y == {"p0", "q0", "q1"}
           z == {"p0", "q0"}
           H == << {}, w, x, x, y, y, z, z, {"q0"}, {} >>
           OK(p) == Fits(S[p], H[p], {}, H[p + 1], {})
<1>1. Len(S) = 9 /\ H[1] = {} /\ H[10] = {}
  BY DEF splice_pipe_to_pipe
<1>2. /\ OK(1) /\ OK(2)
  BY UndoesNothing, UndoesTwo, OpenFits
  DEF splice_pipe_to_pipe, Pipe
<1>3. /\ OK(3) /\ OK(4)
  BY TryFits, CloseFits
  DEF splice_pipe_to_pipe, Try, Close
<1>4. OK(5)
  BY UndoesThree, CheckedFits
  DEF splice_pipe_to_pipe, Call, Checked
<1>5. /\ OK(6) /\ OK(7)
  BY TryFits, CloseFits
  DEF splice_pipe_to_pipe, Try, Close
<1>6. /\ OK(8) /\ OK(9)
  BY CloseFits
  DEF splice_pipe_to_pipe, Close
<1> HIDE DEF OK
<1>7. \A p \in 1 .. 9 : OK(p) BY <1>2, <1>3, <1>4, <1>5, <1>6
<1> HIDE DEF S, H
<1>8. CheckedWalk(S, H) BY <1>1, <1>7 DEF OK, CheckedWalk
<1> QED BY <1>8, WalkOfCheckedSteps DEF S

\* splice_chunked: splice_demo.c.
LEMMA splice_chunkedWalk == HasWalk(splice_chunked)
<1> DEFINE S == splice_chunked
           w == {"p0", "p1"}
           x == {"src", "p0", "p1"}
           y == {"src", "dst", "p0", "p1"}
           z == {"dst", "p0", "p1"}
           H == << {}, w, x, x, y, y, y, z, w, {"p1"}, {} >>
           OK(p) == Fits(S[p], H[p], {}, H[p + 1], {})
<1>1. Len(S) = 10 /\ H[1] = {} /\ H[11] = {}
  BY DEF splice_chunked
<1>2. /\ OK(1) /\ OK(2)
  BY UndoesNothing, UndoesTwo, OpenFits
  DEF splice_chunked, Open, Pipe
<1>3. /\ OK(3) /\ OK(4) /\ OK(5) /\ OK(6)
  BY UndoesThree, UndoesFour, OpenFits, CheckedFits
  DEF splice_chunked, Open, Call, WriteAll, Sync, Checked
<1>4. /\ OK(7) /\ OK(8)
  BY CloseFits
  DEF splice_chunked, Close
<1>5. /\ OK(9) /\ OK(10)
  BY CloseFits
  DEF splice_chunked, Close
<1> HIDE DEF OK
<1>6. \A p \in 1 .. 10 : OK(p) BY <1>2, <1>3, <1>4, <1>5
<1> HIDE DEF S, H
<1>7. CheckedWalk(S, H) BY <1>1, <1>6 DEF OK, CheckedWalk
<1> QED BY <1>7, WalkOfCheckedSteps DEF S

\* splice_with_tee: splice_demo.c.
LEMMA splice_with_teeWalk == HasWalk(splice_with_tee)
<1> DEFINE S == splice_with_tee
           w == {"p0", "p1"}
           x == {"p0", "p1", "q0", "q1"}
           y == {"p0", "q0", "q1"}
           z == {"p0", "q0"}
           H == << {}, w, x, x, y, y, z, z, z, {"q0"}, {} >>
           OK(p) == Fits(S[p], H[p], {}, H[p + 1], {})
<1>1. Len(S) = 10 /\ H[1] = {} /\ H[11] = {}
  BY DEF splice_with_tee
<1>2. /\ OK(1) /\ OK(2)
  BY UndoesNothing, UndoesTwo, OpenFits
  DEF splice_with_tee, Pipe
<1>3. /\ OK(3) /\ OK(4)
  BY TryFits, CloseFits
  DEF splice_with_tee, Try, Close
<1>4. OK(5)
  BY UndoesThree, CheckedFits
  DEF splice_with_tee, Call, Checked
<1>5. /\ OK(6) /\ OK(7)
  BY TryFits, CloseFits
  DEF splice_with_tee, Try, Close
<1>6. /\ OK(8) /\ OK(9)
  BY TryFits, CloseFits
  DEF splice_with_tee, Try, Close
<1>7. OK(10)
  BY CloseFits
  DEF splice_with_tee, Close
<1> HIDE DEF OK
<1>8. \A p \in 1 .. 10 : OK(p) BY <1>2, <1>3, <1>4, <1>5, <1>6, <1>7
<1> HIDE DEF S, H
<1>9. CheckedWalk(S, H) BY <1>1, <1>8 DEF OK, CheckedWalk
<1> QED BY <1>9, WalkOfCheckedSteps DEF S

\* sendfile_file_to_file: sendfile_demo.c.
LEMMA sendfile_file_to_fileWalk == HasWalk(sendfile_file_to_file)
<1> DEFINE S == sendfile_file_to_file
           w == {"src", "dst"}
           H == << {}, {"src"}, {"src"}, w, w, w, {"dst"}, {} >>
           OK(p) == Fits(S[p], H[p], {}, H[p + 1], {})
<1>1. Len(S) = 7 /\ H[1] = {} /\ H[8] = {}
  BY DEF sendfile_file_to_file
<1>2. /\ OK(1) /\ OK(2) /\ OK(3) /\ OK(4)
  BY UndoesNothing, UndoesOne, UndoesTwo, OpenFits, CheckedFits
  DEF sendfile_file_to_file, Open, Call, Write, Checked
<1>3. OK(5)
  BY UndoesTwo, CheckedFits
  DEF sendfile_file_to_file, Sync, Checked
<1>4. /\ OK(6) /\ OK(7)
  BY CloseFits
  DEF sendfile_file_to_file, Close
<1> HIDE DEF OK
<1>5. \A p \in 1 .. 7 : OK(p) BY <1>2, <1>3, <1>4
<1> HIDE DEF S, H
<1>6. CheckedWalk(S, H) BY <1>1, <1>5 DEF OK, CheckedWalk
<1> QED BY <1>6, WalkOfCheckedSteps DEF S

\* sendfile_file_to_socket: sendfile_demo.c.
LEMMA sendfile_file_to_socketWalk == HasWalk(sendfile_file_to_socket)
<1> DEFINE S == sendfile_file_to_socket
           w == {"client", "server"}
           x == {"file", "client", "server"}
           H == << {}, {"server"}, {"server"}, {"server"}, {"server"}, w, x, x,
                x, w, {"server"}, {} >>
           OK(p) == Fits(S[p], H[p], {}, H[p + 1], {})
<1>1. Len(S) = 11 /\ H[1] = {} /\ H[12] = {}
  BY DEF sendfile_file_to_socket
<1>2. OK(1)
  BY UndoesNothing, OpenFits
  DEF sendfile_file_to_socket, Open
<1>3. OK(2)
  BY TryFits
  DEF sendfile_file_to_socket, Try
<1>4. /\ OK(3) /\ OK(4) /\ OK(5) /\ OK(6)
  BY UndoesOne, UndoesTwo, OpenFits, CheckedFits
  DEF sendfile_file_to_socket, Open, Call, Checked
<1>5. /\ OK(7) /\ OK(8)
  BY UndoesThree, CheckedFits
  DEF sendfile_file_to_socket, Call, Checked
<1>6. /\ OK(9) /\ OK(10)
  BY CloseFits
  DEF sendfile_file_to_socket, Close
<1>7. OK(11)
  BY CloseFits
  DEF sendfile_file_to_socket, Close
<1> HIDE DEF OK
<1>8. \A p \in 1 .. 11 : OK(p) BY <1>2, <1>3, <1>4, <1>5, <1>6, <1>7
<1> HIDE DEF S, H
<1>9. CheckedWalk(S, H) BY <1>1, <1>8 DEF OK, CheckedWalk
<1> QED BY <1>9, WalkOfCheckedSteps DEF S

\* sendfile_chunked: sendfile_demo.c.
LEMMA sendfile_chunkedWalk == HasWalk(sendfile_chunked)
<1> DEFINE S == sendfile_chunked
           w == {"src", "dst"}
           H == << {}, {"src"}, {"src"}, w, w, w, {"dst"}, {} >>
           OK(p) == Fits(S[p], H[p], {}, H[p + 1], {})
<1>1. Len(S) = 7 /\ H[1] = {} /\ H[8] = {}
  BY DEF sendfile_chunked
<1>2. /\ OK(1) /\ OK(2) /\ OK(3) /\ OK(4)
  BY UndoesNothing, UndoesOne, UndoesTwo, OpenFits, CheckedFits
  DEF sendfile_chunked, Open, Call, WriteAll, Checked
<1>3. OK(5)
  BY UndoesTwo, CheckedFits
  DEF sendfile_chunked, Sync, Checked
<1>4. /\ OK(6) /\ OK(7)
  BY CloseFits
  DEF sendfile_chunked, Close
<1> HIDE DEF OK
<1>5. \A p \in 1 .. 7 : OK(p) BY <1>2, <1>3, <1>4
<1> HIDE DEF S, H
<1>6. CheckedWalk(S, H) BY <1>1, <1>5 DEF OK, CheckedWalk
<1> QED BY <1>6, WalkOfCheckedSteps DEF S

\* compare_performance: sendfile_demo.c.
LEMMA compare_performanceWalk == HasWalk(compare_performance)
<1> DEFINE S == compare_performance
           w == {"src", "dst"}
           H == << {}, {"src"}, {"src"}, w, w, w, {"src"}, {}, {}, {}, {}, {},
                {}, {} >>
           O == << {}, {}, {}, {}, {}, {}, {}, {}, {"src"}, w, w, w, {"src"},
                {} >>
           OK(p) == Fits(S[p], H[p], O[p], H[p + 1], O[p + 1])
<1>1. Len(S) = 13 /\ H[1] = {} /\ H[14] = {} /\ O[1] = {} /\ O[14] = {}
  BY DEF compare_performance
<1>2. /\ OK(1) /\ OK(2) /\ OK(3) /\ OK(4)
  BY UndoesNothing, UndoesOne, UndoesTwo, OpenFits, CheckedFits
  DEF compare_performance, Open, Call, Copy, Checked
<1>3. /\ OK(5) /\ OK(6) /\ OK(7)
  BY TryFits, CloseFits
  DEF compare_performance, Try, Close
<1>4. /\ OK(8) /\ OK(9)
  BY OpenTryFits
  DEF compare_performance, OpenTry
<1>5. /\ OK(10) /\ OK(11)
  BY TryFits
  DEF compare_performance, Try
<1>6. /\ OK(12) /\ OK(13)
  BY CloseTryFits
  DEF compare_performance, CloseTry
<1> HIDE DEF OK
<1>7. \A p \in 1 .. 13 : OK(p) BY <1>2, <1>3, <1>4, <1>5, <1>6
<1> HIDE DEF S, H, O
<1>8. Walks(S, H, O) BY <1>1, <1>7 DEF OK, Walks
<1> QED BY <1>8 DEF S, HasWalk

\* compare_splice_traditional: splice_demo.c.
LEMMA compare_splice_traditionalWalk == HasWalk(compare_splice_traditional)
<1> DEFINE S == compare_splice_traditional
           w == {"src", "dst"}
           x == {"p0", "p1"}
           H == << {}, {"src"}, {"src"}, w, w, w, {"src"}, {}, x, x, x, x, x,
                x, x, x, {"p1"}, {} >>
           O == << {}, {}, {}, {}, {}, {}, {}, {}, {}, {"src"}, w, w, w, w,
                {"src"}, {}, {}, {} >>
           OK(p) == Fits(S[p], H[p], O[p], H[p + 1], O[p + 1])
<1>1. Len(S) = 17 /\ H[1] = {} /\ H[18] = {} /\ O[1] = {} /\ O[18] = {}
  BY DEF compare_splice_traditional
<1>2. /\ OK(1) /\ OK(2) /\ OK(3) /\ OK(4)
  BY UndoesNothing, UndoesOne, UndoesTwo, OpenFits, CheckedFits
  DEF compare_splice_traditional, Open, Call, Copy, Checked
<1>3. /\ OK(5) /\ OK(6) /\ OK(7)
  BY TryFits, CloseFits
  DEF compare_splice_traditional, Try, Close
<1>4. OK(8)
  BY UndoesNothing, OpenFits
  DEF compare_splice_traditional, Pipe
<1>5. /\ OK(9) /\ OK(10)
  BY OpenTryFits
  DEF compare_splice_traditional, OpenTry
<1>6. /\ OK(11) /\ OK(12) /\ OK(13)
  BY TryFits
  DEF compare_splice_traditional, Try
<1>7. /\ OK(14) /\ OK(15)
  BY CloseTryFits
  DEF compare_splice_traditional, CloseTry
<1>8. /\ OK(16) /\ OK(17)
  BY CloseFits
  DEF compare_splice_traditional, Close
<1> HIDE DEF OK
<1>9. \A p \in 1 .. 17 : OK(p) BY <1>2, <1>3, <1>4, <1>5, <1>6, <1>7, <1>8
<1> HIDE DEF S, H, O
<1>10. Walks(S, H, O) BY <1>1, <1>9 DEF OK, Walks
<1> QED BY <1>10 DEF S, HasWalk

\* create_test_file: the main functions.
LEMMA create_test_fileWalk == HasWalk(create_test_file)
<1> DEFINE S == create_test_file
           H == << {}, {"fd"}, {"fd"}, {"fd"}, {} >>
           OK(p) == Fits(S[p], H[p], {}, H[p + 1], {})
<1>1. Len(S) = 4 /\ H[1] = {} /\ H[5] = {}
  BY DEF create_test_file
<1>2. /\ OK(1) /\ OK(2) /\ OK(3) /\ OK(4)
  BY UndoesNothing, OpenFits, TryFits, CloseFits
  DEF create_test_file, Open, Try, Close
<1> HIDE DEF OK
<1>3. \A p \in 1 .. 4 : OK(p) BY <1>2
<1> HIDE DEF S, H
<1>4. CheckedWalk(S, H) BY <1>1, <1>3 DEF OK, CheckedWalk
<1> QED BY <1>4, WalkOfCheckedSteps DEF S

\* open_read_write: 02_file_io/open.c.
LEMMA open_read_writeWalk == HasWalk(open_read_write)
BY standard_read_fileWalk DEF open_read_write, standard_read_file

\* direct_io: 02_file_io/direct_io.c.
LEMMA direct_ioWalk == HasWalk(direct_io)
<1> DEFINE S == direct_io
           w == {"fd", "buf"}
           H == << {}, {"fd"}, w, w, {"fd"}, {} >>
           OK(p) == Fits(S[p], H[p], {}, H[p + 1], {})
<1>1. Len(S) = 5 /\ H[1] = {} /\ H[6] = {}
  BY DEF direct_io
<1>2. /\ OK(1) /\ OK(2) /\ OK(3) /\ OK(4) /\ OK(5)
  BY UndoesNothing, UndoesOne, OpenFits, TryFits, CloseFits
  DEF direct_io, Open, Try, Close
<1> HIDE DEF OK
<1>3. \A p \in 1 .. 5 : OK(p) BY <1>2
<1> HIDE DEF S, H
<1>4. CheckedWalk(S, H) BY <1>1, <1>3 DEF OK, CheckedWalk
<1> QED BY <1>4, WalkOfCheckedSteps DEF S

\* unblocking: 09_epoll/unblocking.c.
LEMMA unblockingWalk == HasWalk(unblocking)
<1> DEFINE S == unblocking
           H == << {}, {"fd"}, {"fd"}, {"fd"}, {"fd"}, {} >>
           OK(p) == Fits(S[p], H[p], {}, H[p + 1], {})
<1>1. Len(S) = 5 /\ H[1] = {} /\ H[6] = {}
  BY DEF unblocking
<1>2. /\ OK(1) /\ OK(2) /\ OK(3) /\ OK(4) /\ OK(5)
  BY UndoesNothing, UndoesOne, OpenFits, CheckedFits, CloseFits
  DEF unblocking, Open, Call, Close, Checked
<1> HIDE DEF OK
<1>3. \A p \in 1 .. 5 : OK(p) BY <1>2
<1> HIDE DEF S, H
<1>4. CheckedWalk(S, H) BY <1>1, <1>3 DEF OK, CheckedWalk
<1> QED BY <1>4, WalkOfCheckedSteps DEF S

\* aio_batch_io: libaio_demo.c.
LEMMA aio_batch_ioWalk == HasWalk(aio_batch_io)
<1> DEFINE S == aio_batch_io
           H == << {}, {} >>
           OK(p) == Fits(S[p], H[p], {}, H[p + 1], {})
<1>1. Len(S) = 1 /\ H[1] = {} /\ H[2] = {}
  BY DEF aio_batch_io
<1>2. OK(1)
  BY UndoesNothing, CheckedFits
  DEF aio_batch_io, Call, Checked
<1> HIDE DEF OK
<1>3. \A p \in 1 .. 1 : OK(p) BY <1>2
<1> HIDE DEF S, H
<1>4. CheckedWalk(S, H) BY <1>1, <1>3 DEF OK, CheckedWalk
<1> QED BY <1>4, WalkOfCheckedSteps DEF S

\* Every routine has a walk.
LEMMA EveryRoutineWalks == \A r \in DOMAIN Routines : HasWalk(Routines[r])
<1> DEFINE G1 == {"standard_write_file", "standard_read_file",
                  "lseek_example", "buffered_write_file",
                  "buffered_read_file", "read_line_by_line"}
<1> DEFINE G2 == {"fprintf_example", "fscanf_example",
                  "standard_io_with_fsync", "mmap_with_msync",
                  "o_direct_io", "standard_io_with_fdatasync"}
<1> DEFINE G3 == {"o_sync_io", "sync_file_range_example", "aio_write",
                  "aio_read", "io_uring_read_example", "epoll_read_example"}
<1> DEFINE G4 == {"epoll_multi_file_example",
                  "epoll_edge_triggered_example", "epoll_timeout_example",
                  "splice_file_to_pipe", "splice_pipe_to_file",
                  "splice_pipe_to_pipe"}
<1> DEFINE G5 == {"splice_chunked", "splice_with_tee",
                  "sendfile_file_to_file", "sendfile_file_to_socket",
                  "sendfile_chunked", "compare_performance"}
<1> DEFINE G6 == {"compare_splice_traditional", "create_test_file",
                  "open_read_write", "direct_io", "unblocking",
                  "aio_batch_io"}
<1>1. \A r \in G1 : HasWalk(Routines[r])
  BY standard_write_fileWalk, standard_read_fileWalk, lseek_exampleWalk,
     buffered_write_fileWalk, buffered_read_fileWalk, read_line_by_lineWalk
  DEF Routines
<1>2. \A r \in G2 : HasWalk(Routines[r])
  BY fprintf_exampleWalk, fscanf_exampleWalk, standard_io_with_fsyncWalk,
     mmap_with_msyncWalk, o_direct_ioWalk, standard_io_with_fdatasyncWalk
  DEF Routines
<1>3. \A r \in G3 : HasWalk(Routines[r])
  BY o_sync_ioWalk, sync_file_range_exampleWalk, aio_writeWalk,
     aio_readWalk, io_uring_read_exampleWalk, epoll_read_exampleWalk
  DEF Routines
<1>4. \A r \in G4 : HasWalk(Routines[r])
  BY epoll_multi_file_exampleWalk, epoll_edge_triggered_exampleWalk,
     epoll_timeout_exampleWalk, splice_file_to_pipeWalk,
     splice_pipe_to_fileWalk, splice_pipe_to_pipeWalk
  DEF Routines
<1>5. \A r \in G5 : HasWalk(Routines[r])
  BY splice_chunkedWalk, splice_with_teeWalk, sendfile_file_to_fileWalk,
     sendfile_file_to_socketWalk, sendfile_chunkedWalk,
     compare_performanceWalk
  DEF Routines
<1>6. \A r \in G6 : HasWalk(Routines[r])
  BY compare_splice_traditionalWalk, create_test_fileWalk,
     open_read_writeWalk, direct_ioWalk, unblockingWalk, aio_batch_ioWalk
  DEF Routines
<1>7. DOMAIN Routines = G1 \cup G2 \cup G3 \cup G4 \cup G5 \cup G6
  BY DEF Routines
<1> HIDE DEF G1, G2, G3, G4, G5, G6
<1> QED BY <1>1, <1>2, <1>3, <1>4, <1>5, <1>6, <1>7

-----------------------------------------------------------------------------
(* The main functions. *)

AioRoutines == {"aio_write", "aio_read"}

\* main calls routines that exist, and no routine that submits to libaio after
\* one that does not.
Calls(m) ==
    /\ Len(m.calls) \in Nat \ {0}
    /\ \A c \in 1 .. Len(m.calls) : m.calls[c] \in DOMAIN Routines
    /\ \A c \in 1 .. Len(m.calls) :
         c < Len(m.calls) /\ m.calls[c + 1] \in AioRoutines
           => m.calls[c] \in AioRoutines

\* A program of one routine does.
LEMMA SingleCalls ==
    ASSUME NEW r \in DOMAIN Routines PROVE Calls(Single(r))
<1>1. Single(r).calls = << r >> /\ Len(<< r >>) = 1 /\ << r >>[1] = r
  BY DEF Single
<1> QED BY <1>1 DEF Calls

\* Every main function does.
LEMMA MainsCall == \A m \in DOMAIN Mains : Calls(Mains[m])
<1> DEFINE R == DOMAIN Routines
<1>1. {"standard_write_file", "standard_read_file", "lseek_example",
       "buffered_write_file", "buffered_read_file", "read_line_by_line",
       "fprintf_example", "fscanf_example", "standard_io_with_fsync",
       "mmap_with_msync", "o_direct_io", "standard_io_with_fdatasync",
       "o_sync_io", "sync_file_range_example"} \subseteq R
  BY DEF Routines
<1>2. {"aio_write", "aio_read", "io_uring_read_example", "epoll_read_example",
       "epoll_multi_file_example", "epoll_edge_triggered_example",
       "epoll_timeout_example", "splice_file_to_pipe", "splice_pipe_to_file",
       "splice_pipe_to_pipe", "splice_chunked", "splice_with_tee"} \subseteq R
  BY DEF Routines
<1>3. {"sendfile_file_to_file", "sendfile_file_to_socket", "sendfile_chunked",
       "compare_performance", "compare_splice_traditional", "create_test_file",
       "open_read_write", "direct_io", "unblocking", "aio_batch_io"} \subseteq R
  BY DEF Routines
<1> HIDE DEF R
<1>4. Calls(standard_io_main)
  BY <1>1 DEF Calls, AioRoutines, standard_io_main, R
<1>5. Calls(buffered_io_main)
  BY <1>1 DEF Calls, AioRoutines, buffered_io_main, R
<1>6. Calls(page_cache_main)
  BY <1>1 DEF Calls, AioRoutines, page_cache_main, R
<1>7. Calls(libaio_main)
  BY <1>2, <1>3 DEF Calls, AioRoutines, libaio_main, R
<1>8. Calls(io_uring_main)
  BY <1>2 DEF Calls, AioRoutines, io_uring_main, R
<1>9. Calls(epoll_nonblocking_main)
  BY <1>2, <1>3 DEF Calls, AioRoutines, epoll_nonblocking_main, R
<1>10. Calls(splice_main)
  BY <1>2, <1>3 DEF Calls, AioRoutines, splice_main, R
<1>11. Calls(sendfile_main)
  BY <1>3 DEF Calls, AioRoutines, sendfile_main, R
<1>12. /\ Calls(Single("sendfile_file_to_socket")) /\ Calls(Single("open_read_write"))
       /\ Calls(Single("direct_io")) /\ Calls(Single("unblocking"))
  BY <1>3, SingleCalls DEF R
<1> QED
  BY <1>4, <1>5, <1>6, <1>7, <1>8, <1>9, <1>10, <1>11, <1>12 DEF Mains

-----------------------------------------------------------------------------
(* Where the data is. *)

\* How far the data of a routine has come: some of it or nothing in the page
\* cache, all of it in the stdio buffer and the page cache, all of it in the
\* page cache, all of it on the disk (s staged, c cached, d on the disk).
InPhase(f, s, c, d) ==
    /\ f = "partial" => s = 0 /\ c <= Size
    /\ f = "staged" => s + c = Size
    /\ f \in {"cached", "disk"} => s = 0 /\ c = Size
    /\ f = "disk" => d = Size

\* The steps of the writers that loop or flush, and sync, take the data from
\* phase f to phase f2.
Advances(s, f, f2) ==
    \/ s.kind \in {"open", "call"} /\ f2 = f
    \/ s.kind = "writeall" /\ f = "partial" /\ f2 = "cached"
    \/ s.kind = "fwrite" /\ f = "partial" /\ f2 = "staged"
    \/ s.kind = "fflush" /\ f = "staged" /\ f2 = "cached"
    \/ s.kind = "store" /\ f = "partial" /\ f2 = "cached"
    \/ s.kind = "sync" /\ f = "cached" /\ f2 = "disk"
    \/ s.kind = "close" /\ f = "disk" /\ f2 = "disk"

\* From nothing written to everything on the disk.
ReachesDisk(S, F) ==
    /\ F[1] = "partial" /\ F[Len(S) + 1] = "disk"
    /\ \A p \in 1 .. Len(S) : Advances(S[p], F[p], F[p + 1])

\* The data of standard_write_file.
LEMMA standard_write_filePhases == \E F : ReachesDisk(standard_write_file, F)
<1> DEFINE S == standard_write_file
           F == << "partial", "partial", "cached", "disk", "disk" >>
           OK(p) == Advances(S[p], F[p], F[p + 1])
<1>1. Len(S) = 4 /\ F[1] = "partial" /\ F[5] = "disk"
  BY DEF standard_write_file
<1>2. /\ OK(1) /\ OK(2) /\ OK(3) /\ OK(4)
  BY DEF Advances, Step, standard_write_file, Open, WriteAll, Sync, Close
<1> HIDE DEF OK
<1>3. \A p \in 1 .. 4 : OK(p) BY <1>2
<1> HIDE DEF S, F
<1>4. ReachesDisk(S, F) BY <1>1, <1>3 DEF OK, ReachesDisk
<1> QED BY <1>4 DEF S

\* The data of buffered_write_file.
LEMMA buffered_write_filePhases == \E F : ReachesDisk(buffered_write_file, F)
<1> DEFINE S == buffered_write_file
           F == << "partial", "partial", "partial", "staged", "cached", "disk",
                "disk" >>
           OK(p) == Advances(S[p], F[p], F[p + 1])
<1>1. Len(S) = 6 /\ F[1] = "partial" /\ F[7] = "disk"
  BY DEF buffered_write_file
<1>2. /\ OK(1) /\ OK(2) /\ OK(3) /\ OK(4) /\ OK(5) /\ OK(6)
  BY DEF Advances, Step, buffered_write_file, Open, Call, Fwrite, Fflush,
         Sync, Close
<1> HIDE DEF OK
<1>3. \A p \in 1 .. 6 : OK(p) BY <1>2
<1> HIDE DEF S, F
<1>4. ReachesDisk(S, F) BY <1>1, <1>3 DEF OK, ReachesDisk
<1> QED BY <1>4 DEF S

\* The data of mmap_with_msync.
LEMMA mmap_with_msyncPhases == \E F : ReachesDisk(mmap_with_msync, F)
<1> DEFINE S == mmap_with_msync
           F == << "partial", "partial", "partial", "partial", "cached",
                "disk", "disk", "disk" >>
           OK(p) == Advances(S[p], F[p], F[p + 1])
<1>1. Len(S) = 7 /\ F[1] = "partial" /\ F[8] = "disk"
  BY DEF mmap_with_msync
<1>2. /\ OK(1) /\ OK(2) /\ OK(3) /\ OK(4) /\ OK(5) /\ OK(6) /\ OK(7)
  BY DEF Advances, Step, mmap_with_msync, Open, Call, Store, Sync, Close
<1> HIDE DEF OK
<1>3. \A p \in 1 .. 7 : OK(p) BY <1>2
<1> HIDE DEF S, F
<1>4. ReachesDisk(S, F) BY <1>1, <1>3 DEF OK, ReachesDisk
<1> QED BY <1>4 DEF S

\* The data of splice_chunked.
LEMMA splice_chunkedPhases == \E F : ReachesDisk(splice_chunked, F)
<1> DEFINE S == splice_chunked
           F == << "partial", "partial", "partial", "partial", "partial",
                "cached", "disk", "disk", "disk", "disk", "disk" >>
           OK(p) == Advances(S[p], F[p], F[p + 1])
<1>1. Len(S) = 10 /\ F[1] = "partial" /\ F[11] = "disk"
  BY DEF splice_chunked
<1>2. /\ OK(1) /\ OK(2) /\ OK(3) /\ OK(4) /\ OK(5)
  BY DEF Advances, Step, splice_chunked, Pipe, Open, Call, WriteAll
<1>3. /\ OK(6) /\ OK(7) /\ OK(8) /\ OK(9) /\ OK(10)
  BY DEF Advances, Step, splice_chunked, Sync, Close
<1> HIDE DEF OK
<1>4. \A p \in 1 .. 10 : OK(p) BY <1>2, <1>3
<1> HIDE DEF S, F
<1>5. ReachesDisk(S, F) BY <1>1, <1>4 DEF OK, ReachesDisk
<1> QED BY <1>5 DEF S

\* The data of sendfile_chunked.
LEMMA sendfile_chunkedPhases == \E F : ReachesDisk(sendfile_chunked, F)
<1> DEFINE S == sendfile_chunked
           F == << "partial", "partial", "partial", "partial", "cached",
                "disk", "disk", "disk" >>
           OK(p) == Advances(S[p], F[p], F[p + 1])
<1>1. Len(S) = 7 /\ F[1] = "partial" /\ F[8] = "disk"
  BY DEF sendfile_chunked
<1>2. /\ OK(1) /\ OK(2) /\ OK(3) /\ OK(4) /\ OK(5) /\ OK(6) /\ OK(7)
  BY DEF Advances, Step, sendfile_chunked, Open, Call, WriteAll, Sync, Close
<1> HIDE DEF OK
<1>3. \A p \in 1 .. 7 : OK(p) BY <1>2
<1> HIDE DEF S, F
<1>4. ReachesDisk(S, F) BY <1>1, <1>3 DEF OK, ReachesDisk
<1> QED BY <1>4 DEF S

\* All the writers that loop or flush, and sync, get their data to the disk.
LEMMA WritersReachDisk ==
    \A r \in LoopingWriters : r \in DOMAIN Routines /\ \E F : ReachesDisk(Routines[r], F)
<1>1. ASSUME NEW r \in LoopingWriters
      PROVE  r \in DOMAIN Routines
  BY DEF LoopingWriters, Routines
<1>2. /\ \E F : ReachesDisk(Routines.standard_write_file, F)
      /\ \E F : ReachesDisk(Routines.buffered_write_file, F)
      /\ \E F : ReachesDisk(Routines.mmap_with_msync, F)
      /\ \E F : ReachesDisk(Routines.splice_chunked, F)
      /\ \E F : ReachesDisk(Routines.sendfile_chunked, F)
  BY standard_write_filePhases, buffered_write_filePhases,
     mmap_with_msyncPhases, splice_chunkedPhases, sendfile_chunkedPhases
  DEF Routines
<1> QED BY <1>1, <1>2 DEF LoopingWriters

-----------------------------------------------------------------------------
(* Requests. *)

\* The requests of the libaio routines are submitted to the context "ctx".
SubmitsToContext(S) ==
    \A p \in 1 .. Len(S) : S[p].kind = "submit" => {"ctx", "buf"} \subseteq S[p].uses

\* Both libaio routines do.
LEMMA AioSubmits ==
    \A r \in AioRoutines : r \in DOMAIN Routines /\ SubmitsToContext(Routines[r])
<1>1. SubmitsToContext(aio_write)
  <2> DEFINE S == aio_write
             OK(p) == S[p].kind = "submit" => {"ctx", "buf"} \subseteq S[p].uses
  <2>1. Len(S) = 10 BY DEF aio_write
  <2>2. /\ OK(1) /\ OK(2) /\ OK(3) /\ OK(4) /\ OK(5) /\ OK(6) /\ OK(7) /\ OK(8)
        /\ OK(9) /\ OK(10)
    BY DEF aio_write, Open, Submit, Reap, Call, Sync, Close, Step
  <2> HIDE DEF OK
  <2>3. \A p \in 1 .. 10 : OK(p) BY <2>2
  <2> HIDE DEF S
  <2>4. SubmitsToContext(S) BY <2>1, <2>3 DEF SubmitsToContext, OK
  <2> QED BY <2>4 DEF S
<1>2. SubmitsToContext(aio_read)
  <2> DEFINE S == aio_read
             OK(p) == S[p].kind = "submit" => {"ctx", "buf"} \subseteq S[p].uses
  <2>1. Len(S) = 9 BY DEF aio_read
  <2>2. /\ OK(1) /\ OK(2) /\ OK(3) /\ OK(4) /\ OK(5) /\ OK(6) /\ OK(7) /\ OK(8)
        /\ OK(9)
    BY DEF aio_read, Open, Submit, Reap, Call, Close, Step
  <2> HIDE DEF OK
  <2>3. \A p \in 1 .. 9 : OK(p) BY <2>2
  <2> HIDE DEF S
  <2>4. SubmitsToContext(S) BY <2>1, <2>3 DEF SubmitsToContext, OK
  <2> QED BY <2>4 DEF S
<1> QED BY <1>1, <1>2 DEF AioRoutines, Routines

-----------------------------------------------------------------------------
(* The inductive invariant. *)

\* A walk of routine r, and phases of writer r.
WalkOf(r) == CHOOSE w : Walks(Routines[r], w.must, w.may)
Must(r) == WalkOf(r).must
May(r) == WalkOf(r).may
Phases(r) == CHOOSE F : ReachesDisk(Routines[r], F)

\* The chosen walk is one.
LEMMA WalkIsOne ==
    ASSUME NEW r \in DOMAIN Routines PROVE Walks(Routines[r], Must(r), May(r))
<1>1. PICK H, O : Walks(Routines[r], H, O)
  BY EveryRoutineWalks DEF HasWalk
<1> DEFINE v == [must |-> H, may |-> O]
<1>2. Walks(Routines[r], v.must, v.may) BY <1>1
<1> HIDE DEF v
<1>3. \E w : Walks(Routines[r], w.must, w.may) BY <1>2
<1> QED BY <1>3 DEF WalkOf, Must, May

\* The chosen phases end on the disk.
LEMMA PhasesReachDisk ==
    ASSUME NEW r \in LoopingWriters PROVE ReachesDisk(Routines[r], Phases(r))
BY WritersReachDisk DEF Phases

FileTypeOK ==
    /\ program \in DOMAIN Mains
    /\ call \in 1 .. Len(Mains[program].calls)
    /\ at \in 1 .. Len(Steps) + 1
    /\ result \in {"running", "ok", "failed"}
    /\ staged \in Nat /\ cached \in Nat /\ disk \in Nat

\* A running routine holds what its walk says; one that succeeded holds
\* nothing; an error branch has exactly the rest to release.
HeldFollowsWalk ==
    /\ result = "running" =>
         /\ cleanup = << >>
         /\ Must(routine)[at] \subseteq held
         /\ held \subseteq Must(routine)[at] \cup May(routine)[at]
    /\ result = "ok" => cleanup = << >> /\ held = {}
    /\ result = "failed" => Undoes(cleanup, held)

\* While a libaio request is in flight, its context and buffer are held.
RequestHeld ==
    routine \in AioRoutines /\ inflight => {"ctx", "buf"} \subseteq held

\* The data of a writer is where its phases say.
DataFollowsPhases ==
    routine \in LoopingWriters =>
      /\ result = "running" => InPhase(Phases(routine)[at], staged, cached, disk)
      /\ result = "ok" => InPhase("disk", staged, cached, disk)

FileInv == FileTypeOK /\ HeldFollowsWalk /\ RequestHeld /\ DataFollowsPhases

\* What is known of the running routine: its steps, and its next step.
LEMMA RoutineFacts ==
    ASSUME FileTypeOK
    PROVE  /\ routine \in DOMAIN Routines
           /\ Walks(Steps, Must(routine), May(routine))
           /\ Len(Steps) \in Nat
<1>1. Calls(Mains[program]) BY MainsCall DEF FileTypeOK
<1>2. routine \in DOMAIN Routines BY <1>1 DEF Calls, FileTypeOK, routine
<1>3. Walks(Steps, Must(routine), May(routine)) BY <1>2, WalkIsOne DEF Steps
<1> QED BY <1>2, <1>3 DEF Walks

\* The next step fits its place in the walk.
LEMMA StepFacts ==
    ASSUME FileTypeOK, at <= Len(Steps)
    PROVE  /\ at \in 1 .. Len(Steps) /\ at + 1 \in 1 .. Len(Steps) + 1
           /\ Fits(step, Must(routine)[at], May(routine)[at],
                   Must(routine)[at + 1], May(routine)[at + 1])
<1>1. Walks(Steps, Must(routine), May(routine)) /\ Len(Steps) \in Nat BY RoutineFacts
<1>2. at \in 1 .. Len(Steps) /\ at + 1 \in 1 .. Len(Steps) + 1 BY <1>1 DEF FileTypeOK
<1> QED BY <1>1, <1>2 DEF Walks, step

\* While main stays in a call, the routine stays the same.
LEMMA SameRoutine ==
    ASSUME UNCHANGED main PROVE routine' = routine /\ Steps' = Steps
<1>1. routine' = routine BY DEF main, routine
<1> QED BY <1>1 DEF Steps

\* The three ways in which a step moves the control.
LEMMA Control ==
    ASSUME [Next]_vars
    PROVE  \/ UNCHANGED <<main, at>>
           \/ /\ UNCHANGED <<main, cleanup, result>>
              /\ result = "running" /\ at <= Len(Steps) /\ at' = at + 1
           \/ NextCall
<1>1. CASE Fail BY <1>1 DEF Fail
<1>2. CASE Acquire BY <1>2 DEF Acquire, AtStep, Goto
<1>3. CASE Proceed BY <1>3 DEF Proceed, AtStep, Goto
<1>4. CASE ReleaseStep BY <1>4 DEF ReleaseStep, AtStep, Goto
<1>5. CASE ReleaseInCleanup BY <1>5 DEF ReleaseInCleanup
<1>6. CASE WriteOnce BY <1>6 DEF WriteOnce, AtStep, Goto
<1>7. CASE WriteLoop BY <1>7 DEF WriteLoop, AtStep
<1>8. CASE CopyLoop BY <1>8 DEF CopyLoop, AtStep
<1>9. CASE Stdio BY <1>9 DEF Stdio, AtStep, Goto
<1>10. CASE SyncStep BY <1>10 DEF SyncStep, AtStep, Goto
<1>11. CASE SubmitStep BY <1>11 DEF SubmitStep, AtStep, Goto
<1>12. CASE Complete BY <1>12 DEF Complete
<1>13. CASE ReapStep BY <1>13 DEF ReapStep, AtStep, Goto
<1>14. CASE WriteBack BY <1>14 DEF WriteBack
<1>15. CASE Return BY <1>15 DEF Return
<1>16. CASE UNCHANGED vars BY <1>16 DEF vars, main
<1> QED
  BY <1>1, <1>2, <1>3, <1>4, <1>5, <1>6, <1>7, <1>8, <1>9, <1>10, <1>11,
     <1>12, <1>13, <1>14, <1>15, <1>16 DEF Next

\* main goes on with a routine of its own.
LEMMA NextRoutine ==
    ASSUME FileTypeOK, NextCall
    PROVE  /\ program' \in DOMAIN Mains
           /\ call' \in 1 .. Len(Mains[program'].calls)
           /\ routine' \in DOMAIN Routines
           /\ Len(Steps') \in Nat
           /\ Walks(Steps', Must(routine'), May(routine'))
           /\ routine' \in AioRoutines => routine \in AioRoutines
<1>1. Calls(Mains[program]) BY MainsCall DEF FileTypeOK
<1>2. /\ program' = program /\ call' = call + 1
      /\ call < Len(Mains[program].calls)
  BY DEF NextCall
<1>3. call' \in 1 .. Len(Mains[program].calls)
  BY <1>1, <1>2 DEF FileTypeOK, Calls
<1>4. routine' = Mains[program].calls[call + 1]
  BY <1>2 DEF routine
<1>5. routine' \in DOMAIN Routines
  BY <1>1, <1>2, <1>3, <1>4 DEF Calls
<1>6. routine' \in AioRoutines => routine \in AioRoutines
  BY <1>1, <1>2, <1>4 DEF Calls, FileTypeOK, routine
<1>7. Walks(Steps', Must(routine'), May(routine'))
  BY <1>5, WalkIsOne DEF Steps
<1> QED BY <1>2, <1>3, <1>5, <1>6, <1>7 DEF Walks, FileTypeOK

\* The types are kept.
LEMMA TypesKept == ASSUME FileTypeOK, [Next]_vars PROVE FileTypeOK'
<1>1. program' \in DOMAIN Mains /\ call' \in 1 .. Len(Mains[program'].calls)
  <2>1. CASE UNCHANGED main BY <2>1 DEF FileTypeOK, main
  <2>2. CASE NextCall BY <2>2, NextRoutine
  <2> QED BY <2>1, <2>2, Control
<1>2. at' \in 1 .. Len(Steps') + 1
  <2>1. CASE UNCHANGED <<main, at>>
    BY <2>1, SameRoutine DEF FileTypeOK
  <2>2. CASE UNCHANGED main /\ at <= Len(Steps) /\ at' = at + 1
    BY <2>2, SameRoutine, StepFacts
  <2>3. CASE NextCall
    BY <2>3, NextRoutine DEF NextCall
  <2> QED BY <2>1, <2>2, <2>3, Control
<1>3. result' \in {"running", "ok", "failed"}
  <2>1. CASE Fail BY <2>1 DEF Fail
  <2>2. CASE ReleaseInCleanup BY <2>2 DEF ReleaseInCleanup, FileTypeOK
  <2>3. CASE WriteLoop BY <2>3 DEF WriteLoop, FileTypeOK
  <2>4. CASE CopyLoop BY <2>4 DEF CopyLoop, FileTypeOK
  <2>5. CASE Complete BY <2>5 DEF Complete, FileTypeOK
  <2>6. CASE WriteBack BY <2>6 DEF WriteBack, FileTypeOK
  <2>7. CASE Return BY <2>7 DEF Return
  <2>8. CASE NextCall BY <2>8 DEF NextCall
  <2>9. CASE UNCHANGED vars BY <2>9 DEF vars, FileTypeOK
  <2>10. CASE Goto BY <2>10 DEF Goto, FileTypeOK
  <2> QED
    BY <2>1, <2>2, <2>3, <2>4, <2>5, <2>6, <2>7, <2>8, <2>9, <2>10
    DEF Next, Acquire, Proceed, ReleaseStep, WriteOnce, Stdio, SyncStep,
        SubmitStep, ReapStep
<1>4. staged' \in Nat /\ cached' \in Nat /\ disk' \in Nat
  <2> USE SizeAssumption DEF FileTypeOK
  <2>1. CASE UNCHANGED data BY <2>1 DEF data
  <2>2. CASE \E res : Released(res) BY <2>2 DEF Released
  <2>3. CASE WriteOnce BY <2>3 DEF WriteOnce
  <2>4. CASE WriteLoop BY <2>4 DEF WriteLoop
  <2>5. CASE CopyLoop BY <2>5 DEF CopyLoop
  <2>6. CASE Stdio BY <2>6 DEF Stdio
  <2>7. CASE SyncStep BY <2>7 DEF SyncStep
  <2>8. CASE WriteBack BY <2>8 DEF WriteBack
  <2>9. CASE NextCall BY <2>9 DEF NextCall
  <2>10. CASE UNCHANGED vars BY <2>10 DEF vars
  <2> QED
    BY <2>1, <2>2, <2>3, <2>4, <2>5, <2>6, <2>7, <2>8, <2>9, <2>10
    DEF Next, Fail, Acquire, Proceed, ReleaseStep, ReleaseInCleanup,
        SubmitStep, Complete, ReapStep, Return
<1> QED BY <1>1, <1>2, <1>3, <1>4 DEF FileTypeOK

\* A step at its place in the walk, of a kind that changes nothing that is held.
LEMMA PassesOn ==
    ASSUME FileTypeOK, HeldFollowsWalk, Goto, UNCHANGED held,
           NEW K, AtStep(K), "open" \notin K, "close" \notin K
    PROVE  HeldFollowsWalk'
<1>1. result = "running" /\ at <= Len(Steps) /\ step.kind \in K BY DEF AtStep
<1>2. Fits(step, Must(routine)[at], May(routine)[at],
           Must(routine)[at + 1], May(routine)[at + 1])
  BY <1>1, StepFacts
<1>3. routine' = routine /\ at' = at + 1 /\ cleanup' = cleanup /\ result' = result
  BY SameRoutine DEF Goto
<1>4. /\ Must(routine)[at + 1] = Must(routine)[at]
      /\ May(routine)[at] \subseteq May(routine)[at + 1]
  BY <1>1, <1>2 DEF Fits
<1> QED BY <1>1, <1>3, <1>4 DEF HeldFollowsWalk

\* What is held follows the walk.
LEMMA HeldKept == ASSUME FileInv, [Next]_vars PROVE HeldFollowsWalk'
<1> USE DEF FileInv
<1>1. CASE Fail
  <2>1. result = "running" /\ at <= Len(Steps) /\ step.kind \in Checked
    BY <1>1 DEF Fail, AtStep
  <2>2. May(routine)[at] = {} /\ Undoes(step.undo, Must(routine)[at])
    BY <2>1, StepFacts DEF Fits
  <2>3. held = Must(routine)[at]
    BY <2>1, <2>2 DEF HeldFollowsWalk
  <2> QED BY <1>1, <2>2, <2>3 DEF Fail, HeldFollowsWalk
<1>2. CASE Acquire
  <2>1. /\ result = "running" /\ at <= Len(Steps)
        /\ step.kind = "open" \/ step.kind = "opentry"
    BY <1>2 DEF Acquire, AtStep
  <2>2. Fits(step, Must(routine)[at], May(routine)[at],
             Must(routine)[at + 1], May(routine)[at + 1])
    BY <2>1, StepFacts
  <2>3. /\ routine' = routine /\ at' = at + 1 /\ cleanup' = cleanup
        /\ result' = result /\ held' = held \cup step.res
    BY <1>2, SameRoutine DEF Acquire, Goto
  <2>4. /\ Must(routine)[at + 1] \subseteq held \cup step.res
        /\ held \cup step.res \subseteq Must(routine)[at + 1] \cup May(routine)[at + 1]
    BY <2>1, <2>2 DEF Fits, HeldFollowsWalk
  <2> QED BY <2>1, <2>3, <2>4 DEF HeldFollowsWalk
<1>3. CASE Proceed BY <1>3, PassesOn DEF Proceed
<1>4. CASE ReleaseStep
  <2>1. result = "running" /\ at <= Len(Steps) /\ step.kind = "close"
    BY <1>4 DEF ReleaseStep, AtStep
  <2>2. Fits(step, Must(routine)[at], May(routine)[at],
             Must(routine)[at + 1], May(routine)[at + 1])
    BY <2>1, StepFacts
  <2>3. /\ routine' = routine /\ at' = at + 1 /\ cleanup' = cleanup
        /\ result' = result /\ held' = held \ step.res
    BY <1>4, SameRoutine DEF ReleaseStep, Released, Goto
  <2>4. /\ Must(routine)[at + 1] \subseteq held \ step.res
        /\ held \ step.res \subseteq Must(routine)[at + 1] \cup May(routine)[at + 1]
    BY <2>1, <2>2 DEF Fits, HeldFollowsWalk
  <2> QED BY <2>1, <2>3, <2>4 DEF HeldFollowsWalk
<1>5. CASE ReleaseInCleanup
  <2>1. Undoes(cleanup, held) /\ cleanup # << >> /\ result' = "failed"
    BY <1>5 DEF ReleaseInCleanup, HeldFollowsWalk
  <2>2. Undoes(Tail(cleanup), held \ {Head(cleanup)})
    BY <2>1, UndoesRest
  <2> QED BY <1>5, <2>1, <2>2 DEF ReleaseInCleanup, Released, HeldFollowsWalk
<1>6. CASE WriteOnce BY <1>6, PassesOn DEF WriteOnce
<1>7. CASE WriteLoop \/ CopyLoop
  <2>1. PICK K \in {{"writeall"}, {"copy"}} : AtStep(K)
    BY <1>7 DEF WriteLoop, CopyLoop
  <2>2. CASE Goto BY <1>7, <2>1, <2>2, PassesOn DEF WriteLoop, CopyLoop
  <2>3. CASE at' = at
    <3>1. routine' = routine BY <1>7, SameRoutine DEF WriteLoop, CopyLoop
    <3> QED BY <1>7, <2>3, <3>1 DEF WriteLoop, CopyLoop, HeldFollowsWalk
  <2> QED BY <1>7, <2>2, <2>3 DEF WriteLoop, CopyLoop, Goto
<1>8. CASE Stdio
  <2>1. PICK K \in {{"fwrite"}, {"fflush"}, {"store"}} : AtStep(K)
    BY <1>8 DEF Stdio
  <2> QED BY <1>8, <2>1, PassesOn DEF Stdio
<1>9. CASE SyncStep BY <1>9, PassesOn DEF SyncStep
<1>10. CASE SubmitStep BY <1>10, PassesOn DEF SubmitStep
<1>11. CASE ReapStep BY <1>11, PassesOn DEF ReapStep
<1>12. CASE Complete \/ WriteBack \/ UNCHANGED vars
  <2>1. UNCHANGED main BY <1>12 DEF Complete, WriteBack, vars, main
  <2>2. routine' = routine BY <2>1, SameRoutine
  <2> QED BY <1>12, <2>2 DEF Complete, WriteBack, vars, HeldFollowsWalk
<1>13. CASE Return
  <2>1. Must(routine)[Len(Steps) + 1] = {} /\ May(routine)[Len(Steps) + 1] = {}
    BY RoutineFacts DEF Walks
  <2>2. held = {} /\ cleanup = << >>
    BY <1>13, <2>1 DEF Return, HeldFollowsWalk
  <2> QED BY <1>13, <2>2 DEF Return, HeldFollowsWalk
<1>14. CASE NextCall
  <2>1. held = {} /\ cleanup = << >>
    BY <1>14 DEF NextCall, Returned, HeldFollowsWalk, FileTypeOK, Undoes
  <2>2. Must(routine')[1] = {} /\ May(routine')[1] = {}
    BY <1>14, NextRoutine DEF Walks
  <2>3. /\ at' = 1 /\ result' = "running" /\ held' = held /\ cleanup' = cleanup
    BY <1>14 DEF NextCall
  <2> QED BY <2>1, <2>2, <2>3 DEF HeldFollowsWalk
<1> QED
  BY <1>1, <1>2, <1>3, <1>4, <1>5, <1>6, <1>7, <1>8, <1>9, <1>10, <1>11,
     <1>12, <1>13, <1>14 DEF Next

\* The buffer and the context of a libaio request stay while it is in flight.
LEMMA RequestKept == ASSUME FileInv, [Next]_vars PROVE RequestHeld'
<1> USE DEF FileInv
<1>1. CASE UNCHANGED main /\ (inflight' => inflight) /\ held \subseteq held'
  BY <1>1, SameRoutine DEF RequestHeld
<1>2. CASE ReleaseStep
  <2>1. result = "running" /\ at <= Len(Steps) /\ step.kind = "close"
    BY <1>2 DEF ReleaseStep, AtStep
  <2>2. "buf" \in step.res => "ctx" \notin Must(routine)[at] \cup May(routine)[at]
    BY <2>1, StepFacts DEF Fits
  <2>3. "buf" \in step.res => "ctx" \notin held
    BY <2>1, <2>2 DEF HeldFollowsWalk
  <2>4. /\ routine' = routine /\ held' = held \ step.res
        /\ inflight' = (inflight /\ "ctx" \notin step.res)
    BY <1>2, SameRoutine DEF ReleaseStep, Released, Goto
  <2> QED BY <2>3, <2>4 DEF RequestHeld
<1>3. CASE ReleaseInCleanup
  <2>1. Undoes(cleanup, held) /\ cleanup # << >>
    BY <1>3 DEF ReleaseInCleanup, HeldFollowsWalk
  <2>2. Head(cleanup) = "buf" => "ctx" \notin held
    BY <2>1, UndoesRest
  <2>3. /\ routine' = routine /\ held' = held \ {Head(cleanup)}
        /\ inflight' = (inflight /\ "ctx" \notin {Head(cleanup)})
    BY <1>3, SameRoutine DEF ReleaseInCleanup, Released
  <2> QED BY <2>2, <2>3 DEF RequestHeld
<1>4. CASE SubmitStep
  <2>1. result = "running" /\ at <= Len(Steps) /\ step.kind = "submit"
    BY <1>4 DEF SubmitStep, AtStep
  <2>2. at \in 1 .. Len(Steps) /\ step.uses \subseteq held
    BY <2>1, StepFacts DEF Fits, HeldFollowsWalk
  <2>3. routine \in AioRoutines => {"ctx", "buf"} \subseteq step.uses
    BY <2>1, <2>2, AioSubmits DEF SubmitsToContext, Steps, step
  <2>4. routine' = routine /\ held' = held
    BY <1>4, SameRoutine DEF SubmitStep, Goto
  <2> QED BY <2>2, <2>3, <2>4 DEF RequestHeld
<1>5. CASE NextCall
  <2>1. held = {}
    BY <1>5 DEF NextCall, Returned, HeldFollowsWalk, FileTypeOK, Undoes
  <2>2. routine' \in AioRoutines => routine \in AioRoutines
    BY <1>5, NextRoutine
  <2> QED BY <1>5, <2>1, <2>2 DEF NextCall, RequestHeld
<1>6. CASE UNCHANGED vars BY <1>1, <1>6 DEF vars, main
<1> QED
  BY <1>1, <1>2, <1>3, <1>4, <1>5, <1>6
  DEF Next, Fail, Acquire, Proceed, WriteOnce, WriteLoop, CopyLoop, Stdio,
      SyncStep, Complete, ReapStep, WriteBack, Return, Goto

\* The next step of a writer is in its phase.
LEMMA PhaseFacts ==
    ASSUME FileInv, routine \in LoopingWriters, result = "running",
           NEW K, AtStep(K)
    PROVE  /\ step.kind \in K
           /\ InPhase(Phases(routine)[at], staged, cached, disk)
           /\ Advances(step, Phases(routine)[at], Phases(routine)[at + 1])
<1>1. at \in 1 .. Len(Steps) /\ step.kind \in K
  BY StepFacts DEF AtStep, FileInv
<1>2. ReachesDisk(Steps, Phases(routine)) BY PhasesReachDisk DEF Steps
<1> QED BY <1>1, <1>2 DEF ReachesDisk, step, DataFollowsPhases, FileInv

\* A step that takes the data from one phase to the next keeps the invariant.
LEMMA NextPhase ==
    ASSUME FileTypeOK, Goto, result = "running",
           routine \in LoopingWriters =>
             InPhase(Phases(routine)[at + 1], staged', cached', disk')
    PROVE  DataFollowsPhases'
<1>1. routine' = routine /\ at' = at + 1 /\ result' = "running"
  BY SameRoutine DEF Goto
<1> QED BY <1>1 DEF DataFollowsPhases

\* The data of a writer stays in its phases, and is on the disk when it reports
\* success.
LEMMA DataKept == ASSUME FileInv, [Next]_vars PROVE DataFollowsPhases'
<1> USE SizeAssumption DEF FileInv
<1> DEFINE f == Phases(routine)[at]
           f2 == Phases(routine)[at + 1]
           After(g) == InPhase(g, staged', cached', disk')
<1>1. CASE Goto /\ UNCHANGED data /\ AtStep({"open", "opentry", "call", "try",
                                            "submit", "reap"})
  <2>1. result = "running" BY <1>1 DEF AtStep
  <2>2. ASSUME routine \in LoopingWriters PROVE After(f2)
    <3>1. /\ step.kind \in {"open", "opentry", "call", "try", "submit", "reap"}
          /\ InPhase(f, staged, cached, disk) /\ Advances(step, f, f2)
      BY <1>1, <2>1, <2>2, PhaseFacts
    <3>2. f2 = f BY <3>1 DEF Advances
    <3> QED BY <1>1, <3>1, <3>2 DEF data
  <2> QED BY <1>1, <2>1, <2>2, NextPhase
<1>2. CASE ReleaseStep
  <2>1. result = "running" BY <1>2 DEF ReleaseStep, AtStep
  <2>2. ASSUME routine \in LoopingWriters PROVE After(f2)
    <3>1. /\ step.kind \in {"close"}
          /\ InPhase(f, staged, cached, disk) /\ Advances(step, f, f2)
      BY <1>2, <2>1, <2>2, PhaseFacts DEF ReleaseStep
    <3>2. f = "disk" /\ f2 = "disk" BY <3>1 DEF Advances
    <3>3. staged = 0 /\ cached = Size /\ disk = Size BY <3>1, <3>2 DEF InPhase
    <3>4. staged' = 0 /\ cached' = Size /\ disk' = Size
      BY <1>2, <3>3 DEF ReleaseStep, Released
    <3> QED BY <3>2, <3>4 DEF InPhase
  <2> QED BY <1>2, <2>1, <2>2, NextPhase DEF ReleaseStep
<1>3. CASE WriteOnce
  <2>1. result = "running" BY <1>3 DEF WriteOnce, AtStep
  <2>2. routine \notin LoopingWriters
    <3> SUFFICES ASSUME routine \in LoopingWriters PROVE FALSE
      OBVIOUS
    <3>1. step.kind \in {"write", "writesync"} /\ Advances(step, f, f2)
      BY <1>3, <2>1, PhaseFacts DEF WriteOnce
    <3> QED BY <3>1 DEF Advances
  <2> QED BY <1>3, <2>1, <2>2, NextPhase DEF WriteOnce
<1>4. CASE WriteLoop
  <2>1. result = "running" /\ AtStep({"writeall"}) BY <1>4 DEF WriteLoop, AtStep
  <2>2. routine' = routine /\ result' = "running" /\ staged' = staged
    BY <1>4, <2>1, SameRoutine DEF WriteLoop
  <2> SUFFICES ASSUME routine \in LoopingWriters
               PROVE  After(Phases(routine)[at'])
    BY <2>2 DEF DataFollowsPhases
  <2>3. f = "partial" /\ f2 = "cached" /\ staged = 0 /\ cached <= Size
    BY <2>1, PhaseFacts DEF Advances, InPhase
  <2>4. PICK m \in 1 .. Size - cached : cached' = cached + m
    BY <1>4 DEF WriteLoop
  <2>5. CASE cached' = Size
    BY <1>4, <2>2, <2>3, <2>5 DEF WriteLoop, InPhase
  <2>6. CASE cached' # Size
    <3>1. at' = at BY <1>4, <2>6 DEF WriteLoop
    <3>2. cached' <= Size BY <2>3, <2>4 DEF FileTypeOK
    <3> QED BY <2>2, <2>3, <3>1, <3>2 DEF InPhase
  <2> QED BY <2>5, <2>6
<1>5. CASE CopyLoop
  <2>1. result = "running" /\ AtStep({"copy"}) BY <1>5 DEF CopyLoop, AtStep
  <2>2. routine \notin LoopingWriters
    <3> SUFFICES ASSUME routine \in LoopingWriters PROVE FALSE
      OBVIOUS
    <3>1. step.kind \in {"copy"} /\ Advances(step, f, f2)
      BY <2>1, PhaseFacts
    <3> QED BY <3>1 DEF Advances
  <2> QED BY <1>5, <2>2, SameRoutine DEF CopyLoop, DataFollowsPhases
<1>6. CASE Stdio
  <2>1. result = "running" BY <1>6 DEF Stdio, AtStep
  <2>2. ASSUME routine \in LoopingWriters PROVE After(f2)
    <3>1. CASE AtStep({"fwrite"}) /\ \E m \in 0 .. Size : staged' = m /\ cached' = Size - m
      <4>1. f2 = "staged" BY <2>1, <2>2, <3>1, PhaseFacts DEF Advances
      <4> QED BY <3>1, <4>1 DEF InPhase
    <3>2. CASE AtStep({"fflush"}) /\ staged' = 0 /\ cached' = cached + staged
      <4>1. f2 = "cached" /\ staged + cached = Size
        BY <2>1, <2>2, <3>2, PhaseFacts DEF Advances, InPhase
      <4> QED BY <3>2, <4>1 DEF InPhase, FileTypeOK
    <3>3. CASE AtStep({"store"}) /\ staged' = 0 /\ cached' = Size
      <4>1. f2 = "cached" BY <2>1, <2>2, <3>3, PhaseFacts DEF Advances
      <4> QED BY <3>3, <4>1 DEF InPhase
    <3> QED BY <1>6, <3>1, <3>2, <3>3 DEF Stdio
  <2> QED BY <1>6, <2>1, <2>2, NextPhase DEF Stdio
<1>7. CASE SyncStep
  <2>1. result = "running" BY <1>7 DEF SyncStep, AtStep
  <2>2. ASSUME routine \in LoopingWriters PROVE After(f2)
    <3>1. f2 = "disk" /\ staged = 0 /\ cached = Size
      BY <1>7, <2>1, <2>2, PhaseFacts DEF SyncStep, Advances, InPhase
    <3> QED BY <1>7, <3>1 DEF SyncStep, InPhase
  <2> QED BY <1>7, <2>1, <2>2, NextPhase DEF SyncStep
<1>8. CASE UNCHANGED <<main, at, result, data>>
  <2>1. routine' = routine BY <1>8, SameRoutine
  <2> QED BY <1>8, <2>1 DEF DataFollowsPhases, data
<1>9. CASE WriteBack
  <2>1. /\ routine' = routine /\ at' = at /\ result' = result
        /\ staged' = staged /\ cached' = cached /\ disk' = disk + 1 /\ disk < cached
    BY <1>9, SameRoutine DEF WriteBack
  <2>2. ASSUME NEW g, InPhase(g, staged, cached, disk) PROVE After(g)
    BY <2>1, <2>2 DEF InPhase
  <2> QED BY <2>1, <2>2 DEF DataFollowsPhases
<1>10. CASE Fail \/ ReleaseInCleanup
  <2>1. result' = "failed" BY <1>10 DEF Fail, ReleaseInCleanup
  <2> QED BY <2>1 DEF DataFollowsPhases
<1>11. CASE Return
  <2>1. routine' = routine /\ result' = "ok" /\ UNCHANGED data
    BY <1>11, SameRoutine DEF Return
  <2>2. ASSUME routine \in LoopingWriters PROVE f = "disk"
    <3>1. ReachesDisk(Steps, Phases(routine)) BY <2>2, PhasesReachDisk DEF Steps
    <3> QED BY <1>11, <3>1 DEF ReachesDisk, Return
  <2> QED BY <1>11, <2>1, <2>2 DEF DataFollowsPhases, Return, data
<1>12. CASE NextCall
  <2>1. at' = 1 /\ result' = "running" /\ staged' = 0 /\ cached' = 0
    BY <1>12 DEF NextCall
  <2>2. ASSUME routine' \in LoopingWriters PROVE Phases(routine')[1] = "partial"
    BY <2>2, PhasesReachDisk DEF ReachesDisk
  <2> QED BY <2>1, <2>2 DEF DataFollowsPhases, InPhase
<1>13. CASE UNCHANGED vars BY <1>8, <1>13 DEF vars, main, data
<1>14. CASE Acquire \/ Proceed \/ SubmitStep \/ ReapStep
  BY <1>1, <1>14 DEF Acquire, Proceed, SubmitStep, ReapStep, AtStep
<1>15. CASE Complete BY <1>8, <1>15 DEF Complete
<1> QED
  BY <1>2, <1>3, <1>4, <1>5, <1>6, <1>7, <1>9, <1>10, <1>11, <1>12, <1>13,
     <1>14, <1>15 DEF Next

-----------------------------------------------------------------------------
(* The theorems. *)

\* The invariant holds when a program starts.
LEMMA FileInit == ASSUME Init PROVE FileInv
<1>1. /\ program \in DOMAIN Mains /\ call = 1 /\ at = 1 /\ cleanup = << >>
      /\ result = "running" /\ held = {} /\ inflight = FALSE
      /\ staged = 0 /\ cached = 0 /\ disk = 0
  BY DEF Init
<1>2. Calls(Mains[program]) BY <1>1, MainsCall
<1>3. call \in 1 .. Len(Mains[program].calls) BY <1>1, <1>2 DEF Calls
<1>4. routine \in DOMAIN Routines BY <1>2, <1>3 DEF Calls, routine
<1>5. Walks(Steps, Must(routine), May(routine)) BY <1>4, WalkIsOne DEF Steps
<1>6. at \in 1 .. Len(Steps) + 1 BY <1>1, <1>5 DEF Walks
<1>7. FileTypeOK BY <1>1, <1>3, <1>6 DEF FileTypeOK
<1>8. HeldFollowsWalk BY <1>1, <1>5 DEF HeldFollowsWalk, Walks
<1>9. RequestHeld BY <1>1 DEF RequestHeld
<1>10. DataFollowsPhases
  <2>1. routine \in LoopingWriters => Phases(routine)[1] = "partial"
    BY PhasesReachDisk DEF ReachesDisk
  <2> QED BY <1>1, <2>1, SizeAssumption DEF DataFollowsPhases, InPhase
<1> QED BY <1>7, <1>8, <1>9, <1>10 DEF FileInv

\* The invariant holds in every state.
LEMMA FileInvariant == Spec => []FileInv
<1>1. Init => FileInv BY FileInit
<1>2. FileInv /\ [Next]_vars => FileInv'
  BY TypesKept, HeldKept, RequestKept, DataKept DEF FileInv
<1> QED BY <1>1, <1>2, PTL DEF Spec

\* No routine of the file I/O programs leaks: whichever of its calls fail, and
\* whichever routines failed before it, what it opened, mapped or allocated is
\* released when it returns.
THEOREM RoutinesNeverLeak == Spec => []NoLeak
<1>1. FileInv => NoLeak
  BY DEF FileInv, FileTypeOK, HeldFollowsWalk, NoLeak, Returned, Undoes
<1> QED BY <1>1, FileInvariant, PTL

\* Nothing is closed or freed twice and nothing is used before it is opened or
\* after it was closed, on the way to success and in the error branches.
THEOREM OnlyHeldIsEverUsed == Spec => []OnlyHeldIsUsed
<1>1. ASSUME FileInv PROVE OnlyHeldIsUsed
  <2>1. ASSUME cleanup # << >> PROVE Head(cleanup) \in held
    <3>1. Undoes(cleanup, held)
      BY <1>1, <2>1 DEF FileInv, FileTypeOK, HeldFollowsWalk
    <3> QED BY <2>1, <3>1, UndoesRest
  <2>2. ASSUME result = "running", at <= Len(Steps) PROVE step.uses \subseteq held
    BY <1>1, <2>2, StepFacts DEF FileInv, HeldFollowsWalk, Fits
  <2> QED BY <2>1, <2>2 DEF OnlyHeldIsUsed
<1> QED BY <1>1, FileInvariant, PTL

\* The buffer of a libaio request is never freed under the device.
THEOREM BufferAlwaysOutlivesRequest == Spec => []BufferOutlivesRequest
<1>1. FileInv => BufferOutlivesRequest
  BY DEF FileInv, RequestHeld, BufferOutlivesRequest, AioRoutines
<1> QED BY <1>1, FileInvariant, PTL

\* For every amount of data and every way in which writes are short: a writer
\* that loops or flushes, and syncs, reports success only with its data on the
\* disk.
THEOREM SuccessIsAlwaysDurable == Spec => []SuccessIsDurable
<1>1. FileInv => SuccessIsDurable
  BY DEF FileInv, DataFollowsPhases, InPhase, SuccessIsDurable
<1> QED BY <1>1, FileInvariant, PTL
=============================================================================

------------------------------- MODULE Bufio -------------------------------
(***************************************************************************)
(* One buffered stdio stream (libc/stdio/bufio*.c and the FILE operations  *)
(* above it) on top of a POSIX file descriptor.                            *)
(*                                                                         *)
(* The state is the FILE record bf, the descriptor fd (external: the       *)
(* kernel's file, its end and its offset) and call, the last library call  *)
(* with its result.  A C function that works on the stream is an operator  *)
(* from (bf, fd) to the SET of its outcomes [bf, fd, ret]: the set has one *)
(* member per behaviour of the read, write and lseek calls it makes.  Each *)
(* public function is one action.  The functions hold the stream's lock    *)
(* from end to end, so an action is a whole call; what the lock itself     *)
(* does is the subject of StdioFiles.                                      *)
(*                                                                         *)
(* A definition named X_slip is X with a plausible mistake; the properties *)
(* are shown to notice it.                                                 *)
(***************************************************************************)
EXTENDS Integers, FiniteSets

CONSTANTS
    Byte,       \* the byte values, 0 among them (what a hole reads as)
    NL,         \* the byte '\n'
    Capacity,   \* the device holds this many bytes; writing past it fails
    BUFSIZ,     \* the buffer size fdopen and freopen give a stream
    MaxSize,    \* the largest buffer size setvbuf is called with
    Modes,      \* the fopen modes in use
    Reopens,    \* how freopen is called: "same", "other", "null"
    Lseek,      \* "works"; "fails": a pipe (ESPIPE); "absent": no lseek function
    Offsets,    \* the offsets fseek is called with
    Setvbufs,   \* the arguments <<buf given, mode, size>> of setvbuf
    IOErrors    \* TRUE: any read or write may fail

ASSUME ByteAssumption == Byte \subseteq Nat /\ 0 \in Byte /\ NL \in Byte
ASSUME SizeAssumption ==
    /\ Capacity \in Nat
    /\ MaxSize \in Nat
    /\ BUFSIZ \in 1..MaxSize
ASSUME CallAssumption ==
    /\ Modes \subseteq {"r", "w", "a", "r+", "w+", "a+"}
    /\ Reopens \subseteq {"same", "other", "null"}
    /\ Lseek \in {"works", "fails", "absent"}
    /\ Offsets \subseteq Int
    /\ Setvbufs \subseteq BOOLEAN \X {"NBF", "LBF", "FBF", "bad"} \X (0..MaxSize)
    /\ IOErrors \in BOOLEAN

VARIABLES bf, fd, call

vars == <<bf, fd, call>>

(***************************************************************************)
(* Values.                                                                 *)
(***************************************************************************)
ERR == -1       \* _FDEV_ERR
FEOF == -2      \* _FDEV_EOF
EOF == -1

\* The addresses a file or a pending write can reach.
Addr == 0..(Capacity + MaxSize)

\* buf has MaxSize + 1 cells so that a store one past the end is visible.
Idx == 0..MaxSize

\* A cell of buf outside the valid data: its bytes are never meant to be used.
Dead == -1

NoData == [i \in Idx |-> Dead]

FileFlag == {"SRD", "SWR", "SERR", "SEOF"}

FILE == [open : BOOLEAN, flags : SUBSET FileFlag, unget : Nat,
         dir : {"0", "SRD", "SWR"}, lbf : BOOLEAN, ball : BOOLEAN,
         where : {"FILE", "heap", "user"}, heap : Int,
         pos : Int, buf : [Idx -> Byte \cup {Dead}],
         size : 1..MaxSize, len : Nat, off : Nat, peak : Nat]

FD == [file : [Addr -> Byte], end : 0..Capacity, pos : Nat,
       append : BOOLEAN]

Outcome(b, d, r) == [bf |-> b, fd |-> d, ret |-> r]

Min2(a, b) == IF a <= b THEN a ELSE b
Max2(a, b) == IF a >= b THEN a ELSE b

(***************************************************************************)
(* The descriptor (external).                                              *)
(***************************************************************************)

\* Where write() puts its data: at the end of the file under O_APPEND.
WriteAt(d) == IF d.append THEN d.end ELSE d.pos

\* How many of n bytes a loop of write() calls delivers before it ends: all of
\* them, or fewer when a call fails or the device is full.
WriteCounts(d, n) ==
    LET room == Max2(0, Capacity - WriteAt(d))
    IN  IF IOErrors THEN 0..Min2(n, room) ELSE {Min2(n, room)}

\* The descriptor after the first k bytes of data are written.
Written(d, data, k) ==
    LET at == WriteAt(d)
    IN  IF k = 0 THEN d
        ELSE [d EXCEPT
                !.file = [i \in Addr |-> IF i \in at..(at + k - 1)
                                         THEN data[i - at] ELSE d.file[i]],
                !.end = Max2(d.end, at + k),
                !.pos = at + k]

\* The counts read() may return for a request of n bytes; none at end of file.
ReadCounts(d, n) == 1..Min2(n, d.end - d.pos)

\* How read() can fail to return data.
ReadFailures(d) ==
    (IF d.pos >= d.end THEN {FEOF} ELSE {}) \cup (IF IOErrors THEN {ERR} ELSE {})

\* The offset lseek() moves to, ERR when it refuses: the descriptor cannot seek or
\* the target lies outside the device.
LseekTarget(d, offset, whence) ==
    LET to == offset + (IF whence = "END" THEN d.end ELSE 0)
    IN  IF Lseek = "works" /\ to \in 0..Capacity THEN to ELSE ERR

Lseeked(d, to) == IF to >= 0 THEN [d EXCEPT !.pos = to] ELSE d

(***************************************************************************)
(* libc/stdio/bufio.c                                                      *)
(***************************************************************************)

\* Read-ahead is dropped without moving the descriptor back.
bufio_flush_locked_slip(b, d) ==
    CASE b.dir = "SWR" ->
           {Outcome([b EXCEPT !.pos = b.pos + k, !.len = 0, !.buf = NoData],
                    Written(d, b.buf, k),
                    IF k = b.len THEN 0 ELSE ERR) : k \in WriteCounts(d, b.len)}
      [] b.dir = "SRD" ->
           {Outcome([b EXCEPT !.pos = b.pos - (b.len - b.off), !.len = 0, !.off = 0,
                              !.buf = NoData], d, 0)}
      [] OTHER -> {Outcome(b, d, 0)}

\* __SWR: write everything, drop what does not go out.  __SRD: move the
\* descriptor back over the data that was read ahead, whatever lseek says.
bufio_flush_locked(b, d) ==
    CASE b.dir = "SWR" ->
           {Outcome([b EXCEPT !.pos = b.pos + k, !.len = 0, !.buf = NoData],
                    Written(d, b.buf, k),
                    IF k = b.len THEN 0 ELSE ERR) : k \in WriteCounts(d, b.len)}
      [] b.dir = "SRD" ->
           LET backup == b.len - b.off
           IN  {Outcome([b EXCEPT !.pos = b.pos - backup, !.len = 0, !.off = 0,
                                  !.buf = NoData],
                        IF backup # 0
                        THEN Lseeked(d, LseekTarget(d, b.pos - backup, "SET"))
                        ELSE d,
                        0)}
      [] OTHER -> {Outcome(b, d, 0)}

bufio_fill_locked(b, d) ==
    {Outcome([b EXCEPT !.off = 0, !.len = n, !.pos = b.pos + n,
                       !.buf = [i \in Idx |-> IF i < n THEN d.file[d.pos + i]
                                              ELSE Dead],
                       !.peak = Max2(b.peak, n)],
             [d EXCEPT !.pos = d.pos + n], 0) : n \in ReadCounts(d, b.size)}
    \cup
    {Outcome([b EXCEPT !.off = 0, !.len = 0, !.buf = NoData], d, r) :
        r \in ReadFailures(d)}

\* The direction changes even when the flush failed.
bufio_setdir_locked(b, d, dir) ==
    IF b.dir = dir THEN {Outcome(b, d, 0)}
    ELSE {Outcome([r.bf EXCEPT !.dir = dir], r.fd, r.ret) :
            r \in bufio_flush_locked(b, d)}

\* The buffer is flushed one byte too late.
bufio_store_slip(b, d, c) ==
    LET b1 == [b EXCEPT !.buf = [b.buf EXCEPT ![b.len] = c],
                        !.len = b.len + 1,
                        !.peak = Max2(b.peak, b.len + 1)]
    IN  IF b1.len > b1.size \/ (c = NL /\ b1.lbf)
        THEN {Outcome(r.bf, r.fd, IF r.ret < 0 THEN ERR ELSE c) :
                r \in bufio_flush_locked(b1, d)}
        ELSE {Outcome(b1, d, c)}

\* The part of __bufio_put after the direction is set.
bufio_store(b, d, c) ==
    LET b1 == [b EXCEPT !.buf = [b.buf EXCEPT ![b.len] = c],
                        !.len = b.len + 1,
                        !.peak = Max2(b.peak, b.len + 1)]
    IN  IF b1.len >= b1.size \/ (c = NL /\ b1.lbf)
        THEN {Outcome(r.bf, r.fd, IF r.ret < 0 THEN ERR ELSE c) :
                r \in bufio_flush_locked(b1, d)}
        ELSE {Outcome(b1, d, c)}

bufio_put(b, d, c) ==
    UNION {IF r.ret < 0 THEN {Outcome(r.bf, r.fd, ERR)}
           ELSE bufio_store(r.bf, r.fd, c) : r \in bufio_setdir_locked(b, d, "SWR")}

\* Take the next buffered byte, buf[off++].
bufio_take(b, d) == Outcome([b EXCEPT !.off = b.off + 1], d, b.buf[b.off])

bufio_get(b, d) ==
    UNION {IF r.ret < 0 THEN {Outcome(r.bf, r.fd, ERR)}
           ELSE IF r.bf.off < r.bf.len THEN {bufio_take(r.bf, r.fd)}
           ELSE {IF q.ret # 0 THEN q ELSE bufio_take(q.bf, q.fd) :
                    q \in bufio_fill_locked(r.bf, r.fd)}
           : r \in bufio_setdir_locked(b, d, "SRD")}

\* A target in front of the buffer counts as buffered.
bufio_seek_to_slip(b, d, offset, whence) ==
    LET buf_pos == b.pos - b.len
        target == IF whence = "CUR" THEN offset + buf_pos + b.off ELSE offset
        to == LseekTarget(d, target, IF whence = "CUR" THEN "SET" ELSE whence)
    IN  IF whence \in {"CUR", "SET"} /\ target <= buf_pos + b.len
        THEN Outcome([b EXCEPT !.off = target - buf_pos], d, target)
        ELSE Outcome([b EXCEPT !.pos = IF to >= 0 THEN to ELSE b.pos,
                               !.len = 0, !.off = 0, !.buf = NoData],
                     Lseeked(d, to), to)

\* The buffer survives a real seek.
bufio_seek_to_stale_slip(b, d, offset, whence) ==
    LET buf_pos == b.pos - b.len
        target == IF whence = "CUR" THEN offset + buf_pos + b.off ELSE offset
        to == LseekTarget(d, target, IF whence = "CUR" THEN "SET" ELSE whence)
    IN  IF whence \in {"CUR", "SET"} /\ target \in buf_pos..(buf_pos + b.len)
        THEN Outcome([b EXCEPT !.off = target - buf_pos], d, target)
        ELSE Outcome([b EXCEPT !.pos = IF to >= 0 THEN to ELSE b.pos],
                     Lseeked(d, to), to)

\* SEEK_CUR counts from the descriptor's offset, not from the reader's.
bufio_seek_to_cur_slip(b, d, offset, whence) ==
    LET buf_pos == b.pos - b.len
        target == IF whence = "CUR" THEN offset + b.pos ELSE offset
        to == LseekTarget(d, target, IF whence = "CUR" THEN "SET" ELSE whence)
    IN  IF whence \in {"CUR", "SET"} /\ target \in buf_pos..(buf_pos + b.len)
        THEN Outcome([b EXCEPT !.off = target - buf_pos], d, target)
        ELSE Outcome([b EXCEPT !.pos = IF to >= 0 THEN to ELSE b.pos,
                               !.len = 0, !.off = 0, !.buf = NoData],
                     Lseeked(d, to), to)

\* The switch of __bufio_seek, once the stream is in read direction.
bufio_seek_to(b, d, offset, whence) ==
    LET buf_pos == b.pos - b.len
        target == IF whence = "CUR" THEN offset + buf_pos + b.off ELSE offset
        to == LseekTarget(d, target, IF whence = "CUR" THEN "SET" ELSE whence)
    IN  IF whence \in {"CUR", "SET"} /\ target \in buf_pos..(buf_pos + b.len)
        THEN Outcome([b EXCEPT !.off = target - buf_pos], d, target)
        ELSE Outcome([b EXCEPT !.pos = IF to >= 0 THEN to ELSE b.pos,
                               !.len = 0, !.off = 0, !.buf = NoData],
                     Lseeked(d, to), to)

bufio_seek(b, d, offset, whence) ==
    IF Lseek = "absent" THEN {Outcome(b, d, ERR)}
    ELSE
    {IF r.ret < 0 THEN Outcome(r.bf, r.fd, ERR)
     ELSE bufio_seek_to(r.bf, r.fd, offset, whence) :
        r \in bufio_setdir_locked(b, d, "SRD")}

(***************************************************************************)
(* libc/stdio/bufio_setvbuf.c and bufio_close.c.  where says which memory  *)
(* buf points to: the FILE's own allocation, a buffer stdio allocated, or  *)
(* the caller's; heap counts the buffers stdio allocated and did not free. *)
(***************************************************************************)

\* __BALL stays set when the caller's buffer takes over.
bufio_rebuf_slip(b, d, user, mode, size, fits) ==
    LET b1 == [b EXCEPT !.lbf = (mode = "LBF")]
        own == user /\ mode # "NBF"
        asked == IF mode = "NBF" THEN 1 ELSE size
        new == IF asked # 0 THEN asked
               ELSE IF b.size > 1 THEN b.size ELSE BUFSIZ
        b2 == [b1 EXCEPT !.size = new, !.peak = 0]
    IN  IF mode = "bad" \/ (asked = 0 /\ own) THEN Outcome(b1, d, ERR)
        ELSE IF new = b.size THEN Outcome(b1, d, 0)
        ELSE IF own
        THEN Outcome([b2 EXCEPT !.where = "user",
                                !.heap = IF b.ball THEN b.heap - 1 ELSE b.heap],
                     d, 0)
        ELSE IF fits
        THEN Outcome([b2 EXCEPT !.where = "heap", !.ball = TRUE,
                                !.heap = IF b.ball THEN b.heap ELSE b.heap + 1],
                     d, 0)
        ELSE Outcome(b1, d, ERR)

\* The part of __bufio_setvbuf after the flush.  fits: the allocator has room.
bufio_rebuf(b, d, user, mode, size, fits) ==
    LET b1 == [b EXCEPT !.lbf = (mode = "LBF")]
        own == user /\ mode # "NBF"
        asked == IF mode = "NBF" THEN 1 ELSE size
        new == IF asked # 0 THEN asked
               ELSE IF b.size > 1 THEN b.size ELSE BUFSIZ
        b2 == [b1 EXCEPT !.size = new, !.peak = 0]
    IN  IF mode = "bad" \/ (asked = 0 /\ own) THEN Outcome(b1, d, ERR)
        ELSE IF new = b.size THEN Outcome(b1, d, 0)
        ELSE IF own
        THEN Outcome([b2 EXCEPT !.where = "user", !.ball = FALSE,
                                !.heap = IF b.ball THEN b.heap - 1 ELSE b.heap],
                     d, 0)
        ELSE IF fits
        THEN Outcome([b2 EXCEPT !.where = "heap", !.ball = TRUE,
                                !.heap = IF b.ball THEN b.heap ELSE b.heap + 1],
                     d, 0)
        ELSE Outcome(b1, d, ERR)

bufio_setvbuf(b, d, user, mode, size) ==
    UNION {IF r.ret < 0 THEN {r}
           ELSE {bufio_rebuf(r.bf, r.fd, user, mode, size, fits) : fits \in BOOLEAN} :
             r \in bufio_flush_locked(b, d)}

\* Closing a FILE that fopen allocated.  The result is that of close(): the
\* flush's result is overwritten.
bufio_close(b, d) ==
    UNION {LET b1 == [r.bf EXCEPT !.open = FALSE, !.ball = FALSE, !.where = "FILE",
                                  !.heap = IF r.bf.ball THEN r.bf.heap - 1 ELSE r.bf.heap]
           IN  {Outcome(b1, r.fd, ret) : ret \in IF IOErrors THEN {0, ERR} ELSE {0}} :
             r \in bufio_flush_locked(b, d)}

(***************************************************************************)
(* The FILE operations of libc/stdio.                                      *)
(***************************************************************************)

\* __stdio_flags: the stream flags of a mode.
stdio_flags(mode) ==
    (IF mode \in {"r", "r+", "w+", "a+"} THEN {"SRD"} ELSE {}) \cup
    (IF mode # "r" THEN {"SWR"} ELSE {})

\* open() under a mode's open flags (external): O_TRUNC, then offset 0.
Truncated(d, mode) ==
    IF mode \in {"w", "w+"} THEN [d EXCEPT !.file = [i \in Addr |-> 0], !.end = 0] ELSE d

Opened(d, mode) == [d EXCEPT !.pos = 0, !.append = (mode \in {"a", "a+"})]

\* FDEV_SETUP_BUFIO: the FILE a successful fdopen starts from.
FreshFile(mode) ==
    [open |-> TRUE, flags |-> stdio_flags(mode), unget |-> 0, dir |-> "0",
     lbf |-> FALSE, ball |-> FALSE, where |-> "FILE", heap |-> 0, pos |-> 0,
     buf |-> NoData, size |-> BUFSIZ, len |-> 0, off |-> 0, peak |-> 0]

FSEEK(b, d, offset, whence) ==
    {IF r.ret >= 0
     THEN Outcome([r.bf EXCEPT !.flags = r.bf.flags \ {"SEOF"}, !.unget = 0],
                  r.fd, 0)
     ELSE Outcome(r.bf, r.fd, -1) : r \in bufio_seek(b, d, offset, whence)}

FTELL(b, d) ==
    {Outcome(r.bf, r.fd, IF b.unget # 0 THEN r.ret - 1 ELSE r.ret) :
        r \in bufio_seek(b, d, 0, "CUR")}

\* fopen and the fdopen it calls, which moves to the end under O_APPEND.
OpenFile(d, mode) ==
    LET o == Opened(Truncated(d, mode), mode)
    IN  IF o.append
        THEN {Outcome(r.bf, r.fd, 0) : r \in FSEEK(FreshFile(mode), o, 0, "END")}
        ELSE {Outcome(FreshFile(mode), o, 0)}

GETC(b, d) ==
    IF "SRD" \notin b.flags
    THEN {Outcome([b EXCEPT !.flags = b.flags \cup {"SERR"}], d, EOF)}
    ELSE IF b.unget # 0 THEN {Outcome([b EXCEPT !.unget = 0], d, b.unget - 1)}
    ELSE {IF r.ret < 0
          THEN Outcome([r.bf EXCEPT !.flags = r.bf.flags \cup
                            {IF r.ret = ERR THEN "SERR" ELSE "SEOF"}], r.fd, EOF)
          ELSE r : r \in bufio_get(b, d)}

UNGETC(b, d, c) ==
    IF "SRD" \notin b.flags \/ b.unget # 0 THEN {Outcome(b, d, EOF)}
    ELSE {Outcome([b EXCEPT !.unget = c + 1, !.flags = b.flags \ {"SEOF"}], d, c)}

PUTC(b, d, c) ==
    IF "SWR" \notin b.flags THEN {Outcome(b, d, EOF)}
    ELSE {IF r.ret < 0
          THEN Outcome([r.bf EXCEPT !.flags = r.bf.flags \cup {"SERR"}], r.fd, EOF)
          ELSE r : r \in bufio_put(b, d, c)}

\* __fflush_locked: the pushed-back character is dropped.
FFLUSH(b, d) ==
    {Outcome([r.bf EXCEPT !.unget = 0], r.fd, r.ret) : r \in bufio_flush_locked(b, d)}

\* freopen, after the open() that comes first: "same" reopens the stream's file
\* (a truncation precedes the flush of what is pending), "other" an empty file,
\* "null" keeps the descriptor.  Other threads, which StdioFiles has, may use the
\* stream between the flush and the rest.
Reopened(b, d, how, mode) ==
    LET d0 == IF how = "same" THEN Truncated(d, mode) ELSE d
        After(r) == CASE how = "same" -> Opened(r.fd, mode)
                      [] how = "other" -> Opened(Truncated(r.fd, "w"), mode)
                      [] how = "null" -> r.fd
    IN  UNION {LET b1 == [r.bf EXCEPT !.pos = 0, !.flags = stdio_flags(mode)]
               IN  IF b1.size # BUFSIZ \/ b1.lbf
                   THEN {Outcome(q.bf, q.fd, 0) :
                           q \in bufio_setvbuf(b1, After(r), FALSE, "FBF", BUFSIZ)}
                   ELSE {Outcome(b1, After(r), 0)} : r \in FFLUSH(b, d0)}

\* When the open() fails nothing has changed.
FREOPEN(b, d, how, mode) ==
    Reopened(b, d, how, mode)
    \cup (IF IOErrors /\ how # "null" THEN {Outcome(b, d, ERR)} ELSE {})

(***************************************************************************)
(* The actions: one library call each.                                     *)
(***************************************************************************)
Init ==
    /\ bf = [FreshFile("r") EXCEPT !.open = FALSE]
    /\ \E e \in 0..Capacity, f \in [Addr -> Byte] :
          /\ \A i \in Addr : i >= e => f[i] = 0
          /\ fd = [file |-> f, end |-> e, pos |-> 0, append |-> FALSE]
    /\ call = [fn |-> "start", arg |-> <<>>, ret |-> 0]

\* The call fn(arg) has one of the outcomes.
Call(fn, arg, outcomes) ==
    \E r \in outcomes :
        /\ bf' = r.bf
        /\ fd' = r.fd
        /\ call' = [fn |-> fn, arg |-> arg, ret |-> r.ret]

fopen(mode) == ~bf.open /\ Call("fopen", <<mode>>, OpenFile(fd, mode))
getc == bf.open /\ Call("getc", <<>>, GETC(bf, fd))
ungetc(c) == bf.open /\ Call("ungetc", <<c>>, UNGETC(bf, fd, c))
putc(c) == bf.open /\ Call("putc", <<c>>, PUTC(bf, fd, c))
fflush == bf.open /\ Call("fflush", <<>>, FFLUSH(bf, fd))
fseek(offset, whence) ==
    bf.open /\ Call("fseek", <<offset, whence>>, FSEEK(bf, fd, offset, whence))
ftell == bf.open /\ Call("ftell", <<>>, FTELL(bf, fd))
setvbuf(user, mode, size) ==
    bf.open /\ Call("setvbuf", <<>>, bufio_setvbuf(bf, fd, user, mode, size))
freopen(how, mode) ==
    bf.open /\ Call("freopen", <<how, mode>>, FREOPEN(bf, fd, how, mode))
clearerr ==
    bf.open /\ Call("clearerr", <<>>,
                    {Outcome([bf EXCEPT !.flags = bf.flags \ {"SERR", "SEOF"}], fd, 0)})
fclose == bf.open /\ Call("fclose", <<>>, bufio_close(bf, fd))

Next ==
    \/ \E mode \in Modes : fopen(mode)
    \/ getc
    \/ \E c \in Byte : ungetc(c)
    \/ \E c \in Byte : putc(c)
    \/ fflush
    \/ \E offset \in Offsets, whence \in {"SET", "CUR", "END"} :
          fseek(offset, whence)
    \/ ftell
    \/ \E a \in Setvbufs : setvbuf(a[1], a[2], a[3])
    \/ \E how \in Reopens, mode \in Modes : freopen(how, mode)
    \/ clearerr
    \/ fclose

Spec == Init /\ [][Next]_vars

(***************************************************************************)
(* Properties.                                                             *)
(***************************************************************************)

\* The type invariant.
TypeOK == bf \in FILE /\ fd \in FD /\ call.ret \in Int

\* The buffer's indices: the read offset never passes the valid data, the
\* valid data never exceeds the buffer, no store went past its end (peak), and
\* a stream in write direction returns to the caller with room for a byte.
BufferBounds ==
    /\ bf.off <= bf.len
    /\ bf.len <= bf.size
    /\ bf.peak <= bf.size
    /\ bf.dir = "SWR" => bf.off = 0 /\ bf.len < bf.size
    /\ bf.dir = "0" => bf.off = 0 /\ bf.len = 0

\* stdio-bufio.h calls pos the "FD position": between two calls it is the
\* descriptor's offset, whatever was read, written, sought or failed.
FdPosition == bf.open => bf.pos = fd.pos

\* What was read ahead is what the file holds in front of the descriptor.
ReadAhead ==
    bf.open /\ bf.dir = "SRD" =>
        /\ bf.len <= bf.pos
        /\ \A i \in 0..(bf.len - 1) : bf.buf[i] = fd.file[bf.pos - bf.len + i]

\* setvbuf and fclose free exactly the buffers stdio allocated: __BALL is set
\* when buf is such a buffer, and no buffer outlives its use.
BufferOwner ==
    /\ bf.ball <=> bf.where = "heap"
    /\ bf.heap = IF bf.ball THEN 1 ELSE 0

(***************************************************************************)
(* The stream the buffer implements.  A pending write lies on top of the   *)
(* file at the descriptor's offset; data read ahead lies behind it.        *)
(***************************************************************************)
Pending == IF bf.dir = "SWR" THEN bf.len ELSE 0

StreamCells ==
    [i \in Addr |-> IF i \in bf.pos..(bf.pos + Pending - 1) THEN bf.buf[i - bf.pos]
                    ELSE fd.file[i]]

StreamEnd == IF Pending = 0 THEN fd.end ELSE Max2(fd.end, bf.pos + Pending)

StreamPosition == IF bf.dir = "SRD" THEN bf.pos - bf.len + bf.off ELSE bf.pos + Pending

ToStream == INSTANCE Stream WITH
    open <- bf.open,
    readable <- "SRD" \in bf.flags,
    writable <- "SWR" \in bf.flags,
    content <- [cell |-> StreamCells, end |-> StreamEnd],
    saved <- [cell |-> fd.file, end |-> fd.end],
    position <- StreamPosition,
    unget <- bf.unget,
    eof <- "SEOF" \in bf.flags,
    err <- "SERR" \in bf.flags

\* Buffering is transparent: the calls return what an unbuffered stream over
\* the same file would return, every byte written appears once, in order, at
\* the position it was written to, and only a call that reports an error (or
\* fclose or freopen, which ignore the result of their flush) drops data.
Transparent == ToStream!StreamSpec

=============================================================================

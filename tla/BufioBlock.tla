----------------------------- MODULE BufioBlock -----------------------------
(***************************************************************************)
(* fread and fwrite on the stream of Bufio, in both builds: byte by byte   *)
(* through getc and put, and the __FAST_BUFIO paths that copy to and from  *)
(* the buffer or go around it.  Elements have size 1, so that the results  *)
(* count bytes.                                                            *)
(***************************************************************************)
EXTENDS Bufio, SequencesExt

CONSTANTS
    FAST_BUFIO,     \* TRUE: built with -Dfast-bufio=true
    Blocks          \* the byte sequences fwrite is called with; fread asks for as many

ASSUME BlockAssumption == FAST_BUFIO \in BOOLEAN /\ Blocks \subseteq Seq(Byte)

\* A call in progress: the stream, the bytes moved so far, whether it gave up.
Moving(b, d, bytes, stop) == [bf |-> b, fd |-> d, bytes |-> bytes, stop |-> stop]

\* Apply op to every call that has not given up.
Continue(calls, op(_)) == UNION {IF p.stop THEN {p} ELSE op(p) : p \in calls}

(***************************************************************************)
(* The portable loops.                                                     *)
(***************************************************************************)
\* The pushed-back character is not looked at.
slow_fread_slip(b, d, n) ==
    LET Step(p) == {IF r.ret < 0 THEN Moving(r.bf, r.fd, p.bytes, TRUE)
                    ELSE Moving(r.bf, r.fd, Append(p.bytes, r.ret), FALSE) :
                      r \in bufio_get(p.bf, p.fd)}
    IN  FoldLeft(LAMBDA calls, i : Continue(calls, Step),
                 {Moving(b, d, <<>>, FALSE)}, [i \in 1..n |-> i])

slow_fread(b, d, n) ==
    LET Step(p) == {IF r.ret = EOF THEN Moving(r.bf, r.fd, p.bytes, TRUE)
                    ELSE Moving(r.bf, r.fd, Append(p.bytes, r.ret), FALSE) :
                      r \in GETC(p.bf, p.fd)}
    IN  FoldLeft(LAMBDA calls, i : Continue(calls, Step),
                 {Moving(b, d, <<>>, FALSE)}, [i \in 1..n |-> i])

\* The result of put is ignored.
slow_fwrite_slip(b, d, data) ==
    LET Step(p, c) == {Moving(r.bf, r.fd, Append(p.bytes, c), FALSE) :
                         r \in bufio_put(p.bf, p.fd, c)}
    IN  FoldLeft(LAMBDA calls, c : Continue(calls, LAMBDA p : Step(p, c)),
                 {Moving(b, d, <<>>, FALSE)}, data)

\* A failure or-s _FDEV_ERR into the flags.
slow_fwrite_flags_slip(b, d, data) ==
    LET Step(p, c) == {IF r.ret < 0
                       THEN Moving([r.bf EXCEPT !.flags = FileFlag], r.fd, p.bytes, TRUE)
                       ELSE Moving(r.bf, r.fd, Append(p.bytes, c), FALSE) :
                         r \in bufio_put(p.bf, p.fd, c)}
    IN  FoldLeft(LAMBDA calls, c : Continue(calls, LAMBDA p : Step(p, c)),
                 {Moving(b, d, <<>>, FALSE)}, data)

\* Unlike putc, fwrite leaves __SERR alone when put fails.
slow_fwrite(b, d, data) ==
    LET Step(p, c) == {IF r.ret < 0 THEN Moving(r.bf, r.fd, p.bytes, TRUE)
                       ELSE Moving(r.bf, r.fd, Append(p.bytes, c), FALSE) :
                         r \in bufio_put(p.bf, p.fd, c)}
    IN  FoldLeft(LAMBDA calls, c : Continue(calls, LAMBDA p : Step(p, c)),
                 {Moving(b, d, <<>>, FALSE)}, data)

(***************************************************************************)
(* The __FAST_BUFIO paths.                                                 *)
(***************************************************************************)

\* The bytes buf[from..to-1].
Copied(b, from, to) == [i \in 1..(to - from) |-> b.buf[from + i - 1]]

WithFlag(b, flag) == [b EXCEPT !.flags = b.flags \cup {flag}]

ReadFailed(b, d, bytes, r) ==
    Moving(WithFlag(b, IF r = ERR THEN "SERR" ELSE "SEOF"), d, bytes, TRUE)

\* A direct read does not count towards pos.
fast_fread_turn_slip(p, n) ==
    LET left == n - Len(p.bytes)
        this_time == Min2(left, p.bf.len - p.bf.off)
        b0 == [p.bf EXCEPT !.len = 0, !.off = 0, !.buf = NoData]
    IN  IF left = 0 THEN {p}
        ELSE IF this_time > 0
        THEN {Moving([p.bf EXCEPT !.off = p.bf.off + this_time], p.fd,
                     p.bytes \o Copied(p.bf, p.bf.off, p.bf.off + this_time), FALSE)}
        ELSE IF left < p.bf.size
        THEN {IF r.ret # 0 THEN ReadFailed(r.bf, r.fd, p.bytes, r.ret)
              ELSE Moving(r.bf, r.fd, p.bytes, FALSE) :
                r \in bufio_fill_locked(p.bf, p.fd)}
        ELSE {Moving(b0, [p.fd EXCEPT !.pos = p.fd.pos + k],
                     p.bytes \o [i \in 1..k |-> p.fd.file[p.fd.pos + i - 1]], FALSE) :
                k \in ReadCounts(p.fd, left)}
             \cup {ReadFailed(b0, p.fd, p.bytes, r) : r \in ReadFailures(p.fd)}

\* The copy starts at the buffer's first byte.
fast_fread_turn_copy_slip(p, n) ==
    LET left == n - Len(p.bytes)
        this_time == Min2(left, p.bf.len - p.bf.off)
        b0 == [p.bf EXCEPT !.len = 0, !.off = 0, !.buf = NoData]
    IN  IF left = 0 THEN {p}
        ELSE IF this_time > 0
        THEN {Moving([p.bf EXCEPT !.off = p.bf.off + this_time], p.fd,
                     p.bytes \o Copied(p.bf, 0, this_time), FALSE)}
        ELSE IF left < p.bf.size
        THEN {IF r.ret # 0 THEN ReadFailed(r.bf, r.fd, p.bytes, r.ret)
              ELSE Moving(r.bf, r.fd, p.bytes, FALSE) :
                r \in bufio_fill_locked(p.bf, p.fd)}
        ELSE {Moving([b0 EXCEPT !.pos = b0.pos + k], [p.fd EXCEPT !.pos = p.fd.pos + k],
                     p.bytes \o [i \in 1..k |-> p.fd.file[p.fd.pos + i - 1]], FALSE) :
                k \in ReadCounts(p.fd, left)}
             \cup {ReadFailed(b0, p.fd, p.bytes, r) : r \in ReadFailures(p.fd)}

\* One turn of fread's loop: drain the buffer, refill it for a small request,
\* or read a large one straight into the caller's memory.
fast_fread_turn(p, n) ==
    LET left == n - Len(p.bytes)
        this_time == Min2(left, p.bf.len - p.bf.off)
        b0 == [p.bf EXCEPT !.len = 0, !.off = 0, !.buf = NoData]
    IN  IF left = 0 THEN {p}
        ELSE IF this_time > 0
        THEN {Moving([p.bf EXCEPT !.off = p.bf.off + this_time], p.fd,
                     p.bytes \o Copied(p.bf, p.bf.off, p.bf.off + this_time), FALSE)}
        ELSE IF left < p.bf.size
        THEN {IF r.ret # 0 THEN ReadFailed(r.bf, r.fd, p.bytes, r.ret)
              ELSE Moving(r.bf, r.fd, p.bytes, FALSE) :
                r \in bufio_fill_locked(p.bf, p.fd)}
        ELSE {Moving([b0 EXCEPT !.pos = b0.pos + k], [p.fd EXCEPT !.pos = p.fd.pos + k],
                     p.bytes \o [i \in 1..k |-> p.fd.file[p.fd.pos + i - 1]], FALSE) :
                k \in ReadCounts(p.fd, left)}
             \cup {ReadFailed(b0, p.fd, p.bytes, r) : r \in ReadFailures(p.fd)}

\* The whole fast read: the result of setting the direction is ignored, a
\* pushed-back character comes first.  Every two turns move a byte.  (On stdin
\* the loop starts again after it flushed stdout; for the one thread of this
\* module that changes nothing, for several it is fread_flush of StdioFiles.)
fast_fread(b, d, n) ==
    LET start == {IF r.bf.unget # 0
                  THEN Moving([r.bf EXCEPT !.unget = 0], r.fd, <<r.bf.unget - 1>>, FALSE)
                  ELSE Moving(r.bf, r.fd, <<>>, FALSE) :
                    r \in bufio_setdir_locked(b, d, "SRD")}
    IN  FoldLeft(LAMBDA calls, i : Continue(calls, LAMBDA p : fast_fread_turn(p, n)),
                 start, [i \in 1..(2 * n) |-> i])

\* _FDEV_ERR, or-ed into the flags, is -1: it sets every one of them.
AllFlags(b) == [b EXCEPT !.flags = FileFlag]

\* One turn of the loop for a write that is smaller than the buffer.
small_fwrite_turn(p, data) ==
    LET left == Len(data) - Len(p.bytes)
        this_time == Min2(left, p.bf.size - p.bf.len)
        here == SubSeq(data, Len(p.bytes) + 1, Len(p.bytes) + this_time)
        b1 == [p.bf EXCEPT
                 !.buf = [i \in Idx |-> IF i \in p.bf.len..(p.bf.len + this_time - 1)
                                        THEN here[i - p.bf.len + 1] ELSE p.bf.buf[i]],
                 !.len = p.bf.len + this_time,
                 !.peak = Max2(p.bf.peak, p.bf.len + this_time)]
    IN  IF left = 0 THEN {p}
        ELSE IF p.bf.size = p.bf.len
        THEN {IF r.ret # 0 THEN Moving(AllFlags(r.bf), r.fd, p.bytes, TRUE)
              ELSE Moving(r.bf, r.fd, p.bytes, FALSE) :
                r \in bufio_flush_locked(p.bf, p.fd)}
        ELSE {Moving(b1, p.fd, p.bytes \o here, FALSE)}

\* A large write overtakes what is buffered.
large_fwrite_slip(b, d, data) ==
    {LET b1 == [b EXCEPT !.pos = b.pos + k]
     IN  Moving(IF k < Len(data) THEN AllFlags(b1) ELSE b1,
                Written(d, [i \in 0..(Len(data) - 1) |-> data[i + 1]], k),
                SubSeq(data, 1, k), k < Len(data)) :
       k \in WriteCounts(d, Len(data))}

\* A large write goes out directly once the buffer is flushed.
large_fwrite(b, d, data) ==
    UNION {IF r.ret < 0 THEN {Moving(r.bf, r.fd, <<>>, TRUE)}
           ELSE {LET b1 == [r.bf EXCEPT !.pos = r.bf.pos + k]
                 IN  Moving(IF k < Len(data) THEN AllFlags(b1) ELSE b1,
                            Written(r.fd, [i \in 0..(Len(data) - 1) |-> data[i + 1]], k),
                            SubSeq(data, 1, k), k < Len(data)) :
                   k \in WriteCounts(r.fd, Len(data))} :
             r \in bufio_flush_locked(b, d)}

fast_fwrite(b, d, data) ==
    UNION {IF Len(data) < r.bf.size
           THEN FoldLeft(LAMBDA calls, i :
                           Continue(calls, LAMBDA p : small_fwrite_turn(p, data)),
                         {Moving(r.bf, r.fd, <<>>, FALSE)}, [i \in 1..(2 * Len(data)) |-> i])
           ELSE large_fwrite(r.bf, r.fd, data) : r \in bufio_setdir_locked(b, d, "SWR")}

(***************************************************************************)
(* The actions.                                                            *)
(***************************************************************************)
FREAD(b, d, n) ==
    IF "SRD" \notin b.flags THEN {Moving(b, d, <<>>, TRUE)}
    ELSE IF FAST_BUFIO /\ n > 0 THEN fast_fread(b, d, n)
    ELSE slow_fread(b, d, n)

FWRITE(b, d, data) ==
    IF "SWR" \notin b.flags THEN {Moving(b, d, <<>>, TRUE)}
    ELSE IF FAST_BUFIO /\ ~b.lbf /\ data # <<>> THEN fast_fwrite(b, d, data)
    ELSE slow_fwrite(b, d, data)

\* The outcomes of a block call; its result is what it moved.
Block(calls) == {Outcome(p.bf, p.fd, p.bytes) : p \in calls}

fread(n) == bf.open /\ Call("fread", <<n>>, Block(FREAD(bf, fd, n)))
fwrite(data) == bf.open /\ Call("fwrite", data, Block(FWRITE(bf, fd, data)))

BlockNext ==
    \/ Next
    \/ \E data \in Blocks : fread(Len(data))
    \/ \E data \in Blocks : fwrite(data)

BlockSpec == Init /\ [][BlockNext]_vars

(***************************************************************************)
(* Properties.                                                             *)
(***************************************************************************)

\* fread returns the pushed-back character and then the bytes the stream holds
\* from its position on, and leaves the stream behind the last of them; a read
\* that gets all it asked for, if only the pushed-back character, moves it no
\* further.  In the fast build a failed flush of pending writes is ignored: then
\* the bytes come from where the flush stopped, up to Pending bytes back.
FreadInOrder ==
    [][call'.fn = "fread" =>
         LET back == IF bf.unget # 0 /\ call'.ret # <<>> THEN <<bf.unget - 1>> ELSE <<>>
             k == Len(call'.ret) - Len(back)
             From(cells, at) ==
                /\ call'.ret = back \o [i \in 1..k |-> cells[at + i - 1]]
                /\ k > 0 \/ Len(call'.ret) = call'.arg[1] => StreamPosition' = at + k
         IN  \/ From(StreamCells, StreamPosition)
             \/ /\ FAST_BUFIO
                /\ \E lost \in 1..Pending : From(fd'.file, StreamPosition - lost)]_vars

\* A complete fwrite leaves its bytes at the position it started from, nothing
\* else changed and the stream behind them.
FwriteInPlace ==
    [][call'.fn = "fwrite" /\ call'.ret = call'.arg =>
         LET at == StreamPosition
             n == Len(call'.arg)
         IN  /\ StreamPosition' = at + n
             /\ StreamCells' = [i \in Addr |-> IF i \in at..(at + n - 1) THEN call'.arg[i - at + 1]
                                               ELSE StreamCells[i]]]_vars

\* Only opening a stream decides whether it is "OK to read" and "OK to write"
\* (stdio.h, __SRD and __SWR).
AccessKept ==
    [][call'.fn \notin {"fopen", "freopen"} =>
         bf'.flags \cap {"SRD", "SWR"} = bf.flags \cap {"SRD", "SWR"}]_vars

\* No byte is stored past the "sizeof buf" bytes of the buffer (stdio-bufio.h,
\* size), whichever of put and fwrite stores it.
WithinBuffer == bf.peak <= bf.size

=============================================================================

----------------------------- MODULE BufioProofs -----------------------------
(***************************************************************************)
(* What holds of the stream of Bufio for every device size, buffer size,   *)
(* byte set and argument set.  Each function of bufio.c has a lemma about  *)
(* every member of its set of outcomes.                                    *)
(***************************************************************************)
EXTENDS Bufio, TLAPS

(***************************************************************************)
(* Predicates on a stream b and a descriptor d.                            *)
(***************************************************************************)

\* The indices are in order and the valid data are bytes.  Inside __bufio_put
\* the buffer may be full.
Filled(b) ==
    /\ b.off <= b.len
    /\ b.len <= b.size
    /\ b.peak <= b.size
    /\ b.dir = "SWR" => b.off = 0
    /\ b.dir = "0" => b.off = 0 /\ b.len = 0
    /\ \A i \in Idx : i < b.len => b.buf[i] \in Byte

\* Between calls a stream in write direction has room for a byte.
Ready(b) == Filled(b) /\ (b.dir = "SWR" => b.len < b.size)

\* The fields only open, close, setvbuf and the functions of stdio change.
Kept(b, c) ==
    /\ c.open = b.open /\ c.flags = b.flags /\ c.unget = b.unget
    /\ c.lbf = b.lbf /\ c.ball = b.ball /\ c.where = b.where /\ c.heap = b.heap
    /\ c.size = b.size

\* The stream and the descriptor agree: pos is the descriptor's offset, and the
\* data read ahead are what the file holds in front of it.
Synced(b, d) ==
    /\ b.pos = d.pos
    /\ d.pos <= Capacity
    /\ d.append = FALSE
    /\ b.dir = "SRD" => /\ b.len <= b.pos
                        /\ \A i \in 0..(b.len - 1) : b.buf[i] = d.file[b.pos - b.len + i]

\* The buffer belongs to stdio exactly when __BALL says so.
Owned(b) == (b.ball <=> b.where = "heap") /\ b.heap = IF b.ball THEN 1 ELSE 0

\* A descriptor that can seek and is never in append mode, and no freopen that
\* keeps a descriptor in the middle of its file.
Plain == Lseek = "works" /\ Modes \cap {"a", "a+"} = {} /\ "null" \notin Reopens

\* What every function finds and leaves.
Good(b, d) ==
    /\ b \in FILE
    /\ d \in FD
    /\ Ready(b)
    /\ Owned(b)
    /\ Plain => Synced(b, d)

\* Constants as numbers.
LEMMA Numbers ==
    /\ Capacity \in Nat /\ MaxSize \in Nat /\ BUFSIZ \in 1..MaxSize
    /\ Byte \subseteq Nat /\ 0 \in Byte
    /\ Addr = 0..(Capacity + MaxSize) /\ Idx = 0..MaxSize
  BY ByteAssumption, SizeAssumption DEF Addr, Idx

\* A buffer without data.
LEMMA NoDataType == NoData \in [Idx -> Byte \cup {Dead}]
  BY DEF NoData

\* write() keeps the file's type: it stays within the device and stores bytes.
LEMMA WrittenType ==
    ASSUME NEW d \in FD, NEW buf \in [Idx -> Byte \cup {Dead}], NEW n \in 0..MaxSize,
           \A i \in Idx : i < n => buf[i] \in Byte,
           NEW k \in WriteCounts(d, n)
    PROVE  /\ k \in 0..n
           /\ Written(d, buf, k) \in FD
           /\ Written(d, buf, k).append = d.append
           /\ ~d.append => Written(d, buf, k).pos = d.pos + k
           /\ ~d.append /\ d.pos <= Capacity => Written(d, buf, k).pos <= Capacity
  <1> DEFINE at == WriteAt(d)
  <1>1. d.end \in 0..Capacity /\ d.pos \in Nat /\ at \in Nat /\ d.file \in [Addr -> Byte]
      BY Numbers DEF FD, WriteAt
  <1>2. k \in 0..n /\ (k # 0 => at + k <= Capacity)
      BY <1>1, Numbers DEF WriteCounts, Min2, Max2
  <1>3. CASE k = 0
      BY <1>1, <1>2, <1>3 DEF Written
  <1>4. CASE k # 0
    <2> DEFINE file == [i \in Addr |-> IF i \in at..(at + k - 1) THEN buf[i - at] ELSE d.file[i]]
    <2>1. file \in [Addr -> Byte]
      <3> SUFFICES ASSUME NEW i \in Addr, i \in at..(at + k - 1) PROVE buf[i - at] \in Byte
          BY <1>1
      <3>1. i - at \in Idx /\ i - at < n
          BY <1>1, <1>2, Numbers
      <3> QED  BY <3>1
    <2>2. Written(d, buf, k) = [d EXCEPT !.file = file, !.end = Max2(d.end, at + k), !.pos = at + k]
        BY <1>4 DEF Written
    <2>3. Max2(d.end, at + k) \in 0..Capacity /\ at + k \in Nat
        BY <1>1, <1>2, <1>4, Numbers DEF Max2
    <2> HIDE DEF file
    <2>4. Written(d, buf, k) \in FD
        BY Zenon, <2>1, <2>2, <2>3 DEF FD
    <2>5. Written(d, buf, k).append = d.append /\ Written(d, buf, k).pos = at + k
        BY <2>2 DEF FD
    <2> QED  BY <1>1, <1>2, <1>4, <2>4, <2>5 DEF WriteAt
  <1> QED  BY <1>3, <1>4

\* lseek() keeps the descriptor's type, whatever it answers.
LEMMA LseekType ==
    ASSUME NEW d \in FD, NEW offset \in Int, NEW whence
    PROVE  /\ LseekTarget(d, offset, whence) \in 0..Capacity \cup {ERR}
           /\ Lseeked(d, LseekTarget(d, offset, whence)) \in FD
           /\ Lseeked(d, LseekTarget(d, offset, whence)).append = d.append
  <1>1. LseekTarget(d, offset, whence) \in 0..Capacity \cup {ERR}
      BY DEF LseekTarget
  <1>2. \A to \in Int : Lseeked(d, to) \in FD /\ Lseeked(d, to).append = d.append
      BY DEF Lseeked, FD
  <1> QED  BY <1>1, <1>2, Numbers DEF ERR

(***************************************************************************)
(* bufio.c                                                                 *)
(***************************************************************************)

\* A flush empties the buffer and changes nothing but the position.
LEMMA FlushType ==
    ASSUME NEW b \in FILE, NEW d \in FD, Filled(b), NEW r \in bufio_flush_locked(b, d)
    PROVE  /\ r.bf \in FILE /\ r.fd \in FD /\ r.ret \in {0, ERR}
           /\ Kept(b, r.bf) /\ r.bf.dir = b.dir
           /\ r.bf.len = 0 /\ r.bf.off = 0 /\ r.bf.peak = b.peak
  <1>1. /\ b.len \in Nat /\ b.off \in Nat /\ b.pos \in Int /\ b.size \in 1..MaxSize
        /\ b.buf \in [Idx -> Byte \cup {Dead}] /\ b.dir \in {"0", "SRD", "SWR"}
      BY DEF FILE
  <1>2. CASE b.dir = "SWR"
    <2>1. PICK k \in WriteCounts(d, b.len) :
            r = Outcome([b EXCEPT !.pos = b.pos + k, !.len = 0, !.buf = NoData],
                        Written(d, b.buf, k), IF k = b.len THEN 0 ELSE ERR)
        BY Zenon, <1>2 DEF bufio_flush_locked
    <2>2. k \in Nat /\ Written(d, b.buf, k) \in FD
        BY <1>1, WrittenType, Numbers DEF Filled
    <2> DEFINE p == b.pos + k
    <2>3. /\ r.bf = [b EXCEPT !.pos = p, !.len = 0, !.buf = NoData]
          /\ r.fd = Written(d, b.buf, k) /\ r.ret \in {0, ERR}
        BY <2>1 DEF Outcome
    <2>4. p \in Int
        BY <1>1, <2>2
    <2> HIDE DEF p
    <2>5. [b EXCEPT !.pos = p, !.len = 0, !.buf = NoData] \in FILE
        BY Zenon, <2>4, NoDataType DEF FILE
    <2> QED  BY <1>1, <1>2, <2>2, <2>3, <2>5 DEF Kept, Filled, FILE
  <1>3. CASE b.dir = "SRD"
    <2> DEFINE p == b.pos - (b.len - b.off)
               to == LseekTarget(d, p, "SET")
    <2>1. /\ r.bf = [b EXCEPT !.pos = p, !.len = 0, !.off = 0, !.buf = NoData]
          /\ r.fd = IF b.len - b.off # 0 THEN Lseeked(d, to) ELSE d
          /\ r.ret = 0
        BY <1>3 DEF bufio_flush_locked, Outcome
    <2>2. p \in Int
        BY <1>1
    <2> HIDE DEF p
    <2>3. [b EXCEPT !.pos = p, !.len = 0, !.off = 0, !.buf = NoData] \in FILE
        BY Zenon, <2>2, NoDataType DEF FILE
    <2>4. Lseeked(d, to) \in FD
        BY <2>2, LseekType
    <2> QED  BY <1>1, <1>3, <2>1, <2>3, <2>4 DEF Kept, FILE
  <1>4. CASE b.dir = "0"
      BY <1>4 DEF bufio_flush_locked, Outcome, Kept, Filled
  <1> QED  BY <1>1, <1>2, <1>3, <1>4

\* On a descriptor that can seek, a flush leaves pos at the descriptor's offset:
\* the bytes written were counted, the bytes read ahead given back.
LEMMA FlushSync ==
    ASSUME NEW b \in FILE, NEW d \in FD, Filled(b), NEW r \in bufio_flush_locked(b, d),
           Lseek = "works", Synced(b, d)
    PROVE  Synced(r.bf, r.fd)
  <1>1. /\ b.len \in Nat /\ b.off \in Nat /\ b.pos \in Int /\ b.size \in 1..MaxSize
        /\ b.buf \in [Idx -> Byte \cup {Dead}] /\ b.dir \in {"0", "SRD", "SWR"}
        /\ d.pos \in Nat
      BY DEF FILE, FD
  <1>2. CASE b.dir = "SWR"
    <2>1. PICK k \in WriteCounts(d, b.len) :
            r = Outcome([b EXCEPT !.pos = b.pos + k, !.len = 0, !.buf = NoData],
                        Written(d, b.buf, k), IF k = b.len THEN 0 ELSE ERR)
        BY Zenon, <1>2 DEF bufio_flush_locked
    <2>2. b.len \in 0..MaxSize /\ \A i \in Idx : i < b.len => b.buf[i] \in Byte
        BY <1>1, Numbers DEF Filled
    <2>3. /\ Written(d, b.buf, k).append = FALSE
          /\ Written(d, b.buf, k).pos = d.pos + k
          /\ Written(d, b.buf, k).pos <= Capacity
        BY <1>1, <2>2, WrittenType DEF Synced
    <2>4. r.bf.pos = b.pos + k /\ r.bf.dir = "SWR" /\ r.fd = Written(d, b.buf, k)
        BY Zenon, <1>2, <2>1 DEF Outcome, FILE
    <2> QED  BY <2>3, <2>4 DEF Synced
  <1>3. CASE b.dir = "SRD"
    <2> DEFINE backup == b.len - b.off
               to == LseekTarget(d, b.pos - backup, "SET")
    <2>1. /\ r.bf = [b EXCEPT !.pos = b.pos - backup, !.len = 0, !.off = 0, !.buf = NoData]
          /\ r.fd = IF backup # 0 THEN Lseeked(d, to) ELSE d
        BY <1>3 DEF bufio_flush_locked, Outcome
    <2>2. b.pos - backup \in 0..Capacity
        BY <1>1, <1>3, Numbers DEF Synced, Filled
    <2>3. to = b.pos - backup
        BY <1>1, <2>2 DEF LseekTarget
    <2>4. Lseeked(d, to).pos = b.pos - backup /\ Lseeked(d, to).append = d.append
        BY <2>2, <2>3 DEF Lseeked, FD
    <2>5. r.bf.pos = b.pos - backup /\ r.bf.len = 0
        BY <2>1 DEF FILE
    <2>6. d.pos = b.pos /\ d.append = FALSE
        BY DEF Synced
    <2> QED  BY <1>1, <2>1, <2>2, <2>4, <2>5, <2>6 DEF Synced
  <1>4. CASE b.dir = "0"
      BY <1>4 DEF bufio_flush_locked, Outcome
  <1> QED  BY <1>1, <1>2, <1>3, <1>4

\* A flush between two calls.
LEMMA FlushGood ==
    ASSUME NEW b, NEW d, Good(b, d), NEW r \in bufio_flush_locked(b, d)
    PROVE  /\ Good(r.bf, r.fd) /\ r.ret \in {0, ERR}
           /\ r.bf.len = 0 /\ r.bf.off = 0 /\ r.bf.dir = b.dir /\ Kept(b, r.bf)
  <1>1. b \in FILE /\ d \in FD /\ Filled(b) /\ Owned(b)
      BY DEF Good, Ready
  <1>2. /\ r.bf \in FILE /\ r.fd \in FD /\ r.ret \in {0, ERR}
        /\ Kept(b, r.bf) /\ r.bf.dir = b.dir
        /\ r.bf.len = 0 /\ r.bf.off = 0 /\ r.bf.peak = b.peak
      BY <1>1, FlushType
  <1>3. Ready(r.bf)
    <2>1. r.bf.size = b.size /\ b.size \in 1..MaxSize /\ b.peak <= b.size
        BY <1>1, <1>2 DEF Kept, FILE, Filled
    <2> QED  BY <1>2, <2>1, Numbers DEF Ready, Filled
  <1>4. Owned(r.bf)
      BY <1>1, <1>2 DEF Owned, Kept
  <1>5. Plain => Synced(r.bf, r.fd)
      BY <1>1, FlushSync DEF Good, Plain
  <1> QED  BY <1>2, <1>3, <1>4, <1>5 DEF Good

\* Changing direction flushes, and the buffer is empty when it changed.
LEMMA SetdirGood ==
    ASSUME NEW b, NEW d, Good(b, d), NEW dir \in {"SRD", "SWR"},
           NEW r \in bufio_setdir_locked(b, d, dir)
    PROVE  Good(r.bf, r.fd) /\ r.bf.dir = dir /\ r.ret \in {0, ERR} /\ Kept(b, r.bf)
  <1>1. CASE b.dir = dir
      BY <1>1 DEF bufio_setdir_locked, Outcome, Kept
  <1>2. CASE b.dir # dir
    <2>1. PICK q \in bufio_flush_locked(b, d) : r = Outcome([q.bf EXCEPT !.dir = dir], q.fd, q.ret)
        BY <1>2 DEF bufio_setdir_locked
    <2>2. /\ Good(q.bf, q.fd) /\ q.ret \in {0, ERR}
          /\ q.bf.len = 0 /\ q.bf.off = 0 /\ Kept(b, q.bf)
        BY FlushGood
    <2>3. r.bf = [q.bf EXCEPT !.dir = dir] /\ r.fd = q.fd /\ r.ret = q.ret
        BY <2>1 DEF Outcome
    <2>4. q.bf \in FILE /\ q.fd \in FD
        BY <2>2 DEF Good
    <2>5. [q.bf EXCEPT !.dir = dir] \in FILE
        BY <2>4 DEF FILE
    <2>6. /\ r.bf.dir = dir /\ r.bf.len = 0 /\ r.bf.off = 0 /\ r.bf.pos = q.bf.pos
          /\ r.bf.peak = q.bf.peak /\ r.bf.buf = q.bf.buf /\ Kept(q.bf, r.bf)
        BY <2>2, <2>3, <2>4 DEF FILE, Kept
    <2>7. Ready(r.bf)
      <3>1. q.bf.size \in 1..MaxSize /\ q.bf.peak <= q.bf.size /\ r.bf.size = q.bf.size
          BY <2>2, <2>4, <2>6 DEF FILE, Good, Ready, Filled, Kept
      <3> QED  BY <2>6, <3>1, Numbers DEF Ready, Filled
    <2>8. Owned(r.bf)
        BY <2>2, <2>6 DEF Good, Owned, Kept
    <2>9. Plain => Synced(r.bf, r.fd)
      <3>1. q.fd.pos \in Nat
          BY <2>4 DEF FD
      <3> QED  BY <2>2, <2>3, <2>6, <3>1 DEF Good, Synced
    <2> QED  BY <2>2, <2>3, <2>4, <2>5, <2>6, <2>7, <2>8, <2>9 DEF Good, Kept
  <1> QED  BY <1>1, <1>2

\* The bytes a read returns lie inside the file.
LEMMA InAddr ==
    ASSUME NEW q \in Nat, NEW n \in Nat, NEW i \in Nat, q + n <= Capacity, i < n
    PROVE  q + i \in Addr
  BY SizeAssumption DEF Addr

\* A refill replaces the buffer by the next bytes of the file, or empties it.
LEMMA FillGood ==
    ASSUME NEW b, NEW d, Good(b, d), b.dir = "SRD", NEW r \in bufio_fill_locked(b, d)
    PROVE  /\ Good(r.bf, r.fd) /\ r.bf.dir = "SRD" /\ Kept(b, r.bf)
           /\ r.ret \in {0, ERR, FEOF} /\ r.bf.off = 0 /\ (r.ret = 0 => r.bf.off < r.bf.len)
  <1>1. /\ b \in FILE /\ d \in FD /\ b.pos \in Int /\ b.size \in 1..MaxSize /\ b.peak \in Nat
        /\ b.peak <= b.size /\ d.pos \in Nat /\ d.end \in 0..Capacity /\ d.file \in [Addr -> Byte]
      BY DEF Good, Ready, Filled, FILE, FD
  <1>2. ASSUME NEW n \in ReadCounts(d, b.size),
               r = Outcome([b EXCEPT !.off = 0, !.len = n, !.pos = b.pos + n,
                              !.buf = [i \in Idx |-> IF i < n THEN d.file[d.pos + i] ELSE Dead],
                              !.peak = Max2(b.peak, n)],
                           [d EXCEPT !.pos = d.pos + n], 0)
        PROVE  /\ Good(r.bf, r.fd) /\ r.bf.dir = "SRD" /\ Kept(b, r.bf)
               /\ r.ret = 0 /\ r.bf.off = 0 /\ r.bf.off < r.bf.len
    <2> DEFINE p == b.pos + n
               to == d.pos + n
               peak == Max2(b.peak, n)
               x == [i \in Idx |-> IF i < n THEN d.file[d.pos + i] ELSE Dead]
    <2>a. n \in Nat \ {0} /\ n <= b.size /\ n <= d.end - d.pos
        BY <1>1, Numbers DEF ReadCounts, Min2
    <2>b. p \in Int /\ to \in Nat /\ to <= Capacity
        BY <1>1, <2>a, SizeAssumption
    <2>c. peak \in Nat /\ peak <= b.size
        BY <1>1, <2>a DEF Max2
    <2>1. /\ n \in Nat \ {0} /\ n <= b.size /\ n <= d.end - d.pos
          /\ p \in Int /\ to \in Nat /\ to <= Capacity /\ peak \in Nat /\ peak <= b.size
        BY <2>a, <2>b, <2>c
    <2>2. \A i \in Nat : i < n => d.pos + i \in Addr
        BY <1>1, <2>a, <2>b, InAddr
    <2>3. x \in [Idx -> Byte \cup {Dead}] /\ \A i \in Idx : i < n => x[i] = d.file[d.pos + i]
        BY <1>1, <2>2, Numbers
    <2>4. /\ r.bf = [b EXCEPT !.off = 0, !.len = n, !.pos = p, !.buf = x, !.peak = peak]
          /\ r.fd = [d EXCEPT !.pos = to] /\ r.ret = 0
        BY <1>2 DEF Outcome
    <2> HIDE DEF x, peak
    <2>5. [b EXCEPT !.off = 0, !.len = n, !.pos = p, !.buf = x, !.peak = peak] \in FILE
      <3> HIDE DEF p
      <3> QED  BY Zenon, <1>1, <2>1, <2>3 DEF FILE
    <2>6. [d EXCEPT !.pos = to] \in FD
        BY <1>1, <2>1 DEF FD
    <2>7. /\ r.bf.off = 0 /\ r.bf.len = n /\ r.bf.pos = p /\ r.bf.buf = x /\ r.bf.peak = peak
          /\ r.bf.dir = "SRD" /\ Kept(b, r.bf)
          /\ r.fd.pos = to /\ r.fd.append = d.append /\ r.fd.file = d.file
        BY <1>1, <2>4 DEF FILE, FD, Kept
    <2>8. Ready(r.bf)
      <3>1. r.bf.size = b.size
          BY <2>7 DEF Kept
      <3>2. ASSUME NEW i \in Idx, i < n PROVE x[i] \in Byte
          BY <1>1, <2>2, <2>3, <3>2, SizeAssumption DEF Idx
      <3> QED  BY <1>1, <2>1, <2>7, <3>1, <3>2 DEF Ready, Filled
    <2>9. Owned(r.bf)
        BY <2>7 DEF Good, Owned, Kept
    <2>10. Plain => Synced(r.bf, r.fd)
      <3> SUFFICES ASSUME Plain PROVE Synced(r.bf, r.fd)
          OBVIOUS
      <3>1. b.pos = d.pos /\ d.append = FALSE
          BY DEF Good, Synced
      <3>2. ASSUME NEW i \in 0..(n - 1) PROVE x[i] = d.file[p - n + i]
        <4>1. i \in Idx /\ i < n /\ p - n + i = d.pos + i
            BY <1>1, <2>a, <3>1, SizeAssumption DEF Idx
        <4> QED  BY <2>3, <4>1
      <3> QED  BY <1>1, <2>1, <2>7, <3>1, <3>2 DEF Synced
    <2> QED  BY <2>1, <2>4, <2>5, <2>6, <2>7, <2>8, <2>9, <2>10 DEF Good
  <1>3. ASSUME NEW e \in ReadFailures(d),
               r = Outcome([b EXCEPT !.off = 0, !.len = 0, !.buf = NoData], d, e)
        PROVE  /\ Good(r.bf, r.fd) /\ r.bf.dir = "SRD" /\ Kept(b, r.bf)
               /\ r.ret \in {ERR, FEOF} /\ r.bf.off = 0
    <2>1. /\ r.bf = [b EXCEPT !.off = 0, !.len = 0, !.buf = NoData] /\ r.fd = d
          /\ r.ret \in {ERR, FEOF}
        BY <1>3 DEF Outcome, ReadFailures
    <2>2. [b EXCEPT !.off = 0, !.len = 0, !.buf = NoData] \in FILE
        BY Zenon, <1>1, NoDataType DEF FILE
    <2>3. /\ r.bf.off = 0 /\ r.bf.len = 0 /\ r.bf.pos = b.pos /\ r.bf.peak = b.peak
          /\ r.bf.dir = "SRD" /\ Kept(b, r.bf)
        BY <1>1, <2>1 DEF FILE, Kept
    <2>4. Ready(r.bf)
      <3>1. r.bf.size = b.size
          BY <2>3 DEF Kept
      <3> QED  BY <1>1, <2>3, <3>1, Numbers DEF Ready, Filled
    <2>5. Owned(r.bf) /\ (Plain => Synced(r.bf, r.fd))
        BY <1>1, <2>1, <2>3 DEF Good, Owned, Kept, Synced
    <2> QED  BY <1>1, <2>1, <2>2, <2>3, <2>4, <2>5 DEF Good
  <1>4. \/ \E n \in ReadCounts(d, b.size) :
             r = Outcome([b EXCEPT !.off = 0, !.len = n, !.pos = b.pos + n,
                            !.buf = [i \in Idx |-> IF i < n THEN d.file[d.pos + i] ELSE Dead],
                            !.peak = Max2(b.peak, n)],
                         [d EXCEPT !.pos = d.pos + n], 0)
        \/ \E e \in ReadFailures(d) :
             r = Outcome([b EXCEPT !.off = 0, !.len = 0, !.buf = NoData], d, e)
      BY Zenon DEF bufio_fill_locked
  <1>5. ERR # 0 /\ FEOF # 0
      BY DEF ERR, FEOF
  <1> QED  BY Zenon, <1>2, <1>3, <1>4, <1>5

\* Taking a buffered byte returns a byte and moves off over it.
LEMMA TakeGood ==
    ASSUME NEW b, NEW d, Good(b, d), b.dir = "SRD", b.off < b.len
    PROVE  /\ Good(bufio_take(b, d).bf, bufio_take(b, d).fd)
           /\ bufio_take(b, d).ret \in Byte /\ Kept(b, bufio_take(b, d).bf)
  <1> DEFINE r == bufio_take(b, d)
             o == b.off + 1
  <1>1. /\ b \in FILE /\ d \in FD /\ b.off \in Nat /\ b.len \in Nat /\ b.size \in 1..MaxSize
        /\ Filled(b)
      BY DEF Good, Ready, FILE
  <1>2. r.bf = [b EXCEPT !.off = o] /\ r.fd = d /\ r.ret = b.buf[b.off]
      BY DEF bufio_take, Outcome
  <1>3. o \in Nat /\ o <= b.len /\ b.buf[b.off] \in Byte
      BY <1>1, Numbers DEF Filled
  <1>4. [b EXCEPT !.off = o] \in FILE
    <2> HIDE DEF o
    <2> QED  BY <1>1, <1>3 DEF FILE
  <1>5. /\ r.bf.off = o /\ r.bf.len = b.len /\ r.bf.pos = b.pos /\ r.bf.buf = b.buf
        /\ r.bf.peak = b.peak /\ r.bf.dir = "SRD" /\ Kept(b, r.bf)
      BY <1>1, <1>2 DEF FILE, Kept
  <1> HIDE DEF r
  <1>6. Ready(r.bf)
      BY <1>1, <1>3, <1>5 DEF Ready, Filled, Kept
  <1>7. Owned(r.bf) /\ (Plain => Synced(r.bf, r.fd))
      BY <1>2, <1>5 DEF Good, Owned, Kept, Synced
  <1>8. Good(r.bf, r.fd) /\ r.ret \in Byte /\ Kept(b, r.bf)
      BY <1>1, <1>2, <1>3, <1>4, <1>5, <1>6, <1>7 DEF Good
  <1> QED  BY <1>8 DEF r

\* __bufio_get returns a byte, or an error or end of file.
LEMMA GetGood ==
    ASSUME NEW b, NEW d, Good(b, d), NEW r \in bufio_get(b, d)
    PROVE  Good(r.bf, r.fd) /\ Kept(b, r.bf) /\ r.ret \in Byte \cup {ERR, FEOF}
  <1>1. PICK q \in bufio_setdir_locked(b, d, "SRD") :
          r \in IF q.ret < 0 THEN {Outcome(q.bf, q.fd, ERR)}
                ELSE IF q.bf.off < q.bf.len THEN {bufio_take(q.bf, q.fd)}
                ELSE {IF u.ret # 0 THEN u ELSE bufio_take(u.bf, u.fd) :
                        u \in bufio_fill_locked(q.bf, q.fd)}
      BY DEF bufio_get
  <1>2. Good(q.bf, q.fd) /\ q.bf.dir = "SRD" /\ Kept(b, q.bf)
      BY SetdirGood
  <1>3. CASE r = Outcome(q.bf, q.fd, ERR)
      BY <1>2, <1>3 DEF Outcome
  <1>4. CASE r = bufio_take(q.bf, q.fd) /\ q.bf.off < q.bf.len
      BY <1>2, <1>4, TakeGood DEF Kept
  <1>5. ASSUME NEW u \in bufio_fill_locked(q.bf, q.fd),
               r = IF u.ret # 0 THEN u ELSE bufio_take(u.bf, u.fd)
        PROVE  Good(r.bf, r.fd) /\ Kept(b, r.bf) /\ r.ret \in Byte \cup {ERR, FEOF}
    <2>1. /\ Good(u.bf, u.fd) /\ u.bf.dir = "SRD" /\ Kept(q.bf, u.bf)
          /\ u.ret \in {0, ERR, FEOF} /\ (u.ret = 0 => u.bf.off < u.bf.len)
        BY <1>2, FillGood
    <2>2. CASE u.ret # 0
        BY <1>2, <1>5, <2>1, <2>2 DEF Kept
    <2>3. CASE u.ret = 0
      <3>1. r = bufio_take(u.bf, u.fd)
          BY <1>5, <2>3
      <3> QED  BY <1>2, <2>1, <2>3, <3>1, TakeGood DEF Kept
    <2> QED  BY <2>2, <2>3
  <1> QED  BY <1>1, <1>3, <1>4, <1>5

\* Storing a byte in write direction: there is room for it, and a buffer it
\* fills is flushed before the caller sees it.
LEMMA StoreGood ==
    ASSUME NEW b, NEW d, Good(b, d), b.dir = "SWR", NEW c \in Byte,
           NEW r \in bufio_store(b, d, c)
    PROVE  Good(r.bf, r.fd) /\ Kept(b, r.bf) /\ r.ret \in {ERR, c}
  <1> DEFINE l == b.len + 1
             m == Max2(b.peak, l)
             x == [b.buf EXCEPT ![b.len] = c]
             b1 == [b EXCEPT !.buf = x, !.len = l, !.peak = m]
  <1>1. /\ b \in FILE /\ d \in FD /\ Filled(b) /\ Owned(b)
        /\ b.len \in Nat /\ b.size \in 1..MaxSize /\ b.peak \in Nat
        /\ b.buf \in [Idx -> Byte \cup {Dead}] /\ b.len < b.size /\ b.peak <= b.size
      BY DEF Good, Ready, Filled, FILE
  <1>2. l \in Nat /\ l <= b.size /\ m \in Nat /\ m <= b.size /\ b.len \in Idx
      BY <1>1, SizeAssumption DEF Max2, Idx
  <1>3. /\ x \in [Idx -> Byte \cup {Dead}]
        /\ \A i \in Idx : i < l => x[i] \in Byte
      BY <1>1, <1>2, SizeAssumption DEF Filled, Idx
  <1>4. r \in IF b1.len >= b1.size \/ (c = NL /\ b1.lbf)
              THEN {Outcome(q.bf, q.fd, IF q.ret < 0 THEN ERR ELSE c) :
                      q \in bufio_flush_locked(b1, d)}
              ELSE {Outcome(b1, d, c)}
      BY DEF bufio_store
  <1> HIDE DEF l, m, x
  <1>5. b1 \in FILE
      BY Zenon, <1>1, <1>2, <1>3 DEF FILE
  <1>6. /\ b1.len = l /\ b1.peak = m /\ b1.buf = x /\ b1.off = b.off /\ b1.pos = b.pos
        /\ b1.dir = "SWR" /\ Kept(b, b1)
      BY <1>1 DEF FILE, Kept
  <1> HIDE DEF b1
  <1>7. Filled(b1) /\ b1.off = 0
      BY <1>1, <1>2, <1>3, <1>6 DEF Filled, Kept, l
  <1>8. Owned(b1) /\ (Plain => Synced(b1, d))
      BY <1>1, <1>6 DEF Good, Owned, Kept, Synced
  <1>9. CASE r = Outcome(b1, d, c) /\ ~(b1.len >= b1.size)
    <2>1. b1.len < b1.size
        BY <1>1, <1>2, <1>6, <1>9 DEF Kept
    <2> QED  BY <1>1, <1>5, <1>6, <1>7, <1>8, <1>9, <2>1 DEF Good, Ready, Outcome
  <1>10. ASSUME NEW q \in bufio_flush_locked(b1, d),
                r = Outcome(q.bf, q.fd, IF q.ret < 0 THEN ERR ELSE c)
         PROVE  Good(r.bf, r.fd) /\ Kept(b, r.bf) /\ r.ret \in {ERR, c}
    <2>1. /\ q.bf \in FILE /\ q.fd \in FD /\ Kept(b1, q.bf) /\ q.bf.dir = b1.dir
          /\ q.bf.len = 0 /\ q.bf.off = 0 /\ q.bf.peak = b1.peak
        BY <1>1, <1>5, <1>7, FlushType
    <2>2. Plain => Synced(q.bf, q.fd)
        BY <1>1, <1>5, <1>7, <1>8, FlushSync DEF Plain
    <2>3. r.bf = q.bf /\ r.fd = q.fd /\ r.ret \in {ERR, c}
        BY <1>10 DEF Outcome
    <2>4. q.bf.size = b.size
        BY <1>6, <2>1 DEF Kept
    <2>5. Ready(q.bf)
        BY <1>1, <1>2, <1>6, <2>1, <2>4, SizeAssumption DEF Ready, Filled, Idx
    <2>6. Owned(q.bf) /\ Kept(b, q.bf)
        BY <1>6, <1>8, <2>1 DEF Owned, Kept
    <2> QED  BY <2>1, <2>2, <2>3, <2>5, <2>6 DEF Good
  <1> QED  BY <1>4, <1>9, <1>10

\* __bufio_put returns the byte or an error.
LEMMA PutGood ==
    ASSUME NEW b, NEW d, Good(b, d), NEW c \in Byte, NEW r \in bufio_put(b, d, c)
    PROVE  Good(r.bf, r.fd) /\ Kept(b, r.bf) /\ r.ret \in {ERR, c}
  <1>1. PICK q \in bufio_setdir_locked(b, d, "SWR") :
          r \in IF q.ret < 0 THEN {Outcome(q.bf, q.fd, ERR)} ELSE bufio_store(q.bf, q.fd, c)
      BY DEF bufio_put
  <1>2. Good(q.bf, q.fd) /\ q.bf.dir = "SWR" /\ Kept(b, q.bf)
      BY SetdirGood
  <1>3. CASE r = Outcome(q.bf, q.fd, ERR)
      BY <1>2, <1>3 DEF Outcome
  <1>4. CASE r \in bufio_store(q.bf, q.fd, c)
      BY <1>2, <1>4, StoreGood DEF Kept
  <1> QED  BY <1>1, <1>3, <1>4

\* The switch of __bufio_seek either moves off within the buffer or drops the
\* buffer and takes over the offset lseek() returned.
LEMMA SeekToGood ==
    ASSUME NEW b, NEW d, Good(b, d), b.dir = "SRD", NEW offset \in Int, NEW whence,
           NEW r, r = bufio_seek_to(b, d, offset, whence)
    PROVE  Good(r.bf, r.fd) /\ Kept(b, r.bf) /\ r.ret \in Int
  <1> DEFINE buf_pos == b.pos - b.len
             target == IF whence = "CUR" THEN offset + buf_pos + b.off ELSE offset
             to == LseekTarget(d, target, IF whence = "CUR" THEN "SET" ELSE whence)
             p == IF to >= 0 THEN to ELSE b.pos
             o == target - buf_pos
  <1>1. /\ b \in FILE /\ d \in FD /\ Filled(b) /\ Owned(b)
        /\ b.pos \in Int /\ b.len \in Nat /\ b.off \in Nat /\ b.size \in 1..MaxSize
        /\ b.peak <= b.size /\ d.pos \in Nat
      BY DEF Good, Ready, Filled, FILE, FD
  <1>2. buf_pos \in Int /\ target \in Int
      BY <1>1
  <1>3. r = IF whence \in {"CUR", "SET"} /\ target \in buf_pos..(buf_pos + b.len)
            THEN Outcome([b EXCEPT !.off = o], d, target)
            ELSE Outcome([b EXCEPT !.pos = p, !.len = 0, !.off = 0, !.buf = NoData],
                         Lseeked(d, to), to)
      BY DEF bufio_seek_to
  <1> HIDE DEF target
  <1>4. CASE target \in buf_pos..(buf_pos + b.len) /\ r = Outcome([b EXCEPT !.off = o], d, target)
    <2>1. o \in Nat /\ o <= b.len
        BY <1>1, <1>2, <1>4
    <2>2. r.bf = [b EXCEPT !.off = o] /\ r.fd = d /\ r.ret \in Int
        BY <1>2, <1>4 DEF Outcome
    <2> HIDE DEF o
    <2>3. [b EXCEPT !.off = o] \in FILE
        BY <1>1, <2>1 DEF FILE
    <2>4. /\ r.bf.off = o /\ r.bf.len = b.len /\ r.bf.pos = b.pos /\ r.bf.buf = b.buf
          /\ r.bf.peak = b.peak /\ r.bf.dir = "SRD" /\ Kept(b, r.bf)
        BY <1>1, <2>2 DEF FILE, Kept
    <2>5. Ready(r.bf)
        BY <1>1, <2>1, <2>4 DEF Ready, Filled, Kept
    <2>6. Owned(r.bf) /\ (Plain => Synced(r.bf, r.fd))
        BY <2>2, <2>4 DEF Good, Owned, Kept, Synced
    <2> QED  BY <1>1, <2>2, <2>3, <2>4, <2>5, <2>6 DEF Good
  <1>5. CASE r = Outcome([b EXCEPT !.pos = p, !.len = 0, !.off = 0, !.buf = NoData],
                         Lseeked(d, to), to)
    <2>1. to \in 0..Capacity \cup {ERR} /\ Lseeked(d, to) \in FD /\ Lseeked(d, to).append = d.append
        BY <1>1, <1>2, LseekType
    <2>2. to \in Int /\ p \in Int
        BY <1>1, <2>1, SizeAssumption DEF ERR
    <2>3. Lseeked(d, to).pos = IF to >= 0 THEN to ELSE d.pos
        BY <1>1 DEF Lseeked, FD
    <2>4. /\ r.bf = [b EXCEPT !.pos = p, !.len = 0, !.off = 0, !.buf = NoData]
          /\ r.fd = Lseeked(d, to) /\ r.ret = to
        BY <1>5 DEF Outcome
    <2> HIDE DEF p, to
    <2>5. [b EXCEPT !.pos = p, !.len = 0, !.off = 0, !.buf = NoData] \in FILE
        BY Zenon, <1>1, <2>2, NoDataType DEF FILE
    <2>6. /\ r.bf.off = 0 /\ r.bf.len = 0 /\ r.bf.pos = p
          /\ r.bf.peak = b.peak /\ r.bf.dir = "SRD" /\ Kept(b, r.bf)
        BY <1>1, <2>4 DEF FILE, Kept
    <2>7. Ready(r.bf)
        BY <1>1, <2>6, SizeAssumption DEF Ready, Filled, Kept, Idx
    <2>8. Owned(r.bf)
        BY <1>1, <2>6 DEF Owned, Kept
    <2>9. Plain => Synced(r.bf, r.fd)
      <3> SUFFICES ASSUME Plain PROVE Synced(r.bf, r.fd)
          OBVIOUS
      <3>1. b.pos = d.pos /\ d.pos <= Capacity /\ d.append = FALSE
          BY DEF Good, Synced
      <3>2. p = r.fd.pos /\ p \in 0..Capacity
          BY <1>1, <2>1, <2>3, <2>4, <3>1, SizeAssumption DEF p, ERR
      <3> QED  BY <2>1, <2>4, <2>6, <3>1, <3>2, SizeAssumption DEF Synced
    <2> QED  BY <2>1, <2>2, <2>4, <2>5, <2>6, <2>7, <2>8, <2>9 DEF Good
  <1> QED  BY <1>3, <1>4, <1>5

\* __bufio_seek.
LEMMA SeekGood ==
    ASSUME NEW b, NEW d, Good(b, d), NEW offset \in Int, NEW whence,
           NEW r \in bufio_seek(b, d, offset, whence)
    PROVE  Good(r.bf, r.fd) /\ Kept(b, r.bf) /\ r.ret \in Int
  <1>1. CASE r = Outcome(b, d, ERR)
      BY <1>1 DEF Outcome, Kept, ERR
  <1>2. ASSUME NEW q \in bufio_setdir_locked(b, d, "SRD"),
               r = IF q.ret < 0 THEN Outcome(q.bf, q.fd, ERR)
                   ELSE bufio_seek_to(q.bf, q.fd, offset, whence)
        PROVE  Good(r.bf, r.fd) /\ Kept(b, r.bf) /\ r.ret \in Int
    <2>1. Good(q.bf, q.fd) /\ q.bf.dir = "SRD" /\ Kept(b, q.bf)
        BY SetdirGood
    <2>2. CASE r = Outcome(q.bf, q.fd, ERR)
        BY <2>1, <2>2 DEF Outcome, ERR
    <2>3. CASE r = bufio_seek_to(q.bf, q.fd, offset, whence)
      <3>1. Good(r.bf, r.fd) /\ Kept(q.bf, r.bf) /\ r.ret \in Int
          BY <2>1, <2>3, SeekToGood
      <3> QED  BY <2>1, <3>1 DEF Kept
    <2> QED  BY <1>2, <2>2, <2>3
  <1> QED  BY <1>1, <1>2 DEF bufio_seek

(***************************************************************************)
(* bufio_setvbuf.c and bufio_close.c                                       *)
(***************************************************************************)

\* Only the position, the direction and the empty buffer matter to a stream
\* whose buffer or flags are replaced.
LEMMA EmptyGood ==
    ASSUME NEW c \in FILE, NEW d \in FD, c.len = 0, c.off = 0, c.peak <= c.size, Owned(c),
           Plain => c.pos = d.pos /\ d.pos <= Capacity /\ d.append = FALSE
    PROVE  Good(c, d)
  <1>1. c.size \in 1..MaxSize /\ d.pos \in Nat
      BY DEF FILE, FD
  <1>2. Ready(c)
      BY <1>1, SizeAssumption DEF Ready, Filled, Idx
  <1>3. Plain => Synced(c, d)
      BY <1>1 DEF Synced
  <1> QED  BY <1>2, <1>3 DEF Good

\* setvbuf's new, empty buffer makes a good stream of a good one.
LEMMA Replaced ==
    ASSUME NEW b, NEW d, Good(b, d), NEW c \in FILE, c.len = 0, c.off = 0, c.pos = b.pos,
           c.peak <= c.size, Owned(c)
    PROVE  Good(c, d)
  BY Zenon, EmptyGood DEF Good, Synced

\* setvbuf gives the stream one of its own, an allocated or the caller's buffer.
LEMMA RebufGood ==
    ASSUME NEW b, NEW d, Good(b, d), b.len = 0, b.off = 0,
           NEW user \in BOOLEAN, NEW mode, NEW size \in 0..MaxSize, NEW fits \in BOOLEAN,
           NEW r, r = bufio_rebuf(b, d, user, mode, size, fits)
    PROVE  Good(r.bf, r.fd) /\ r.ret \in Int
  <1> DEFINE lbf == (mode = "LBF")
             b1 == [b EXCEPT !.lbf = lbf]
             own == user /\ mode # "NBF"
             asked == IF mode = "NBF" THEN 1 ELSE size
             new == IF asked # 0 THEN asked ELSE IF b.size > 1 THEN b.size ELSE BUFSIZ
             b2 == [b1 EXCEPT !.size = new, !.peak = 0]
             freed == IF b.ball THEN b.heap - 1 ELSE b.heap
             grown == IF b.ball THEN b.heap ELSE b.heap + 1
             b3 == [b2 EXCEPT !.where = "user", !.ball = FALSE, !.heap = freed]
             b4 == [b2 EXCEPT !.where = "heap", !.ball = TRUE, !.heap = grown]
  <1>1. /\ b \in FILE /\ d \in FD /\ Owned(b) /\ b.size \in 1..MaxSize /\ b.heap \in Int
        /\ b.peak <= b.size /\ b.ball \in BOOLEAN
      BY DEF Good, Ready, Filled, FILE
  <1>2. new \in 1..MaxSize /\ lbf \in BOOLEAN /\ freed = 0 /\ grown = 1
      BY <1>1, SizeAssumption DEF Owned
  <1>3. r \in {Outcome(b1, d, ERR), Outcome(b1, d, 0), Outcome(b3, d, 0), Outcome(b4, d, 0)}
      BY DEF bufio_rebuf
  <1> HIDE DEF lbf, new, freed, grown
  <1>4. b1 \in FILE
      BY <1>1, <1>2 DEF FILE
  <1>5. /\ b1.len = 0 /\ b1.off = 0 /\ b1.dir = b.dir /\ b1.pos = b.pos /\ b1.peak = b.peak
        /\ b1.size = b.size /\ b1.ball = b.ball /\ b1.where = b.where /\ b1.heap = b.heap
      BY <1>1 DEF FILE
  <1> HIDE DEF b1
  <1>6. Good(b1, d)
      BY <1>1, <1>4, <1>5, Replaced DEF Owned
  <1>7. b3 \in FILE /\ b4 \in FILE
    <2>1. ASSUME NEW w \in {"FILE", "heap", "user"}, NEW x \in BOOLEAN, NEW h \in Int
          PROVE  [b2 EXCEPT !.where = w, !.ball = x, !.heap = h] \in FILE
      <3>1. b2 \in FILE
          BY Zenon, <1>2, <1>4, SizeAssumption DEF FILE
      <3> HIDE DEF b2
      <3> QED  BY Zenon, <3>1 DEF FILE
    <2>2. freed \in Int /\ grown \in Int
        BY <1>2
    <2> QED  BY <2>1, <2>2, Zenon
  <1>8. /\ b3.len = 0 /\ b3.off = 0 /\ b3.dir = b.dir /\ b3.pos = b.pos /\ b3.peak = 0
        /\ b3.size = new /\ b3.ball = FALSE /\ b3.where = "user" /\ b3.heap = 0
      BY <1>2, <1>4, <1>5 DEF FILE
  <1>9. /\ b4.len = 0 /\ b4.off = 0 /\ b4.dir = b.dir /\ b4.pos = b.pos /\ b4.peak = 0
        /\ b4.size = new /\ b4.ball = TRUE /\ b4.where = "heap" /\ b4.heap = 1
      BY <1>2, <1>4, <1>5 DEF FILE
  <1> HIDE DEF b3, b4
  <1>10. Owned(b3) /\ Owned(b4) /\ 0 <= new
      BY <1>2, <1>8, <1>9, SizeAssumption DEF Owned
  <1>11. Good(b3, d) /\ Good(b4, d)
      BY <1>7, <1>8, <1>9, <1>10, Replaced
  <1> QED  BY <1>3, <1>6, <1>11 DEF Outcome, ERR

\* __bufio_setvbuf.
LEMMA SetvbufGood ==
    ASSUME NEW b, NEW d, Good(b, d), NEW user \in BOOLEAN, NEW mode, NEW size \in 0..MaxSize,
           NEW r \in bufio_setvbuf(b, d, user, mode, size)
    PROVE  Good(r.bf, r.fd) /\ r.ret \in Int
  <1>1. PICK q \in bufio_flush_locked(b, d) :
          r \in IF q.ret < 0 THEN {q}
                ELSE {bufio_rebuf(q.bf, q.fd, user, mode, size, fits) : fits \in BOOLEAN}
      BY DEF bufio_setvbuf
  <1>2. Good(q.bf, q.fd) /\ q.ret \in {0, ERR} /\ q.bf.len = 0 /\ q.bf.off = 0
      BY FlushGood
  <1>3. CASE r = q
      BY <1>2, <1>3 DEF ERR
  <1>4. ASSUME NEW fits \in BOOLEAN, r = bufio_rebuf(q.bf, q.fd, user, mode, size, fits)
        PROVE  Good(r.bf, r.fd) /\ r.ret \in Int
      BY <1>2, <1>4, RebufGood
  <1> QED  BY <1>1, <1>3, <1>4

\* __bufio_close frees the buffer setvbuf allocated.
LEMMA CloseGood ==
    ASSUME NEW b, NEW d, Good(b, d), NEW r \in bufio_close(b, d)
    PROVE  Good(r.bf, r.fd) /\ r.ret \in Int
  <1>1. PICK q \in bufio_flush_locked(b, d) : \E e \in IF IOErrors THEN {0, ERR} ELSE {0} :
          r = Outcome([q.bf EXCEPT !.open = FALSE, !.ball = FALSE, !.where = "FILE",
                             !.heap = IF q.bf.ball THEN q.bf.heap - 1 ELSE q.bf.heap], q.fd, e)
      BY Zenon DEF bufio_close
  <1> DEFINE freed == IF q.bf.ball THEN q.bf.heap - 1 ELSE q.bf.heap
             c == [q.bf EXCEPT !.open = FALSE, !.ball = FALSE, !.where = "FILE", !.heap = freed]
  <1>2. Good(q.bf, q.fd) /\ q.bf.len = 0 /\ q.bf.off = 0
      BY FlushGood
  <1>3. q.bf \in FILE /\ q.bf.peak <= q.bf.size /\ freed = 0
      BY <1>2 DEF Good, Ready, Filled, Owned
  <1>4. r.bf = c /\ r.fd = q.fd /\ r.ret \in Int
      BY <1>1 DEF Outcome, ERR
  <1> HIDE DEF freed
  <1>5. c \in FILE
    <2>1. ASSUME NEW o \in BOOLEAN, NEW x \in BOOLEAN, NEW h \in Int
          PROVE  [q.bf EXCEPT !.open = o, !.ball = x, !.where = "FILE", !.heap = h] \in FILE
        BY Zenon, <1>3 DEF FILE
    <2>2. freed \in Int
        BY <1>3
    <2> QED  BY <2>1, <2>2, Zenon
  <1>6. /\ c.len = 0 /\ c.off = 0 /\ c.dir = q.bf.dir /\ c.pos = q.bf.pos /\ c.peak = q.bf.peak
        /\ c.size = q.bf.size /\ c.ball = FALSE /\ c.where = "FILE" /\ c.heap = 0
      BY <1>2, <1>3 DEF FILE
  <1> HIDE DEF c
  <1>7. Good(c, q.fd)
      BY <1>2, <1>3, <1>5, <1>6, Replaced DEF Owned
  <1> QED  BY <1>4, <1>7

(***************************************************************************)
(* The FILE operations                                                     *)
(***************************************************************************)

\* A stream with the same buffer is as good.
LEMMA SameBuffer ==
    ASSUME NEW b, NEW d, Good(b, d), NEW c \in FILE,
           c.len = b.len, c.off = b.off, c.dir = b.dir, c.pos = b.pos, c.peak = b.peak,
           c.size = b.size, c.ball = b.ball, c.where = b.where, c.heap = b.heap, c.buf = b.buf
    PROVE  Good(c, d)
  <1>1. Ready(c) /\ Owned(c)
      BY DEF Good, Ready, Filled, Owned
  <1>2. Plain => Synced(c, d)
      BY DEF Good, Synced
  <1> QED  BY <1>1, <1>2 DEF Good

\* New flags.
LEMMA FlagGood ==
    ASSUME NEW b, NEW d, Good(b, d), NEW F \in SUBSET FileFlag
    PROVE  Good([b EXCEPT !.flags = F], d)
  <1> DEFINE c == [b EXCEPT !.flags = F]
  <1>1. b \in FILE
      BY DEF Good
  <1>2. c \in FILE
      BY <1>1 DEF FILE
  <1>3. c.len = b.len /\ c.off = b.off /\ c.dir = b.dir /\ c.pos = b.pos /\ c.peak = b.peak
      BY <1>1 DEF FILE
  <1>4. c.size = b.size /\ c.ball = b.ball /\ c.where = b.where /\ c.heap = b.heap /\ c.buf = b.buf
      BY <1>1 DEF FILE
  <1> HIDE DEF c
  <1>5. Good(c, d)
      BY <1>2, <1>3, <1>4, SameBuffer
  <1> QED  BY <1>5 DEF c

\* A new pushed-back character, or none.
LEMMA UngetGood ==
    ASSUME NEW b, NEW d, Good(b, d), NEW u \in Nat
    PROVE  Good([b EXCEPT !.unget = u], d)
  <1> DEFINE c == [b EXCEPT !.unget = u]
  <1>1. b \in FILE
      BY DEF Good
  <1>2. c \in FILE
      BY <1>1 DEF FILE
  <1>3. c.len = b.len /\ c.off = b.off /\ c.dir = b.dir /\ c.pos = b.pos /\ c.peak = b.peak
      BY <1>1 DEF FILE
  <1>4. c.size = b.size /\ c.ball = b.ball /\ c.where = b.where /\ c.heap = b.heap /\ c.buf = b.buf
      BY <1>1 DEF FILE
  <1> HIDE DEF c
  <1>5. Good(c, d)
      BY <1>2, <1>3, <1>4, SameBuffer
  <1> QED  BY <1>5 DEF c

\* The flags and the pushed-back character do not concern the buffer.
LEMMA FlagsGood ==
    ASSUME NEW b, NEW d, Good(b, d), NEW F \in SUBSET FileFlag, NEW u \in Nat
    PROVE  /\ Good([b EXCEPT !.flags = F], d)
           /\ Good([b EXCEPT !.unget = u], d)
           /\ Good([b EXCEPT !.flags = F, !.unget = u], d)
           /\ Good([b EXCEPT !.unget = u, !.flags = F], d)
  <1> DEFINE f == [b EXCEPT !.flags = F]
             g == [b EXCEPT !.unget = u]
  <1>1. Good(f, d) /\ Good(g, d)
      BY FlagGood, UngetGood
  <1>2. b \in FILE
      BY DEF Good
  <1>3. /\ [b EXCEPT !.flags = F, !.unget = u] = [f EXCEPT !.unget = u]
        /\ [b EXCEPT !.unget = u, !.flags = F] = [g EXCEPT !.flags = F]
      BY <1>2 DEF FILE
  <1> HIDE DEF f, g
  <1>4. Good([f EXCEPT !.unget = u], d) /\ Good([g EXCEPT !.flags = F], d)
      BY <1>1, FlagGood, UngetGood
  <1> QED  BY <1>1, <1>3, <1>4 DEF f, g

\* fseek and ftell.
LEMMA FseekGood ==
    ASSUME NEW b, NEW d, Good(b, d), NEW offset \in Int, NEW whence,
           NEW r \in FSEEK(b, d, offset, whence)
    PROVE  Good(r.bf, r.fd) /\ r.ret \in Int
  <1>1. PICK q \in bufio_seek(b, d, offset, whence) :
          r = IF q.ret >= 0
              THEN Outcome([q.bf EXCEPT !.flags = q.bf.flags \ {"SEOF"}, !.unget = 0], q.fd, 0)
              ELSE Outcome(q.bf, q.fd, -1)
      BY Zenon DEF FSEEK
  <1>2. Good(q.bf, q.fd)
      BY SeekGood
  <1>3. q.bf.flags \ {"SEOF"} \in SUBSET FileFlag
      BY <1>2 DEF Good, FILE
  <1>4. Good([q.bf EXCEPT !.flags = q.bf.flags \ {"SEOF"}, !.unget = 0], q.fd)
      BY Zenon, <1>2, <1>3, FlagsGood
  <1> QED  BY <1>1, <1>2, <1>4 DEF Outcome

\* ftell only asks for the position.
LEMMA FtellGood ==
    ASSUME NEW b, NEW d, Good(b, d), NEW r \in FTELL(b, d)
    PROVE  Good(r.bf, r.fd) /\ r.ret \in Int
  <1>1. PICK q \in bufio_seek(b, d, 0, "CUR") :
          r = Outcome(q.bf, q.fd, IF b.unget # 0 THEN q.ret - 1 ELSE q.ret)
      BY DEF FTELL
  <1>2. Good(q.bf, q.fd) /\ q.ret \in Int
      BY SeekGood
  <1> QED  BY <1>1, <1>2 DEF Outcome

\* getc returns a byte, the pushed-back one included, or EOF.
LEMMA GetcGood ==
    ASSUME NEW b, NEW d, Good(b, d), NEW r \in GETC(b, d)
    PROVE  Good(r.bf, r.fd) /\ r.ret \in Int
  <1>1. b.flags \in SUBSET FileFlag /\ b.unget \in Nat
      BY DEF Good, FILE
  <1>2. CASE r = Outcome([b EXCEPT !.flags = b.flags \cup {"SERR"}], d, EOF)
    <2>1. b.flags \cup {"SERR"} \in SUBSET FileFlag
        BY <1>1 DEF FileFlag
    <2>2. Good([b EXCEPT !.flags = b.flags \cup {"SERR"}], d)
        BY Zenon, <2>1, FlagsGood
    <2> QED  BY <1>2, <2>2 DEF Outcome, EOF
  <1>3. CASE r = Outcome([b EXCEPT !.unget = 0], d, b.unget - 1)
    <2>1. Good([b EXCEPT !.unget = 0], d)
        BY Zenon, FlagsGood
    <2> QED  BY <1>1, <1>3, <2>1 DEF Outcome
  <1>4. ASSUME NEW q \in bufio_get(b, d),
               r = IF q.ret < 0
                   THEN Outcome([q.bf EXCEPT !.flags = q.bf.flags \cup
                                    {IF q.ret = ERR THEN "SERR" ELSE "SEOF"}], q.fd, EOF)
                   ELSE q
        PROVE  Good(r.bf, r.fd) /\ r.ret \in Int
    <2> DEFINE F == q.bf.flags \cup {IF q.ret = ERR THEN "SERR" ELSE "SEOF"}
    <2>0. Good(q.bf, q.fd) /\ q.ret \in Byte \cup {ERR, FEOF}
        BY GetGood
    <2>a. Byte \cup {ERR, FEOF} \subseteq Int
        BY ByteAssumption DEF ERR, FEOF
    <2>1. Good(q.bf, q.fd) /\ q.ret \in Int
        BY <2>0, <2>a
    <2>2. F \in SUBSET FileFlag
        BY <2>1 DEF Good, FILE, FileFlag
    <2>3. r = IF q.ret < 0 THEN Outcome([q.bf EXCEPT !.flags = F], q.fd, EOF) ELSE q
        BY <1>4
    <2> HIDE DEF F
    <2>4. Good([q.bf EXCEPT !.flags = F], q.fd)
        BY Zenon, <2>1, <2>2, FlagsGood
    <2> QED  BY <2>1, <2>3, <2>4 DEF Outcome, EOF
  <1> QED  BY Zenon, <1>2, <1>3, <1>4 DEF GETC

\* ungetc stores the character beside the buffer, or refuses.
LEMMA UngetcGood ==
    ASSUME NEW b, NEW d, Good(b, d), NEW c \in Byte, NEW r \in UNGETC(b, d, c)
    PROVE  Good(r.bf, r.fd) /\ r.ret \in Int
  <1>1. c \in Nat /\ c + 1 \in Nat
      BY ByteAssumption
  <1>2. b.flags \ {"SEOF"} \in SUBSET FileFlag
      BY DEF Good, FILE
  <1>3. Good([b EXCEPT !.unget = c + 1, !.flags = b.flags \ {"SEOF"}], d)
      BY Zenon, <1>1, <1>2, FlagsGood
  <1>4. \/ r = Outcome(b, d, EOF)
        \/ r = Outcome([b EXCEPT !.unget = c + 1, !.flags = b.flags \ {"SEOF"}], d, c)
      BY DEF UNGETC
  <1> QED  BY <1>1, <1>3, <1>4 DEF Outcome, EOF

\* putc stores the byte or reports EOF and sets __SERR.
LEMMA PutcGood ==
    ASSUME NEW b, NEW d, Good(b, d), NEW c \in Byte, NEW r \in PUTC(b, d, c)
    PROVE  Good(r.bf, r.fd) /\ r.ret \in Int
  <1>1. CASE r = Outcome(b, d, EOF)
      BY <1>1 DEF Outcome, EOF
  <1>2. ASSUME NEW q \in bufio_put(b, d, c),
               r = IF q.ret < 0
                   THEN Outcome([q.bf EXCEPT !.flags = q.bf.flags \cup {"SERR"}], q.fd, EOF)
                   ELSE q
        PROVE  Good(r.bf, r.fd) /\ r.ret \in Int
    <2>1. Good(q.bf, q.fd) /\ q.ret \in {ERR, c}
        BY PutGood
    <2>2. q.ret \in Int
        BY <2>1, ByteAssumption DEF ERR
    <2>3. q.bf.flags \cup {"SERR"} \in SUBSET FileFlag
        BY <2>1 DEF Good, FILE, FileFlag
    <2>4. Good([q.bf EXCEPT !.flags = q.bf.flags \cup {"SERR"}], q.fd)
        BY Zenon, <2>1, <2>3, FlagsGood
    <2> QED  BY <1>2, <2>1, <2>2, <2>4 DEF Outcome, EOF
  <1> QED  BY Zenon, <1>1, <1>2 DEF PUTC

\* fflush empties the buffer and forgets the pushed-back character.
LEMMA FflushGood ==
    ASSUME NEW b, NEW d, Good(b, d), NEW r \in FFLUSH(b, d)
    PROVE  /\ Good(r.bf, r.fd) /\ r.ret \in Int
           /\ r.bf.len = 0 /\ r.bf.off = 0
  <1>1. PICK q \in bufio_flush_locked(b, d) : r = Outcome([q.bf EXCEPT !.unget = 0], q.fd, q.ret)
      BY DEF FFLUSH
  <1>2. Good(q.bf, q.fd) /\ q.ret \in {0, ERR} /\ q.bf.len = 0 /\ q.bf.off = 0 /\ q.bf \in FILE
      BY FlushGood DEF Good
  <1>3. r.bf = [q.bf EXCEPT !.unget = 0] /\ r.fd = q.fd /\ r.ret = q.ret
      BY <1>1 DEF Outcome
  <1>4. Good([q.bf EXCEPT !.unget = 0], q.fd)
      BY Zenon, <1>2, FlagsGood
  <1>5. r.bf.len = 0 /\ r.bf.off = 0
      BY <1>2, <1>3 DEF FILE
  <1> QED  BY <1>2, <1>3, <1>4, <1>5 DEF ERR

\* clearerr changes two flags.
LEMMA ClearerrGood ==
    ASSUME NEW b, NEW d, Good(b, d)
    PROVE  Good([b EXCEPT !.flags = b.flags \ {"SERR", "SEOF"}], d)
  <1>1. b.flags \ {"SERR", "SEOF"} \in SUBSET FileFlag
      BY DEF Good, FILE
  <1> QED  BY Zenon, <1>1, FlagsGood

(***************************************************************************)
(* Opening.                                                                *)
(***************************************************************************)

\* open() leaves an offset of 0, and append mode only when the mode asks for it.
LEMMA OpenedType ==
    ASSUME NEW d \in FD, NEW how, NEW mode
    PROVE  /\ Truncated(d, how) \in FD
           /\ Opened(d, mode) \in FD /\ Opened(d, mode).pos = 0
           /\ mode \notin {"a", "a+"} => Opened(d, mode).append = FALSE
           /\ Truncated(d, how).pos = d.pos /\ Truncated(d, how).append = d.append
  <1>1. [i \in Addr |-> 0] \in [Addr -> Byte] /\ 0 \in 0..Capacity
      BY ByteAssumption, SizeAssumption
  <1>2. [d EXCEPT !.file = [i \in Addr |-> 0], !.end = 0] \in FD
      BY Zenon, <1>1 DEF FD
  <1>3. Truncated(d, how) \in FD
      BY <1>2 DEF Truncated
  <1>4. Truncated(d, how).pos = d.pos /\ Truncated(d, how).append = d.append
      BY DEF Truncated, FD
  <1>5. ASSUME NEW x \in BOOLEAN PROVE [d EXCEPT !.pos = 0, !.append = x] \in FD
      BY Zenon DEF FD
  <1>6. Opened(d, mode) \in FD
    <2>1. (mode \in {"a", "a+"}) \in BOOLEAN
        OBVIOUS
    <2> QED  BY <1>5, <2>1, Zenon DEF Opened
  <1>7. Opened(d, mode).pos = 0
      BY DEF Opened, FD
  <1>8. ASSUME mode \notin {"a", "a+"} PROVE Opened(d, mode).append = FALSE
    <2>1. (mode \in {"a", "a+"}) = FALSE
        BY <1>8
    <2> QED  BY Zenon, <2>1 DEF Opened, FD
  <1> QED  BY Zenon, <1>3, <1>4, <1>6, <1>7, <1>8

\* A fresh FILE on a descriptor at offset 0.
LEMMA FreshGood ==
    ASSUME NEW d \in FD, d.pos = 0, NEW mode, NEW o \in BOOLEAN, Plain => d.append = FALSE
    PROVE  Good([FreshFile(mode) EXCEPT !.open = o], d) /\ Good(FreshFile(mode), d)
  <1>1. stdio_flags(mode) \subseteq FileFlag
      BY DEF stdio_flags, FileFlag
  <1>2. FreshFile(mode) \in FILE
      BY <1>1, NoDataType, SizeAssumption DEF FreshFile, FILE
  <1>3. [FreshFile(mode) EXCEPT !.open = o] \in FILE
      BY <1>2 DEF FILE
  <1>4. ASSUME NEW c \in {FreshFile(mode), [FreshFile(mode) EXCEPT !.open = o]}
        PROVE  Good(c, d)
    <2>1. /\ c.len = 0 /\ c.off = 0 /\ c.dir = "0" /\ c.pos = 0 /\ c.peak = 0
          /\ c.size = BUFSIZ /\ c.ball = FALSE /\ c.where = "FILE" /\ c.heap = 0
        BY DEF FreshFile
    <2>2. c \in FILE
        BY <1>2, <1>3
    <2>3. Ready(c) /\ Owned(c)
        BY <2>1, SizeAssumption DEF Ready, Filled, Owned, Idx
    <2>4. Plain => Synced(c, d)
        BY <2>1, SizeAssumption DEF Synced
    <2> QED  BY <2>2, <2>3, <2>4 DEF Good
  <1> QED  BY <1>4

\* fopen; a mode other than "a" and "a+" leaves a descriptor at offset 0.
LEMMA OpenGood ==
    ASSUME NEW d \in FD, NEW mode \in Modes, NEW r \in OpenFile(d, mode)
    PROVE  Good(r.bf, r.fd) /\ r.ret \in Int
  <1> DEFINE o == Opened(Truncated(d, mode), mode)
  <1>1. o \in FD /\ o.pos = 0 /\ (mode \notin {"a", "a+"} => o.append = FALSE)
      BY Zenon, OpenedType
  <1>2. r \in IF o.append THEN {Outcome(q.bf, q.fd, 0) : q \in FSEEK(FreshFile(mode), o, 0, "END")}
              ELSE {Outcome(FreshFile(mode), o, 0)}
      BY DEF OpenFile
  <1> HIDE DEF o
  <1>3. Good(FreshFile(mode), o)
    <2>1. Plain => o.append = FALSE
        BY <1>1 DEF Plain
    <2> QED  BY Zenon, <1>1, <2>1, FreshGood
  <1>4. ASSUME NEW q \in FSEEK(FreshFile(mode), o, 0, "END"), r = Outcome(q.bf, q.fd, 0)
        PROVE  Good(r.bf, r.fd) /\ r.ret \in Int
    <2>1. Good(q.bf, q.fd)
        BY <1>3, FseekGood
    <2> QED  BY <1>4, <2>1 DEF Outcome
  <1>5. CASE r = Outcome(FreshFile(mode), o, 0)
      BY <1>3, <1>5 DEF Outcome
  <1> QED  BY <1>2, <1>4, <1>5

\* freopen: the stream is flushed to the old descriptor, then starts at offset 0
\* of the new one; or it stays as it is.
LEMMA FreopenGood ==
    ASSUME NEW b, NEW d, Good(b, d), NEW how \in Reopens, NEW mode \in Modes,
           NEW r \in FREOPEN(b, d, how, mode)
    PROVE  Good(r.bf, r.fd) /\ r.ret \in Int
  <1> DEFINE d0 == IF how = "same" THEN Truncated(d, mode) ELSE d
             After(e) == CASE how = "same" -> Opened(e, mode)
                           [] how = "other" -> Opened(Truncated(e, "w"), mode)
                           [] how = "null" -> e
             Restart(c) == [c EXCEPT !.pos = 0, !.flags = stdio_flags(mode)]
  <1>a. r \in Reopened(b, d, how, mode) \/ r = Outcome(b, d, ERR)
      BY DEF FREOPEN
  <1>b. CASE r = Outcome(b, d, ERR)
      BY <1>b DEF Outcome, ERR
  <1> SUFFICES ASSUME r \in Reopened(b, d, how, mode)
               PROVE  Good(r.bf, r.fd) /\ r.ret \in Int
      BY <1>a, <1>b
  <1>1. PICK q \in FFLUSH(b, d0) :
          r \in IF Restart(q.bf).size # BUFSIZ \/ Restart(q.bf).lbf
                THEN {Outcome(u.bf, u.fd, 0) :
                        u \in bufio_setvbuf(Restart(q.bf), After(q.fd), FALSE, "FBF", BUFSIZ)}
                ELSE {Outcome(Restart(q.bf), After(q.fd), 0)}
      BY Zenon DEF Reopened
  <1>2. d0 \in FD /\ b \in FILE /\ Filled(b) /\ Owned(b)
      BY Zenon, OpenedType DEF Good, Ready
  <1>3. PICK p \in bufio_flush_locked(b, d0) : q = Outcome([p.bf EXCEPT !.unget = 0], p.fd, p.ret)
      BY DEF FFLUSH
  <1> HIDE DEF d0
  <1>4. /\ p.bf \in FILE /\ p.fd \in FD /\ p.bf.len = 0 /\ p.bf.off = 0
        /\ p.bf.peak = b.peak /\ Kept(b, p.bf)
      BY <1>2, FlushType
  <1>5. q.bf = [p.bf EXCEPT !.unget = 0] /\ q.fd = p.fd
      BY <1>3 DEF Outcome
  <1> DEFINE c == Restart(q.bf)
             e == After(q.fd)
  <1>6. c \in FILE
    <2>1. [p.bf EXCEPT !.unget = 0] \in FILE
        BY <1>4 DEF FILE
    <2>2. stdio_flags(mode) \in SUBSET FileFlag
        BY DEF stdio_flags, FileFlag
    <2>3. q.bf \in FILE
        BY <1>5, <2>1
    <2>4. ASSUME NEW F \in SUBSET FileFlag, NEW b1 \in FILE, NEW z \in Int
          PROVE  [b1 EXCEPT !.pos = z, !.flags = F] \in FILE
        BY Zenon DEF FILE
    <2>5. 0 \in Int
        OBVIOUS
    <2> QED  BY <2>2, <2>3, <2>4, <2>5, Zenon
  <1>7. /\ c.len = 0 /\ c.off = 0 /\ c.pos = 0 /\ c.peak = b.peak /\ c.size = b.size
        /\ c.ball = b.ball /\ c.where = b.where /\ c.heap = b.heap
      BY <1>4, <1>5 DEF FILE, Kept
  <1>8. e \in FD
    <2>1. how \in {"same", "other", "null"}
        BY CallAssumption
    <2> QED  BY Zenon, <1>4, <1>5, <2>1, OpenedType
  <1>9. Plain => e.pos = 0 /\ e.append = FALSE
    <2> SUFFICES ASSUME Plain PROVE e.pos = 0 /\ e.append = FALSE
        BY Zenon
    <2>1. how \in {"same", "other"} /\ mode \notin {"a", "a+"}
        BY CallAssumption DEF Plain
    <2>2. PICK x \in FD : e = Opened(x, mode)
        BY Zenon, <1>4, <1>5, <2>1, OpenedType
    <2> HIDE DEF e
    <2> QED  BY Zenon, <2>1, <2>2, OpenedType
  <1> HIDE DEF c, e
  <1>10. Good(c, e)
    <2>1. Owned(c) /\ c.peak <= c.size
        BY <1>2, <1>7 DEF Owned, Filled
    <2>2. Plain => c.pos = e.pos /\ e.pos <= Capacity /\ e.append = FALSE
        BY <1>7, <1>9, SizeAssumption
    <2> QED  BY Zenon, <1>6, <1>7, <1>8, <2>1, <2>2, EmptyGood
  <1>11. CASE r = Outcome(c, e, 0)
      BY <1>10, <1>11 DEF Outcome
  <1>12. ASSUME NEW u \in bufio_setvbuf(c, e, FALSE, "FBF", BUFSIZ), r = Outcome(u.bf, u.fd, 0)
         PROVE  Good(r.bf, r.fd) /\ r.ret \in Int
    <2>1. BUFSIZ \in 0..MaxSize /\ FALSE \in BOOLEAN
        BY SizeAssumption
    <2>2. Good(u.bf, u.fd)
        BY Zenon, <1>10, <2>1, SetvbufGood
    <2> QED  BY <1>12, <2>2 DEF Outcome
  <1> QED  BY Zenon, <1>1, <1>11, <1>12 DEF c, e

(***************************************************************************)
(* The theorems.                                                           *)
(***************************************************************************)

\* The inductive invariant.
IInv == Good(bf, fd) /\ call.ret \in Int

\* Before the first fopen there is a closed, empty stream.
LEMMA InitIInv == Init => IInv
  <1> SUFFICES ASSUME Init PROVE IInv
      OBVIOUS
  <1>1. PICK e \in 0..Capacity, f \in [Addr -> Byte] :
          fd = [file |-> f, end |-> e, pos |-> 0, append |-> FALSE]
      BY Zenon DEF Init
  <1>2. fd \in FD /\ fd.pos = 0 /\ fd.append = FALSE
      BY <1>1 DEF FD
  <1>3. bf = [FreshFile("r") EXCEPT !.open = FALSE]
      BY DEF Init
  <1>4. Good(bf, fd)
      BY Zenon, <1>2, <1>3, FreshGood
  <1> QED  BY <1>4 DEF IInv, Init

\* The state after a call whose outcomes are all good.
LEMMA CallGood ==
    ASSUME NEW fn, NEW arg, NEW S, Call(fn, arg, S), \A r \in S : Good(r.bf, r.fd) /\ r.ret \in Int
    PROVE  IInv'
  BY DEF Call, IInv

\* Every call, whatever the descriptor answers, leaves a good stream.
LEMMA StepIInv == IInv /\ [Next]_vars => IInv'
  <1> SUFFICES ASSUME IInv, [Next]_vars PROVE IInv'
      OBVIOUS
  <1>0. Good(bf, fd) /\ fd \in FD
      BY DEF IInv, Good
  <1>1. ASSUME NEW mode \in Modes, fopen(mode) PROVE IInv'
      BY <1>0, <1>1, OpenGood, CallGood DEF fopen
  <1>2. ASSUME getc PROVE IInv'
      BY <1>0, <1>2, GetcGood, CallGood DEF getc
  <1>3. ASSUME NEW c \in Byte, ungetc(c) PROVE IInv'
      BY <1>0, <1>3, UngetcGood, CallGood DEF ungetc
  <1>4. ASSUME NEW c \in Byte, putc(c) PROVE IInv'
      BY <1>0, <1>4, PutcGood, CallGood DEF putc
  <1>5. ASSUME fflush PROVE IInv'
      BY <1>0, <1>5, FflushGood, CallGood DEF fflush
  <1>6. ASSUME NEW offset \in Offsets, NEW whence, fseek(offset, whence) PROVE IInv'
    <2>1. offset \in Int
        BY CallAssumption
    <2> QED  BY <1>0, <1>6, <2>1, FseekGood, CallGood DEF fseek
  <1>7. ASSUME ftell PROVE IInv'
      BY <1>0, <1>7, FtellGood, CallGood DEF ftell
  <1>8. ASSUME NEW a \in Setvbufs, setvbuf(a[1], a[2], a[3]) PROVE IInv'
    <2>1. a[1] \in BOOLEAN /\ a[3] \in 0..MaxSize
        BY CallAssumption
    <2> QED  BY <1>0, <1>8, <2>1, SetvbufGood, CallGood DEF setvbuf
  <1>9. ASSUME NEW how \in Reopens, NEW mode \in Modes, freopen(how, mode) PROVE IInv'
      BY <1>0, <1>9, FreopenGood, CallGood DEF freopen
  <1>10. ASSUME clearerr PROVE IInv'
    <2>1. PICK r \in {Outcome([bf EXCEPT !.flags = bf.flags \ {"SERR", "SEOF"}], fd, 0)} :
            bf' = r.bf /\ fd' = r.fd /\ call' = [fn |-> "clearerr", arg |-> <<>>, ret |-> r.ret]
        BY <1>10 DEF clearerr, Call
    <2>2. Good(r.bf, r.fd) /\ r.ret = 0
        BY <1>0, ClearerrGood DEF Outcome
    <2> QED  BY <2>1, <2>2 DEF IInv
  <1>11. ASSUME fclose PROVE IInv'
      BY <1>0, <1>11, CloseGood, CallGood DEF fclose
  <1>12. CASE UNCHANGED vars
      BY <1>12 DEF vars, IInv
  <1> QED  BY <1>1, <1>2, <1>3, <1>4, <1>5, <1>6, <1>7, <1>8, <1>9, <1>10, <1>11, <1>12 DEF Next

\* In every reachable state of a stream, whatever was called and whatever read,
\* write and lseek answered, the buffer's indices are within its bounds and its
\* memory has exactly one owner.
THEOREM BufferSafe == Spec => [](TypeOK /\ BufferBounds /\ BufferOwner)
  <1>1. IInv => TypeOK /\ BufferBounds /\ BufferOwner
      BY DEF IInv, Good, Ready, Filled, Owned, TypeOK, BufferBounds, BufferOwner
  <1> QED  BY <1>1, InitIInv, StepIInv, PTL DEF Spec

\* On a descriptor that can seek, outside append mode, pos is the descriptor's
\* offset between two calls, and the data read ahead are the file's.
THEOREM PositionKept ==
    ASSUME Plain
    PROVE  Spec => [](FdPosition /\ ReadAhead)
  <1>1. IInv => FdPosition /\ ReadAhead
      BY DEF IInv, Good, Synced, FdPosition, ReadAhead
  <1> QED  BY <1>1, InitIInv, StepIInv, PTL DEF Spec

=============================================================================

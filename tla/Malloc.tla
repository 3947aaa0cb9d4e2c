------------------------------- MODULE Malloc -------------------------------
(***************************************************************************)
(* The heap of libc/stdlib: malloc, free, realloc and memalign over sbrk,  *)
(* with the general free list, the fixed-size bucket lists and the chunk   *)
(* headers, used by several threads.                                       *)
(*                                                                         *)
(* The heap is the record heap; a C function that changes it is an         *)
(* operator from one heap to the next.  A chunk is the address its user    *)
(* gets; its header, the chunk's size with the free bit, lies HEAD bytes   *)
(* before it.  What runs under the libc lock is one step; what a call does *)
(* before and after it takes the lock (marking the header, splitting a     *)
(* chunk it owns) is a step of its own, so calls of different threads      *)
(* interleave as in the code.                                              *)
(*                                                                         *)
(* A definition named X_slip is X with a plausible mistake; the properties *)
(* are shown to notice it.                                                 *)
(***************************************************************************)
EXTENDS Integers, Sequences, FiniteSets

CONSTANTS
    HEAD,       \* MALLOC_HEAD_SIZE
    PTR,        \* MALLOC_CHUNK_SIZE
    ALIGN,      \* MALLOC_CHUNK_ALIGN
    SIZE_MAX,
    BucketPot,  \* MALLOC_MAX_BUCKET_POT, 0 without __MALLOC_SMALL_BUCKET
    HeapStarts, HeapEnd,    \* __heap_start may be anything, __heap_end
    Threads,
    Requests,   \* the sizes asked for
    Aligns,     \* the alignments asked of memalign
    Strays,     \* amounts of sbrk() calls that are not malloc's
    MaxCalls    \* bounds the calls made in one behaviour

ASSUME LayoutAssumption ==
    /\ HEAD \in Nat \ {0} /\ PTR \in Nat \ {0} /\ ALIGN \in Nat \ {0}
    /\ SIZE_MAX \in Nat /\ HeapEnd \in 1..SIZE_MAX
    /\ HeapStarts \subseteq 1..HeapEnd
ASSUME RequestAssumption ==
    /\ Requests \subseteq 0..SIZE_MAX /\ Aligns \subseteq Nat \ {0} /\ Strays \subseteq Nat \ {0}
    /\ BucketPot \in {0} \cup 4..10 /\ MaxCalls \in Nat

(***************************************************************************)
(* libc/stdlib/local-malloc.h                                              *)
(***************************************************************************)
NULL == 0

MAX(a, b) == IF a >= b THEN a ELSE b
align_up(x, a) == ((x + a - 1) \div a) * a

CHUNK_MIN == align_up(PTR + HEAD, ALIGN)
ALLOC_MAX == SIZE_MAX - 2 * MAX(PTR, ALIGN) - HEAD

\* The exponent of the power of two, from 16 on, that is no less than x.
UP_POT(x) == IF x > 1024 THEN 0
             ELSE CHOOSE k \in 4..10 : x <= 2^k /\ (k > 4 => x > 2^(k - 1))

BUCKET_EXTRA == align_up(HEAD, ALIGN)
MIN_BUCKET_POT == UP_POT(CHUNK_MIN)
BUCKET_SIZE(b) == 2^(b + MIN_BUCKET_POT) + BUCKET_EXTRA
BUCKET_NUM(s) == UP_POT(s - BUCKET_EXTRA) - MIN_BUCKET_POT
Buckets == IF BucketPot = 0 THEN {} ELSE 0..(BucketPot - MIN_BUCKET_POT)

\* s <= MALLOC_MAX_BUCKET
Small(s) == Buckets # {} /\ s <= BUCKET_SIZE(BucketPot - MIN_BUCKET_POT)

\* A chunk of this size goes into a bucket list.
IsBucket(s) == Small(s) /\ s = BUCKET_SIZE(BUCKET_NUM(s))

\* In size_t arithmetic, so a request near SIZE_MAX would wrap.
size_t(x) == x % (SIZE_MAX + 1)
\* without room for the header
chunk_size_slip(s) == MAX(CHUNK_MIN, (size_t(s + ALIGN - 1) \div ALIGN) * ALIGN)

chunk_size(s) == MAX(CHUNK_MIN, (size_t(size_t(s + HEAD) + ALIGN - 1) \div ALIGN) * ALIGN)

Size(h, c) == h.word[c] - (h.word[c] % 2)
IsFree(h, c) == h.word[c] % 2 = 1
chunk_end(h, c) == c - HEAD + h.word[c]
chunk_after(h, c) == c + Size(h, c)

\* The headers after some of them are set; 0 where no chunk starts.
SetWord(h, c, w) == [h EXCEPT !.word = [h.word EXCEPT ![c] = w]]

VARIABLES heap, block, call, todo, reg, calls

vars == <<heap, block, call, todo, reg, calls>>

Addr == 0..HeapEnd

(***************************************************************************)
(* libc/stdlib/free.c, the part under the lock.                            *)
(***************************************************************************)
Bucketed(h, c) ==
    LET b == BUCKET_NUM(Size(h, c))
    IN  [h EXCEPT !.bucket = [h.bucket EXCEPT ![b] = <<c>> \o h.bucket[b]]]

\* Join the chunk at position k of the list with the next one if they touch.
Joined(h, k) ==
    IF k < Len(h.list) /\ chunk_after(h, h.list[k]) = h.list[k + 1]
    THEN LET c == h.list[k]
             n == h.list[k + 1]
         IN  [h EXCEPT !.word = [h.word EXCEPT ![c] = h.word[c] + Size(h, n), ![n] = 0],
                       !.list = SubSeq(h.list, 1, k) \o SubSeq(h.list, k + 2, Len(h.list))]
    ELSE h

\* Where the walk along the list ends: at a chunk above c, or at one c follows.
Place(h, c) ==
    LET stop == {i \in 1..Len(h.list) : h.list[i] >= c \/ chunk_after(h, h.list[i]) = c}
    IN  IF stop = {} THEN Len(h.list) + 1 ELSE CHOOSE i \in stop : \A j \in stop : i <= j

\* The list with c linked in, or grown by c, at its place.
Linked(h, c, k) ==
    IF k <= Len(h.list) /\ h.list[k] < c
    THEN [h EXCEPT !.word = [h.word EXCEPT ![h.list[k]] = @ + Size(h, c), ![c] = 0]]
    ELSE [h EXCEPT !.list = SubSeq(h.list, 1, k - 1) \o <<c>> \o SubSeq(h.list, k, Len(h.list))]

\* joined chunks stay on the general list whatever their size
Moved_slip(h, k) == h

\* The chunk at position k moves to a bucket list if it has the size for it.
Moved(h, k) ==
    LET c == h.list[k]
    IN  IF IsBucket(Size(h, c))
        THEN Bucketed([h EXCEPT !.list = SubSeq(h.list, 1, k - 1)
                                         \o SubSeq(h.list, k + 1, Len(h.list))], c)
        ELSE h

Freed(h, c) ==
    LET k == Place(h, c)
    IN  IF IsBucket(Size(h, c)) THEN Bucketed(h, c)
        ELSE IF k <= Len(h.list) /\ h.list[k] = c THEN h
        ELSE Moved(Joined(Linked(h, c, k), k), k)

(***************************************************************************)
(* libos/fallback/sbrk.c and libc/stdlib/malloc.c, the part under the      *)
(* lock.                                                                   *)
(***************************************************************************)

\* where the second sbrk() begins is not compared with the end of the first
sbrk_aligned_slip(h, s, stray) ==
    LET p == h.brk
        adjust == align_up(p + HEAD, ALIGN) - HEAD - p
        extra == p + s + (IF adjust > 0 /\ stray <= HeapEnd - p - s THEN stray ELSE 0)
    IN  IF s > SIZE_MAX \div 2 \/ s > HeapEnd - p \/ adjust > HeapEnd - extra
        THEN [h |-> h, at |-> NULL]
        ELSE [h |-> [h EXCEPT !.brk = extra + adjust, !.top = extra + adjust,
                              !.mem = h.mem \cup ((p + adjust)..(p + s - 1))
                                            \cup (extra..(extra + adjust - 1))],
              at |-> p + adjust]

\* the limit of the heap is not looked at
sbrk_limit_slip(h, s, stray) ==
    LET p == h.brk
        adjust == align_up(p + HEAD, ALIGN) - HEAD - p
    IN  [h |-> [h EXCEPT !.brk = p + s + adjust, !.top = p + s + adjust], at |-> p + adjust]

\* __malloc_sbrk_aligned: the blob's address, NULL for (void * ) -1.  The bytes
\* skipped to align it come from a second sbrk(); other code may have taken stray
\* bytes before it, or the heap may end there, and then the first bytes are lost.
sbrk_aligned(h, s, stray) ==
    LET p == h.brk
        adjust == align_up(p + HEAD, ALIGN) - HEAD - p
        extra == p + s + (IF adjust > 0 /\ stray <= HeapEnd - p - s THEN stray ELSE 0)
        brk == IF adjust > HeapEnd - extra THEN extra ELSE extra + adjust
    IN  IF s > SIZE_MAX \div 2 \/ s > HeapEnd - p THEN [h |-> h, at |-> NULL]
        ELSE IF brk # p + s + adjust \/ extra # p + s
        THEN [h |-> [h EXCEPT !.brk = brk, !.top = p + s], at |-> NULL]
        ELSE [h |-> [h EXCEPT !.brk = brk, !.top = brk,
                              !.mem = h.mem \cup (p + adjust)..(p + adjust + s - 1)],
              at |-> p + adjust]

\* make_free_chunk, under the lock.
FreedChunk(h, c, s) == Freed(SetWord(h, c, s + 1), c)

grow_chunk(h, c, new, stray) ==
    LET add == MAX(CHUNK_MIN, new - Size(h, c))
        r == sbrk_aligned(h, add, stray)
    IN  IF chunk_end(h, c) # h.top THEN [h |-> h, ok |-> FALSE]
        ELSE IF r.at = chunk_end(h, c)
        THEN [h |-> SetWord(r.h, c, h.word[c] + add), ok |-> TRUE]
        ELSE [h |-> IF r.at = NULL THEN r.h ELSE FreedChunk(r.h, r.at + HEAD, add),
              ok |-> FALSE]

\* the chunk taken stays on the list
Unlinked_slip(h, k) == h

Unlinked(h, k) ==
    [h EXCEPT !.list = SubSeq(h.list, 1, k - 1) \o SubSeq(h.list, k + 1, Len(h.list))]

\* Take the chunk at position k for n bytes: cut off the rest if it can be a
\* chunk of its own, which stays at this place of the list or goes to a bucket.
Cut(h, k, n) ==
    LET c == h.list[k]
        rem == Size(h, c) - n
        rest == c + n
        h1 == [h EXCEPT !.word = [h.word EXCEPT ![c] = n, ![rest] = rem + 1]]
    IN  IF rem < CHUNK_MIN THEN Unlinked(h, k)
        ELSE IF IsBucket(rem) THEN Bucketed(Unlinked(h1, k), rest)
        ELSE [h1 EXCEPT !.list = [h.list EXCEPT ![k] = rest]]

\* The chunk malloc finds for s bytes, NULL if there is none.
Found(h, s, stray) ==
    LET asked == chunk_size(s)
        n == IF Small(asked) THEN BUCKET_SIZE(BUCKET_NUM(asked)) ELSE asked
        b == BUCKET_NUM(n)
        fit == {i \in 1..Len(h.list) : Size(h, h.list[i]) >= n}
        first == CHOOSE i \in fit : \A j \in fit : i <= j
        last == Len(h.list)
        g == grow_chunk(h, h.list[last], n, stray)
        More(h1) == LET r == sbrk_aligned(h1, n, stray)
                    IN  IF r.at = NULL THEN [h |-> r.h, at |-> NULL]
                        ELSE [h |-> SetWord(r.h, r.at + HEAD, n), at |-> r.at + HEAD]
    IN  IF Small(asked)
        THEN IF h.bucket[b] = <<>> THEN More(h)
             ELSE [h |-> [h EXCEPT !.bucket = [h.bucket EXCEPT ![b] = Tail(@)]],
                   at |-> Head(h.bucket[b])]
        ELSE IF fit # {} THEN [h |-> Cut(h, first, n), at |-> h.list[first]]
        ELSE IF last > 0
        THEN \* the end of a free chunk carries its free bit and so is never top
             IF g.ok THEN [h |-> Unlinked(g.h, last), at |-> h.list[last]] ELSE More(g.h)
        ELSE More(h)

(***************************************************************************)
(* The calls.  A thread in a call has the steps still to do, and in reg    *)
(* the chunk it is going to return.                                        *)
(***************************************************************************)
Do(what, c, n) == [do |-> what, c |-> c, n |-> n]

\* free(c), as a whole and when another function calls it.
FreeSteps(c) == <<Do("mark", c, 0), Do("insert", c, 0)>>

\* malloc(s) likewise.
MallocSteps(s) == <<Do("find", NULL, s), Do("busy", NULL, 0)>>

NoCall == [size |-> 0, align |-> 1, old |-> {}, fixed |-> FALSE]

Init ==
    /\ \E p \in HeapStarts :
          heap = [word |-> [a \in Addr |-> 0], list |-> <<>>, bucket |-> [b \in Buckets |-> <<>>],
                  brk |-> p, top |-> NULL, mem |-> {}]
    /\ block = {}
    /\ call = [t \in Threads |-> NoCall]
    /\ todo = [t \in Threads |-> <<>>]
    /\ reg = [t \in Threads |-> NULL]
    /\ calls = 0

\* Thread t calls a function; taken is the block it hands over, if any.  A call
\* begun during another one counts twice, so that long histories and
\* overlapping calls fit one bound.
Begin(t, args, taken, steps, c) ==
    /\ todo[t] = <<>>
    /\ calls' = calls + (IF \E u \in Threads : todo[u] # <<>> THEN 2 ELSE 1)
    /\ calls' <= MaxCalls
    /\ call' = [call EXCEPT ![t] = args]
    /\ block' = block \ taken
    /\ todo' = [todo EXCEPT ![t] = steps]
    /\ reg' = [reg EXCEPT ![t] = c]
    /\ UNCHANGED heap

malloc(t) ==
    \E s \in Requests : Begin(t, [NoCall EXCEPT !.size = s], {}, MallocSteps(s), NULL)

free(t) == \E b \in block : Begin(t, NoCall, {b}, FreeSteps(b.at), NULL)

realloc(t) ==
    \E b \in block, s \in Requests \cap 0..ALLOC_MAX :
        LET old == Size(heap, b.at)
            args == [size |-> s, align |-> 1, old |-> {b}, fixed |-> IsBucket(old)]
            first == IF ~IsBucket(old) /\ chunk_size(s) > old THEN "grow" ELSE "resize"
        IN  \/ s = 0 /\ Begin(t, NoCall, {b}, FreeSteps(b.at), NULL)
            \/ s > 0 /\ Begin(t, args, {b}, <<Do(first, NULL, old)>>, b.at)

memalign(t) ==
    \E a \in Aligns, s \in Requests :
        LET align == MAX(a, UP_POT(CHUNK_MIN))
            padded == size_t(chunk_size(s) + align + CHUNK_MIN)
        IN  /\ a \in {2^k : k \in 0..16}
            /\ align <= ALLOC_MAX /\ s <= ALLOC_MAX - align
            /\ Begin(t, [NoCall EXCEPT !.size = s, !.align = align], {},
                     MallocSteps(padded) \o <<Do("front", NULL, align), Do("back", NULL, 0)>>, NULL)

\* Some other code extends the data segment.
stray_sbrk ==
    \E k \in Strays :
        /\ calls < MaxCalls /\ calls' = calls + 1
        /\ heap.brk + k <= HeapEnd
        /\ heap' = [heap EXCEPT !.brk = @ + k]
        /\ UNCHANGED <<block, call, todo, reg>>

step(t) == Head(todo[t])
At(t, what) == todo[t] # <<>> /\ step(t).do = what

\* The thread goes on with the steps rest; after the last one the call returns
\* chunk c.
Continue(t, rest, c) ==
    /\ todo' = [todo EXCEPT ![t] = rest]
    /\ reg' = [reg EXCEPT ![t] = IF rest = <<>> THEN NULL ELSE c]
    /\ block' = IF rest = <<>> /\ c # NULL
                THEN block \cup {[at |-> c, size |-> call[t].size, align |-> call[t].align]}
                ELSE block
    /\ call' = [call EXCEPT ![t] = IF rest = <<>> THEN NoCall ELSE @]
    /\ UNCHANGED calls

Rest(t) == Tail(todo[t])

\* malloc under the lock.  When there is no memory the call returns NULL; a
\* realloc leaves the old block with its owner.
find(t) ==
    /\ At(t, "find")
    /\ \E stray \in {0} \cup Strays :
       LET r == IF step(t).n > ALLOC_MAX THEN [h |-> heap, at |-> NULL]
                ELSE Found(heap, step(t).n, stray)
       IN  /\ heap' = r.h
           /\ \/ r.at # NULL /\ Continue(t, Rest(t), r.at)
              \/ /\ r.at = NULL
                 /\ todo' = [todo EXCEPT ![t] = <<>>]
                 /\ block' = block \cup call[t].old
                 /\ call' = [call EXCEPT ![t] = NoCall]
                 /\ UNCHANGED <<reg, calls>>

\* malloc after the unlock.
mark_busy(t) ==
    /\ At(t, "busy")
    /\ heap' = SetWord(heap, reg[t], Size(heap, reg[t]))
    /\ Continue(t, Rest(t), reg[t])

\* free before it takes the lock; a chunk that is marked already is refused.
mark_free(t) ==
    LET c == step(t).c
    IN  /\ At(t, "mark")
        /\ heap' = IF IsFree(heap, c) THEN heap ELSE SetWord(heap, c, heap.word[c] + 1)
        /\ Continue(t, IF IsFree(heap, c) THEN Tail(Rest(t)) ELSE Rest(t), reg[t])

\* free under the lock.
insert(t) ==
    /\ At(t, "insert")
    /\ heap' = Freed(heap, step(t).c)
    /\ Continue(t, Rest(t), reg[t])

\* realloc under the lock: extend the heap's last chunk, or take over a free
\* chunk at the address the chunk ends at.
grow(t) ==
    /\ At(t, "grow")
    /\ \E stray \in {0} \cup Strays :
       LET c == reg[t]
           g == grow_chunk(heap, c, chunk_size(call[t].size), stray)
           next == {i \in 1..Len(g.h.list) :
                      /\ g.h.list[i] = chunk_end(heap, c)
                      /\ \A j \in 1..(i - 1) : c >= g.h.list[j]}
           size == IF next = {} THEN step(t).n
                   ELSE step(t).n + Size(g.h, g.h.list[CHOOSE i \in next : TRUE])
       IN  \/ /\ g.ok
              /\ heap' = g.h
              /\ Continue(t, <<>>, c)
           \/ /\ ~g.ok
              /\ heap' = IF next = {} THEN g.h
                         ELSE SetWord(Unlinked(g.h, CHOOSE i \in next : TRUE), c, size)
              /\ Continue(t, <<Do("resize", NULL, size)>>, c)

\* a smaller size moves the block too
resize_slip(t) ==
    /\ At(t, "resize")
    /\ heap' = heap
    /\ Continue(t, MallocSteps(call[t].size) \o <<Do("copy", reg[t], 0)>>, NULL)

\* the header of the rest is written behind the chunk before the chunk is cut
resize_order_slip(t) ==
    LET c == reg[t]
        extra == step(t).n - chunk_size(call[t].size)
    IN  /\ At(t, "resize")
        /\ extra >= CHUNK_MIN /\ ~call[t].fixed
        /\ heap' = SetWord(heap, chunk_after(heap, c), extra)
        /\ Continue(t, FreeSteps(chunk_after(heap, c)), c)

\* realloc with the chunk it has: give back what is too much, or move.
resize(t) ==
    /\ At(t, "resize")
    /\ LET c == reg[t]
           old == step(t).n
           new == chunk_size(call[t].size)
           extra == old - new
       IN  \/ /\ extra >= 0 /\ ~call[t].fixed /\ extra >= CHUNK_MIN
              /\ heap' = [heap EXCEPT !.word = [heap.word EXCEPT ![c] = new, ![c + new] = extra]]
              /\ Continue(t, FreeSteps(c + new), c)
           \/ /\ extra >= 0 /\ (call[t].fixed \/ extra < CHUNK_MIN)
              /\ heap' = heap
              /\ Continue(t, <<>>, c)
           \/ /\ extra < 0
              /\ heap' = heap
              /\ Continue(t, MallocSteps(call[t].size) \o <<Do("copy", c, 0)>>, NULL)

\* realloc has copied the old contents and frees the old chunk.
copy(t) ==
    /\ At(t, "copy")
    /\ heap' = heap
    /\ Continue(t, FreeSteps(step(t).c), reg[t])

\* memalign: cut off what lies before the aligned address ...
front(t) ==
    /\ At(t, "front")
    /\ LET c == reg[t]
           gap == align_up(c, step(t).n) - c
           offset == IF gap < CHUNK_MIN THEN gap + step(t).n ELSE gap
       IN  \/ /\ gap = 0
              /\ heap' = heap
              /\ Continue(t, Rest(t), c)
           \/ /\ gap # 0
              /\ heap' = [heap EXCEPT !.word = [heap.word EXCEPT ![c] = offset,
                                                     ![c + offset] = Size(heap, c) - offset]]
              /\ Continue(t, FreeSteps(c) \o Rest(t), c + offset)

\* ... and what lies behind the bytes asked for.
back(t) ==
    LET c == reg[t]
        n == chunk_size(call[t].size)
        offset == Size(heap, c) - n
        cut == offset >= CHUNK_MIN
    IN  /\ At(t, "back")
        /\ heap' = IF cut THEN [heap EXCEPT !.word = [heap.word EXCEPT ![c] = n, ![c + n] = offset]]
                   ELSE heap
        /\ Continue(t, IF cut THEN FreeSteps(c + n) ELSE <<>>, c)

Next ==
    \/ \E t \in Threads :
          \/ malloc(t) \/ free(t) \/ realloc(t) \/ memalign(t)
          \/ find(t) \/ mark_busy(t) \/ mark_free(t) \/ insert(t)
          \/ grow(t) \/ resize(t) \/ copy(t) \/ front(t) \/ back(t)
    \/ stray_sbrk

Spec == Init /\ [][Next]_vars

(***************************************************************************)
(* Properties.                                                             *)
(***************************************************************************)
Elements(s) == {s[i] : i \in 1..Len(s)}

\* The type invariant.
TypeOK ==
    /\ heap.word \in [Addr -> Nat] /\ heap.brk \in Addr /\ heap.top \in Addr
    /\ heap.mem \subseteq Addr
    /\ Elements(heap.list) \subseteq Addr
    /\ \A b \in Buckets : Elements(heap.bucket[b]) \subseteq Addr
    /\ \A b \in block : b.at \in Addr
    /\ reg \in [Threads -> Addr]

\* The chunks a thread's call has in its hands.
Transit(t) == ({reg[t]} \cup {todo[t][i].c : i \in 1..Len(todo[t])}) \ {NULL}

Listed == Elements(heap.list) \cup UNION {Elements(heap.bucket[b]) : b \in Buckets}
Held == {b.at : b \in block}
InTransit == UNION {Transit(t) : t \in Threads}
Chunks == Listed \cup Held \cup InTransit

\* The bytes of a chunk, its header included.
Extent(c) == (c - HEAD)..(c - HEAD + Size(heap, c) - 1)

\* Every chunk is on one list, with one owner or in one call: no call hands out
\* memory that another one has, and nothing is freed into two lists.
OneOwner ==
    /\ \A i, j \in 1..Len(heap.list) : i # j => heap.list[i] # heap.list[j]
    /\ \A b \in Buckets : \A i, j \in 1..Len(heap.bucket[b]) :
          i # j => heap.bucket[b][i] # heap.bucket[b][j]
    /\ \A b, d \in Buckets : b # d => Elements(heap.bucket[b]) \cap Elements(heap.bucket[d]) = {}
    /\ \A b \in Buckets : Elements(heap.bucket[b]) \cap Elements(heap.list) = {}
    /\ Listed \cap (Held \cup InTransit) = {} /\ Held \cap InTransit = {}
    /\ \A b, d \in block : b.at = d.at => b = d
    /\ \A t, u \in Threads : t # u => Transit(t) \cap Transit(u) = {}

\* The chunks tile the blobs malloc got from sbrk: no two overlap, no byte is lost
\* in splitting, joining, growing or moving, and none lies behind the break or in
\* what other code took between two calls of sbrk.
Tiles ==
    /\ \A c, d \in Chunks : c # d => Extent(c) \cap Extent(d) = {}
    /\ UNION {Extent(c) : c \in Chunks} = heap.mem
    /\ \A a \in heap.mem : a < heap.brk

\* What __malloc_validate asserts of the lists whenever the lock is taken or
\* released, and that neighbours in the general list have been joined.
Valid ==
    /\ \A c \in Listed : IsFree(heap, c) /\ c % ALIGN = 0
                         /\ Size(heap, c) >= CHUNK_MIN /\ Size(heap, c) % ALIGN = 0
    /\ \A c \in Elements(heap.list) : ~IsBucket(Size(heap, c))
    /\ \A b \in Buckets : \A c \in Elements(heap.bucket[b]) : Size(heap, c) = BUCKET_SIZE(b)
    /\ \A i \in 1..(Len(heap.list) - 1) : chunk_after(heap, heap.list[i]) < heap.list[i + 1]

\* A block has at least the size and the alignment it was asked for, and is
\* not marked free.
Usable ==
    \A b \in block : /\ Size(heap, b.at) >= b.size + HEAD
                     /\ b.at % b.align = 0 /\ b.at % ALIGN = 0
                     /\ ~IsFree(heap, b.at)

\* realloc copies the whole old block into one that is large enough.
CopyFits ==
    \A t \in Threads : At(t, "copy") => Size(heap, step(t).c) <= Size(heap, reg[t])

\* A call leaves the blocks alone that it was not given.
BlocksKept == [][\A b \in block \cap block' : heap'.word[b.at] = heap.word[b.at]]_vars

=============================================================================

# A TLA+ model of picolibc

picolibc is a C library for small systems.  Most of it is sequential text,
number and string code.  What is hard to test is the part with state that lives
across calls: the buffer behind a `FILE`, the locks and the list that tie the
`FILE`s together, the heap and the tables of exit handlers.  These modules model
that part from the source, TLC checks them on small instances, and TLAPS proves
the central invariants for every value of the constants.

Contents: [inventory](#inventory), [modules](#modules),
[runs](#runs), [findings](#findings), [proofs](#proofs),
[what is not modelled](#what-is-not-modelled), [plan](#plan).

## Inventory

| part | state | operations | what makes it hard |
|---|---|---|---|
| buffered streams (`libc/stdio/bufio*.c`, `f*.c`) | `struct __file_bufio`: `buf`, `size`, `len`, `off`, `pos`, `dir`, `bflags`; `FILE.flags`, `FILE.unget`; the descriptor | fopen, fdopen, freopen, fclose, getc, ungetc, putc, fflush, fseek, ftell, setvbuf, clearerr | one buffer for reading and writing, short and failed I/O, `pos` has to follow the descriptor through all of it |
| fread, fwrite | the same | the portable loops, and the `fast-bufio` paths that go around the buffer | order between buffered and direct data, boundary at a full buffer |
| stream locks and the file list (`bufio.c`, `bufio_exit_flush.c`) | `bf->lock`, made on first use; `__stdio_file_list` | every call; fflush(NULL), exit | racing creation, a lock dropped in the middle of getc and fread, a lock taken twice, a `FILE` freed while listed |
| exit handlers (`exitprocs.c`, `quick-exit.c`) | `on_exits[]`, `quick_exits[]` | atexit, on_exit, __cxa_atexit, at_quick_exit, exit, quick_exit | handlers run without the lock and register more handlers |
| heap (`malloc.c`, `free.c`, `realloc.c`, `memalign.c`) | chunk headers, free list, bucket lists, `__malloc_sbrk_top`; the break | malloc, free, realloc, memalign, and calloc, reallocarray etc. on top | split, join and grow in any order; headers changed outside the lock; foreign sbrk calls |
| environment (`setenv.c` ...) | `environ`, `__environ_sequence` | setenv, unsetenv, putenv, getenv | the lock is dropped to allocate; optimistic retry |
| signals (`libos/fallback`) | `_sig_func`, `_sig_mask`, `_sig_pending` | signal, raise, sigprocmask, kill | handlers that raise and block |
| memory streams (`fmemopen.c`, `open_memstream.c`), getdelim | buffer, size, position | as for streams | growth, truncation, failed realloc |
| popen, pclose | child, pipe, list | popen, pclose | one step of several failing |
| `flockfile`, atomic ungetc | recursive `FILE` lock; `unget` word | the locked and unlocked calls | lock order, lost updates |
| arc4random, tzset, setlocale | one global record each | one locked update each | little |
| the rest | little or none | pure functions, tables, system calls | see [below](#what-is-not-modelled) |

How they interact: stdio allocates `FILE`s and buffers from the heap; reading
stdin flushes stdout; exit runs the handlers, one of which (registered by a
constructor) flushes the listed files; heap, file list, exit tables and
environment share one recursive libc lock, each `FILE` has one of its own.

## Modules

| module | models | its role |
|---|---|---|
| `Stream` | what a stdio stream promises: a file, a position, one pushed-back character, two indicators; the device may lag behind, and a reported error may drop what it lags by | abstract specification |
| `Bufio` | one buffered stream over a descriptor | component; implements `Stream` |
| `BufioBlock` | fread and fwrite, both builds | extends `Bufio` |
| `StdioFiles` | threads, stream locks, file list, exit | component |
| `ExitStack` | a bounded stack per table | abstract specification |
| `ExitProcs` | the exit tables and the loop of exit | component; implements `ExitStack` |
| `Malloc` | the heap | component |
| `BufioProofs`, `ExitProcsProofs` | theorems | proofs |
| `MC*` | constants for TLC | instances |

A definition `X_slip` is `X` with a plausible mistake (a lost guard, a swapped
order, an off-by-one).  For each property there is a slip that TLC shows it to
notice; slips take no part in the specifications.

### Bufio

`bf` is the `FILE` with its buffer, `fd` the descriptor (contents, end, offset,
append mode; external), `call` the last call and its result.  The functions of
`bufio.c` have the names of the source without the leading underscores.  Each
is an operator from a stream and a descriptor to the *set* of its outcomes: one
for each way the `read`, `write` and `lseek` calls inside can go, that is short
reads, a loop of writes that stops after any number of bytes, a full device, an
error, a freopen whose open() fails.  lseek fails for a target outside the device,
and always on the descriptor that cannot seek.  An action is a whole public call,
since it holds the stream's lock to its end.  The exceptions belong to
`StdioFiles`: getc and fread on stdin drop the lock to flush stdout, freopen
flushes under one hold of the lock and changes the descriptor under another.

A cell of `buf` that holds no valid data is `Dead`, and one extra cell plus the
mark `peak` make a store behind the buffer visible.  `heap` counts the buffers
allocated by stdio, so that a leak or a second free shows as a number other than
0 or 1.  The refinement mapping to `Stream` lays the pending write over the file
and subtracts what was read ahead from the position.

### BufioBlock

Elements have size 1.  A call is a fold over its bytes (portable build) or over
the turns of the loop (fast build), again to a set of outcomes.  That the fast
fread on stdin starts its loop again changes nothing for one thread; for several
it is in `StdioFiles`.

### StdioFiles

A call is a sequence of goals; a goal locks one `FILE`, does its work and
unlocks.  The steps between are those of `__bufio_lock`: test `bf->lock`, create
a lock, test again under the libc lock, acquire.  The mutex is the application's
(external); a thread that waits in `acquire` or `nested` is disabled until it is
free.  The contents of a stream are reduced to what crosses calls: output pending
or not; how many bytes were fetched from the present descriptor, wait in the
buffer, were delivered.  A read may fail or find the end at any time.  A flush
gives unread input back with lseek, whose failure the code ignores: on a FILE that
is not in `seekable` (one of `Pipes`, an initial choice) the bytes are lost.
`reopen` starts the counters again with what is left in the buffer; since freopen
has released the lock after its flush, another thread may have put it there.

fread is the one of the fast build (`fread_flush`, `fread_loop`): it takes what is
buffered, unlocks stdin, flushes stdout, locks again and goes on.  In the portable
build it is a sequence of getc.  The pushed-back character is left out.

fflush(NULL) flushes the list, stdout and, if the program refers to it, stderr;
exit flushes the list and stdout.  exit's destructor for stderr is compiled under
`__PICOLIBC_STDERR_BUFSIZE > 1`, a name nothing defines (the macro is
`__PICOLIBC_STDERR_BUFSIZ`); stderr's buffer has one byte, so nothing is pending.

A program does not use a stream it is closing (the guard of `StartOnFile` and
`StartFclose`).  `Overlap` says whether it may close one while another thread is in
fflush(NULL) or exit, which is the subject of `stdio_free`; after the use of a
freed FILE that this leads to, nothing more can be said, so `stdio_list` has none.

### ExitProcs

A scan of a table runs under the libc lock and is one step; a handler runs
between two steps (`pc = "call"`), and may register handlers or call exit, as may
other threads register.  Handlers are numbered in the order of registration, 0
being the library's own flush of the file list.  ISO C leaves a second exit from
another thread, and a mixture of exit and quick_exit, undefined; `exit` excludes
them.

### Malloc

A chunk is the address its user gets.  `heap.word[c]` is its header, the size
with the free bit, and 0 where no chunk starts; `heap.list` and `heap.bucket` are
the free lists, `heap.brk` and `heap.top` the break and `__malloc_sbrk_top`.
`heap.mem` records the bytes of the blobs obtained from sbrk (it guides nothing;
what is lost when the second sbrk fails is not part of it).

A thread's call is a sequence of steps: what runs under the libc lock is one
step (`find`, `insert`, `grow`); what a call does outside it, such as setting the
busy bit after the unlock, setting the free bit before the lock, or cutting up a
chunk it owns, is a step of its own.  calloc, realloc(NULL) and the other
wrappers are calls of these.  Contents are not modelled: the property about
realloc's copy is that it fits.

The bytes skipped to align a blob come from a second sbrk.  It may fail, or begin
elsewhere because other code called sbrk (which takes no lock) since the first
one; `stray` is what that code took, and both blobs are then lost.  `realloc` looks for a free chunk at
`chunk_end(p)`, which is the address of a header, while the list holds addresses
of storage; the two never meet and no merge takes place.  Likewise malloc tries
to grow the last free chunk, but `chunk_end` of a free chunk carries its free bit
and never equals the top.  Both paths are in the model as the code has them.

## Runs

All passing runs are exhaustive for their constants.

| run | instance | checks |
|---|---|---|
| `bufio_stream` | device of 2 bytes, buffers of 1 and 2, two byte values (one is newline), modes `r+` and `w`, all failures | `TypeOK`, `BufferBounds`, `FdPosition`, `ReadAhead`, `BufferOwner`, and the refinement `Transparent` |
| `block_slow` | device of 3 bytes, blocks of 0 to 3 bytes, portable build | `FreadInOrder`, `FwriteInPlace`, `AccessKept` |
| `block_fast` | the same in the fast build | `FdPosition`, `FreadInOrder`, `FwriteInPlace` |
| `stdio_shared` | two threads, two calls each, stdin (seekable or not) and stdout, buffer of 2, fread of 2, three bytes of input from a descriptor | `TypeOK`, `HolderInside`, `OneLockAtATime`, `InputIntact`, `AcquiredOnce`, `LockOnce`, `CallsReturn` |
| `stdio_list` | two threads, two files besides stdin, stdout and stderr, three calls each, no fclose during fflush(NULL) or exit | `ListOpen` |
| `exit_procs` | two threads, tables of 2 (+1), six registrations | `TypeOK`, `Ordered`, `IsStack`, `AppBudget`, `ExitEnds` |
| `malloc` | two threads, 16-bit layout, heap from 1 to 79, requests 0, 4, 36 and 65535, alignment 8, foreign sbrk of 1, five calls (an overlapping call counts as two) | `TypeOK`, `OneOwner`, `Tiles`, `Valid`, `Usable`, `CopyFits`, `BlocksKept` |

Why the bounds are enough.  In the stream runs a buffer of two bytes on a device
of two or three has a full, a half full and an empty buffer, a write that crosses
the end, a seek inside and outside the buffer, and a change of direction in each
of these; line buffering needs a newline and another byte.  Histories are not
bounded: TLC visits every state that any number of calls can reach.  Two
threads are what a race over a lock needs.  freopen does not resize the buffer in
`stdio_shared` (`Resize = {FALSE}`), since the thread would wait for itself, which is
`stdio_freopen`.  In `stdio_list` six calls open, list, flush, close and reopen two files.  In `exit_procs` six registrations
overfill both tables and allow refills from inside handlers.  In `malloc` the
requests give a bucket chunk (0 and 4), a large one (36), one below the buckets
when a large block shrinks to 4, and one that must be refused; memalign leaves free chunks on both sides of its block, so that
joins to the left, to the right and to both happen within two calls; the start
of the heap is misaligned, and its end is where an alignment, a growth and a
second block each fail in some behaviour.  `MaxCalls` cuts histories off, so
TLC says nothing about longer ones.

Deadlock checking is off in `exit_procs` (a dead process stops) and in `malloc`
(the calls are used up); `StdioFiles` has the step `Quiet` for threads that have
finished, so a deadlock of its threads is an error.

Fairness.  `StdioFiles`: a thread inside a call is eventually scheduled when it
can move (weak fairness of each thread's step); there is no assumption about who
gets a contended lock beyond that, and threads make finitely many calls.
`ExitProcs`: the thread in exit is scheduled and handlers return; `ExitEnds` rests
on finitely many registrations (`MaxRegs`), since handlers that register handlers
for ever keep exit running for ever.  The other modules state no liveness.

## Findings

Five runs are expected to end in a violation; each checks what a document,
comment or test of the repository says.

- `fast_overrun`: in the fast build an fwrite that fills the buffer to the last
  byte (in the run after a putc) returns without a flush, and the next putc stores
  behind the buffer.
- `fast_access`: in the fast build a failed fwrite or-s -1 into `flags`; a
  write-only stream becomes readable.
- `stdio_freopen`: freopen calls setvbuf, which takes the lock freopen holds, when
  size or mode of the buffer must change.
- `stdio_free`: fflush(NULL) flushes a `FILE` after dropping the lock of the list;
  another thread's fclose has freed it meanwhile.
- `stdio_exit`: fflush(NULL) takes the files off the list, so what is written
  afterwards is not flushed at exit.

Seen while modelling, in the model, but without a run:

- freopen(NULL) sets `pos` to 0 without moving the descriptor, and in append mode a
  write moves the descriptor to the end without `pos` following; `FdPosition` fails
  with `Reopens = {"null"}` or `Modes = {"a"}`, which the runs and `PositionKept`
  therefore exclude;
- freopen flushes and changes the descriptor under two holds of the lock; what
  another thread reads in between is delivered as the new file's;
- fflush on a pipe that was read ahead loses the bytes, since the result of lseek is
  ignored;
- fclose returns the result of close(), not that of its last flush, and freopen
  ignores it; a failed fseek
  may already have dropped data; the portable fwrite does not set the error
  indicator; fseek with SEEK_CUR ignores a pushed-back character that ftell counts;
- the fast fread ignores a failed flush when it changes direction;
- on_exit handlers get status 0 when they run from `__libc_fini_array`;
- on a 16-bit target `memalign` computes `s + align + MALLOC_CHUNK_MIN` modulo 2^16
  after it has compared only `s + align` with the limit.  For the largest sizes the
  sum wraps to 0.  The run asks memalign for sizes far from it or beyond the limit.

## Proofs

TLAPS checks three theorems, for every value of the constants that the named
assumptions (`ByteAssumption`, `SizeAssumption`, `CallAssumption`,
`ExitAssumption`) allow.

`BufferSafe` (`BufioProofs`): `TypeOK`, `BufferBounds` and `BufferOwner` hold in
every reachable state of a stream: any buffer sizes, modes, calls and failures,
pipes and append mode included.

`PositionKept`: on a descriptor that can seek, without append mode and
freopen(NULL) (`Plain`), `FdPosition` and `ReadAhead` hold.

Both rest on one inductive invariant, `IInv`: the stream is `Good`.  `BufferBounds`
is not inductive: a store is in bounds only because a writing stream always
has room for one byte when a call begins (`Ready`), a flush writes only bytes
because all cells below `len` hold bytes (`Filled`), and the read-ahead stays
correct only because `pos` equals the descriptor's offset and lies on the
device (`Synced`).  Each function of `bufio.c` has a lemma about every member of
its set of outcomes: `Filled` where the buffer may be full for a moment (inside
put), `Good` at the level of the calls; `Kept` says what the inner functions leave
alone.  The step lemma then has one case per call.

`ExitTablesOrdered` (`ExitProcsProofs`): `TypeOK` and `Ordered` hold for any number
of threads, slots and registrations.  `Ordered` needs `Numbered` (all registered
handlers have numbers up to `regs`): only then is the handler stored in the first
empty slot younger than the ones below it.

Only model-checked: the refinements `Transparent` and `IsStack`, the liveness
properties `CallsReturn` and `ExitEnds` (liveness under fairness is out of the
prover's reach), everything about fread and fwrite, about `StdioFiles` and about
`Malloc`.

## What is not modelled

- Streams on pipes and terminals (`Bufio` has a descriptor that cannot seek, used
  in the proofs only), wide orientation, `fgets`/`fputs`/`getdelim` loops.
- `-Dstdio-locking` (flockfile) and the atomic ungetc; the read-modify-write of
  `FILE.flags`, which different threads may do at once.
- Environment, signals, memory streams, popen, tzset: see the plan.
- printf, scanf, the digit conversion engines, multibyte conversion, strings,
  regular expressions, search and sort, libm: sequential code over data whose
  size, not whose control, is the difficulty; floating point is outside TLA+.
- Start-up code, system call wrappers, the ELF loader: assembly, linker symbols
  and pure input and output.

## Plan

Done: `Bufio` with `Stream`, `BufioBlock`, `StdioFiles`, `ExitProcs` with
`ExitStack`, `Malloc`; proofs for `Bufio` and `ExitProcs`.

Next modules, in this order:

1. `Env`: setenv, unsetenv, putenv and getenv by several threads, the lock dropped
   for allocation and the sequence number; no update is lost, no name occurs
   twice, no freed array is read; bounds: two threads, two names, two values.
2. `Signal`: signal, raise, sigprocmask with handlers that raise and block; a
   handler is never entered twice, a pending signal is delivered.
3. `MemStreams`: fmemopen, open_memstream and getdelim, against `Stream`.
4. `UngetcAtomic` and `StdioLocking`: the pushed-back character and the recursive
   `FILE` locks between threads.
5. `Popen`, if it turns out to carry a property worth stating.

Next proofs: mutual exclusion and `InputIntact` of `StdioFiles`; that `ExitProcs`
implements `ExitStack`; for `Malloc` the arithmetic of `chunk_size` and of
memalign's padding for every layout, then `OneOwner`; the bounds of fread and
fwrite in the portable build.

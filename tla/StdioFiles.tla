----------------------------- MODULE StdioFiles -----------------------------
(***************************************************************************)
(* Threads that share buffered FILEs: the per-FILE lock that __bufio_lock  *)
(* creates on first use, the list of files fopen made, and the calls that  *)
(* take the lock more than once (getc and fread on stdin, freopen,         *)
(* fflush(NULL) and exit).  Built with locking, -Dstdio-exit-flush=true    *)
(* and -Dfast-bufio=true; without the latter fread is a sequence of getc.  *)
(*                                                                         *)
(* A call is a sequence of goals; a goal locks one FILE, does its work and *)
(* unlocks.  The work is Bufio's; here a FILE is reduced to what crosses   *)
(* calls: whether output is pending, and how many bytes were fetched from  *)
(* the present descriptor, wait in the buffer and were delivered.          *)
(*                                                                         *)
(* A definition named X_slip is X with a plausible mistake; the properties *)
(* are shown to notice it.                                                 *)
(***************************************************************************)
EXTENDS Naturals, Sequences, FiniteSets

CONSTANTS
    Threads,
    Stdin, Stdout,
    Stderr,         \* NULL in a program that does not refer to it
    Opened,         \* the FILEs fopen can create
    Locks,          \* lock objects __lock_init can create
    NULL,
    Calls,          \* which calls the threads make
    Resize,         \* whether freopen finds another buffer size, or line buffering
    Pipes,          \* the FILEs whose descriptor may be unable to seek
    Overlap,        \* whether fclose may run during fflush(NULL) or exit
    BufLen,         \* a fill fetches 1..BufLen bytes
    Block,          \* the bytes fread asks for
    MaxInput,       \* bounds the bytes fetched from one descriptor
    MaxCalls        \* calls per thread

StdFiles == {Stdin, Stdout, Stderr} \ {NULL}
Files == StdFiles \cup Opened

ASSUME FilesAssumption ==
    /\ Stdin # Stdout /\ Stderr \notin {Stdin, Stdout}
    /\ StdFiles \cap Opened = {} /\ Pipes \subseteq Files
    /\ NULL \notin Threads \cup {Stdin, Stdout} \cup Opened \cup Locks
    /\ IsFiniteSet(Threads) /\ IsFiniteSet(Files)
ASSUME BoundsAssumption ==
    /\ BufLen \in Nat \ {0} /\ Block \in Nat \ {0}
    /\ MaxInput \in Nat
    /\ MaxCalls \in Nat
    /\ Resize \subseteq BOOLEAN /\ Overlap \in BOOLEAN

VARIABLES
    state,      \* [Files -> {"open", "freed"}]
    lock,       \* bf->lock
    created,    \* the lock objects in existence
    owner,      \* who holds each lock object
    libc,       \* who holds the libc lock
    list,       \* __stdio_file_list, the head first
    dirty,      \* output is pending in the buffer
    fetched, unread, got,   \* input bytes
    seekable,   \* the FILEs whose descriptor can seek
    goals,      \* what each thread's call still has to do
    pc,         \* where each thread is in its first goal
    calls,      \* calls each thread has made
    exited      \* exit() has flushed everything it will

vars == <<state, lock, created, owner, libc, list, dirty, fetched, unread, got, seekable,
          goals, pc, calls, exited>>

Goal == [do : {"put", "get", "again", "flush", "setvbuf", "reopen", "close", "exit"},
         f : Files]
        \cup [do : {"read", "reread"}, f : Files, n : 1..Block]
        \cup [do : {"pop", "done"}, f : {NULL}]

On(do, f) == [do |-> do, f |-> f]
Read(do, f, n) == [do |-> do, f |-> f, n |-> n]

\* bufio_exit_flush: pop the files off the list, one after the other.
FlushList == <<On("pop", NULL)>>

\* The goals of a call.  A freopen whose open() fails has none; exit's destructor
\* for stderr is compiled only if __PICOLIBC_STDERR_BUFSIZE, which nothing
\* defines, is greater than 1.
Program(fn, f) ==
    CASE fn = "putc" -> <<On("put", f)>>
      [] fn = "getc" -> <<On("get", f)>>
      [] fn = "fread" -> <<Read("read", f, Block)>>
      [] fn = "fflush" -> <<On("flush", f)>>
      [] fn = "setvbuf" -> <<On("setvbuf", f)>>
      [] fn = "freopen" -> <<On("flush", f), On("reopen", f)>>
      [] fn = "fclose" -> <<On("close", f)>>
      [] fn = "fflush_all" -> FlushList \o <<On("flush", Stdout)>>
                              \o (IF Stderr = NULL THEN <<>> ELSE <<On("flush", Stderr)>>)
      [] fn = "exit" -> FlushList \o <<On("flush", Stdout), On("done", NULL)>>

goal(t) == Head(goals[t])

\* Thread t goes on to its next goal.
Proceed(t, rest) ==
    /\ goals' = [goals EXCEPT ![t] = rest]
    /\ pc' = [pc EXCEPT ![t] = IF rest = <<>> THEN "idle" ELSE "start"]

Goto(t, where) == pc' = [pc EXCEPT ![t] = where] /\ UNCHANGED goals

data == <<dirty, fetched, unread, got, seekable>>

Init ==
    /\ state = [f \in Files |-> IF f \in Opened THEN "freed" ELSE "open"]
    /\ lock = [f \in Files |-> NULL]
    /\ created = {}
    /\ owner = [l \in Locks |-> NULL]
    /\ libc = NULL
    /\ list = <<>>
    /\ dirty = [f \in Files |-> FALSE]
    /\ fetched = [f \in Files |-> 0]
    /\ unread = [f \in Files |-> 0]
    /\ got = [f \in Files |-> 0]
    /\ \E P \in SUBSET Pipes : seekable = Files \ P
    /\ goals = [t \in Threads |-> <<>>]
    /\ pc = [t \in Threads |-> "idle"]
    /\ calls = [t \in Threads |-> 0]
    /\ exited = FALSE

(***************************************************************************)
(* Calls.  A program does not use a FILE that it is closing: no thread     *)
(* starts a call on f during fclose(f), nor fclose(f) during such a call.  *)
(* What the library does on its own account, in fflush(NULL) and exit, is  *)
(* not bound by this if Overlap is TRUE.                                   *)
(***************************************************************************)
Using(t, f) == \E i \in 1..Len(goals[t]) : goals[t][i].f = f
Closing(t, f) == \E i \in 1..Len(goals[t]) : goals[t][i] = On("close", f)
Everything(t) == \E i \in 1..Len(goals[t]) : goals[t][i].do = "pop"

Begin(t, fn, f) ==
    /\ pc[t] = "idle" /\ ~exited
    /\ calls[t] < MaxCalls
    /\ calls' = [calls EXCEPT ![t] = calls[t] + 1]
    /\ Proceed(t, Program(fn, f))
    /\ UNCHANGED <<state, lock, created, owner, libc, list, data, exited>>

\* A call on one FILE.
StartOnFile(t) ==
    \E f \in Files, fn \in Calls \cap {"putc", "getc", "fread", "fflush", "setvbuf", "freopen"} :
        /\ state[f] = "open" /\ \A u \in Threads : ~Closing(u, f)
        /\ fn = "putc" => f # Stdin
        /\ fn \in {"getc", "fread"} => f \notin {Stdout, Stderr}
        /\ Begin(t, fn, f)

StartFclose(t) ==
    \E f \in Opened :
        /\ "fclose" \in Calls
        /\ state[f] = "open"
        /\ \A u \in Threads : IF Everything(u) THEN Overlap ELSE ~Using(u, f)
        /\ Begin(t, "fclose", f)

StartOnAll(t) ==
    \E fn \in Calls \cap {"fflush_all", "exit"} :
        /\ Overlap \/ \A u \in Threads, f \in Opened : ~Closing(u, f)
        /\ Begin(t, fn, NULL)

\* The descriptor that open() returned for f.
NewDescriptor(f) ==
    \E able \in IF f \in Pipes THEN BOOLEAN ELSE {TRUE} :
        seekable' = IF able THEN seekable \cup {f} ELSE seekable \ {f}

\* fopen: a FILE from calloc, linked into the list under the libc lock.
fopen(t) ==
    \E f \in Opened :
        /\ "fopen" \in Calls
        /\ pc[t] = "idle" /\ ~exited /\ calls[t] < MaxCalls
        /\ state[f] = "freed" /\ libc = NULL
        /\ state' = [state EXCEPT ![f] = "open"]
        /\ lock' = [lock EXCEPT ![f] = NULL]
        /\ list' = <<f>> \o list
        /\ dirty' = [dirty EXCEPT ![f] = FALSE]
        /\ fetched' = [fetched EXCEPT ![f] = 0]
        /\ unread' = [unread EXCEPT ![f] = 0]
        /\ got' = [got EXCEPT ![f] = 0]
        /\ NewDescriptor(f)
        /\ calls' = [calls EXCEPT ![t] = calls[t] + 1]
        /\ UNCHANGED <<created, owner, libc, goals, pc, exited>>

(***************************************************************************)
(* __bufio_lock and __bufio_unlock.                                        *)
(***************************************************************************)

\* The unlocked test of bf->lock.
bufio_lock(t) ==
    /\ pc[t] = "start" /\ goal(t).f # NULL
    /\ Goto(t, IF lock[goal(t).f] = NULL THEN "init" ELSE "acquire")
    /\ UNCHANGED <<state, lock, created, owner, libc, list, data, calls, exited>>

\* __bufio_lock_init: take the libc lock ...
bufio_lock_init(t) ==
    /\ pc[t] = "init" /\ libc = NULL
    /\ libc' = t
    /\ Goto(t, "recheck")
    /\ UNCHANGED <<state, lock, created, owner, list, data, calls, exited>>

\* __lock_init makes a new lock object; which one does not matter.
NewLock == CHOOSE l \in Locks : l \notin created

\* The lock is created without looking again.
bufio_lock_recheck_slip(t) ==
    /\ pc[t] = "recheck"
    /\ Locks \ created # {}
    /\ created' = created \cup {NewLock}
    /\ lock' = [lock EXCEPT ![goal(t).f] = NewLock]
    /\ libc' = NULL
    /\ Goto(t, "acquire")
    /\ UNCHANGED <<state, owner, list, data, calls, exited>>

\* ... and create the lock unless another thread did; release the libc lock.
bufio_lock_recheck(t) ==
    /\ pc[t] = "recheck"
    /\ LET f == goal(t).f
       IN  IF lock[f] = NULL
           THEN LET l == NewLock
                IN  /\ Locks \ created # {}
                    /\ created' = created \cup {l}
                    /\ lock' = [lock EXCEPT ![f] = l]
           ELSE UNCHANGED <<created, lock>>
    /\ libc' = NULL
    /\ Goto(t, "acquire")
    /\ UNCHANGED <<state, owner, list, data, calls, exited>>

\* __lock_acquire, the application's mutex, waits until the lock is free, even
\* for its own holder.  The second acquisition of a freopen that resizes
\* the buffer is "nested".
lock_acquire(t) ==
    /\ pc[t] \in {"acquire", "nested"}
    /\ LET l == lock[goal(t).f]
       IN  /\ owner[l] = NULL
           /\ owner' = [owner EXCEPT ![l] = t]
    /\ Goto(t, IF pc[t] = "acquire" THEN "body" ELSE "resize")
    /\ UNCHANGED <<state, lock, created, libc, list, data, calls, exited>>

Release(t) == owner' = [owner EXCEPT ![lock[goal(t).f]] = NULL]

(***************************************************************************)
(* The work done with the lock held.                                       *)
(***************************************************************************)

\* The descriptor moves back by the whole buffer.
Flushed_slip(f, left) ==
    /\ dirty' = [dirty EXCEPT ![f] = left]
    /\ fetched' = [fetched EXCEPT ![f] = fetched[f] - BufLen]
    /\ unread' = [unread EXCEPT ![f] = 0]
    /\ UNCHANGED <<got, seekable>>

\* Flushing writes pending output out and gives unread input back, which is lost
\* if the descriptor cannot seek (the result of lseek is ignored); left says that
\* output was added and stays in the buffer.
Flushed(f, left) ==
    /\ dirty' = [dirty EXCEPT ![f] = left]
    /\ fetched' = [fetched EXCEPT ![f] = IF f \in seekable THEN @ - unread[f] ELSE @]
    /\ unread' = [unread EXCEPT ![f] = 0]
    /\ UNCHANGED <<got, seekable>>

\* put, flush and setvbuf: the buffer is written out at once or later (at once on
\* stderr, whose buffer has one byte).
body(t) ==
    /\ pc[t] = "body" /\ goal(t).do \in {"put", "flush", "setvbuf"}
    /\ \E left \in {FALSE, goal(t).do = "put" /\ goal(t).f # Stderr} : Flushed(goal(t).f, left)
    /\ Release(t)
    /\ Proceed(t, Tail(goals[t]))
    /\ UNCHANGED <<state, lock, created, libc, list, calls, exited>>

\* stdout is flushed with stdin locked.
get_flush_slip(t) ==
    /\ pc[t] = "body" /\ goal(t) = On("get", Stdin)
    /\ unread[Stdin] = 0
    /\ Proceed(t, <<On("flush", Stdout), On("again", Stdin)>> \o Tail(goals[t]))
    /\ UNCHANGED <<state, lock, created, owner, libc, list, data, calls, exited>>

\* stdout is flushed every time around.
get_flush_again_slip(t) ==
    /\ pc[t] = "body" /\ goal(t) = On("get", Stdin)
    /\ unread[Stdin] = 0
    /\ Release(t)
    /\ Proceed(t, <<On("flush", Stdout), On("get", Stdin)>> \o Tail(goals[t]))
    /\ UNCHANGED <<state, lock, created, libc, list, data, calls, exited>>

\* __bufio_get on stdin with nothing buffered: unlock, flush stdout, then look
\* at the buffer again.
get_flush(t) ==
    /\ pc[t] = "body" /\ goal(t) = On("get", Stdin)
    /\ unread[Stdin] = 0
    /\ Release(t)
    /\ Proceed(t, <<On("flush", Stdout), On("again", Stdin)>> \o Tail(goals[t]))
    /\ UNCHANGED <<state, lock, created, libc, list, data, calls, exited>>

\* After the flush of stdout the buffer is refilled without looking again.
get_byte_slip(t) ==
    /\ pc[t] = "body" /\ goal(t).do \in {"get", "again"}
    /\ LET f == goal(t).f
           Fetches == {n \in 1..BufLen : fetched[f] + n <= MaxInput}
       IN  /\ goal(t) = On("get", Stdin) => unread[f] > 0
           /\ \/ /\ unread[f] > 0
                 /\ unread' = [unread EXCEPT ![f] = unread[f] - 1]
                 /\ got' = [got EXCEPT ![f] = got[f] + 1]
                 /\ UNCHANGED fetched
              \/ \E n \in Fetches :
                 /\ unread[f] = 0 \/ goal(t).do = "again"
                 /\ fetched' = [fetched EXCEPT ![f] = fetched[f] + n]
                 /\ unread' = [unread EXCEPT ![f] = n - 1]
                 /\ got' = [got EXCEPT ![f] = got[f] + 1]
              \/ /\ unread[f] = 0
                 /\ UNCHANGED <<fetched, unread, got>>
           /\ dirty' = [dirty EXCEPT ![f] = FALSE]
    /\ Release(t)
    /\ Proceed(t, Tail(goals[t]))
    /\ UNCHANGED <<state, lock, created, libc, list, seekable, calls, exited>>

\* __bufio_get otherwise: fetch if nothing is buffered, deliver one byte.  The
\* new data replaces whatever the buffer held.  The read may fail or find the end.
get_byte(t) ==
    /\ pc[t] = "body" /\ goal(t).do \in {"get", "again"}
    /\ LET f == goal(t).f
           Fetches == {n \in 1..BufLen : fetched[f] + n <= MaxInput}
       IN  /\ goal(t) = On("get", Stdin) => unread[f] > 0
           /\ \/ /\ unread[f] > 0
                 /\ unread' = [unread EXCEPT ![f] = unread[f] - 1]
                 /\ got' = [got EXCEPT ![f] = got[f] + 1]
                 /\ UNCHANGED fetched
              \/ \E n \in Fetches :
                 /\ unread[f] = 0
                 /\ fetched' = [fetched EXCEPT ![f] = fetched[f] + n]
                 /\ unread' = [unread EXCEPT ![f] = n - 1]
                 /\ got' = [got EXCEPT ![f] = got[f] + 1]
              \/ /\ unread[f] = 0
                 /\ UNCHANGED <<fetched, unread, got>>
           /\ dirty' = [dirty EXCEPT ![f] = FALSE]
    /\ Release(t)
    /\ Proceed(t, Tail(goals[t]))
    /\ UNCHANGED <<state, lock, created, libc, list, seekable, calls, exited>>

\* fread on stdin when the buffer holds less than is asked for: take it, unlock,
\* flush stdout, and go on with what the buffer holds by then.
fread_flush(t) ==
    /\ pc[t] = "body" /\ goal(t).do = "read" /\ goal(t).f = Stdin
    /\ goal(t).n > unread[Stdin]
    /\ got' = [got EXCEPT ![Stdin] = @ + unread[Stdin]]
    /\ unread' = [unread EXCEPT ![Stdin] = 0]
    /\ dirty' = [dirty EXCEPT ![Stdin] = FALSE]
    /\ Release(t)
    /\ Proceed(t, <<On("flush", Stdout), Read("reread", Stdin, goal(t).n - unread[Stdin])>>
                  \o Tail(goals[t]))
    /\ UNCHANGED <<state, lock, created, libc, list, fetched, seekable, calls, exited>>

\* The rest of fread's loop: the buffered bytes, then direct reads and fills.  It
\* stops early when a read fails or finds the end; only a fill that completes the
\* request can leave bytes in the buffer, and at least one of it was taken.
fread_loop(t) ==
    /\ pc[t] = "body" /\ goal(t).do \in {"read", "reread"}
    /\ LET f == goal(t).f
           n == goal(t).n
       IN  /\ goal(t).do = "read" /\ f = Stdin => n <= unread[f]
           /\ \/ /\ n <= unread[f]
                 /\ unread' = [unread EXCEPT ![f] = @ - n]
                 /\ got' = [got EXCEPT ![f] = @ + n]
                 /\ UNCHANGED fetched
              \/ \E more \in 0..(n - unread[f]), extra \in 0..(BufLen - 1) :
                 /\ n > unread[f] /\ fetched[f] + more + extra <= MaxInput
                 /\ unread[f] + more < n => extra = 0
                 /\ fetched' = [fetched EXCEPT ![f] = @ + more + extra]
                 /\ unread' = [unread EXCEPT ![f] = extra]
                 /\ got' = [got EXCEPT ![f] = @ + unread[f] + more]
           /\ dirty' = [dirty EXCEPT ![f] = FALSE]
    /\ Release(t)
    /\ Proceed(t, Tail(goals[t]))
    /\ UNCHANGED <<state, lock, created, libc, list, seekable, calls, exited>>

\* freopen with the lock held: the FILE starts on a new descriptor, but what
\* another thread has read or written since the flush stays in the buffer.  A
\* changed buffer goes through setvbuf, which locks the FILE again.
reopen(t) ==
    /\ pc[t] = "body" /\ goal(t).do = "reopen"
    /\ LET f == goal(t).f
       IN  /\ fetched' = [fetched EXCEPT ![f] = unread[f]]
           /\ got' = [got EXCEPT ![f] = 0]
           /\ NewDescriptor(f)
    /\ \E resize \in Resize :
          IF resize THEN Goto(t, "nested") /\ UNCHANGED owner
          ELSE Release(t) /\ Proceed(t, Tail(goals[t]))
    /\ UNCHANGED <<state, lock, created, libc, list, dirty, unread, calls, exited>>

(***************************************************************************)
(* fclose, fflush(NULL) and exit.                                          *)
(***************************************************************************)

\* __bufio_close: flush, then release and destroy the lock; bf->lock is left.
close_lock(t) ==
    /\ pc[t] = "body" /\ goal(t).do = "close"
    /\ Flushed(goal(t).f, FALSE)
    /\ Release(t)
    /\ created' = created \ {lock[goal(t).f]}
    /\ Goto(t, "unlink")
    /\ UNCHANGED <<state, lock, libc, list, calls, exited>>

\* The FILE is freed and stays in the list.
close_free_slip(t) ==
    /\ pc[t] = "unlink" /\ libc = NULL
    /\ state' = [state EXCEPT ![goal(t).f] = "freed"]
    /\ Proceed(t, Tail(goals[t]))
    /\ UNCHANGED <<lock, created, owner, libc, list, data, calls, exited>>

\* bufio_remove_file, under the libc lock, and free.
close_free(t) ==
    /\ pc[t] = "unlink" /\ libc = NULL
    /\ list' = SelectSeq(list, LAMBDA f : f # goal(t).f)
    /\ state' = [state EXCEPT ![goal(t).f] = "freed"]
    /\ Proceed(t, Tail(goals[t]))
    /\ UNCHANGED <<lock, created, owner, libc, data, calls, exited>>

\* _bufio_exit_flush: take the head off the list, then flush it, and again.
exit_flush(t) ==
    /\ pc[t] = "start" /\ goal(t).do = "pop" /\ libc = NULL
    /\ IF list = <<>>
       THEN Proceed(t, Tail(goals[t])) /\ UNCHANGED list
       ELSE /\ list' = Tail(list)
            /\ Proceed(t, <<On("flush", Head(list))>> \o goals[t])
    /\ UNCHANGED <<state, lock, created, owner, libc, data, calls, exited>>

\* The process ends, and every thread with it.
exit(t) ==
    /\ pc[t] = "start" /\ goal(t).do = "done"
    /\ exited' = TRUE
    /\ goals' = [u \in Threads |-> <<>>]
    /\ pc' = [u \in Threads |-> "idle"]
    /\ UNCHANGED <<state, lock, created, owner, libc, list, data, calls>>

Step(t) ==
    \/ bufio_lock(t) \/ bufio_lock_init(t) \/ bufio_lock_recheck(t)
    \/ lock_acquire(t) \/ body(t) \/ get_flush(t) \/ get_byte(t)
    \/ fread_flush(t) \/ fread_loop(t) \/ reopen(t)
    \/ close_lock(t) \/ close_free(t) \/ exit_flush(t) \/ exit(t)

Start(t) == StartOnFile(t) \/ StartFclose(t) \/ StartOnAll(t) \/ fopen(t)

\* No call is in progress.
Quiet == (\A t \in Threads : pc[t] = "idle") /\ UNCHANGED vars

Next == (\E t \in Threads : Start(t) \/ Step(t)) \/ Quiet

\* A thread inside a call is eventually scheduled.
Fairness == \A t \in Threads : WF_vars(Step(t))

Spec == Init /\ [][Next]_vars /\ Fairness

(***************************************************************************)
(* Properties.                                                             *)
(***************************************************************************)

\* The type invariant.
TypeOK ==
    /\ state \in [Files -> {"open", "freed"}]
    /\ lock \in [Files -> Locks \cup {NULL}]
    /\ created \subseteq Locks
    /\ owner \in [Locks -> Threads \cup {NULL}]
    /\ libc \in Threads \cup {NULL}
    /\ list \in Seq(Opened)
    /\ dirty \in [Files -> BOOLEAN]
    /\ fetched \in [Files -> Nat] /\ unread \in [Files -> Nat] /\ got \in [Files -> Nat]
    /\ seekable \subseteq Files
    /\ goals \in [Threads -> Seq(Goal)]
    /\ pc \in [Threads -> {"idle", "start", "init", "recheck", "acquire", "body",
                           "nested", "resize", "unlink"}]
    /\ calls \in [Threads -> 0..MaxCalls]
    /\ exited \in BOOLEAN

Inside(t) == pc[t] \in {"body", "nested", "resize"}

\* The thread that works on a FILE holds the lock bf->lock points to: two
\* threads that race to create the lock never end up with one each, and what
\* __bufio_unlock releases is what __bufio_lock acquired.
HolderInside == \A t \in Threads : Inside(t) => owner[lock[goal(t).f]] = t

\* No thread holds the locks of two FILEs, even when reading stdin flushes
\* stdout: waiting for a FILE's lock cannot close a cycle.
OneLockAtATime ==
    \A t \in Threads : Cardinality({l \in Locks : owner[l] = t}) <= 1

\* Every byte fetched from a descriptor that can seek is delivered once, waits in
\* the buffer or is given back: the refill after getc or fread unlocked stdin to
\* flush stdout does not overwrite what another thread read in between.  On a
\* pipe a flush loses what was read ahead, but nothing is delivered twice.
InputIntact ==
    \A f \in Files : /\ got[f] + unread[f] <= fetched[f]
                     /\ f \in seekable => fetched[f] = got[f] + unread[f]

\* The lock of an open FILE is created once.
LockOnce ==
    [][\A f \in Files :
         lock[f] # NULL /\ state[f] = "open" /\ state'[f] = "open" => lock'[f] = lock[f]]_vars

\* Every call returns (or the process ends).
CallsReturn == \A t \in Threads : (pc[t] # "idle") ~> (pc[t] = "idle")

\* "A thread will only acquire the mutex once" (locking.md on the non-recursive
\* lock, asserted in test/lock-valid.c): no thread waits for a lock it holds.
AcquiredOnce ==
    \A t \in Threads :
        pc[t] \in {"acquire", "nested"} => owner[lock[goal(t).f]] # t

\* The list that fflush(NULL) and exit walk leads to open FILEs only, and to each
\* of them once, whatever order the threads open, flush and close them in: fclose
\* unlinks a FILE before it frees it, also when fflush(NULL) has emptied the list
\* and fopen has reused the memory since.
ListOpen ==
    \A i \in 1..Len(list) :
        state[list[i]] = "open" /\ \A j \in 1..(i - 1) : list[j] # list[i]

\* The lock "protecting its internal state" (thread-safety.md) keeps a FILE in
\* existence while a call works on it.
NoUseAfterFree ==
    \A t \in Threads :
        pc[t] \in {"start", "init", "recheck", "acquire", "body"} /\ goal(t).f # NULL
            => state[goal(t).f] = "open"

\* stdio-exit-flush flushes "all runtime allocated bufio files at exit"
\* (meson_options.txt).
ExitFlushesAll == exited => \A f \in Opened : state[f] = "open" => ~dirty[f]

=============================================================================

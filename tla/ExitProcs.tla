------------------------------ MODULE ExitProcs ------------------------------
(***************************************************************************)
(* Exit handlers: the table of atexit/on_exit/__cxa_atexit run by exit()   *)
(* (libc/stdlib/exitprocs.c) and the one of at_quick_exit run by           *)
(* quick_exit() (libc/stdlib/quick-exit.c).  Both are scanned under the    *)
(* libc lock, so a scan is one step; handlers are called without the lock  *)
(* and may register handlers or call exit themselves, while other threads  *)
(* go on registering.                                                      *)
(*                                                                         *)
(* A definition named X_slip is X with a plausible mistake; the properties *)
(* are shown to notice it.                                                 *)
(***************************************************************************)
EXTENDS Naturals, FiniteSets, Sequences

CONSTANTS
    Threads,
    ATEXIT_MAX,
    EXIT_FLUSH,     \* TRUE: a constructor registers _bufio_exit_flush
    MaxRegs         \* handlers registered in one behaviour

ASSUME ExitAssumption ==
    /\ ATEXIT_MAX \in Nat \ {0}
    /\ EXIT_FLUSH \in BOOLEAN
    /\ MaxRegs \in Nat

Tables == {"exit", "quick"}

\* The library's handler takes one of the ATEXIT_MAX slots.
Room_slip == [k \in Tables |-> ATEXIT_MAX]

\* __ATEXIT_COUNT, and the size of quick_exits.
Room == [k \in Tables |-> IF k = "exit" /\ EXIT_FLUSH THEN ATEXIT_MAX + 1 ELSE ATEXIT_MAX]

Slots(k) == 0..(Room[k] - 1)

\* Handlers are numbered in the order of their registration; number 0 is the
\* library's own.  A slot whose kind is EMPTY holds NoHandler.
Handler == 0..MaxRegs
NoHandler == MaxRegs + 1

VARIABLES
    table,      \* [k -> [slot -> handler]]: on_exits and quick_exits
    regs,       \* registrations attempted so far
    pc,         \* each thread: "run", "loop" in exit, "call" in a handler, "fini"
    which,      \* the table the thread's exit works through
    process,    \* "alive", or "dead" once _exit was called
    last        \* the last operation on a table, for the abstract stack

vars == <<table, regs, pc, which, process, last>>

Free(k) == {s \in Slots(k) : table[k][s] = NoHandler}
Used(k) == Slots(k) \ Free(k)

\* The scan for an empty slot runs downwards, the one for a used slot upwards.
FirstFree_slip(k) == {s \in Free(k) : \A r \in Free(k) : s >= r}
LastUsed_slip(k) == {s \in Used(k) : \A r \in Used(k) : s <= r}

\* Where the two scans stop: upwards at an empty slot, downwards at a used one.
FirstFree(k) == {s \in Free(k) : \A r \in Free(k) : s <= r}
LastUsed(k) == {s \in Used(k) : \A r \in Used(k) : s >= r}

\* The constructor _bufio_exit_register runs before main.
Init ==
    /\ table = [k \in Tables |->
                  [s \in Slots(k) |-> IF EXIT_FLUSH /\ k = "exit" /\ s = 0 THEN 0
                                      ELSE NoHandler]]
    /\ regs = 0
    /\ pc = [t \in Threads |-> "run"]
    /\ which = [t \in Threads |-> "exit"]
    /\ process = "alive"
    /\ last = <<"none">>

\* The scan runs one slot too far.
on_exit_slip(t, k) ==
    /\ process = "alive"
    /\ pc[t] \in {"run", "call"}
    /\ regs < MaxRegs
    /\ regs' = regs + 1
    /\ \/ /\ Free(k) = {}
          /\ last' = <<"registered", k, regs + 1>>
          /\ table' = [table EXCEPT ![k] =
                         [s \in 0..Room[k] |-> IF s < Room[k] THEN table[k][s] ELSE regs + 1]]
       \/ \E s \in FirstFree(k) :
            /\ table' = [table EXCEPT ![k][s] = regs + 1]
            /\ last' = <<"registered", k, regs + 1>>
    /\ UNCHANGED <<pc, which, process>>

\* _on_exit, _at_quick_exit: the first empty slot, or failure.
on_exit(t, k) ==
    /\ process = "alive"
    /\ pc[t] \in {"run", "call"}
    /\ regs < MaxRegs
    /\ regs' = regs + 1
    /\ \/ /\ Free(k) = {}
          /\ last' = <<"refused", k>>
          /\ UNCHANGED table
       \/ \E s \in FirstFree(k) :
            /\ table' = [table EXCEPT ![k][s] = regs + 1]
            /\ last' = <<"registered", k, regs + 1>>
    /\ UNCHANGED <<pc, which, process>>

\* exit() or quick_exit(), from the program or from inside a handler.  A
\* program calls only one of them, and from one thread (ISO C).
exit(t, k) ==
    /\ process = "alive"
    /\ pc[t] \in {"run", "call"}
    /\ \A u \in Threads \ {t} : pc[u] = "run"
    /\ pc[t] = "call" => which[t] = k
    /\ pc' = [pc EXCEPT ![t] = "loop"]
    /\ which' = [which EXCEPT ![t] = k]
    /\ UNCHANGED <<table, regs, process, last>>

\* The slot is not cleared before its handler is called.
call_exitproc_slip(t) ==
    /\ process = "alive"
    /\ pc[t] = "loop"
    /\ LET k == which[t]
       IN  \/ /\ Used(k) = {}
              /\ pc' = [pc EXCEPT ![t] = "fini"]
              /\ last' = <<"empty", k>>
              /\ UNCHANGED table
           \/ \E s \in LastUsed(k) :
                /\ UNCHANGED table
                /\ last' = <<"taken", k, table[k][s]>>
                /\ pc' = [pc EXCEPT ![t] = "call"]
    /\ UNCHANGED <<regs, which, process>>

\* One turn of the loop of __call_exitprocs: clear the last used slot and call
\* its handler; with no slot used, go on to the destructors.
call_exitproc(t) ==
    /\ process = "alive"
    /\ pc[t] = "loop"
    /\ LET k == which[t]
       IN  \/ /\ Used(k) = {}
              /\ pc' = [pc EXCEPT ![t] = "fini"]
              /\ last' = <<"empty", k>>
              /\ UNCHANGED table
           \/ \E s \in LastUsed(k) :
                /\ table' = [table EXCEPT ![k][s] = NoHandler]
                /\ last' = <<"taken", k, table[k][s]>>
                /\ pc' = [pc EXCEPT ![t] = "call"]
    /\ UNCHANGED <<regs, which, process>>

\* The handler returns to the loop.
return(t) ==
    /\ process = "alive"
    /\ pc[t] = "call"
    /\ pc' = [pc EXCEPT ![t] = "loop"]
    /\ UNCHANGED <<table, regs, which, process, last>>

\* _exit, _Exit.
terminate(t) ==
    /\ process = "alive"
    /\ pc[t] = "fini"
    /\ process' = "dead"
    /\ UNCHANGED <<table, regs, pc, which, last>>

Next ==
    \E t \in Threads :
        \/ \E k \in Tables : on_exit(t, k) \/ exit(t, k)
        \/ call_exitproc(t) \/ return(t) \/ terminate(t)

\* Handlers return, and a thread in exit() is scheduled.
Fairness == \A t \in Threads : WF_vars(call_exitproc(t)) /\ WF_vars(return(t)) /\ WF_vars(terminate(t))

Spec == Init /\ [][Next]_vars /\ Fairness

(***************************************************************************)
(* Properties.                                                             *)
(***************************************************************************)

\* The type invariant.
TypeOK ==
    /\ DOMAIN table = Tables
    /\ \A k \in Tables : table[k] \in [Slots(k) -> 0..(MaxRegs + 1)]
    /\ regs \in 0..MaxRegs
    /\ pc \in [Threads -> {"run", "loop", "call", "fini"}]
    /\ which \in [Threads -> Tables]
    /\ process \in {"alive", "dead"}

\* No hole: whatever mix of registrations, calls and registrations from inside
\* handlers came before, the used slots are the first ones and hold the
\* handlers in the order of their registration.  The first empty slot is
\* therefore above, and the last used slot holds, the youngest handler.
Ordered ==
    \A k \in Tables : \A s \in Slots(k) : table[k][s] # NoHandler =>
        \A r \in 0..(s - 1) : table[k][r] # NoHandler /\ table[k][r] < table[k][s]

\* The handlers in place before main, oldest first.
Initial == [k \in Tables |-> IF EXIT_FLUSH /\ k = "exit" THEN <<0>> ELSE <<>>]

ToStack == INSTANCE ExitStack WITH
    stack <- [k \in Tables |-> [i \in 1..Cardinality(Used(k)) |-> table[k][i - 1]]]

\* The tables are stacks: handlers run in reverse order of registration, each
\* registration once, and registering fails only when the table is full.
IsStack == ToStack!StackSpec

\* The library's own handler does not reduce the guarantee of ATEXIT_MAX
\* registrations (the comment on __ATEXIT_COUNT): a registration is refused only while ATEXIT_MAX handlers
\* of the application are registered.
AppBudget ==
    [][regs' # regs /\ last'[1] = "refused" =>
         Cardinality({s \in Used(last'[2]) : table[last'[2]][s] # 0}) >= ATEXIT_MAX]_vars

\* exit() ends the process when its handlers and the other threads register only
\* finitely many handlers meanwhile (MaxRegs): none is left in the table, run
\* twice or waited for.  A handler that registers itself again each time keeps
\* the loop of __call_exitprocs running for ever.
ExitEnds == \A t \in Threads : (pc[t] = "loop") ~> (process = "dead")

=============================================================================

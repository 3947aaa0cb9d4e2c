------------------------------ MODULE ExitStack ------------------------------
(***************************************************************************)
(* What atexit and exit promise: registered handlers form a stack of at    *)
(* most Room entries, and each handler that runs is the youngest of those  *)
(* not run yet.                                                            *)
(***************************************************************************)
EXTENDS Naturals, Sequences

CONSTANTS Tables, Room, Handler, Initial

VARIABLES
    stack,      \* [Tables -> Seq(handler)]: youngest last
    last        \* the last operation: registered, refused or taken

Start ==
    /\ stack = Initial
    /\ last = <<"none">>

Register(k, h) ==
    /\ Len(stack[k]) < Room[k]
    /\ stack' = [stack EXCEPT ![k] = Append(stack[k], h)]
    /\ last' = <<"registered", k, h>>

Refuse(k) ==
    /\ Len(stack[k]) >= Room[k]
    /\ last' = <<"refused", k>>
    /\ UNCHANGED stack

Take(k) ==
    /\ stack[k] # <<>>
    /\ stack' = [stack EXCEPT ![k] = SubSeq(stack[k], 1, Len(stack[k]) - 1)]
    /\ last' = <<"taken", k, stack[k][Len(stack[k])]>>

\* Nothing is left: the process ends.
Empty(k) ==
    /\ stack[k] = <<>>
    /\ last' = <<"empty", k>>
    /\ UNCHANGED stack

StackStep ==
    \E k \in Tables : Refuse(k) \/ Take(k) \/ Empty(k) \/ \E h \in Handler : Register(k, h)

StackSpec == Start /\ [][StackStep]_<<stack, last>>

=============================================================================

--------------------------- MODULE ExitProcsProofs ---------------------------
(***************************************************************************)
(* For every ATEXIT_MAX, every number of threads and of registrations: the *)
(* exit tables keep their handlers without holes and in the order of their *)
(* registration, so the highest used slot always holds the youngest.       *)
(***************************************************************************)
EXTENDS ExitProcs, TLAPS

\* Handlers in the tables were registered before now: with it, the handler a
\* registration stores is younger than all others.
Numbered ==
    \A k \in Tables : \A s \in Slots(k) :
        table[k][s] # NoHandler => table[k][s] <= regs

IInv == TypeOK /\ Ordered /\ Numbered

\* A table has at least one slot.
LEMMA RoomNat == \A k \in Tables : Room[k] \in Nat \ {0}
  BY ExitAssumption DEF Room, Tables

\* The constructor's registration leaves ordered tables.
LEMMA InitIInv == Init => IInv
  <1> SUFFICES ASSUME Init PROVE IInv
      OBVIOUS
  <1> USE ExitAssumption, RoomNat DEF Init, NoHandler, Slots
  <1>1. TypeOK
      BY DEF TypeOK, Tables
  <1>2. Ordered
      BY DEF Ordered
  <1>3. Numbered
      BY DEF Numbered
  <1> QED  BY <1>1, <1>2, <1>3 DEF IInv

\* The entries of the tables are numbers.
LEMMA EntriesNat ==
    ASSUME TypeOK
    PROVE  \A k \in Tables : \A s \in Slots(k) : table[k][s] \in Nat
  BY ExitAssumption DEF TypeOK

\* A registration stores the youngest handler in the first empty slot, above
\* every used one.
LEMMA RegisterIInv ==
    ASSUME IInv, NEW t \in Threads, NEW k \in Tables, on_exit(t, k)
    PROVE  IInv'
  <1>0. /\ TypeOK /\ Ordered /\ Numbered
        /\ regs \in Nat /\ regs < MaxRegs /\ regs' = regs + 1 /\ NoHandler = MaxRegs + 1
        /\ \A j \in Tables : \A r \in Slots(j) : table[j][r] \in Nat
        /\ \A j \in Tables : Slots(j) \subseteq Nat
      BY ExitAssumption, RoomNat, EntriesNat DEF IInv, on_exit, TypeOK, NoHandler, Slots
  <1>1. CASE UNCHANGED table
    <2>1. TypeOK'
        BY <1>0, <1>1, ExitAssumption DEF TypeOK, on_exit
    <2>2. Ordered'
        BY <1>0, <1>1 DEF Ordered
    <2>3. Numbered'
        BY <1>0, <1>1 DEF Numbered
    <2> QED  BY <2>1, <2>2, <2>3 DEF IInv
  <1>2. ASSUME NEW s \in FirstFree(k), table' = [table EXCEPT ![k][s] = regs + 1]
        PROVE  IInv'
    <2>1. /\ s \in Slots(k) /\ table[k][s] = NoHandler
          /\ \A r \in Slots(k) : r < s => table[k][r] # NoHandler
        BY <1>0 DEF FirstFree, Free
    <2>2. \A r \in Slots(k) : table[k][r] # NoHandler => r <= s
        BY <1>0, <2>1 DEF Ordered, Slots
    <2>3. \A j \in Tables : \A r \in Slots(j) :
            table'[j][r] = IF j = k /\ r = s THEN regs + 1 ELSE table[j][r]
        BY <1>0, <1>2, <2>1 DEF TypeOK
    <2>4. TypeOK'
        BY <1>0, <1>2, <2>1, ExitAssumption DEF TypeOK, on_exit
    <2>5. Ordered'
      <3> SUFFICES ASSUME NEW j \in Tables, NEW r \in Slots(j), table'[j][r] # NoHandler,
                          NEW q \in 0..(r - 1)
                   PROVE  table'[j][q] # NoHandler /\ table'[j][q] < table'[j][r]
          BY DEF Ordered
      <3>1. q \in Slots(j) /\ q < r /\ r \in Nat
          BY RoomNat DEF Slots
      <3>2. CASE j = k /\ r = s
          BY <1>0, <2>1, <2>3, <3>1, <3>2 DEF Numbered
      <3>3. CASE ~(j = k /\ r = s)
        <4>1. table[j][r] # NoHandler
            BY <2>3, <3>3
        <4>2. table[j][q] # NoHandler /\ table[j][q] < table[j][r]
            BY <1>0, <4>1 DEF Ordered
        <4> QED  BY <2>1, <2>3, <3>1, <3>3, <4>2
      <3> QED  BY <3>2, <3>3
    <2>6. Numbered'
      <3> SUFFICES ASSUME NEW j \in Tables, NEW r \in Slots(j), table'[j][r] # NoHandler
                   PROVE  table'[j][r] <= regs'
          BY DEF Numbered
      <3> QED  BY <1>0, <2>3 DEF Numbered
    <2> QED  BY <2>4, <2>5, <2>6 DEF IInv
  <1> QED  BY <1>1, <1>2 DEF on_exit

\* A turn of the exit loop clears the last used slot, which leaves no hole.
LEMMA CallIInv ==
    ASSUME IInv, NEW t \in Threads, call_exitproc(t)
    PROVE  IInv'
  <1>0. /\ TypeOK /\ Ordered /\ Numbered
        /\ NoHandler \in 0..(MaxRegs + 1) /\ regs' = regs /\ process' = process /\ which' = which
        /\ pc' \in [Threads -> {"run", "loop", "call", "fini"}]
        /\ \A j \in Tables : Slots(j) \subseteq Nat
      BY ExitAssumption, RoomNat DEF IInv, call_exitproc, TypeOK, NoHandler, Slots
  <1>1. CASE UNCHANGED table
      BY <1>0, <1>1 DEF IInv, TypeOK, Ordered, Numbered
  <1>2. ASSUME NEW k \in Tables, NEW s \in LastUsed(k),
               table' = [table EXCEPT ![k][s] = NoHandler]
        PROVE  IInv'
    <2>1. /\ s \in Slots(k)
          /\ \A r \in Slots(k) : table[k][r] # NoHandler => r <= s
        BY <1>0 DEF LastUsed, Used, Free
    <2>2. \A j \in Tables : \A r \in Slots(j) :
            table'[j][r] = IF j = k /\ r = s THEN NoHandler ELSE table[j][r]
        BY <1>0, <1>2, <2>1 DEF TypeOK
    <2>3. TypeOK'
        BY <1>0, <1>2, <2>1 DEF TypeOK
    <2>4. Ordered'
      <3> SUFFICES ASSUME NEW j \in Tables, NEW r \in Slots(j), table'[j][r] # NoHandler,
                          NEW q \in 0..(r - 1)
                   PROVE  table'[j][q] # NoHandler /\ table'[j][q] < table'[j][r]
          BY DEF Ordered
      <3>1. q \in Slots(j) /\ q < r /\ r \in Nat
          BY RoomNat DEF Slots
      <3>2. table[j][r] # NoHandler /\ ~(j = k /\ r = s)
          BY <2>2
      <3>3. table[j][q] # NoHandler /\ table[j][q] < table[j][r]
          BY <1>0, <3>2 DEF Ordered
      <3> QED  BY <1>0, <2>1, <2>2, <3>1, <3>2, <3>3
    <2>5. Numbered'
        BY <1>0, <2>2 DEF Numbered
    <2> QED  BY <2>3, <2>4, <2>5 DEF IInv
  <1> QED  BY <1>0, <1>1, <1>2 DEF call_exitproc, TypeOK

\* Every step of the handlers, of exit() and of other threads keeps the tables
\* ordered.
LEMMA StepIInv == IInv /\ [Next]_vars => IInv'
  <1> SUFFICES ASSUME IInv, [Next]_vars PROVE IInv'
      OBVIOUS
  <1>1. ASSUME NEW t \in Threads, NEW k \in Tables, on_exit(t, k) PROVE IInv'
      BY <1>1, RegisterIInv
  <1>2. ASSUME NEW t \in Threads, call_exitproc(t) PROVE IInv'
      BY <1>2, CallIInv
  <1>3. ASSUME NEW t \in Threads, NEW k \in Tables, exit(t, k) PROVE IInv'
      BY <1>3 DEF exit, IInv, TypeOK, Ordered, Numbered
  <1>4. ASSUME NEW t \in Threads, return(t) \/ terminate(t) PROVE IInv'
      BY <1>4 DEF return, terminate, IInv, TypeOK, Ordered, Numbered
  <1>5. CASE UNCHANGED vars
      BY <1>5 DEF vars, IInv, TypeOK, Ordered, Numbered
  <1> QED  BY <1>1, <1>2, <1>3, <1>4, <1>5 DEF Next

\* The exit tables are well typed and ordered in every reachable state, however
\* registrations, handlers and threads interleave.
THEOREM ExitTablesOrdered == Spec => [](TypeOK /\ Ordered)
  <1>1. IInv => TypeOK /\ Ordered
      BY DEF IInv
  <1> QED  BY <1>1, InitIInv, StepIInv, PTL DEF Spec

=============================================================================

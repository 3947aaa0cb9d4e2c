------------------------------- MODULE Stream -------------------------------
(***************************************************************************)
(* What a stdio stream promises its caller: a file and a position in it,   *)
(* one pushed-back character and the two indicators.  There is no buffer;  *)
(* what buffering leaves visible is that the device (saved) may lag behind *)
(* the contents, that fflush and a successful reposition bring it up to    *)
(* date, and that a reported error, fclose and freopen may drop the data   *)
(* it lags by.                                                             *)
(***************************************************************************)
EXTENDS Integers

CONSTANTS Byte, Addr, Offsets

VARIABLES
    open, readable, writable,
    content,    \* [cell, end]: the file as the caller of the stream sees it
    saved,      \* [cell, end]: the file as the device holds it
    position, unget, eof, err,
    call        \* the last call and its result

svars == <<open, readable, writable, content, saved, position, unget, eof, err, call>>

EmptyFile == [cell |-> [i \in Addr |-> 0], end |-> 0]

\* The file with byte c at p; a gap before p reads as zeros.
Stored(f, p, c) ==
    [cell |-> [f.cell EXCEPT ![p] = c], end |-> IF p >= f.end THEN p + 1 ELSE f.end]

\* The device goes from s to t, taking over some of the contents c.
WriteBack(s, t, c) ==
    /\ \A i \in Addr : t.cell[i] \in {s.cell[i], c.cell[i]}
    /\ t.end \in s.end..c.end

\* The step is the call fn(arg), returning r.
Calls(fn, arg) == call'.fn = fn /\ call'.arg = arg
Returns(r) == call'.ret = r

\* The call succeeded and everything written so far is on the device.
Synced == content' = content /\ saved' = content

\* The call reported an error: what the device did not take is gone.
Dropped(c) == WriteBack(saved, saved', c) /\ content' = saved'

Access == <<open, readable, writable>>
Marks == <<eof, err>>

Open(mode) ==
    /\ Calls("fopen", <<mode>>)
    /\ Returns(0)
    /\ ~open
    /\ open'
    /\ readable' = (mode \in {"r", "r+", "w+", "a+"})
    /\ writable' = (mode # "r")
    /\ saved' = IF mode \in {"w", "w+"} THEN EmptyFile ELSE saved
    /\ content' = saved'
    /\ position' = IF mode \in {"a", "a+"} THEN saved'.end ELSE 0
    /\ unget' = 0 /\ ~eof' /\ ~err'

Get ==
    /\ Calls("getc", <<>>)
    /\ open /\ UNCHANGED Access
    /\ \/ /\ ~readable
          /\ err' /\ Returns(-1)
          /\ UNCHANGED <<content, saved, position, unget, eof>>
       \/ /\ readable /\ unget # 0
          /\ unget' = 0 /\ Returns(unget - 1)
          /\ UNCHANGED <<content, saved, position, eof, err>>
       \/ /\ readable /\ unget = 0 /\ position < content.end
          /\ Returns(content.cell[position])
          /\ position' = position + 1
          /\ Synced /\ UNCHANGED <<unget, eof, err>>
       \/ /\ readable /\ unget = 0 /\ position >= content.end
          /\ Returns(-1)
          /\ eof' /\ Synced /\ UNCHANGED <<position, unget, err>>
       \/ /\ readable /\ unget = 0
          /\ Returns(-1)
          /\ err' /\ Dropped(content) /\ position' \in Nat /\ UNCHANGED <<unget, eof>>

Unget(c) ==
    /\ Calls("ungetc", <<c>>)
    /\ open /\ UNCHANGED <<Access, content, saved, position, err>>
    /\ IF readable /\ unget = 0
       THEN unget' = c + 1 /\ ~eof' /\ Returns(c)
       ELSE UNCHANGED <<unget, eof>> /\ Returns(-1)

Put(c) ==
    /\ Calls("putc", <<c>>)
    /\ open /\ UNCHANGED <<Access, unget, eof>>
    /\ \/ /\ ~writable
          /\ Returns(-1)
          /\ UNCHANGED <<content, saved, position, err>>
       \/ /\ writable
          /\ Returns(c)
          /\ content' = Stored(content, position, c)
          /\ WriteBack(saved, saved', content')
          /\ position' = position + 1 /\ UNCHANGED err
       \/ /\ writable
          /\ Returns(-1)
          /\ err' /\ Dropped(Stored(content, position, c)) /\ position' \in Nat

Flush ==
    /\ Calls("fflush", <<>>)
    /\ open /\ unget' = 0 /\ UNCHANGED <<Access, Marks>>
    /\ \/ Returns(0) /\ Synced /\ UNCHANGED position
       \/ Returns(-1) /\ Dropped(content) /\ position' \in Nat

\* A seek that fails may leave the stream anywhere; one that succeeds lands
\* where it was asked to, forgets the pushed-back character and end-of-file.
Seek(offset, whence) ==
    /\ Calls("fseek", <<offset, whence>>)
    /\ open /\ UNCHANGED <<Access, err>>
    /\ \/ /\ Returns(0)
          /\ position' = offset + (CASE whence = "SET" -> 0
                                     [] whence = "CUR" -> position
                                     [] whence = "END" -> content.end)
          /\ unget' = 0 /\ ~eof' /\ Synced
       \/ /\ Returns(-1)
          /\ Dropped(content) /\ position' \in Nat /\ UNCHANGED <<unget, eof>>

Tell ==
    /\ Calls("ftell", <<>>)
    /\ open /\ UNCHANGED <<Access, Marks, unget>>
    /\ \/ /\ Returns(IF unget # 0 THEN position - 1 ELSE position)
          /\ Synced /\ UNCHANGED position
       \/ /\ Returns(IF unget # 0 THEN -2 ELSE -1)
          /\ Dropped(content) /\ position' \in Nat

SetBuffer ==
    /\ Calls("setvbuf", <<>>)
    /\ open /\ UNCHANGED <<Access, Marks, unget>>
    /\ \/ \E r \in {0, -1} : Returns(r) /\ Synced /\ UNCHANGED position
       \/ Returns(-1) /\ Dropped(content) /\ position' \in Nat

\* Reopening the same file without truncation keeps what the device took over,
\* and does not say whether that is everything.  When the file cannot be opened
\* the stream stays as it was.
Reopen(how, mode) ==
    /\ Calls("freopen", <<how, mode>>)
    /\ open
    /\ \/ /\ Returns(0)
          /\ open' /\ unget' = 0 /\ ~eof' /\ ~err'
          /\ readable' = (mode \in {"r", "r+", "w+", "a+"})
          /\ writable' = (mode # "r")
          /\ content' = saved' /\ position' = 0
          /\ how = "same" /\ mode \notin {"w", "w+"} => WriteBack(saved, saved', content)
          /\ how = "other" => saved' = EmptyFile
       \/ /\ Returns(-1) /\ how # "null"
          /\ UNCHANGED <<Access, Marks, content, saved, position, unget>>

ClearErr ==
    /\ Calls("clearerr", <<>>)
    /\ open /\ ~eof' /\ ~err' /\ Returns(0)
    /\ UNCHANGED <<Access, content, saved, position, unget>>

\* fclose does not say whether the last data reached the device.
Close ==
    /\ Calls("fclose", <<>>)
    /\ open /\ ~open'
    /\ \E r \in {0, -1} : Returns(r)
    /\ Dropped(content)

Start ==
    /\ ~open /\ content = saved

Step ==
    \/ \E mode \in {"r", "w", "a", "r+", "w+", "a+"} :
          Open(mode) \/ \E how \in {"same", "other", "null"} : Reopen(how, mode)
    \/ Get \/ Flush \/ Tell \/ SetBuffer \/ ClearErr \/ Close
    \/ \E c \in Byte : Unget(c) \/ Put(c)
    \/ \E offset \in Offsets, whence \in {"SET", "CUR", "END"} : Seek(offset, whence)

StreamSpec == Start /\ [][Step]_svars

=============================================================================

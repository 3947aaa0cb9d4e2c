------------------------------ MODULE MCBufio ------------------------------
(* Instances of Bufio for TLC.                                              *)
EXTENDS Bufio

MCByte == {0, 1}

\* Back, on, and past the end of the buffer; in front of the file from offset 0.
MCOffsets == {-1, 1, 2}

\* One of each way through __bufio_setvbuf: unbuffered, line buffered with the
\* size kept, a buffer from the caller, a smaller and a larger one from the heap,
\* a caller's buffer of no size, no mode.
MCSetvbufs ==
    {<<FALSE, "NBF", 0>>, <<FALSE, "LBF", 0>>, <<TRUE, "FBF", 1>>,
     <<FALSE, "FBF", 1>>, <<FALSE, "FBF", 2>>, <<TRUE, "LBF", 0>>, <<FALSE, "bad", 0>>}

=============================================================================

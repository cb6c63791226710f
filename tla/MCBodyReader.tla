---------------------------- MODULE MCBodyReader ----------------------------
(* Small instances of BodyReader for TLC. *)
EXTENDS BodyReader

\* Lines as they look on the wire, with "x" for any byte of an extension.
\* The limits of the configurations: 4 bytes of size line, 1 of extension.
\* A line past its limit needs no record: it is refused before its end.
SizeLine(n) == [len |-> 3, crlf |-> TRUE, ext |-> 0, size |-> n]   \* 2 CR LF

MCChunkLines ==
    {SizeLine(n) : n \in 0..5} \cup
    {[len |-> 5, crlf |-> TRUE,  ext |-> 1, size |-> 1],           \* 1;x CR LF
     [len |-> 6, crlf |-> TRUE,  ext |-> 2, size |-> 1],           \* 1;xx CR LF
     [len |-> 2, crlf |-> FALSE, ext |-> 0, size |-> 1],           \* 1 LF
     [len |-> 3, crlf |-> TRUE,  ext |-> 0, size |-> BadSize]}     \* g CR LF

\* A chunk as large as an int64 can say.
MCHugeChunkLines == {SizeLine(n) : n \in {0, 1, MaxInt}}

Trailer(len, val) ==
    [len |-> len, crlf |-> TRUE, blank |-> FALSE, nameOK |-> TRUE,
     val |-> val, valOK |-> TRUE]

\* The limits of the configurations: 2 bytes of value, 3 of name.
MCTrailerLines ==
    {[Trailer(2, 0) EXCEPT !.blank = TRUE],                        \* CR LF
     [Trailer(1, 0) EXCEPT !.blank = TRUE, !.crlf = FALSE],        \* LF
     Trailer(5, 1),                                                \* a:v CR LF
     Trailer(7, 3),                                                \* a:vvv CR LF
     [Trailer(4, 0) EXCEPT !.nameOK = FALSE],                      \* :v CR LF
     [Trailer(5, 1) EXCEPT !.valOK = FALSE]}                       \* a:^A CR LF

MCFramings ==
    {[kind |-> "none", length |-> 0], [kind |-> "chunked", length |-> 0]} \cup
    {[kind |-> "fixed", length |-> n] : n \in 0..5}

MCChunkedOnly == {[kind |-> "chunked", length |-> 0]}
=============================================================================

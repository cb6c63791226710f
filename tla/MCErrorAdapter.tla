--------------------------- MODULE MCErrorAdapter ---------------------------
(* Small instances of ErrorAdapter for TLC. *)
EXTENDS ErrorAdapter

\* net/http's own writers: HTTP/1 has both, HTTP/2 cannot be hijacked; and a
\* middleware that passes on what it wraps, or wraps a plain writer.
MCWriters ==
    {[own |-> Optional, below |-> {}], [own |-> {"Flusher"}, below |-> {}],
     [own |-> {}, below |-> {}], [own |-> Optional, below |-> Optional],
     [own |-> {"Hijacker"}, below |-> {"Hijacker"}]}

\* A middleware that embeds http.ResponseWriter and has an Unwrap, nothing else.
MCHidingWriters == {[own |-> {}, below |-> Optional]}

MCBodies == [size : 0..3, fault : BOOLEAN]
=============================================================================

---------------------------- MODULE MCConnection ----------------------------
(* Small instances of Connection for TLC: connections of up to three messages. *)
EXTENDS Connection, SequencesExt

MCLimits ==
    [p \in Profiles |->
        IF p = "Compatible"
        THEN [headSize |-> 26, requestLine |-> 5, headerCount |-> 3, valueLen |-> 2]
        ELSE [headSize |-> 15, requestLine |-> 3, headerCount |-> 2, valueLen |-> 1]]

\* A new Request, and one whose last head was left in the middle.
MCRequests ==
    {[headers |-> <<>>, cl |-> <<>>, te |-> <<>>, lineEnds |-> 0],
     [headers |-> <<2, 3, 4>>, cl |-> <<<<3>>>>, te |-> <<"chunked">>, lineEnds |-> 3]}

\* The shapes of lines, by their size; ends are counted when a wire is put together.
Shape(kind, size) ==
    [kind |-> kind, size |-> size, crlf |-> TRUE, flaw |-> "none", version |-> "1.1",
     name |-> "another", value |-> "", length |-> 0]

Request1(v)   == [Shape("request", 4) EXCEPT !.version = v]
BadRequest(f) == [Shape("request", 4) EXCEPT !.flaw = f]
Long          == Shape("request", 6)
Blank         == Shape("blank", 2)
Bare(l)       == [l EXCEPT !.crlf = FALSE, !.size = @ - 1]
Bytes(n)      == Shape("other", n)
Field1(n, v, k) == [Shape("field", 3 + k) EXCEPT !.name = n, !.value = v, !.length = k]
BadField(f)     == [Field1("another", "", 1) EXCEPT !.flaw = f]
X(k)    == Field1("another", "", k)
Host    == Field1("Host", "valid", 1)
CL(v)   == Field1("Content-Length", v, Len(v))
TE(v)   == Field1("Transfer-Encoding", v, 1)

\* A message: its head, the body the sender means by it, and how many bytes
\* behind that body a reader of chunks would still take.
Msg(head, body)  == [head |-> head, body |-> body, more |-> 0]
Chunks(head, n)  == [head |-> head, body |-> <<>>, more |-> n]
HeadOf(fields)  == <<Request1("1.1"), Host>> \o fields \o <<Blank>>

Plain ==
    {Msg(HeadOf(<<>>), <<>>),
     Msg(<<Request1("1.0"), Blank>>, <<>>),
     Msg(HeadOf(<<CL(<<0>>)>>), <<>>),
     Msg(HeadOf(<<CL(<<3>>)>>), <<Bytes(3)>>),
     Msg(HeadOf(<<CL(<<6>>)>>), <<Request1("1.0"), Blank>>),
     Msg(HeadOf(<<X(1), CL(<<0, 4>>)>>), <<Bytes(2), Blank>>),
     Msg(HeadOf(<<TE("chunked")>>), <<Bytes(3), Blank>>)}

\* Heads that another hop might frame otherwise, with every body meant.
Ambiguous ==
    {Msg(HeadOf(h), b) :
        h \in {<<CL(<<0>>), CL(<<6>>)>>, <<CL(<<6>>), CL(<<0>>)>>},
        b \in {<<>>, <<Request1("1.0"), Blank>>}} \cup
    {Msg(HeadOf(h), <<Bytes(4), Blank>>) :
        h \in {<<TE("chunked"), CL(<<6>>)>>, <<TE("gzip")>>, <<TE("chunked"), TE("gzip")>>,
               <<TE("chunked"), TE("chunked")>>}} \cup
    {Chunks(HeadOf(<<TE("chunked"), CL(<<0>>)>>), 6)} \cup
    {Msg(HeadOf(<<CL(v)>>), <<>>) : v \in {<<1, 3>>, <<10>>}}

Broken ==
    {Msg(<<Request1("1.1")>> \o h \o <<Blank>>, <<>>) :
        h \in {<<>>, <<Field1("Host", "valid", 0)>>, <<Field1("Host", "invalid", 1)>>,
               <<Host, Host>>, <<Host, X(3)>>, <<X(0), X(0), Host>>,
               <<Host, X(0), X(0), X(0)>>, <<X(2), Host, Bare(Blank)>>,
               <<Host, Bare(X(1))>>, <<Host, Bytes(2)>>,
               <<Bare(Blank), Bare(Blank), Bare(Blank)>>} \cup
             {<<Host, BadField(f)>> : f \in FieldFlaws}} \cup
    {Msg(<<BadRequest(f), Host, Blank>>, <<>>) : f \in RequestFlaws} \cup
    {Msg(<<l>> \o <<Host, Blank>>, <<>>) : l \in {Long, Bare(Request1("1.1")), Blank, X(1)}} \cup
    {Msg(<<Request1("1.1"), Host, X(2)>>, <<>>), Msg(<<Bytes(5)>>, <<>>)}

Total(shapes) == FoldLeft(LAMBDA n, s : n + s.size, 0, shapes)

\* The lines of a message appended to a wire: its chunks end with its body.
Lines(w, m) ==
    LET end == w.end + Total(m.head) + Total(m.body)
        add(acc, s) ==
            [end   |-> acc.end + s.size,
             lines |-> Append(acc.lines,
                         [kind |-> s.kind, crlf |-> s.crlf, flaw |-> s.flaw, version |-> s.version,
                          name |-> s.name, value |-> s.value, length |-> s.length,
                          end |-> acc.end + s.size, chunksEnd |-> end + m.more])]
    IN  FoldLeft(add, [end |-> w.end, lines |-> w.lines], m.head \o m.body)

\* The wire of a sequence of messages.
WireOf(msgs) ==
    LET add(w, m) == LET l == Lines(w, m) IN
                     [end |-> l.end, lines |-> l.lines, starts |-> w.starts \cup {l.end}]
        all == FoldLeft(add, [end |-> 0, lines |-> <<>>, starts |-> {0}], msgs)
    IN  [lines |-> all.lines, starts |-> all.starts]

MCWires ==
    {WireOf(<<m>>) : m \in Broken} \cup
    {WireOf(<<m, n, Msg(HeadOf(<<>>), <<>>)>>) : m \in Plain, n \in Ambiguous} \cup
    {WireOf(<<m, n>>) : m \in Plain, n \in Plain \cup Broken}
=============================================================================

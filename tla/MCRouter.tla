------------------------------ MODULE MCRouter ------------------------------
(* Small instances of Router for TLC. *)
EXTENDS Router

Text(t)  == [form |-> "text", text |-> t]
Param(x) == [form |-> "param", text |-> x]
Slash    == Text("")
Star     == [form |-> "star", text |-> ""]
End      == [form |-> "end", text |-> ""]
BadSeg   == [form |-> "bad", text |-> ""]

R(m, h, route) == [method |-> m, host |-> h, route |-> route]

\* Paths of at most three segments over the literals of the patterns, a text
\* none of them has, and a trailing slash.
CleanPaths(texts) ==
    LET ends == texts \cup {""} IN
    {<<t>> : t \in ends} \cup {<<s, t>> : s \in texts, t \in ends}
      \cup {<<r, s, t>> : r, s \in texts, t \in ends}

MCPaths ==
    CleanPaths({"a", "b", "other"}) \cup {<<"a/b">>} \cup {[i \in 1..9 |-> "other"]}

\* Escapes: of a letter, of a slash between two and behind one, of the name of
\* the directory above; and each of them once more.
MCDecoded ==
    "%61" :> "a" @@ "a%2Fb" :> "a/b" @@ "a%2F" :> "a/" @@ "%2e%2e" :> ".." @@
    "%2561" :> "%61" @@ "a%252Fb" :> "a%2Fb" @@ "a%252F" :> "a%2F" @@ "%252e%252e" :> "%2e%2e"

MCEscaped ==
    "%61" :> "%2561" @@ "a%2Fb" :> "a%252Fb" @@ "a%2F" :> "a%252F" @@ "%2e%2e" :> "%252e%252e"

MCSlashed == "a/b" :> <<"a", "b">> @@ "a/" :> <<"a", "">>

-----------------------------------------------------------------------------
\* One method's patterns of every shape: enough of them to split groups.
MCConflictRegs ==
    << R("GET", "", <<Text("a")>>),              \* /a
       R("GET", "", <<Text("b")>>),              \* /b
       R("GET", "", <<Text("a"), Text("b")>>),   \* /a/b
       R("GET", "", <<Text("a"), Param("x")>>),  \* /a/{x}
       R("GET", "", <<Text("b"), Param("y")>>),  \* /b/{y}
       R("GET", "", <<Param("x"), Text("b")>>),  \* /{x}/b
       R("GET", "", <<Text("a"), Slash>>),       \* /a/
       R("GET", "", <<Param("x"), Slash>>),      \* /{x}/
       R("GET", "", <<Text("a"), End>>),         \* /a/{$}
       R("GET", "", <<Star>>),                   \* /*
       R("GET", "", <<Param("x")>>),             \* /{x}
       R("GET", "h", <<Param("x"), Text("b")>>), \* h/{x}/b
       R("POST", "", <<Param("x"), Text("b")>>), \* /{x}/b
       R("GET", "", <<Text("a"), BadSeg>>),      \* /a/v{x}
       R("GET", "", <<Param("x"), Param("x")>>), \* /{x}/{x}
       R("", "", <<Text("a")>>) >>               \* no method

-----------------------------------------------------------------------------
MCMatchRegs ==
    << R("GET",  "", <<Text("a")>>),             \* /a
       R("GET",  "", <<Param("x")>>),            \* /{x}
       R("GET",  "", <<Text("a"), Slash>>),      \* /a/
       R("POST", "", <<Text("a"), Slash>>),      \* /a/
       R("GET",  "", <<Text("a"), Param("x")>>), \* /a/{x}
       R("POST", "", <<Param("y"), Text("b")>>), \* /{y}/b
       R("GET",  "", <<Text("a"), End>>),        \* /a/{$}
       R("GET",  "", <<Text("a"), Text("b"), Text("a")>>),      \* /a/b/a
       R("GET",  "", <<Param("x"), Param("y"), Slash>>),        \* /{x}/{y}/
       R("POST", "", <<Param("x"), Star>>),      \* /{x}/*
       R("GET",  "", <<Slash>>),                 \* /
       R("HEAD", "", <<Text("a")>>),             \* /a
       R("GET",  "", <<Text("a/b")>>),           \* /a%2Fb
       R("GET",  "h", <<Param("z")>>) >>         \* h/{z}

\* Clean paths, unclean spellings of some of them, and escapes in both.
MCRequestPaths ==
    {<<"">>, <<"a">>, <<"b">>, <<"a", "">>, <<"a", "b">>, <<"b", "b">>, <<"a", "b", "">>,
     <<"a", "b", "a">>, <<"a", "b", "b">>,
     <<>>, <<"", "a">>, <<"a", "", "b">>, <<"a", ".">>, <<"a", "..", "a">>,
     <<"a", "b", "..">>, <<".w", "b">>,
     <<"%61">>, <<"", "%61", "b">>, <<"a%2Fb">>, <<"a%2F">>, <<"%61", "b">>, <<"", "a%2Fb">>,
     <<"%2e%2e">>, <<"%2e%2e", "b">>}

Ask(methods, hosts, paths) ==
    [method : methods, host : hosts, path : paths, star : {FALSE}]

MCRequests ==
    Ask({"GET", "HEAD", "POST", "CONNECT"}, {""}, MCRequestPaths) \cup
    Ask({"GET", "POST"}, {"h"}, {<<"a">>, <<"b">>, <<"a", "">>, <<"a", "b">>}) \cup
    Ask({"BREW"}, {""}, {<<"a">>, <<"a", "">>, <<"a", "b">>}) \cup
    {[method |-> "OPTIONS", host |-> "", path |-> <<>>, star |-> TRUE]}

MCNoRequests == {}

-----------------------------------------------------------------------------
\* A table scoped to one host.
MCHostRegs ==
    << R("GET", "h", <<Text("a"), Slash>>), R("POST", "h", <<Text("b")>>),
       R("GET", "", <<Param("x")>>) >>

MCHostRequests == Ask({"GET", "POST"}, {"", "h"}, MCRequestPaths)

MCSlashRegs == << R("GET", "", <<Text("a"), Slash>>), R("POST", "", <<Text("a")>>) >>

MCHeadRegs ==
    << R("GET", "", <<Text("a")>>), R("HEAD", "", <<Param("x")>>), R("GET", "", <<Param("x")>>) >>

\* One wildcard more than the array has room for.
Nine == [i \in 1..9 |-> Param(<<"p1", "p2", "p3", "p4", "p5", "p6", "p7", "p8", "p9">>[i])]

MCNineRegs == << R("GET", "", Nine), R("GET", "", <<Text("a")>>) >>

MCNineRequests == Ask({"GET"}, {""}, {[i \in 1..9 |-> "a"], <<"a">>})

-----------------------------------------------------------------------------
\* What theorems about the router ask of Paths, and of the array of values but for
\* the table that has more than it takes.
ASSUME InstanceAssumption ==
    PathsTellApart /\ (ParamsFit \/ Registrations = MCNineRegs)
=============================================================================

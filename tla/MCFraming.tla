----------------------------- MODULE MCFraming -----------------------------
(* Small instances of Framing for TLC: base 3, a 5-bit maximum (31 = 1011). *)
EXTENDS Framing

Strings(S, n) == UNION {[1..k -> S] : k \in 0..n}

\* One occurrence of any numeral up to a digit past the limit, or two short ones.
MCCLLists ==
    {<<>>} \cup {<<v>> : v \in Strings(0..Base, MaxDigits + 1)}
           \cup {<<v, w>> : v, w \in Strings(0..Base, 1)}

MCTELists ==
    {<<>>} \cup {<<v>> : v \in {"chunked", "gzip"}}
           \cup {<<v, w>> : v, w \in {"chunked", "gzip"}}

\* Sizes on both sides of the maximum, padded or not, and the malformed ones.
MCSizes ==
    Strings(0..Base, 2) \cup {<<0, 0>> \o v : v \in [1..MaxDigits -> 0..Base - 1]}
                        \cup {<<d>> \o v : d \in 1..2, v \in [1..MaxDigits -> 0..1]}
=============================================================================

------------------------------- MODULE MCLogger -------------------------------
(* Logger for TLC: one thread that logs more than its ring of two holds and *)
(* flushes; two threads of which one restarts what was stopped under the    *)
(* other; a process that exits or dies; and one line with every short list  *)
(* of arguments.                                                            *)
EXTENDS Logger

CONSTANTS p1, p2, u, v, x

MCThreads == {p1, p2}

Arg(tag, val) == [tag |-> tag, val |-> val]

\* Inline and on the heap, values and strings before and behind each other.
l1 == << Arg("Int", u), Arg("StringView", <<x, x>>), Arg("Int64", v) >>
l2 == << Arg("Cstring", <<x>>), Arg("Bool", u), Arg("Cstring", <<x, x>>), Arg("StringView", <<>>) >>
l3 == << Arg("Double", v), Arg("Ptr", u) >>

\* All lists of up to two arguments, and some of three: a null string and a
\* fallback before and behind others, and strings beyond the reach of an offset.
MCArgs == {Arg("Int", u), Arg("Int64", v), Arg("Bool", u), Arg("StringView", <<x, x>>),
           Arg("StringView", <<>>), Arg("Cstring", <<x>>), Arg("Cstring", Null),
           Arg("Small", u), Arg("Large", v), Arg("Ptr", u)}
MCLists == UNION {[1..n -> MCArgs] : n \in 0..2}
           \cup {<<a, b, c>> : a \in {Arg("Bool", u), Arg("Cstring", Null), Arg("Small", u)},
                              b \in {Arg("StringView", <<x, x>>), Arg("Large", v)},
                              c \in {Arg("Cstring", <<x>>), Arg("Double", v)}}

MCScripts ==
    { [lines |-> p1 :> <<l1, l2, <<>>>> @@ p2 :> <<>>, flushers |-> {p2}, exits |-> FALSE],
      [lines |-> p1 :> <<l1>> @@ p2 :> <<l3>>, flushers |-> {}, exits |-> FALSE],
      [lines |-> p1 :> <<l3, l1>> @@ p2 :> <<>>, flushers |-> {}, exits |-> TRUE] }
    \cup { [lines |-> p1 :> <<args>> @@ p2 :> <<>>, flushers |-> {}, exits |-> FALSE] :
              args \in MCLists }
=============================================================================

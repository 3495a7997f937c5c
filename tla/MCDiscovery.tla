------------------------------ MODULE MCDiscovery ------------------------------
(* Discovery for TLC: two loops, an application thread and a callback of   *)
(* the first loop.  A script says what each asks for, how many connections *)
(* an address gets, who may still be busy when the pool is shut down, which *)
(* servers are registered, which of them go on running, and how the pool   *)
(* picks one.                                                              *)
EXTENDS Discovery

CONSTANTS p1, p2, l1, l2, s1, s2

MCHome == p1 :> None @@ p2 :> l1
MCGroup == <<l1, l2>>

\* "/S/" for "/services/S/", addresses that leave one and no byte over in base64,
\* and keys just outside the range of the prefix.
MCPrefix == <<47, 83, 47>>
MCAddrBytes == s1 :> <<49>> @@ s2 :> <<50, 58, 255>>
MCOtherKeys == { <<47, 83>>, <<47, 83, 48>>, <<47, 84, 47, 49>> }

Script(c1, c2, conns, during, known, servers, lb) ==
    [calls |-> p1 :> c1 @@ p2 :> c2, conns_per_addr |-> conns, during |-> during,
     known |-> known, servers |-> servers, lb |-> lb]

MCScripts ==
    { Script(<<s1, s1>>, <<s1>>, 1, {p2}, <<>>, {}, "RoundRobin"),
      Script(<<s1>>, <<s1>>, 1, {p1, p2}, <<>>, {}, "RoundRobin"),
      Script(<<s1, s1, s1>>, <<>>, 2, {}, <<>>, {}, "RoundRobin"),
      Script(<<Service, Service>>, <<>>, 1, {}, <<s1, s2>>, {}, "RoundRobin"),
      Script(<<Service>>, <<>>, 1, {}, <<>>, {s1}, "Random"),
      Script(<<>>, <<>>, 1, {}, <<s2>>, {s1, s2}, "Random") }
=============================================================================

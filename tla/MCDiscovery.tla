----------------------------- MODULE MCDiscovery -----------------------------
(***************************************************************************)
(* Nets for Discovery: a long way round, o - p - q - t, with a short cut   *)
(* o - q, so that a better copy of the query replaces a worse one; and a   *)
(* way o - q - t with a station p that only echoes the flood back to q,    *)
(* where breadcrumbs are lost and the operators switch discovery off.  For *)
(* LiveRoutes: a line of three stations, a triangle, and a way with a      *)
(* bypass behind its first hop.  One run checks all of them: a behaviour is *)
(* one of the net chosen at the start.                                     *)
(***************************************************************************)
EXTENDS Routing

VARIABLE net

Both(edges) == edges \cup {<<e[2], e[1]>> : e \in edges}

Nodes == {"o", "p", "q", "t"}
ShortCut == Both({<<"o", "p">>, <<"o", "q">>, <<"p", "q">>, <<"q", "t">>})
Alphabet == [s \in Nodes |-> CASE s = "o" -> 0 [] s = "p" -> 1 [] s = "q" -> 2 [] s = "t" -> 3]
Middle == {"p", "q"}

\* The echo p loses its breadcrumb or is reopened; o, p and q switch off and on.
Echo == INSTANCE Discovery WITH
    Link <- Both({<<"o", "q">>, <<"q", "p">>, <<"q", "t">>}),
    Forgetful <- {"p"}, Fickle <- {"o", "p", "q"}

\* Routes of both kinds over one hop, adverts over two hops, and two ways by adverts.
Line == [ways |-> {<<"o", "p", "t">>}, repliers |-> {"p"}]
Triangle == [ways |-> {<<"o", "p", "t">>, <<"o", "t">>}, repliers |-> {}]
Bypass == [ways |-> {<<"o", "p", "t">>, <<"o", "p", "q", "t">>}, repliers |-> {}]
Layouts == {Line, Triangle, Bypass}

ASSUME Live!LiveAssumption

live == <<link, known, asked, setup, layout>>

InitNet ==
    /\ Init /\ Live!Init /\ net \in {"short cut", "echo", "live"}
    /\ net # "live" => layout = Line /\ ~setup.auto

NextNet ==
    /\ UNCHANGED net
    /\ \/ net = "short cut" /\ Next /\ UNCHANGED live
       \/ net = "echo" /\ Echo!Next /\ UNCHANGED live
       \/ net = "live" /\ Live!Next /\ UNCHANGED vars

\* The stations of the second net go on ticking and pumping.
NetSpec ==
    /\ InitNet /\ [][NextNet]_<<vars, live, net>>
    /\ WF_vars(net = "echo" /\ Echo!Deadline)
    /\ \A s \in Nodes : /\ WF_vars(net = "echo" /\ Echo!Receive(s))
                        /\ WF_vars(net = "echo" /\ Echo!Transmit(s))

\* discovery.py, tick: the flood dies out although it echoes and crumbs are lost.
EchoesEnd == net = "echo" => FloodEnds
\* discovery.py, _expand: so does the query, whoever is switched off meanwhile.
QueriesEnd == net = "echo" => QueryEnds
=============================================================================

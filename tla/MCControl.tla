----------------------------- MODULE MCControl -----------------------------
(* Compiled control flow graphs over a family of small graphs: two nodes   *)
(* with every combination of tag and edges, under chains of different      *)
(* depth (so that both ways of copying the call stack are used), and some  *)
(* graphs modelled on tests/control.t.                                     *)
EXTENDS Control, TLC

Leaf == {"a", "guard", "goto", "skip", "stop"}
Inner == {"n1", "n2", "w1", "w2", "w3", "w4", "w5", "w6"}
MCNode == Leaf \cup Inner \cup {"file"}

LeafTag(n) == CASE n = "skip" -> "nothing" [] n = "stop" -> "exit"
                [] n = "file" -> "input" [] OTHER -> "primitive"

(* w1 .. w5 wrap the graph under w6 in chains.                             *)
Wrapped(n) == CASE n = "w1" -> <<"w2", "a">> [] n = "w2" -> <<"w3", "skip", "a">>
                [] n = "w3" -> <<"w4", "a">> [] n = "w4" -> <<"w5", "stop">>
                [] n = "w5" -> <<"w6", "a">> [] OTHER -> <<>>

(* "a" returns nil, "guard" false in every third state, "goto" jumps.      *)
MCReturns(p, n, o) ==
    CASE n = "guard" /\ o = 2 -> False [] n = "goto" -> FnOf("n2") [] OTHER -> Nil

MCTagOf(p, n) == CASE n = "n1" -> p.tag1 [] n = "n2" -> p.tag2
                   [] n \in Inner -> "all" [] OTHER -> LeafTag(n)
MCEdgesOf(p, n) == CASE n = "n1" -> p.edges1 [] n = "n2" -> p.edges2
                     [] n = "w6" -> p.outer [] OTHER -> Wrapped(n)
MCRoot(p) == p.root

SeqsOver(S) == UNION {[1 .. k -> S] : k \in 0 .. 2}

MCPrograms ==
    [root : {"w2", "w6"}, outer : {<<"n1">>}, tag1 : {"all", "any"}, tag2 : {"all", "any"},
     edges1 : [1 .. 2 -> {"n2", "a", "goto", "skip", "file"}],
     edges2 : SeqsOver({"a", "guard", "skip"})]
    \cup
    [root : {"w1", "w3", "w4", "w6"}, tag1 : {"any"}, tag2 : {"any"},
     outer : {<<"n1", "n1", "a">>, <<"n1", "n1", "file">>, <<"file", "n1", "skip">>,
              <<"file", "file">>},
     edges1 : {<<"a", "stop", "n2">>, <<"skip", "n2", "a">>, <<"skip", "skip">>, <<>>},
     edges2 : {<<"a", "guard", "skip">>}]
    \cup
    [root : {"n1"}, outer : {<<>>}, tag1 : {"all"}, edges1 : {<<"guard", "n1">>},
     tag2 : {"any"}, edges2 : {<<>>}]

-----------------------------------------------------------------------------
(* The reference: the states in which the paths through list k of nodes    *)
(* end, in order, when started in state s.                                 *)
RECURSIVE Outcomes(_, _, _), OutcomesOfAll(_, _)
Outcomes(p, k, s) ==
    IF k = <<>> THEN <<s>>
    ELSE LET n == Head(k)
             r == Result(p, n, s)
             Choice == CASE TagOf(p, n) = "any" ->
                                [i \in 1 .. Len(EdgesOf(p, n)) |->
                                    <<<<EdgesOf(p, n)[i]>> \o Tail(k), s>>]
                         [] OTHER -> [i \in 1 .. NItems |->
                                    <<Tail(k), Append(s, <<n, i>>)>>]
         IN CASE TagOf(p, n) = "nothing" -> Outcomes(p, Tail(k), s)
              [] TagOf(p, n) = "exit" -> <<s>>
              [] TagOf(p, n) = "all" -> Outcomes(p, EdgesOf(p, n) \o Tail(k), s)
              [] TagOf(p, n) = "any" /\ EdgesOf(p, n) = <<>> -> <<s>>
              [] TagOf(p, n) = "primitive" ->
                    LET t == Append(s, <<n, 0>>) IN
                    CASE r = False -> <<t>>
                      [] r = Nil -> Outcomes(p, Tail(k), t)
                      [] OTHER -> Outcomes(p, <<r[1]>> \o Tail(k), t)
              [] OTHER -> OutcomesOfAll(p, Choice)
OutcomesOfAll(p, starts) ==
    IF starts = <<>> THEN <<>>
    ELSE Outcomes(p, starts[1][1], starts[1][2]) \o OutcomesOfAll(p, Tail(starts))

(* The compiled code visits the leaves of the tree of choices in order,    *)
(* each once, each in the state its own path leads to; if no limit is hit  *)
(* it visits all of them.                                                  *)
LeavesAreOutcomes ==
    LET expected == Outcomes(prog, <<Root(prog)>>, <<>>) IN
    /\ leaves = SubSeq(expected, 1, Len(leaves))
    /\ pc = Done /\ err = "OK" => Len(leaves) = Len(expected)
=============================================================================

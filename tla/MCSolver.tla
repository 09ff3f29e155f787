------------------------------ MODULE MCSolver ------------------------------
(***************************************************************************)
(* Small graphs for Solver.  r is the main root; p1 and p2 are instances   *)
(* of one variable; v and u are variables that shadows guard.              *)
(***************************************************************************)
EXTENDS Solver

MCGiven == {"g1", "g2"}
MCVarOf == [y \in MCGiven |-> "g"]

Ident(x) == <<[over |-> <<x>>, map |-> "ident"]>>
User(s) == <<[over |-> s, map |-> "user"]>>

(* A model with fixed cost k, factor c, parameter edges and returns.       *)
Model(k, c, params, returns) ==
    [k |-> k, c |-> c, cmin |-> k, params |-> params, given |-> <<>>, shadows |-> <<>>,
     returns |-> returns]
WithShadows(m, shadows) == [m EXCEPT !.shadows = shadows]
WithGiven(m, given) == [m EXCEPT !.given = given]
Shade(penalty, over) == [penalty |-> penalty, over |-> over]
Guard(x, ok, next) == [x |-> x, ok |-> ok, next |-> next]
NoShadow == [w \in {} |-> Guard(None, FALSE, None)]

(* Two models for r, one with a two-instance parameter and a factor, and   *)
(* alternatives for p: branch and bound goes back and forth between them.  *)
(* P returns both instances; P1 and P2 return one, and need q.  R2 starts  *)
(* with its fixed cost or with the bound that pruning finds.               *)
Bounds(k1, k2, kP, c, tight) ==
    [models |-> [r |-> <<<<"R1">>, <<"R2">>>>, p1 |-> <<<<"P">>, <<"P1">>>>,
                 p2 |-> <<<<"P">>, <<"P2">>>>, q |-> <<<<"Q">>>>],
     mod |-> [R1 |-> Model(k1, c, <<<<"p1", "p2">>, <<"q">>>>, Ident("r")),
              R2 |-> [Model(k2, 1, <<<<"p1">>>>, Ident("r")) EXCEPT !.cmin = @ + tight],
              P |-> Model(kP, 1, <<>>, <<[over |-> <<"p1", "p2">>, map |-> "space"]>>),
              P1 |-> Model(0, 1, <<<<"q">>>>, Ident("p1")),
              P2 |-> Model(0, 2, <<<<"q">>>>, Ident("p2")),
              Q |-> Model(1, 1, <<>>, Ident("q"))],
     given |-> {}, shadow |-> NoShadow,
     roots |-> {<<"r">>, <<"p1", "p2">>}]

(* A shadow over two instances of a computed variable, the second of which *)
(* may have no model, and one over given values.  V has a given parameter  *)
(* and returns both instances from its buffer.                             *)
Shadowed(pen, kR2, ok1, ok2, computable, okg) ==
    [models |-> [r |-> <<<<"R1">>, <<"R2">>>>, v1 |-> <<<<"V">>>>,
                 v2 |-> IF computable THEN <<<<"V">>>> ELSE <<<<>>>>],
     mod |-> [R1 |-> WithShadows(Model(0, 1, <<<<>>, <<"v1">>>>, Ident("r")),
                                 <<Shade(pen, <<"w1", "w2">>), Shade(1, <<"wg1", "wg2">>)>>),
              R2 |-> WithShadows(Model(kR2, 1, <<>>, Ident("r")),
                                 <<Shade(1, <<"w1">>), Shade(1, <<>>)>>),
              V |-> WithGiven(Model(1, 1, <<>>, User(<<"v1", "v2">>)), <<"g2">>)],
     given |-> {"g1", "g2"},
     shadow |-> [w1 |-> Guard("v1", ok1, "w2"), w2 |-> Guard("v2", ok2, None),
                 wg1 |-> Guard("g1", okg, "wg2"), wg2 |-> Guard("g2", TRUE, None)],
     roots |-> {<<"r">>, <<"v1">>, <<"g1">>}]

(* Variables that depend on each other, with or without a way out, and a   *)
(* chain of dependencies that is too deep or has too many candidates.      *)
Cyclic(kA, kA2, checks) ==
    [models |-> [a |-> <<<<"A">>, <<"A2">>>>, b |-> <<<<"B">>>>],
     mod |-> [A |-> Model(kA, 1, <<<<"b">>>>, Ident("a")),
              A2 |-> WithShadows(Model(kA2, 1, <<>>, Ident("a")),
                                 [i \in DOMAIN checks |-> Shade(checks[i], <<"w">>)]),
              B |-> Model(0, 1, <<<<"a">>>>, Ident("b"))],
     given |-> {}, shadow |-> [w |-> Guard("b", TRUE, None)],
     roots |-> {<<"a">>, <<"b">>}]
NoChain ==
    [models |-> [r |-> <<<<"R">>>>, p |-> <<<<"P">>, <<>>>>, q |-> <<<<>>>>],
     mod |-> [R |-> Model(0, 1, <<<<"p">>>>, Ident("r")), P |-> Model(1, 1, <<<<"q">>>>, Ident("p"))],
     given |-> {}, shadow |-> NoShadow,
     roots |-> {<<"r">>, <<"p">>}]
Deep ==
    [models |-> [a |-> <<<<"A">>>>, b |-> <<<<"B">>>>, c |-> <<<<"C">>>>, d |-> <<<<"D">>>>],
     mod |-> [A |-> Model(0, 1, <<<<"b">>>>, Ident("a")), B |-> Model(0, 1, <<<<"c">>>>, Ident("b")),
              C |-> Model(0, 1, <<<<"d">>>>, Ident("c")), D |-> Model(0, 1, <<>>, Ident("d"))],
     given |-> {}, shadow |-> NoShadow,
     roots |-> {<<"a">>, <<"b">>}]

Wide ==
    [models |-> [a |-> <<<<"A">>>>, b |-> <<<<"B">>, <<>>, <<>>, <<>>, <<>>>>],
     mod |-> [A |-> Model(0, 1, <<<<"b">>>>, Ident("a")), B |-> Model(0, 1, <<>>, Ident("b"))],
     given |-> {}, shadow |-> NoShadow,
     roots |-> {<<"a">>, <<"b">>}]

(* A check of a that has no penalty of its own, so an infinite one, and    *)
(* where x checks a; x has another model unless it is alone.               *)
Unfit(penX, okX, okA, alone) ==
    [models |-> [x |-> IF alone THEN <<<<"X1">>>> ELSE <<<<"X1">>, <<"X2">>>>, a |-> <<<<"A">>>>],
     mod |-> [X1 |-> WithShadows(Model(1, 1, <<>>, Ident("x")), <<Shade(penX, <<"wa">>)>>),
              X2 |-> Model(3, 1, <<>>, Ident("x")),
              A |-> WithShadows(Model(0, 2, <<>>, Ident("a")), <<Shade(Inf, <<"wg">>)>>)],
     given |-> {"g1"},
     shadow |-> [wa |-> Guard("a", okX, None), wg |-> Guard("g1", okA, None)],
     roots |-> {<<"x">>, <<"a">>}]

MCGraphs ==
    {Bounds(k1, k2, kP, c, tight) :
        k1 \in {0, 2}, k2 \in {0, 3}, kP \in {1, 3}, c \in {1, 2}, tight \in {0, 1}}
    \cup {Shadowed(pen, kR2, ok1, ok2, computable, okg) :
        pen \in {1, 3, Inf}, kR2 \in {1, 3}, ok1 \in BOOLEAN, ok2 \in BOOLEAN, computable \in BOOLEAN,
        okg \in BOOLEAN}
    \cup {Cyclic(kA, 1, checks) : kA \in {0, 2}, checks \in {<<>>, <<1>>, <<Inf>>}}
    \cup {Unfit(penX, okX, okA, alone) :
        penX \in {1, 4, Inf}, okX \in BOOLEAN, okA \in BOOLEAN, alone \in BOOLEAN}
    \cup {NoChain, Deep, Wide}

(* A variable without a chain is both guarded by a shadow and a root.      *)
ShadowThenRoot ==
    {[models |-> [r |-> <<<<"R">>>>, v |-> <<<<>>>>],
      mod |-> [R |-> WithShadows(Model(0, 1, <<>>, Ident("r")), <<Shade(1, <<"w">>)>>)],
      given |-> {}, shadow |-> [w |-> Guard("v", TRUE, None)],
      roots |-> {<<"r">>, <<"v">>}]}

(* The only model for x has two instances, each returning all of x.        *)
TwoInstances ==
    {[models |-> [x1 |-> <<<<"M1", "M2">>>>, x2 |-> <<<<"M1", "M2">>>>,
                  p1 |-> <<<<"P1">>>>, p2 |-> <<<<"P2">>>>],
      mod |-> LET space == <<[over |-> <<"x1", "x2">>, map |-> "space"]>> IN
              [M1 |-> Model(0, 1, <<<<"p1">>>>, space), M2 |-> Model(0, 1, <<<<"p2">>>>, space),
               P1 |-> Model(2, 1, <<>>, Ident("p1")), P2 |-> Model(2, 1, <<>>, Ident("p2"))],
      given |-> {}, shadow |-> NoShadow,
      roots |-> {<<"x1", "x2">>}]}
=============================================================================

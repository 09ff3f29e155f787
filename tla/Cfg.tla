-------------------------------- MODULE Cfg --------------------------------
(***************************************************************************)
(* Control flow graphs (control/cfg.lua) and the functions they compile to *)
(* (control/emit.lua).                                                     *)
(*                                                                         *)
(* A compiled function is a pair.  <<n, 1>> is the function emitted for    *)
(* node n; for an "all" node, <<n, i>> is the chain from its i-th non-     *)
(* trivial edge on.  Where the compiler returns the function of another    *)
(* node unchanged (a trailing edge of "all", a one-edge "any", a recursion *)
(* trampoline) the pair jumps there.  Pairs <<_, 0>> are not compiled.     *)
(***************************************************************************)
EXTENDS Integers, Sequences

CONSTANTS
    Node,           \* nodes of the control flow graphs
    Programs,       \* the graphs considered
    TagOf(_, _),    \* TagOf(p, n): node.tag of node n in graph p
    EdgesOf(_, _),  \* EdgesOf(p, n): node.edges
    Root(_),        \* the node that is compiled and executed
    Returns(_, _, _), \* Returns(p, n, o): what primitive n returns on seeing o
    Period,         \* how much of the state primitives tell apart
    NItems          \* file:num(), the entries of an input file

Tags == {"nothing", "exit", "primitive", "all", "any", "input"}

ASSUME NumbersAssumption == NItems \in Nat /\ Period \in Nat \ {0}

Nil == <<"nil", 0>>                \* nil, or an unset stack slot
False == <<"false", 0>>            \* false, as returned by a primitive
Exit == <<"exit", 0>>              \* run.exit
Underflow == <<"underflow", 0>>    \* run.underflow

FnOf(n) == <<n, 1>>
Compiled == Node \X (Nat \ {0})
Fn == Compiled \cup {Nil, Exit, Underflow}

(* The state of the simulation, as far as control is concerned: which      *)
(* primitives ran, and which input was read, on the way here.              *)
State == Seq(Node \X Nat)
Ran(n, s) == Append(s, <<n, 0>>)
ReadItem(n, i, s) == Append(s, <<n, i>>)

(* A primitive returns nil, false or a function to jump to, depending on   *)
(* what it sees of the state.                                              *)
ASSUME ProgramsAssumption ==
    \A p \in Programs :
       /\ Root(p) \in Node
       /\ \A n \in Node :
             /\ TagOf(p, n) \in Tags
             /\ EdgesOf(p, n) \in Seq(Node)
             /\ \A o \in 0 .. Period - 1 : Returns(p, n, o) \in {Nil, False} \cup Compiled
Result(p, n, s) == Returns(p, n, Len(s) % Period)

(* emit_all drops the edges that do nothing: what it has kept after i.     *)
Kept(p, n) ==
    LET edges == EdgesOf(p, n)
        kept[i \in 0 .. Len(edges)] ==
           IF i = 0 THEN <<>>
           ELSE IF TagOf(p, edges[i]) = "nothing" THEN kept[i - 1]
           ELSE Append(kept[i - 1], edges[i])
    IN kept
Chain(p, n) == Kept(p, n)[Len(EdgesOf(p, n))]

(* The kinds of functions the compiler emits.                              *)
Tag(p, f) == IF f \in Compiled THEN TagOf(p, f[1]) ELSE "builtin"
IsAll(p, f) == Tag(p, f) = "all"

DoesNothing(p, f) ==
    Tag(p, f) = "nothing" \/ (IsAll(p, f) /\ Chain(p, f[1]) = <<>>)

DoesExit(p, f) ==
    \/ f = Exit \/ Tag(p, f) = "exit"
    \/ Tag(p, f) = "any" /\ EdgesOf(p, f[1]) = <<>>

Forwards(p, f) ==
    \/ Tag(p, f) = "any" /\ Len(EdgesOf(p, f[1])) = 1
    \/ IsAll(p, f) /\ Chain(p, f[1]) # <<>> /\ f[2] = Len(Chain(p, f[1]))
Target(p, f) ==
    IF Tag(p, f) = "any" THEN FnOf(EdgesOf(p, f[1])[1]) ELSE FnOf(Chain(p, f[1])[f[2]])

(* emit_chain: an edge followed by more of the chain.                      *)
Chained(p, f) == IsAll(p, f) /\ f[2] < Len(Chain(p, f[1]))
Rest(f) == <<f[1], f[2] + 1>>
Calls(p, f) == Chained(p, f) /\ TagOf(p, Chain(p, f[1])[f[2]]) # "primitive"

(* emit_primitive and emit_chain_primitive.                                *)
RunsPrimitive(p, f) ==
    \/ Tag(p, f) = "primitive"
    \/ Chained(p, f) /\ TagOf(p, Chain(p, f[1])[f[2]]) = "primitive"
PrimitiveOf(p, f) ==
    IF Tag(p, f) = "primitive" THEN f[1] ELSE Chain(p, f[1])[f[2]]

(* emit_any with a real choice.                                            *)
Branches(p, f) == Tag(p, f) = "any" /\ Len(EdgesOf(p, f[1])) > 1
=============================================================================

------------------------------ MODULE Control ------------------------------
(***************************************************************************)
(* Execution of compiled control flow graphs: the functions of             *)
(* control/emit.lua and the input loop of simulate.lua, calling each other *)
(* through one mutable call stack (control/run.lua) and branching the      *)
(* simulation through the interface of sim.c.                              *)
(*                                                                         *)
(* Every compiled function receives (stack, bottom, top).  Jumps are tail  *)
(* calls; only a branching function calls an alternative and gets control  *)
(* back, so the Lua stack holds one activation for each choice that still  *)
(* has alternatives.  The simulator is seen at the level of Branching,     *)
(* which Sim implements.                                                   *)
(*                                                                         *)
(* The definitions CopyAlwaysShort, EnterBranchInPlace, AnyBranchShared,   *)
(* InputReadSlot, InputLoadNothing and InputEndSpins are deliberately      *)
(* wrong variants of the definition that follows them; no action uses      *)
(* them, they show which mistakes the properties detect.                   *)
(***************************************************************************)
EXTENDS Cfg

CONSTANTS
    NFrame,     \* nframe of sim_create
    StackCap,   \* bound on the call stack, a Lua table in the code
    NoSnap      \* "this frame has no snapshot"

ASSUME NFrameAssumption == NFrame \in Nat \ {0}
ASSUME StackCapAssumption == StackCap \in Nat /\ StackCap >= 4
ASSUME NoSnapAssumption == NoSnap \notin State

VARIABLES
    prog,       \* the compiled graph
    stack,      \* the call stack, shared by all branches
    bottom,     \* argument bottom of the running function
    top,        \* argument top of the running function
    pc,         \* the function being entered, Return or Done
    native,     \* activations of branching functions on the Lua stack
    current,    \* the simulation state: contents of the vstack
    depth,      \* sim->fp
    snap,       \* the savepoints of the frames
    branches,   \* has_branchpoint of the frames
    leaves,     \* states in which an execution path ended
    err         \* the error that stopped the execution, if any

stackvars == <<stack, bottom, top>>
simvars == <<current, depth, snap, branches>>
vars == <<prog, stack, bottom, top, pc, native, current, depth, snap, branches,
          leaves, err>>

Sim == INSTANCE Branching WITH State <- State

Return == <<"return", 0>>    \* control is back in the last activation
Done == <<"done", 0>>        \* control.exec returned or raised

Slots == 0 .. StackCap

(* run.exec with run.newstack: three underflow guards below the exit.      *)
Init ==
    /\ prog \in Programs
    /\ stack = [i \in Slots |-> IF i = 4 THEN Exit
                                ELSE IF i \in 1 .. 3 THEN Underflow ELSE Nil]
    /\ bottom = 4
    /\ top = 4
    /\ pc = FnOf(Root(prog))
    /\ native = <<>>
    /\ current = <<>>
    /\ depth = 0
    /\ snap = [k \in Sim!Frames |-> NoSnap]
    /\ branches = [k \in Sim!Frames |-> FALSE]
    /\ leaves = <<>>
    /\ err = "OK"

-----------------------------------------------------------------------------
(* The call stack.                                                         *)

(* return f(stack, bottom, top), after writing nothing.                    *)
TailCall(f) == pc' = f /\ UNCHANGED stackvars

(* return stack[top](stack, bottom, top-1)                                 *)
ReturnToTop == pc' = stack[top] /\ top' = top - 1 /\ UNCHANGED <<stack, bottom>>

(* stack[top+1] = g; return f(stack, bottom, top+1)                        *)
CallThen(f, g) ==
    /\ top < StackCap
    /\ stack' = [stack EXCEPT ![top + 1] = g]
    /\ top' = top + 1
    /\ pc' = f
    /\ UNCHANGED bottom

(* copystack: the active part [b .. t] moves above t.  A short one is      *)
(* copied by the unrolled code, together with slots below b.               *)
CopyShort(b, t) ==
    [stack |-> [i \in Slots |-> IF i \in t + 1 .. t + 4 THEN stack[i - 4] ELSE stack[i]],
     bottom |-> b + 4, top |-> t + 4]
CopyLong(b, t) ==
    LET j == t + 1 + (t - b) IN
    [stack |-> [i \in Slots |-> IF i \in t + 1 .. j THEN stack[i - (t + 1) + b] ELSE stack[i]],
     bottom |-> t + 1, top |-> j]
CopyAlwaysShort(b, t) == CopyShort(b, t)
Copystack(b, t) == IF t - b < 4 THEN CopyShort(b, t) ELSE CopyLong(b, t)

CallWithCopy(f, b, t) ==
    LET c == Copystack(b, t) IN
    /\ c.top <= StackCap
    /\ stack' = c.stack /\ bottom' = c.bottom /\ top' = c.top
    /\ pc' = f

(* A Lua error leaves control.exec.                                        *)
Raise(code) ==
    /\ err' = code
    /\ pc' = Done
    /\ native' = <<>>
    /\ UNCHANGED <<prog, stackvars, current, depth, snap, leaves>>

-----------------------------------------------------------------------------
(* Compiled functions without choices.                                     *)

Nothing ==
    /\ DoesNothing(prog, pc)
    /\ ReturnToTop
    /\ UNCHANGED <<prog, native, simvars, leaves, err>>

Forward ==
    /\ Forwards(prog, pc)
    /\ TailCall(Target(prog, pc))
    /\ UNCHANGED <<prog, native, simvars, leaves, err>>

ChainCall ==
    /\ Calls(prog, pc)
    /\ CallThen(FnOf(Chain(prog, pc[1])[pc[2]]), Rest(pc))
    /\ UNCHANGED <<prog, native, simvars, leaves, err>>

(* run.exit: the path ends, control returns to the last choice.            *)
ExitPath ==
    /\ DoesExit(prog, pc)
    /\ pc' = Return
    /\ leaves' = Append(leaves, current)
    /\ UNCHANGED <<prog, stackvars, native, simvars, err>>

(* A primitive, alone or followed by the rest of a chain.  It may change   *)
(* the simulation state; false ends the path, a function is jumped to.     *)
Primitive ==
    /\ RunsPrimitive(prog, pc)
    /\ LET n == PrimitiveOf(prog, pc)
           r == Result(prog, n, current)
           chained == Chained(prog, pc)
       IN /\ current' = Ran(n, current)
          /\ \/ r = False /\ pc' = Return /\ UNCHANGED stackvars
             \/ r = Nil /\ ~chained /\ ReturnToTop
             \/ r = Nil /\ chained /\ TailCall(Rest(pc))
             \/ r \notin {Nil, False} /\ ~chained /\ TailCall(r)
             \/ r \notin {Nil, False} /\ chained /\ CallThen(r, Rest(pc))
          /\ leaves' = IF r = False THEN Append(leaves, current') ELSE leaves
    /\ UNCHANGED <<prog, native, depth, snap, branches, err>>

-----------------------------------------------------------------------------
(* Choices.                                                                *)

(* What sim_savepoint and sim_branch return in the current frame, short of *)
(* an allocation failure.                                                  *)
SaveCode == IF snap[depth] # NoSnap THEN "ESAVE" ELSE "OK"
BranchCode == IF branches[depth] THEN "EBRANCH" ELSE SaveCode
LimitOr(code) == IF code = "OK" THEN "EALLOC" ELSE code

(* The function emitted for "any" starts with sim:branch() and keeps the   *)
(* frame and its own stack arguments for the alternatives.                 *)
AnyStart ==
    /\ Branches(prog, pc)
    /\ BranchCode = "OK"
    /\ Sim!MarkBranch /\ snap'[depth] # NoSnap
    /\ native' = Append(native, [node |-> pc[1], next |-> 1, phase |-> "enter", fp |-> depth,
                                 bottom |-> bottom, top |-> top, continue |-> Nil])
    /\ pc' = Return
    /\ UNCHANGED <<prog, stackvars, leaves, err>>

(* sim:branch() fails; the frame has been marked all the same.             *)
AnyFails ==
    /\ Branches(prog, pc)
    /\ branches' = [branches EXCEPT ![depth] = TRUE]
    /\ Raise(LimitOr(BranchCode))

Activation == native[Len(native)]
Resumes(tag) == pc = Return /\ native # <<>> /\ TagOf(prog, Activation.node) = tag
PopNative == SubSeq(native, 1, Len(native) - 1)

(* What sim_enter_branch returns for frame k.                              *)
EnterBranchCode(k) ==
    IF k > depth THEN "EFRAME"
    ELSE IF k < depth /\ snap[k] = NoSnap THEN "ESAVE"
    ELSE IF ~branches[k] THEN "EBRANCH"
    ELSE IF k + 1 >= NFrame THEN "EFRAME" ELSE "OK"
EnterBranchInPlace(k) == IF k = depth THEN UNCHANGED simvars ELSE Sim!Load(k)
EnterBranch(k) == IF k = depth THEN Sim!Descend ELSE Sim!StartBranch(k)

(* One alternative: all but the last run on a copy of the call stack and   *)
(* come back; the last is a tail call on the original.  An alternative     *)
(* that does nothing is inlined by the compiler, with the same effect.     *)
AnyBranchShared ==
    /\ Resumes("any")
    /\ EnterBranchCode(Activation.fp) = "OK"
    /\ EnterBranch(Activation.fp)
    /\ LET a == Activation
           edges == EdgesOf(prog, a.node)
           f == FnOf(edges[a.next])
       IN /\ native' = IF a.next < Len(edges)
                       THEN [native EXCEPT ![Len(native)].next = @ + 1] ELSE PopNative
          /\ pc' = f
          /\ bottom' = a.bottom /\ top' = a.top /\ UNCHANGED stack
    /\ UNCHANGED <<prog, leaves, err>>
AnyBranch ==
    /\ Resumes("any")
    /\ EnterBranchCode(Activation.fp) = "OK"
    /\ EnterBranch(Activation.fp)
    /\ LET a == Activation
           edges == EdgesOf(prog, a.node)
           f == FnOf(edges[a.next])
       IN \/ /\ a.next < Len(edges)
             /\ native' = [native EXCEPT ![Len(native)].next = @ + 1]
             /\ CallWithCopy(f, a.bottom, a.top)
          \/ /\ a.next = Len(edges)
             /\ native' = PopNative
             /\ pc' = f
             /\ bottom' = a.bottom /\ top' = a.top /\ UNCHANGED stack
    /\ UNCHANGED <<prog, leaves, err>>

AnyBranchFails ==
    /\ Resumes("any")
    /\ EnterBranchCode(Activation.fp) # "OK"
    /\ UNCHANGED branches
    /\ Raise(EnterBranchCode(Activation.fp))

-----------------------------------------------------------------------------
(* The input loop of simulate.lua: take the next jump off the stack, then, *)
(* for every entry of the file, enter a frame, let io read the entry into  *)
(* the state, jump on a copy of the stack, and load the savepoint again.   *)

InputStart ==
    /\ Tag(prog, pc) = "input"
    /\ SaveCode = "OK"
    /\ Sim!Save
    /\ native' = Append(native, [node |-> pc[1], next |-> 1, phase |-> "enter", fp |-> depth,
                                 bottom |-> bottom, top |-> top - 1, continue |-> stack[top]])
    /\ pc' = Return
    /\ UNCHANGED <<prog, stackvars, leaves, err>>

InputFails ==
    /\ Tag(prog, pc) = "input"
    /\ UNCHANGED branches
    /\ Raise(LimitOr(SaveCode))

InLoop(phase) == Resumes("input") /\ Activation.phase = phase
Iteration(next, phase) ==
    native' = [native EXCEPT ![Len(native)] = [@ EXCEPT !.next = next, !.phase = phase]]

InputEnter ==
    /\ InLoop("enter")
    /\ Activation.next <= NItems
    /\ Sim!Descend
    /\ Iteration(Activation.next, "read")
    /\ UNCHANGED <<prog, stackvars, pc, leaves, err>>

(* io(file:read(i)), then continue(copystack(stack, bottom, top)).  The    *)
(* copy overwrites the slot that continue was taken from.                  *)
InputReadSlot ==
    /\ InLoop("read")
    /\ current' = ReadItem(Activation.node, Activation.next, current)
    /\ CallWithCopy(stack[Activation.top + 1], Activation.bottom, Activation.top)
    /\ Iteration(Activation.next + 1, "load")
    /\ UNCHANGED <<prog, depth, snap, branches, leaves, err>>
InputRead ==
    /\ InLoop("read")
    /\ current' = ReadItem(Activation.node, Activation.next, current)
    /\ CallWithCopy(Activation.continue, Activation.bottom, Activation.top)
    /\ Iteration(Activation.next + 1, "load")
    /\ UNCHANGED <<prog, depth, snap, branches, leaves, err>>

InputLoadNothing ==
    /\ InLoop("load")
    /\ Sim!Drop(Activation.fp)
    /\ Iteration(Activation.next, "enter")
    /\ UNCHANGED <<prog, stackvars, pc, leaves, err>>
InputLoad ==
    /\ InLoop("load")
    /\ Sim!Load(Activation.fp)
    /\ Iteration(Activation.next, "enter")
    /\ UNCHANGED <<prog, stackvars, pc, leaves, err>>

InputEnterFails ==
    /\ InLoop("enter")
    /\ Activation.next <= NItems
    /\ depth + 1 >= NFrame
    /\ UNCHANGED branches
    /\ Raise("EFRAME")

InputEndSpins ==
    /\ InLoop("enter")
    /\ Activation.next > NItems
    /\ UNCHANGED vars
InputEnd ==
    /\ InLoop("enter")
    /\ Activation.next > NItems
    /\ native' = PopNative
    /\ UNCHANGED <<prog, stackvars, pc, simvars, leaves, err>>

-----------------------------------------------------------------------------
(* control.exec returns.                                                   *)
ExecReturns ==
    /\ pc = Return /\ native = <<>>
    /\ pc' = Done
    /\ UNCHANGED <<prog, stackvars, native, simvars, leaves, err>>

Stopped == pc = Done /\ UNCHANGED vars

Next ==
    \/ Nothing \/ Forward \/ ChainCall \/ ExitPath \/ Primitive
    \/ AnyStart \/ AnyFails \/ AnyBranch \/ AnyBranchFails
    \/ InputStart \/ InputFails \/ InputEnter \/ InputRead \/ InputLoad
    \/ InputEnterFails \/ InputEnd
    \/ ExecReturns \/ Stopped

Spec == Init /\ [][Next]_vars

(* One Lua thread runs the compiled code, so it keeps taking steps.        *)
FairSpec == Spec /\ WF_vars(Next)

-----------------------------------------------------------------------------
Running == pc \notin {Return, Done}

(* The protocol of emit.lua: whatever runs, runs above the part of the     *)
(* call stack that a suspended choice will use again, and above the guards *)
(* of newstack.                                                            *)
ActiveStacksDisjoint ==
    LET Above(j) == IF j = Len(native) THEN bottom ELSE native[j + 1].bottom IN
    /\ bottom >= 4 /\ (Running => bottom <= top + 1)
    /\ \A j \in 1 .. Len(native) :
          /\ native[j].bottom >= 4 /\ native[j].bottom <= native[j].top + 1
          /\ (j < Len(native) \/ Running) => native[j].top < Above(j)

(* No jump ever goes through an unset slot or through the guards below the *)
(* initial stack.                                                          *)
NeverUnderflow == pc \notin {Nil, Underflow}

(* The branch protocol is never broken: compiled code does not save twice  *)
(* in a frame, re-enters only branch points with a savepoint, and fails    *)
(* only when frames or frame memory run out.                               *)
OnlyLimitErrors ==
    /\ err \in {"OK", "EFRAME", "EALLOC"}
    /\ err = "EFRAME" => depth = NFrame - 1

-----------------------------------------------------------------------------
(* The meaning of an execution: the active part of the call stack is the   *)
(* continuation of the running thread, and each activation stands for the  *)
(* alternatives it has yet to run, from the state saved in its frame.      *)

Cont(b, t) == [i \in 1 .. t - b + 1 |-> stack[t - i + 1]]

MThread(f, k, s) == [code |-> f, cont |-> k, state |-> s]

Remaining(a) ==
    LET k == Cont(a.bottom, a.top)
        edges == EdgesOf(prog, a.node)
        s == snap[a.fp]
    IN IF TagOf(prog, a.node) = "any"
       THEN [i \in 1 .. Len(edges) - a.next + 1 |-> MThread(FnOf(edges[a.next + i - 1]), k, s)]
       ELSE [i \in 1 .. NItems - a.next + 1 |->
               MThread(a.continue, k, ReadItem(a.node, a.next + i - 1, s))]

RunningThread == IF Running THEN <<MThread(pc, Cont(bottom, top), current)>> ELSE <<>>
PendingThreads == [j \in 1 .. Len(native) |-> Remaining(native[j])]
HasAborted == err # "OK"

Meaning == INSTANCE Continuations WITH
    program <- prog, running <- RunningThread, pending <- PendingThreads,
    done <- leaves, aborted <- HasAborted

(* Compiled code on one mutable call stack, with states restored from      *)
(* savepoints, runs exactly the threads of Continuations: no alternative   *)
(* sees the stack or the state of another.                                 *)
ImplementsContinuations == Meaning!ContinuationsSpec

(* Every execution ends.                                                   *)
Termination == <>(pc = Done)
=============================================================================

--------------------------- MODULE Continuations ---------------------------
(***************************************************************************)
(* What a control flow graph means, without a shared call stack and        *)
(* without savepoints: a thread is a function to run, an immutable list of *)
(* continuations and a state of its own.  A choice replaces the thread by  *)
(* one thread for each alternative; these run to completion one after the  *)
(* other, and none of them can affect another.                             *)
(*                                                                         *)
(* Control implements this specification (Control!Meaning).                *)
(***************************************************************************)
EXTENDS Cfg

VARIABLES
    program,    \* the graph being executed
    running,    \* the running thread, or none
    pending,    \* lists of threads still to run, the innermost choice last
    done,       \* the states in which threads ended, in order
    aborted     \* an error stopped the execution

cvars == <<program, running, pending, done, aborted>>

(* At most one thread runs; none is the empty sequence.                    *)
Thread(f, k, s) == [code |-> f, cont |-> k, state |-> s]

ContinuationsInit ==
    /\ program \in Programs
    /\ running = <<Thread(FnOf(Root(program)), <<Exit>>, <<>>)>>
    /\ pending = <<>>
    /\ done = <<>>
    /\ aborted = FALSE

(* The thread after a return, which needs a continuation.                  *)
Returned(k, s) == Thread(Head(k), Tail(k), s)

(* Where a thread is after a step that is neither an end nor a choice.     *)
PrimitiveStep(t, r, s) ==
    LET chained == Chained(program, t.code) IN
    IF r = Nil
    THEN IF chained THEN Thread(Rest(t.code), t.cont, s) ELSE Returned(t.cont, s)
    ELSE Thread(r, IF chained THEN <<Rest(t.code)>> \o t.cont ELSE t.cont, s)

Step ==
    /\ running # <<>>
    /\ LET t == running[1]
           f == t.code
           prim == PrimitiveOf(program, f)
           r == Result(program, prim, t.state)
       IN \/ /\ DoesNothing(program, f)
             /\ running' = <<Returned(t.cont, t.state)>>
          \/ /\ Forwards(program, f)
             /\ running' = <<Thread(Target(program, f), t.cont, t.state)>>
          \/ /\ Calls(program, f)
             /\ running' = <<Thread(FnOf(Chain(program, f[1])[f[2]]),
                                    <<Rest(f)>> \o t.cont, t.state)>>
          \/ /\ RunsPrimitive(program, f)
             /\ r # False
             /\ running' = <<PrimitiveStep(t, r, Ran(prim, t.state))>>
    /\ UNCHANGED <<program, pending, done, aborted>>

(* A thread ends: it exits, or a primitive returns false.                  *)
End ==
    /\ running # <<>>
    /\ LET t == running[1]
           f == t.code
           prim == PrimitiveOf(program, f)
       IN \/ DoesExit(program, f) /\ done' = Append(done, t.state)
          \/ /\ RunsPrimitive(program, f)
             /\ Result(program, prim, t.state) = False
             /\ done' = Append(done, Ran(prim, t.state))
    /\ running' = <<>>
    /\ UNCHANGED <<program, pending, aborted>>

(* A choice: one thread per alternative, or per entry of an input file.    *)
Alternatives(t) ==
    LET n == t.code[1] IN
    IF Branches(program, t.code)
    THEN [i \in 1 .. Len(EdgesOf(program, n)) |->
            Thread(FnOf(EdgesOf(program, n)[i]), t.cont, t.state)]
    ELSE [i \in 1 .. NItems |-> Returned(t.cont, ReadItem(n, i, t.state))]
Fork ==
    /\ running # <<>>
    /\ Branches(program, running[1].code) \/ Tag(program, running[1].code) = "input"
    /\ running' = <<>>
    /\ pending' = Append(pending, Alternatives(running[1]))
    /\ UNCHANGED <<program, done, aborted>>

Front(s) == SubSeq(s, 1, Len(s) - 1)

(* The next thread of the innermost choice; the choice is forgotten with   *)
(* its last thread, or later.                                              *)
Take ==
    /\ running = <<>> /\ pending # <<>>
    /\ LET ts == pending[Len(pending)] IN
       /\ ts # <<>>
       /\ running' = <<Head(ts)>>
       /\ \/ pending' = Append(Front(pending), Tail(ts))
          \/ Len(ts) = 1 /\ pending' = Front(pending)
    /\ UNCHANGED <<program, done, aborted>>

Forget ==
    /\ running = <<>> /\ pending # <<>>
    /\ pending[Len(pending)] = <<>>
    /\ pending' = Front(pending)
    /\ UNCHANGED <<program, running, done, aborted>>

(* The simulator reports an error: nothing runs any more.                  *)
Abort ==
    /\ ~aborted
    /\ aborted' = TRUE
    /\ running' = <<>>
    /\ pending' = <<>>
    /\ UNCHANGED <<program, done>>

ContinuationsNext == Step \/ End \/ Fork \/ Take \/ Forget \/ Abort

ContinuationsSpec == ContinuationsInit /\ [][ContinuationsNext]_cvars
=============================================================================

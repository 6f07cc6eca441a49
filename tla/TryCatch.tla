------------------------------- MODULE TryCatch -------------------------------
(***************************************************************************)
(* src/trycatch.c: Try, Catch, Finally and EndTry as macros over setjmp    *)
(* and longjmp, with a stack of frames for every thread.                   *)
(*                                                                         *)
(* A thread runs any properly nested program: in the body of a Try, of a   *)
(* Catch or of a Finally it may enter another Try, throw, or come to the   *)
(* end.  The Try statements it is in are a sequence, innermost last, and   *)
(* the frame of the k-th is called k; 0 is NULL.  Leaving a body by        *)
(* return, break or goto is left out: the frame it leaves behind dangles.  *)
(***************************************************************************)
EXTENDS Integers, Sequences, FiniteSets

CONSTANTS
    Threads,
    Exceptions,
    None,           \* no exception
    MaxDepth        \* bound: Try statements inside one another

VARIABLES
    code,           \* per thread, the Try statements it is in
    ExceptionStack  \* per thread, the innermost frame on the stack

vars == <<code, ExceptionStack>>

(* Of a Try statement: its clauses, the body the thread is in, Exception_flag,
   the fields of its frame and, as a history, which statement the exception
   thrown to it should be handled by. *)
Statement(catches, finally, prev) ==
    [catches |-> catches, finally |-> finally, body |-> "try", flag |-> "Entered",
     exception |-> None, prev |-> prev, goal |-> 0]

\* The Try statements of c whose Try body is being run.
Active(c) == {k \in 1 .. Len(c) : c[k].body = "try"}

\* m is the largest element of S, or 0 if there is none.
IsTop(S, m) == IF S = {} THEN m = 0 ELSE m \in S /\ \A k \in S : k <= m

\* Where an exception should be handled: by the innermost Try body under way
\* that has a Catch for it.
Goal(c, e) == CHOOSE m \in 0 .. Len(c) : IsTop({k \in Active(c) : e \in c[k].catches}, m)

Init ==
    /\ code = [t \in Threads |-> << >>]
    /\ ExceptionStack = [t \in Threads |-> 0]

Inner(t) == code[t][Len(code[t])]
InBody(t) == code[t] # << >> => Inner(t).body \in {"try", "catch", "finally"}

\* The innermost statement of t becomes s.
Replace(t, s) == code' = [code EXCEPT ![t][Len(code[t])] = s]
Leave(t) == code' = [code EXCEPT ![t] = SubSeq(@, 1, Len(@) - 1)]

ntyExceptionPopStack(t) ==
    ExceptionStack' = [ExceptionStack EXCEPT ![t] = code[t][@].prev]

-----------------------------------------------------------------------------
(* ntyExceptionThrow, with a frame on the stack: longjmp to it.            *)

\* What setjmp's second return leads to.
Dispatch(s, e) ==
    IF e \in s.catches THEN [s EXCEPT !.body = "catch", !.flag = "Handled"]
    ELSE [s EXCEPT !.body = IF s.finally THEN "finally" ELSE "end", !.flag = "Thrown"]

\* Mutation: the frame is popped before it is read.
Jump_PopsFirst(t, e, goal) ==
    LET top == ExceptionStack[t]
        k == IF code[t][top].prev = 0 THEN top ELSE code[t][top].prev
    IN  /\ code' = [code EXCEPT ![t] = Append(SubSeq(@, 1, k - 1),
                        Dispatch([@[k] EXCEPT !.exception = e, !.goal = goal], e))]
        /\ ntyExceptionPopStack(t)

Jump(t, e, goal) ==
    LET k == ExceptionStack[t] IN
    /\ code' = [code EXCEPT ![t] = Append(SubSeq(@, 1, k - 1),
                    Dispatch([@[k] EXCEPT !.exception = e, !.goal = goal], e))]
    /\ ntyExceptionPopStack(t)

-----------------------------------------------------------------------------
(* The macros.                                                             *)

Try(t, catches, finally) ==
    /\ InBody(t) /\ Len(code[t]) < MaxDepth
    /\ code' = [code EXCEPT ![t] = Append(@, Statement(catches, finally, ExceptionStack[t]))]
    /\ ExceptionStack' = [ExceptionStack EXCEPT ![t] = Len(code[t]) + 1]

\* With nothing on the stack Throw prints a line and returns.
Throw(t, e) ==
    /\ InBody(t) /\ ExceptionStack[t] # 0
    /\ Jump(t, e, Goal(code[t], e))

\* The end of a Try body: Exception_flag is Entered.
TryEnds(t) ==
    /\ code[t] # << >> /\ Inner(t).body = "try"
    /\ LET s == Inner(t)
           left == IF s.finally THEN [s EXCEPT !.body = "finally", !.flag = "Finalized"]
                   ELSE [s EXCEPT !.body = "end"]
       IN  Replace(t, left)
    /\ ntyExceptionPopStack(t)

CatchEnds(t) ==
    /\ code[t] # << >> /\ Inner(t).body = "catch"
    /\ Replace(t, [Inner(t) EXCEPT !.body = IF Inner(t).finally THEN "finally" ELSE "end"])
    /\ UNCHANGED ExceptionStack

FinallyEnds(t) ==
    /\ code[t] # << >> /\ Inner(t).body = "finally"
    /\ Replace(t, [Inner(t) EXCEPT !.body = "end"])
    /\ UNCHANGED ExceptionStack

\* EndTry: ReThrow, unless the exception was handled or there was none.  With
\* nothing on the stack ReThrow prints a line and returns.
EndTry(t) ==
    /\ code[t] # << >> /\ Inner(t).body = "end"
    /\ IF Inner(t).flag = "Thrown" /\ ExceptionStack[t] # 0
       THEN Jump(t, Inner(t).exception, Inner(t).goal)
       ELSE Leave(t) /\ UNCHANGED ExceptionStack

-----------------------------------------------------------------------------
Next ==
    \E t \in Threads :
        \/ \E catches \in SUBSET Exceptions, finally \in BOOLEAN : Try(t, catches, finally)
        \/ \E e \in Exceptions : Throw(t, e)
        \/ TryEnds(t) \/ CatchEnds(t) \/ FinallyEnds(t) \/ EndTry(t)

Spec == Init /\ [][Next]_vars

-----------------------------------------------------------------------------
(* Properties.                                                             *)

TypeOK ==
    /\ code \in [Threads -> Seq([catches : SUBSET Exceptions, finally : BOOLEAN,
                                 body : {"try", "catch", "finally", "end"},
                                 flag : {"Entered", "Thrown", "Handled", "Finalized"},
                                 exception : Exceptions \cup {None}, prev : Nat, goal : Nat])]
    /\ ExceptionStack \in [Threads -> Nat]

\* The frames on the stack are those of the Try bodies under way, innermost
\* first (c:56-57, c:66-67): a longjmp never lands in a statement that was left.
StackIsBodies ==
    \A t \in Threads :
        /\ IsTop(Active(code[t]), ExceptionStack[t])
        /\ \A k \in Active(code[t]) :
               IsTop({j \in Active(code[t]) : j < k}, code[t][k].prev)

\* However many statements rethrow it and whatever their Finally bodies do, an
\* exception is handled by the innermost Catch for it that was in force when it
\* was thrown, and goes unhandled only if there was none (c:61-86, c:104-126).
InnermostHandles ==
    \A t \in Threads : \A k \in 1 .. Len(code[t]) :
        LET s == code[t][k] IN
        /\ s.body = "catch" => s.goal = k
        /\ s.flag = "Thrown" => s.goal < k
        /\ s.flag = "Thrown" /\ s.goal # 0 =>
               s.goal \in Active(code[t]) /\ s.exception \in code[t][s.goal].catches

FramesOK == StackIsBodies /\ InnermostHandles
=============================================================================

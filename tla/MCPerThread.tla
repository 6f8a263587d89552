----------------------------- MODULE MCPerThread -----------------------------
(***************************************************************************)
(* The data muduo/base keeps for every thread, for model checking: the     *)
(* objects of a ThreadLocal and the cached id of CurrentThread, over the   *)
(* same threads.  A thread that starts or exits does so for both.          *)
(***************************************************************************)
EXTENDS Integers, Sequences

CONSTANTS Threads, Objs, Tids, MaxFrames, Null

VARIABLES alive, pkey, specific, heap, orphans,
          kernelTid, t_cachedTid, returned, call

\* Binaries whose path holds a plus sign or a parenthesis; a mangled symbol
\* and the name of a C function; frames with a symbol, with an offset only,
\* with empty parentheses and with none.
Paths   == {<<"p", "+">>, <<"p", "(", "m">>}
Symbols == {<<"m">>, <<"c">>}
MCFrames ==
    [path : Paths, symbol : Symbols, form : {"symbol"}]
        \cup [path : Paths, symbol : {<<>>}, form : {"offset", "empty", "bare"}]

tlVars == <<alive, pkey, specific, heap, orphans>>
ctVars == <<kernelTid, t_cachedTid, returned, call>>

TL == INSTANCE ThreadLocal
CT == INSTANCE CurrentThread WITH Frames <- MCFrames

Start(t) == TL!Start(t) /\ CT!ThreadStarts(t)
Exit(t)  == TL!Exit(t) /\ CT!ThreadExits(t)

Init == TL!Init /\ CT!Init

Next ==
    \/ \E t \in Threads : Start(t) \/ Exit(t)
    \/ /\ TL!Constructor \/ TL!Destructor \/ \E t \in Threads : TL!Value(t)
       /\ UNCHANGED ctVars
    \/ /\ CT!StackTraceBegins \/ CT!StackTraceLoop \/ \E t \in Threads : CT!Tid(t)
       /\ UNCHANGED tlVars

Spec == Init /\ [][Next]_<<tlVars, ctVars>>

-----------------------------------------------------------------------------
\* The variables keep their types, and tid() returns an id or nothing.
TypeOK == TL!TypeOK /\ CT!TypeOK

\* ThreadLocal: an object lives as long as its thread, unless ~ThreadLocal
\* ran first.
ObjectsDieWithTheirThread == TL!ObjectsDieWithTheirThread

\* CurrentThread::tid: the id of the calling thread, not a cached one of an
\* earlier thread.
TidIsOwn == CT!TidIsOwn

\* CurrentThread::stackTrace: one line per frame, the symbol readable.
TraceShowsEveryFrame == CT!TraceShowsEveryFrame

=============================================================================

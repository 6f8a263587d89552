---------------------------- MODULE CurrentThread ----------------------------
(***************************************************************************)
(* muduo/base/CurrentThread.h and CurrentThread.cc: the thread id that     *)
(* every thread caches in a __thread variable, and stackTrace, which turns *)
(* the lines of backtrace_symbols into a text with readable names.         *)
(*                                                                         *)
(* A line is a sequence of characters.  Of a name only this matters:       *)
(* whether __cxa_demangle takes it, which it does for a name made of the   *)
(* character "m" and for no other, and that the readable name differs from *)
(* it.  cacheTid, which is defined in Thread.cc, stores the id the kernel  *)
(* gave the thread.                                                        *)
(***************************************************************************)
EXTENDS Integers, Sequences, SequencesExt

CONSTANTS
    Threads,    \* the threads
    Tids,       \* bound: the thread ids the kernel hands out
    Frames,     \* bound: the stack frames stackTrace may meet
    MaxFrames,  \* bound: the frames of a stack under stackTrace itself
    Null        \* the null pointer

ASSUME Tids \subseteq Nat \ {0}

VARIABLES
    kernelTid,      \* the id of each running thread, 0 if it does not run
    t_cachedTid,    \* __thread int t_cachedTid
    returned,       \* what the last tid() of each thread returned
    call            \* the last call of stackTrace: its stack, its argument, its result

ctVars == <<kernelTid, t_cachedTid, returned, call>>

-----------------------------------------------------------------------------
(* tid *)

CacheHolds(cached) == cached # 0     \* mutation: the test the other way round

\* if (t_cachedTid == 0)
CacheIsEmpty(cached) == cached = 0

\* tid(): the cached id, which cacheTid() fills at the first call.
Tid(t) ==
    /\ kernelTid[t] # 0
    /\ LET cached == IF CacheIsEmpty(t_cachedTid[t]) THEN kernelTid[t] ELSE t_cachedTid[t]
       IN  /\ t_cachedTid' = [t_cachedTid EXCEPT ![t] = cached]
           /\ returned' = [returned EXCEPT ![t] = cached]
    /\ UNCHANGED <<kernelTid, call>>

\* A thread starts: the kernel gives it an id no running thread has, and its
\* __thread variables have their initial values.
ThreadStartsWithOldCache(t) ==                               \* mutation
    /\ kernelTid[t] = 0
    /\ \E id \in Tids \ {kernelTid[s] : s \in Threads} :
          kernelTid' = [kernelTid EXCEPT ![t] = id]
    /\ returned' = [returned EXCEPT ![t] = Null]
    /\ UNCHANGED <<t_cachedTid, call>>

ThreadStarts(t) ==
    /\ kernelTid[t] = 0
    /\ \E id \in Tids \ {kernelTid[s] : s \in Threads} :
          kernelTid' = [kernelTid EXCEPT ![t] = id]
    /\ t_cachedTid' = [t_cachedTid EXCEPT ![t] = 0]
    /\ returned' = [returned EXCEPT ![t] = Null]
    /\ UNCHANGED call

\* A thread exits; its id is free for a later thread.
ThreadExits(t) ==
    /\ kernelTid[t] # 0
    /\ kernelTid' = [kernelTid EXCEPT ![t] = 0]
    /\ UNCHANGED <<t_cachedTid, returned, call>>

-----------------------------------------------------------------------------
(* stackTrace *)

IsMangled(name) == name # <<>> /\ \A i \in DOMAIN name : name[i] = "m"
Demangled(name) == [i \in DOMAIN name |-> "d"]

\* The line backtrace_symbols makes of a frame: the path of the binary, in
\* parentheses the symbol and the offset as far as they are known, and the
\* address.
Line(f) ==
    f.path \o (CASE f.form = "symbol" -> <<"(">> \o f.symbol \o <<"+", "0", ")">>
                 [] f.form = "offset" -> <<"(", "+", "0", ")">>
                 [] f.form = "empty"  -> <<"(", ")">>
                 [] f.form = "bare"   -> <<>>)
           \o <<" ", "a">>

FirstOf(line, c) == SelectInSeq(line, LAMBDA x : x = c)      \* mutation

\* The loop over the line: the last place of a character, 0 for nullptr.
LastOf(line, c) == SelectLastInSeq(line, LAMBDA x : x = c)

\* The C string that starts at `from` while line[nul] is '\0'.
CString(line, from, nul) ==
    SubSeq(line, from, IF nul >= from THEN nul - 1 ELSE Len(line))

\* What stackTrace appends for one line, without the newline.
Appended(line, demangle) ==
    LET left_par == LastOf(line, "(")
        plus     == LastOf(line, "+")
        name     == CString(line, left_par + 1, plus)
    IN  IF demangle /\ left_par # 0 /\ plus # 0 /\ IsMangled(name)
            THEN SubSeq(line, 1, left_par) \o Demangled(name)
                     \o SubSeq(line, plus, Len(line))
            ELSE line

Itself == CHOOSE f \in Frames : f.form = "symbol"

\* stackTrace(demangle) up to its loop: backtrace has the stack, of which
\* the first frame is stackTrace itself, and backtrace_symbols makes the
\* lines, or fails, and then the result stays empty.
StackTraceBegins ==
    \E demangle \in BOOLEAN, failed \in BOOLEAN :
        /\ call' = [stack |-> <<Itself>>, demangle |-> demangle, failed |-> failed,
                    result |-> <<>>]
        /\ UNCHANGED <<kernelTid, t_cachedTid, returned>>

\* One round of the loop, for the next frame `f` of the stack.
StackTraceLoop ==
    \E f \in Frames :
        /\ ~call.failed /\ Len(call.stack) \in 1..MaxFrames
        /\ call' = [call EXCEPT
                       !.stack = Append(@, f),
                       !.result = @ \o Appended(Line(f), call.demangle) \o <<"\n">>]
        /\ UNCHANGED <<kernelTid, t_cachedTid, returned>>

-----------------------------------------------------------------------------
Init ==
    /\ kernelTid = [t \in Threads |-> 0]
    /\ t_cachedTid = [t \in Threads |-> 0]
    /\ returned = [t \in Threads |-> Null]
    /\ call = [stack |-> <<>>, demangle |-> FALSE, failed |-> TRUE, result |-> <<>>]

Next ==
    \/ \E t \in Threads : Tid(t) \/ ThreadStarts(t) \/ ThreadExits(t)
    \/ StackTraceBegins \/ StackTraceLoop

Spec == Init /\ [][Next]_ctVars

-----------------------------------------------------------------------------
(* Properties *)

TypeOK ==
    /\ kernelTid \in [Threads -> Tids \cup {0}]
    /\ t_cachedTid \in [Threads -> Tids \cup {0}]
    /\ returned \in [Threads -> Tids \cup {Null}]
    /\ call.stack \in Seq(Frames) /\ call.result \in Seq(STRING)
    /\ call.demangle \in BOOLEAN /\ call.failed \in BOOLEAN

\* tid() gives a thread its own id: never the 0 of an empty cache, and never
\* the id an earlier thread cached, also when the kernel gives the id of a
\* thread that has exited to a new one.
TidIsOwn ==
    \A t \in Threads :
        kernelTid[t] # 0 /\ returned[t] # Null => returned[t] = kernelTid[t]

\* What stackTrace is for: the frame of a symbol that has a readable name
\* shows that name in place of the symbol, between the same parenthesis and
\* the same offset.
Readable(f, demangle) ==
    IF demangle /\ f.form = "symbol" /\ IsMangled(f.symbol)
        THEN f.path \o <<"(">> \o Demangled(f.symbol) \o <<"+", "0", ")", " ", "a">>
        ELSE Line(f)

\* stackTrace returns one line for every frame above it, in the order of
\* the stack, with the symbol in readable form and everything else as
\* backtrace_symbols wrote it: a parenthesis or a plus sign in the path of
\* the binary, a frame without a symbol and a name that is not mangled do
\* not confuse the search for the symbol.
TraceShowsEveryFrame ==
    call.result =
        IF call.failed THEN <<>>
        ELSE FlattenSeq([i \in 1..Len(call.stack) - 1 |->
                            Readable(call.stack[i + 1], call.demangle) \o <<"\n">>])

=============================================================================

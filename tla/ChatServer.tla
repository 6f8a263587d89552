----------------------------- MODULE ChatServer -----------------------------
(***************************************************************************)
(* The chat server of examples/asio/chat/server_threaded_efficient.cc: the *)
(* list of connections is shared between the I/O threads through a         *)
(* shared_ptr.  A thread that broadcasts takes the pointer under the mutex *)
(* and walks the list without it; a thread that registers a connection     *)
(* changes the list in place when nobody else holds it and changes a copy  *)
(* otherwise.                                                              *)
(*                                                                         *)
(* A ConnectionList is a cell of `list', a shared_ptr is the index of the  *)
(* cell, and the use count of a cell is the number of pointers to it.      *)
(*                                                                         *)
(* The I/O threads are those of the server's EventLoopThreadPool, which    *)
(* main() sizes and starts; the TcpServer binds each new connection to the *)
(* loop the pool hands out, and the callbacks of a connection run on the   *)
(* thread of that loop.                                                    *)
(***************************************************************************)
EXTENDS Integers, Sequences, FiniteSets

CONSTANTS
    MaxThreads, \* bound: the largest thread_num main() is started with
    Conns,      \* the connections
    Lists,      \* the addresses a ConnectionList can have
    Null

VARIABLES
    numThreads, started, next, loops, loop_, starting,   \* the pool of server_
    ioLoop,         \* conn->getLoop(), per connection the server holds
    owned,          \* history: the loops that got a connection in this round
    mutex,          \* mutex_: the thread that holds it, or Null
    connections,    \* connections_
    list,           \* the ConnectionList at each address
    connected,      \* conn->connected(), per connection
    pc,             \* per thread: where it is in its callback
    arg,            \* per thread: the conn of the callback
    held,           \* per thread: onStringMessage's local `connections'
    sent,           \* per thread: the connections the loop has sent to
    snapshot        \* history: the list as it was when the thread took it

poolVars == <<numThreads, started, next, loops, loop_, starting>>
serverVars == <<mutex, connections, list>>
chatVars == <<serverVars, connected, pc, arg, held, sent, snapshot>>
vars == <<poolVars, ioLoop, owned, chatVars>>

Pool == INSTANCE EventLoopThreadPool

\* The threads callbacks can run on: the base loop's and the pool's.
Threads == {Pool!BaseLoop} \cup Pool!Workers

\* shared_ptr::use_count of the list at address l
UseCount(l) ==
    Cardinality({t \in Threads : held[t] = l}) + (IF connections = l THEN 1 ELSE 0)

\* new ConnectionList: an address nothing points to
NewList == CHOOSE l \in Lists : UseCount(l) = 0

MutexFreeAlways == TRUE    \* mutation: no MutexLockGuard

\* MutexLockGuard lock(mutex_) can be taken
MutexFree == mutex = Null

NeedsCopyNever == FALSE    \* mutation: the list is always changed in place

\* !connections_.unique(): some thread is reading the list
NeedsCopy == UseCount(connections) # 1

CopyOfNothing(l) == {}     \* mutation: reset(new ConnectionList)

\* new ConnectionList(*connections_)
CopyOf(l) == list[l]

\* The round of the pool after loop l got a connection: a round is over
\* when every loop has got one.
Round(l) ==
    LET got == owned \cup {l}
    IN  IF {loops[i] : i \in DOMAIN loops} \subseteq got THEN {} ELSE got

-----------------------------------------------------------------------------
(* main() *)

\* setThreadNum, which main() calls once, before start(): numThreads_ is
\* still the 0 of the constructor.
SetThreadNum(n) ==
    /\ ~started /\ numThreads = 0
    /\ Pool!SetThreadNum(n)
    /\ UNCHANGED <<ioLoop, owned, chatVars>>

\* start(): the TcpServer starts the pool and then listens.
Start ==
    /\ \/ Pool!Start
       \/ Pool!StartLoop
       \/ \E w \in Pool!Workers : Pool!ThreadFunc(w)
       \/ Pool!StartLoopReturns
    /\ UNCHANGED <<ioLoop, owned, chatVars>>

-----------------------------------------------------------------------------
(* The callbacks *)

\* The TcpServer has accepted connection c: it binds it to the next loop of
\* the pool, where connectEstablished will run.
NewConnection(c) ==
    /\ ioLoop[c] = Null
    /\ \E l \in Threads :
          /\ Pool!GetNextLoop(l)
          /\ ioLoop' = [ioLoop EXCEPT ![c] = l]
          /\ owned' = Round(l)
    /\ UNCHANGED chatVars

\* connectEstablished or handleClose of the TcpConnection: what connected()
\* tells is the opposite of before.
StateChanges(c) == connected' = [connected EXCEPT ![c] = ~@]

\* The connection c came up or went down, and its thread enters
\* onConnection with it.
ConnectionChanges(t, c) ==
    /\ pc[t] = "idle" /\ ioLoop[c] = t
    /\ StateChanges(c)
    /\ pc' = [pc EXCEPT ![t] = "onConnection"]
    /\ arg' = [arg EXCEPT ![t] = c]
    /\ UNCHANGED <<poolVars, ioLoop, owned, serverVars, held, sent, snapshot>>

\* onConnection takes the mutex and, if a reader holds the list, points
\* connections_ to a copy; the old list stays with its readers.
LockAndCopy(t) ==
    /\ pc[t] = "onConnection" /\ MutexFree
    /\ mutex' = t
    /\ IF NeedsCopy
          THEN /\ connections' = NewList
               /\ list' = [list EXCEPT ![NewList] = CopyOf(connections)]
          ELSE UNCHANGED <<connections, list>>
    /\ pc' = [pc EXCEPT ![t] = "modify"]
    /\ UNCHANGED <<poolVars, ioLoop, owned, connected, arg, held, sent, snapshot>>

\* onConnection inserts or erases the connection and leaves the mutex.  A
\* connection that went down is closed for good: the server drops it.
InsertOrErase(t) ==
    /\ pc[t] = "modify"
    /\ list' = [list EXCEPT ![connections] =
                   IF connected[arg[t]] THEN @ \cup {arg[t]} ELSE @ \ {arg[t]}]
    /\ mutex' = Null
    /\ pc' = [pc EXCEPT ![t] = "idle"]
    /\ ioLoop' = IF connected[arg[t]] THEN ioLoop ELSE [ioLoop EXCEPT ![arg[t]] = Null]
    /\ UNCHANGED <<poolVars, owned, connections, connected, arg, held, sent, snapshot>>

\* A message of connection c has been decoded: onStringMessage starts and
\* getConnectionList copies the pointer under the mutex.
GetConnectionList(t, c) ==
    /\ pc[t] = "idle" /\ connected[c] /\ ioLoop[c] = t
    /\ MutexFree
    /\ held' = [held EXCEPT ![t] = connections]
    /\ snapshot' = [snapshot EXCEPT ![t] = list[connections]]
    /\ pc' = [pc EXCEPT ![t] = "send"]
    /\ arg' = [arg EXCEPT ![t] = c]
    /\ UNCHANGED <<poolVars, ioLoop, owned, serverVars, connected, sent>>

\* One round of onStringMessage's loop: the message goes to a connection of
\* the list the loop has not visited.
SendToNext(t) ==
    /\ pc[t] = "send"
    /\ \E c \in list[held[t]] \ sent[t] : sent' = [sent EXCEPT ![t] = @ \cup {c}]
    /\ UNCHANGED <<poolVars, ioLoop, owned, serverVars, connected, pc, arg, held, snapshot>>

\* The loop is over and the local pointer goes out of scope; the last
\* pointer to a list deletes it.
Release(t) ==
    /\ pc[t] = "send" /\ list[held[t]] \subseteq sent[t]
    /\ list' = IF UseCount(held[t]) = 1 THEN [list EXCEPT ![held[t]] = {}] ELSE list
    /\ held' = [held EXCEPT ![t] = Null]
    /\ sent' = [sent EXCEPT ![t] = {}]
    /\ snapshot' = [snapshot EXCEPT ![t] = {}]
    /\ pc' = [pc EXCEPT ![t] = "idle"]
    /\ UNCHANGED <<poolVars, ioLoop, owned, mutex, connections, connected, arg>>

-----------------------------------------------------------------------------
\* The server is new, nobody is connected and every thread is idle.
Quiet ==
    /\ Pool!Constructed
    /\ ioLoop = [c \in Conns |-> Null] /\ owned = {}
    /\ mutex = Null /\ list = [l \in Lists |-> {}]
    /\ connected = [c \in Conns |-> FALSE]
    /\ pc = [t \in Threads |-> "idle"] /\ arg = [t \in Threads |-> Null]
    /\ held = [t \in Threads |-> Null]
    /\ sent = [t \in Threads |-> {}] /\ snapshot = [t \in Threads |-> {}]

InitWithoutList == connections = Null /\ Quiet    \* mutation: no list allocated

\* The constructor: connections_(new ConnectionList).
Init == connections = (CHOOSE l \in Lists : TRUE) /\ Quiet

\* main(): the server is sized if there is a second argument, and started.
Main == (\E n \in 0..MaxThreads : SetThreadNum(n)) \/ Start

Next ==
    \/ Main
    \/ \E c \in Conns : NewConnection(c)
    \/ \E t \in Threads :
          \/ \E c \in Conns : ConnectionChanges(t, c) \/ GetConnectionList(t, c)
          \/ LockAndCopy(t) \/ InsertOrErase(t)
          \/ SendToNext(t) \/ Release(t)

Spec == Init /\ [][Next]_vars

-----------------------------------------------------------------------------
(* Properties *)

\* connections_ always points to a list, and a thread holds a list exactly
\* while it is in onStringMessage's loop.
TypeOK ==
    /\ Pool!Members
    /\ ioLoop \in [Conns -> Threads \cup {Null}] /\ owned \subseteq Threads
    /\ mutex \in Threads \cup {Null}
    /\ connections \in Lists
    /\ list \in [Lists -> SUBSET Conns]
    /\ connected \in [Conns -> BOOLEAN]
    /\ pc \in [Threads -> {"idle", "onConnection", "modify", "send"}]
    /\ arg \in [Threads -> Conns \cup {Null}]
    /\ held \in [Threads -> Lists \cup {Null}]
    /\ \A t \in Threads : held[t] # Null <=> pc[t] = "send"
    /\ sent \in [Threads -> SUBSET Conns] /\ snapshot \in [Threads -> SUBSET Conns]

\* onConnection's assert(connections_.unique()): from the copy to the end of
\* the critical section the writer's list has no other owner, so that
\* insert and erase never touch a list a reader is walking.
WriterIsAlone ==
    \A t \in Threads : pc[t] = "modify" => UseCount(connections) = 1

\* The list a reader walks is the list it took: onStringMessage's loop runs
\* without the mutex, and nothing inserts into or erases from its list
\* meanwhile; the message goes to connections of that list only.
ReadersSeeFrozenList ==
    \A t \in Threads :
        held[t] # Null => list[held[t]] = snapshot[t] /\ sent[t] \subseteq snapshot[t]

\* No registration is lost in a copy: the list connections_ points to holds
\* exactly the connections that are up, but for those whose onConnection is
\* still running.
ListIsMembership ==
    \A c \in Conns :
        (\A t \in Threads : ~(arg[t] = c /\ pc[t] \in {"onConnection", "modify"}))
            => (c \in list[connections] <=> connected[c])

\* startLoop hands over a loop that exists: every loop the pool holds has
\* been published by its thread, which is in loop(), and a connection is
\* bound to such a loop only, or to the base loop when the pool is empty;
\* nothing is accepted before start() has all the threads asked for.
LoopsArePublished ==
    /\ \A i \in DOMAIN loops : loops[i] = i /\ loop_[i] = i
    /\ \A c \in Conns :
          ioLoop[c] # Null =>
              /\ Pool!Started
              /\ ioLoop[c] \in (IF numThreads = 0 THEN {Pool!BaseLoop} ELSE 1..numThreads)

\* getNextLoop goes round the loops: in the round that is under way, the
\* loops that have got a connection are the first next_ ones, so that the
\* numbers of connections any two loops were given differ by one at most.
RoundRobinIsEven ==
    owned = {loops[i] : i \in 1..next}

=============================================================================

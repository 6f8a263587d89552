----------------------------- MODULE ThreadLocal -----------------------------
(***************************************************************************)
(* muduo/base/ThreadLocal.h: one object of type T for every thread that    *)
(* asks for it, kept under a pthread key.  value() makes the object of the *)
(* calling thread on its first call; pthread calls destructor() with the   *)
(* object of a thread that exits; ~ThreadLocal deletes the key and no      *)
(* object.                                                                 *)
(*                                                                         *)
(* What pthread does with a key (a value per thread that starts as null,   *)
(* destructors at the exit of a thread for the keys that exist and have a  *)
(* value) is modelled from its specification.  A call of value() on a      *)
(* ThreadLocal that has been destroyed is a use of a dead object and is    *)
(* not modelled.                                                           *)
(***************************************************************************)
EXTENDS FiniteSets

CONSTANTS
    Threads,    \* the threads
    Objs,       \* bound: the addresses operator new can return
    Null        \* the null pointer

VARIABLES
    alive,      \* the threads that run
    pkey,       \* pkey_: "none" before the constructor, "created", "deleted"
    specific,   \* what pthread_getspecific(pkey_) yields in each thread
    heap,       \* the objects that are allocated
    orphans     \* history: the objects that had a thread when the key was deleted

tlVars == <<alive, pkey, specific, heap, orphans>>

DeletedNothing(objs, x) == objs    \* mutation: destructor without delete

\* destructor(x): delete obj
Deleted(objs, x) == objs \ {x}

\* The values the threads have under the key.
Values == {specific[t] : t \in alive} \ {Null}

-----------------------------------------------------------------------------
\* ThreadLocal(): pthread_key_create; the key is null in every thread.
Constructor ==
    /\ pkey = "none"
    /\ pkey' = "created"
    /\ UNCHANGED <<alive, specific, heap, orphans>>

\* ~ThreadLocal(): pthread_key_delete, which calls no destructor.
Destructor ==
    /\ pkey = "created"
    /\ pkey' = "deleted"
    /\ orphans' = Values
    /\ UNCHANGED <<alive, specific, heap>>

\* value(): the object of the calling thread, made if there is none.
ValueOf(t) ==
    \/ /\ specific[t] # Null
       /\ UNCHANGED <<heap, specific>>
    \/ /\ specific[t] = Null
       /\ \E newObj \in Objs \ heap :
             /\ heap' = heap \cup {newObj}
             /\ specific' = [specific EXCEPT ![t] = newObj]

Value(t) ==
    /\ t \in alive /\ pkey = "created"
    /\ ValueOf(t)
    /\ UNCHANGED <<alive, pkey, orphans>>

\* A thread starts: its value of every key is null.
Start(t) ==
    /\ t \notin alive
    /\ alive' = alive \cup {t}
    /\ specific' = [specific EXCEPT ![t] = Null]
    /\ UNCHANGED <<pkey, heap, orphans>>

\* A thread exits: pthread calls the destructor of a key that exists with
\* the value the thread has, if it is not null.
Exit(t) ==
    /\ t \in alive
    /\ alive' = alive \ {t}
    /\ heap' = IF pkey = "created" /\ specific[t] # Null
                  THEN Deleted(heap, specific[t]) ELSE heap
    /\ UNCHANGED <<pkey, specific, orphans>>

Init ==
    /\ alive = {} /\ pkey = "none" /\ heap = {} /\ orphans = {}
    /\ specific = [t \in Threads |-> Null]

Next == Constructor \/ Destructor \/ \E t \in Threads : Value(t) \/ Start(t) \/ Exit(t)

Spec == Init /\ [][Next]_tlVars

-----------------------------------------------------------------------------
(* Properties *)

TypeOK ==
    /\ alive \subseteq Threads
    /\ pkey \in {"none", "created", "deleted"}
    /\ specific \in [Threads -> Objs \cup {Null}]
    /\ heap \subseteq Objs /\ orphans \subseteq Objs

\* Every object has one thread, and dies with it: while the key exists the
\* allocated objects are the values of the running threads, one thread
\* each, so that the destructor at the exit of a thread and the test for
\* null in value() leave nothing behind.  The objects that stay allocated
\* for ever are those, and only those, whose thread was still running when
\* ~ThreadLocal deleted the key: after pthread_key_delete no destructor is
\* called for them.
ObjectsDieWithTheirThread ==
    /\ pkey # "deleted" =>
          /\ heap = Values
          /\ \A s, t \in alive : s # t /\ specific[s] # Null => specific[s] # specific[t]
    /\ pkey = "deleted" => heap = orphans

=============================================================================

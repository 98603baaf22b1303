----------------------------- MODULE SQLiteLibrary -----------------------------
(***************************************************************************)
(* The process-wide use count of the SQLite library (sqlite3.cxx):         *)
(* g_sqlite_refcount and g_sqlite_init_mutex, shared by every SQLite3      *)
(* instance, each of them used by a thread of its own.  Connect and        *)
(* Disconnect are split where another thread can run between their         *)
(* statements: at the mutex and around sqlite3_open and sqlite3_close.     *)
(***************************************************************************)
EXTENDS Integers, FiniteSets

CONSTANTS
    Instances,      \* SQLite3 objects of the process
    Free            \* no owner of the mutex

ASSUME InstancesAssumption ==
    /\ IsFiniteSet(Instances)
    /\ Free \notin Instances

VARIABLES
    stage,      \* where the thread of an instance is
    dying,      \* Disconnect was called by the destructor
    connected,  \* m_connected
    handle,     \* m_database # nullptr
    refcount,   \* g_sqlite_refcount
    mutex,      \* who holds g_sqlite_init_mutex
    libInit,    \* the library is initialised
    stolen      \* history: an instance that was not connected gave back a use

vars == <<stage, dying, connected, handle, refcount, mutex, libInit, stolen>>

\* Stages in which a thread waits for the mutex, and what it does with it.
Waiting == [locking |-> "initialising", dropping |-> "undoing", leaving |-> "releasing"]

Locked == {"initialising", "counting", "undoing", "releasing"}

Stages == {"absent", "ready", "opening"} \cup DOMAIN Waiting \cup Locked

Init ==
    /\ stage = [i \in Instances |-> "absent"]
    /\ dying = [i \in Instances |-> FALSE]
    /\ connected = [i \in Instances |-> FALSE]
    /\ handle = [i \in Instances |-> FALSE]
    /\ refcount = 0
    /\ mutex = Free
    /\ libInit = FALSE
    /\ stolen = FALSE

Goto(i, s) == stage' = [stage EXCEPT ![i] = s]

Construct(i) ==
    /\ stage[i] = "absent"
    /\ Goto(i, "ready")
    /\ connected' = [connected EXCEPT ![i] = FALSE]
    /\ handle' = [handle EXCEPT ![i] = FALSE]
    /\ UNCHANGED <<dying, refcount, mutex, libInit, stolen>>

\* std::lock_guard.
Acquire(i) ==
    /\ stage[i] \in DOMAIN Waiting
    /\ mutex = Free
    /\ mutex' = i
    /\ Goto(i, Waiting[stage[i]])
    /\ UNCHANGED <<dying, connected, handle, refcount, libInit, stolen>>

-----------------------------------------------------------------------------
(* Connect.                                                                *)

\* On a connected instance Connect returns false at once.
EnterConnect(i) ==
    /\ stage[i] = "ready"
    /\ ~connected[i]
    /\ Goto(i, "locking")
    /\ UNCHANGED <<dying, connected, handle, refcount, mutex, libInit, stolen>>

\* sqlite3_initialize, by the first user only.  When it fails Connect
\* returns false and the guard unlocks.
Initialise(i) ==
    /\ stage[i] = "initialising"
    /\ \/ refcount # 0 /\ Goto(i, "counting") /\ UNCHANGED <<mutex, libInit>>
       \/ refcount = 0 /\ Goto(i, "counting") /\ libInit' = TRUE /\ UNCHANGED mutex
       \/ refcount = 0 /\ Goto(i, "ready") /\ mutex' = Free /\ UNCHANGED libInit
    /\ UNCHANGED <<dying, connected, handle, refcount, stolen>>

Count(i) ==
    /\ stage[i] = "counting"
    /\ refcount' = refcount + 1
    /\ mutex' = Free
    /\ Goto(i, "opening")
    /\ UNCHANGED <<dying, connected, handle, libInit, stolen>>

\* sqlite3_open initialises the library by itself if it has to.
OpenSucceeds(i) ==
    /\ stage[i] = "opening"
    /\ handle' = [handle EXCEPT ![i] = TRUE]
    /\ connected' = [connected EXCEPT ![i] = TRUE]
    /\ libInit' = TRUE
    /\ Goto(i, "ready")
    /\ UNCHANGED <<dying, refcount, mutex, stolen>>

OpenFails(i) ==
    /\ stage[i] = "opening"
    /\ libInit' = TRUE
    /\ Goto(i, "dropping")
    /\ UNCHANGED <<dying, connected, handle, refcount, mutex, stolen>>

\* Slip: a failed open that keeps its use of the library.
UndoForgotten(i) ==
    /\ stage[i] = "undoing"
    /\ mutex' = Free
    /\ Goto(i, "ready")
    /\ UNCHANGED <<dying, connected, handle, refcount, libInit, stolen>>

\* Unlike Release this does not ask whether the count is positive.
Undo(i) ==
    /\ stage[i] = "undoing"
    /\ refcount' = refcount - 1
    /\ libInit' = (libInit /\ refcount' # 0)
    /\ mutex' = Free
    /\ Goto(i, "ready")
    /\ UNCHANGED <<dying, connected, handle, stolen>>

-----------------------------------------------------------------------------
(* Disconnect, called by the application or by the destructor.             *)

\* DoDisconnect closes the handle outside the mutex.
EnterDisconnect(i) ==
    /\ stage[i] = "ready"
    /\ \E byDestructor \in BOOLEAN : dying' = [dying EXCEPT ![i] = byDestructor]
    /\ handle' = [handle EXCEPT ![i] = FALSE]
    /\ Goto(i, "leaving")
    /\ UNCHANGED <<connected, refcount, mutex, libInit, stolen>>

\* A use is given back whether or not this instance was ever counted.
Steals(i) == refcount > 0 /\ ~connected[i]

\* Slip: a destroyed instance is neither absent nor ready for another use.
LeaveHalfDestroyed(i) == IF dying[i] THEN "destroyed" ELSE "ready"

LeaveTo(i) == IF dying[i] THEN "absent" ELSE "ready"

\* Slip: the last user is taken to be the one that finds a count of zero.
ReleaseTestsFirst(i) ==
    /\ stage[i] = "releasing"
    /\ libInit' = (libInit /\ refcount # 0)
    /\ refcount' = IF refcount > 0 THEN refcount - 1 ELSE refcount
    /\ stolen' = (stolen \/ Steals(i))
    /\ connected' = [connected EXCEPT ![i] = FALSE]
    /\ mutex' = Free
    /\ Goto(i, LeaveTo(i))
    /\ UNCHANGED <<dying, handle>>

\* Slip: every disconnect shuts the library down.
ReleaseAlwaysShutsDown(i) ==
    /\ stage[i] = "releasing"
    /\ libInit' = FALSE
    /\ refcount' = IF refcount > 0 THEN refcount - 1 ELSE refcount
    /\ stolen' = (stolen \/ Steals(i))
    /\ connected' = [connected EXCEPT ![i] = FALSE]
    /\ mutex' = Free
    /\ Goto(i, LeaveTo(i))
    /\ UNCHANGED <<dying, handle>>

\* Slip: the lock outlives the call.
ReleaseKeepsLock(i) ==
    /\ stage[i] = "releasing"
    /\ libInit' = (libInit /\ refcount # 1)
    /\ refcount' = IF refcount > 0 THEN refcount - 1 ELSE refcount
    /\ stolen' = (stolen \/ Steals(i))
    /\ connected' = [connected EXCEPT ![i] = FALSE]
    /\ Goto(i, LeaveTo(i))
    /\ UNCHANGED <<dying, handle, mutex>>

\* DoPostDisconnect and the end of Disconnect.
Release(i) ==
    /\ stage[i] = "releasing"
    /\ refcount' = IF refcount > 0 THEN refcount - 1 ELSE refcount
    /\ libInit' = (libInit /\ ~(refcount > 0 /\ refcount' = 0))
    /\ stolen' = (stolen \/ Steals(i))
    /\ connected' = [connected EXCEPT ![i] = FALSE]
    /\ mutex' = Free
    /\ Goto(i, LeaveTo(i))
    /\ UNCHANGED <<dying, handle>>

-----------------------------------------------------------------------------

UnderLock(i) == Initialise(i) \/ Count(i) \/ Undo(i) \/ Release(i)

Next == \E i \in Instances :
    \/ Construct(i)
    \/ Acquire(i)
    \/ EnterConnect(i)
    \/ UnderLock(i)
    \/ OpenSucceeds(i)
    \/ OpenFails(i)
    \/ EnterDisconnect(i)

Spec == Init /\ [][Next]_vars

\* A thread inside the critical section keeps running.
FairSpec == Spec /\ \A i \in Instances : WF_vars(UnderLock(i))

-----------------------------------------------------------------------------
(* Properties.                                                             *)

\* Types of the threads' and the library's state.
TypeOK ==
    /\ stage \in [Instances -> Stages]
    /\ dying \in [Instances -> BOOLEAN]
    /\ connected \in [Instances -> BOOLEAN]
    /\ handle \in [Instances -> BOOLEAN]
    /\ refcount \in Int
    /\ mutex \in Instances \cup {Free}
    /\ libInit \in BOOLEAN
    /\ stolen \in BOOLEAN

\* Instances counted and not yet released.
Holders == {i \in Instances : connected[i] \/ stage[i] \in {"opening", "dropping", "undoing"}}

\* As long as nobody gave back a use that was not its own, the count is
\* exactly the number of instances using the library, in every interleaving of
\* their threads.
RefcountExact == ~stolen => refcount = Cardinality(Holders)

\* Under the same condition no instance has its handle open in a library that
\* was shut down.
InitialisedWhileOpen == ~stolen => \A i \in Instances : handle[i] => libInit

\* And between the critical sections an unused library is shut down.
ShutDownWhenUnused == ~stolen /\ Holders = {} /\ mutex = Free => ~libInit

\* Whoever disconnects whatever, the count never exceeds the number of users,
\* so that use of the library is never kept on behalf of nobody.
NeverOvercounted == refcount <= Cardinality(Holders)

\* Under FairSpec: the mutex is always given back, on every path.
MutexReleased == \A i \in Instances : mutex = i ~> mutex # i

=============================================================================

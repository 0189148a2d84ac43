------------------------------ MODULE RestartLock ------------------------------
(***************************************************************************)
(* What the restart manager promises the downstream servers, without       *)
(* queue, clock or goroutines: a lock with one holder, and a cooling down  *)
(* set of servers that may not become the holder.  A server that takes the *)
(* lock or reports a restart of its own starts to cool down.               *)
(***************************************************************************)
CONSTANTS Server, None

VARIABLES holder, cooling

lockVars == <<holder, cooling>>

LockInit == holder = None /\ cooling = {}

\* The lock, free or taken over, passes to a server that has cooled down.
Acquire(s) ==
    /\ s \notin cooling /\ s # holder
    /\ holder' = s
    /\ cooling' = cooling \cup {s}

Release ==
    /\ holder # None
    /\ holder' = None
    /\ UNCHANGED cooling

\* A server restarted without asking.  If it was the holder the lock is
\* released, or passes on in the same step to a server that has cooled down.
Report(s) ==
    \/ /\ holder' = IF holder = s THEN None ELSE holder
       /\ cooling' = cooling \cup {s}
    \/ /\ holder = s
       /\ \E t \in Server \ (cooling \cup {s}) :
             holder' = t /\ cooling' = cooling \cup {s, t}

CoolDown ==
    /\ cooling' \in SUBSET cooling
    /\ UNCHANGED holder

LockNext ==
    \/ \E s \in Server : Acquire(s) \/ Report(s)
    \/ Release
    \/ CoolDown

LockSpec == LockInit /\ [][LockNext]_lockVars

=============================================================================

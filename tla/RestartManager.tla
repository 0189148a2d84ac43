---------------------------- MODULE RestartManager ----------------------------
(***************************************************************************)
(* The restart manager of the hub (pokebedrock/restart/service.go): at     *)
(* most one downstream server holds the restart slot, the others wait in   *)
(* a FIFO queue.  Every handler runs under Service.mu, except the test of  *)
(* Service.closed at the top of RequestRestart, which is taken before the  *)
(* lock and is a step of its own here.                                     *)
(*                                                                         *)
(* Time.  One unit of time is the period of the cleanup ticker (a minute). *)
(* A time stamp t is kept as the age now - t.  The code only compares ages *)
(* with RestartCooldown, QueueTimeout and MaxRestartTime, so ages stop     *)
(* growing at Horizon, which is at least each of them; a server without an *)
(* entry in RestartHistory passes every such test and has age Horizon too. *)
(*                                                                         *)
(* Left out: LastRetry, RetryCount, FailureCount, Status and the           *)
(* UnauthorizedRestarts log, which are written but decide nothing, and the *)
(* wording and RetryAfter of the responses.                                *)
(***************************************************************************)
EXTENDS Integers, Sequences, SequencesExt

CONSTANTS
    Server,           \* names the downstream servers send
    None,             \* CurrentlyRestarting = ""
    RestartCooldown,  \* Config.RestartCooldown, in units of time
    QueueTimeout,     \* Config.QueueTimeout
    MaxRestartTime,   \* Config.MaxRestartTime
    Horizon           \* ages are counted up to here

ASSUME NoneAssumption == None \notin Server

ASSUME DurationAssumption ==
    /\ RestartCooldown \in Nat /\ QueueTimeout \in Nat /\ MaxRestartTime \in Nat
    /\ Horizon \in Nat
    /\ Horizon >= RestartCooldown
    /\ Horizon >= QueueTimeout
    /\ Horizon >= MaxRestartTime

VARIABLES
    current,   \* state.CurrentlyRestarting
    queue,     \* state.Queue: name and age of RequestTime of each entry
    since,     \* age of state.RestartHistory[s]
    closed,    \* Service.closed
    pending,   \* servers whose request passed the closed test, before the lock
    due,       \* a tick waits in the channel of the cleanup ticker (capacity 1)
    cleaning   \* the cleanup goroutine has not returned

vars == <<current, queue, since, closed, pending, due, cleaning>>

Age == 0..Horizon

QueueEntry == [name : Server, waited : Age]

TypeOK ==
    /\ current \in Server \cup {None}
    /\ queue \in Seq(QueueEntry)
    /\ since \in [Server -> Age]
    /\ closed \in BOOLEAN
    /\ pending \in SUBSET Server
    /\ due \in BOOLEAN
    /\ cleaning \in BOOLEAN

Init ==
    /\ current = None
    /\ queue = <<>>
    /\ since = [s \in Server |-> Horizon]
    /\ closed = FALSE
    /\ pending = {}
    /\ due = FALSE
    /\ cleaning = TRUE

-----------------------------------------------------------------------------
(* Time *)

Older(a) == IF a < Horizon THEN a + 1 ELSE a

\* A minute passes.  A tick nobody has received yet is dropped, not doubled.
Tick ==
    /\ since' = [s \in Server |-> Older(since[s])]
    /\ queue' = [i \in 1..Len(queue) |->
                    [name |-> queue[i].name, waited |-> Older(queue[i].waited)]]
    /\ due' = cleaning
    /\ UNCHANGED <<current, closed, pending, cleaning>>

-----------------------------------------------------------------------------
(* Handlers *)

Queued == {queue[i].name : i \in 1..Len(queue)}

InCooldown(s) == since[s] < RestartCooldown

\* Mutant of processQueue: the last in the queue gets the slot.
processQueueLast(q, h) ==
    \/ q = <<>> /\ current' = None /\ queue' = q /\ since' = h
    \/ /\ q # <<>>
       /\ current' = Last(q).name
       /\ queue' = Front(q)
       /\ since' = [h EXCEPT ![Last(q).name] = 0]

\* The slot has just been cleared; q is the queue and h the history then.
\* The head of the queue gets the slot at once, however long it has waited.
processQueue(q, h) ==
    \/ /\ q = <<>>
       /\ current' = None
       /\ queue' = q
       /\ since' = h
    \/ /\ q # <<>>
       /\ current' = Head(q).name
       /\ queue' = Tail(q)
       /\ since' = [h EXCEPT ![Head(q).name] = 0]

\* The unlocked test of closed.  A closed service denies and changes nothing.
RequestArrives(s) ==
    /\ ~closed
    /\ pending' = pending \cup {s}
    /\ UNCHANGED <<current, queue, since, closed, due, cleaning>>

\* The response the locked part of RequestRestart gives in this state.
Allowed(s) == current = s \/ (current = None /\ ~InCooldown(s))

Grant(s) ==
    /\ current' = s
    /\ since' = [since EXCEPT ![s] = 0]
    /\ UNCHANGED queue

Enqueue(s) ==
    /\ queue' = Append(queue, [name |-> s, waited |-> 0])
    /\ UNCHANGED <<current, since>>

Deny == UNCHANGED <<current, queue, since>>

\* The request that waits for the lock gets it.
Locked(s) ==
    /\ s \in pending
    /\ pending' = pending \ {s}
    /\ UNCHANGED <<closed, due, cleaning>>

\* Mutant of RequestRestart: it does not test the cooldown.
RequestRestartHot(s) ==
    /\ Locked(s)
    /\ \/ (current = s \/ s \in Queued) /\ Deny
       \/ current = None /\ Grant(s)
       \/ current \notin {None, s} /\ s \notin Queued /\ Enqueue(s)

\* The locked part of RequestRestart.
RequestRestart(s) ==
    /\ Locked(s)
    /\ \/ (current = s \/ InCooldown(s) \/ s \in Queued) /\ Deny
       \/ current = None /\ ~InCooldown(s) /\ Grant(s)
       \/ current \notin {None, s} /\ ~InCooldown(s) /\ s \notin Queued /\ Enqueue(s)

\* Mutant of NotifyRestartComplete: the sender is not compared with the holder.
NotifyRestartCompleteAnyone(s) ==
    /\ current # None
    /\ processQueue(queue, since)
    /\ UNCHANGED <<closed, pending, due, cleaning>>

\* A completion of a server that does not hold the slot is an error.
NotifyRestartComplete(s) ==
    /\ current = s
    /\ processQueue(queue, since)
    /\ UNCHANGED <<closed, pending, due, cleaning>>

\* Mutant of Without: the entry stays.
WithoutNone(q, s) == q

\* q without the first entry of server s.
Without(q, s) ==
    IF \E i \in 1..Len(q) : q[i].name = s
    THEN RemoveAt(q, CHOOSE i \in 1..Len(q) :
                        /\ q[i].name = s
                        /\ \A j \in 1..(i - 1) : q[j].name # s)
    ELSE q

NotifyUnauthorizedRestart(s) ==
    LET history == [since EXCEPT ![s] = 0]
        rest    == Without(queue, s)
    IN  /\ \/ current = s /\ processQueue(rest, history)
           \/ /\ current # s
              /\ queue' = rest
              /\ since' = history
              /\ UNCHANGED current
        /\ UNCHANGED <<closed, pending, due, cleaning>>

\* f lists, in order, the positions of the entries that have not expired.
KeepsUnexpired(f) ==
    /\ \A i, j \in DOMAIN f : i < j => f[i] < f[j]
    /\ {f[i] : i \in DOMAIN f} = {i \in 1..Len(queue) : queue[i].waited < QueueTimeout}

\* Mutants of Overdue: a slot is never taken over; it is after QueueTimeout.
OverdueNever == FALSE

OverdueSoon == current # None /\ since[current] >= QueueTimeout

Overdue == current # None /\ since[current] >= MaxRestartTime

\* One turn of the cleanup loop: expired entries leave the queue, then a slot
\* held for too long passes to what is left of it.  Once the service is
\* stopped a tick may still be taken: select has no order between its cases.
cleanupExpiredEntries ==
    /\ cleaning /\ due
    /\ due' = FALSE
    /\ \E n \in 0..Len(queue) : \E f \in [1..n -> 1..Len(queue)] :
          LET validQueue == [i \in 1..n |-> queue[f[i]]]
          IN  /\ KeepsUnexpired(f)
              /\ \/ Overdue /\ processQueue(validQueue, since)
                 \/ /\ ~Overdue
                    /\ queue' = validQueue
                    /\ UNCHANGED <<current, since>>
    /\ UNCHANGED <<closed, pending, cleaning>>

Stop ==
    /\ closed' = TRUE
    /\ UNCHANGED <<current, queue, since, pending, due, cleaning>>

\* The other case of the select: done is closed.
CleanupReturns ==
    /\ cleaning /\ closed
    /\ cleaning' = FALSE
    /\ due' = FALSE
    /\ UNCHANGED <<current, queue, since, closed, pending>>

-----------------------------------------------------------------------------
(* Specification *)

Next ==
    \/ Tick
    \/ \E s \in Server :
          \/ RequestArrives(s)
          \/ RequestRestart(s)
          \/ NotifyRestartComplete(s)
          \/ NotifyUnauthorizedRestart(s)
    \/ cleanupExpiredEntries
    \/ Stop
    \/ CleanupReturns

Spec == Init /\ [][Next]_vars

\* Time passes, and the runtime runs the cleanup goroutine and every handler
\* goroutine that is ready; nothing obliges a server to send anything.
Fairness ==
    /\ WF_vars(Tick)
    /\ WF_vars(cleanupExpiredEntries)
    /\ WF_vars(CleanupReturns)
    /\ \A s \in Server : WF_vars(RequestRestart(s))

\* The cleanup, a few steps under the lock, is over before the next minute, and
\* a server that wants to restart sends its request again and again.
PromptSpec ==
    /\ Init /\ [][Next /\ (Tick => ~due)]_vars
    /\ Fairness
    /\ \A s \in Server : WF_vars(RequestArrives(s))

-----------------------------------------------------------------------------
(* Properties *)

\* Nobody waits for a free slot: each path that frees the slot (completion,
\* unauthorized restart, takeover by the cleanup) hands it on at once.
NobodyWaitsForFreeSlot == current = None => queue = <<>>

\* A server is asked to restart once: it is queued at most once, and the one
\* that holds the slot is not queued behind itself, although the queue is
\* edited by four handlers and requests are retried at any time.
QueuedOnce ==
    /\ \A i, j \in 1..Len(queue) : queue[i].name = queue[j].name => i = j
    /\ current \notin Queued

\* Whoever is queued is past its cooldown, so that processQueue, which does
\* not test the cooldown, never violates it.
QueuedOutOfCooldown == \A s \in Queued : ~InCooldown(s)

Inv ==
    /\ TypeOK
    /\ NobodyWaitsForFreeSlot
    /\ QueuedOnce
    /\ QueuedOutOfCooldown

\* RestartCooldown is the "minimum time between restarts for the same server":
\* the slot changes to a server only if it has been granted nothing, and has
\* reported no restart of its own, for RestartCooldown; whether it asked or
\* its turn came, and whoever freed the slot.
CooldownRespected ==
    [][current' # current /\ current' # None => ~InCooldown(current')]_vars

\* No server overtakes another in the queue: of two servers queued before and
\* after a step, the order stays; a server that leaves the queue for the slot
\* leaves nobody queued ahead of it.
NoOvertaking ==
    [][/\ \A i, j \in 1..Len(queue), k, l \in 1..Len(queue') :
            (i < j /\ queue[i].name = queue'[k].name /\ queue[j].name = queue'[l].name)
                => k < l
       /\ \A j \in 1..Len(queue) :
            (current' = queue[j].name /\ current # current') =>
               \A i \in 1..(j - 1) : queue[i].name \notin Queued']_vars

Lock == INSTANCE RestartLock
            WITH holder <- current, cooling <- {s \in Server : InCooldown(s)}

\* The restart manager implements a lock with a cooling down set: no
\* interleaving of handlers, takeovers and cleanups gives the slot to a server
\* that cools down, or forgets that a server restarted.
ImplementsLock == Lock!LockSpec

\* A server that gave up, crashed or never polled again does not keep the slot
\* for ever: it passes on within the reach of the cleanup.
SlotIsNotKept == \A s \in Server : (current = s /\ ~closed) ~> (current # s \/ closed)

\* With a queue timeout that outlasts the restarts queued ahead, a server that
\* keeps asking is served (or restarts without permission): it is not starved
\* by servers that ask again and again, that finish early or not at all, by
\* entries that expire, or by slots granted to servers that are gone.
AskingIsServed == \A s \in Server : s \in Queued ~> (since[s] = 0 \/ closed)

=============================================================================

------------------------------- MODULE RankSync -------------------------------
(***************************************************************************)
(* The ranks of one player (pokebedrock/session/ranks.go).  A load when    *)
(* the player joins and every use of the item "sync-rank" put a request    *)
(* into a queue, workers ask the rank service over HTTP                    *)
(* (rank/service.go), store the answer, and send the world owner a         *)
(* callback that changes the name tag.                                     *)
(*                                                                         *)
(* A role stands for the rank it is mapped to, role 0 for all that are     *)
(* mapped to none.  The roles of the account are external and change while *)
(* loads are under way; an account that is not linked has NotFound.        *)
(***************************************************************************)
EXTENDS Integers, Sequences, FiniteSets, FiniteSetsExt

CONSTANTS
    Worker,      \* the rank workers
    Account,     \* what the rank service may know of the account
    MaxRetries,  \* maxRetries of rank/service.go
    Capacity,    \* requests of this player that may be in the queue
    Cooldown,    \* between two uses of "sync-rank"
    MaxTime,     \* the clock stops here (bound)
    MaxChanges   \* changes of the account (bound)

NotFound == {-1}
UnLinked == 0
Trainer == 1

\* A callback that only shows a message.
Message == -1

ASSUME RankSyncAssumption ==
    /\ Account \subseteq (SUBSET Nat) \cup {NotFound}
    /\ \A a \in Account : IsFiniteSet(a)
    /\ MaxRetries \in Nat /\ Capacity \in Nat \ {0}
    /\ Cooldown \in Nat \ {0} /\ MaxTime \in Nat /\ MaxChanges \in Nat

VARIABLES
    now,            \* time.Now()
    account,        \* the roles of the player's account (external)
    changes,        \* changes of the account so far
    loads,          \* goroutines about to call Load
    queue,          \* requests in rankUpdateCh
    worker,         \* the workers
    tasks,          \* callbacks that wait for the world owner, in order
    ranks,          \* Ranks.ranks
    lastRankFetch,  \* Ranks.lastRankFetch
    nameTag,        \* the rank in the player's name tag
    closed,         \* Service.closed
    shutdown,       \* rankShutdown is closed
    seen,           \* accounts since the loads under way began (history)
    failing,        \* one of them was dropped or failed (history)
    astray          \* the name tag need not follow the last answer (history)

rankVars == <<now, account, changes, loads, queue, worker, tasks, ranks, lastRankFetch,
              nameTag, closed, shutdown, seen, failing, astray>>

history == <<seen, failing, astray>>

Idle == [pc |-> "idle", attempt |-> 0, roles |-> {}, err |-> FALSE, highest |-> UnLinked]

\* rank.RolesToRanks, and the ranks that a worker makes of the roles.
RolesToRanks(roles) == roles \ {0}

RanksOf(roles) == IF RolesToRanks(roles) = {} THEN {Trainer} ELSE RolesToRanks(roles)

Highest(rs) == IF rs = {} THEN UnLinked ELSE Max(rs)

AtRest ==
    /\ loads = 0 /\ queue = 0 /\ tasks = <<>>
    /\ \A w \in Worker : worker[w].pc \in {"idle", "exited"}

Rank == ((UNION Account) \cup {UnLinked, Trainer}) \ {-1}

RankTypeOK ==
    /\ now \in 0..MaxTime /\ account \in Account /\ changes \in 0..MaxChanges
    /\ loads \in Nat /\ queue \in 0..Capacity
    /\ worker \in [Worker -> [pc : {"idle", "fetch", "asked", "answered", "stored", "told", "exited"},
                              attempt : 0..MaxRetries, roles : Account \cup {{}},
                              err : BOOLEAN, highest : Rank]]
    /\ tasks \in Seq({Message} \cup Rank)
    /\ ranks \in SUBSET Rank /\ nameTag \in Rank
    /\ lastRankFetch \in {-Cooldown} \cup 0..MaxTime
    /\ closed \in BOOLEAN /\ shutdown \in BOOLEAN
    /\ seen \subseteq Account /\ failing \in BOOLEAN /\ astray \in BOOLEAN

\* The player has joined: a load is on its way.
RankInit ==
    /\ now = 0 /\ account \in Account /\ changes = 0
    /\ loads = 1 /\ queue = 0
    /\ worker = [w \in Worker |-> Idle] /\ tasks = <<>>
    /\ ranks = {} /\ lastRankFetch = -Cooldown /\ nameTag = UnLinked
    /\ closed = FALSE /\ shutdown = FALSE
    /\ seen = {account} /\ failing = FALSE /\ astray = FALSE

-----------------------------------------------------------------------------
(* Requests *)

\* The item "sync-rank" of HandleItemUse.
SyncRank ==
    /\ now - lastRankFetch >= Cooldown
    /\ lastRankFetch' = now
    /\ loads' = loads + 1
    /\ seen' = IF AtRest THEN {account} ELSE seen
    /\ failing' = ((failing /\ ~AtRest) \/ closed)
    /\ UNCHANGED <<now, account, changes, queue, worker, tasks, ranks, nameTag, closed,
                   shutdown, astray>>

\* Load: the request is queued, or dropped when the queue is full or the
\* workers have been told to stop.
Load ==
    /\ loads > 0
    /\ loads' = loads - 1
    /\ \/ /\ queue < Capacity
          /\ queue' = queue + 1
          /\ UNCHANGED <<tasks, failing>>
       \/ shutdown /\ failing' = TRUE /\ UNCHANGED <<queue, tasks>>
       \/ /\ queue = Capacity /\ ~shutdown
          /\ tasks' = Append(tasks, Message)
          /\ failing' = TRUE /\ UNCHANGED queue
    /\ UNCHANGED <<now, account, changes, worker, ranks, lastRankFetch, nameTag, closed,
                   shutdown, seen, astray>>

-----------------------------------------------------------------------------
(* The workers *)

\* A worker takes a request; its popup goes to the world owner first.
Take(w) ==
    /\ worker[w].pc = "idle" /\ queue > 0
    /\ queue' = queue - 1
    /\ worker' = [worker EXCEPT ![w] = [Idle EXCEPT !.pc = "fetch"]]
    /\ tasks' = Append(tasks, Message)
    /\ UNCHANGED <<now, account, changes, loads, ranks, lastRankFetch, nameTag, closed,
                   shutdown, history>>

Exit(w) ==
    /\ worker[w].pc = "idle" /\ shutdown
    /\ worker' = [worker EXCEPT ![w].pc = "exited"]
    /\ UNCHANGED <<now, account, changes, loads, queue, tasks, ranks, lastRankFetch, nameTag,
                   closed, shutdown, history>>

Answered(w, roles, err) ==
    worker' = [worker EXCEPT ![w].pc = "answered", ![w].roles = roles, ![w].err = err]

GiveUp(w) == Answered(w, {}, TRUE)

\* The head of the loop of RolesOfXUID.  The closed service sends no further
\* request: it returns no roles, and the error of the last attempt if there was
\* one.
Fetch(w) ==
    /\ worker[w].pc = "fetch"
    /\ \/ ~closed /\ worker' = [worker EXCEPT ![w].pc = "asked"]
       \/ closed /\ Answered(w, {}, worker[w].err)
    /\ UNCHANGED <<now, account, changes, loads, queue, tasks, ranks, lastRankFetch, nameTag,
                   closed, shutdown, history>>

Retry(w) ==
    \/ /\ worker[w].attempt < MaxRetries
       /\ worker' = [worker EXCEPT ![w].pc = "fetch", ![w].attempt = @ + 1, ![w].err = TRUE]
    \/ /\ worker[w].attempt = MaxRetries
       /\ GiveUp(w)

\* The answer to a request, also one that was under way when the service was
\* closed: roles, "user not found", an error that is tried again, another one.
fetchRoles(w) ==
    /\ worker[w].pc = "asked"
    /\ \/ account # NotFound /\ Answered(w, account, FALSE)
       \/ account = NotFound /\ Answered(w, {}, TRUE)
       \/ Retry(w)
       \/ GiveUp(w)
    /\ UNCHANGED <<now, account, changes, loads, queue, tasks, ranks, lastRankFetch, nameTag,
                   closed, shutdown, history>>

\* Worker w has read the rank for the name tag, but not sent the callback.
BetweenReadAndSend(w) == worker[w].pc = "told" /\ ~worker[w].err

\* SetRanks.  An error makes the player UnLinked.
Store(w) ==
    /\ worker[w].pc = "answered"
    /\ \/ /\ worker[w].err
          /\ ranks' = {UnLinked}
          /\ failing' = (failing \/ NotFound \notin seen) /\ astray' = TRUE
          /\ UNCHANGED lastRankFetch
       \/ /\ ~worker[w].err
          /\ ranks' = RanksOf(worker[w].roles)
          /\ lastRankFetch' = now
          /\ astray' = \E v \in Worker : BetweenReadAndSend(v)
          /\ UNCHANGED failing
    /\ worker' = [worker EXCEPT ![w].pc = "stored"]
    /\ UNCHANGED <<now, account, changes, loads, queue, tasks, nameTag, closed, shutdown, seen>>

\* Mutant of Tell: the rank is taken from the worker's own answer.
TellOwn(w) ==
    /\ worker[w].pc = "stored"
    /\ worker' = [worker EXCEPT ![w].pc = "told",
           ![w].highest = Highest(IF worker[w].err THEN {UnLinked} ELSE RanksOf(worker[w].roles))]
    /\ UNCHANGED <<now, account, changes, loads, queue, tasks, ranks, lastRankFetch, nameTag,
                   closed, shutdown, history>>

\* HighestRank, read once more for the message and the name tag.
Tell(w) ==
    /\ worker[w].pc = "stored"
    /\ worker' = [worker EXCEPT ![w].pc = "told", ![w].highest = Highest(ranks)]
    /\ UNCHANGED <<now, account, changes, loads, queue, tasks, ranks, lastRankFetch, nameTag,
                   closed, shutdown, history>>

\* Mutant of Send: an error ends the worker.
SendOrExit(w) ==
    /\ worker[w].pc = "told"
    /\ tasks' = Append(tasks, IF worker[w].err THEN Message ELSE worker[w].highest)
    /\ worker' = [worker EXCEPT ![w].pc = IF worker[w].err THEN "exited" ELSE "idle"]
    /\ UNCHANGED <<now, account, changes, loads, queue, ranks, lastRankFetch, nameTag, closed,
                   shutdown, history>>

Send(w) ==
    /\ worker[w].pc = "told"
    /\ tasks' = Append(tasks, IF worker[w].err THEN Message ELSE worker[w].highest)
    /\ worker' = [worker EXCEPT ![w] = Idle]
    /\ UNCHANGED <<now, account, changes, loads, queue, ranks, lastRankFetch, nameTag, closed,
                   shutdown, history>>

\* The world owner runs a callback.
Run ==
    /\ tasks # <<>>
    /\ tasks' = Tail(tasks)
    /\ nameTag' = IF Head(tasks) \in Rank THEN Head(tasks) ELSE nameTag
    /\ UNCHANGED <<now, account, changes, loads, queue, worker, ranks, lastRankFetch, closed,
                   shutdown, history>>

-----------------------------------------------------------------------------

Change(a) ==
    /\ changes < MaxChanges /\ a # account
    /\ account' = a /\ changes' = changes + 1
    /\ seen' = IF AtRest THEN seen ELSE seen \cup {a}
    /\ UNCHANGED <<now, loads, queue, worker, tasks, ranks, lastRankFetch, nameTag, closed,
                   shutdown, failing, astray>>

\* Service.Stop, then StopRankChannel.
Stop ==
    /\ ~shutdown
    /\ closed' = TRUE /\ shutdown' = closed
    /\ failing' = TRUE
    /\ UNCHANGED <<now, account, changes, loads, queue, worker, tasks, ranks, lastRankFetch,
                   nameTag, seen, astray>>

Tick ==
    /\ now < MaxTime
    /\ now' = now + 1
    /\ UNCHANGED <<account, changes, loads, queue, worker, tasks, ranks, lastRankFetch, nameTag,
                   closed, shutdown, history>>

RankNext ==
    \/ SyncRank \/ Load \/ Run \/ Tick \/ Stop
    \/ \E w \in Worker :
          Take(w) \/ Exit(w) \/ Fetch(w) \/ fetchRoles(w) \/ Store(w) \/ Tell(w) \/ Send(w)
    \/ \E a \in Account : Change(a)

RankSpec == RankInit /\ [][RankNext]_rankVars

\* Requests time out and goroutines run; nobody has to use the item.
RankFairSpec ==
    /\ RankSpec
    /\ WF_rankVars(Load) /\ WF_rankVars(Run)
    /\ \A w \in Worker :
          /\ WF_rankVars(Take(w)) /\ WF_rankVars(Fetch(w)) /\ WF_rankVars(fetchRoles(w))
          /\ WF_rankVars(Store(w) \/ Tell(w) \/ Send(w))

-----------------------------------------------------------------------------
(* Properties *)

\* What an account that was seen makes of the player.
RankFrom(a) == IF a = NotFound THEN UnLinked ELSE Max(RanksOf(a))

\* Once all loads are through, the name tag shows the player's rank, unless the
\* answer stored last was an error, which leaves the name tag alone, or was stored
\* between another worker's reading of the rank and its sending of it.  If no load
\* has failed, the rank is one that the account gave the player while they were
\* under way, and so is the name tag, unless the account was not linked at some time.
RestIsTrue ==
    AtRest =>
        /\ ~astray => nameTag = Highest(ranks)
        /\ ~failing => \E a \in seen : Highest(ranks) = RankFrom(a)
        /\ ~failing /\ NotFound \notin seen => \E a \in seen : nameTag = RankFrom(a)

\* When the item is no longer used, every load comes to an end and the hub comes
\* to rest, whatever the rank service answers, unless it is shut down.
LoadsEnd == <>[](AtRest \/ shutdown)

=============================================================================

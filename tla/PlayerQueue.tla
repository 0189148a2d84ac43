------------------------------ MODULE PlayerQueue ------------------------------
(***************************************************************************)
(* The hub's waiting line for the downstream servers: queue.Manager        *)
(* (pokebedrock/queue/manager.go).  AddPlayer and Update run on the world  *)
(* owner goroutine, one after the other, and read the status of the        *)
(* servers that the pings of Servers store; players come and go.           *)
(*                                                                         *)
(* A player stands for one world.EntityHandle: a player that rejoins has a *)
(* new one.  When it comes makes no difference before it asks.  Update is  *)
(* one step: a ping that lands in the middle of its loop is taken to land  *)
(* before or after it.  RemovePlayer and NextPlayer have no caller and are *)
(* left out, as are the messages to players and the entries without handle *)
(* or server, which AddPlayer never makes.  A transferred player stays in  *)
(* the hub until its client leaves, and may ask again until then.          *)
(***************************************************************************)
EXTENDS PriorityQueue, Servers, FiniteSets

CONSTANTS
    Player,         \* entity handles
    RankValue,      \* ranks players queue with, higher goes first
    Admin,          \* rank.Admin
    Reserved,       \* slots kept for Admin and above (5 in the code)
    BatchSize,      \* internal.ProcessingBatchSize
    MaxJoins        \* calls of AddPlayer (bound)

ASSUME QueueAssumption ==
    /\ RankValue \subseteq Nat /\ Admin \in Nat
    /\ Reserved \in Nat
    /\ BatchSize \in Nat \ {0} /\ MaxJoins \in Nat

VARIABLES
    place,    \* where the player is: in the "hub", or "gone" for good
    pq,       \* Manager.pq
    joins,    \* calls of AddPlayer so far: the clock of joinTime
    pending,  \* Manager.pendingBossBars
    right,    \* players here whose boss bar shows their place as it is now (history)
    asked     \* what each player here asked for last and has not got yet (history)

vars == <<place, pq, joins, pending, right, asked>>

Entry == [player : Player, rank : RankValue, srv : Target,
          joined : 1..MaxJoins, index : Nat \ {0}]

\* What an entry stands for, whatever its place in the array.
Request == [rank : RankValue, srv : Target, joined : 1..MaxJoins]

TypeOK ==
    /\ place \in [Player -> {"hub", "gone"}]
    /\ pq \in Seq(Entry)
    /\ joins \in 0..MaxJoins
    /\ pending \subseteq Player
    /\ right \subseteq Player
    /\ asked \in [Player -> SUBSET Request]

Init ==
    /\ place = [p \in Player |-> "hub"]
    /\ pq = <<>>
    /\ joins = 0
    /\ pending = {}
    /\ right = {}
    /\ asked = [p \in Player |-> {}]

-----------------------------------------------------------------------------
(* Queue operations *)

Waiting(q) == {q[i].player : i \in 1..Len(q)}

\* What player p waits for in line q.
Requests(q, p) ==
    {[rank |-> q[i].rank, srv |-> q[i].srv, joined |-> q[i].joined] :
        i \in {j \in 1..Len(q) : q[j].player = p}}

\* Mutant of removeByHandle: the array closes up.
removeByHandleCut(q, p) == SelectSeq(q, LAMBDA e : e.player # p)

\* Removes the entry of player p, the first one the scan of the array meets.
removeByHandle(q, p) ==
    IF p \in Waiting(q)
    THEN heapRemove(q, CHOOSE i \in 1..Len(q) :
                          /\ q[i].player = p
                          /\ \A j \in 1..(i - 1) : q[j].player # p)
    ELSE q

\* Removes entry e by the index it carries now, or else by a scan for it.
removeEntry(q, e) ==
    LET own == CHOOSE i \in 1..Len(q) : q[i].joined = e.joined
        at  == q[own].index
    IN  IF at \in 1..Len(q)
        THEN heapRemove(q, IF q[at].joined = e.joined THEN at ELSE own)
        ELSE q

\* Removes the entries that were at the places gone, in the order of the array.
removeEntries(q, gone) ==
    LET left[i \in 0..Len(q)] ==
            IF i = 0 THEN q
            ELSE IF i \in gone THEN removeEntry(left[i - 1], q[i])
            ELSE left[i - 1]
    IN  left[Len(q)]

Stale(e) == place[e.player] # "hub"

Eligible(e) ==
    LET st == status[e.srv]
    IN  /\ ~Stale(e)
        /\ st.online
        /\ st.players < MaxPlayerCount
        /\ st.players < MaxPlayerCount - Reserved \/ e.rank >= Admin

\* The place of player p in line, computed from all entries.
positionFor(q, p) ==
    LET self == q[CHOOSE i \in 1..Len(q) : q[i].player = p]
    IN  1 + Cardinality({i \in 1..Len(q) : Less(q[i], self)})

\* The players whose boss bars stay right when the line becomes q.
Unmoved(q) == {p \in right \cap Waiting(q) : positionFor(q, p) = positionFor(pq, p)}

-----------------------------------------------------------------------------
(* Handlers *)

\* Mutant of AddPlayer: only the new player is refreshed.
AddPlayerQuiet(p, r, s) ==
    /\ place[p] = "hub" /\ joins < MaxJoins
    /\ joins' = joins + 1
    /\ pq' = heapPush(removeByHandle(pq, p),
                      [player |-> p, rank |-> r, srv |-> s, joined |-> joins', index |-> 0])
    /\ pending' = pending \cup {p}
    /\ right' = Unmoved(pq')
    /\ asked' = [asked EXCEPT ![p] = {[rank |-> r, srv |-> s, joined |-> joins']}]
    /\ UNCHANGED place

\* A player asks for server s with the rank it has at that time
\* (form/server_confirm.go).  Asking again moves it to the back of its rank.
AddPlayer(p, r, s) ==
    /\ place[p] = "hub" /\ joins < MaxJoins
    /\ joins' = joins + 1
    /\ pq' = heapPush(removeByHandle(pq, p),
                      [player |-> p, rank |-> r, srv |-> s, joined |-> joins', index |-> 0])
    /\ pending' = pending \cup Waiting(pq')
    /\ right' = Unmoved(pq')
    /\ asked' = [asked EXCEPT ![p] = {[rank |-> r, srv |-> s, joined |-> joins']}]
    /\ UNCHANGED place

\* Mutant of FirstEligible: the last one.
LastEligible == {i \in 1..Len(pq) : Eligible(pq[i]) /\ \A j \in (i + 1)..Len(pq) : ~Eligible(pq[j])}

\* The entry of the first eligible player in the order of the array.
FirstEligible == {i \in 1..Len(pq) : Eligible(pq[i]) /\ \A j \in 1..(i - 1) : ~Eligible(pq[j])}

\* The entries the loop of Update meets before it stops.
Met == {i \in 1..Len(pq) : \A k \in FirstEligible : i <= k}

Removed == FirstEligible \cup {i \in Met : Stale(pq[i])}

\* Boss bars go to at most BatchSize of the pending players, in any order.
processBossBarUpdates(q, todo) ==
    \E batch \in SUBSET todo :
        /\ Cardinality(batch) = IF Cardinality(todo) < BatchSize THEN Cardinality(todo)
                                                                ELSE BatchSize
        /\ pending' = todo \ batch
        /\ right' = Unmoved(q) \cup {p \in batch \cap Waiting(q) : place[p] = "hub"}

\* Mutant of pushBack: the entry is made anew, with the time of now.
pushBackAnew(q, e) == heapPush(q, [e EXCEPT !.joined = joins + 1])

\* The entry whose transfer failed returns with its old join time.
pushBack(q, e) == heapPush(q, e)

\* Who was not served yet when the first eligible player was.
Unserved ==
    [p \in Player |-> IF \E k \in FirstEligible : pq[k].player = p THEN {} ELSE asked[p]]

\* Once a second.  The loop over the array stops at the first eligible player;
\* the stale entries it met go, and so does that player, unless the transfer
\* fails: then its entry is pushed back.
Update ==
    /\ pq # <<>>
    /\ LET kept == removeEntries(pq, Removed)
       IN  \/ pq' = kept /\ asked' = Unserved
           \/ \E k \in FirstEligible : pq' = pushBack(kept, pq[k]) /\ asked' = asked
    /\ processBossBarUpdates(pq', pending \cup IF Removed = {} THEN {} ELSE Waiting(pq'))
    /\ UNCHANGED <<place, joins>>

-----------------------------------------------------------------------------
(* Players (external) *)

\* A player leaves the hub; nothing takes its entry out of the line.
Leave(p) ==
    /\ place[p] = "hub"
    /\ place' = [place EXCEPT ![p] = "gone"]
    /\ right' = right \ {p}
    /\ asked' = [asked EXCEPT ![p] = {}]
    /\ UNCHANGED <<pq, joins, pending>>

-----------------------------------------------------------------------------
(* What may happen *)

Next ==
    \/ \E p \in Player : Leave(p)
    \/ \E p \in Player, r \in RankValue, s \in Target : AddPlayer(p, r, s)
    \/ Update

-----------------------------------------------------------------------------
(* Properties *)

\* The array stays a heap and every entry knows its index, through removals
\* from the middle, entries pushed back and players that ask again; a player
\* waits at most once, since the entry of one that asks again, or whose
\* transfer failed, replaces the old one.
LineIsSound ==
    /\ HeapOrder(pq) /\ IndexInPlace(pq)
    /\ \A i, j \in 1..Len(pq) : pq[i].player = pq[j].player => i = j

\* The number on a waiting player's boss bar is its place in line, unless a
\* refresh is scheduled: no change of the line forgets to schedule it, and no
\* early return of Update loses it.
BossBarsAreFresh ==
    \A p \in Waiting(pq) \ pending :
        place[p] = "hub" => p \in right

\* A player that is here and leaves the line was transferred.
Served(p) == place[p] = "hub" /\ p \in Waiting(pq) /\ p \notin Waiting(pq')

\* Update serves the first in line, provided nobody in line is blocked or
\* gone: it takes the first entry of the array, which is right only as long
\* as every operation keeps the array a heap.
BestIsServed ==
    [][\A i, k \in 1..Len(pq) :
          ((\A j \in 1..Len(pq) : Eligible(pq[j])) /\ Served(pq[k].player))
              => ~Less(pq[i], pq[k])]_vars

\* A player in the hub waits for what it asked for last, with the rank and the
\* join time of that request, until a transfer succeeds, and for nothing else:
\* neither a transfer that fails (manager.go:266) nor the removal of stale
\* entries around it costs its place, and a served player waits no more.
KeepsItsPlace ==
    \A p \in Player : place[p] = "hub" => Requests(pq, p) = asked[p]

=============================================================================

----------------------------- MODULE AuthHandover -----------------------------
(***************************************************************************)
(* The hand-over of a player from the hub to a downstream server.  The     *)
(* world goroutine transfers the player and then stores a token for it     *)
(* (queue/manager.go, authentication/factory.go); the downstream server    *)
(* asks the hub whether to let the player in (GET /authentication/:xuid in *)
(* pokebedrock.go).  Each request is served by a goroutine of its own,     *)
(* which takes the lock of the factory twice; the cleanup goroutine of the *)
(* factory runs beside them.                                               *)
(*                                                                         *)
(* A token is its Expiration.  Refusals (404 and 410) are not told apart;  *)
(* requests with a bad key or without xuid change nothing and are left out.*)
(***************************************************************************)
EXTENDS Integers

CONSTANTS
    Player,          \* xuids
    Nobody,          \* not an xuid
    Handler,         \* requests served at the same time (bound)
    RankValue,       \* ranks players may have
    HeadModerator,   \* rank.HeadModerator
    Duration,        \* DefaultAuthDuration
    CleanupInterval, \* cleanupInterval
    MaxTime          \* the clock stops here (bound)

ASSUME HandoverAssumption ==
    /\ Nobody \notin Player
    /\ RankValue \subseteq Nat /\ HeadModerator \in Nat
    /\ Duration \in Nat /\ CleanupInterval \in Nat \ {0} /\ MaxTime \in Nat

Never == -1      \* no token; no time
Unknown == -1    \* the rank of a player whose roles could not be fetched

VARIABLES
    now,       \* time.Now()
    rankOf,    \* highest rank of the player
    data,      \* Factory.data
    handing,   \* player that was sent a transfer but has no token yet
    due,       \* a tick waits in the channel of the cleanup ticker
    req,       \* the requests
    lastSet,   \* time of the player's last Set (history)
    raced      \* a request for the player had read its old token by then (history)

vars == <<now, rankOf, data, handing, due, req, lastSet, raced>>

Time == 0..MaxTime

Idle == [pc |-> "idle", player |-> Nobody, rank |-> Unknown, seen |-> Never, answer |-> "none"]

Request == [pc : {"idle", "roles", "of", "expired", "remove"},
            player : Player \cup {Nobody},
            rank : RankValue \cup {Unknown},
            seen : 0..(MaxTime + Duration) \cup {Never},
            answer : {"none", "allowed", "refused"}]

TypeOK ==
    /\ now \in Time
    /\ rankOf \in [Player -> RankValue]
    /\ data \in [Player -> 0..(MaxTime + Duration) \cup {Never}]
    /\ handing \in Player \cup {Nobody}
    /\ due \in BOOLEAN
    /\ req \in [Handler -> Request]
    /\ lastSet \in [Player -> Time \cup {Never}]
    /\ raced \in [Player -> BOOLEAN]

Init ==
    /\ now = 0
    /\ rankOf \in [Player -> RankValue]
    /\ data = [p \in Player |-> Never]
    /\ handing = Nobody
    /\ due = FALSE
    /\ req = [h \in Handler |-> Idle]
    /\ lastSet = [p \in Player |-> Never]
    /\ raced = [p \in Player |-> FALSE]

-----------------------------------------------------------------------------
(* The world goroutine, in Manager.Update *)

Transfer(p) ==
    /\ handing = Nobody
    /\ handing' = p
    /\ UNCHANGED <<now, rankOf, data, due, req, lastSet, raced>>

ForPlayer(p) == {h \in Handler : req[h].pc # "idle" /\ req[h].player = p}

Set ==
    /\ handing # Nobody
    /\ data' = [data EXCEPT ![handing] = now + Duration]
    /\ lastSet' = [lastSet EXCEPT ![handing] = now]
    /\ raced' = [raced EXCEPT ![handing] =
                    \E h \in ForPlayer(handing) : req[h].pc \in {"expired", "remove"}]
    /\ handing' = Nobody
    /\ UNCHANGED <<now, rankOf, due, req>>

-----------------------------------------------------------------------------
(* The handler of GET /authentication/:xuid *)

\* Mutant of After: a token is expired from the moment of its Expiration.
AfterOrAt(t) == now >= t

After(t) == now > t

Becomes(h, r) == req' = [req EXCEPT ![h] = r]

Answers(h, a) == Becomes(h, [Idle EXCEPT !.answer = a])

\* A downstream server, to which a client has come, asks; not every client
\* was sent by the hub.
Arrives(h, p) ==
    /\ req[h].pc = "idle"
    /\ Becomes(h, [Idle EXCEPT !.pc = "roles", !.player = p])
    /\ UNCHANGED <<now, rankOf, data, handing, due, lastSet, raced>>

\* RolesOfXUID and GetHighestRank; the rank service may fail.
Bypass(h) ==
    /\ req[h].pc = "roles"
    /\ \E r \in {rankOf[req[h].player], Unknown} :
          \/ r >= HeadModerator /\ Answers(h, "allowed")
          \/ r < HeadModerator /\ Becomes(h, [req[h] EXCEPT !.pc = "of", !.rank = r])
    /\ UNCHANGED <<now, rankOf, data, handing, due, lastSet, raced>>

Of(h) ==
    /\ req[h].pc = "of"
    /\ LET token == data[req[h].player]
       IN  IF token = Never THEN Answers(h, "refused")
           ELSE Becomes(h, [req[h] EXCEPT !.pc = "expired", !.seen = token])
    /\ UNCHANGED <<now, rankOf, data, handing, due, lastSet, raced>>

\* Mutant of Expired: no token is too old.
ExpiredNever(h) ==
    /\ req[h].pc = "expired"
    /\ Answers(h, "allowed")
    /\ UNCHANGED <<now, rankOf, data, handing, due, lastSet, raced>>

Expired(h) ==
    /\ req[h].pc = "expired"
    /\ IF After(req[h].seen) THEN Becomes(h, [req[h] EXCEPT !.pc = "remove"])
                             ELSE Answers(h, "allowed")
    /\ UNCHANGED <<now, rankOf, data, handing, due, lastSet, raced>>

\* Removes whatever token the player has by now.
Remove(h) ==
    /\ req[h].pc = "remove"
    /\ data' = [data EXCEPT ![req[h].player] = Never]
    /\ Answers(h, "refused")
    /\ UNCHANGED <<now, rankOf, handing, due, lastSet, raced>>

-----------------------------------------------------------------------------
(* Time and cleanup *)

\* Time passes between any two steps of a request; the cleanup does not lag.
Tick ==
    /\ ~due /\ now < MaxTime
    /\ now' = now + 1
    /\ due' = (now' % CleanupInterval = 0)
    /\ UNCHANGED <<rankOf, data, handing, req, lastSet, raced>>

\* Mutant of startCleanup: it skips the tokens that expired just now.
startCleanupLate ==
    /\ due
    /\ due' = FALSE
    /\ data' = [p \in Player |-> IF After(data[p] + 1) THEN Never ELSE data[p]]
    /\ UNCHANGED <<now, rankOf, handing, req, lastSet, raced>>

startCleanup ==
    /\ due
    /\ due' = FALSE
    /\ data' = [p \in Player |-> IF After(data[p]) THEN Never ELSE data[p]]
    /\ UNCHANGED <<now, rankOf, handing, req, lastSet, raced>>

Next ==
    \/ \E p \in Player : Transfer(p)
    \/ Set
    \/ \E h \in Handler :
          \/ \E p \in Player : Arrives(h, p)
          \/ Bypass(h) \/ Of(h) \/ Expired(h) \/ Remove(h)
    \/ Tick
    \/ startCleanup

Spec == Init /\ [][Next]_vars

-----------------------------------------------------------------------------
(* Properties *)

Gives(h, a) == req[h].pc # "idle" /\ req'[h].pc = "idle" /\ req'[h].answer = a

Recent(p) == lastSet[p] # Never /\ now <= lastSet[p] + Duration

\* Nobody but staff gets into a downstream server without having been
\* transferred there by the hub at most Duration ago, whatever happens to
\* its token between the two locks of the handler.
AdmittedAfterTransfer ==
    [][\A h \in Handler :
          Gives(h, "allowed") =>
             \/ rankOf[req[h].player] >= HeadModerator
             \/ Recent(req[h].player)]_vars

\* A player whose token was stored at most Duration ago is let in, however
\* requests, transfers and the cleanup interleave, unless a request for it was
\* between its two locks when the token was stored.
RefusedOnlyIfRaced ==
    [][\A h \in Handler :
          Gives(h, "refused") =>
             \/ ~Recent(req[h].player)
             \/ raced[req[h].player]]_vars

\* The factory does not grow for ever: a token is forgotten within a cleanup
\* interval after it expired, also the one that expires at the very moment of
\* a cleanup and survives it.
TokensAreForgotten ==
    ~due => \A p \in Player : data[p] # Never => now < data[p] + CleanupInterval

=============================================================================

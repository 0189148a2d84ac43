-------------------------------- MODULE Servers --------------------------------
(***************************************************************************)
(* The downstream servers as the hub sees them: the pings that report      *)
(* their player counts or find them offline (pokebedrock/srv/server.go,    *)
(* srv/manager.go).                                                        *)
(*                                                                         *)
(* Each ping is a goroutine, and those of one server overlap: the calls of *)
(* UpdateAll that piled up behind a wedged world owner come at once.  A    *)
(* ping has nothing to remember until it is answered or fails; one that    *)
(* has failed is then at one of the calls that follow.                     *)
(***************************************************************************)
EXTENDS Integers

CONSTANTS
    Target,         \* downstream servers (srv.Server)
    MaxPlayerCount, \* capacity of every server
    MaxRetries,     \* maxRetries of srv/server.go
    MaxPings        \* pings of a server that failed at the same time (bound)

ASSUME ServerAssumption ==
    /\ MaxPlayerCount \in Nat /\ MaxRetries \in Nat /\ MaxPings \in Nat \ {0}

VARIABLES
    status,    \* Server.status
    retries,   \* Server.retries
    pings,     \* how many failed pings of a server are at each of the calls
    failed     \* pings that failed since the last pong, while online (history)

serverVars == <<status, retries, pings, failed>>

Offline == [online |-> FALSE, players |-> 0]

Status == {Offline} \cup [online : {TRUE}, players : 0..MaxPlayerCount]

\* The calls of pingServer after Inc: reading the counter, making the server
\* offline, and resetting the counter.
Call == {"Retries", "assumeOffline", "Store"}

Under(s) == pings[s]["Retries"] + pings[s]["assumeOffline"] + pings[s]["Store"]

\* With n pings under way a round of failures may have MaxRetries + n of them
\* before the server is offline, and each ping that is late with its Store lets
\* another round begin.
Missable == MaxPings * MaxRetries + (MaxPings * (MaxPings + 1)) \div 2

ServersTypeOK ==
    /\ status \in [Target -> Status]
    /\ retries \in [Target -> 0..(MaxRetries + MaxPings)]
    /\ pings \in [Target -> [Call -> 0..MaxPings]]
    /\ failed \in [Target -> Nat]

ServersInit ==
    /\ status = [s \in Target |-> Offline]
    /\ retries = [s \in Target |-> 0]
    /\ pings = [s \in Target |-> [c \in Call |-> 0]]
    /\ failed = [s \in Target |-> 0]

-----------------------------------------------------------------------------
(* pingServer *)

\* The pong carries the player count of this moment.  It leaves the counter of
\* failures alone.
PingAnswered(s) ==
    /\ \E n \in 0..MaxPlayerCount :
          status' = [status EXCEPT ![s] = [online |-> TRUE, players |-> n]]
    /\ failed' = [failed EXCEPT ![s] = 0]
    /\ UNCHANGED <<retries, pings>>

\* The ping fails, and is counted.
PingFailed(s) ==
    /\ Under(s) < MaxPings
    /\ retries' = [retries EXCEPT ![s] = @ + 1]
    /\ pings' = [pings EXCEPT ![s]["Retries"] = @ + 1]
    /\ failed' = IF status[s].online THEN [failed EXCEPT ![s] = @ + 1] ELSE failed
    /\ UNCHANGED status

\* Mutant of Exhausted: off by one.
ExhaustedLate(s) == retries[s] > MaxRetries + 1

Exhausted(s) == retries[s] > MaxRetries

\* The counter is read, which may have other failures in it by now.
Retries(s) ==
    /\ pings[s]["Retries"] > 0
    /\ pings' = [pings EXCEPT ![s]["Retries"] = @ - 1,
                              ![s]["assumeOffline"] = IF Exhausted(s) THEN @ + 1 ELSE @]
    /\ UNCHANGED <<status, retries, failed>>

assumeOffline(s) ==
    /\ pings[s]["assumeOffline"] > 0
    /\ status' = [status EXCEPT ![s] = Offline]
    /\ pings' = [pings EXCEPT ![s]["assumeOffline"] = @ - 1, ![s]["Store"] = @ + 1]
    /\ failed' = [failed EXCEPT ![s] = 0]
    /\ UNCHANGED retries

\* The counter is reset, with all that was counted since it was read.
Store(s) ==
    /\ pings[s]["Store"] > 0
    /\ pings' = [pings EXCEPT ![s]["Store"] = @ - 1]
    /\ retries' = [retries EXCEPT ![s] = 0]
    /\ UNCHANGED <<status, failed>>

pingServer(s) == PingAnswered(s) \/ PingFailed(s) \/ Retries(s) \/ assumeOffline(s) \/ Store(s)

ServersNext == \E s \in Target : pingServer(s)

ServersSpec == ServersInit /\ [][ServersNext]_serverVars

-----------------------------------------------------------------------------
(* Properties *)

\* A server that stopped answering is not offered for ever: as long as it is
\* shown online, a bounded number of pings have failed since its last pong,
\* although the counter of failures counts across pongs, and overlapping pings
\* read and reset what others have counted.
OnlineIsRecent == \A s \in Target : status[s].online => failed[s] <= Missable

=============================================================================

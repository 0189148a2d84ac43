------------------------------- MODULE HubClose -------------------------------
(***************************************************************************)
(* The shutdown of the hub (PokeBedrock.Close in pokebedrock.go), after    *)
(* the loop of Accept has ended: one service is stopped after the other,   *)
(* and some of them are waited for.  Connections are still checked, and    *)
(* verdicts stored, while it lasts.  VpnCache and DetailsWorker have the   *)
(* services with goroutines that Close meets while they work.  The waits   *)
(* for the other workers end after three seconds at the latest; those for  *)
(* the flusher, for the close of the server (dragonfly's, external and     *)
(* taken to return) and for the save loop of the leaderboard have no limit.*)
(***************************************************************************)
EXTENDS VpnCache, DetailsWorker, Sequences, SequencesExt

\* The calls of Close; main returns after the last one.
Services == <<"watchdog", "moderation", "rank", "vpn", "restart", "rank channel",
              "infliction worker", "ticking", "server", "parkour">>

Ended == Len(Services) + 1

VARIABLES
    at,        \* the call Close is in, 0 before and Ended after all
    snapshots  \* leaderboards the save loop has still to write, from Close on

hubVars == <<vars, detailsVars, at, snapshots>>

HubTypeOK == TypeOK /\ DetailsTypeOK /\ at \in 0..Ended /\ snapshots \in 0..2

HubInit == Init /\ DetailsInit /\ at = 0 /\ snapshots = 0

-----------------------------------------------------------------------------

\* The accept loop: a player has joined.
Accept == at = 0 /\ SendDetailsOf /\ UNCHANGED <<vars, at, snapshots>>

InCall(service) == at \in 1..Len(Services) /\ Services[at] = service

\* Mutant of Returns: the moderation service waits for its worker.
ReturnsDrained ==
    /\ at < Ended
    /\ InCall("moderation") => worker.pc = "done"
    /\ InCall("vpn") => flusher.pc = "stopped"
    /\ InCall("parkour") => snapshots = 0

\* Mutant of Returns: the VPN service does not wait for the flusher.
ReturnsAtOnce ==
    /\ at < Ended
    /\ InCall("parkour") => snapshots = 0

\* The call that Close is in returns.
Returns ==
    /\ at < Ended
    /\ InCall("vpn") => flusher.pc = "stopped"
    /\ InCall("parkour") => snapshots = 0

\* It does, and Close makes the next one.  When the leaderboard is closed its
\* save loop may have a snapshot in its hands and one in its channel.
CloseGoesOn ==
    /\ Returns
    /\ at' = at + 1
    /\ IF InCall("moderation")' THEN DetailsStop ELSE UNCHANGED detailsVars
    /\ IF InCall("vpn")' THEN Stop ELSE UNCHANGED vars
    /\ IF InCall("parkour")' THEN snapshots' \in 0..2 ELSE UNCHANGED snapshots

Running == at < Ended

Check ==
    /\ Running
    /\ \E a \in Address : Signal(a) \/ \E verdict \in {"proxy", "clean"} : Set(a, verdict)
    /\ UNCHANGED <<detailsVars, at, snapshots>>

Flushes == Running /\ Flusher /\ UNCHANGED <<detailsVars, at, snapshots>>

Details == Running /\ DetailsSteps /\ UNCHANGED <<vars, at, snapshots>>

\* The save loop has written a snapshot, or failed to.
SaveSnapshot ==
    /\ Running
    /\ snapshots > 0 /\ snapshots' = snapshots - 1
    /\ UNCHANGED <<vars, detailsVars, at>>

\* The hub is killed, or has ended, and is started again.
Restart ==
    /\ Crash
    /\ queued' = 0 /\ marked' = Unmarked /\ worker' = At("select")
    /\ semaphore' = 0 /\ activeRequests' = 0 /\ posting' = 0 /\ returning' = 0
    /\ shutdown' = FALSE /\ at' = 0 /\ snapshots' = 0

Time == Running /\ Tick /\ UNCHANGED <<detailsVars, at, snapshots>>

HubNext == Accept \/ CloseGoesOn \/ Check \/ Flushes \/ Details \/ SaveSnapshot \/ Restart \/ Time

\* Goroutines run, requests time out; nobody has to close the hub.  A select
\* with several cases that are ready takes each of them in the long run.
HubFairness ==
    /\ WF_hubVars(at > 0 /\ CloseGoesOn)
    /\ WF_hubVars(Flushes)
    /\ WF_hubVars(SaveSnapshot)
    /\ SF_hubVars(Running /\ Stopping /\ UNCHANGED <<detailsVars, at, snapshots>>)
    /\ WF_hubVars(Running /\ DetailsWork /\ UNCHANGED <<vars, at, snapshots>>)
    /\ WF_hubVars(Running /\ sendPlayerDetails /\ UNCHANGED <<vars, at, snapshots>>)
    /\ WF_hubVars(Running /\ Return /\ UNCHANGED <<vars, at, snapshots>>)

HubSpec == HubInit /\ [][HubNext]_hubVars /\ HubFairness

-----------------------------------------------------------------------------
(* Properties *)

\* A shutdown ends, whatever requests, checks and failed writes it meets, and
\* although goroutines of the details worker may be left behind blocked.
CloseEnds == at > 0 ~> at \in {0, Ended}

\* An orderly shutdown loses no verdict that was there when the VPN service was
\* stopped: when main returns the file has it, unless the last write has failed.
EndedWithVerdicts ==
    (at = Ended /\ ~failed) => \A a \in settled : Loaded(file)[a] = data[a]

=============================================================================

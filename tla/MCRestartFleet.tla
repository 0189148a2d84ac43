---------------------------- MODULE MCRestartFleet ----------------------------
(***************************************************************************)
(* Instances of RestartFleet for TLC: three servers that wait for their    *)
(* turn as long as it takes, and two that may also restart without         *)
(* permission, with a hub that crashes once.                               *)
(***************************************************************************)
EXTENDS RestartFleet

VARIABLE away         \* a server that takes no part in this behaviour

MCInit == FleetInit /\ away \in {{}} \cup {{s} : s \in Server}

MCNext ==
    /\ UNCHANGED away
    /\ FleetNext
    /\ IF away = {}
       THEN life' = 1 /\ \A s \in Server : mode'[s] = "down" => permit'[s] # 0
       ELSE \A s \in away : mode'[s] = "up"

MCSpec == MCInit /\ [][MCNext]_<<allVars, away>>

Symmetric == Permutations(Server)

=============================================================================

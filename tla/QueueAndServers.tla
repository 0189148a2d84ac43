---------------------------- MODULE QueueAndServers ----------------------------
(***************************************************************************)
(* The waiting line (PlayerQueue) and the pings of the servers it fills    *)
(* (Servers), which run beside the world owner and store the status that   *)
(* Update reads.                                                           *)
(***************************************************************************)
EXTENDS PlayerQueue

allVars == <<vars, serverVars>>

AllTypeOK == TypeOK /\ ServersTypeOK

AllInit == Init /\ ServersInit

AllNext ==
    \/ Next /\ UNCHANGED serverVars
    \/ ServersNext /\ UNCHANGED vars

AllSpec == AllInit /\ [][AllNext]_allVars

=============================================================================

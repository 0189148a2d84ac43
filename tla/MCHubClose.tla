------------------------------ MODULE MCHubClose ------------------------------
(***************************************************************************)
(* Instances of HubClose for TLC.  Verdicts and requests meet nowhere but  *)
(* in Close: a behaviour has connections that are checked, or players that *)
(* join, and the shutdown of everything in both.  One check at a time is   *)
(* between storing its verdict and signalling, and the addresses of Steady *)
(* are never proxies.                                                      *)
(***************************************************************************)
EXTENDS HubClose

CONSTANT Steady       \* addresses

VARIABLE kind         \* the kind of this behaviour

MCVars == <<hubVars, kind>>

MCInit == HubInit /\ kind \in {"checks", "joins"}

MCNext ==
    /\ HubNext
    /\ UNCHANGED kind
    /\ kind = "checks" => queued' = 0
    /\ kind = "joins" => data' = data
    /\ \A a \in Steady : data'[a] # "proxy"
    /\ Cardinality(signalling') <= 1

MCSpec == MCInit /\ [][MCNext]_MCVars /\ HubFairness

=============================================================================

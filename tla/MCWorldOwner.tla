----------------------------- MODULE MCWorldOwner -----------------------------
(***************************************************************************)
(* Instances of WorldOwner for TLC.  Who is idle and who is hidden do not  *)
(* depend on each other, and neither on the watchdog but for the owner: a  *)
(* behaviour has idle players, or players that hide others, both without   *)
(* the watchdog, or few idle players with the watchdog and wedges.         *)
(***************************************************************************)
EXTENDS WorldOwner, TLC

CONSTANT Few          \* players at a time in a behaviour with wedges

VARIABLE kind         \* the kind of this behaviour

MCCondition == <<Stall, "goroutine_pileup", "heap_pressure">>

MCInit == Init /\ kind \in {"idle", "hiding", "wedges"}

MCNext ==
    /\ Next
    /\ UNCHANGED kind
    /\ kind # "hiding" => UNCHANGED hidden
    /\ kind = "hiding" => UNCHANGED ticks
    /\ kind = "wedges" => Cardinality(here') <= Few
    /\ kind # "wedges" => dog'.pc = "stopped" /\ ~wedged'

MCSpec == MCInit /\ [][MCNext]_<<vars, kind>>

Symmetric == Permutations(Player)

=============================================================================

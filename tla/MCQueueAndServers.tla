--------------------------- MODULE MCQueueAndServers ---------------------------
(***************************************************************************)
(* Instances of QueueAndServers for TLC.  The line sees of the pings only  *)
(* the status they store: a behaviour has a long line and any change of    *)
(* the status, whatever pings have found, or a short line and the pings,   *)
(* failed ones of one server at a time: each server has its own counter.   *)
(* The heap's up and down are compared with their loops on all short       *)
(* arrays.                                                                 *)
(***************************************************************************)
EXTENDS QueueAndServers, HeapLoops, TLC

CONSTANT Few          \* calls of AddPlayer in a behaviour with pings

VARIABLE kind         \* the kind of this behaviour

MCInit == AllInit /\ kind \in {"line", "pings"}

\* Pings have found anything.
AnyStatus ==
    /\ \E s \in Target, st \in Status : status' = [status EXCEPT ![s] = st]
    /\ UNCHANGED <<vars, retries, pings, failed>>

MCNext ==
    /\ UNCHANGED kind
    /\ \/ kind = "line" /\ ((Next /\ UNCHANGED serverVars) \/ AnyStatus)
       \/ /\ kind = "pings" /\ AllNext
          /\ joins' <= Few
          /\ \A s, t \in Target : Under(s)' > 0 /\ Under(t)' > 0 => s = t

MCSpec == MCInit /\ [][MCNext]_<<allVars, kind>>

\* Every array of up to four entries with these ranks and join times.
Arrays ==
    LET Numbered(a) == [k \in DOMAIN a |->
                           [rank |-> a[k].rank, joined |-> a[k].joined, index |-> k]]
    IN  UNION {{Numbered(a) : a \in [1..n -> [rank : 0..1, joined : 1..3]]} : n \in 0..4}

ASSUME LoopsAgree == \A q \in Arrays : Agree(q)

Symmetric == Permutations(Player) \cup Permutations(Target)

=============================================================================

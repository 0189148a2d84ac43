------------------------------ MODULE WorldOwner ------------------------------
(***************************************************************************)
(* The owner of the hub's world, which runs one task after the other:      *)
(* joins, moves, toggles and quits of the players, the task that           *)
(* startTicking posts each second (pokebedrock/pokebedrock.go), and the    *)
(* probes of the watchdog.  A task that does not come back blocks them     *)
(* all, while the tasks of startTicking go on to pile up.                  *)
(***************************************************************************)
EXTENDS AfkCheck, Watchdog, Hider

CONSTANT MaxTicks      \* tasks of startTicking, more are not told apart

ASSUME WorldOwnerAssumption == MaxTicks \in Nat \ {0} /\ Npc \cap Player = {}

VARIABLE ticks         \* tasks of startTicking that wait for the owner

vars == <<afkVars, dogVars, hiderVars, ticks>>

TypeOK ==
    /\ AfkTypeOK /\ WatchdogTypeOK /\ HiderTypeOK(Player)
    /\ ticks \in 0..MaxTicks

Init == AfkInit /\ WatchdogInit /\ HiderInit /\ ticks = 0

Present == here \cup Npc

-----------------------------------------------------------------------------
(* Tasks of the owner *)

\* accept, and HandleJoin of the handler.
Join(p) ==
    /\ ~wedged
    /\ Joined(p) /\ HiderJoin(p, Present)
    /\ UNCHANGED <<dogVars, ticks>>

Move(p) ==
    /\ ~wedged
    /\ Moved(p)
    /\ UNCHANGED <<dogVars, hiderVars, ticks>>

Toggle(p) ==
    /\ ~wedged /\ p \in here
    /\ HiderToggle(p, Present, Player)
    /\ UNCHANGED <<afkVars, dogVars, ticks>>

Quit(p) ==
    /\ ~wedged
    /\ Left(p) /\ HiderQuit({p})
    /\ UNCHANGED <<dogVars, ticks>>

\* The task of startTicking, as far as the players go.
TickRuns ==
    /\ ~wedged /\ ticks > 0
    /\ ticks' \in {ticks - 1} \cup (IF ticks = MaxTicks THEN {ticks} ELSE {})
    /\ doAFKCheck /\ HiderQuit(here \ here')
    /\ UNCHANGED dogVars

-----------------------------------------------------------------------------

\* An owner that is free is done with its tasks within the second.
Second ==
    /\ wedged \/ ticks = 0
    /\ Elapse /\ SecondIdle
    /\ ticks' = IF ticks < MaxTicks THEN ticks + 1 ELSE ticks
    /\ UNCHANGED hiderVars

Watches == (Wedge \/ Recover \/ Loop \/ StopDog) /\ UNCHANGED <<afkVars, hiderVars, ticks>>

Next ==
    \/ \E p \in Player : Join(p) \/ Move(p) \/ Toggle(p) \/ Quit(p)
    \/ TickRuns \/ Second \/ Watches

Spec == Init /\ [][Next]_vars

-----------------------------------------------------------------------------
(* Properties *)

\* Each player sees whom it should, over toggles, joins, quits and kicks.
HiddenAsToggled == SeesAsToggled(here)

=============================================================================

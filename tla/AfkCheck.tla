------------------------------- MODULE AfkCheck -------------------------------
(***************************************************************************)
(* Idle players of the hub: the warnings they get, and who is kicked when  *)
(* the hub is near capacity (doAFKCheck in pokebedrock/pokebedrock.go,     *)
(* session/movement.go).  The check runs once a second on the world owner, *)
(* between the moves of the players.                                       *)
(*                                                                         *)
(* A flag of a player's Movement is its membership in a set; setting it    *)
(* sends the warning.  Times idle grow up to AFKTimeout + Spread, longer   *)
(* ones are not told apart.  WorldOwner has the steps of the owner.        *)
(***************************************************************************)
EXTENDS Integers, FiniteSets

CONSTANTS
    Player,
    MaxCount,             \* UserConfig.Players.MaxCount
    Num, Den,             \* AFKFullnessThreshold is Num / Den
    AFKWarnApproaching, AFKMarkAFK, AFKFinalWarning, AFKTimeout,
    Spread                \* differences of time idle beyond AFKTimeout (bound)

ASSUME AfkAssumption ==
    /\ MaxCount \in Nat /\ Num \in Nat /\ Den \in Nat \ {0} /\ Num <= Den
    /\ AFKWarnApproaching \in Nat /\ AFKMarkAFK \in Nat
    /\ AFKFinalWarning \in Nat /\ AFKTimeout \in Nat /\ Spread \in Nat

VARIABLES
    here,          \* players in the hub
    idle,          \* time since LastMoveTime
    approaching,   \* WarnedApproaching
    marked,        \* MarkedAFK
    final,         \* WarnedFinal
    told           \* warnings sent to a player since its last move (history)

afkVars == <<here, idle, approaching, marked, final, told>>

Longest == AFKTimeout + Spread

AfkTypeOK ==
    /\ here \subseteq Player
    /\ idle \in [Player -> 0..Longest]
    /\ approaching \subseteq Player /\ marked \subseteq Player /\ final \subseteq Player
    /\ told \subseteq Player \X {"approaching", "marked", "final"}

AfkInit ==
    /\ here = {} /\ idle = [p \in Player |-> 0]
    /\ approaching = {} /\ marked = {} /\ final = {} /\ told = {}

-----------------------------------------------------------------------------

Moves(p) ==
    /\ idle' = [idle EXCEPT ![p] = 0]
    /\ told' = {t \in told : t[1] # p}

\* Mutant of Rearmed: the hard warning is not armed again.
RearmedSoft(p) ==
    /\ Moves(p)
    /\ approaching' = approaching \ {p} /\ marked' = marked \ {p} /\ UNCHANGED final

\* NewMovement, and SetLastMoveTime with a horizontal move.
Rearmed(p) ==
    /\ Moves(p)
    /\ approaching' = approaching \ {p} /\ marked' = marked \ {p} /\ final' = final \ {p}

Moved(p) == p \in here /\ Rearmed(p) /\ UNCHANGED here

Joined(p) == p \notin here /\ here' = here \cup {p} /\ Rearmed(p)

\* The Movement is gone with the player.
Left(p) == p \in here /\ here' = here \ {p} /\ Rearmed(p)

SecondIdle ==
    /\ idle' = [p \in Player |-> IF p \in here /\ idle[p] < Longest THEN idle[p] + 1 ELSE idle[p]]
    /\ UNCHANGED <<here, approaching, marked, final, told>>

-----------------------------------------------------------------------------
(* doAFKCheck *)

IdleFor(d) == {p \in here : idle[p] >= d}

\* The hub with n players is at or above the threshold.
Full(n) == MaxCount > 0 /\ n * Den >= Num * MaxCount

\* int(float64(maxPlayers) * cfg.AFKFullnessThreshold)
thresholdCount == (MaxCount * Num) \div Den

eligible == IF Full(Cardinality(here)) THEN IdleFor(AFKTimeout) ELSE {}

\* Mutant of Kicks: one player is spared.
KicksLess(kicked) ==
    /\ kicked \subseteq eligible
    /\ \A p \in kicked, q \in eligible \ kicked : idle[p] >= idle[q]
    /\ Cardinality(kicked) <= 1

\* The longest idle go first, as long as thresholdCount players remain.
Kicks(kicked) ==
    /\ kicked \subseteq eligible
    /\ \A p \in kicked, q \in eligible \ kicked : idle[p] >= idle[q]
    /\ kicked # {} => Cardinality(here \ kicked) + 1 >= thresholdCount
    /\ kicked = eligible \/ Cardinality(here \ kicked) < thresholdCount

\* A warning goes to those whose flag is not set.
Warns ==
    /\ approaching' = approaching \cup IdleFor(AFKWarnApproaching)
    /\ marked' = marked \cup IdleFor(AFKMarkAFK)
    /\ final' = IF Full(Cardinality(here)) THEN final \cup IdleFor(AFKFinalWarning) ELSE final
    /\ told' = told \cup (approaching' \ approaching) \X {"approaching"}
                    \cup (marked' \ marked) \X {"marked"}
                    \cup (final' \ final) \X {"final"}

doAFKCheck ==
    /\ Warns
    /\ \E kicked \in SUBSET here : Kicks(kicked) /\ here' = here \ kicked
    /\ UNCHANGED idle

-----------------------------------------------------------------------------
(* Properties *)

\* A check relieves the hub: afterwards it is below the threshold, or nobody
\* is left who has been idle for AFKTimeout.
CheckRelieves ==
    [][doAFKCheck =>
          \/ ~Full(Cardinality(here'))
          \/ \A p \in here' : idle[p] < AFKTimeout]_afkVars

\* Nobody is kicked without having been sent all three warnings, in this visit
\* and since the last move, although each is sent only once (others that leave
\* do so one by one, and the ones that have moved lately are not kicked).
KickedWereTold ==
    [][\A p \in here \ here' :
          (doAFKCheck /\ idle[p] >= AFKTimeout)
          => {p} \X {"approaching", "marked", "final"} \subseteq told']_afkVars

=============================================================================

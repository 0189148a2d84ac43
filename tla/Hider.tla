-------------------------------- MODULE Hider --------------------------------
(***************************************************************************)
(* Players that hide the others (pokebedrock/hider/hider.go).  The manager *)
(* has a flag for each player that hides; who is hidden is kept by the     *)
(* sessions of dragonfly, one pair for each call of HideEntity.  Whether a *)
(* session forgets a hidden player that quits is up to dragonfly.          *)
(*                                                                         *)
(* The steps are those of the owner of the world; present stands for       *)
(* tx.Players(), which has the players and the NPCs.                       *)
(***************************************************************************)

CONSTANT Npc        \* NPCs of slappers and parkour courses

VARIABLES
    hidden,         \* Manager.hidden: who hides the others
    hides,          \* <<viewer, other>>: the session of viewer hides other
    missed          \* <<viewer, other>>: other was away at showAll (history)

hiderVars == <<hidden, hides, missed>>

HiderTypeOK(players) ==
    /\ hidden \subseteq players
    /\ hides \subseteq players \X (players \cup Npc)
    /\ missed \subseteq players \X players

HiderInit == hidden = {} /\ hides = {} /\ missed = {}

-----------------------------------------------------------------------------

exempted == Npc

hasHidden(p) == p \in hidden

setHidden(ps, on) == hidden' = IF on THEN hidden \cup ps ELSE hidden \ ps

hideAll(p, present) == hides' = hides \cup {p} \X (present \ ({p} \cup exempted))

showAll(p, present) == hides' = hides \ {p} \X (present \ {p})

\* Toggle, by the item of player p.
HiderToggle(p, present, players) ==
    \/ /\ hasHidden(p)
       /\ showAll(p, present)
       /\ setHidden({p}, FALSE)
       /\ missed' = {m \in missed : m[1] # p} \cup {p} \X (players \ present)
    \/ /\ ~hasHidden(p)
       /\ hideAll(p, present)
       /\ setHidden({p}, TRUE)
       /\ UNCHANGED missed

\* HandleJoin: p is hidden from those that hide.
HiderJoin(p, present) ==
    /\ hides' = hides \cup (hidden \cap (present \ {p})) \X {p}
    /\ UNCHANGED <<hidden, missed>>

\* Mutant of HiderQuit: the flag stays.
HiderQuitKeeps(gone) ==
    /\ UNCHANGED hidden
    /\ \E kept \in SUBSET {h \in hides : h[2] \in gone} :
          hides' = {h \in hides : h[1] \notin gone /\ (h[2] \in gone => h \in kept)}
    /\ missed' = {m \in missed : m[1] \notin gone}

\* HandleQuit, and the end of the session; other sessions may keep the pair.
HiderQuit(gone) ==
    /\ setHidden(gone, FALSE)
    /\ \E kept \in SUBSET {h \in hides : h[2] \in gone} :
          hides' = {h \in hides : h[1] \notin gone /\ (h[2] \in gone => h \in kept)}
    /\ missed' = {m \in missed : m[1] \notin gone}

-----------------------------------------------------------------------------
(* Properties *)

\* A player that hides sees nobody but NPCs, whoever came when; one that does
\* not hide sees everybody, except a player that was away when it showed all,
\* and that its session still hides.
SeesAsToggled(players) ==
    \A v \in players :
        /\ v \in hidden => \A p \in players \ {v} : <<v, p>> \in hides
        /\ v \notin hidden => \A p \in players : <<v, p>> \in hides => <<v, p>> \in missed
        /\ \A n \in Npc : <<v, n>> \notin hides

=============================================================================

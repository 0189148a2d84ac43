--------------------------- MODULE WorldOwner_proofs ---------------------------
(***************************************************************************)
(* Proofs about the tasks of the world owner and of the loader of ranks,   *)
(* which posts one, for any players, capacities, accounts and times.       *)
(*                                                                         *)
(* HiderInv is about the pairs of the sessions: whom a session hides       *)
(* although its player does not hide anybody, it is bound to have missed,  *)
(* be that player here or away.  AfkInv ties the flags of a Movement to    *)
(* the warnings that were sent.  DogInv bounds how far away the next log   *)
(* of a stall is, wherever the watchdog is in its loop.  RankInv says how  *)
(* the load that makes ranks and name tag true again is under way.         *)
(***************************************************************************)
EXTENDS WorldOwner, RankSync, FiniteSetTheorems, SequenceTheorems, WellFoundedInduction, TLAPS

-----------------------------------------------------------------------------
(* The inductive invariants *)

\* Sessions hide players, of others, and are those of players in the hub.
PairsOfSessions ==
    /\ hides \subseteq here \X Player
    /\ \A h \in hides : h[1] # h[2]

HidesAllOthers == \A v \in hidden, p \in here : p # v => <<v, p>> \in hides

HidesOnlyMissed == \A h \in hides : h[1] \notin hidden => h \in missed

HiderInv ==
    /\ here \subseteq Player /\ hidden \subseteq here
    /\ PairsOfSessions
    /\ HidesAllOthers
    /\ HidesOnlyMissed

FlagMeansTold ==
    /\ \A p \in approaching : <<p, "approaching">> \in told
    /\ \A p \in marked : <<p, "marked">> \in told
    /\ \A p \in final : <<p, "final">> \in told

AfkInv == AfkTypeOK /\ IsFiniteSet(here) /\ FlagMeansTold

-----------------------------------------------------------------------------
(* The hider *)

LEMMA NpcsAreNoPlayers == \A p \in Player : p \notin Npc
  BY WorldOwnerAssumption

LEMMA JoinKeeps ==
    ASSUME HiderInv, NEW p \in Player, Joined(p), HiderJoin(p, Present)
    PROVE  HiderInv'
<1>1. /\ p \notin here /\ here' = here \cup {p} /\ hidden' = hidden /\ missed' = missed
      /\ hides' = hides \cup (hidden \cap (Present \ {p})) \X {p}
  BY DEF Joined, HiderJoin
<1>2. hidden \cap (Present \ {p}) = hidden
  BY <1>1 DEF HiderInv, Present
<1>3. hides' = hides \cup hidden \X {p}
  BY <1>1, <1>2
<1>4. here' \subseteq Player /\ hidden' \subseteq here'
  BY <1>1 DEF HiderInv
<1>5. PairsOfSessions'
  BY <1>1, <1>3 DEF HiderInv, PairsOfSessions
<1>6. HidesAllOthers'
  BY <1>1, <1>3 DEF HiderInv, HidesAllOthers
<1>7. HidesOnlyMissed'
  BY <1>1, <1>3 DEF HiderInv, HidesOnlyMissed
<1>8. QED
  BY <1>4, <1>5, <1>6, <1>7 DEF HiderInv

LEMMA ToggleKeeps ==
    ASSUME HiderInv, NEW p \in here, UNCHANGED here, HiderToggle(p, Present, Player)
    PROVE  HiderInv'
<1>1. p \in Player /\ here' = here /\ here \subseteq Player /\ hidden \subseteq here
  BY DEF HiderInv
<1>2. CASE p \in hidden
  <2>1. /\ hides' = hides \ {p} \X (Present \ {p})
        /\ hidden' = hidden \ {p}
        /\ missed' = {m \in missed : m[1] # p} \cup {p} \X (Player \ Present)
    BY <1>2 DEF HiderToggle, hasHidden, showAll, setHidden
  <2>2. PairsOfSessions'
    BY <1>1, <2>1 DEF HiderInv, PairsOfSessions
  <2>3. HidesAllOthers'
    BY <1>1, <2>1 DEF HiderInv, HidesAllOthers
  <2>4. HidesOnlyMissed'
    <3>1. SUFFICES ASSUME NEW h \in hides', h[1] \notin hidden' PROVE h \in missed'
      BY DEF HidesOnlyMissed
    <3>2. /\ h \in hides /\ h = <<h[1], h[2]>> /\ h[1] \in here /\ h[2] \in Player
          /\ h[1] # h[2]
      BY <2>1, <3>1 DEF HiderInv, PairsOfSessions
    <3>3. CASE h[1] = p
      <4>1. h[2] \notin Present
        BY <2>1, <3>1, <3>2, <3>3
      <4>2. QED
        BY <2>1, <3>2, <3>3, <4>1
    <3>4. CASE h[1] # p
      BY <2>1, <3>1, <3>2, <3>4 DEF HiderInv, HidesOnlyMissed
    <3>5. QED
      BY <3>3, <3>4
  <2>5. QED
    BY <1>1, <2>1, <2>2, <2>3, <2>4 DEF HiderInv
<1>3. CASE p \notin hidden
  <2>1. /\ hides' = hides \cup {p} \X (Present \ ({p} \cup exempted))
        /\ hidden' = hidden \cup {p} /\ missed' = missed
    BY <1>3 DEF HiderToggle, hasHidden, hideAll, setHidden
  <2>2. Present \ ({p} \cup exempted) = here \ {p}
    BY <1>1, NpcsAreNoPlayers DEF Present, exempted
  <2>3. hides' = hides \cup {p} \X (here \ {p})
    BY <2>1, <2>2
  <2>4. PairsOfSessions'
    BY <1>1, <2>3 DEF HiderInv, PairsOfSessions
  <2>5. HidesAllOthers'
    BY <1>1, <2>1, <2>3 DEF HiderInv, HidesAllOthers
  <2>6. HidesOnlyMissed'
    BY <1>1, <2>1, <2>3 DEF HiderInv, HidesOnlyMissed
  <2>7. QED
    BY <1>1, <2>1, <2>4, <2>5, <2>6 DEF HiderInv
<1>4. QED
  BY <1>2, <1>3

LEMMA QuitKeeps ==
    ASSUME HiderInv, NEW gone, here' = here \ gone, HiderQuit(gone)
    PROVE  HiderInv'
<1>1. hidden' = hidden \ gone /\ missed' = {m \in missed : m[1] \notin gone}
  BY DEF HiderQuit, setHidden
<1>2. PICK kept \in SUBSET {h \in hides : h[2] \in gone} :
         hides' = {h \in hides : h[1] \notin gone /\ (h[2] \in gone => h \in kept)}
  BY DEF HiderQuit
<1>3. here' \subseteq Player /\ hidden' \subseteq here'
  BY <1>1 DEF HiderInv
<1>4. PairsOfSessions'
  BY <1>2 DEF HiderInv, PairsOfSessions
<1>5. HidesAllOthers'
  BY <1>1, <1>2 DEF HiderInv, HidesAllOthers
<1>6. HidesOnlyMissed'
  BY <1>1, <1>2 DEF HiderInv, HidesOnlyMissed, PairsOfSessions
<1>7. QED
  BY <1>3, <1>4, <1>5, <1>6 DEF HiderInv

LEMMA HiderNextInv == HiderInv /\ [Next]_vars => HiderInv'
<1> SUFFICES ASSUME HiderInv, [Next]_vars PROVE HiderInv'
  OBVIOUS
<1>1. ASSUME NEW p \in Player, Join(p) PROVE HiderInv'
  BY <1>1, JoinKeeps DEF Join
<1>2. ASSUME NEW p \in Player, Toggle(p) PROVE HiderInv'
  BY <1>2, ToggleKeeps DEF Toggle, afkVars
<1>3. ASSUME NEW p \in Player, Quit(p) PROVE HiderInv'
  BY <1>3, QuitKeeps DEF Quit, Left
<1>4. CASE TickRuns
  <2>1. here' \subseteq here
    BY <1>4 DEF TickRuns, doAFKCheck
  <2>2. here' = here \ (here \ here')
    BY <2>1
  <2>3. QED
    BY <1>4, <2>2, QuitKeeps DEF TickRuns
<1>5. ASSUME UNCHANGED <<here, hiderVars>> PROVE HiderInv'
  BY <1>5
  DEF hiderVars, HiderInv, PairsOfSessions, HidesAllOthers, HidesOnlyMissed
<1>6. QED
  BY <1>1, <1>2, <1>3, <1>4, <1>5
  DEF Next, vars, afkVars, Move, Moved, Second, SecondIdle, Watches

-----------------------------------------------------------------------------
(* The AFK check *)

LEMMA RearmedKeeps ==
    ASSUME AfkInv, NEW p \in Player, Rearmed(p), here' \subseteq Player, IsFiniteSet(here')
    PROVE  AfkInv'
<1>1. /\ idle' = [idle EXCEPT ![p] = 0]
      /\ told' = {t \in told : t[1] # p}
      /\ approaching' = approaching \ {p} /\ marked' = marked \ {p} /\ final' = final \ {p}
  BY DEF Rearmed, Moves
<1>2. 0 \in 0..Longest
  BY AfkAssumption DEF Longest
<1>3. AfkTypeOK'
  BY <1>1, <1>2 DEF AfkInv, AfkTypeOK
<1>4. FlagMeansTold'
  BY <1>1 DEF AfkInv, FlagMeansTold
<1>5. QED
  BY <1>3, <1>4 DEF AfkInv

LEMMA CheckKeeps == ASSUME AfkInv, doAFKCheck PROVE AfkInv'
<1>1. here' \subseteq here /\ idle' = idle /\ IsFiniteSet(here')
  <2>1. here' \subseteq here /\ idle' = idle
    BY DEF doAFKCheck
  <2>2. QED
    BY <2>1, FS_Subset DEF AfkInv
<1>2. \A d : IdleFor(d) \subseteq here
  BY DEF IdleFor
<1>3. /\ approaching' \subseteq Player /\ marked' \subseteq Player /\ final' \subseteq Player
      /\ approaching \subseteq approaching' /\ marked \subseteq marked' /\ final \subseteq final'
  BY <1>2 DEF doAFKCheck, Warns, AfkInv, AfkTypeOK
<1>4. told' = told \cup (approaching' \ approaching) \X {"approaching"}
                   \cup (marked' \ marked) \X {"marked"}
                   \cup (final' \ final) \X {"final"}
  BY DEF doAFKCheck, Warns
<1>5. AfkTypeOK'
  BY <1>1, <1>3, <1>4 DEF AfkInv, AfkTypeOK
<1>6. FlagMeansTold'
  BY <1>3, <1>4 DEF AfkInv, FlagMeansTold
<1>7. QED
  BY <1>1, <1>5, <1>6 DEF AfkInv

LEMMA AfkNextInv == AfkInv /\ [Next]_vars => AfkInv'
<1> SUFFICES ASSUME AfkInv, [Next]_vars PROVE AfkInv'
  OBVIOUS
<1>1. ASSUME NEW p \in Player, Join(p) PROVE AfkInv'
  <2>1. Rearmed(p) /\ here' = here \cup {p}
    BY <1>1 DEF Join, Joined
  <2>2. here' \subseteq Player /\ IsFiniteSet(here')
    BY <2>1, FS_AddElement DEF AfkInv, AfkTypeOK
  <2>3. QED
    BY <2>1, <2>2, RearmedKeeps
<1>2. ASSUME NEW p \in Player, Move(p) PROVE AfkInv'
  BY <1>2, RearmedKeeps DEF Move, Moved, AfkInv, AfkTypeOK
<1>3. ASSUME NEW p \in Player, Quit(p) PROVE AfkInv'
  <2>1. Rearmed(p) /\ here' = here \ {p}
    BY <1>3 DEF Quit, Left
  <2>2. here' \subseteq Player /\ IsFiniteSet(here')
    BY <2>1, FS_Subset DEF AfkInv, AfkTypeOK
  <2>3. QED
    BY <2>1, <2>2, RearmedKeeps
<1>4. CASE TickRuns
  BY <1>4, CheckKeeps DEF TickRuns
<1>5. CASE Second
  <2>1. idle' \in [Player -> 0..Longest]
    BY <1>5, AfkAssumption DEF Second, SecondIdle, AfkInv, AfkTypeOK, Longest
  <2>2. QED
    BY <1>5, <2>1 DEF Second, SecondIdle, AfkInv, AfkTypeOK, FlagMeansTold
<1>6. ASSUME UNCHANGED afkVars PROVE AfkInv'
  BY <1>6 DEF afkVars, AfkInv, AfkTypeOK, FlagMeansTold
<1>7. QED
  BY <1>1, <1>2, <1>3, <1>4, <1>5, <1>6 DEF Next, vars, Toggle, Watches

\* int(float64(maxPlayers) * threshold) rounds down: fewer players than that are
\* below the threshold.
LEMMA BelowThreshold ==
    ASSUME NEW n \in Nat, n < thresholdCount
    PROVE  ~Full(n)
<1>1. /\ MaxCount \in Nat /\ Num \in Nat /\ Den \in Nat \ {0}
  BY AfkAssumption
<1> DEFINE x == MaxCount * Num
           t == x \div Den
<1>2. x \in Nat /\ x = Num * MaxCount
  BY <1>1
<1> HIDE DEF x
<1>3. t \in Int /\ t * Den <= x
  BY <1>1, <1>2
<1>4. n < t
  BY DEF thresholdCount, x
<1> HIDE DEF t
<1>5. n * Den < t * Den
  BY <1>1, <1>3, <1>4
<1>6. n * Den \in Int /\ t * Den \in Int
  BY <1>1, <1>3
<1>7. QED
  BY <1>2, <1>3, <1>5, <1>6 DEF Full

-----------------------------------------------------------------------------
(* The watchdog: the inductive invariant *)

DogType ==
    /\ dog \in [pc : {"select", "probe", "dispatch", "flush", "stopped"}, for : Nat,
                alerts : SUBSET Conditions]
    /\ dog.pc = "probe" => dog.for <= WorldExecTimeout
    /\ dog.pc = "flush" => dog.for <= FlushTime
    /\ dog.pc \notin {"probe", "flush"} => dog.for = 0

DogControl ==
    /\ dog.pc \in {"select", "stopped"} => dog.alerts = {}
    /\ dog.pc \in {"probe", "flush"} => Stall \notin dog.alerts
    /\ probes = IF dog.pc = "probe" THEN 1 ELSE 0
    /\ ~wedged => stuckFor = 0

\* A check begins at the tick before, or when a later one has come by then.
TicksComeBetween ==
    ~fired =>
        /\ dog.pc = "probe" => ticker + dog.for <= CheckInterval
        /\ dog.pc = "dispatch" /\ Stall \in dog.alerts =>
              ticker + WorldExecTimeout <= CheckInterval

FlushTimes(alerts) == Cardinality(alerts) * FlushTime

\* How long the reports of this check may still take.
FlushesLeft ==
    FlushTimes(dog.alerts) + (IF dog.pc = "flush" THEN FlushTime - dog.for ELSE 0)

UntilTick == IF fired THEN 0 ELSE ticker

\* How long it takes until a stall is dispatched, if the owner is wedged.
UntilStall ==
    IF dog.pc = "probe" THEN WorldExecTimeout - dog.for
    ELSE IF Stall \in dog.alerts THEN 0
    ELSE MaxOf(FlushesLeft, UntilTick) + WorldExecTimeout

StallIsOnItsWay ==
    (wedged /\ dog.pc # "stopped") =>
        /\ "log" \notin heard => /\ stuckFor + UntilStall <= LoggedWithin
                                 /\ "sentry" \notin heard
        /\ "sentry" \notin heard => /\ stuckFor + UntilStall <= SentWithin
                                    /\ quiet[Stall] >= stuckFor \/ quiet[Stall] = AlertCooldown

DogInv == WatchdogTypeOK /\ DogType /\ DogControl /\ TicksComeBetween /\ StallIsOnItsWay

-----------------------------------------------------------------------------
(* The watchdog: times *)

AllFlushes == (NumConditions - 1) * FlushTime

LEMMA TimesFacts ==
    ASSUME NEW a \in Nat, NEW b \in Nat, NEW f \in Nat, a <= b
    PROVE  a * f \in Nat /\ a * f <= b * f /\ (a + 1) * f = a * f + f
OBVIOUS

LEMMA DogConstants ==
    /\ CheckInterval \in Nat \ {0} /\ WorldExecTimeout \in Nat \ {0}
    /\ AlertCooldown \in Nat /\ FlushTime \in Nat
    /\ IsFiniteSet(Conditions) /\ NumConditions \in Nat \ {0}
    /\ Stall \in Conditions /\ Condition[1] = Stall /\ 1 \in 1..Len(Condition)
    /\ AllFlushes \in Nat
    /\ LoggedWithin = MaxOf(CheckInterval, AllFlushes + FlushTime) + WorldExecTimeout
    /\ SentWithin = MaxOf(LoggedWithin,
                          AlertCooldown + MaxOf(CheckInterval, WorldExecTimeout + AllFlushes))
<1>1. /\ CheckInterval \in Nat \ {0} /\ WorldExecTimeout \in Nat \ {0}
      /\ AlertCooldown \in Nat /\ FlushTime \in Nat
      /\ Condition \in Seq(STRING) /\ Condition # <<>> /\ Head(Condition) = Stall
  BY WatchdogAssumption
<1>2. Len(Condition) \in Nat /\ 1 \in 1..Len(Condition) /\ Condition[1] = Stall
  BY <1>1
<1>3. Stall \in Conditions
  BY <1>2 DEF Conditions
<1>4. IsFiniteSet(Conditions)
  <2>1. IsFiniteSet(1..Len(Condition))
    BY <1>2, FS_Interval
  <2>2. Condition \in [1..Len(Condition) -> Conditions]
    <3>1. Condition \in [1..Len(Condition) -> STRING]
      BY <1>1
    <3>2. QED
      BY <3>1 DEF Conditions
  <2>3. Condition \in Surjection(1..Len(Condition), Conditions)
    BY <2>2 DEF Surjection, Conditions
  <2>4. QED
    BY <2>1, <2>3, FS_Surjection
<1>5. NumConditions \in Nat \ {0}
  BY <1>3, <1>4, FS_CardinalityType, FS_EmptySet DEF NumConditions
<1>6. NumConditions - 1 \in Nat /\ (NumConditions - 1) + 1 = NumConditions
  BY <1>5
<1>7. AllFlushes \in Nat /\ NumConditions * FlushTime = AllFlushes + FlushTime
  BY <1>1, <1>6, TimesFacts DEF AllFlushes
<1>8. QED
  BY <1>1, <1>2, <1>3, <1>4, <1>5, <1>7 DEF LoggedWithin, SentWithin, AllFlushes

LEMMA FlushFacts ==
    ASSUME NEW S \in SUBSET Conditions
    PROVE  /\ FlushTimes(S) \in Nat
           /\ S = {} => FlushTimes(S) = 0
           /\ Stall \notin S => FlushTimes(S) <= AllFlushes
           /\ \A c \in S : FlushTimes(S \ {c}) + FlushTime = FlushTimes(S)
<1>1. FlushTime \in Nat /\ NumConditions \in Nat \ {0}
  BY DogConstants
<1>2. IsFiniteSet(S) /\ Cardinality(S) \in Nat
  BY DogConstants, FS_Subset, FS_CardinalityType
<1>3. FlushTimes(S) \in Nat
  BY <1>1, <1>2, TimesFacts DEF FlushTimes
<1>4. S = {} => FlushTimes(S) = 0
  <2>1. Cardinality({}) = 0 /\ 0 * FlushTime = 0
    BY <1>1, FS_EmptySet
  <2>2. QED
    BY <2>1 DEF FlushTimes
<1>5. ASSUME Stall \notin S PROVE FlushTimes(S) <= AllFlushes
  <2>1. S \subseteq Conditions \ {Stall}
    BY <1>5
  <2>2. /\ IsFiniteSet(Conditions \ {Stall})
        /\ Cardinality(Conditions \ {Stall}) = NumConditions - 1
    BY DogConstants, FS_RemoveElement DEF NumConditions
  <2>3. Cardinality(S) <= NumConditions - 1 /\ NumConditions - 1 \in Nat
    BY <1>1, <2>1, <2>2, FS_Subset
  <2>4. QED
    BY <1>1, <1>2, <2>3, TimesFacts DEF FlushTimes, AllFlushes
<1>6. ASSUME NEW c \in S PROVE FlushTimes(S \ {c}) + FlushTime = FlushTimes(S)
  <2>1. Cardinality(S \ {c}) = Cardinality(S) - 1 /\ Cardinality(S \ {c}) \in Nat
    BY <1>2, FS_RemoveElement, FS_CardinalityType
  <2>2. Cardinality(S \ {c}) + 1 = Cardinality(S)
    BY <1>2, <2>1
  <2>3. QED
    BY <1>1, <2>1, <2>2, TimesFacts DEF FlushTimes
<1>7. QED
  BY <1>3, <1>4, <1>5, <1>6

\* What a state of the watchdog says of its times.
TimesAreNat ==
    /\ dog.for \in Nat /\ dog.alerts \in SUBSET Conditions
    /\ FlushTimes(dog.alerts) \in Nat
    /\ FlushesLeft \in Nat /\ UntilTick \in Nat /\ UntilTick <= CheckInterval
    /\ UntilStall \in Nat /\ stuckFor \in Nat
    /\ quiet[Stall] \in Nat /\ quiet[Stall] <= AlertCooldown
    /\ LoggedWithin \in Nat /\ SentWithin \in Nat /\ LoggedWithin <= SentWithin

LEMMA DogTimes ==
    ASSUME DogType, WatchdogTypeOK
    PROVE  TimesAreNat
<1>1. /\ dog.for \in Nat /\ dog.alerts \in SUBSET Conditions /\ FlushTimes(dog.alerts) \in Nat
      /\ ticker \in 1..CheckInterval
  BY FlushFacts DEF DogType, WatchdogTypeOK
<1>2. /\ CheckInterval \in Nat /\ WorldExecTimeout \in Nat /\ FlushTime \in Nat
      /\ AlertCooldown \in Nat /\ AllFlushes \in Nat
  BY DogConstants
<1>3. FlushesLeft \in Nat
  BY <1>1, <1>2 DEF DogType, FlushesLeft
<1>4. UntilTick \in Nat /\ UntilTick <= CheckInterval
  BY <1>1, <1>2 DEF UntilTick
<1>5. UntilStall \in Nat
  BY <1>1, <1>2, <1>3, <1>4 DEF UntilStall, MaxOf, DogType
<1>6. LoggedWithin \in Nat /\ SentWithin \in Nat /\ LoggedWithin <= SentWithin
  BY <1>2, DogConstants DEF MaxOf
<1>7. stuckFor \in Nat
  BY <1>6 DEF WatchdogTypeOK
<1>8. quiet[Stall] \in Nat /\ quiet[Stall] <= AlertCooldown
  <2>1. quiet[Stall] \in 0..AlertCooldown
    BY DogConstants DEF WatchdogTypeOK
  <2>2. QED
    BY <1>2, <2>1
<1>9. QED
  BY <1>1, <1>3, <1>4, <1>5, <1>6, <1>7, <1>8 DEF TimesAreNat

LEMMA SumFacts ==
    ASSUME NEW s \in Int, NEW t \in Int, NEW u \in Int, NEW v \in Int
    PROVE  /\ t <= s + 1 /\ v = u - 1 => t + v <= s + u
           /\ t + v <= s + u => \A n \in Nat : s + u <= n => t + v <= n
OBVIOUS

-----------------------------------------------------------------------------
(* The watchdog: the invariant is inductive *)

LEMMA DogInitInv == WatchdogInit => DogInv
<1> SUFFICES ASSUME WatchdogInit PROVE DogInv
  OBVIOUS
<1>1. WatchdogTypeOK
  <2>1. SentWithin \in Nat
    BY DogConstants DEF MaxOf
  <2>2. 0 \in 0..MaxOf(WorldExecTimeout, FlushTime) /\ CheckInterval \in 1..CheckInterval
    BY DogConstants DEF MaxOf
  <2>3. 0 \in 0..(SentWithin + 1) /\ AlertCooldown \in 0..AlertCooldown
    BY <2>1, DogConstants
  <2>4. QED
    BY <2>2, <2>3 DEF WatchdogInit, WatchdogTypeOK, Waiting
<1>2. DogType /\ DogControl /\ TicksComeBetween /\ StallIsOnItsWay
  BY DEF WatchdogInit, Waiting, DogType, DogControl, TicksComeBetween, StallIsOnItsWay
<1>3. QED
  BY <1>1, <1>2 DEF DogInv

\* A wedge begins: the stall is dispatched within LoggedWithin from now.
LEMMA WedgeKeeps ==
    ASSUME DogInv, Wedge
    PROVE  DogInv'
<1>0. TimesAreNat
  BY DogTimes DEF DogInv
<1>1. /\ wedged' = TRUE /\ stuckFor' = 0 /\ heard' = {}
      /\ UNCHANGED <<probes, ticker, fired, dog, quiet>>
  BY DEF Wedge
<1>2. WatchdogTypeOK' /\ DogType' /\ DogControl' /\ TicksComeBetween'
  <2>1. 0 \in 0..(SentWithin + 1)
    BY <1>0 DEF TimesAreNat
  <2>2. QED
    BY <1>1, <2>1 DEF DogInv, WatchdogTypeOK, DogType, DogControl, TicksComeBetween
<1>3. UntilStall' = UntilStall
  BY <1>1 DEF UntilStall, FlushesLeft, UntilTick
<1>4. UntilStall <= LoggedWithin
  <2>1. dog.pc # "probe" /\ Stall \notin dog.alerts => FlushesLeft <= AllFlushes + FlushTime
    <3>1. Stall \notin dog.alerts => FlushTimes(dog.alerts) <= AllFlushes
      BY <1>0, FlushFacts DEF TimesAreNat
    <3>2. /\ FlushTimes(dog.alerts) \in Nat /\ FlushTime \in Nat /\ AllFlushes \in Nat
          /\ dog.for \in Nat
      BY <1>0, DogConstants DEF TimesAreNat
    <3>3. QED
      BY <3>1, <3>2 DEF FlushesLeft
  <2>2. QED
    BY <1>0, <2>1, DogConstants DEF TimesAreNat, UntilStall, MaxOf
<1>5. StallIsOnItsWay'
  BY <1>0, <1>1, <1>3, <1>4 DEF TimesAreNat, StallIsOnItsWay
<1>6. QED
  BY <1>2, <1>5 DEF DogInv

LEMMA RecoverKeeps ==
    ASSUME DogInv, Recover
    PROVE  DogInv'
<1>1. /\ wedged' = FALSE /\ stuckFor' = 0 /\ heard' = {}
      /\ UNCHANGED <<probes, ticker, fired, dog, quiet>>
  BY DEF Recover
<1>2. 0 \in 0..(SentWithin + 1)
  BY DogTimes DEF DogInv, TimesAreNat
<1>3. QED
  BY <1>1, <1>2
     DEF DogInv, WatchdogTypeOK, DogType, DogControl, TicksComeBetween, StallIsOnItsWay

\* Time passes, and the stall comes nearer by as much.
LEMMA ElapseKeeps ==
    ASSUME DogInv, Elapse
    PROVE  DogInv'
<1>0. /\ TimesAreNat /\ CheckInterval \in Nat \ {0} /\ WorldExecTimeout \in Nat \ {0}
      /\ AlertCooldown \in Nat /\ FlushTime \in Nat /\ Stall \in Conditions
  BY DogTimes, DogConstants DEF DogInv
<1>1. /\ Rests /\ UNCHANGED <<wedged, probes, heard>>
      /\ stuckFor' = (IF wedged /\ stuckFor <= SentWithin THEN stuckFor + 1 ELSE stuckFor)
      /\ dog' = (IF dog.pc \in {"probe", "flush"} THEN [dog EXCEPT !.for = @ + 1] ELSE dog)
      /\ WatchdogTypeOK /\ DogType /\ DogControl /\ TicksComeBetween /\ StallIsOnItsWay
  BY DEF Elapse, DogInv
<1>2. /\ ticker' \in 1..CheckInterval /\ fired' \in BOOLEAN
      /\ dog.pc # "stopped" =>
            /\ UntilTick' = (IF UntilTick = 0 THEN 0 ELSE UntilTick - 1)
            /\ ~fired' => ~fired /\ ticker' = ticker - 1
  <2>1. ticker \in 1..CheckInterval /\ fired \in BOOLEAN
    BY <1>1 DEF WatchdogTypeOK
  <2>2. CASE dog.pc = "stopped"
    BY <2>1, <2>2 DEF Elapse
  <2>3. CASE dog.pc # "stopped"
    <3>1. /\ ticker' = (IF ticker = 1 THEN CheckInterval ELSE ticker - 1)
          /\ fired' = (fired \/ ticker = 1)
      BY <2>3 DEF Elapse
    <3>2. CASE ticker = 1
      <4>1. fired' /\ ticker' = CheckInterval
        BY <3>1, <3>2
      <4>2. UntilTick' = 0 /\ UntilTick \in {0, 1}
        BY <3>2, <4>1 DEF UntilTick
      <4>3. QED
        BY <1>0, <2>1, <4>1, <4>2
    <3>3. CASE ticker # 1
      BY <1>0, <2>1, <3>1, <3>3 DEF UntilTick
    <3>4. QED
      BY <3>2, <3>3
  <2>4. QED
    BY <2>2, <2>3
<1>3. /\ quiet' \in [Conditions -> 0..AlertCooldown]
      /\ quiet[Stall] < AlertCooldown => quiet'[Stall] = quiet[Stall] + 1
      /\ ~(quiet[Stall] < AlertCooldown) => quiet'[Stall] = quiet[Stall]
  BY <1>0, <1>1 DEF Elapse, WatchdogTypeOK
<1>4. /\ dog.pc = "probe" => wedged /\ dog.for < WorldExecTimeout
      /\ dog.pc = "flush" => dog.for < FlushTime
      /\ dog.pc = "select" => ~fired
      /\ dog.pc # "dispatch"
  BY <1>1 DEF Rests
<1>5. /\ dog'.pc = dog.pc /\ dog'.alerts = dog.alerts
      /\ dog'.for = (IF dog.pc \in {"probe", "flush"} THEN dog.for + 1 ELSE dog.for)
      /\ dog' \in [pc : {"select", "probe", "dispatch", "flush", "stopped"}, for : Nat,
                   alerts : SUBSET Conditions]
  BY <1>0, <1>1 DEF DogType, TimesAreNat
<1>6. DogType' /\ dog'.for \in 0..MaxOf(WorldExecTimeout, FlushTime)
  BY <1>0, <1>1, <1>4, <1>5 DEF DogType, TimesAreNat, MaxOf
<1>7. stuckFor' \in 0..(SentWithin + 1) /\ stuckFor' <= stuckFor + 1
  <2>1. stuckFor \in 0..(SentWithin + 1)
    BY <1>1 DEF WatchdogTypeOK
  <2>2. QED
    BY <1>0, <1>1, <2>1 DEF TimesAreNat
<1>8. WatchdogTypeOK'
  BY <1>1, <1>2, <1>3, <1>5, <1>6, <1>7 DEF WatchdogTypeOK
<1>9. DogControl'
  BY <1>1, <1>5 DEF DogControl
<1>10. TicksComeBetween'
  BY <1>0, <1>1, <1>2, <1>4, <1>5 DEF TicksComeBetween, WatchdogTypeOK, TimesAreNat
<1>11. ASSUME dog.pc # "stopped" PROVE UntilStall' = UntilStall - 1
  <2>1. FlushesLeft' = (IF dog.pc = "flush" THEN FlushesLeft - 1 ELSE FlushesLeft)
    BY <1>0, <1>5 DEF FlushesLeft, TimesAreNat
  <2>2. UntilTick' = (IF UntilTick = 0 THEN 0 ELSE UntilTick - 1)
    BY <1>2, <1>11
  <2>3. CASE dog.pc = "select"
    <3>1. dog.alerts = {} /\ UntilTick # 0
      BY <1>0, <1>1, <1>4, <2>3 DEF DogControl, UntilTick, WatchdogTypeOK
    <3>2. FlushesLeft = 0 /\ Stall \notin dog.alerts
      BY <1>0, <2>3, <3>1, FlushFacts DEF FlushesLeft, TimesAreNat
    <3>3. QED
      BY <1>0, <1>5, <2>1, <2>2, <2>3, <3>1, <3>2 DEF UntilStall, MaxOf, TimesAreNat
  <2>4. CASE dog.pc = "probe"
    BY <1>0, <1>5, <2>4 DEF UntilStall, TimesAreNat
  <2>5. CASE dog.pc = "flush"
    <3>1. Stall \notin dog.alerts /\ FlushesLeft # 0
      BY <1>0, <1>1, <1>4, <2>5 DEF DogControl, FlushesLeft, TimesAreNat
    <3>2. QED
      BY <1>0, <1>5, <2>1, <2>2, <2>5, <3>1 DEF UntilStall, MaxOf, TimesAreNat
  <2>6. QED
    BY <1>1, <1>4, <1>11, <2>3, <2>4, <2>5 DEF DogType
<1>12. StallIsOnItsWay'
  <2>1. SUFFICES ASSUME wedged, dog.pc # "stopped" PROVE StallIsOnItsWay'
    BY <1>1, <1>5 DEF StallIsOnItsWay
  <2>2. /\ UntilStall' = UntilStall - 1 /\ UntilStall \in Int /\ UntilStall' \in Int
        /\ stuckFor \in Int /\ stuckFor' \in Int
    <3>1. UntilStall' = UntilStall - 1 /\ UntilStall \in Nat /\ stuckFor \in Nat
      BY <1>0, <1>11, <2>1 DEF TimesAreNat
    <3>2. stuckFor' \in Int
      BY <1>0, <1>7 DEF TimesAreNat
    <3>3. QED
      BY <3>1, <3>2
  <2>3. \A n \in Nat : stuckFor + UntilStall <= n => stuckFor' + UntilStall' <= n
    <3>1. PICK t, u, v : t = stuckFor' /\ u = UntilStall /\ v = UntilStall'
      BY Zenon
    <3>2. t \in Int /\ u \in Int /\ v \in Int /\ v = u - 1
      BY <2>2, <3>1, Zenon
    <3>3. stuckFor \in Int /\ t <= stuckFor + 1
      BY <1>7, <2>2, <3>1, Zenon
    <3>4. \A n \in Nat : stuckFor + u <= n => t + v <= n
      BY <3>2, <3>3, SumFacts
    <3>5. QED
      BY <3>1, <3>4, Zenon
  <2>4. (quiet[Stall] >= stuckFor \/ quiet[Stall] = AlertCooldown) =>
           (quiet'[Stall] >= stuckFor' \/ quiet'[Stall] = AlertCooldown)
    BY <1>0, <1>3, <1>7, <2>2 DEF TimesAreNat
  <2>5. QED
    BY <1>0, <1>1, <1>5, <2>1, <2>3, <2>4 DEF StallIsOnItsWay, TimesAreNat
<1>13. QED
  BY <1>6, <1>8, <1>9, <1>10, <1>12 DEF DogInv

\* What every state of the goroutine that the loop reaches satisfies.
LEMMA DogTypes ==
    ASSUME DogType', UNCHANGED <<wedged, stuckFor>>, heard' \subseteq {"log", "sentry"},
           quiet' \in [Conditions -> 0..AlertCooldown],
           ticker' \in 1..CheckInterval, fired' \in BOOLEAN, probes' \in Nat, WatchdogTypeOK
    PROVE  WatchdogTypeOK'
<1>1. dog'.for \in 0..MaxOf(WorldExecTimeout, FlushTime)
  BY DogConstants DEF DogType, MaxOf
<1>2. dog'.pc \in {"select", "probe", "dispatch", "flush", "stopped"} /\ dog'.alerts \subseteq Conditions
  BY DEF DogType
<1>3. QED
  BY <1>1, <1>2 DEF WatchdogTypeOK

LEMMA StallNotPutOff ==
    ASSUME TimesAreNat, StallIsOnItsWay, UNCHANGED <<wedged, stuckFor, heard>>,
           quiet'[Stall] = quiet[Stall], dog.pc # "stopped",
           UntilStall' \in Int, UntilStall' <= UntilStall
    PROVE  StallIsOnItsWay'
<1>1. PICK v : v = UntilStall'
  BY Zenon
<1>2. v \in Int /\ v <= UntilStall
  BY <1>1, Zenon
<1>3. PICK u : u = UntilStall
  BY Zenon
<1>4. u \in Int /\ v <= u /\ stuckFor \in Int
  BY <1>2, <1>3 DEF TimesAreNat
<1>5. \A n \in Nat : stuckFor + u <= n => stuckFor + v <= n
  BY <1>2, <1>4, SumFacts
<1>6. \A n \in Nat : stuckFor + UntilStall <= n => stuckFor' + UntilStall' <= n
  BY <1>1, <1>3, <1>5, Zenon
<1>7. LoggedWithin' = LoggedWithin /\ SentWithin' = SentWithin
  OBVIOUS
<1>8. QED
  BY <1>6, <1>7 DEF StallIsOnItsWay, TimesAreNat

LEMMA DispatchingFacts ==
    ASSUME NEW S \in SUBSET Conditions, Dispatching(S)
    PROVE  /\ dog'.pc = (IF S = {} THEN "select" ELSE "dispatch")
           /\ dog'.for = 0 /\ dog'.alerts = S /\ DogType'
BY DEF Dispatching, Waiting, DogType

LEMMA CheckBegins ==
    ASSUME DogInv, runCheck
    PROVE  DogInv'
<1>0. /\ TimesAreNat /\ CheckInterval \in Nat /\ WorldExecTimeout \in Nat
      /\ WatchdogTypeOK /\ DogType /\ DogControl /\ TicksComeBetween /\ StallIsOnItsWay
  BY DogTimes, DogConstants DEF DogInv
<1>1. /\ dog.pc = "select" /\ fired /\ ~fired' /\ fired' \in BOOLEAN
      /\ probes' = probes + 1
      /\ UNCHANGED <<wedged, ticker, quiet, stuckFor, heard>>
  BY DEF runCheck
<1>2. PICK breached \in SUBSET (Conditions \ {Stall}) :
         dog' = [pc |-> "probe", for |-> 0, alerts |-> breached]
  BY DEF runCheck
<1>3. DogType'
  BY <1>0, <1>2 DEF DogType
<1>4. DogControl' /\ probes' \in Nat
  BY <1>0, <1>1, <1>2 DEF DogControl
<1>5. TicksComeBetween'
  BY <1>0, <1>1, <1>2 DEF TicksComeBetween, WatchdogTypeOK
<1>6. WatchdogTypeOK'
  BY <1>0, <1>1, <1>3, <1>4, DogTypes DEF WatchdogTypeOK
<1>7. UntilStall' = WorldExecTimeout
  BY <1>0, <1>2 DEF UntilStall
<1>8. UntilStall >= WorldExecTimeout
  BY <1>0, <1>1 DEF UntilStall, MaxOf, DogControl, TimesAreNat
<1>9. UntilStall' \in Int /\ UntilStall' <= UntilStall
  BY <1>0, <1>7, <1>8
<1>10. StallIsOnItsWay'
  BY <1>0, <1>1, <1>9, StallNotPutOff
<1>11. QED
  BY <1>3, <1>4, <1>5, <1>6, <1>10 DEF DogInv

LEMMA ProbeRunsKeeps ==
    ASSUME DogInv, ProbeRuns
    PROVE  DogInv'
<1>0. /\ TimesAreNat
      /\ WatchdogTypeOK /\ DogType /\ DogControl /\ TicksComeBetween /\ StallIsOnItsWay
  BY DogTimes DEF DogInv
<1>1. /\ ~wedged /\ probes > 0 /\ probes' = probes - 1
      /\ UNCHANGED <<wedged, ticker, fired, quiet, stuckFor, heard>>
  BY DEF ProbeRuns
<1>2. dog.pc = "probe" /\ probes = 1 /\ probes' = 0
  BY <1>0, <1>1 DEF DogControl
<1>3. Dispatching(dog.alerts)
  BY <1>2 DEF ProbeRuns
<1>4. /\ dog'.pc = (IF dog.alerts = {} THEN "select" ELSE "dispatch")
      /\ dog'.alerts = dog.alerts /\ DogType' /\ Stall \notin dog.alerts
  BY <1>0, <1>2, <1>3, DispatchingFacts DEF TimesAreNat, DogControl
<1>5. DogControl'
  BY <1>0, <1>1, <1>2, <1>4 DEF DogControl
<1>6. TicksComeBetween'
  BY <1>4 DEF TicksComeBetween
<1>7. WatchdogTypeOK'
  BY <1>0, <1>1, <1>2, <1>4, DogTypes DEF WatchdogTypeOK
<1>8. StallIsOnItsWay'
  BY <1>1 DEF StallIsOnItsWay
<1>9. QED
  BY <1>4, <1>5, <1>6, <1>7, <1>8 DEF DogInv

\* The probe has found the owner wedged: the stall is dispatched next.
LEMMA ProbeTimesOutKeeps ==
    ASSUME DogInv, ProbeTimesOut
    PROVE  DogInv'
<1>0. /\ TimesAreNat /\ WorldExecTimeout \in Nat /\ Stall \in Conditions
      /\ WatchdogTypeOK /\ DogType /\ DogControl /\ TicksComeBetween /\ StallIsOnItsWay
  BY DogTimes, DogConstants DEF DogInv
<1>1. /\ dog.pc = "probe" /\ dog.for = WorldExecTimeout /\ probes' = probes - 1
      /\ Dispatching({Stall} \cup dog.alerts)
      /\ UNCHANGED <<wedged, ticker, fired, quiet, stuckFor, heard>>
  BY DEF ProbeTimesOut
<1>2. /\ dog'.pc = "dispatch" /\ dog'.alerts = {Stall} \cup dog.alerts /\ DogType'
  <2> DEFINE alerts == {Stall} \cup dog.alerts
  <2>1. alerts \in SUBSET Conditions /\ alerts # {}
    BY <1>0 DEF DogType
  <2>2. Dispatching(alerts)
    BY <1>1
  <2> HIDE DEF alerts
  <2>3. dog'.pc = "dispatch" /\ dog'.alerts = alerts /\ DogType'
    BY <1>0, <2>1, <2>2, DispatchingFacts
  <2>4. QED
    BY <2>3 DEF alerts
<1>3. DogControl' /\ probes' = 0
  BY <1>0, <1>1, <1>2 DEF DogControl
<1>4. TicksComeBetween'
  BY <1>0, <1>1, <1>2 DEF TicksComeBetween
<1>5. WatchdogTypeOK'
  BY <1>0, <1>1, <1>2, <1>3, DogTypes DEF WatchdogTypeOK
<1>6. UntilStall' = 0
  BY <1>2 DEF UntilStall
<1>7. UntilStall' \in Int /\ UntilStall' <= UntilStall
  BY <1>0, <1>6 DEF TimesAreNat
<1>8. StallIsOnItsWay'
  BY <1>0, <1>1, <1>7, StallNotPutOff
<1>9. QED
  BY <1>2, <1>3, <1>4, <1>5, <1>8 DEF DogInv

LEMMA FlushedKeeps ==
    ASSUME DogInv, Flushed
    PROVE  DogInv'
<1>0. /\ TimesAreNat /\ FlushTime \in Nat /\ WorldExecTimeout \in Nat /\ CheckInterval \in Nat
      /\ WatchdogTypeOK /\ DogType /\ DogControl /\ TicksComeBetween /\ StallIsOnItsWay
  BY DogTimes, DogConstants DEF DogInv
<1>1. /\ dog.pc = "flush" /\ Dispatching(dog.alerts) /\ Stall \notin dog.alerts
      /\ UNCHANGED <<wedged, probes, ticker, fired, quiet, stuckFor, heard>>
  BY <1>0 DEF Flushed, DogControl
<1>2. /\ dog'.pc = (IF dog.alerts = {} THEN "select" ELSE "dispatch")
      /\ dog'.alerts = dog.alerts /\ DogType'
  BY <1>0, <1>1, DispatchingFacts DEF TimesAreNat
<1>3. DogControl' /\ TicksComeBetween'
  BY <1>0, <1>1, <1>2 DEF DogControl, TicksComeBetween
<1>4. WatchdogTypeOK'
  BY <1>0, <1>1, <1>2, DogTypes DEF WatchdogTypeOK
<1>5. /\ FlushesLeft' = FlushTimes(dog.alerts)
      /\ FlushTimes(dog.alerts) <= FlushesLeft /\ UntilTick' = UntilTick
  BY <1>0, <1>1, <1>2 DEF FlushesLeft, FlushTimes, UntilTick, DogType, TimesAreNat
<1>6. /\ UntilStall' = MaxOf(FlushTimes(dog.alerts), UntilTick) + WorldExecTimeout
      /\ UntilStall = MaxOf(FlushesLeft, UntilTick) + WorldExecTimeout
  BY <1>1, <1>2, <1>5 DEF UntilStall
<1>7. UntilStall' \in Int /\ UntilStall' <= UntilStall
  BY <1>0, <1>5, <1>6 DEF MaxOf, TimesAreNat
<1>8. StallIsOnItsWay'
  BY <1>0, <1>1, <1>7, StallNotPutOff
<1>9. QED
  BY <1>2, <1>3, <1>4, <1>8 DEF DogInv

LEMMA StopDogKeeps ==
    ASSUME DogInv, StopDog
    PROVE  DogInv'
<1>0. /\ TimesAreNat /\ CheckInterval \in Nat \ {0}
      /\ WatchdogTypeOK /\ DogType /\ DogControl
  BY DogTimes, DogConstants DEF DogInv
<1>1. /\ dog.pc = "select" /\ dog' = [dog EXCEPT !.pc = "stopped"]
      /\ ticker' = CheckInterval /\ fired' = FALSE
      /\ UNCHANGED <<wedged, probes, quiet, stuckFor, heard>>
  BY DEF StopDog
<1>2. dog'.pc = "stopped" /\ dog'.for = dog.for /\ dog'.alerts = dog.alerts /\ DogType'
  BY <1>0, <1>1 DEF DogType
<1>3. DogControl' /\ TicksComeBetween' /\ StallIsOnItsWay'
  BY <1>0, <1>1, <1>2 DEF DogControl, TicksComeBetween, StallIsOnItsWay
<1>4. WatchdogTypeOK'
  <2>1. ticker' \in 1..CheckInterval /\ fired' \in BOOLEAN /\ probes' \in Nat
    <3>1. CheckInterval \in 1..CheckInterval
      BY <1>0
    <3>2. QED
      BY <1>0, <1>1, <3>1 DEF WatchdogTypeOK
  <2>2. heard' \subseteq {"log", "sentry"} /\ quiet' \in [Conditions -> 0..AlertCooldown]
    BY <1>0, <1>1 DEF WatchdogTypeOK
  <2>3. QED
    BY <1>0, <1>1, <1>2, <2>1, <2>2, DogTypes
<1>5. QED
  BY <1>2, <1>3, <1>4 DEF DogInv

\* The stall is the first alert of its check.
LEMMA StallIsFirst ==
    ASSUME NEW c, IsNext(c), Stall \in dog.alerts
    PROVE  c = Stall
<1>1. PICK i \in 1..Len(Condition) :
         c = Condition[i] /\ \A j \in 1..(i - 1) : Condition[j] \notin dog.alerts
  BY DEF IsNext
<1>2. Condition[1] = Stall /\ Len(Condition) \in Nat
  BY DogConstants, WatchdogAssumption
<1>3. i = 1
  BY <1>1, <1>2
<1>4. QED
  BY <1>1, <1>2, <1>3

\* The stall is logged; a report that the cooldown holds back leaves a cooldown
\* that is younger than the wedge to wait for, and one more round.
LEMMA StallDispatched ==
    ASSUME DogInv, DogType', dog.pc = "dispatch", Stall \in dog.alerts,
           UNCHANGED <<wedged, ticker, fired, stuckFor>>,
           quiet[Stall] < AlertCooldown, quiet' = quiet, wedged,
           Dispatching(dog.alerts \ {Stall}), "log" \in heard', "sentry" \notin heard
    PROVE  StallIsOnItsWay'
<1>0. /\ TimesAreNat /\ AllFlushes \in Nat /\ AlertCooldown \in Nat
      /\ WorldExecTimeout \in Nat /\ CheckInterval \in Nat
      /\ TicksComeBetween /\ StallIsOnItsWay
      /\ SentWithin >= AlertCooldown + MaxOf(CheckInterval, WorldExecTimeout + AllFlushes)
  BY DogTimes, DogConstants DEF DogInv, MaxOf, TimesAreNat
<1>1. stuckFor <= quiet[Stall] /\ stuckFor < AlertCooldown
  BY <1>0 DEF StallIsOnItsWay, TimesAreNat
<1>2. /\ dog'.alerts = dog.alerts \ {Stall} /\ dog'.pc \in {"select", "dispatch"}
  BY <1>0, DispatchingFacts DEF TimesAreNat
<1> DEFINE left == FlushTimes(dog.alerts \ {Stall})
<1>3. left \in Nat /\ left <= AllFlushes
  BY <1>0, FlushFacts DEF TimesAreNat
<1>4. FlushesLeft' = left + 0 /\ UntilTick' = UntilTick
  BY <1>2 DEF FlushesLeft, FlushTimes, UntilTick
<1>5. UntilStall' = MaxOf(left + 0, UntilTick) + WorldExecTimeout
  BY <1>2, <1>4 DEF UntilStall
<1>6. UntilTick = 0 \/ UntilTick + WorldExecTimeout <= CheckInterval
  BY DEF UntilTick, DogInv, TicksComeBetween
<1> HIDE DEF left
<1>7. MaxOf(left + 0, UntilTick) + WorldExecTimeout
        <= MaxOf(CheckInterval, WorldExecTimeout + AllFlushes)
  BY <1>0, <1>3, <1>6 DEF MaxOf, TimesAreNat
<1>8. PICK v \in Nat : v = UntilStall' /\ v <= MaxOf(CheckInterval, WorldExecTimeout + AllFlushes)
  <2>1. MaxOf(left + 0, UntilTick) + WorldExecTimeout \in Nat
    BY <1>0, <1>3 DEF MaxOf, TimesAreNat
  <2>2. QED
    BY <1>5, <1>7, <2>1, Zenon
<1>9. stuckFor + v <= SentWithin
  <2>1. PICK m \in Nat : m = MaxOf(CheckInterval, WorldExecTimeout + AllFlushes)
    BY <1>0 DEF MaxOf
  <2>2. stuckFor \in Nat /\ SentWithin \in Nat /\ stuckFor <= AlertCooldown
    BY <1>0, <1>1 DEF TimesAreNat
  <2>3. SentWithin >= AlertCooldown + m /\ v <= m
    BY <1>0, <1>8, <2>1
  <2>4. QED
    BY <1>0, <2>1, <2>2, <2>3
<1>10. stuckFor' + UntilStall' <= SentWithin
  BY <1>8, <1>9, Zenon
<1>11. QED
  BY <1>1, <1>10 DEF StallIsOnItsWay

LEMMA DispatchKeeps ==
    ASSUME DogInv, dispatch
    PROVE  DogInv'
<1>0. /\ TimesAreNat /\ FlushTime \in Nat /\ WorldExecTimeout \in Nat /\ CheckInterval \in Nat
      /\ AlertCooldown \in Nat
      /\ WatchdogTypeOK /\ DogType /\ DogControl /\ TicksComeBetween /\ StallIsOnItsWay
  BY DogTimes, DogConstants DEF DogInv
<1>1. dog.pc = "dispatch" /\ UNCHANGED <<wedged, probes, ticker, fired, stuckFor>>
  BY DEF dispatch
<1>2. PICK c \in dog.alerts, allowed \in BOOLEAN :
         /\ IsNext(c) /\ shouldAlert(c, allowed)
         /\ IF allowed THEN dog' = [pc |-> "flush", for |-> 0, alerts |-> dog.alerts \ {c}]
                       ELSE Dispatching(dog.alerts \ {c})
         /\ heard' = IF c = Stall /\ wedged
                     THEN heard \cup {"log"} \cup (IF allowed THEN {"sentry"} ELSE {})
                     ELSE heard
  BY DEF dispatch
<1>3. /\ allowed = (quiet[c] >= AlertCooldown)
      /\ quiet' = IF allowed THEN [quiet EXCEPT ![c] = 0] ELSE quiet
      /\ ~allowed => ~(quiet[c] >= AlertCooldown)
  BY <1>2, Zenon DEF shouldAlert
<1> DEFINE rest == dog.alerts \ {c}
<1>4. rest \in SUBSET Conditions /\ Stall \notin rest
  BY <1>0, <1>2, StallIsFirst DEF TimesAreNat
<1>5. /\ dog'.pc = (IF allowed THEN "flush" ELSE IF rest = {} THEN "select" ELSE "dispatch")
      /\ dog'.for = 0 /\ dog'.alerts = rest /\ DogType'
  <2>1. CASE allowed
    BY <1>0, <1>2, <1>4, <2>1 DEF DogType
  <2>2. CASE ~allowed
    BY <1>2, <1>4, <2>2, DispatchingFacts
  <2>3. QED
    BY <2>1, <2>2
<1> HIDE DEF rest
<1>6. DogControl' /\ TicksComeBetween'
  BY <1>0, <1>1, <1>4, <1>5 DEF DogControl, TicksComeBetween
<1>7. /\ quiet' \in [Conditions -> 0..AlertCooldown]
      /\ c # Stall => quiet'[Stall] = quiet[Stall]
      /\ ~allowed => quiet' = quiet
  <2>1. 0 \in 0..AlertCooldown /\ Stall \in Conditions
    BY <1>0, DogConstants
  <2>2. QED
    BY <1>0, <1>3, <2>1 DEF WatchdogTypeOK
<1>8. WatchdogTypeOK'
  <2>1. heard' \subseteq {"log", "sentry"}
    BY <1>0, <1>2 DEF WatchdogTypeOK
  <2>2. ticker' \in 1..CheckInterval /\ fired' \in BOOLEAN /\ probes' \in Nat
    BY <1>0, <1>1 DEF WatchdogTypeOK
  <2>3. QED
    BY <1>0, <1>1, <1>5, <1>7, <2>1, <2>2, DogTypes
<1>9. ASSUME c = Stall PROVE StallIsOnItsWay'
  <2>1. CASE ~wedged
    <3>1. ~wedged'
      BY <1>1, <2>1
    <3>2. QED
      BY <3>1, Zenon DEF StallIsOnItsWay
  <2>2. CASE wedged /\ (allowed \/ "sentry" \in heard)
    <3>1. "log" \in heard' /\ "sentry" \in heard'
      BY <1>2, <1>9, <2>2
    <3>2. QED
      BY <3>1, Zenon DEF StallIsOnItsWay
  <2>3. CASE wedged /\ ~allowed /\ "sentry" \notin heard
    <3>1. "log" \in heard' /\ Dispatching(dog.alerts \ {Stall})
      BY <1>2, <1>9, <2>3
    <3>2. quiet[Stall] < AlertCooldown /\ quiet' = quiet
      BY <1>0, <1>3, <1>9, <2>3 DEF TimesAreNat
    <3>3. QED
      BY <1>1, <1>2, <1>5, <1>9, <2>3, <3>1, <3>2, StallDispatched
  <2>4. QED
    BY <1>2, <2>1, <2>2, <2>3
<1>10. ASSUME c # Stall PROVE StallIsOnItsWay'
  <2>1. Stall \notin dog.alerts /\ UNCHANGED heard /\ quiet'[Stall] = quiet[Stall]
    BY <1>2, <1>7, <1>10, StallIsFirst
  <2>2. /\ FlushTimes(rest) \in Nat /\ FlushTimes(rest) + FlushTime = FlushTimes(dog.alerts)
    BY <1>0, <1>2, <1>4, FlushFacts DEF TimesAreNat, rest
  <2>3. PICK left \in Nat : left = FlushesLeft' /\ left <= FlushTimes(dog.alerts)
    <3>1. FlushesLeft' = FlushTimes(rest) + (IF allowed THEN FlushTime ELSE 0)
      BY <1>0, <1>5 DEF FlushesLeft, FlushTimes
    <3>2. /\ FlushTimes(rest) + (IF allowed THEN FlushTime ELSE 0) \in Nat
          /\ FlushTimes(rest) + (IF allowed THEN FlushTime ELSE 0) <= FlushTimes(dog.alerts)
      BY <1>0, <2>2
    <3>3. QED
      BY <3>1, <3>2, Zenon
  <2>4. UntilTick' = UntilTick /\ FlushesLeft = FlushTimes(dog.alerts) + 0
    BY <1>1 DEF UntilTick, FlushesLeft
  <2>5. UntilStall' = MaxOf(left, UntilTick) + WorldExecTimeout
    BY <1>4, <1>5, <2>3, <2>4 DEF UntilStall
  <2>6. UntilStall = MaxOf(FlushesLeft, UntilTick) + WorldExecTimeout
    BY <1>1, <2>1 DEF UntilStall
  <2>7. /\ MaxOf(left, UntilTick) + WorldExecTimeout \in Int
        /\ MaxOf(left, UntilTick) + WorldExecTimeout <= UntilStall
    BY <1>0, <2>3, <2>4, <2>6 DEF MaxOf, TimesAreNat
  <2>8. UntilStall' \in Int /\ UntilStall' <= UntilStall
    BY <2>5, <2>7, Zenon
  <2>9. QED
    BY <1>0, <1>1, <2>1, <2>8, StallNotPutOff
<1>11. QED
  BY <1>5, <1>6, <1>8, <1>9, <1>10 DEF DogInv

LEMMA DogNextInv == DogInv /\ [WatchdogNext]_dogVars => DogInv'
<1> SUFFICES ASSUME DogInv, [WatchdogNext]_dogVars PROVE DogInv'
  OBVIOUS
<1>1. ASSUME UNCHANGED dogVars PROVE DogInv'
  BY <1>1
  DEF dogVars, DogInv, WatchdogTypeOK, DogType, DogControl, TicksComeBetween,
      StallIsOnItsWay, UntilStall, UntilTick, FlushesLeft, FlushTimes
<1>2. QED
  BY <1>1, WedgeKeeps, RecoverKeeps, ElapseKeeps, CheckBegins, ProbeRunsKeeps,
     ProbeTimesOutKeeps, DispatchKeeps, FlushedKeeps, StopDogKeeps
  DEF WatchdogNext, Loop

LEMMA DogStep == [Next]_vars => [WatchdogNext]_dogVars
BY DEF Next, vars, Join, Move, Toggle, Quit, TickRuns, Second, Watches, WatchdogNext


-----------------------------------------------------------------------------
(* Theorems about the world owner *)

\* Hiding players survives toggles, joins, quits and kicks in any order, as far
\* as the manager of the hider and HandleJoin can see to it.
THEOREM HidingIsConsistent == Spec => []HiddenAsToggled
<1>1. Init => HiderInv
  BY DEF Init, AfkInit, HiderInit, HiderInv, PairsOfSessions, HidesAllOthers, HidesOnlyMissed
<1>2. HiderInv => HiddenAsToggled
  BY NpcsAreNoPlayers
  DEF HiderInv, PairsOfSessions, HidesAllOthers, HidesOnlyMissed, HiddenAsToggled, SeesAsToggled
<1>3. QED
  BY <1>1, <1>2, HiderNextInv, PTL DEF Spec

\* The flags of the Movements: whoever has one was sent that warning.
THEOREM FlagsAreTold == Spec => []AfkInv
<1>1. Init => AfkInv
  <2>1. 0 \in 0..Longest
    BY AfkAssumption DEF Longest
  <2>2. QED
    BY <2>1, FS_EmptySet DEF Init, AfkInit, AfkInv, AfkTypeOK, FlagMeansTold
<1>2. QED
  BY <1>1, AfkNextInv, PTL DEF Spec

\* doAFKCheck kicks as many as it takes, with a threshold that is any fraction of
\* any capacity: the rounding of thresholdCount leaves no player too many.
THEOREM CheckAlwaysRelieves == Spec => CheckRelieves
<1> DEFINE Relieves == doAFKCheck => \/ ~Full(Cardinality(here'))
                                     \/ \A p \in here' : idle[p] < AFKTimeout
<1>1. AfkInv => Relieves
  <2>1. SUFFICES ASSUME AfkInv, doAFKCheck, Full(Cardinality(here'))
                 PROVE  \A p \in here' : idle[p] < AFKTimeout
    OBVIOUS
  <2>2. PICK kicked \in SUBSET here : Kicks(kicked) /\ here' = here \ kicked
    BY <2>1 DEF doAFKCheck
  <2>3. Cardinality(here') \in Nat
    BY <2>1, <2>2, FS_Subset, FS_CardinalityType DEF AfkInv
  <2>4. ~(Cardinality(here') < thresholdCount)
    BY <2>1, <2>3, BelowThreshold
  <2>5. kicked = eligible
    BY <2>2, <2>4 DEF Kicks
  <2>6. Full(Cardinality(here))
    BY <2>1, <2>2, <2>5 DEF eligible
  <2>7. here' = here \ IdleFor(AFKTimeout)
    BY <2>2, <2>5, <2>6 DEF eligible
  <2>8. \A p \in here : idle[p] \in Nat /\ AFKTimeout \in Nat
    BY <2>1, AfkAssumption DEF AfkInv, AfkTypeOK
  <2>9. QED
    BY <2>7, <2>8 DEF IdleFor
<1>2. AfkInv /\ [Next]_vars => [Relieves]_afkVars
  BY <1>1
<1>3. QED
  BY <1>2, FlagsAreTold, PTL DEF Spec, CheckRelieves

\* With times in the order of the defaults, nobody is kicked untold: the check
\* that finds a player idle for AFKTimeout for the first time sends what is left.
THEOREM NobodyKickedUntold ==
    ASSUME AFKWarnApproaching <= AFKTimeout, AFKMarkAFK <= AFKTimeout,
           AFKFinalWarning <= AFKTimeout
    PROVE  Spec => KickedWereTold
<1> DEFINE Told == \A p \in here \ here' :
                      (doAFKCheck /\ idle[p] >= AFKTimeout)
                      => {p} \X {"approaching", "marked", "final"} \subseteq told'
<1>1. AfkInv => Told
  <2>1. SUFFICES ASSUME AfkInv, NEW p \in here \ here', doAFKCheck, idle[p] >= AFKTimeout
                 PROVE  {p} \X {"approaching", "marked", "final"} \subseteq told'
    OBVIOUS
  <2>2. PICK kicked \in SUBSET here : Kicks(kicked) /\ here' = here \ kicked
    BY <2>1 DEF doAFKCheck
  <2>3. p \in eligible
    BY <2>1, <2>2 DEF Kicks
  <2>4. Full(Cardinality(here))
    BY <2>3 DEF eligible
  <2>5. /\ p \in IdleFor(AFKWarnApproaching) /\ p \in IdleFor(AFKMarkAFK)
        /\ p \in IdleFor(AFKFinalWarning)
    BY <2>1, AfkAssumption DEF IdleFor, AfkInv, AfkTypeOK
  <2>6. p \in approaching' /\ p \in marked' /\ p \in final'
    BY <2>1, <2>4, <2>5 DEF doAFKCheck, Warns
  <2>7. AfkInv'
    BY <2>1, CheckKeeps
  <2>8. QED
    BY <2>6, <2>7 DEF AfkInv, FlagMeansTold
<1>2. AfkInv /\ [Next]_vars => [Told]_afkVars
  BY <1>1
<1>3. QED
  BY <1>2, FlagsAreTold, PTL DEF Spec, KickedWereTold

\* However flushes, ticks that are dropped and cooldowns of earlier wedges fall, a
\* stall is that near: the invariant of the loop of the watchdog.
THEOREM DogInvariant == Spec => []DogInv
<1>1. Init => DogInv
  BY DogInitInv DEF Init
<1>2. DogInv /\ [Next]_vars => DogInv'
  BY DogNextInv, DogStep
<1>3. QED
  BY <1>1, <1>2, PTL DEF Spec

\* Type correctness of everything the owner has, pairs of sessions that are over
\* and the ticks that pile up behind a wedge included.
THEOREM OwnerTypes == Spec => []TypeOK
<1> DEFINE Rest == HiderTypeOK(Player) /\ ticks \in 0..MaxTicks
<1>1. Init => Rest
  BY WorldOwnerAssumption DEF Init, HiderInit, HiderTypeOK
<1>2. ASSUME AfkInv, HiderInv, HiderInv', Rest, [Next]_vars
      PROVE  Rest'
  <2>1. ticks' \in 0..MaxTicks
    <3>1. \/ ticks' = ticks
          \/ ticks > 0 /\ ticks' \in {ticks - 1, ticks}
          \/ ticks' = IF ticks < MaxTicks THEN ticks + 1 ELSE ticks
      BY <1>2
      DEF Next, vars, Join, Move, Toggle, Quit, TickRuns, Second, Watches
    <3>2. QED
      BY <1>2, <3>1, WorldOwnerAssumption
  <2>2. HiderTypeOK(Player)'
    <3>1. hidden' \subseteq Player
      BY <1>2 DEF HiderInv
    <3>2. hides' \subseteq Player \X (Player \cup Npc)
      BY <1>2 DEF HiderInv, PairsOfSessions
    <3>3. missed' \subseteq Player \X Player
      <4>1. ASSUME NEW p \in Player, HiderToggle(p, Present, Player)
            PROVE  missed' \subseteq Player \X Player
        BY <1>2, <4>1 DEF HiderToggle, HiderTypeOK
      <4>2. ASSUME NEW gone, HiderQuit(gone)
            PROVE  missed' \subseteq Player \X Player
        BY <1>2, <4>2 DEF HiderQuit, HiderTypeOK
      <4>3. ASSUME missed' = missed
            PROVE  missed' \subseteq Player \X Player
        BY <1>2, <4>3 DEF HiderTypeOK
      <4>4. QED
        BY <1>2, <4>1, <4>2, <4>3
        DEF Next, vars, Join, Move, Toggle, Quit, TickRuns, Second, Watches, HiderJoin, hiderVars
    <3>4. QED
      BY <3>1, <3>2, <3>3 DEF HiderTypeOK
  <2>3. QED
    BY <2>1, <2>2
<1>3. AfkInv /\ DogInv /\ Rest => TypeOK
  BY DEF AfkInv, DogInv, TypeOK
<1>4. Spec => []HiderInv
  <2>1. Init => HiderInv
    BY DEF Init, AfkInit, HiderInit, HiderInv, PairsOfSessions, HidesAllOthers, HidesOnlyMissed
  <2>2. QED
    BY <2>1, HiderNextInv, PTL DEF Spec
<1>5. QED
  BY <1>1, <1>2, <1>3, <1>4, FlagsAreTold, DogInvariant, PTL DEF Spec

\* A wedged owner is in the log within LoggedWithin and at Sentry within
\* SentWithin, for any intervals, timeouts, cooldowns and number of conditions.
THEOREM WedgesAreReported == Spec => []WedgeIsReported
<1>1. DogInv => WedgeIsReported
  <2>1. SUFFICES ASSUME DogInv, dog.pc # "stopped"
                 PROVE  /\ stuckFor > LoggedWithin => "log" \in heard
                        /\ stuckFor > SentWithin => "sentry" \in heard
    BY DEF WedgeIsReported
  <2>2. TimesAreNat
    BY <2>1, DogTimes DEF DogInv
  <2>3. wedged \/ stuckFor = 0
    BY <2>1 DEF DogInv, DogControl
  <2>4. QED
    BY <2>1, <2>2, <2>3 DEF DogInv, StallIsOnItsWay, TimesAreNat
<1>2. QED
  BY <1>1, DogInvariant, PTL

-----------------------------------------------------------------------------
(* Ranks: the inductive invariant *)

WorkerState ==
    [pc : {"idle", "fetch", "asked", "answered", "stored", "told", "exited"},
     attempt : 0..MaxRetries, roles : Account \cup {{}}, err : BOOLEAN, highest : Rank]

\* Rank x is one that the account gave the player while loads were under way.
TrueRank(x) == \E a \in seen : x = RankFrom(a)

\* A load whose answer has not been stored yet.
Pending == loads > 0 \/ queue > 0 \/ \E w \in Worker : worker[w].pc \in {"fetch", "asked", "answered"}

Telling(w) == worker[w].pc \in {"stored", "told"}

AnswersAreTrue ==
    \A w \in Worker : worker[w].pc = "answered" /\ ~worker[w].err => worker[w].roles \in seen

RanksAreTrue ==
    /\ (\E w \in Worker : Telling(w)) => TrueRank(Highest(ranks))
    /\ TrueRank(Highest(ranks)) \/ Pending

TagOnItsWay == \E i \in 1..Len(tasks) : tasks[i] \in Rank

TagsAreTrue ==
    /\ \A w \in Worker : Telling(w) => ~worker[w].err
    /\ \A w \in Worker : worker[w].pc = "told" => TrueRank(worker[w].highest)
    /\ \A i \in 1..Len(tasks) : tasks[i] \in Rank => TrueRank(tasks[i])
    /\ TrueRank(nameTag) \/ Pending \/ TagOnItsWay \/ \E w \in Worker : Telling(w)

\* What is only known while nothing has failed, and for the name tag, which an
\* error leaves alone, while the account was linked.
LoadsAreTrue ==
    ~failing =>
        /\ AnswersAreTrue /\ RanksAreTrue
        /\ NotFound \notin seen => TagsAreTrue

RankControl ==
    /\ Highest(ranks) \in Rank
    /\ \A w \in Worker : worker[w].roles # NotFound
    /\ closed => failing
    /\ ~AtRest => account \in seen

RankInv == RankTypeOK /\ RankControl /\ LoadsAreTrue

-----------------------------------------------------------------------------
(* Ranks: the highest of them *)

\* A finite set of numbers has a greatest one: a smallest set that had none
\* would have none without one of its members either.
LEMMA MaxOfFinite ==
    ASSUME NEW S \in SUBSET Nat, IsFiniteSet(S), S # {}
    PROVE  Max(S) \in S /\ \A n \in S : Max(S) >= n
<1> DEFINE HasMax(T) == \E m \in T : \A n \in T : m >= n
           Bad == {Cardinality(T) : T \in {T \in SUBSET S : T # {} /\ ~HasMax(T)}}
<1>1. SUFFICES ASSUME ~HasMax(S) PROVE FALSE
  BY DEF Max
<1>2. \A T \in SUBSET S : IsFiniteSet(T) /\ Cardinality(T) \in Nat
  BY FS_Subset, FS_CardinalityType
<1>3. Bad \subseteq Nat /\ Bad # {}
  BY <1>1, <1>2
<1>4. PICK k \in Bad : \A y \in Bad : ~(<<y, k>> \in OpToRel(<, Nat))
  BY <1>3, NatLessThanWellFounded, WFMin
<1>5. k \in Nat /\ \A y \in Bad : ~(y < k)
  BY <1>3, <1>4 DEF OpToRel
<1>6. PICK T \in SUBSET S : T # {} /\ ~HasMax(T) /\ k = Cardinality(T)
  BY <1>4
<1>7. PICK x \in T : TRUE
  BY <1>6
<1>8. IsFiniteSet(T \ {x}) /\ Cardinality(T \ {x}) = k - 1
  BY <1>2, <1>6, <1>7, FS_RemoveElement
<1>9. T \ {x} = {} \/ HasMax(T \ {x})
  <2>1. ~(k - 1 \in Bad)
    BY <1>5
  <2>2. T \ {x} \in SUBSET S
    BY <1>6
  <2>3. QED
    BY <1>8, <2>1, <2>2
<1>10. CASE T \ {x} = {}
  <2>1. \A n \in T : n = x
    BY <1>10
  <2>2. QED
    BY <1>6, <1>7, <2>1
<1>11. CASE HasMax(T \ {x})
  <2>1. PICK m \in T \ {x} : \A n \in T \ {x} : m >= n
    BY <1>11
  <2>2. CASE m >= x
    BY <1>6, <2>1, <2>2
  <2>3. CASE ~(m >= x)
    <3>1. \A n \in T : x >= n
      BY <1>6, <2>1, <2>3
    <3>2. QED
      BY <1>6, <1>7, <3>1
  <2>4. QED
    BY <2>2, <2>3
<1>12. QED
  BY <1>9, <1>10, <1>11

LEMMA KnownRanks ==
    /\ UnLinked \in Rank /\ Trainer \in Rank /\ Message \notin Rank
    /\ Highest({}) = UnLinked /\ Highest({UnLinked}) = UnLinked
<1>1. UnLinked \in Rank /\ Trainer \in Rank /\ Message \notin Rank
  BY DEF Rank, UnLinked, Trainer, Message
<1>2. Max({UnLinked}) = UnLinked
  BY DEF Max, UnLinked
<1>3. QED
  BY <1>1, <1>2 DEF Highest

LEMMA AccountsAre ==
    ASSUME NEW a \in Account, a # NotFound
    PROVE  a \subseteq Nat /\ IsFiniteSet(a) /\ a \subseteq Rank
<1>1. a \subseteq Nat /\ IsFiniteSet(a)
  BY RankSyncAssumption
<1>2. QED
  BY <1>1 DEF Rank

\* The ranks that a worker makes of an answer.
LEMMA RanksOfAnswer ==
    ASSUME NEW roles \in Account \cup {{}}, roles # NotFound
    PROVE  /\ RanksOf(roles) \subseteq Rank
           /\ Highest(RanksOf(roles)) \in Rank
           /\ Highest(RanksOf(roles)) = RankFrom(roles)
<1>1. roles \subseteq Nat /\ IsFiniteSet(roles) /\ roles \subseteq Rank
  BY AccountsAre, FS_EmptySet
<1>2. /\ RanksOf(roles) \subseteq Nat /\ RanksOf(roles) \subseteq Rank
      /\ IsFiniteSet(RanksOf(roles)) /\ RanksOf(roles) # {}
  <2>1. IsFiniteSet(roles \ {0}) /\ IsFiniteSet({Trainer})
    BY <1>1, FS_RemoveElement, FS_Singleton
  <2>2. QED
    BY <1>1, <2>1, KnownRanks DEF RanksOf, RolesToRanks, Trainer
<1>3. Max(RanksOf(roles)) \in RanksOf(roles)
  BY <1>2, MaxOfFinite
<1>4. QED
  BY <1>2, <1>3 DEF Highest, RankFrom

-----------------------------------------------------------------------------
(* Ranks: the invariant is inductive *)

LEMMA RankInitInv == RankInit => RankInv
<1> SUFFICES ASSUME RankInit PROVE RankInv
  OBVIOUS
<1>1. RankTypeOK
  <2>1. Idle \in WorkerState
    BY KnownRanks, RankSyncAssumption DEF Idle, WorkerState
  <2>2. /\ now \in 0..MaxTime /\ changes \in 0..MaxChanges /\ queue \in 0..Capacity
        /\ account \in Account /\ seen \subseteq Account /\ loads \in Nat
    BY RankSyncAssumption DEF RankInit
  <2>3. tasks \in Seq({Message} \cup Rank) /\ ranks \in SUBSET Rank /\ nameTag \in Rank
    BY KnownRanks DEF RankInit
  <2>4. QED
    BY <2>1, <2>2, <2>3 DEF RankInit, RankTypeOK, WorkerState
<1>2. RankControl
  BY KnownRanks DEF RankInit, RankControl, Idle, NotFound
<1>3. LoadsAreTrue
  <2>1. Pending
    BY DEF RankInit, Pending
  <2>2. \A w \in Worker : worker[w].pc = "idle" /\ ~Telling(w)
    BY DEF RankInit, Idle, Telling
  <2>3. \A i \in 1..Len(tasks) : FALSE
    BY DEF RankInit
  <2>4. QED
    BY <2>1, <2>2, <2>3 DEF LoadsAreTrue, AnswersAreTrue, RanksAreTrue, TagsAreTrue
<1>4. QED
  BY <1>1, <1>2, <1>3 DEF RankInv

LEMMA SyncRankKeeps ==
    ASSUME RankInv, SyncRank
    PROVE  RankInv'
<1>1. /\ loads \in Nat /\ loads' = loads + 1 /\ lastRankFetch' = now
      /\ seen' = (IF AtRest THEN {account} ELSE seen)
      /\ failing' = ((failing /\ ~AtRest) \/ closed)
      /\ UNCHANGED <<now, account, changes, queue, worker, tasks, ranks, nameTag, closed,
                     shutdown, astray>>
  BY DEF SyncRank, RankInv, RankTypeOK
<1>2. RankTypeOK'
  BY <1>1 DEF RankInv, RankTypeOK
<1>3. RankControl'
  BY <1>1 DEF RankInv, RankControl
<1>4. Pending'
  BY <1>1 DEF Pending
<1>5. CASE AtRest
  <2>1. \A w \in Worker : worker'[w].pc \notin {"answered", "stored", "told"}
    BY <1>1, <1>5 DEF AtRest
  <2>2. \A i \in 1..Len(tasks') : FALSE
    BY <1>1, <1>5 DEF AtRest
  <2>3. LoadsAreTrue'
    BY <1>4, <2>1, <2>2 DEF LoadsAreTrue, AnswersAreTrue, RanksAreTrue, TagsAreTrue, Telling
  <2>4. QED
    BY <1>2, <1>3, <2>3 DEF RankInv
<1>6. CASE ~AtRest
  <2>1. seen' = seen /\ (~failing' => ~failing)
    BY <1>1, <1>6
  <2>2. \A x : TrueRank(x)' = TrueRank(x)
    BY <2>1 DEF TrueRank
  <2>3. LoadsAreTrue'
    BY <1>1, <1>4, <2>1
       DEF RankInv, LoadsAreTrue, AnswersAreTrue, RanksAreTrue, TagsAreTrue, Telling, TrueRank
  <2>4. QED
    BY <1>2, <1>3, <2>3 DEF RankInv
<1>7. QED
  BY <1>5, <1>6

\* All that the steps of a load need to keep, beyond what they change.
LEMMA UnderwayKeeps ==
    ASSUME RankInv, ~AtRest, RankTypeOK', LoadsAreTrue',
           UNCHANGED <<account, seen, closed>>, failing => failing',
           Highest(ranks)' \in Rank, \A w \in Worker : worker'[w].roles # NotFound
    PROVE  RankInv'
BY DEF RankInv, RankControl

LEMMA MessageAppended ==
    ASSUME RankTypeOK, NEW m \in {Message} \cup Rank, tasks' = Append(tasks, m)
    PROVE  /\ tasks' \in Seq({Message} \cup Rank)
           /\ \A i \in 1..Len(tasks') : tasks'[i] \in Rank =>
                 (m \in Rank /\ tasks'[i] = m) \/ \E j \in 1..Len(tasks) : tasks'[i] = tasks[j]
           /\ m \in Rank \/ TagOnItsWay => TagOnItsWay'
<1>1. tasks \in Seq({Message} \cup Rank) /\ Len(tasks) \in Nat
  BY DEF RankTypeOK
<1>2. /\ tasks' \in Seq({Message} \cup Rank) /\ Len(tasks') = Len(tasks) + 1
      /\ tasks'[Len(tasks) + 1] = m /\ \A i \in 1..Len(tasks) : tasks'[i] = tasks[i]
  BY <1>1, AppendProperties
<1>3. \A i \in 1..Len(tasks') : i = Len(tasks) + 1 \/ i \in 1..Len(tasks)
  BY <1>1, <1>2
<1>4. Len(tasks) + 1 \in 1..Len(tasks') /\ \A i \in 1..Len(tasks) : i \in 1..Len(tasks')
  BY <1>1, <1>2
<1>5. QED
  BY <1>2, <1>3, <1>4 DEF TagOnItsWay

LEMMA LoadKeeps ==
    ASSUME RankInv, Load
    PROVE  RankInv'
<1>1. /\ loads > 0 /\ loads' = loads - 1 /\ loads \in Nat /\ queue \in 0..Capacity
      /\ UNCHANGED <<now, account, changes, worker, ranks, lastRankFetch, nameTag, closed,
                     shutdown, seen, astray>>
  BY DEF Load, RankInv, RankTypeOK
<1>2. ~AtRest /\ loads' \in Nat /\ Capacity \in Nat
  BY <1>1, RankSyncAssumption DEF AtRest
<1>3. CASE queue < Capacity /\ queue' = queue + 1 /\ UNCHANGED <<tasks, failing>>
  <2>1. RankTypeOK'
    BY <1>1, <1>2, <1>3 DEF RankInv, RankTypeOK
  <2>2. Pending'
    BY <1>1, <1>3 DEF Pending
  <2>3. LoadsAreTrue'
    BY <1>1, <1>3, <2>2
       DEF RankInv, LoadsAreTrue, AnswersAreTrue, RanksAreTrue, TagsAreTrue, Telling, TrueRank
  <2>4. QED
    BY <1>1, <1>2, <1>3, <2>1, <2>3, UnderwayKeeps DEF RankInv, RankControl
<1>4. CASE failing' = TRUE /\ UNCHANGED <<queue, tasks>>
  <2>1. RankTypeOK'
    BY <1>1, <1>2, <1>4 DEF RankInv, RankTypeOK
  <2>2. QED
    BY <1>1, <1>2, <1>4, <2>1, UnderwayKeeps DEF RankInv, RankControl, LoadsAreTrue
<1>5. CASE failing' = TRUE /\ UNCHANGED queue /\ tasks' = Append(tasks, Message)
  <2>1. tasks' \in Seq({Message} \cup Rank)
    BY <1>5, MessageAppended DEF RankInv
  <2>2. RankTypeOK'
    BY <1>1, <1>2, <1>5, <2>1 DEF RankInv, RankTypeOK
  <2>3. QED
    BY <1>1, <1>2, <1>5, <2>2, UnderwayKeeps DEF RankInv, RankControl, LoadsAreTrue
<1>6. QED
  BY <1>3, <1>4, <1>5 DEF Load

LEMMA TakeKeeps ==
    ASSUME RankInv, NEW w \in Worker, Take(w)
    PROVE  RankInv'
<1>1. /\ queue > 0 /\ queue' = queue - 1 /\ queue \in 0..Capacity /\ worker[w].pc = "idle"
      /\ worker' = [worker EXCEPT ![w] = [Idle EXCEPT !.pc = "fetch"]]
      /\ tasks' = Append(tasks, Message)
      /\ UNCHANGED <<now, account, changes, loads, ranks, lastRankFetch, nameTag, closed,
                     shutdown, seen, failing, astray>>
  BY DEF Take, RankInv, RankTypeOK, history
<1>2. ~AtRest /\ queue' \in 0..Capacity
  BY <1>1, RankSyncAssumption DEF AtRest
<1>3. /\ worker'[w].pc = "fetch" /\ worker'[w].roles = {}
      /\ \A v \in Worker : v # w => worker'[v] = worker[v]
      /\ worker' \in [Worker -> WorkerState]
  <2>1. PICK r : r = [Idle EXCEPT !.pc = "fetch"]
    OBVIOUS
  <2>2. r \in WorkerState /\ r.pc = "fetch" /\ r.roles = {}
    <3>1. r = [pc |-> "fetch", attempt |-> 0, roles |-> {}, err |-> FALSE, highest |-> UnLinked]
      BY <2>1 DEF Idle
    <3>2. QED
      BY <3>1, KnownRanks, RankSyncAssumption DEF WorkerState
  <2>3. worker' = [worker EXCEPT ![w] = r]
    BY <1>1, <2>1
  <2>4. QED
    BY <2>2, <2>3 DEF RankInv, RankTypeOK, WorkerState
<1>4. Pending'
  BY <1>3 DEF Pending
<1>5. /\ tasks' \in Seq({Message} \cup Rank)
      /\ \A i \in 1..Len(tasks') : tasks'[i] \in Rank => \E j \in 1..Len(tasks) : tasks'[i] = tasks[j]
  BY <1>1, MessageAppended, KnownRanks DEF RankInv
<1>6. RankTypeOK'
  BY <1>1, <1>2, <1>3, <1>5 DEF RankInv, RankTypeOK, WorkerState
<1>7. LoadsAreTrue'
  BY <1>1, <1>3, <1>4, <1>5
     DEF RankInv, LoadsAreTrue, AnswersAreTrue, RanksAreTrue, TagsAreTrue, Telling, TrueRank
<1>8. QED
  BY <1>1, <1>2, <1>3, <1>6, <1>7, UnderwayKeeps DEF RankInv, RankControl, NotFound

LEMMA ExitKeeps ==
    ASSUME RankInv, NEW w \in Worker, Exit(w)
    PROVE  RankInv'
<1>1. /\ worker[w].pc = "idle" /\ worker' = [worker EXCEPT ![w].pc = "exited"]
      /\ UNCHANGED <<now, account, changes, loads, queue, tasks, ranks, lastRankFetch, nameTag,
                     closed, shutdown, seen, failing, astray>>
  BY DEF Exit, history
<1>2. /\ worker'[w].pc = "exited" /\ worker'[w].roles = worker[w].roles
      /\ \A v \in Worker : v # w => worker'[v] = worker[v]
      /\ RankTypeOK'
  BY <1>1 DEF RankInv, RankTypeOK
<1>3. AtRest' = AtRest /\ Pending' = Pending /\ TagOnItsWay' = TagOnItsWay
  BY <1>1, <1>2 DEF AtRest, Pending, TagOnItsWay
<1>4. RankControl'
  BY <1>1, <1>2, <1>3 DEF RankInv, RankControl
<1>5. \A v \in Worker : Telling(v)' = Telling(v)
  BY <1>1, <1>2 DEF Telling
<1>6. LoadsAreTrue'
  BY <1>1, <1>2, <1>3, <1>5
     DEF RankInv, LoadsAreTrue, AnswersAreTrue, RanksAreTrue, TagsAreTrue, TrueRank
<1>7. QED
  BY <1>2, <1>4, <1>6 DEF RankInv

\* What an attempt to get an answer needs to keep.
LEMMA AttemptKeeps ==
    ASSUME RankInv, NEW w \in Worker, worker[w].pc \in {"fetch", "asked"}, NEW r \in WorkerState,
           worker' = [worker EXCEPT ![w] = r], r.pc \in {"fetch", "asked", "answered"},
           r.roles # NotFound,
           (r.pc = "answered" /\ ~r.err) => r.roles = account \/ closed,
           UNCHANGED <<now, account, changes, loads, queue, tasks, ranks, lastRankFetch, nameTag,
                       closed, shutdown, seen, failing, astray>>
    PROVE  RankInv'
<1>1. ~AtRest /\ account \in seen /\ (closed => failing)
  BY DEF AtRest, RankInv, RankControl
<1>2. /\ worker' \in [Worker -> WorkerState] /\ worker'[w] = r
      /\ \A v \in Worker : v # w => worker'[v] = worker[v]
  BY DEF RankInv, RankTypeOK, WorkerState
<1>3. RankTypeOK'
  BY <1>2 DEF RankInv, RankTypeOK, WorkerState
<1>4. Pending'
  BY <1>2 DEF Pending
<1>5. LoadsAreTrue'
  BY <1>1, <1>2, <1>4
     DEF RankInv, LoadsAreTrue, AnswersAreTrue, RanksAreTrue, TagsAreTrue, Telling, TrueRank
<1>6. QED
  BY <1>1, <1>2, <1>3, <1>5, UnderwayKeeps DEF RankInv, RankControl

LEMMA AnsweredKeeps ==
    ASSUME RankInv, NEW w \in Worker, worker[w].pc \in {"fetch", "asked"},
           NEW roles \in Account \cup {{}}, NEW err \in BOOLEAN, Answered(w, roles, err),
           roles # NotFound, ~err => roles = account \/ closed,
           UNCHANGED <<now, account, changes, loads, queue, tasks, ranks, lastRankFetch, nameTag,
                       closed, shutdown, seen, failing, astray>>
    PROVE  RankInv'
<1>1. PICK r : r = [worker[w] EXCEPT !.pc = "answered", !.roles = roles, !.err = err]
  OBVIOUS
<1>2. worker' = [worker EXCEPT ![w] = r] /\ worker[w] \in WorkerState
  BY <1>1 DEF Answered, RankInv, RankTypeOK, WorkerState
<1>3. r \in WorkerState /\ r.pc = "answered" /\ r.roles = roles /\ r.err = err
  BY <1>1, <1>2 DEF WorkerState
<1>4. QED
  BY <1>2, <1>3, AttemptKeeps

\* A request is sent, or the closed service ends the load.
LEMMA FetchKeeps ==
    ASSUME RankInv, NEW w \in Worker, Fetch(w)
    PROVE  RankInv'
<1>1. /\ worker[w].pc = "fetch" /\ worker[w] \in WorkerState /\ worker[w].roles # NotFound
      /\ UNCHANGED <<now, account, changes, loads, queue, tasks, ranks, lastRankFetch, nameTag,
                     closed, shutdown, seen, failing, astray>>
  BY DEF Fetch, history, RankInv, RankTypeOK, RankControl, WorkerState
<1>2. CASE worker' = [worker EXCEPT ![w].pc = "asked"]
  <2>1. PICK r : r = [worker[w] EXCEPT !.pc = "asked"]
    OBVIOUS
  <2>2. /\ worker' = [worker EXCEPT ![w] = r]
        /\ r \in WorkerState /\ r.pc = "asked" /\ r.roles = worker[w].roles
    BY <1>1, <1>2, <2>1 DEF WorkerState
  <2>3. QED
    BY <1>1, <2>2, AttemptKeeps
<1>3. CASE closed /\ Answered(w, {}, worker[w].err)
  <2>1. worker[w].err \in BOOLEAN /\ {} # NotFound
    BY <1>1 DEF WorkerState, NotFound
  <2>2. QED
    BY <1>1, <1>3, <2>1, AnsweredKeeps
<1>4. QED
  BY <1>2, <1>3 DEF Fetch

\* An answer is that of the account as it is; an error has none.
LEMMA fetchRolesKeeps ==
    ASSUME RankInv, NEW w \in Worker, fetchRoles(w)
    PROVE  RankInv'
<1>1. /\ worker[w].pc = "asked" /\ worker[w] \in WorkerState /\ worker[w].roles # NotFound
      /\ account \in Account
      /\ UNCHANGED <<now, account, changes, loads, queue, tasks, ranks, lastRankFetch, nameTag,
                     closed, shutdown, seen, failing, astray>>
  BY DEF fetchRoles, history, RankInv, RankTypeOK, RankControl, WorkerState
<1>2. {} # NotFound
  BY DEF NotFound
<1>3. CASE account # NotFound /\ Answered(w, account, FALSE)
  BY <1>1, <1>3, AnsweredKeeps
<1>4. CASE Answered(w, {}, TRUE)
  BY <1>1, <1>2, <1>4, AnsweredKeeps
<1>5. CASE /\ worker[w].attempt < MaxRetries
           /\ worker' = [worker EXCEPT ![w].pc = "fetch", ![w].attempt = @ + 1, ![w].err = TRUE]
  <2>1. worker[w].attempt + 1 \in 0..MaxRetries
    BY <1>1, <1>5, RankSyncAssumption DEF WorkerState
  <2>2. PICK r : r = [worker[w] EXCEPT !.pc = "fetch", !.attempt = @ + 1, !.err = TRUE]
    OBVIOUS
  <2>3. /\ worker' = [worker EXCEPT ![w] = r]
        /\ r \in WorkerState /\ r.pc = "fetch" /\ r.roles = worker[w].roles
    BY <1>1, <1>5, <2>1, <2>2 DEF WorkerState
  <2>4. QED
    BY <1>1, <2>3, AttemptKeeps
<1>6. QED
  BY <1>3, <1>4, <1>5 DEF fetchRoles, Retry, GiveUp

\* What a worker stores is the truth, or it is known that something has failed.
LEMMA StoreKeeps ==
    ASSUME RankInv, NEW w \in Worker, Store(w)
    PROVE  RankInv'
<1>1. /\ worker[w].pc = "answered" /\ worker' = [worker EXCEPT ![w].pc = "stored"]
      /\ UNCHANGED <<now, account, changes, loads, queue, tasks, nameTag, closed, shutdown,
                     seen>>
      /\ worker \in [Worker -> WorkerState]
  BY DEF Store, RankInv, RankTypeOK, WorkerState
<1>2. /\ worker'[w].pc = "stored" /\ worker'[w].err = worker[w].err
      /\ worker'[w].roles = worker[w].roles
      /\ \A v \in Worker : v # w => worker'[v] = worker[v]
      /\ worker' \in [Worker -> WorkerState]
  BY <1>1 DEF WorkerState
<1>3. ~AtRest /\ worker[w].roles \in Account \cup {{}} /\ worker[w].roles # NotFound
  BY <1>1 DEF AtRest, RankInv, RankControl, WorkerState
<1>4. /\ ranks' \in SUBSET Rank /\ Highest(ranks') \in Rank
      /\ failing' \in BOOLEAN /\ (failing => failing') /\ astray' \in BOOLEAN
      /\ lastRankFetch' \in {-Cooldown} \cup 0..MaxTime
      /\ ~failing' => TrueRank(Highest(ranks'))
      /\ (~failing' /\ NotFound \notin seen) => ~worker[w].err
  <2>1. CASE worker[w].err
    <3>1. /\ ranks' = {UnLinked} /\ failing' = (failing \/ NotFound \notin seen)
          /\ lastRankFetch' = lastRankFetch /\ astray' = TRUE
      BY <1>1, <2>1 DEF Store
    <3>2. Highest(ranks') = UnLinked /\ UnLinked \in Rank
      BY <3>1, KnownRanks
    <3>3. NotFound \in seen => TrueRank(UnLinked)
      BY DEF TrueRank, RankFrom
    <3>4. QED
      BY <3>1, <3>2, <3>3 DEF RankInv, RankTypeOK
  <2>2. CASE ~worker[w].err
    <3>1. ranks' = RanksOf(worker[w].roles) /\ lastRankFetch' = now /\ failing' = failing
          /\ astray' = \E v \in Worker : BetweenReadAndSend(v)
      BY <1>1, <2>2 DEF Store
    <3>2. /\ ranks' \in SUBSET Rank /\ Highest(ranks') \in Rank
          /\ Highest(ranks') = RankFrom(worker[w].roles)
      BY <1>3, <3>1, RanksOfAnswer
    <3>3. ~failing => worker[w].roles \in seen
      BY <1>1, <2>2 DEF RankInv, LoadsAreTrue, AnswersAreTrue
    <3>4. QED
      BY <2>2, <3>1, <3>2, <3>3 DEF RankInv, RankTypeOK, TrueRank
  <2>3. QED
    BY <2>1, <2>2
<1>5. RankTypeOK'
  BY <1>1, <1>2, <1>4 DEF RankInv, RankTypeOK, WorkerState
<1>6. Telling(w)' /\ \A v \in Worker : v # w => Telling(v)' = Telling(v)
  BY <1>2 DEF Telling
<1>7. \A x : TrueRank(x)' = TrueRank(x)
  BY <1>1 DEF TrueRank
<1>8. ~failing' => AnswersAreTrue' /\ RanksAreTrue'
  BY <1>1, <1>2, <1>4, <1>7
     DEF RankInv, LoadsAreTrue, AnswersAreTrue, RanksAreTrue, TrueRank
<1>9. (~failing' /\ NotFound \notin seen') => TagsAreTrue'
  BY <1>1, <1>2, <1>4, <1>6 DEF RankInv, LoadsAreTrue, TagsAreTrue, TrueRank
<1>10. QED
  BY <1>1, <1>2, <1>3, <1>4, <1>5, <1>8, <1>9, UnderwayKeeps
     DEF RankInv, RankControl, LoadsAreTrue

LEMMA TellKeeps ==
    ASSUME RankInv, NEW w \in Worker, Tell(w)
    PROVE  RankInv'
<1>1. /\ worker[w].pc = "stored"
      /\ worker' = [worker EXCEPT ![w].pc = "told", ![w].highest = Highest(ranks)]
      /\ UNCHANGED <<now, account, changes, loads, queue, tasks, ranks, lastRankFetch, nameTag,
                     closed, shutdown, seen, failing, astray>>
      /\ worker \in [Worker -> WorkerState] /\ Highest(ranks) \in Rank
  BY DEF Tell, RankInv, RankTypeOK, WorkerState, RankControl, history
<1>2. PICK r : r = [worker[w] EXCEPT !.pc = "told", !.highest = Highest(ranks)]
  OBVIOUS
<1>3. /\ r \in WorkerState /\ r.pc = "told" /\ r.err = worker[w].err
      /\ r.roles = worker[w].roles /\ r.highest = Highest(ranks)
      /\ worker' = [worker EXCEPT ![w] = r]
  BY <1>1, <1>2 DEF WorkerState
<1>4. /\ worker' \in [Worker -> WorkerState] /\ worker'[w] = r
      /\ \A v \in Worker : v # w => worker'[v] = worker[v]
  BY <1>1, <1>3
<1>5. ~AtRest /\ RankTypeOK'
  BY <1>1, <1>4 DEF AtRest, RankInv, RankTypeOK, WorkerState
<1>6. Telling(w) /\ Telling(w)' /\ \A v \in Worker : v # w => Telling(v)' = Telling(v)
  BY <1>1, <1>3, <1>4 DEF Telling
<1>7. Pending' = Pending /\ TagOnItsWay' = TagOnItsWay
  BY <1>1, <1>3, <1>4 DEF Pending, TagOnItsWay
<1>8. ~failing' => AnswersAreTrue' /\ RanksAreTrue'
  BY <1>1, <1>3, <1>4, <1>6, <1>7
     DEF RankInv, LoadsAreTrue, AnswersAreTrue, RanksAreTrue, TrueRank
<1>9. (~failing' /\ NotFound \notin seen') => TagsAreTrue'
  BY <1>1, <1>3, <1>4, <1>6, <1>7
     DEF RankInv, LoadsAreTrue, RanksAreTrue, TagsAreTrue, TrueRank
<1>10. QED
  BY <1>1, <1>3, <1>4, <1>5, <1>8, <1>9, UnderwayKeeps DEF RankInv, RankControl, LoadsAreTrue

LEMMA SendKeeps ==
    ASSUME RankInv, NEW w \in Worker, Send(w)
    PROVE  RankInv'
<1>1. /\ worker[w].pc = "told" /\ worker' = [worker EXCEPT ![w] = Idle]
      /\ tasks' = Append(tasks, IF worker[w].err THEN Message ELSE worker[w].highest)
      /\ UNCHANGED <<now, account, changes, loads, queue, ranks, lastRankFetch, nameTag,
                     closed, shutdown, seen, failing, astray>>
      /\ worker \in [Worker -> WorkerState]
  BY DEF Send, RankInv, RankTypeOK, WorkerState, history
<1>2. Idle \in WorkerState /\ Idle.pc = "idle" /\ Idle.roles # NotFound
  BY KnownRanks, RankSyncAssumption DEF Idle, WorkerState, NotFound
<1>3. /\ worker' \in [Worker -> WorkerState] /\ worker'[w] = Idle
      /\ \A v \in Worker : v # w => worker'[v] = worker[v]
  BY <1>1, <1>2
<1>4. PICK m : m = IF worker[w].err THEN Message ELSE worker[w].highest
  OBVIOUS
<1>5. worker[w].highest \in Rank /\ m \in {Message} \cup Rank /\ tasks' = Append(tasks, m)
  BY <1>1, <1>4 DEF WorkerState
<1>6. /\ tasks' \in Seq({Message} \cup Rank)
      /\ \A i \in 1..Len(tasks') : tasks'[i] \in Rank =>
            (m \in Rank /\ tasks'[i] = m) \/ \E j \in 1..Len(tasks) : tasks'[i] = tasks[j]
      /\ m \in Rank \/ TagOnItsWay => TagOnItsWay'
  BY <1>5, MessageAppended DEF RankInv
<1>7. ~AtRest /\ RankTypeOK'
  BY <1>1, <1>3, <1>6 DEF AtRest, RankInv, RankTypeOK, WorkerState
<1>8. /\ Telling(w) /\ ~Telling(w)' /\ Pending' = Pending
      /\ \A v \in Worker : v # w => Telling(v)' = Telling(v)
  BY <1>1, <1>2, <1>3 DEF Telling, Pending
<1>9. ~failing' => AnswersAreTrue' /\ RanksAreTrue'
  BY <1>1, <1>2, <1>3, <1>8
     DEF RankInv, LoadsAreTrue, AnswersAreTrue, RanksAreTrue, TrueRank
<1>10. ASSUME ~failing', NotFound \notin seen' PROVE TagsAreTrue'
  <2>1. TagsAreTrue
    BY <1>1, <1>10 DEF RankInv, LoadsAreTrue
  <2>2. m = worker[w].highest /\ TrueRank(m) /\ m \in Rank
    BY <1>1, <1>4, <1>5, <1>8, <2>1 DEF TagsAreTrue
  <2>3. \A i \in 1..Len(tasks') : tasks'[i] \in Rank => TrueRank(tasks'[i])
    BY <1>6, <2>1, <2>2 DEF TagsAreTrue
  <2>4. QED
    BY <1>1, <1>2, <1>3, <1>6, <1>8, <2>1, <2>2, <2>3 DEF TagsAreTrue, TrueRank
<1>11. QED
  BY <1>1, <1>2, <1>3, <1>7, <1>9, <1>10, UnderwayKeeps DEF RankInv, RankControl, LoadsAreTrue

\* The callback that is first in line; the ones behind it move up.
LEMMA RunKeeps ==
    ASSUME RankInv, Run
    PROVE  RankInv'
<1>1. /\ tasks # <<>> /\ tasks' = Tail(tasks)
      /\ nameTag' = (IF Head(tasks) \in Rank THEN Head(tasks) ELSE nameTag)
      /\ UNCHANGED <<now, account, changes, loads, queue, worker, ranks, lastRankFetch, closed,
                     shutdown, seen, failing, astray>>
  BY DEF Run, history
<1>2. tasks \in Seq({Message} \cup Rank) /\ Len(tasks) \in Nat
  BY DEF RankInv, RankTypeOK
<1>3. /\ tasks' \in Seq({Message} \cup Rank) /\ Len(tasks') = Len(tasks) - 1
      /\ \A i \in 1..Len(tasks') : tasks'[i] = tasks[i + 1]
      /\ Head(tasks) = tasks[1] /\ 1 \in 1..Len(tasks)
  BY <1>1, <1>2, EmptySeq, HeadTailProperties
<1>4. \A i \in 1..Len(tasks') : i + 1 \in 1..Len(tasks)
  BY <1>2, <1>3
<1>5. ~AtRest /\ RankTypeOK'
  BY <1>1, <1>3 DEF AtRest, RankInv, RankTypeOK
<1>6. Pending' = Pending /\ \A w \in Worker : Telling(w)' = Telling(w)
  BY <1>1 DEF Pending, Telling
<1>7. ~failing' => AnswersAreTrue' /\ RanksAreTrue'
  BY <1>1, <1>6 DEF RankInv, LoadsAreTrue, AnswersAreTrue, RanksAreTrue, TrueRank
<1>8. ASSUME ~failing', NotFound \notin seen' PROVE TagsAreTrue'
  <2>1. TagsAreTrue
    BY <1>1, <1>8 DEF RankInv, LoadsAreTrue
  <2>2. \A i \in 1..Len(tasks') : tasks'[i] \in Rank => TrueRank(tasks'[i])
    BY <1>3, <1>4, <2>1 DEF TagsAreTrue
  <2>3. CASE Head(tasks) \in Rank
    <3>1. nameTag' = Head(tasks) /\ TrueRank(Head(tasks))
      BY <1>1, <1>3, <2>1, <2>3 DEF TagsAreTrue
    <3>2. QED
      BY <1>1, <1>6, <2>1, <2>2, <3>1 DEF TagsAreTrue, TrueRank
  <2>4. CASE Head(tasks) \notin Rank
    <3>1. TagOnItsWay => TagOnItsWay'
      <4>1. ASSUME NEW i \in 1..Len(tasks), tasks[i] \in Rank PROVE TagOnItsWay'
        <5>1. i # 1
          BY <1>3, <2>4, <4>1
        <5>2. i - 1 \in 1..Len(tasks') /\ tasks'[i - 1] = tasks[i]
          BY <1>2, <1>3, <5>1
        <5>3. QED
          BY <4>1, <5>2 DEF TagOnItsWay
      <4>2. QED
        BY <4>1 DEF TagOnItsWay
    <3>2. nameTag' = nameTag
      BY <1>1, <2>4
    <3>3. QED
      BY <1>1, <1>6, <2>1, <2>2, <3>1, <3>2 DEF TagsAreTrue, TrueRank
  <2>5. QED
    BY <2>3, <2>4
<1>9. QED
  BY <1>1, <1>5, <1>7, <1>8, UnderwayKeeps DEF RankInv, RankControl, LoadsAreTrue

LEMMA ChangeKeeps ==
    ASSUME RankInv, NEW a \in Account, Change(a)
    PROVE  RankInv'
<1>1. /\ account' = a /\ changes' = changes + 1 /\ changes < MaxChanges
      /\ seen' = (IF AtRest THEN seen ELSE seen \cup {a})
      /\ UNCHANGED <<now, loads, queue, worker, tasks, ranks, lastRankFetch, nameTag, closed,
                     shutdown, failing, astray>>
  BY DEF Change
<1>2. changes' \in 0..MaxChanges
  BY <1>1, RankSyncAssumption DEF RankInv, RankTypeOK
<1>3. RankTypeOK' /\ seen \subseteq seen'
  BY <1>1, <1>2 DEF RankInv, RankTypeOK
<1>4. AtRest' = AtRest /\ Pending' = Pending /\ TagOnItsWay' = TagOnItsWay
  BY <1>1 DEF AtRest, Pending, TagOnItsWay
<1>5. RankControl'
  BY <1>1, <1>4 DEF RankInv, RankControl
<1>6. LoadsAreTrue'
  BY <1>1, <1>3, <1>4
     DEF RankInv, LoadsAreTrue, AnswersAreTrue, RanksAreTrue, TagsAreTrue, Telling, TrueRank
<1>7. QED
  BY <1>3, <1>5, <1>6 DEF RankInv

LEMMA StopKeeps ==
    ASSUME RankInv, Stop
    PROVE  RankInv'
<1>1. /\ closed' = TRUE /\ shutdown' = closed /\ failing' = TRUE
      /\ UNCHANGED <<now, account, changes, loads, queue, worker, tasks, ranks, lastRankFetch,
                     nameTag, seen, astray>>
  BY DEF Stop
<1>2. RankTypeOK'
  BY <1>1 DEF RankInv, RankTypeOK
<1>3. AtRest' = AtRest
  BY <1>1 DEF AtRest
<1>4. QED
  BY <1>1, <1>2, <1>3 DEF RankInv, RankControl, LoadsAreTrue

LEMMA RankTickKeeps ==
    ASSUME RankInv, Tick \/ UNCHANGED rankVars
    PROVE  RankInv'
<1>1. /\ now' \in 0..MaxTime
      /\ UNCHANGED <<account, changes, loads, queue, worker, tasks, ranks, lastRankFetch, nameTag,
                     closed, shutdown, seen, failing, astray>>
  BY RankSyncAssumption DEF Tick, rankVars, history, RankInv, RankTypeOK
<1>2. RankTypeOK'
  BY <1>1 DEF RankInv, RankTypeOK
<1>3. AtRest' = AtRest /\ Pending' = Pending /\ TagOnItsWay' = TagOnItsWay
  BY <1>1 DEF AtRest, Pending, TagOnItsWay
<1>4. RankControl'
  BY <1>1, <1>3 DEF RankInv, RankControl
<1>5. LoadsAreTrue'
  BY <1>1, <1>3
     DEF RankInv, LoadsAreTrue, AnswersAreTrue, RanksAreTrue, TagsAreTrue, Telling, TrueRank
<1>6. QED
  BY <1>2, <1>4, <1>5 DEF RankInv

LEMMA RankNextInv ==
    ASSUME RankInv, [RankNext]_rankVars
    PROVE  RankInv'
<1>1. CASE SyncRank \/ Load \/ Run \/ Tick \/ Stop \/ UNCHANGED rankVars
  BY <1>1, SyncRankKeeps, LoadKeeps, RunKeeps, RankTickKeeps, StopKeeps
<1>2. ASSUME NEW w \in Worker,
             Take(w) \/ Exit(w) \/ Fetch(w) \/ fetchRoles(w) \/ Store(w) \/ Tell(w) \/ Send(w)
      PROVE  RankInv'
  BY <1>2, TakeKeeps, ExitKeeps, FetchKeeps, fetchRolesKeeps, StoreKeeps, TellKeeps, SendKeeps
<1>3. QED
  BY <1>1, <1>2, ChangeKeeps DEF RankNext

-----------------------------------------------------------------------------
(* Ranks: the name tag agrees with them *)

\* A callback with the player's rank will be sent by worker w.
WillTell(w) == worker[w].pc \in {"stored", "told"} /\ ~worker[w].err

\* The name tag once the callbacks that wait have run is x.
LastTagIs(x) ==
    /\ \A i \in 1..Len(tasks) :
          (tasks[i] \in Rank /\ \A j \in 1..Len(tasks) : j > i => tasks[j] \notin Rank)
          => tasks[i] = x
    /\ (\A i \in 1..Len(tasks) : tasks[i] \notin Rank) => nameTag = x

TagFollows ==
    ~astray =>
        /\ \A w \in Worker : BetweenReadAndSend(w) => worker[w].highest = Highest(ranks)
        /\ (\E w \in Worker : WillTell(w)) \/ LastTagIs(Highest(ranks))

LEMMA RankInitFollows == RankInit => TagFollows
  BY KnownRanks DEF RankInit, TagFollows, LastTagIs, BetweenReadAndSend, Idle, Highest

\* A message in line changes nothing of the name tag to come; a rank is it.
LEMMA AppendTag ==
    ASSUME RankTypeOK, NEW m \in {Message} \cup Rank, tasks' = Append(tasks, m),
           UNCHANGED nameTag, NEW x, IF m \in Rank THEN m = x ELSE LastTagIs(x)
    PROVE  LastTagIs(x)'
<1>1. tasks \in Seq({Message} \cup Rank) /\ Len(tasks) \in Nat
  BY DEF RankTypeOK
<1>2. /\ Len(tasks') = Len(tasks) + 1
      /\ tasks'[Len(tasks) + 1] = m /\ \A i \in 1..Len(tasks) : tasks'[i] = tasks[i]
  BY <1>1, AppendProperties
<1>3. /\ \A i \in 1..Len(tasks') : i = Len(tasks) + 1 \/ (i \in 1..Len(tasks) /\ Len(tasks) + 1 > i)
      /\ Len(tasks) + 1 \in 1..Len(tasks') /\ \A i \in 1..Len(tasks) : i \in 1..Len(tasks')
  BY <1>1, <1>2
<1>4. CASE m \in Rank
  BY <1>2, <1>3, <1>4, KnownRanks DEF LastTagIs
<1>5. CASE m \notin Rank
  BY <1>2, <1>3, <1>5 DEF LastTagIs
<1>6. QED
  BY <1>4, <1>5

\* Steps that leave the ranks alone, and the workers that are about to tell them.
LEMMA FollowsUntold ==
    ASSUME RankTypeOK, TagFollows, UNCHANGED <<ranks, nameTag, astray>>,
           tasks' = tasks \/ tasks' = Append(tasks, Message),
           \A v \in Worker : worker'[v] = worker[v] \/ (~WillTell(v) /\ ~WillTell(v)')
    PROVE  TagFollows'
<1>1. \A v \in Worker :
        /\ WillTell(v)' = WillTell(v)
        /\ BetweenReadAndSend(v)' => worker'[v] = worker[v]
  BY DEF WillTell, BetweenReadAndSend
<1>2. LastTagIs(Highest(ranks)) => LastTagIs(Highest(ranks))'
  <2>1. PICK x : x = Highest(ranks)
    OBVIOUS
  <2>2. x = Highest(ranks)'
    BY <2>1
  <2>3. ASSUME LastTagIs(x) PROVE LastTagIs(x)'
    <3>1. CASE tasks' = tasks
      BY <2>3, <3>1 DEF LastTagIs
    <3>2. CASE tasks' = Append(tasks, Message)
      <4>1. Message \in {Message} \cup Rank /\ Message \notin Rank
        BY KnownRanks
      <4>2. QED
        BY <2>3, <3>2, <4>1, AppendTag
    <3>3. QED
      BY <3>1, <3>2
  <2>4. QED
    BY <2>1, <2>2, <2>3 DEF LastTagIs
<1>3. QED
  BY <1>1, <1>2 DEF TagFollows, BetweenReadAndSend

\* The answer stored last is followed by its own tag: nobody else holds an older
\* one, and whoever reads the rank from now on reads this one.
LEMMA StoreFollows ==
    ASSUME RankTypeOK, TagFollows, NEW w \in Worker, Store(w)
    PROVE  TagFollows'
<1>1. /\ worker[w].pc = "answered" /\ worker' = [worker EXCEPT ![w].pc = "stored"]
      /\ worker \in [Worker -> WorkerState]
  BY DEF Store, RankTypeOK, WorkerState
<1>2. /\ worker'[w].pc = "stored" /\ worker'[w].err = worker[w].err
      /\ \A v \in Worker : v # w => worker'[v] = worker[v]
  BY <1>1 DEF WorkerState
<1>3. CASE worker[w].err
  BY <1>1, <1>3 DEF Store, TagFollows
<1>4. CASE ~worker[w].err
  <2>1. astray' = \E v \in Worker : BetweenReadAndSend(v)
    BY <1>4 DEF Store
  <2>2. ~BetweenReadAndSend(w)' /\ WillTell(w)'
    BY <1>2, <1>4 DEF BetweenReadAndSend, WillTell
  <2>3. \A v \in Worker : BetweenReadAndSend(v)' => BetweenReadAndSend(v)
    BY <1>2, <2>2 DEF BetweenReadAndSend
  <2>4. QED
    BY <2>1, <2>2, <2>3 DEF TagFollows
<1>5. QED
  BY <1>3, <1>4

LEMMA TellFollows ==
    ASSUME RankTypeOK, TagFollows, NEW w \in Worker, Tell(w)
    PROVE  TagFollows'
<1>1. /\ worker[w].pc = "stored" /\ worker \in [Worker -> WorkerState]
      /\ worker' = [worker EXCEPT ![w].pc = "told", ![w].highest = Highest(ranks)]
      /\ UNCHANGED <<tasks, ranks, nameTag, astray>>
  BY DEF Tell, RankTypeOK, WorkerState, history
<1>2. PICK r : r = [worker[w] EXCEPT !.pc = "told", !.highest = Highest(ranks)]
  OBVIOUS
<1>3. /\ worker'[w] = r /\ r.pc = "told" /\ r.highest = Highest(ranks) /\ r.err = worker[w].err
      /\ \A v \in Worker : v # w => worker'[v] = worker[v]
  BY <1>1, <1>2 DEF WorkerState
<1>4. \A v \in Worker : WillTell(v)' = WillTell(v)
  BY <1>1, <1>3 DEF WillTell
<1>5. LastTagIs(Highest(ranks))' = LastTagIs(Highest(ranks))
  BY <1>1 DEF LastTagIs
<1>6. QED
  BY <1>1, <1>3, <1>4, <1>5 DEF TagFollows, BetweenReadAndSend

LEMMA SendFollows ==
    ASSUME RankTypeOK, TagFollows, NEW w \in Worker, Send(w)
    PROVE  TagFollows'
<1>1. /\ worker[w].pc = "told" /\ worker' = [worker EXCEPT ![w] = Idle]
      /\ tasks' = Append(tasks, IF worker[w].err THEN Message ELSE worker[w].highest)
      /\ UNCHANGED <<ranks, nameTag, astray>> /\ worker \in [Worker -> WorkerState]
  BY DEF Send, RankTypeOK, WorkerState, history
<1>2. /\ worker'[w] = Idle /\ Idle.pc = "idle"
      /\ \A v \in Worker : v # w => worker'[v] = worker[v]
  BY <1>1 DEF Idle
<1>3. CASE worker[w].err
  <2>1. ~WillTell(w) /\ ~WillTell(w)'
    BY <1>2, <1>3 DEF WillTell
  <2>2. QED
    BY <1>1, <1>2, <1>3, <2>1, FollowsUntold
<1>4. CASE ~worker[w].err /\ astray
  BY <1>1, <1>4 DEF TagFollows
<1>5. CASE ~worker[w].err /\ ~astray
  <2>1. PICK m : m = worker[w].highest
    OBVIOUS
  <2>2. m = Highest(ranks) /\ m \in Rank /\ tasks' = Append(tasks, m)
    BY <1>1, <1>5, <2>1 DEF TagFollows, BetweenReadAndSend, WorkerState
  <2>3. LastTagIs(m)'
    BY <1>1, <2>2, AppendTag
  <2>4. LastTagIs(Highest(ranks))'
    BY <1>1, <2>2, <2>3 DEF LastTagIs
  <2>5. \A v \in Worker : BetweenReadAndSend(v)' => BetweenReadAndSend(v) /\ worker'[v] = worker[v]
    BY <1>2 DEF BetweenReadAndSend
  <2>6. QED
    BY <1>1, <1>5, <2>4, <2>5 DEF TagFollows
<1>6. QED
  BY <1>3, <1>4, <1>5

LEMMA RunFollows ==
    ASSUME RankTypeOK, TagFollows, Run
    PROVE  TagFollows'
<1>1. /\ tasks # <<>> /\ tasks' = Tail(tasks)
      /\ nameTag' = (IF Head(tasks) \in Rank THEN Head(tasks) ELSE nameTag)
      /\ UNCHANGED <<worker, ranks, astray>>
  BY DEF Run, history
<1>2. tasks \in Seq({Message} \cup Rank) /\ Len(tasks) \in Nat
  BY DEF RankTypeOK
<1>3. /\ Len(tasks') = Len(tasks) - 1
      /\ \A i \in 1..Len(tasks') : tasks'[i] = tasks[i + 1]
      /\ Head(tasks) = tasks[1] /\ 1 \in 1..Len(tasks)
  BY <1>1, <1>2, EmptySeq, HeadTailProperties
<1>4. ASSUME NEW x, LastTagIs(x) PROVE LastTagIs(x)'
  <2>1. /\ \A i \in 1..Len(tasks') : i + 1 \in 1..Len(tasks) /\ i + 1 > 1
        /\ \A j \in 1..Len(tasks) : j > 1 => j - 1 \in 1..Len(tasks') /\ tasks'[j - 1] = tasks[j]
        /\ \A j \in 1..Len(tasks) : j = 1 \/ j > 1
        /\ \A i \in 1..Len(tasks'), j \in 1..Len(tasks) : j > i + 1 => j - 1 > i
    BY <1>2, <1>3
  <2>2. ASSUME NEW i \in 1..Len(tasks'), tasks'[i] \in Rank,
               \A j \in 1..Len(tasks') : j > i => tasks'[j] \notin Rank
        PROVE  tasks'[i] = x
    <3>1. ASSUME NEW j \in 1..Len(tasks), j > i + 1 PROVE tasks[j] \notin Rank
      <4>1. j > 1 /\ j - 1 > i
        BY <2>1, <3>1
      <4>2. QED
        BY <2>1, <2>2, <4>1
    <3>2. QED
      BY <1>3, <1>4, <2>1, <2>2, <3>1 DEF LastTagIs
  <2>3. ASSUME \A i \in 1..Len(tasks') : tasks'[i] \notin Rank PROVE nameTag' = x
    <3>1. \A j \in 1..Len(tasks) : j > 1 => tasks[j] \notin Rank
      BY <2>1, <2>3
    <3>2. CASE tasks[1] \in Rank
      BY <1>1, <1>3, <1>4, <3>1, <3>2 DEF LastTagIs
    <3>3. CASE tasks[1] \notin Rank
      BY <1>1, <1>3, <1>4, <2>1, <3>1, <3>3 DEF LastTagIs
    <3>4. QED
      BY <3>2, <3>3
  <2>4. QED
    BY <2>2, <2>3 DEF LastTagIs
<1>5. LastTagIs(Highest(ranks)) => LastTagIs(Highest(ranks))'
  <2>1. PICK x : x = Highest(ranks)
    OBVIOUS
  <2>2. QED
    BY <1>1, <1>4, <2>1 DEF LastTagIs
<1>6. QED
  BY <1>1, <1>5 DEF TagFollows, BetweenReadAndSend, WillTell

LEMMA RankNextFollows ==
    ASSUME RankInv, TagFollows, [RankNext]_rankVars
    PROVE  TagFollows'
<1>1. RankTypeOK
  BY DEF RankInv
<1>2. CASE SyncRank \/ Load \/ Tick \/ Stop \/ (\E a \in Account : Change(a)) \/ UNCHANGED rankVars
  <2>1. /\ UNCHANGED <<worker, ranks, nameTag, astray>>
        /\ tasks' = tasks \/ tasks' = Append(tasks, Message)
    BY <1>2 DEF SyncRank, Load, Tick, Stop, Change, rankVars, history
  <2>2. QED
    BY <1>1, <2>1, FollowsUntold
<1>3. ASSUME NEW w \in Worker, Take(w) \/ Exit(w) \/ Fetch(w) \/ fetchRoles(w)
      PROVE  TagFollows'
  <2>1. /\ UNCHANGED <<ranks, nameTag, astray>>
        /\ tasks' = tasks \/ tasks' = Append(tasks, Message)
    BY <1>3 DEF Take, Exit, Fetch, fetchRoles, history
  <2>2. worker \in [Worker -> WorkerState]
    BY <1>1 DEF RankTypeOK, WorkerState
  <2>3. ~WillTell(w)
    BY <1>3 DEF WillTell, Take, Exit, Fetch, fetchRoles
  <2>4. ~WillTell(w)' /\ \A v \in Worker : v # w => worker'[v] = worker[v]
    <3>1. CASE Take(w)
      BY <2>2, <3>1 DEF Take, WillTell, Idle
    <3>2. CASE Exit(w)
      BY <2>2, <3>2 DEF Exit, WillTell
    <3>3. CASE worker' = [worker EXCEPT ![w].pc = "asked"]
      BY <2>2, <3>3 DEF WillTell, WorkerState
    <3>4. ASSUME NEW roles, NEW err, Answered(w, roles, err)
          PROVE  ~WillTell(w)' /\ \A v \in Worker : v # w => worker'[v] = worker[v]
      BY <2>2, <3>4 DEF Answered, WillTell, WorkerState
    <3>5. CASE worker' = [worker EXCEPT ![w].pc = "fetch", ![w].attempt = @ + 1, ![w].err = TRUE]
      BY <2>2, <3>5 DEF WillTell, WorkerState
    <3>6. QED
      BY <1>3, <3>1, <3>2, <3>3, <3>4, <3>5 DEF Fetch, fetchRoles, Retry, GiveUp
  <2>5. QED
    BY <1>1, <2>1, <2>3, <2>4, FollowsUntold
<1>4. QED
  BY <1>1, <1>2, <1>3, StoreFollows, TellFollows, SendFollows, RunFollows DEF RankNext

-----------------------------------------------------------------------------
(* Ranks: theorems *)

\* The invariant of the ranks holds of every run, for any workers, retries,
\* capacity of the queue and number of roles.
THEOREM RanksInvariant == RankSpec => [](RankInv /\ TagFollows)
<1>1. (RankInv /\ TagFollows) /\ [RankNext]_rankVars => (RankInv /\ TagFollows)'
  BY RankNextInv, RankNextFollows
<1>2. RankInit => RankInv /\ TagFollows
  BY RankInitInv, RankInitFollows
<1>3. QED
  BY <1>1, <1>2, PTL DEF RankSpec

\* When all loads are through, the name tag shows the rank unless the last answer
\* was an error or met another worker between reading and sending; if none has
\* failed, both are ones that the account gave the player in the meantime, however
\* the workers and the callbacks have overtaken each other.
THEOREM RanksComeToRest == RankSpec => []RestIsTrue
<1>1. RankInv /\ TagFollows => RestIsTrue
  <2> SUFFICES ASSUME RankInv, TagFollows, AtRest
               PROVE  /\ ~astray => nameTag = Highest(ranks)
                      /\ ~failing => \E a \in seen : Highest(ranks) = RankFrom(a)
                      /\ ~failing /\ NotFound \notin seen => \E a \in seen : nameTag = RankFrom(a)
    BY DEF RestIsTrue
  <2>1. ~Pending /\ ~TagOnItsWay /\ \A w \in Worker : ~Telling(w) /\ ~WillTell(w)
    BY DEF AtRest, Pending, TagOnItsWay, Telling, WillTell
  <2>2. ~failing => TrueRank(Highest(ranks)) /\ (NotFound \notin seen => TrueRank(nameTag))
    BY <2>1 DEF RankInv, LoadsAreTrue, RanksAreTrue, TagsAreTrue
  <2>3. ~astray => nameTag = Highest(ranks)
    BY <2>1 DEF TagFollows, LastTagIs, AtRest
  <2>4. QED
    BY <2>2, <2>3 DEF TrueRank
<1>2. QED
  BY <1>1, RanksInvariant, PTL

\* Type correctness, the ranks of the player being among those roles stand for.
THEOREM RankTypes == RankSpec => []RankTypeOK
<1>1. RankInv => RankTypeOK
  BY DEF RankInv
<1>2. QED
  BY <1>1, RanksInvariant, PTL

=============================================================================

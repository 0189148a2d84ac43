------------------------------- MODULE Watchdog -------------------------------
(***************************************************************************)
(* The watchdog of the hub (pokebedrock/watchdog/watchdog.go): one         *)
(* goroutine that, each time its ticker fires, posts an empty task to the  *)
(* world owner and waits for it, and then logs and reports to Sentry what  *)
(* it has found, flushing after each report.  The next check is late when  *)
(* the wait and the flushes outlast the interval.                          *)
(*                                                                         *)
(* Memory and goroutines are conditions the environment chooses at each    *)
(* check.  Ages and times stop growing where no comparison can tell more.  *)
(***************************************************************************)
EXTENDS Integers, Sequences, FiniteSets

CONSTANTS
    Condition,         \* conditions in the order evaluate tests them, Stall first
    CheckInterval, WorldExecTimeout, AlertCooldown,
    FlushTime          \* sentry.Flush returns after that at the latest

Stall == "world_stall"

ASSUME WatchdogAssumption ==
    /\ Condition \in Seq(STRING) /\ Condition # <<>> /\ Head(Condition) = Stall
    /\ CheckInterval \in Nat \ {0} /\ WorldExecTimeout \in Nat \ {0}
    /\ AlertCooldown \in Nat /\ FlushTime \in Nat

VARIABLES
    wedged,     \* the world owner does not get out of its task
    probes,     \* probes in the queue of the world owner
    ticker,     \* time until the ticker fires
    fired,      \* a tick waits in the channel of the ticker (capacity 1)
    dog,        \* the goroutine: where it is, since when, what it has found
    quiet,      \* age of lastAlert, AlertCooldown at most or if there is none
    stuckFor,   \* for how long the owner has been wedged (history)
    heard       \* what was logged and sent of it (history)

dogVars == <<wedged, probes, ticker, fired, dog, quiet, stuckFor, heard>>

Conditions == {Condition[i] : i \in 1..Len(Condition)}

NumConditions == Cardinality(Conditions)

MaxOf(a, b) == IF a >= b THEN a ELSE b

\* A wedge begins when a check has probed or reported: the reports of that check
\* are flushed, a tick has been waiting or is waited for, the probe times out.
LoggedWithin == MaxOf(CheckInterval, NumConditions * FlushTime) + WorldExecTimeout

\* The last report that the cooldown holds back, and the next one.
SentWithin ==
    MaxOf(LoggedWithin,
          AlertCooldown + MaxOf(CheckInterval,
                                WorldExecTimeout + (NumConditions - 1) * FlushTime))

Waiting == [pc |-> "select", for |-> 0, alerts |-> {}]

WatchdogTypeOK ==
    /\ wedged \in BOOLEAN /\ fired \in BOOLEAN
    /\ probes \in Nat
    /\ ticker \in 1..CheckInterval
    /\ dog.pc \in {"select", "probe", "dispatch", "flush", "stopped"}
    /\ dog.for \in 0..MaxOf(WorldExecTimeout, FlushTime)
    /\ dog.alerts \subseteq Conditions
    /\ quiet \in [Conditions -> 0..AlertCooldown]
    /\ stuckFor \in 0..(SentWithin + 1)
    /\ heard \subseteq {"log", "sentry"}

WatchdogInit ==
    /\ wedged = FALSE /\ probes = 0
    /\ ticker = CheckInterval /\ fired = FALSE
    /\ dog = Waiting
    /\ quiet = [c \in Conditions |-> AlertCooldown]
    /\ stuckFor = 0 /\ heard = {}

-----------------------------------------------------------------------------
(* The world owner and the clock *)

\* A task that does not come back: an owner that waits for itself, say.
Wedge ==
    /\ ~wedged
    /\ wedged' = TRUE /\ stuckFor' = 0 /\ heard' = {}
    /\ UNCHANGED <<probes, ticker, fired, dog, quiet>>

Recover ==
    /\ wedged
    /\ wedged' = FALSE /\ stuckFor' = 0 /\ heard' = {}
    /\ UNCHANGED <<probes, ticker, fired, dog, quiet>>

\* The goroutine is fast, the clock waits for it.
Rests ==
    \/ dog.pc = "select" /\ ~fired
    \/ dog.pc = "probe" /\ wedged /\ dog.for < WorldExecTimeout
    \/ dog.pc = "flush" /\ dog.for < FlushTime
    \/ dog.pc = "stopped"

Elapse ==
    /\ Rests
    /\ IF dog.pc = "stopped" THEN UNCHANGED <<ticker, fired>>
       ELSE /\ ticker' = IF ticker = 1 THEN CheckInterval ELSE ticker - 1
            /\ fired' = (fired \/ ticker = 1)
    /\ dog' = IF dog.pc \in {"probe", "flush"} THEN [dog EXCEPT !.for = @ + 1] ELSE dog
    /\ quiet' = [c \in Conditions |-> IF quiet[c] < AlertCooldown THEN quiet[c] + 1
                                                                  ELSE quiet[c]]
    /\ stuckFor' = IF wedged /\ stuckFor <= SentWithin THEN stuckFor + 1 ELSE stuckFor
    /\ UNCHANGED <<wedged, probes, heard>>

-----------------------------------------------------------------------------
(* The loop *)

\* runCheck as far as the probe: goroutines and heap are sampled before it.
runCheck ==
    /\ dog.pc = "select" /\ fired
    /\ fired' = FALSE
    /\ probes' = probes + 1
    /\ \E breached \in SUBSET (Conditions \ {Stall}) :
          dog' = [pc |-> "probe", for |-> 0, alerts |-> breached]
    /\ UNCHANGED <<wedged, ticker, quiet, stuckFor, heard>>

Dispatching(alerts) ==
    dog' = IF alerts = {} THEN Waiting
           ELSE [pc |-> "dispatch", for |-> 0, alerts |-> alerts]

\* The owner runs its queue in order; the goroutine waits for the last probe.
ProbeRuns ==
    /\ ~wedged /\ probes > 0
    /\ probes' = probes - 1
    /\ IF dog.pc = "probe" /\ probes = 1 THEN Dispatching(dog.alerts) ELSE UNCHANGED dog
    /\ UNCHANGED <<wedged, ticker, fired, quiet, stuckFor, heard>>

\* The probe is cancelled, so that it does not stay in the queue of the owner.
ProbeTimesOut ==
    /\ dog.pc = "probe" /\ dog.for = WorldExecTimeout
    /\ probes' = probes - 1
    /\ Dispatching({Stall} \cup dog.alerts)
    /\ UNCHANGED <<wedged, ticker, fired, quiet, stuckFor, heard>>

\* Mutant of shouldAlert: a report that is held back counts as a report.
shouldAlertExtends(c, allowed) ==
    /\ allowed = (quiet[c] >= AlertCooldown)
    /\ quiet' = [quiet EXCEPT ![c] = 0]

shouldAlert(c, allowed) ==
    /\ allowed = (quiet[c] >= AlertCooldown)
    /\ quiet' = IF allowed THEN [quiet EXCEPT ![c] = 0] ELSE quiet

\* evaluate returns the alerts in the order of Condition.
IsNext(c) ==
    \E i \in 1..Len(Condition) :
        /\ c = Condition[i] /\ c \in dog.alerts
        /\ \A j \in 1..(i - 1) : Condition[j] \notin dog.alerts

\* Every alert is logged; a report to Sentry is followed by a flush.
dispatch ==
    /\ dog.pc = "dispatch"
    /\ \E c \in dog.alerts, allowed \in BOOLEAN :
          /\ IsNext(c) /\ shouldAlert(c, allowed)
          /\ IF allowed THEN dog' = [pc |-> "flush", for |-> 0, alerts |-> dog.alerts \ {c}]
                        ELSE Dispatching(dog.alerts \ {c})
          /\ heard' = IF c = Stall /\ wedged
                      THEN heard \cup {"log"} \cup (IF allowed THEN {"sentry"} ELSE {})
                      ELSE heard
    /\ UNCHANGED <<wedged, probes, ticker, fired, stuckFor>>

\* The flush returns when everything is sent, or after FlushTime.
Flushed ==
    /\ dog.pc = "flush"
    /\ Dispatching(dog.alerts)
    /\ UNCHANGED <<wedged, probes, ticker, fired, quiet, stuckFor, heard>>

\* Stop, and the loop sees it when it is back at its select.
StopDog ==
    /\ dog.pc = "select"
    /\ dog' = [dog EXCEPT !.pc = "stopped"]
    /\ ticker' = CheckInterval /\ fired' = FALSE
    /\ UNCHANGED <<wedged, probes, quiet, stuckFor, heard>>

Loop == runCheck \/ ProbeRuns \/ ProbeTimesOut \/ dispatch \/ Flushed

WatchdogNext == Wedge \/ Recover \/ Elapse \/ Loop \/ StopDog

WatchdogSpec == WatchdogInit /\ [][WatchdogNext]_dogVars

-----------------------------------------------------------------------------
(* Properties *)

\* A wedged owner is noticed in time: it is in the log within one interval and
\* one timeout, and at Sentry at most a cooldown later, although checks are
\* delayed by flushes, ticks are dropped meanwhile, and a wedge before, or one
\* that was over when it was reported, has used up the cooldown.
WedgeIsReported ==
    dog.pc # "stopped" =>
        /\ stuckFor > LoggedWithin => "log" \in heard
        /\ stuckFor > SentWithin => "sentry" \in heard

=============================================================================

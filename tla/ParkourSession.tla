---------------------------- MODULE ParkourSession ----------------------------
(***************************************************************************)
(* The parkour runs of one player (pokebedrock/parkour/manager.go,         *)
(* session.go, handler.go).  Everything runs on the world owner; what      *)
(* makes it hard is the countdown: a chain of callbacks, one a second,     *)
(* that outlives the run, the session and the visit it was started for.    *)
(* Runs of different players do not touch each other.                      *)
(*                                                                         *)
(* Session objects are numbered in the order they are made, since a        *)
(* callback keeps the object it was made for after the map has dropped it. *)
(* One course, whose start and end lie on no pressure plate.  Popups and   *)
(* messages are left out, and with them the first tick of a countdown.     *)
(***************************************************************************)
EXTENDS Integers, FiniteSets

CONSTANTS
    Plate,        \* pressure plates
    Seconds,      \* Config.CountdownSeconds
    MaxSessions,  \* session objects (bound)
    MaxVisits,    \* times the player joins the hub (bound)
    MaxTime       \* seconds (bound)

ASSUME ParkourAssumption ==
    /\ Plate \cap {"spawn", "start", "end", "void"} = {}
    /\ Seconds \in Nat /\ MaxSessions \in Nat /\ MaxVisits \in Nat /\ MaxTime \in Nat

VARIABLES
    now,       \* time.Now(), in seconds
    visit,     \* number of the visit of the player to the hub
    here,      \* the player is in the hub
    at,        \* where the player is
    mobile,    \* the player may move
    kit,       \* "lobby" or "parkour"
    cur,       \* session of the player in Manager.sessions, 0 if none
    obj,       \* the session objects
    tasks,     \* callbacks that are scheduled or queued
    began,     \* when the last countdown began (history)
    ran,       \* seconds spent running in this session (history)
    restarts   \* the session went back to its checkpoint (history)

vars == <<now, visit, here, at, mobile, kit, cur, obj, tasks, began, ran, restarts>>

Place == {"spawn", "start", "end", "void"} \cup Plate

Session == [state : {"idle", "countdown", "running"}, checkpoint : Place,
            runStart : 0..MaxTime, elapsed : 0..MaxTime, gen : Nat]

NewSession == [state |-> "idle", checkpoint |-> "spawn", runStart |-> 0, elapsed |-> 0, gen |-> 0]

Task == [sid : 1..MaxSessions, gen : Nat, remaining : 1..(Seconds + 1),
         due : 0..(MaxTime + 1), visit : 1..MaxVisits]

TypeOK ==
    /\ now \in 0..MaxTime /\ visit \in 0..MaxVisits /\ here \in BOOLEAN
    /\ at \in Place /\ mobile \in BOOLEAN /\ kit \in {"lobby", "parkour"}
    /\ cur \in 0..Cardinality(DOMAIN obj)
    /\ obj \in [1..Cardinality(DOMAIN obj) -> Session]
    /\ tasks \subseteq Task
    /\ began \in 0..MaxTime /\ ran \in 0..MaxTime /\ restarts \in BOOLEAN

Init ==
    /\ now = 0 /\ visit = 0 /\ here = FALSE
    /\ at = "spawn" /\ mobile = TRUE /\ kit = "lobby"
    /\ cur = 0 /\ obj = [i \in {} |-> NewSession] /\ tasks = {}
    /\ began = 0 /\ ran = 0 /\ restarts = FALSE

\* The state of the player's session, if there is one.
State == IF cur = 0 THEN "none" ELSE obj[cur].state

-----------------------------------------------------------------------------
(* The countdown *)

\* Cancel comes too late for a callback that is due: it may be queued already.
\* Nothing cancels the callback of a countdown of 0 seconds.
Cancelled(sid) ==
    {{t \in tasks : t.sid # sid}} \cup
    (IF Seconds = 0 THEN {tasks} ELSE {{t \in tasks : t.sid # sid \/ t.due <= now}})

\* Mutant of Stopped: the generation stays.
StoppedQuietly(s) == s

\* stopCountdown, as far as the session object s is concerned.
Stopped(s) == [s EXCEPT !.gen = @ + 1]

\* Mutant of beginCountdown: the first second is skipped.
beginCountdownShort(sid, s, left) ==
    /\ tasks' = left \cup {[sid |-> sid, gen |-> s.gen, visit |-> visit,
                            remaining |-> Seconds, due |-> now]}
    /\ began' = now

\* beginCountdown for session sid, which is s by now (and stopped once more).
beginCountdown(sid, s, left) ==
    /\ tasks' = left \cup
           {[sid |-> sid, gen |-> s.gen, visit |-> visit,
             remaining |-> IF Seconds = 0 THEN 1 ELSE Seconds,
             due |-> IF Seconds = 0 THEN now ELSE now + 1]}
    /\ began' = now

\* The callback finds its player, and its countdown was not stopped.
Live(t) == here /\ t.visit = visit /\ t.gen = obj[t.sid].gen

\* A callback runs: the next second, or Go.
Callback(t) ==
    /\ t \in tasks /\ t.due <= now
    /\ \/ /\ ~Live(t)
          /\ tasks' = tasks \ {t}
          /\ UNCHANGED <<mobile, obj>>
       \/ /\ Live(t) /\ t.remaining > 1
          /\ tasks' = (tasks \ {t}) \cup {[t EXCEPT !.remaining = @ - 1, !.due = now + 1]}
          /\ UNCHANGED <<mobile, obj>>
       \/ /\ Live(t) /\ t.remaining = 1
          /\ tasks' = tasks \ {t}
          /\ obj' = [obj EXCEPT ![t.sid].state = "running", ![t.sid].runStart = now]
          /\ mobile' = TRUE
    /\ UNCHANGED <<now, visit, here, at, kit, cur, began, ran, restarts>>

-----------------------------------------------------------------------------
(* Handlers *)

\* The start form of the course is submitted.
StartCourse ==
    /\ here
    /\ State \in {"none", "idle"}
    /\ LET sid == IF cur # 0 THEN cur ELSE Cardinality(DOMAIN obj) + 1
           old == IF cur # 0 THEN obj[cur] ELSE NewSession
           s   == Stopped([old EXCEPT !.state = "countdown", !.checkpoint = "start"])
       IN  /\ sid <= MaxSessions
           /\ cur' = sid
           /\ obj' = [i \in DOMAIN obj \cup {sid} |-> IF i = sid THEN s ELSE obj[i]]
           /\ \E left \in Cancelled(sid) : beginCountdown(sid, s, left)
    /\ kit' = "parkour" /\ at' = "start" /\ mobile' = FALSE
    /\ ran' = 0 /\ restarts' = FALSE
    /\ UNCHANGED <<now, visit, here>>

\* Restarting is refused during a countdown.
restartFromCheckpoint ==
    /\ State = "running"
    /\ LET s == Stopped(Stopped([obj[cur] EXCEPT !.state = "countdown"]))
       IN  /\ obj' = [obj EXCEPT ![cur] = s]
           /\ \E left \in Cancelled(cur) : beginCountdown(cur, s, left)
    /\ at' = obj[cur].checkpoint /\ mobile' = FALSE
    /\ restarts' = TRUE
    /\ UNCHANGED <<now, visit, here, kit, cur, ran>>

\* Session s of the player ends.
endRun(s) ==
    /\ obj' = [obj EXCEPT ![cur] = Stopped(s)]
    /\ tasks' \in Cancelled(cur)
    /\ cur' = 0
    /\ mobile' = TRUE /\ kit' = "lobby"

\* Mutant of CheckpointSaved: the clock of the next section is not reset.
CheckpointSavedLate(s, pos) ==
    IF pos \in Plate /\ s.checkpoint # pos
    THEN [s EXCEPT !.checkpoint = pos, !.elapsed = (now - s.runStart) + @]
    ELSE s

\* checkCheckpoint: session s with its player at pos.
CheckpointSaved(s, pos) ==
    IF pos \in Plate /\ s.checkpoint # pos
    THEN [s EXCEPT !.checkpoint = pos, !.elapsed = (now - s.runStart) + @, !.runStart = now]
    ELSE s

Duration(s) == (now - s.runStart) + s.elapsed

\* HandleMove.  A player that is immobile only turns, which the caller
\* (handler/player.go) ignores, like a straight fall.
HandleMove(pos) ==
    /\ here /\ mobile
    /\ \/ /\ pos = "void" /\ State = "running"
          /\ restartFromCheckpoint
       \/ /\ pos = "void" /\ State \in {"none", "idle"}
          /\ at' = "spawn"
          /\ UNCHANGED <<now, visit, here, mobile, kit, cur, obj, tasks, began, ran, restarts>>
       \/ /\ State # "running" /\ (pos = "void" => State = "countdown")
          /\ at' = pos
          /\ UNCHANGED <<now, visit, here, mobile, kit, cur, obj, tasks, began, ran, restarts>>
       \/ /\ pos \notin {"void", "end"} /\ State = "running"
          /\ at' = pos
          /\ obj' = [obj EXCEPT ![cur] = CheckpointSaved(@, pos)]
          /\ UNCHANGED <<now, visit, here, mobile, kit, cur, tasks, began, ran, restarts>>
       \/ /\ pos = "end" /\ State = "running"
          /\ at' = pos
          /\ endRun([obj[cur] EXCEPT !.state = "idle"])
          /\ UNCHANGED <<now, visit, here, began, ran, restarts>>

\* The items of the parkour kit.
UseQuit ==
    /\ here /\ kit = "parkour" /\ cur # 0
    /\ endRun(obj[cur])
    /\ at' = "spawn"
    /\ UNCHANGED <<now, visit, here, began, ran, restarts>>

UseRestart ==
    /\ here /\ kit = "parkour" /\ cur # 0
    /\ restartFromCheckpoint

\* The player joins: a new entity, which HandleJoin dresses for the lobby.
Join ==
    /\ ~here /\ visit < MaxVisits
    /\ here' = TRUE /\ visit' = visit + 1
    /\ at' = "spawn" /\ mobile' = TRUE /\ kit' = "lobby"
    /\ UNCHANGED <<now, cur, obj, tasks, began, ran, restarts>>

\* Mutant of HandleQuit: the session stays in the map.
HandleQuitKeeps ==
    /\ here /\ here' = FALSE
    /\ UNCHANGED <<now, visit, at, mobile, kit, cur, obj, tasks, began, ran, restarts>>

HandleQuit ==
    /\ here /\ here' = FALSE
    /\ \/ /\ cur # 0
          /\ obj' = [obj EXCEPT ![cur] = Stopped(@)]
          /\ tasks' \in Cancelled(cur)
          /\ cur' = 0
       \/ cur = 0 /\ UNCHANGED <<obj, tasks, cur>>
    /\ UNCHANGED <<now, visit, at, mobile, kit, began, ran, restarts>>

\* A second passes; the owner is at most a second late with its callbacks.
Second ==
    /\ now < MaxTime
    /\ \A t \in tasks : t.due >= now
    /\ now' = now + 1
    /\ ran' = IF State = "running" THEN ran + 1 ELSE ran
    /\ UNCHANGED <<visit, here, at, mobile, kit, cur, obj, tasks, began, restarts>>

Next ==
    \/ \E t \in tasks : Callback(t)
    \/ StartCourse
    \/ \E pos \in Place : HandleMove(pos)
    \/ UseQuit \/ UseRestart
    \/ Join \/ HandleQuit
    \/ Second

Spec == Init /\ [][Next]_vars

-----------------------------------------------------------------------------
(* Properties *)

\* Nobody is held for ever: a countdown has exactly one callback that carries
\* it on; neither stopping it nor starting the next one loses or doubles it.
CountdownGoesOn ==
    Cardinality({t \in tasks : Live(t)}) =
        IF State = "countdown" THEN 1 ELSE 0

\* A run that is over leaves no trace on the player: it can move and has the
\* kit of the lobby, however the run ended; and the other way round the
\* player's session is one of this visit.
NoTraceOfRun ==
    /\ (here /\ cur = 0) => (mobile /\ kit = "lobby")
    /\ cur # 0 => here /\ kit = "parkour"

\* Every run, also one that goes on from a checkpoint, starts after a
\* countdown of its full length.
CountdownIsWhole ==
    [][(State = "countdown" /\ State' = "running") => now - began >= Seconds]_vars

\* The recorded time of a run is the time spent running, less what was lost
\* by going back to a checkpoint: the sections add up.
RecordedTimeIsRun ==
    [][(State = "running" /\ State' = "none" /\ at' = "end")
          => /\ Duration(obj[cur]) <= ran
             /\ ~restarts => Duration(obj[cur]) = ran]_vars

=============================================================================

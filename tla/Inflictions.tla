------------------------------ MODULE Inflictions ------------------------------
(***************************************************************************)
(* The inflictions of one player of the hub.  Staff add and remove them    *)
(* with forms (pokebedrock/form/moderate.go), each on a goroutine of its   *)
(* own that calls the moderation service over HTTP, with a retry after a   *)
(* timeout (moderation/service.go), and applies the result on the world    *)
(* owner.  A worker loads the inflictions of a player that joins           *)
(* (session/inflictions.go), and parkour runs hold and release the player  *)
(* as well (parkour/manager.go).                                           *)
(*                                                                         *)
(* Inflictions are numbered in the order they are submitted.  Warnings     *)
(* only send a message and are left out; "BANNED" stands for kicks too.    *)
(* The moderation service is external.  A request that timed out has taken *)
(* effect by then or never does.  What a load of an earlier visit stores   *)
(* goes to an object nobody uses any more and is left out.                 *)
(***************************************************************************)
EXTENDS Integers, Sequences, FiniteSets, FiniteSetsExt

CONSTANTS
    Form,         \* forms whose goroutines run at the same time (bound)
    Type,         \* types of inflictions staff use, of "MUTED", "FROZEN", "BANNED"
    Expiry,       \* times at which timed inflictions may expire
    MaxRetries,   \* maxRetries of moderation/service.go
    Courses,      \* the hub has a parkour course
    MaxSubmits,   \* inflictions submitted (bound)
    MaxVisits,    \* times the player joins (bound)
    MaxTime       \* the clock stops here (bound)

ASSUME InflictionsAssumption ==
    /\ Type \subseteq {"MUTED", "FROZEN", "BANNED"}
    /\ Expiry \subseteq 1..MaxTime
    /\ Courses \in BOOLEAN
    /\ MaxRetries \in Nat /\ MaxSubmits \in Nat /\ MaxVisits \in Nat /\ MaxTime \in Nat

Permanent == 0

VARIABLES
    now,        \* time.Now()
    visits,     \* visits of the player so far
    here,       \* the player is in the hub
    own,        \* the Inflictions of the player's handler
    mobile,     \* the player may move
    run,        \* the player's parkour run
    load,       \* the load of this visit
    issued,     \* the inflictions submitted so far
    current,    \* those that are in the player's current_inflictions
    recorded,   \* those that ever were (history)
    form,       \* the goroutines of the forms
    closed      \* Service.closed

vars == <<now, visits, here, own, mobile, run, load, issued, current, recorded,
          form, closed>>

player == <<visits, here, own, mobile, run, load>>
service == <<issued, current, recorded>>

Number == 1..Len(issued)

Infliction ==
    [type : Type \cap {"MUTED"}, until : Expiry \cup {Permanent}]
      \cup [type : Type \ {"MUTED"}, until : {Permanent}]

\* dur == 0 || dur >= now: the clock stands still between the milliseconds in
\* which mutes end.
InForce(until) == until = Permanent \/ until > now

Nothing == [muted |-> FALSE, until |-> Permanent, frozen |-> FALSE]

Idle == [pc |-> "idle", op |-> "none", n |-> 0, attempt |-> 0, err |-> FALSE]

NoLoad == [pc |-> "none", found |-> {}]

TypeOK ==
    /\ now \in 0..MaxTime /\ visits \in 0..MaxVisits /\ here \in BOOLEAN
    /\ own \in [muted : BOOLEAN, until : Expiry \cup {Permanent}, frozen : BOOLEAN]
    /\ mobile \in BOOLEAN /\ run \in {"none", "countdown", "running"}
    /\ load \in [pc : {"none", "waiting", "queued", "fetched", "stored"}, found : SUBSET Number]
    /\ issued \in Seq(Infliction) /\ Len(issued) <= MaxSubmits
    /\ current \subseteq recorded /\ recorded \subseteq Number
    /\ form \in [Form -> [pc : {"idle", "request", "answered"}, op : {"none", "add", "remove"},
                          n : 0..MaxSubmits, attempt : 0..MaxRetries, err : BOOLEAN]]
    /\ closed \in BOOLEAN

Init ==
    /\ now = 0 /\ visits = 0 /\ here = FALSE
    /\ own = Nothing /\ mobile = TRUE /\ run = "none" /\ load = NoLoad
    /\ issued = <<>> /\ current = {} /\ recorded = {}
    /\ form = [f \in Form |-> Idle]
    /\ closed = FALSE

-----------------------------------------------------------------------------
(* Forms *)

\* CreateInfliction.Submit up to its goroutine.
SubmitCreate(f, inf) ==
    /\ form[f].pc = "idle" /\ Len(issued) < MaxSubmits
    /\ InForce(inf.until)
    /\ issued' = Append(issued, inf)
    /\ form' = [form EXCEPT ![f] = [Idle EXCEPT !.pc = "request", !.op = "add",
                                                !.n = Len(issued')]]
    /\ UNCHANGED <<now, player, current, recorded, closed>>

\* RemoveInfliction.Submit: the form lists what was current when it was made.
SubmitRemove(f, n) ==
    /\ form[f].pc = "idle" /\ n \in recorded
    /\ form' = [form EXCEPT ![f] = [Idle EXCEPT !.pc = "request", !.op = "remove", !.n = n]]
    /\ UNCHANGED <<now, player, service, closed>>

\* What the request of form f does to the moderation service (external).  An
\* infliction that a retry has added twice is still there when one is removed.
TakesEffect(f) ==
    LET n == form[f].n
    IN  \/ /\ form[f].op = "add"
           /\ current' = current \cup {n} /\ recorded' = recorded \cup {n}
        \/ /\ form[f].op = "remove"
           /\ current' = current \ {n} \/ (MaxRetries > 0 /\ UNCHANGED current)
           /\ UNCHANGED recorded

NoEffect == UNCHANGED <<current, recorded>>

Ends(f, err) == form' = [form EXCEPT ![f].pc = "answered", ![f].err = err]

\* The closed service sends nothing; the error of an earlier attempt remains.
Refuse(f) ==
    /\ closed
    /\ Ends(f, form[f].err)
    /\ NoEffect

Succeed(f) ==
    /\ ~closed
    /\ TakesEffect(f) /\ Ends(f, FALSE)

\* Temporary errors are retried, with no regard to what the request has done.
Retry(f) ==
    \/ /\ form[f].attempt < MaxRetries
       /\ form' = [form EXCEPT ![f].attempt = @ + 1, ![f].err = TRUE]
    \/ /\ form[f].attempt = MaxRetries
       /\ Ends(f, TRUE)

\* The answer is an error or the connection breaks, which is not temporary,
\* although the request may have worked.
Fail(f) ==
    /\ ~closed
    /\ TakesEffect(f) \/ NoEffect
    /\ Ends(f, TRUE)

TimeOut(f) ==
    /\ ~closed
    /\ TakesEffect(f) \/ NoEffect
    /\ Retry(f)

\* One turn of the loop of AddInfliction or RemoveInfliction.
Attempt(f) ==
    /\ form[f].pc = "request"
    /\ Refuse(f) \/ Succeed(f) \/ TimeOut(f) \/ Fail(f)
    /\ UNCHANGED <<now, player, issued, closed>>

Leaves ==
    /\ here' = FALSE
    /\ load' = NoLoad /\ run' = "none"
    /\ UNCHANGED <<visits, own, mobile>>

\* Mutant of Mutes: the time a mute lasts is forgotten.
MutesForGood(o, inf) == [o EXCEPT !.muted = TRUE]

Mutes(o, inf) ==
    [o EXCEPT !.muted = TRUE, !.until = IF inf.until # Permanent THEN inf.until ELSE @]

\* The callback of CreateInfliction, for a victim that is here.
Inflict(inf) ==
    \/ /\ inf.type = "MUTED"
       /\ own' = Mutes(own, inf)
       /\ UNCHANGED <<visits, here, mobile, run, load>>
    \/ /\ inf.type = "FROZEN"
       /\ own' = [own EXCEPT !.frozen = TRUE]
       /\ mobile' = FALSE
       /\ UNCHANGED <<visits, here, run, load>>
    \/ /\ inf.type = "BANNED"
       /\ Leaves

\* The callback of RemoveInfliction.
Lift(inf) ==
    \/ /\ inf.type = "MUTED"
       /\ own' = [own EXCEPT !.muted = FALSE]
       /\ UNCHANGED <<visits, here, mobile, run, load>>
    \/ /\ inf.type = "FROZEN"
       /\ own' = [own EXCEPT !.frozen = FALSE]
       /\ mobile' = TRUE
       /\ UNCHANGED <<visits, here, run, load>>
    \/ inf.type = "BANNED" /\ UNCHANGED player

\* The world owner runs the callback, unless the member of staff has left by
\* then: nothing is applied in that case.
Finish(f) ==
    /\ form[f].pc = "answered"
    /\ form' = [form EXCEPT ![f] = Idle]
    /\ \/ UNCHANGED player
       \/ /\ here /\ ~form[f].err
          /\ \/ form[f].op = "add" /\ Inflict(issued[form[f].n])
             \/ form[f].op = "remove" /\ Lift(issued[form[f].n])
    /\ UNCHANGED <<now, service, closed>>

-----------------------------------------------------------------------------
(* The load of a visit *)

\* Inflictions.Load after a random delay; a full queue drops the request.
Load ==
    /\ load.pc = "waiting"
    /\ \E pc \in {"queued", "none"} : load' = [load EXCEPT !.pc = pc]
    /\ UNCHANGED <<now, visits, here, own, mobile, run, service, form, closed>>

\* The worker asks the moderation service, which may fail.  The service may
\* have retired what expired.
Fetch ==
    /\ load.pc = "queued"
    /\ \/ load' = NoLoad
       \/ /\ ~closed
          /\ LET live == {n \in current : InForce(issued[n].until)}
             IN  \E found \in {current, live} : load' = [pc |-> "fetched", found |-> found]
    /\ UNCHANGED <<now, visits, here, own, mobile, run, service, form, closed>>

Found(type) == {n \in load.found : issued[n].type = type}

\* The worker, not the world owner, changes the flags.  The list is in the
\* order of the inflictions: of several timed mutes the last one counts.
Store ==
    /\ load.pc = "fetched"
    /\ LET timed == {n \in Found("MUTED") : issued[n].until # Permanent}
       IN  own' = [muted  |-> own.muted \/ Found("MUTED") # {},
                   until  |-> IF timed = {} THEN own.until ELSE issued[Max(timed)].until,
                   frozen |-> own.frozen \/ Found("FROZEN") # {}]
    /\ load' = [pc |-> "stored", found |-> {}]
    /\ UNCHANGED <<now, visits, here, mobile, run, service, form, closed>>

\* The callback on the world owner reads the flag as it is by then.
handleActiveInflictions ==
    /\ load.pc = "stored"
    /\ load' = NoLoad
    /\ mobile' = (mobile /\ ~own.frozen)
    /\ UNCHANGED <<now, visits, here, own, run, service, form, closed>>

-----------------------------------------------------------------------------
(* The player *)

\* A new handler, and the load that it starts.
Join ==
    /\ ~here /\ visits < MaxVisits
    /\ here' = TRUE /\ visits' = visits + 1
    /\ own' = Nothing /\ mobile' = TRUE /\ run' = "none"
    /\ load' = [pc |-> "waiting", found |-> {}]
    /\ UNCHANGED <<now, service, form, closed>>

Quit == here /\ Leaves /\ UNCHANGED <<now, service, form, closed>>

\* A parkour run starts, or starts again from its checkpoint; its countdown
\* ends; it ends itself (ParkourSession has the details).
StartCourse ==
    /\ Courses /\ here /\ run # "countdown"
    /\ run' = "countdown" /\ mobile' = FALSE
    /\ UNCHANGED <<now, visits, here, own, load, service, form, closed>>

Go ==
    /\ run = "countdown"
    /\ run' = "running" /\ mobile' = TRUE
    /\ UNCHANGED <<now, visits, here, own, load, service, form, closed>>

\* Mutant of endRun: a run that ends in its countdown leaves the player held.
endRunHeld ==
    /\ run # "none"
    /\ run' = "none"
    /\ UNCHANGED <<now, visits, here, own, mobile, load, service, form, closed>>

endRun ==
    /\ run # "none"
    /\ run' = "none" /\ mobile' = TRUE
    /\ UNCHANGED <<now, visits, here, own, load, service, form, closed>>

Tick ==
    /\ now < MaxTime
    /\ now' = now + 1
    /\ UNCHANGED <<player, service, form, closed>>

\* Stop waits three seconds, in which staff goes on; the hub ends later.
Stop ==
    /\ ~closed
    /\ closed' = TRUE
    /\ UNCHANGED <<now, player, service, form>>

Next ==
    \/ \E f \in Form :
          \/ \E inf \in Infliction : SubmitCreate(f, inf)
          \/ \E n \in Number : SubmitRemove(f, n)
          \/ Attempt(f) \/ Finish(f)
    \/ Load \/ Fetch \/ Store \/ handleActiveInflictions
    \/ Join \/ Quit
    \/ StartCourse \/ Go \/ endRun
    \/ Tick \/ Stop

Spec == Init /\ [][Next]_vars

-----------------------------------------------------------------------------
(* Properties *)

\* HandleChat keeps the player from talking.
Silenced == here /\ own.muted /\ InForce(own.until)

\* Nobody is silenced without a mute that is meant to last until now, and
\* that the moderation service has accepted: retries, failures and loads that
\* cross each other never turn a timed mute into a longer one, and a failed
\* one into a mute.  (A closed service accepts nothing.)
SilencedForMute ==
    Silenced => \E n \in Number :
        /\ issued[n].type = "MUTED"
        /\ InForce(issued[n].until)
        /\ n \in recorded \/ closed

\* Nobody is stuck: a player that cannot move is frozen or waits for its parkour
\* run to start.
StuckForReason == (here /\ ~mobile) => own.frozen \/ run = "countdown"

=============================================================================

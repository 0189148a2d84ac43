----------------------------- MODULE RestartFleet -----------------------------
(***************************************************************************)
(* The restart manager together with the downstream servers that use it    *)
(* over HTTP (the /restart endpoints of pokebedrock.go).  The servers are  *)
(* not part of the repository: they are modelled from the requests the hub *)
(* accepts and from the comments of restart.Config.  A server polls        *)
(* /restart/request while it wants to restart, goes down when it is        *)
(* allowed to (or, unable to wait, without permission), comes up, and then *)
(* sends /restart/complete or /restart/unauthorized.  Responses are lost,  *)
(* a notification may arrive late, repeatedly or never, also when its      *)
(* sender has begun the next restart, and the hub, which keeps the whole   *)
(* restart state in memory, may crash.                                     *)
(***************************************************************************)
EXTENDS RestartManager

CONSTANTS
    PollEvery,    \* a waiting server polls at least this often
    DownTime,     \* a restart takes at most this long
    MaxLosses,    \* responses that get lost (bound)
    MaxLives,     \* incarnations of the hub (bound)
    Forced        \* servers may restart without permission

ASSUME FleetAssumption ==
    /\ PollEvery \in Nat \ {0} /\ DownTime \in Nat
    /\ MaxLosses \in Nat /\ MaxLives \in Nat \ {0}
    /\ Forced \in BOOLEAN

VARIABLES
    mode,     \* "up", "asking" or "down"
    timer,    \* time since the last poll (asking) or since going down (down)
    reply,    \* incarnation of the hub whose Allow is on its way, 0 if none
    permit,   \* incarnation of the hub that allowed the restart, 0 if none did
    notices,  \* the kinds of notification sent that may still arrive
    life,     \* current incarnation of the hub
    losses,   \* responses lost so far
    confused  \* servers whose restart the hub takes for an earlier one (history)

managerVars == vars

fleetVars == <<mode, timer, reply, permit, notices, life, losses, confused>>

allVars == <<managerVars, fleetVars>>

FleetTypeOK ==
    /\ TypeOK
    /\ mode \in [Server -> {"up", "asking", "down"}]
    /\ timer \in [Server -> Nat]
    /\ reply \in [Server -> 0..life]
    /\ permit \in [Server -> 0..life]
    /\ notices \in [Server -> SUBSET {"complete", "report"}]
    /\ life \in 1..MaxLives
    /\ losses \in 0..MaxLosses
    /\ confused \in SUBSET Server

FleetInit ==
    /\ Init
    /\ mode = [s \in Server |-> "up"]
    /\ timer = [s \in Server |-> 0]
    /\ reply = [s \in Server |-> 0]
    /\ permit = [s \in Server |-> 0]
    /\ notices = [s \in Server |-> {}]
    /\ life = 1
    /\ losses = 0
    /\ confused = {}

-----------------------------------------------------------------------------
(* Downstream servers (external) *)

\* The server decides to restart; its first poll is due at once.  If it still
\* holds the slot of an earlier restart, because the completion of that one was
\* lost or is late, the hub allows this one with the time stamp of the earlier.
Ask(s) ==
    /\ mode[s] = "up"
    /\ mode' = [mode EXCEPT ![s] = "asking"]
    /\ timer' = [timer EXCEPT ![s] = PollEvery]
    /\ confused' = IF current = s THEN confused \cup {s} ELSE confused
    /\ UNCHANGED <<managerVars, reply, permit, notices, life, losses>>

\* At most one poll a minute (RetryAfter is at least one BackoffInterval).
Poll(s) ==
    /\ mode[s] = "asking" /\ timer[s] > 0 /\ reply[s] = 0 /\ s \notin pending
    /\ RequestArrives(s)
    /\ timer' = [timer EXCEPT ![s] = 0]
    /\ UNCHANGED <<mode, reply, permit, notices, life, losses, confused>>

GoDown(s, p) ==
    /\ mode' = [mode EXCEPT ![s] = "down"]
    /\ timer' = [timer EXCEPT ![s] = 0]
    /\ reply' = [reply EXCEPT ![s] = 0]
    /\ permit' = [permit EXCEPT ![s] = p]

ReceiveAllow(s) ==
    /\ mode[s] = "asking" /\ reply[s] # 0
    /\ GoDown(s, reply[s])
    /\ UNCHANGED <<managerVars, notices, life, losses, confused>>

LoseReply(s) ==
    /\ reply[s] # 0 /\ losses < MaxLosses
    /\ reply' = [reply EXCEPT ![s] = 0]
    /\ losses' = losses + 1
    /\ UNCHANGED <<managerVars, mode, timer, permit, notices, life, confused>>

\* "Maximum time a server will wait before force restart"
ForceRestart(s) ==
    /\ Forced /\ mode[s] = "asking"
    /\ GoDown(s, 0)
    /\ UNCHANGED <<managerVars, notices, life, losses, confused>>

ComeUp(s) ==
    /\ mode[s] = "down"
    /\ mode' = [mode EXCEPT ![s] = "up"]
    /\ timer' = [timer EXCEPT ![s] = 0]
    /\ permit' = [permit EXCEPT ![s] = 0]
    /\ notices' = [notices EXCEPT ![s] =
                      @ \cup {IF permit[s] = 0 THEN "report" ELSE "complete"}]
    /\ confused' = confused \ {s}
    /\ UNCHANGED <<managerVars, reply, life, losses>>

-----------------------------------------------------------------------------
(* The hub *)

\* Who is given the slot in this step; it is the hub's newest restart.
Granted == {s \in Server : current' = s /\ current # s}

\* The locked part of RequestRestart, and its response.
Respond(s) ==
    /\ RequestRestart(s)
    /\ reply' = [reply EXCEPT ![s] =
                    IF mode[s] = "asking" /\ Allowed(s) THEN life ELSE 0]
    /\ confused' = confused \ Granted
    /\ UNCHANGED <<mode, timer, permit, notices, life, losses>>

\* A notification of s arrives and may arrive again: nothing in it tells of which
\* restart it is, so it may free the slot under the next one.
Delivered(s, kind) ==
    /\ kind \in notices[s]
    /\ notices' \in {notices, [notices EXCEPT ![s] = @ \ {kind}]}
    /\ confused' = (IF current = s /\ life \in {reply[s], permit[s]}
                     THEN confused \cup {s} ELSE confused) \ Granted
    /\ UNCHANGED <<mode, timer, reply, permit, life, losses>>

DeliverComplete(s) ==
    /\ NotifyRestartComplete(s) \/ (current # s /\ UNCHANGED managerVars)
    /\ Delivered(s, "complete")

DeliverReport(s) ==
    /\ NotifyUnauthorizedRestart(s)
    /\ Delivered(s, "report")

Cleanup ==
    /\ cleanupExpiredEntries
    /\ confused' = confused \ Granted
    /\ UNCHANGED <<mode, timer, reply, permit, notices, life, losses>>

\* NewService makes an empty state: the slot, the queue and the history are gone.
CrashAndRestart ==
    /\ life < MaxLives
    /\ life' = life + 1
    /\ current' = None /\ queue' = <<>>
    /\ since' = [s \in Server |-> Horizon]
    /\ closed' = FALSE /\ pending' = {}
    /\ due' = FALSE /\ cleaning' = TRUE
    /\ UNCHANGED <<mode, timer, reply, permit, notices, losses, confused>>

-----------------------------------------------------------------------------
(* Time: what the hub and the servers have to do within the minute is done    *)
(* within the minute; notifications take as long as they take.                *)

Prompt ==
    /\ ~due /\ pending = {}
    /\ \A s \in Server :
          /\ reply[s] = 0
          /\ mode[s] = "asking" => timer[s] < PollEvery
          /\ mode[s] = "down" => timer[s] < DownTime

FleetTick ==
    /\ Prompt
    /\ Tick
    /\ timer' = [s \in Server |-> IF mode[s] = "up" THEN 0 ELSE timer[s] + 1]
    /\ UNCHANGED <<mode, reply, permit, notices, life, losses, confused>>

FleetNext ==
    \/ \E s \in Server :
          \/ Ask(s) \/ Poll(s) \/ ReceiveAllow(s) \/ LoseReply(s)
          \/ ForceRestart(s) \/ ComeUp(s)
          \/ Respond(s) \/ DeliverComplete(s) \/ DeliverReport(s)
    \/ Cleanup
    \/ CrashAndRestart
    \/ FleetTick

FleetSpec == FleetInit /\ [][FleetNext]_allVars

-----------------------------------------------------------------------------
(* Properties *)

Down == {s \in Server : mode[s] = "down"}

\* The point of the manager: of the servers one incarnation of the hub has
\* allowed to restart, at most one is down at a time, although the slot is
\* handed on to servers that learn of it only at their next poll, responses
\* are lost and notifications late, repeated or lost for good.  A second one is
\* down only beside a server that the hub confused about its own restarts: it
\* was allowed again on the strength of a slot it had not given back
\* (service.go:95), or an old notification of its own freed its slot (:186, :230).
OneRestartAtATime ==
    \A s, t \in Down \ confused : (permit[s] = permit[t] /\ permit[s] # 0) => s = t

\* A server that is down with the permission of this hub still holds the slot,
\* however long responses took and whatever the others did: the takeover of a
\* slot held too long (service.go:298) hits a restart in progress only if the
\* server was allowed it on an old slot, and no message of another server and no
\* late one of its own frees the slot, but for the case above.
DownHoldsSlot == \A s \in Down \ confused : permit[s] = life => current = s

=============================================================================

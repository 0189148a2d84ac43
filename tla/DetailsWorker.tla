---------------------------- MODULE DetailsWorker ----------------------------
(***************************************************************************)
(* The worker that sends the details of players to the moderation service  *)
(* (pokebedrock/moderation/service.go): a queue filled at each join, one   *)
(* worker, a goroutine for each request, and two channels of tokens, of    *)
(* which a request holds one each.  At the shutdown the worker takes       *)
(* tokens that requests under way have to take back: some goroutine then   *)
(* waits for ever.                                                         *)
(*                                                                         *)
(* Requests are counted; one at a time may be marked, to follow it.        *)
(***************************************************************************)
EXTENDS Integers

CONSTANTS
    QueueSize,                 \* internal.DefaultChannelBufferSize
    maxConcurrentRequests

ASSUME DetailsAssumption ==
    QueueSize \in Nat \ {0} /\ maxConcurrentRequests \in Nat \ {0}

VARIABLES
    queued,           \* requests in SendDetailsOfQueue
    marked,           \* place of the marked one in it, Taken or Unmarked (history)
    worker,           \* the worker, and the tokens it is still to drain
    semaphore,        \* tokens in the channels
    activeRequests,
    posting,          \* goroutines in sendPlayerDetails
    returning,        \* goroutines that have returned the first token
    shutdown          \* Service.closed, and detailsWorkerShutdown

detailsVars == <<queued, marked, worker, semaphore, activeRequests, posting, returning, shutdown>>

Unmarked == -1
Taken == 0

DetailsTypeOK ==
    /\ queued \in 0..QueueSize
    /\ marked \in {Unmarked, Taken} \cup 1..QueueSize
    /\ worker \in [pc : {"select", "acquire", "count", "drain", "done"},
                   drains : 0..maxConcurrentRequests]
    /\ semaphore \in 0..maxConcurrentRequests
    /\ activeRequests \in 0..maxConcurrentRequests
    /\ posting \in Nat /\ returning \in Nat
    /\ shutdown \in BOOLEAN

At(pc) == [pc |-> pc, drains |-> 0]

DetailsInit ==
    /\ queued = 0 /\ marked = Unmarked
    /\ worker = At("select")
    /\ semaphore = 0 /\ activeRequests = 0 /\ posting = 0 /\ returning = 0
    /\ shutdown = FALSE

-----------------------------------------------------------------------------

\* At a join.  A full queue drops the request.
SendDetailsOf ==
    /\ ~shutdown /\ queued < QueueSize
    /\ queued' = queued + 1
    /\ marked' \in {marked} \cup (IF marked = Unmarked THEN {queued'} ELSE {})
    /\ UNCHANGED <<worker, semaphore, activeRequests, posting, returning, shutdown>>

\* With a request and the shutdown at hand, select takes either.
Take ==
    /\ worker.pc = "select" /\ queued > 0
    /\ queued' = queued - 1
    /\ marked' = IF marked \in {Unmarked, Taken} THEN marked ELSE marked - 1
    /\ worker' = At("acquire")
    /\ UNCHANGED <<semaphore, activeRequests, posting, returning, shutdown>>

Acquire ==
    /\ worker.pc = "acquire" /\ semaphore < maxConcurrentRequests
    /\ semaphore' = semaphore + 1
    /\ worker' = At("count")
    /\ UNCHANGED <<queued, marked, activeRequests, posting, returning, shutdown>>

\* The second token, and the goroutine of the request.
Count ==
    /\ worker.pc = "count" /\ activeRequests < maxConcurrentRequests
    /\ activeRequests' = activeRequests + 1
    /\ posting' = posting + 1
    /\ marked' = IF marked = Taken THEN Unmarked ELSE marked
    /\ worker' = At("select")
    /\ UNCHANGED <<queued, semaphore, returning, shutdown>>

\* Mutant of sendPlayerDetails: a request that fails keeps its token.
sendPlayerDetailsKeeps ==
    /\ posting > 0
    /\ posting' = posting - 1 /\ returning' = returning + 1
    /\ semaphore' \in {semaphore, semaphore - 1}
    /\ UNCHANGED <<queued, marked, worker, activeRequests, shutdown>>

\* The request is answered, fails or times out, or is not sent when the service
\* is closed by then; the first token is returned.
sendPlayerDetails ==
    /\ posting > 0
    /\ posting' = posting - 1 /\ returning' = returning + 1
    /\ semaphore' = semaphore - 1
    /\ UNCHANGED <<queued, marked, worker, activeRequests, shutdown>>

Return ==
    /\ returning > 0 /\ activeRequests > 0
    /\ returning' = returning - 1
    /\ activeRequests' = activeRequests - 1
    /\ UNCHANGED <<queued, marked, worker, semaphore, posting, shutdown>>

\* The worker sees the shutdown, at either select; at the second one it drops the
\* request it has taken.  It counts the tokens once, before the loop.
SeesShutdown ==
    /\ shutdown
    /\ \/ worker.pc = "select" /\ worker' = [pc |-> "drain", drains |-> activeRequests]
       \/ worker.pc = "acquire" /\ worker' = At("done")
    /\ UNCHANGED <<queued, marked, semaphore, activeRequests, posting, returning, shutdown>>

Drain ==
    /\ worker.pc = "drain"
    /\ \/ /\ worker.drains > 0 /\ activeRequests > 0
          /\ worker' = [worker EXCEPT !.drains = @ - 1]
          /\ activeRequests' = activeRequests - 1
       \/ /\ worker.drains = 0
          /\ worker' = At("done")
          /\ UNCHANGED activeRequests
    /\ UNCHANGED <<queued, marked, semaphore, posting, returning, shutdown>>

\* Service.Stop, before it waits for three seconds.
DetailsStop ==
    /\ shutdown' = TRUE
    /\ UNCHANGED <<queued, marked, worker, semaphore, activeRequests, posting, returning>>

DetailsWork == Take \/ Acquire \/ Count \/ SeesShutdown \/ Drain

DetailsSteps == DetailsWork \/ sendPlayerDetails \/ Return

-----------------------------------------------------------------------------
(* Properties *)

\* Every queued request is sent in its turn, whatever other requests do and
\* however many come, unless the hub shuts down.
DetailsGoOut == marked # Unmarked ~> (marked = Unmarked \/ shutdown)

=============================================================================

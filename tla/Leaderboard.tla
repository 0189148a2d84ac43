------------------------------ MODULE Leaderboard ------------------------------
(***************************************************************************)
(* The leaderboard of a parkour course and its file                        *)
(* (pokebedrock/parkour/leaderboard.go).  Runs that finish and resets      *)
(* change it under its mutex and hand a snapshot to the save loop, a       *)
(* goroutine, through a channel that holds one snapshot; the three selects *)
(* of queueSaveLocked are steps of their own.  The hub may crash, and the  *)
(* write of the file, which truncates it first, may fail.                  *)
(*                                                                         *)
(* One course.  Names, ranks and update times of the entries are left out. *)
(***************************************************************************)
EXTENDS Integers, Sequences, FiniteSets

CONSTANTS
    Runner,    \* xuids
    RunTime,   \* durations in milliseconds
    TopSize    \* length of the top list (10 in the code)

ASSUME LeaderboardAssumption == RunTime \subseteq Nat /\ TopSize \in Nat

VARIABLES
    best,     \* courseData.Best
    top,      \* courseData.Top
    out,      \* snapshot the holder of the mutex is sending
    sending,  \* the select it is at, or "unlocked"
    saveCh,   \* the snapshots in the channel
    writing,  \* what the save loop is doing: "receive", "open", "write", or "done"
    held,     \* snapshot the save loop writes
    file,     \* contents of the file
    closed,   \* saveCh is closed
    failed    \* the last write, or the read at the start if none came after it,
              \* failed (history)

boardVars == <<best, top, out, sending, saveCh, writing, held, file, closed, failed>>

Best == UNION {[D -> RunTime] : D \in SUBSET Runner}

Nobody == [r \in {} |-> 0]

TopEntry == [xuid : Runner, time : RunTime]

Snapshot == [best |-> best, top |-> top]

Empty == [best |-> Nobody, top |-> <<>>]

\* A file is missing, torn (truncated, or written in part), or a snapshot.
Missing == [kind |-> "missing", data |-> Empty]
Torn    == [kind |-> "torn", data |-> Empty]
Saved(d) == [kind |-> "saved", data |-> d]

IsSnapshot(d) == d.best \in Best /\ d.top \in Seq(TopEntry)

BoardTypeOK ==
    /\ IsSnapshot(Snapshot) /\ Len(top) <= TopSize
    /\ IsSnapshot(out) /\ IsSnapshot(held)
    /\ sending \in {"unlocked", "send", "drain", "resend"}
    /\ saveCh = <<>> \/ (Len(saveCh) = 1 /\ IsSnapshot(saveCh[1]))
    /\ writing \in {"receive", "open", "write", "done"}
    /\ file \in {Missing, Torn} \/ (file.kind = "saved" /\ IsSnapshot(file.data))
    /\ closed \in BOOLEAN /\ failed \in BOOLEAN

BoardInit ==
    /\ best = Nobody /\ top = <<>>
    /\ out = Empty /\ sending = "unlocked" /\ saveCh = <<>>
    /\ writing = "receive" /\ held = Empty
    /\ file = Missing
    /\ closed = FALSE /\ failed = FALSE

-----------------------------------------------------------------------------
(* Changes, under the mutex *)

\* rebuildTop: the first TopSize runners by time; equal times in any order.
rebuildTop(b) ==
    LET n == IF Cardinality(DOMAIN b) < TopSize THEN Cardinality(DOMAIN b) ELSE TopSize
        First(f) ==
            /\ \A i, j \in 1..n : i < j => f[i] # f[j] /\ b[f[i]] <= b[f[j]]
            /\ \A r \in DOMAIN b \ {f[i] : i \in 1..n} : \A i \in 1..n : b[f[i]] <= b[r]
    IN  {[i \in 1..n |-> [xuid |-> f[i], time |-> b[f[i]]]] :
            f \in {g \in [1..n -> DOMAIN b] : First(g)}}

\* The change to b is made and its snapshot is about to be sent.
Change(b, t) ==
    /\ sending = "unlocked" /\ ~closed
    /\ best' = b /\ top' = t
    /\ out' = [best |-> b, top |-> t]
    /\ sending' = "send"
    /\ UNCHANGED <<saveCh, writing, held, file, closed, failed>>

\* Runner r has no time yet, or a worse one.
Improved(r, dur) == r \in DOMAIN best => dur < best[r]

\* A run of dur is finished; it is saved also when it is no improvement.
update(r, dur) ==
    \E b \in {IF Improved(r, dur)
              THEN [q \in DOMAIN best \cup {r} |-> IF q = r THEN dur ELSE best[q]] ELSE best} :
        \E t \in rebuildTop(b) : Change(b, t)

Without(rs) == [q \in DOMAIN best \ rs |-> best[q]]

\* Mutant of reset: the top list is left for the next update to rebuild.
resetBest(rs) == Change(Without(rs), top)

\* The entry of a runner, or all entries, are deleted.  (Resetting a course
\* that is not there changes nothing; one that is there but empty is saved.)
reset(rs) == \E t \in rebuildTop(Without(rs)) : Change(Without(rs), t)

-----------------------------------------------------------------------------
(* queueSaveLocked *)

TrySend(full) ==
    \/ saveCh = <<>> /\ saveCh' = <<out>> /\ sending' = "unlocked" /\ out' = Empty
    \/ saveCh # <<>> /\ sending' = full /\ UNCHANGED <<saveCh, out>>

\* Mutant of Send: the snapshot is dropped if the channel is full.
SendOrDrop ==
    /\ sending = "send"
    /\ TrySend("unlocked")
    /\ UNCHANGED <<best, top, writing, held, file, closed, failed>>

Send ==
    /\ sending = "send"
    /\ TrySend("drain")
    /\ UNCHANGED <<best, top, writing, held, file, closed, failed>>

\* The save loop may have been faster.
Drain ==
    /\ sending = "drain"
    /\ saveCh' = <<>>
    /\ sending' = "resend"
    /\ UNCHANGED <<best, top, out, writing, held, file, closed, failed>>

Resend ==
    /\ sending = "resend"
    /\ TrySend("unlocked")
    /\ UNCHANGED <<best, top, writing, held, file, closed, failed>>

-----------------------------------------------------------------------------
(* saveLoop *)

Receive ==
    /\ writing = "receive" /\ saveCh # <<>>
    /\ held' = saveCh[1] /\ saveCh' = <<>>
    /\ writing' = "open"
    /\ UNCHANGED <<best, top, out, sending, file, closed, failed>>

Open ==
    /\ writing = "open"
    /\ file' = Torn
    /\ writing' = "write"
    /\ UNCHANGED <<best, top, out, sending, saveCh, held, closed, failed>>

Write ==
    /\ writing = "write"
    /\ file' = Saved(held) /\ failed' = FALSE
    /\ writing' = "receive" /\ held' = Empty
    /\ UNCHANGED <<best, top, out, sending, saveCh, closed>>

\* The directory, the file or the write fails.  The error is logged; nobody
\* tries again.
WriteFails ==
    /\ writing \in {"open", "write"}
    /\ failed' = TRUE
    /\ writing' = "receive" /\ held' = Empty
    /\ UNCHANGED <<best, top, out, sending, saveCh, file, closed>>

-----------------------------------------------------------------------------
(* The life of the hub *)

\* The world owner has stopped when the parkour manager is closed.
close ==
    /\ sending = "unlocked" /\ ~closed
    /\ closed' = TRUE
    /\ UNCHANGED <<best, top, out, sending, saveCh, writing, held, file, failed>>

\* The range over the closed channel ends when the channel is empty.
Done ==
    /\ closed /\ writing = "receive" /\ saveCh = <<>>
    /\ writing' = "done"
    /\ UNCHANGED <<best, top, out, sending, saveCh, held, file, closed, failed>>

\* newLeaderboard with what was loaded.
LoadAs(d) ==
    /\ best' = d.best /\ top' = d.top
    /\ out' = Empty /\ sending' = "unlocked" /\ saveCh' = <<>>
    /\ writing' = "receive" /\ held' = Empty /\ closed' = FALSE
    /\ UNCHANGED file

\* load: a file that cannot be parsed counts as none, and so does one that is
\* there and cannot be read, whatever it has: newLeaderboard drops the error.
load ==
    \/ LoadAs(file.data) /\ failed' = FALSE
    \/ file # Missing /\ LoadAs(Empty) /\ failed' = TRUE

Crash == load

RestartHub == writing = "done" /\ load

BoardNext ==
    \/ \E r \in Runner, dur \in RunTime : update(r, dur)
    \/ \E rs \in {{r} : r \in Runner} \cup {Runner} : reset(rs)
    \/ Send \/ Drain \/ Resend
    \/ Receive \/ Open \/ Write \/ WriteFails
    \/ close \/ Done \/ Crash \/ RestartHub

BoardSpec == BoardInit /\ [][BoardNext]_boardVars

-----------------------------------------------------------------------------
(* Properties *)

Quiet == sending = "unlocked" /\ saveCh = <<>> /\ writing = "receive"

\* Coalescing loses no update, and "close flushes queued leaderboard
\* snapshots": whenever nothing is left to save, and when the save loop has
\* ended, the file has the leaderboard as it is, unless its last write failed,
\* or it could not be read at the start and nothing was written since.  (A file
\* that a crash has torn loads as an empty leaderboard, and that is what is in
\* use.)  The next save replaces a file that could not be read, with all the
\* times in it.
FileCatchesUp ==
    ((Quiet \/ writing = "done") /\ ~failed) => file.data = Snapshot

\* The top list is what the best times say, at any time and after a reload:
\* in order, without doubles, and nobody outside it is faster.
TopIsBest == top \in rebuildTop(best)

=============================================================================

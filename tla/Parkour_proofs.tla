----------------------------- MODULE Parkour_proofs -----------------------------
(***************************************************************************)
(* Proofs about the parkour: the leaderboard of a course (Leaderboard) and *)
(* the runs of a player (ParkourSession).  The two meet only in the time   *)
(* that a finished run hands to update, and are proved one by one.         *)
(*                                                                         *)
(* The leaderboard, for any runners, times and size of the top list.  The  *)
(* latest snapshot moves from the mutex to the channel to the save loop to *)
(* the file, and an older one is never behind it (LatestIsUnderway); every *)
(* snapshot anywhere is a leaderboard that rebuildTop has made (AllSound), *)
(* so that any of them may be loaded.                                      *)
(*                                                                         *)
(* The runs, for countdowns of any length.  The heart of the invariant is  *)
(* Chain: of the callbacks that are still about, which TasksAreOld allows  *)
(* to be any number from runs, sessions and visits before, exactly one     *)
(* carries the countdown on, and it does not run early.  The generation of *)
(* a session is what tells it from the others.                             *)
(***************************************************************************)
EXTENDS Leaderboard, ParkourSession, FiniteSetTheorems, SequenceTheorems, TLAPS

-----------------------------------------------------------------------------
(* Leaderboard: the inductive invariant *)

Sound(d) ==
    /\ d \in [best : Best, top : Seq(TopEntry)]
    /\ IsFiniteSet(DOMAIN d.best)
    /\ Len(d.top) <= TopSize
    /\ d.top \in rebuildTop(d.best)

AllSound ==
    /\ Sound(Snapshot) /\ Sound(out) /\ Sound(held) /\ Sound(file.data)
    /\ saveCh = <<>> \/ (Len(saveCh) = 1 /\ Sound(saveCh[1]))

ControlOK ==
    /\ sending \in {"unlocked", "send", "drain", "resend"}
    /\ writing \in {"receive", "open", "write", "done"}
    /\ file \in {Missing, Torn} \/ file.kind = "saved"
    /\ closed \in BOOLEAN /\ failed \in BOOLEAN

\* Where the leaderboard as it is can be found.
LatestIsUnderway ==
    IF sending # "unlocked" THEN out = Snapshot
    ELSE IF saveCh # <<>> THEN saveCh[1] = Snapshot
    ELSE IF writing \in {"open", "write"} THEN held = Snapshot
    ELSE failed \/ file.data = Snapshot

\* Nobody sends while the holder of the mutex makes room for its snapshot.
RoomIsKept == sending = "resend" => saveCh = <<>>

ClosedForGood ==
    /\ closed => sending = "unlocked"
    /\ writing = "done" => closed /\ saveCh = <<>>

BoardInv == AllSound /\ ControlOK /\ LatestIsUnderway /\ RoomIsKept /\ ClosedForGood

-----------------------------------------------------------------------------
(* Leaderboard: best times and top list *)

LEMMA BestTimes ==
    ASSUME NEW b \in Best
    PROVE  DOMAIN b \subseteq Runner /\ b \in [DOMAIN b -> RunTime]
<1>1. PICK D \in SUBSET Runner : b \in [D -> RunTime]
  BY DEF Best
<1>2. DOMAIN b = D
  BY <1>1
<1>3. QED
  BY <1>1, <1>2

LEMMA BestTimesIntro ==
    ASSUME NEW D \in SUBSET Runner, NEW b \in [D -> RunTime]
    PROVE  b \in Best /\ DOMAIN b = D
  BY DEF Best

\* The length of the top list of n runners.
ListSize(n) == IF n < TopSize THEN n ELSE TopSize

\* f lists the runners of b in their order on the top list.
Lists(b, f, n) ==
    /\ f \in [1..n -> DOMAIN b]
    /\ \A i, j \in 1..n : i < j => f[i] # f[j] /\ b[f[i]] <= b[f[j]]
    /\ \A r \in DOMAIN b \ {f[i] : i \in 1..n} : \A i \in 1..n : b[f[i]] <= b[r]

LEMMA TopIsListed ==
    ASSUME NEW b, NEW t \in rebuildTop(b)
    PROVE  LET n == ListSize(Cardinality(DOMAIN b))
           IN  \E f : /\ Lists(b, f, n)
                      /\ t = [i \in 1..n |-> [xuid |-> f[i], time |-> b[f[i]]]]
<1> DEFINE n == ListSize(Cardinality(DOMAIN b))
           First(f) ==
               /\ \A i, j \in 1..n : i < j => f[i] # f[j] /\ b[f[i]] <= b[f[j]]
               /\ \A r \in DOMAIN b \ {f[i] : i \in 1..n} : \A i \in 1..n : b[f[i]] <= b[r]
<1>1. t \in {[i \in 1..n |-> [xuid |-> f[i], time |-> b[f[i]]]] :
                  f \in {g \in [1..n -> DOMAIN b] : First(g)}}
  BY DEF rebuildTop, ListSize
<1> HIDE DEF n
<1>2. PICK f \in {g \in [1..n -> DOMAIN b] : First(g)} :
         t = [i \in 1..n |-> [xuid |-> f[i], time |-> b[f[i]]]]
  BY <1>1
<1>3. Lists(b, f, n)
  BY <1>2 DEF Lists
<1>4. QED
  BY <1>2, <1>3 DEF n

\* rebuildTop makes a list of entries of the best times, TopSize at most.
LEMMA TopIsList ==
    ASSUME NEW b \in Best, IsFiniteSet(DOMAIN b), NEW t \in rebuildTop(b)
    PROVE  t \in Seq(TopEntry) /\ Len(t) = ListSize(Cardinality(DOMAIN b)) /\ Len(t) <= TopSize
<1> DEFINE n == ListSize(Cardinality(DOMAIN b))
<1>1. n \in Nat /\ n <= TopSize
  BY FS_CardinalityType, LeaderboardAssumption DEF ListSize
<1>2. PICK f : Lists(b, f, n) /\ t = [i \in 1..n |-> [xuid |-> f[i], time |-> b[f[i]]]]
  BY TopIsListed
<1> HIDE DEF n
<1>3. ASSUME NEW i \in 1..n PROVE [xuid |-> f[i], time |-> b[f[i]]] \in TopEntry
  BY <1>2, BestTimes DEF Lists, TopEntry
<1>4. t \in [1..n -> TopEntry]
  BY <1>2, <1>3
<1>5. t \in Seq(TopEntry)
  BY <1>1, <1>4
<1>6. Len(t) = n
  BY <1>1, <1>4, <1>5
<1>7. QED
  BY <1>1, <1>5, <1>6 DEF n

\* A snapshot of a leaderboard that was just rebuilt.
LEMMA RebuiltIsSound ==
    ASSUME NEW b \in Best, IsFiniteSet(DOMAIN b), NEW t \in rebuildTop(b)
    PROVE  Sound([best |-> b, top |-> t])
  BY TopIsList DEF Sound

LEMMA EmptyIsSound == Sound(Empty)
<1>1. Nobody \in Best /\ DOMAIN Nobody = {}
  <2>1. Nobody \in [{} -> RunTime] /\ {} \in SUBSET Runner
    BY DEF Nobody
  <2>2. QED
    BY <2>1, BestTimesIntro
<1>2. IsFiniteSet(DOMAIN Nobody) /\ Cardinality(DOMAIN Nobody) = 0
  BY <1>1, FS_EmptySet
<1>3. <<>> \in rebuildTop(Nobody)
  <2> DEFINE n == IF Cardinality(DOMAIN Nobody) < TopSize THEN Cardinality(DOMAIN Nobody)
                                                          ELSE TopSize
             First(f) ==
               /\ \A i, j \in 1..n : i < j => f[i] # f[j] /\ Nobody[f[i]] <= Nobody[f[j]]
               /\ \A r \in DOMAIN Nobody \ {f[i] : i \in 1..n} :
                     \A i \in 1..n : Nobody[f[i]] <= Nobody[r]
  <2>1. n = 0 /\ 1..n = {}
    BY <1>2, LeaderboardAssumption
  <2> HIDE DEF n
  <2>2. <<>> \in [1..n -> DOMAIN Nobody] /\ First(<<>>)
    BY <2>1
  <2>3. <<>> = [i \in 1..n |-> [xuid |-> <<>>[i], time |-> Nobody[<<>>[i]]]]
    BY <2>1
  <2>4. <<>> \in {[i \in 1..n |-> [xuid |-> f[i], time |-> Nobody[f[i]]]] :
                      f \in {g \in [1..n -> DOMAIN Nobody] : First(g)}}
    BY <2>2, <2>3
  <2>5. QED
    BY <2>4 DEF rebuildTop, n
<1>4. QED
  BY <1>1, <1>2, <1>3, RebuiltIsSound DEF Empty

\* The leaderboard of an improved runner, and of one without some.
LEMMA ImprovedBest ==
    ASSUME NEW r \in Runner, NEW dur \in RunTime, Sound(Snapshot)
    PROVE  LET b == [q \in DOMAIN best \cup {r} |-> IF q = r THEN dur ELSE best[q]]
           IN  b \in Best /\ IsFiniteSet(DOMAIN b)
<1> DEFINE D == DOMAIN best \cup {r}
           b == [q \in D |-> IF q = r THEN dur ELSE best[q]]
<1>1. best \in Best /\ IsFiniteSet(DOMAIN best)
  BY DEF Sound, Snapshot
<1>2. best \in [DOMAIN best -> RunTime] /\ DOMAIN best \subseteq Runner
  BY <1>1, BestTimes
<1>3. D \in SUBSET Runner /\ b \in [D -> RunTime]
  BY <1>2
<1>4. IsFiniteSet(D)
  BY <1>1, FS_AddElement
<1> HIDE DEF b
<1>5. QED
  BY <1>3, <1>4, BestTimesIntro DEF b

LEMMA WithoutBest ==
    ASSUME NEW rs, Sound(Snapshot)
    PROVE  Without(rs) \in Best /\ IsFiniteSet(DOMAIN Without(rs))
<1> DEFINE D == DOMAIN best \ rs
<1>1. best \in Best /\ IsFiniteSet(DOMAIN best)
  BY DEF Sound, Snapshot
<1>2. best \in [DOMAIN best -> RunTime] /\ DOMAIN best \subseteq Runner
  BY <1>1, BestTimes
<1>3. D \in SUBSET Runner /\ Without(rs) \in [D -> RunTime]
  BY <1>2 DEF Without
<1>4. IsFiniteSet(D)
  BY <1>1, FS_Subset
<1>5. QED
  BY <1>3, <1>4, BestTimesIntro

-----------------------------------------------------------------------------
(* Leaderboard: the invariant is inductive *)

LEMMA BoardInitInv == BoardInit => BoardInv
<1> SUFFICES ASSUME BoardInit PROVE BoardInv
  OBVIOUS
<1>1. Snapshot = Empty /\ out = Empty /\ held = Empty /\ file.data = Empty
  BY DEF BoardInit, Snapshot, Empty, Missing
<1>2. AllSound
  BY <1>1, EmptyIsSound DEF BoardInit, AllSound
<1>3. QED
  BY <1>1, <1>2 DEF BoardInit, BoardInv, ControlOK, LatestIsUnderway, RoomIsKept, ClosedForGood

LEMMA ChangeKeeps ==
    ASSUME BoardInv, NEW b \in Best, IsFiniteSet(DOMAIN b), NEW t \in rebuildTop(b), Change(b, t)
    PROVE  BoardInv'
<1>1. /\ out' = [best |-> b, top |-> t] /\ Snapshot' = out'
      /\ sending' = "send" /\ ~closed
      /\ UNCHANGED <<saveCh, writing, held, file, closed, failed>>
  BY DEF Change, Snapshot
<1>2. Sound(out')
  BY <1>1, RebuiltIsSound
<1>3. AllSound'
  BY <1>1, <1>2 DEF BoardInv, AllSound
<1>4. QED
  BY <1>1, <1>3 DEF BoardInv, ControlOK, LatestIsUnderway, RoomIsKept, ClosedForGood

LEMMA SendKeeps ==
    ASSUME BoardInv, NEW full, TrySend(full),
           \/ sending = "send" /\ full = "drain"
           \/ sending = "resend" /\ full = "unlocked",
           UNCHANGED <<best, top, writing, held, file, closed, failed>>
    PROVE  BoardInv'
<1>1. Snapshot' = Snapshot /\ out = Snapshot /\ ~closed /\ writing # "done"
  BY DEF BoardInv, LatestIsUnderway, ClosedForGood, Snapshot
<1>2. CASE saveCh = <<>>
  <2>1. saveCh' = <<out>> /\ sending' = "unlocked" /\ out' = Empty
    BY <1>2 DEF TrySend
  <2>2. saveCh' # <<>> /\ Len(saveCh') = 1 /\ saveCh'[1] = Snapshot
    BY <1>1, <2>1
  <2>3. AllSound'
    BY <1>1, <2>1, <2>2, EmptyIsSound DEF BoardInv, AllSound
  <2>4. QED
    BY <1>1, <2>1, <2>2, <2>3
    DEF BoardInv, ControlOK, LatestIsUnderway, RoomIsKept, ClosedForGood
<1>3. CASE saveCh # <<>>
  <2>1. sending = "send" /\ sending' = "drain" /\ saveCh' = saveCh /\ out' = out
    BY <1>3 DEF TrySend, BoardInv, RoomIsKept
  <2>2. AllSound'
    BY <1>1, <2>1 DEF BoardInv, AllSound
  <2>3. QED
    BY <1>1, <2>1, <2>2
    DEF BoardInv, ControlOK, LatestIsUnderway, RoomIsKept, ClosedForGood
<1>4. QED
  BY <1>2, <1>3

\* Steps of the save loop, close and Drain leave the leaderboard alone.
LEMMA OthersKeep ==
    ASSUME BoardInv, Drain \/ Receive \/ Open \/ Write \/ WriteFails \/ close \/ Done
                \/ UNCHANGED boardVars
    PROVE  BoardInv'
<1>1. Snapshot' = Snapshot
  BY DEF Snapshot, Drain, Receive, Open, Write, WriteFails, close, Done, boardVars
<1>2. AllSound'
  <2>1. /\ out' = out
        /\ held' \in {held, Empty} \/ (saveCh # <<>> /\ held' = saveCh[1])
        /\ file' = file \/ file' = Torn \/ file' = Saved(held)
        /\ saveCh' = saveCh \/ saveCh' = <<>>
    BY DEF Drain, Receive, Open, Write, WriteFails, close, Done, boardVars
  <2>2. file'.data = file.data \/ file'.data = Empty \/ file'.data = held
    BY <2>1 DEF Torn, Saved
  <2>3. Sound(held') /\ Sound(file'.data)
    BY <2>1, <2>2, EmptyIsSound DEF BoardInv, AllSound
  <2>4. QED
    BY <1>1, <2>1, <2>3 DEF BoardInv, AllSound
<1>3. ControlOK'
  <2>1. file' \in {Missing, Torn} \/ file'.kind = "saved"
    <3>1. file' = file \/ file' = Torn \/ file' = Saved(held)
      BY DEF Drain, Receive, Open, Write, WriteFails, close, Done, boardVars
    <3>2. Saved(held).kind = "saved"
      BY DEF Saved
    <3>3. QED
      BY <3>1, <3>2 DEF BoardInv, ControlOK
  <2>2. QED
    BY <2>1 DEF BoardInv, ControlOK, Drain, Receive, Open, Write, WriteFails, close, Done, boardVars
<1>4. LatestIsUnderway'
  <2>1. CASE Write
    BY <1>1, <2>1 DEF Write, Saved, BoardInv, LatestIsUnderway
  <2>2. CASE ~Write
    BY <1>1, <2>2
    DEF BoardInv, LatestIsUnderway, ClosedForGood, Drain, Receive, Open, WriteFails, close, Done, boardVars
  <2>3. QED
    BY <2>1, <2>2
<1>5. RoomIsKept' /\ ClosedForGood'
  BY DEF BoardInv, RoomIsKept, ClosedForGood, Drain, Receive, Open, Write, WriteFails, close, Done,
         boardVars
<1>6. QED
  BY <1>2, <1>3, <1>4, <1>5 DEF BoardInv

LEMMA LoadKeeps == ASSUME BoardInv, load PROVE BoardInv'
<1>1. PICK d \in {file.data, Empty} : LoadAs(d) /\ failed' \in BOOLEAN /\ (failed' \/ d = file.data)
  BY DEF load
<1>2. Sound(d)
  BY EmptyIsSound DEF BoardInv, AllSound
<1>3. Snapshot' = d /\ file' = file
  BY <1>1, <1>2 DEF LoadAs, Snapshot, Sound
<1>4. AllSound'
  BY <1>1, <1>2, <1>3, EmptyIsSound DEF LoadAs, BoardInv, AllSound
<1>5. QED
  BY <1>1, <1>3, <1>4 DEF LoadAs, BoardInv, ControlOK, LatestIsUnderway, RoomIsKept, ClosedForGood

LEMMA BoardNextInv == BoardInv /\ [BoardNext]_boardVars => BoardInv'
<1> SUFFICES ASSUME BoardInv, [BoardNext]_boardVars PROVE BoardInv'
  OBVIOUS
<1>1. ASSUME NEW r \in Runner, NEW dur \in RunTime, update(r, dur) PROVE BoardInv'
  <2> DEFINE b == IF Improved(r, dur)
                  THEN [q \in DOMAIN best \cup {r} |-> IF q = r THEN dur ELSE best[q]]
                  ELSE best
  <2>1. PICK t \in rebuildTop(b) : Change(b, t)
    BY <1>1 DEF update
  <2>2. b \in Best /\ IsFiniteSet(DOMAIN b)
    <3>1. Sound(Snapshot)
      BY DEF BoardInv, AllSound
    <3>2. best \in Best /\ IsFiniteSet(DOMAIN best)
      BY <3>1 DEF Sound, Snapshot
    <3>3. QED
      BY <3>1, <3>2, ImprovedBest
  <2> HIDE DEF b
  <2>3. QED
    BY <2>1, <2>2, ChangeKeeps
<1>2. ASSUME NEW rs, reset(rs) PROVE BoardInv'
  <2>1. PICK t \in rebuildTop(Without(rs)) : Change(Without(rs), t)
    BY <1>2 DEF reset
  <2>2. Without(rs) \in Best /\ IsFiniteSet(DOMAIN Without(rs))
    BY WithoutBest DEF BoardInv, AllSound
  <2>3. QED
    BY <2>1, <2>2, ChangeKeeps
<1>3. CASE Send
  BY <1>3, SendKeeps DEF Send
<1>4. CASE Resend
  BY <1>4, SendKeeps DEF Resend
<1>5. CASE Crash \/ RestartHub
  BY <1>5, LoadKeeps DEF Crash, RestartHub
<1>6. QED
  BY <1>1, <1>2, <1>3, <1>4, <1>5, OthersKeep DEF BoardNext

-----------------------------------------------------------------------------
(* Leaderboard: theorems *)

\* The inductive invariant of the leaderboard: every snapshot on its way is a
\* leaderboard, and the one that is furthest behind the mutex is the latest.
THEOREM LeaderboardInvariant == BoardSpec => []BoardInv
<1>1. QED
  BY BoardInitInv, BoardNextInv, PTL DEF BoardSpec

\* Type correctness of the leaderboard.
THEOREM LeaderboardTypes == BoardSpec => []BoardTypeOK
<1>1. BoardInv => BoardTypeOK
  BY DEF BoardInv, AllSound, Sound, Snapshot, ControlOK, BoardTypeOK, IsSnapshot
<1>2. QED
  BY <1>1, LeaderboardInvariant, PTL

\* queueSaveLocked and saveLoop lose no update but to a failed write or a crash; a
\* file that could not be read at the start is behind until the next save.
THEOREM FileIsCurrent == BoardSpec => []FileCatchesUp
<1>1. BoardInv => FileCatchesUp
  BY DEF BoardInv, LatestIsUnderway, ClosedForGood, FileCatchesUp, Quiet
<1>2. QED
  BY <1>1, LeaderboardInvariant, PTL

\* The top list is one that rebuildTop makes of the best times, after any update,
\* reset, crash and load.
THEOREM TopIsRebuilt == BoardSpec => []TopIsBest
<1>1. BoardInv => TopIsBest
  BY DEF BoardInv, AllSound, Sound, Snapshot, TopIsBest
<1>2. QED
  BY <1>1, LeaderboardInvariant, PTL

\* What that means: the list has as many runners as fit, each once, with its best
\* time, in order, and no runner outside of it is faster than one inside.
TopIsTheBest ==
    /\ Len(top) = ListSize(Cardinality(DOMAIN best))
    /\ \A i \in 1..Len(top) : /\ top[i].xuid \in DOMAIN best
                             /\ top[i].time = best[top[i].xuid]
    /\ \A i, j \in 1..Len(top) :
          i < j => top[i].xuid # top[j].xuid /\ top[i].time <= top[j].time
    /\ \A r \in DOMAIN best \ {top[i].xuid : i \in 1..Len(top)} :
          \A i \in 1..Len(top) : top[i].time <= best[r]

\* The top list that players see is in order, has no doubles, and leaves out
\* nobody faster.
THEOREM TopListMeans == BoardSpec => []TopIsTheBest
<1>1. BoardInv => TopIsTheBest
  <2> SUFFICES ASSUME BoardInv PROVE TopIsTheBest
    OBVIOUS
  <2> DEFINE n == ListSize(Cardinality(DOMAIN best))
  <2>1. best \in Best /\ IsFiniteSet(DOMAIN best) /\ top \in rebuildTop(best)
    BY DEF BoardInv, AllSound, Sound, Snapshot
  <2>2. Len(top) = n
    BY <2>1, TopIsList
  <2>3. PICK f : Lists(best, f, n) /\ top = [i \in 1..n |-> [xuid |-> f[i], time |-> best[f[i]]]]
    BY <2>1, TopIsListed
  <2> HIDE DEF n
  <2>4. \A i \in 1..n : top[i].xuid = f[i] /\ top[i].time = best[f[i]]
    BY <2>3
  <2>5. {top[i].xuid : i \in 1..n} = {f[i] : i \in 1..n}
    BY <2>4
  <2>6. QED
    BY <2>2, <2>3, <2>4, <2>5 DEF TopIsTheBest, Lists, n
<1>2. QED
  BY <1>1, LeaderboardInvariant, PTL

-----------------------------------------------------------------------------
(* Runs: the inductive invariant *)

NumSessions == Cardinality(DOMAIN obj)

Types == TypeOK /\ NumSessions \in 0..MaxSessions /\ (here => visit >= 1)

RunIsActive == cur # 0 => obj[cur].state \in {"countdown", "running"}

TasksAreOld ==
    \A t \in tasks :
        /\ t.sid \in DOMAIN obj
        /\ t.gen <= obj[t.sid].gen
        /\ t.sid # cur => t.gen < obj[t.sid].gen

Carries(t) == t.sid = cur /\ t.gen = obj[cur].gen

Chain ==
    /\ State = "countdown" =>
          \E t \in tasks :
              /\ Carries(t) /\ t.visit = visit
              /\ t.due + t.remaining > began + Seconds
              /\ \A u \in tasks : Carries(u) => u = t
    /\ State = "running" => \A t \in tasks : ~Carries(t)

Clocks ==
    /\ began <= now /\ ran <= now
    /\ \A i \in DOMAIN obj : obj[i].elapsed <= obj[i].runStart /\ obj[i].runStart <= now

TimeAddsUp ==
    /\ State = "countdown" => /\ obj[cur].elapsed <= ran
                              /\ ~restarts => obj[cur].elapsed = ran
    /\ State = "running" => /\ Duration(obj[cur]) <= ran
                            /\ ~restarts => Duration(obj[cur]) = ran

Inv ==
    /\ Types
    /\ NoTraceOfRun
    /\ RunIsActive
    /\ TasksAreOld
    /\ Chain
    /\ Clocks
    /\ TimeAddsUp

-----------------------------------------------------------------------------
(* Runs: session objects and callbacks *)

LEMMA Numbered ==
    ASSUME NEW S, NEW n \in Nat, NEW f \in [1..n -> S]
    PROVE  DOMAIN f = 1..n /\ Cardinality(DOMAIN f) = n
  BY FS_Interval

LEMMA Objects ==
    ASSUME Types
    PROVE  /\ NumSessions \in 0..MaxSessions /\ DOMAIN obj = 1..NumSessions
           /\ obj \in [DOMAIN obj -> Session]
           /\ cur \in Nat /\ (cur # 0 => cur \in DOMAIN obj)
<1>1. NumSessions \in 0..MaxSessions /\ obj \in [1..NumSessions -> Session]
      /\ cur \in 0..NumSessions
  BY DEF Types, TypeOK, NumSessions
<1>2. DOMAIN obj = 1..NumSessions
  BY <1>1
<1>3. QED
  BY <1>1, <1>2, ParkourAssumption

\* What a session is like after Stopped and a change of state or checkpoint.
LEMMA StoppedFields ==
    ASSUME NEW s \in Session
    PROVE  /\ Stopped(s) \in Session
           /\ Stopped(s).gen = s.gen + 1 /\ Stopped(s).state = s.state
           /\ Stopped(s).elapsed = s.elapsed /\ Stopped(s).runStart = s.runStart
  BY DEF Stopped, Session

\* The callbacks that are left when those of a session are cancelled.
LEMMA CancelledLeaves ==
    ASSUME NEW sid, NEW left \in Cancelled(sid)
    PROVE  left \subseteq tasks /\ \A t \in tasks : t.sid # sid => t \in left
  BY DEF Cancelled

-----------------------------------------------------------------------------
(* Runs: what the handlers have in common *)

\* A countdown begins for session sid, the player's or a new one.
LEMMA BeginKeeps ==
    ASSUME Inv, NEW sid, NEW s \in Session, NEW left \in Cancelled(sid),
           (sid = cur /\ cur # 0) \/ (sid = NumSessions + 1 /\ cur = 0),
           sid <= MaxSessions,
           s.state = "countdown", s.elapsed <= s.runStart, s.runStart <= now,
           sid = cur => s.gen > obj[cur].gen,
           cur' = sid,
           obj' = [i \in DOMAIN obj \cup {sid} |-> IF i = sid THEN s ELSE obj[i]],
           beginCountdown(sid, s, left),
           here, UNCHANGED <<now, visit, here>>,
           at' \in Place, mobile' \in BOOLEAN, kit' = "parkour",
           ran' \in 0..MaxTime, ran' <= now, restarts' \in BOOLEAN,
           s.elapsed <= ran', ~restarts' => s.elapsed = ran'
    PROVE  Inv'
<1> DEFINE n == IF cur = 0 THEN NumSessions + 1 ELSE NumSessions
<1>1. /\ NumSessions \in 0..MaxSessions /\ DOMAIN obj = 1..NumSessions
      /\ obj \in [DOMAIN obj -> Session]
      /\ cur \in Nat /\ (cur # 0 => cur \in DOMAIN obj)
  BY Objects DEF Inv
<1>2. n \in 0..MaxSessions /\ sid \in 1..n /\ DOMAIN obj \cup {sid} = 1..n
  BY <1>1, ParkourAssumption
<1> HIDE DEF n
<1>3. obj' \in [1..n -> Session]
  BY <1>1, <1>2
<1>4. DOMAIN obj' = 1..n /\ NumSessions' = n
  <2>1. n \in Nat
    BY <1>2, ParkourAssumption
  <2>2. DOMAIN obj' = 1..n /\ Cardinality(DOMAIN obj') = n
    BY <1>3, <2>1, Numbered
  <2>3. QED
    BY <2>2 DEF NumSessions
<1>5. obj'[sid] = s /\ \A i \in DOMAIN obj : i # sid => obj'[i] = obj[i]
  BY <1>1, <1>2
<1>6. now \in 0..MaxTime /\ visit \in 1..MaxVisits /\ MaxTime \in Nat /\ Seconds \in Nat
      /\ MaxSessions \in Nat /\ tasks \subseteq Task /\ s.gen \in Nat
  BY ParkourAssumption DEF Inv, Types, TypeOK, Session
<1>7. began' = now
  BY DEF beginCountdown
\* The callback that carries the countdown on.
<1>8. PICK c \in Task : /\ tasks' = left \cup {c}
                        /\ c.sid = sid /\ c.gen = s.gen /\ c.visit = visit
                        /\ c.due + c.remaining > now + Seconds
  <2> DEFINE new == [sid |-> sid, gen |-> s.gen, visit |-> visit,
                     remaining |-> IF Seconds = 0 THEN 1 ELSE Seconds,
                     due |-> IF Seconds = 0 THEN now ELSE now + 1]
  <2>1. sid \in 1..MaxSessions
    BY <1>1, <1>2, <1>6
  <2>2. new \in Task
    BY <1>6, <2>1 DEF Task
  <2>3. /\ new.sid = sid /\ new.gen = s.gen /\ new.visit = visit
        /\ new.due + new.remaining > now + Seconds
    BY <1>6
  <2>4. tasks' = left \cup {new}
    BY DEF beginCountdown
  <2> HIDE DEF new
  <2>5. QED
    BY <2>2, <2>3, <2>4
<1>9. left \subseteq tasks
  BY CancelledLeaves
<1>10. sid # 0 /\ State' = "countdown"
  BY <1>1, <1>2, <1>5 DEF State
<1>11. Types'
  <2>1. Cardinality(DOMAIN obj') = n
    BY <1>4 DEF NumSessions
  <2>2. tasks' \subseteq Task
    BY <1>6, <1>7, <1>8, <1>9
  <2>3. cur' \in 0..n
    BY <1>2
  <2>4. TypeOK'
    BY <1>3, <1>6, <1>7, <1>8, <2>1, <2>2, <2>3 DEF Inv, Types, TypeOK
  <2>5. QED
    BY <1>2, <1>4, <2>4 DEF Inv, Types
<1>12. NoTraceOfRun' /\ RunIsActive'
  BY <1>5, <1>10 DEF NoTraceOfRun, RunIsActive
<1>13. ASSUME NEW t \in left
       PROVE  t.sid = sid => t.gen < s.gen
  <2>1. /\ t.sid \in DOMAIN obj /\ t.gen <= obj[t.sid].gen
        /\ t.sid # cur => t.gen < obj[t.sid].gen
    BY <1>9 DEF Inv, TasksAreOld
  <2>2. CASE t.sid = sid
    <3>1. sid = cur
      BY <1>1, <2>1, <2>2
    <3>2. t.gen \in Nat /\ obj[cur].gen \in Nat
      BY <1>1, <1>6, <1>9, <2>1, <2>2, <3>1 DEF Task, Session
    <3>3. QED
      BY <1>5, <1>6, <2>1, <2>2, <3>1, <3>2
  <2>3. CASE t.sid # sid
    BY <2>3
  <2>4. QED
    BY <2>2, <2>3
<1>14. TasksAreOld'
  <2>1. SUFFICES ASSUME NEW t \in tasks'
                 PROVE  /\ t.sid \in DOMAIN obj'
                        /\ t.gen <= obj'[t.sid].gen
                        /\ t.sid # cur' => t.gen < obj'[t.sid].gen
    BY DEF TasksAreOld
  <2>2. CASE t = c
    BY <1>2, <1>4, <1>5, <1>6, <1>8, <2>2
  <2>3. CASE t \in left
    <3>1. /\ t.sid \in DOMAIN obj /\ t.gen <= obj[t.sid].gen
          /\ t.sid # cur => t.gen < obj[t.sid].gen
      BY <1>9, <2>3 DEF Inv, TasksAreOld
    <3>2. CASE t.sid = sid
      <4>1. t.gen < s.gen /\ t.gen \in Nat
        BY <1>6, <1>9, <1>13, <2>3, <3>2 DEF Task
      <4>2. t.sid \in DOMAIN obj' /\ obj'[t.sid] = s /\ t.sid = cur'
        BY <1>2, <1>4, <1>5, <3>2
      <4>3. QED
        BY <1>6, <4>1, <4>2
    <3>3. CASE t.sid # sid
      <4>1. t.sid # cur
        BY <1>1, <3>1, <3>3
      <4>2. t.sid \in DOMAIN obj' /\ obj'[t.sid] = obj[t.sid]
        BY <1>2, <1>4, <1>5, <3>1, <3>3
      <4>3. QED
        BY <3>1, <4>1, <4>2
    <3>4. QED
      BY <3>2, <3>3
  <2>4. QED
    BY <1>7, <1>8, <2>2, <2>3
<1>15. Chain'
  <2>1. \A u \in tasks' : Carries(u)' => u = c
    <3>1. SUFFICES ASSUME NEW u \in left, u.sid = sid, u.gen = s.gen PROVE FALSE
      BY <1>5, <1>7, <1>8 DEF Carries
    <3>2. u.gen < s.gen
      BY <1>13, <3>1
    <3>3. QED
      BY <1>6, <3>1, <3>2
  <2>2. Carries(c)' /\ c \in tasks'
    BY <1>5, <1>7, <1>8 DEF Carries
  <2>3. QED
    BY <1>7, <1>8, <1>10, <2>1, <2>2 DEF Chain
<1>16. Clocks'
  BY <1>1, <1>2, <1>4, <1>5, <1>6, <1>7, <1>8 DEF Inv, Clocks
<1>17. TimeAddsUp'
  BY <1>5, <1>10 DEF TimeAddsUp
<1>18. QED
  BY <1>11, <1>12, <1>14, <1>15, <1>16, <1>17 DEF Inv

\* The run of the player ends, by the handler or because the player leaves.
LEMMA EndKeeps ==
    ASSUME Inv, cur # 0, NEW s \in Session, s.gen > obj[cur].gen,
           s.elapsed <= s.runStart, s.runStart <= now,
           obj' = [obj EXCEPT ![cur] = s], tasks' \in Cancelled(cur), cur' = 0,
           UNCHANGED <<now, visit, began, ran, restarts>>,
           here' \in BOOLEAN, here' => here, here' => mobile' /\ kit' = "lobby",
           at' \in Place, mobile' \in BOOLEAN, kit' \in {"lobby", "parkour"}
    PROVE  Inv'
<1>1. /\ NumSessions \in 0..MaxSessions /\ DOMAIN obj = 1..NumSessions
      /\ obj \in [DOMAIN obj -> Session] /\ cur \in DOMAIN obj
  BY Objects DEF Inv
<1>2. obj' \in [1..NumSessions -> Session] /\ DOMAIN obj' = DOMAIN obj
  BY <1>1
<1>3. NumSessions' = NumSessions
  BY <1>2 DEF NumSessions
<1>4. obj'[cur] = s /\ \A i \in DOMAIN obj : i # cur => obj'[i] = obj[i]
  BY <1>1
<1>5. tasks' \subseteq tasks
  BY CancelledLeaves
<1>6. Types'
  BY <1>1, <1>2, <1>3, <1>5 DEF Inv, Types, TypeOK, NumSessions
<1>7. NoTraceOfRun' /\ RunIsActive' /\ State' = "none"
  BY DEF NoTraceOfRun, RunIsActive, State
<1>8. TasksAreOld'
  <2>1. SUFFICES ASSUME NEW t \in tasks'
                 PROVE  t.sid \in DOMAIN obj' /\ t.gen < obj'[t.sid].gen /\ t.gen \in Nat
                        /\ obj'[t.sid].gen \in Nat
    BY DEF TasksAreOld
  <2>2. /\ t.sid \in DOMAIN obj /\ t.gen <= obj[t.sid].gen
        /\ t.sid # cur => t.gen < obj[t.sid].gen
        /\ t \in Task
    BY <1>5 DEF Inv, TasksAreOld, Types, TypeOK
  <2>3. t.gen \in Nat /\ obj[t.sid].gen \in Nat /\ s.gen \in Nat /\ obj[cur].gen \in Nat
    BY <1>1, <2>2 DEF Task, Session
  <2>4. QED
    BY <1>2, <1>4, <2>2, <2>3
<1>9. Clocks'
  BY <1>1, <1>2, <1>4 DEF Inv, Clocks
<1>10. Chain' /\ TimeAddsUp'
  BY <1>7 DEF Chain, TimeAddsUp
<1>11. QED
  BY <1>6, <1>7, <1>8, <1>9, <1>10 DEF Inv

\* A callback that is live carries the countdown of the player's session on.
LEMMA LiveCarries ==
    ASSUME Inv, NEW t \in tasks, Live(t)
    PROVE  Carries(t) /\ cur # 0 /\ cur \in DOMAIN obj /\ State = "countdown"
<1>1. /\ DOMAIN obj = 1..NumSessions /\ obj \in [DOMAIN obj -> Session]
      /\ NumSessions \in Nat
  BY Objects, ParkourAssumption DEF Inv
<1>2. t.sid \in DOMAIN obj /\ t.sid # cur => t.gen < obj[t.sid].gen
  BY DEF Inv, TasksAreOld
<1>3. t.sid \in DOMAIN obj /\ t.gen = obj[t.sid].gen /\ t.gen \in Nat
  <2>1. t.sid \in DOMAIN obj
    BY DEF Inv, TasksAreOld
  <2>2. QED
    BY <1>1, <2>1 DEF Live, Session
<1>4. t.sid = cur
  BY <1>3 DEF Inv, TasksAreOld
<1>5. cur # 0 /\ cur \in DOMAIN obj /\ Carries(t)
  BY <1>1, <1>3, <1>4 DEF Carries
<1>6. QED
  BY <1>5 DEF Inv, Chain, RunIsActive, State

-----------------------------------------------------------------------------
(* Runs: the actions *)

LEMMA InitInv == Init => Inv
<1> SUFFICES ASSUME Init PROVE Inv
  OBVIOUS
<1>1. DOMAIN obj = {} /\ Cardinality(DOMAIN obj) = 0
  BY FS_EmptySet DEF Init
<1>2. obj \in [1..0 -> Session] /\ 1..0 = {}
  BY <1>1 DEF Init
<1>3. Types
  <2>1. NumSessions \in 0..MaxSessions /\ (here => visit >= 1)
    BY <1>1, ParkourAssumption DEF Init, NumSessions
  <2>2. cur \in 0..Cardinality(DOMAIN obj) /\ obj \in [1..Cardinality(DOMAIN obj) -> Session]
    BY <1>1, <1>2 DEF Init
  <2>3. /\ now \in 0..MaxTime /\ visit \in 0..MaxVisits
        /\ began \in 0..MaxTime /\ ran \in 0..MaxTime
    BY ParkourAssumption DEF Init
  <2>4. /\ at \in Place /\ mobile \in BOOLEAN /\ kit \in {"lobby", "parkour"}
        /\ here \in BOOLEAN /\ restarts \in BOOLEAN /\ tasks \subseteq Task
    BY DEF Init, Place
  <2>5. QED
    BY <2>1, <2>2, <2>3, <2>4 DEF Types, TypeOK
<1>4. NoTraceOfRun /\ RunIsActive /\ TasksAreOld /\ Chain /\ TimeAddsUp
  BY DEF Init, NoTraceOfRun, RunIsActive, TasksAreOld, Chain, TimeAddsUp, State
<1>5. Clocks
  BY <1>1, ParkourAssumption DEF Init, Clocks
<1>6. QED
  BY <1>3, <1>4, <1>5 DEF Inv

\* A callback that runs late finds nothing to do; one that is live counts on
\* or lets the player go.
LEMMA CallbackKeeps ==
    ASSUME Inv, NEW t \in tasks, Callback(t)
    PROVE  Inv'
<1>1. /\ NumSessions \in 0..MaxSessions /\ DOMAIN obj = 1..NumSessions
      /\ obj \in [DOMAIN obj -> Session]
  BY Objects DEF Inv
<1>2. /\ now \in 0..MaxTime /\ MaxTime \in Nat /\ Seconds \in Nat /\ began \in 0..MaxTime
      /\ tasks \subseteq Task /\ t \in Task /\ t.due <= now
  BY ParkourAssumption DEF Inv, Types, TypeOK, Callback
<1>3. UNCHANGED <<now, visit, here, at, kit, cur, began, ran, restarts>>
  BY DEF Callback
<1>4. CASE ~Live(t) /\ tasks' = tasks \ {t} /\ UNCHANGED <<mobile, obj>>
  <2>1. Types' /\ NoTraceOfRun' /\ RunIsActive' /\ TasksAreOld' /\ Clocks' /\ TimeAddsUp'
    BY <1>3, <1>4 DEF Inv, Types, TypeOK, NumSessions, NoTraceOfRun, RunIsActive, State,
                      TasksAreOld, Clocks, TimeAddsUp, Duration
  <2>2. Chain'
    <3>1. CASE State = "countdown"
      <4>1. PICK c \in tasks : /\ Carries(c) /\ c.visit = visit
                               /\ c.due + c.remaining > began + Seconds
                               /\ \A u \in tasks : Carries(u) => u = c
        BY <3>1 DEF Inv, Chain
      <4>2. c # t
        BY <1>4, <3>1, <4>1 DEF Carries, Live, Inv, NoTraceOfRun, State
      <4>3. Carries(c)' /\ \A u : Carries(u)' <=> Carries(u)
        BY <1>3, <1>4, <4>1 DEF Carries
      <4>4. State' = "countdown" /\ c \in tasks' /\ tasks' \subseteq tasks
        BY <1>3, <1>4, <3>1, <4>2 DEF State
      <4>5. QED
        BY <1>3, <4>1, <4>3, <4>4 DEF Chain
    <3>2. CASE State # "countdown"
      BY <1>3, <1>4, <3>2 DEF Inv, Chain, State, Carries
    <3>3. QED
      BY <3>1, <3>2
  <2>3. QED
    BY <2>1, <2>2 DEF Inv
<1>5. ASSUME Live(t)
      PROVE  /\ Carries(t) /\ cur # 0 /\ cur \in DOMAIN obj /\ State = "countdown"
             /\ t.visit = visit /\ t.due + t.remaining > began + Seconds
             /\ \A u \in tasks : Carries(u) => u = t
  BY <1>5, LiveCarries DEF Inv, Chain
<1>6. CASE /\ Live(t) /\ t.remaining > 1
           /\ tasks' = (tasks \ {t}) \cup {[t EXCEPT !.remaining = @ - 1, !.due = now + 1]}
           /\ UNCHANGED <<mobile, obj>>
  <2>1. PICK c : /\ c \in Task /\ c.sid = t.sid /\ c.gen = t.gen /\ c.visit = t.visit
                 /\ c.due = now + 1 /\ c.remaining = t.remaining - 1
                 /\ tasks' = (tasks \ {t}) \cup {c}
    <3> DEFINE d == [t EXCEPT !.remaining = @ - 1, !.due = now + 1]
    <3>1. /\ d.sid = t.sid /\ d.gen = t.gen /\ d.visit = t.visit
          /\ d.due = now + 1 /\ d.remaining = t.remaining - 1
      BY <1>2 DEF Task
    <3>2. t.remaining - 1 \in 1..(Seconds + 1) /\ now + 1 \in 0..(MaxTime + 1)
      BY <1>2, <1>6 DEF Task
    <3>3. d \in Task
      BY <1>2, <3>2 DEF Task
    <3>4. tasks' = (tasks \ {t}) \cup {d}
      BY <1>6
    <3> HIDE DEF d
    <3>5. QED
      BY <3>1, <3>3, <3>4
  <2>2. Types' /\ NoTraceOfRun' /\ RunIsActive' /\ Clocks' /\ TimeAddsUp'
    BY <1>2, <1>3, <1>6, <2>1 DEF Inv, Types, TypeOK, NumSessions, NoTraceOfRun, RunIsActive,
                                  State, Clocks, TimeAddsUp, Duration
  <2>3. TasksAreOld'
    BY <1>3, <1>6, <2>1 DEF Inv, TasksAreOld
  <2>4. Chain'
    <3>1. \A u : Carries(u)' <=> Carries(u)
      BY <1>3, <1>6 DEF Carries
    <3>2. Carries(c) /\ c.visit = visit
      BY <1>5, <1>6, <2>1 DEF Carries
    <3>3. c.due + c.remaining > began + Seconds
      BY <1>2, <1>5, <1>6, <2>1 DEF Task
    <3>4. \A u \in tasks' : Carries(u) => u = c
      BY <1>5, <1>6, <2>1
    <3>5. State' = "countdown"
      BY <1>3, <1>5, <1>6 DEF State
    <3>6. QED
      BY <1>3, <2>1, <3>1, <3>2, <3>3, <3>4, <3>5 DEF Chain
  <2>5. QED
    BY <2>2, <2>3, <2>4 DEF Inv
<1>7. CASE /\ Live(t) /\ t.remaining = 1
           /\ tasks' = tasks \ {t}
           /\ obj' = [obj EXCEPT ![t.sid].state = "running", ![t.sid].runStart = now]
           /\ mobile' = TRUE
  <2>1. t.sid = cur /\ cur # 0 /\ cur \in DOMAIN obj /\ obj[cur] \in Session
    BY <1>1, <1>5, <1>7 DEF Carries
  <2>2. /\ obj' \in [1..NumSessions -> Session] /\ DOMAIN obj' = DOMAIN obj
        /\ obj'[cur].state = "running" /\ obj'[cur].runStart = now
        /\ obj'[cur].elapsed = obj[cur].elapsed /\ obj'[cur].gen = obj[cur].gen
        /\ \A i \in DOMAIN obj : i # cur => obj'[i] = obj[i]
    BY <1>1, <1>2, <1>7, <2>1 DEF Session
  <2>3. NumSessions' = NumSessions /\ State' = "running"
    BY <1>3, <2>1, <2>2 DEF NumSessions, State
  <2>4. Types'
    BY <1>1, <1>3, <1>7, <2>2, <2>3 DEF Inv, Types, TypeOK, NumSessions
  <2>5. NoTraceOfRun' /\ RunIsActive'
    BY <1>3, <1>7, <2>1, <2>2 DEF Inv, NoTraceOfRun, RunIsActive
  <2>6. TasksAreOld'
    <3>1. \A i \in DOMAIN obj : obj'[i].gen = obj[i].gen
      BY <2>2
    <3>2. QED
      BY <1>3, <1>7, <2>2, <3>1 DEF Inv, TasksAreOld
  <2>7. Chain'
    <3>1. \A u : Carries(u)' <=> Carries(u)
      BY <1>3, <2>2 DEF Carries
    <3>2. QED
      BY <1>5, <1>7, <2>3, <3>1 DEF Chain
  <2>8. Clocks'
    <3>1. obj[cur].elapsed \in Nat /\ obj[cur].runStart \in Nat
      BY <2>1 DEF Session
    <3>2. obj[cur].elapsed <= obj[cur].runStart /\ obj[cur].runStart <= now
      BY <2>1 DEF Inv, Clocks
    <3>3. QED
      BY <1>2, <1>3, <2>2, <3>1, <3>2 DEF Inv, Clocks
  <2>9. TimeAddsUp'
    <3>1. /\ obj[cur].elapsed \in Nat /\ obj[cur].elapsed <= ran
          /\ ~restarts => obj[cur].elapsed = ran
      BY <1>5, <1>7, <2>1 DEF Inv, TimeAddsUp, Session
    <3>2. Duration(obj[cur])' = obj[cur].elapsed
      BY <1>2, <1>3, <2>2, <3>1 DEF Duration
    <3>3. QED
      BY <1>3, <2>3, <3>1, <3>2 DEF TimeAddsUp
  <2>10. QED
    BY <2>4, <2>5, <2>6, <2>7, <2>8, <2>9 DEF Inv
<1>8. QED
  BY <1>4, <1>6, <1>7 DEF Callback

\* The start form: there is no session yet, or it would be of a run that is on.
LEMMA StartCourseKeeps ==
    ASSUME Inv, StartCourse
    PROVE  Inv'
<1>1. cur = 0 /\ here
  BY DEF StartCourse, Inv, RunIsActive, State
<1> DEFINE old == [NewSession EXCEPT !.state = "countdown", !.checkpoint = "start"]
           s   == Stopped(old)
<1>2. /\ old \in Session /\ old.state = "countdown"
      /\ old.elapsed = 0 /\ old.runStart = 0
  <2>1. 0 \in 0..MaxTime /\ 0 \in Nat /\ "start" \in Place /\ "spawn" \in Place
    BY ParkourAssumption DEF Place
  <2>2. NewSession \in Session /\ NewSession.elapsed = 0 /\ NewSession.runStart = 0
    BY <2>1 DEF NewSession, Session
  <2>3. QED
    BY <2>1, <2>2 DEF Session
<1>3. /\ NumSessions + 1 <= MaxSessions
      /\ cur' = NumSessions + 1
      /\ obj' = [i \in DOMAIN obj \cup {NumSessions + 1} |->
                   IF i = NumSessions + 1 THEN s ELSE obj[i]]
      /\ \E left \in Cancelled(NumSessions + 1) : beginCountdown(NumSessions + 1, s, left)
  BY <1>1 DEF StartCourse, NumSessions
<1>4. /\ kit' = "parkour" /\ at' \in Place /\ mobile' \in BOOLEAN /\ ran' = 0
      /\ restarts' \in BOOLEAN /\ UNCHANGED <<now, visit, here>>
  BY DEF StartCourse, Place
<1> HIDE DEF old
<1>5. s \in Session /\ s.state = "countdown" /\ s.elapsed = 0 /\ s.runStart = 0
  BY <1>2, StoppedFields
<1> HIDE DEF s
<1>6. NumSessions \in Nat /\ now \in 0..MaxTime /\ MaxTime \in Nat
  BY Objects, ParkourAssumption DEF Inv, Types, TypeOK
<1>7. PICK left \in Cancelled(NumSessions + 1) : beginCountdown(NumSessions + 1, s, left)
  BY <1>3
<1>8. PICK sid : sid = NumSessions + 1
  OBVIOUS
<1>9. sid # cur
  BY <1>1, <1>6, <1>8
<1>10. /\ left \in Cancelled(sid) /\ beginCountdown(sid, s, left) /\ sid <= MaxSessions
       /\ cur' = sid
       /\ obj' = [i \in DOMAIN obj \cup {sid} |-> IF i = sid THEN s ELSE obj[i]]
  BY <1>3, <1>7, <1>8
<1>11. /\ 0 <= now /\ ran' \in 0..MaxTime /\ ran' <= now
  BY <1>4, <1>6
<1>12. s.elapsed <= s.runStart /\ s.runStart <= now /\ s.elapsed <= ran' /\ s.elapsed = ran'
  BY <1>4, <1>5, <1>6
<1>13. QED
  BY <1>1, <1>4, <1>5, <1>8, <1>9, <1>10, <1>11, <1>12, BeginKeeps

\* Back to the checkpoint, from the void or by the kit's item.
LEMMA RestartKeeps ==
    ASSUME Inv, here, restartFromCheckpoint
    PROVE  Inv'
<1>1. cur # 0 /\ obj[cur].state = "running" /\ State = "running"
  BY DEF restartFromCheckpoint, State
<1>2. /\ NumSessions \in 0..MaxSessions /\ DOMAIN obj = 1..NumSessions
      /\ obj \in [DOMAIN obj -> Session] /\ cur \in DOMAIN obj
  BY <1>1, Objects DEF Inv
<1> DEFINE old == [obj[cur] EXCEPT !.state = "countdown"]
           s   == Stopped(Stopped(old))
<1>3. /\ old \in Session /\ old.state = "countdown" /\ old.gen = obj[cur].gen
      /\ old.elapsed = obj[cur].elapsed /\ old.runStart = obj[cur].runStart
  BY <1>2 DEF Session
<1>4. /\ obj' = [obj EXCEPT ![cur] = s]
      /\ \E left \in Cancelled(cur) : beginCountdown(cur, s, left)
      /\ at' = obj[cur].checkpoint /\ mobile' = FALSE /\ restarts' = TRUE
      /\ UNCHANGED <<now, visit, here, kit, cur, ran>>
  BY DEF restartFromCheckpoint
<1> HIDE DEF old
<1>5. /\ s \in Session /\ s.state = "countdown" /\ s.gen = obj[cur].gen + 1 + 1
      /\ s.elapsed = obj[cur].elapsed /\ s.runStart = obj[cur].runStart
  BY <1>3, StoppedFields
<1> HIDE DEF s
<1>6. PICK left \in Cancelled(cur) : beginCountdown(cur, s, left)
  BY <1>4
<1>7. /\ obj[cur].gen \in Nat /\ obj[cur].elapsed \in Nat /\ obj[cur].runStart \in Nat
      /\ obj[cur].checkpoint \in Place /\ now \in Nat /\ ran \in 0..MaxTime
      /\ MaxTime \in Nat /\ MaxSessions \in Nat
  BY <1>2, ParkourAssumption DEF Inv, Types, TypeOK, Session
<1>8. /\ obj[cur].elapsed <= obj[cur].runStart /\ obj[cur].runStart <= now /\ ran <= now
  BY <1>2 DEF Inv, Clocks
\* The section that is given up only makes the recorded time shorter.
<1>9. obj[cur].elapsed <= ran
  BY <1>1, <1>7, <1>8 DEF Inv, TimeAddsUp, Duration
<1>10. PICK sid : sid = cur
  OBVIOUS
<1>11. obj' = [i \in DOMAIN obj \cup {sid} |-> IF i = sid THEN s ELSE obj[i]]
  BY <1>2, <1>4, <1>10
<1>12. /\ sid <= MaxSessions /\ cur' = sid /\ left \in Cancelled(sid)
       /\ beginCountdown(sid, s, left) /\ (sid = cur => s.gen > obj[cur].gen)
       /\ s \in Session /\ s.state = "countdown"
       /\ ((sid = cur /\ cur # 0) \/ (sid = NumSessions + 1 /\ cur = 0))
  BY <1>1, <1>2, <1>4, <1>5, <1>6, <1>7, <1>10
<1>13. kit' = "parkour"
  BY <1>1, <1>4 DEF Inv, NoTraceOfRun
<1>14. /\ s.elapsed <= s.runStart /\ s.runStart <= now /\ s.elapsed <= ran'
       /\ ran' \in 0..MaxTime /\ ran' <= now /\ restarts' \in BOOLEAN
       /\ at' \in Place /\ mobile' \in BOOLEAN /\ (~restarts' => s.elapsed = ran')
       /\ UNCHANGED <<now, visit, here>>
  BY <1>4, <1>5, <1>7, <1>8, <1>9
<1>15. QED
  BY <1>11, <1>12, <1>13, <1>14, BeginKeeps, Zenon

\* The run ends at the end of the course or by the kit's item.
LEMMA endRunKeeps ==
    ASSUME Inv, cur # 0, NEW s \in Session, endRun(s),
           s.gen = obj[cur].gen, s.elapsed = obj[cur].elapsed, s.runStart = obj[cur].runStart,
           at' \in Place, UNCHANGED <<now, visit, here, began, ran, restarts>>
    PROVE  Inv'
<1>1. DOMAIN obj = 1..NumSessions /\ obj \in [DOMAIN obj -> Session] /\ cur \in DOMAIN obj
  BY Objects DEF Inv
<1>2. PICK e : e = Stopped(s)
  OBVIOUS
<1>3. /\ e \in Session /\ obj' = [obj EXCEPT ![cur] = e] /\ e.gen = obj[cur].gen + 1
      /\ e.elapsed = obj[cur].elapsed /\ e.runStart = obj[cur].runStart
  BY <1>2, StoppedFields DEF endRun
<1>4. e.gen > obj[cur].gen
  BY <1>1, <1>3 DEF Session
<1>5. e.elapsed <= e.runStart /\ e.runStart <= now
  BY <1>1, <1>3 DEF Inv, Clocks
<1>6. tasks' \in Cancelled(cur) /\ cur' = 0 /\ mobile' = TRUE /\ kit' = "lobby"
  BY DEF endRun
<1>7. here \in BOOLEAN
  BY DEF Inv, Types, TypeOK
<1>8. QED
  BY <1>4, <1>5, <1>6, <1>7, <1>3, EndKeeps

\* HandleMove: only the void and the end of the course change more than the
\* place and the checkpoint.
LEMMA HandleMoveKeeps ==
    ASSUME Inv, NEW pos \in Place, HandleMove(pos)
    PROVE  Inv'
<1>1. /\ NumSessions \in 0..MaxSessions /\ DOMAIN obj = 1..NumSessions
      /\ obj \in [DOMAIN obj -> Session] /\ (cur # 0 => cur \in DOMAIN obj)
  BY Objects DEF Inv
<1>2. here /\ "spawn" \in Place
  BY DEF HandleMove, Place
<1>3. CASE pos = "void" /\ State = "running" /\ restartFromCheckpoint
  BY <1>2, <1>3, RestartKeeps
<1>4. CASE /\ at' \in {"spawn", pos}
           /\ UNCHANGED <<now, visit, here, mobile, kit, cur, obj, tasks, began, ran, restarts>>
  <2>1. Types' /\ NoTraceOfRun' /\ RunIsActive' /\ TasksAreOld' /\ Clocks' /\ TimeAddsUp'
    BY <1>2, <1>4 DEF Inv, Types, TypeOK, NumSessions, NoTraceOfRun, RunIsActive, State,
                      TasksAreOld, Clocks, TimeAddsUp, Duration
  <2>2. Chain'
    BY <1>4 DEF Inv, Chain, State, Carries
  <2>3. QED
    BY <2>1, <2>2 DEF Inv
<1>5. CASE /\ pos \notin {"void", "end"} /\ State = "running"
           /\ at' = pos
           /\ obj' = [obj EXCEPT ![cur] = CheckpointSaved(@, pos)]
           /\ UNCHANGED <<now, visit, here, mobile, kit, cur, tasks, began, ran, restarts>>
  <2>1. cur # 0 /\ cur \in DOMAIN obj /\ obj[cur] \in Session /\ obj[cur].state = "running"
    BY <1>1, <1>5 DEF State
  <2>2. /\ now \in 0..MaxTime /\ MaxTime \in Nat
        /\ obj[cur].elapsed \in 0..MaxTime /\ obj[cur].runStart \in 0..MaxTime
        /\ obj[cur].elapsed <= obj[cur].runStart /\ obj[cur].runStart <= now
    BY <2>1, ParkourAssumption DEF Inv, Types, TypeOK, Clocks, Session
  <2>3. PICK s : /\ s = CheckpointSaved(obj[cur], pos)
                 /\ s \in Session /\ s.state = "running" /\ s.gen = obj[cur].gen
                 /\ s.elapsed <= s.runStart /\ s.runStart <= now
                 /\ (now - s.runStart) + s.elapsed = (now - obj[cur].runStart) + obj[cur].elapsed
    <3>1. CASE pos \in Plate /\ obj[cur].checkpoint # pos
      <4> DEFINE e == (now - obj[cur].runStart) + obj[cur].elapsed
      <4>1. e \in 0..MaxTime /\ e <= now /\ (now - now) + e = e
        BY <2>2
      <4> HIDE DEF e
      <4> DEFINE s == [obj[cur] EXCEPT !.checkpoint = pos, !.elapsed = e, !.runStart = now]
      <4>2. /\ s \in Session /\ s.state = "running" /\ s.gen = obj[cur].gen
            /\ s.elapsed = e /\ s.runStart = now
        BY <2>1, <2>2, <4>1 DEF Session
      <4>3. s = CheckpointSaved(obj[cur], pos)
        BY <3>1 DEF CheckpointSaved, e
      <4> HIDE DEF s
      <4>4. QED
        BY <2>2, <4>1, <4>2, <4>3 DEF e
    <3>2. CASE ~(pos \in Plate /\ obj[cur].checkpoint # pos)
      BY <2>1, <2>2, <3>2 DEF CheckpointSaved
    <3>3. QED
      BY <3>1, <3>2
  <2>4. /\ obj' \in [1..NumSessions -> Session] /\ DOMAIN obj' = DOMAIN obj
        /\ obj'[cur] = s /\ \A i \in DOMAIN obj : i # cur => obj'[i] = obj[i]
    BY <1>1, <1>5, <2>1, <2>3
  <2>5. NumSessions' = NumSessions /\ State' = "running"
    BY <1>5, <2>1, <2>3, <2>4 DEF NumSessions, State
  <2>6. Types' /\ NoTraceOfRun' /\ RunIsActive'
    BY <1>1, <1>5, <2>3, <2>4, <2>5
       DEF Inv, Types, TypeOK, NumSessions, NoTraceOfRun, RunIsActive
  <2>7. TasksAreOld'
    <3>1. \A i \in DOMAIN obj : obj'[i].gen = obj[i].gen
      BY <2>3, <2>4
    <3>2. QED
      BY <1>5, <2>4, <3>1 DEF Inv, TasksAreOld
  <2>8. Chain'
    <3>1. \A u : Carries(u)' <=> Carries(u)
      BY <1>5, <2>3, <2>4 DEF Carries
    <3>2. QED
      BY <1>5, <2>5, <3>1 DEF Inv, Chain
  <2>9. Clocks'
    BY <1>5, <2>3, <2>4 DEF Inv, Clocks
  <2>10. TimeAddsUp'
    <3>1. Duration(obj[cur])' = Duration(obj[cur])
      BY <1>5, <2>3, <2>4 DEF Duration
    <3>2. QED
      BY <1>5, <2>5, <3>1 DEF Inv, TimeAddsUp
  <2>11. QED
    BY <2>6, <2>7, <2>8, <2>9, <2>10 DEF Inv
<1>6. CASE /\ pos = "end" /\ State = "running"
           /\ at' = pos
           /\ endRun([obj[cur] EXCEPT !.state = "idle"])
           /\ UNCHANGED <<now, visit, here, began, ran, restarts>>
  <2>1. cur # 0 /\ obj[cur] \in Session
    BY <1>1, <1>6 DEF State
  <2>2. PICK s : s = [obj[cur] EXCEPT !.state = "idle"]
    OBVIOUS
  <2>3. /\ s \in Session /\ s.gen = obj[cur].gen /\ s.elapsed = obj[cur].elapsed
        /\ s.runStart = obj[cur].runStart
    BY <2>1, <2>2 DEF Session
  <2>4. QED
    BY <1>6, <2>1, <2>2, <2>3, endRunKeeps
<1>7. QED
  BY <1>3, <1>4, <1>5, <1>6 DEF HandleMove

LEMMA UseQuitKeeps ==
    ASSUME Inv, UseQuit
    PROVE  Inv'
<1>1. cur # 0 /\ endRun(obj[cur]) /\ at' = "spawn"
      /\ UNCHANGED <<now, visit, here, began, ran, restarts>>
  BY DEF UseQuit
<1>2. obj[cur] \in Session
  BY <1>1, Objects DEF Inv
<1>3. at' \in Place
  BY <1>1 DEF Place
<1>4. QED
  BY <1>1, <1>2, <1>3, endRunKeeps

LEMMA HandleQuitKeepsInv ==
    ASSUME Inv, HandleQuit
    PROVE  Inv'
<1>1. /\ here' = FALSE /\ UNCHANGED <<now, visit, at, mobile, kit, began, ran, restarts>>
  BY DEF HandleQuit
<1>2. CASE cur = 0 /\ UNCHANGED <<obj, tasks, cur>>
  BY <1>1, <1>2 DEF Inv, Types, TypeOK, NumSessions, NoTraceOfRun, RunIsActive, State,
                    TasksAreOld, Chain, Clocks, TimeAddsUp
<1>3. CASE /\ cur # 0
           /\ obj' = [obj EXCEPT ![cur] = Stopped(@)]
           /\ tasks' \in Cancelled(cur)
           /\ cur' = 0
  <2>1. /\ DOMAIN obj = 1..NumSessions /\ obj \in [DOMAIN obj -> Session] /\ cur \in DOMAIN obj
    BY <1>3, Objects DEF Inv
  <2>2. PICK e \in Session : /\ obj' = [obj EXCEPT ![cur] = e] /\ e.gen = obj[cur].gen + 1
                             /\ e.elapsed = obj[cur].elapsed /\ e.runStart = obj[cur].runStart
    BY <1>3, <2>1, StoppedFields
  <2>3. e.gen > obj[cur].gen
    BY <2>1, <2>2 DEF Session
  <2>4. e.elapsed <= e.runStart /\ e.runStart <= now
    BY <2>1, <2>2 DEF Inv, Clocks
  <2>5. at' \in Place /\ mobile' \in BOOLEAN /\ kit' \in {"lobby", "parkour"}
    BY <1>1 DEF Inv, Types, TypeOK
  <2>6. QED
    BY <1>1, <1>3, <2>2, <2>3, <2>4, <2>5, EndKeeps
<1>4. QED
  BY <1>2, <1>3 DEF HandleQuit

LEMMA JoinKeeps ==
    ASSUME Inv, Join
    PROVE  Inv'
<1>1. cur = 0 /\ State = "none"
  BY DEF Inv, NoTraceOfRun, Join, State
<1>2. Types'
  BY ParkourAssumption DEF Inv, Types, TypeOK, NumSessions, Join, Place
<1>3. QED
  BY <1>1, <1>2 DEF Inv, Join, NoTraceOfRun, RunIsActive, State, TasksAreOld, Chain, Clocks,
                    TimeAddsUp

LEMMA SecondKeeps ==
    ASSUME Inv, Second
    PROVE  Inv'
<1>1. /\ now' = now + 1 /\ now < MaxTime
      /\ ran' = IF State = "running" THEN ran + 1 ELSE ran
      /\ UNCHANGED <<visit, here, at, mobile, kit, cur, obj, tasks, began, restarts>>
  BY DEF Second
<1>2. /\ now \in 0..MaxTime /\ ran \in 0..MaxTime /\ began \in 0..MaxTime /\ MaxTime \in Nat
      /\ ran <= now /\ began <= now
  BY ParkourAssumption DEF Inv, Types, TypeOK, Clocks
<1>3. /\ DOMAIN obj = 1..NumSessions /\ obj \in [DOMAIN obj -> Session]
      /\ (cur # 0 => cur \in DOMAIN obj)
  BY Objects DEF Inv
<1>4. Types' /\ NoTraceOfRun' /\ RunIsActive' /\ TasksAreOld'
  BY <1>1, <1>2 DEF Inv, Types, TypeOK, NumSessions, NoTraceOfRun, RunIsActive, State, TasksAreOld
<1>5. Chain'
  BY <1>1 DEF Inv, Chain, State, Carries
<1>6. Clocks'
  BY <1>1, <1>2, <1>3 DEF Inv, Clocks, Session
<1>7. TimeAddsUp'
  <2>1. CASE State = "running"
    <3>1. cur # 0 /\ obj[cur].runStart \in Nat /\ obj[cur].elapsed \in Nat /\ State' = "running"
      BY <1>1, <1>3, <2>1 DEF State, Session
    <3>2. Duration(obj[cur])' = Duration(obj[cur]) + 1
      BY <1>1, <1>2, <3>1 DEF Duration
    <3>3. Duration(obj[cur]) \in Int
      BY <1>2, <3>1 DEF Duration
    <3>4. QED
      BY <1>1, <1>2, <2>1, <3>1, <3>2, <3>3 DEF Inv, TimeAddsUp
  <2>2. CASE State # "running"
    BY <1>1, <2>2 DEF Inv, TimeAddsUp, State
  <2>3. QED
    BY <2>1, <2>2
<1>8. QED
  BY <1>4, <1>5, <1>6, <1>7 DEF Inv

LEMMA NextInv == Inv /\ [Next]_vars => Inv'
<1> SUFFICES ASSUME Inv, [Next]_vars PROVE Inv'
  OBVIOUS
<1>1. CASE \E t \in tasks : Callback(t)
  BY <1>1, CallbackKeeps
<1>2. CASE StartCourse
  BY <1>2, StartCourseKeeps
<1>3. CASE \E pos \in Place : HandleMove(pos)
  BY <1>3, HandleMoveKeeps
<1>4. CASE UseQuit
  BY <1>4, UseQuitKeeps
<1>5. CASE UseRestart
  BY <1>5, RestartKeeps DEF UseRestart
<1>6. CASE Join
  BY <1>6, JoinKeeps
<1>7. CASE HandleQuit
  BY <1>7, HandleQuitKeepsInv
<1>8. CASE Second
  BY <1>8, SecondKeeps
<1>9. CASE UNCHANGED vars
  <2>1. Types' /\ NoTraceOfRun' /\ RunIsActive' /\ TasksAreOld' /\ Clocks' /\ TimeAddsUp'
    BY <1>9 DEF vars, Inv, Types, TypeOK, NumSessions, NoTraceOfRun, RunIsActive, State,
                TasksAreOld, Clocks, TimeAddsUp, Duration
  <2>2. Chain'
    BY <1>9 DEF vars, Inv, Chain, State, Carries
  <2>3. QED
    BY <2>1, <2>2 DEF Inv
<1>10. QED
  BY <1>1, <1>2, <1>3, <1>4, <1>5, <1>6, <1>7, <1>8, <1>9 DEF Next

-----------------------------------------------------------------------------
(* Runs: theorems *)

\* Whatever the runs, sessions and visits before, the callbacks that are
\* still about are harmless and the clocks of the run agree.
THEOREM RunInvariant == Spec => []Inv
  BY InitInv, NextInv, PTL DEF Spec

\* Every variable, session object and callback stays in its range.
THEOREM ParkourTypes == Spec => []TypeOK
<1>1. Inv => TypeOK
  BY DEF Inv, Types
<1>2. QED
  BY <1>1, RunInvariant, PTL

\* A run that is over leaves the player free and in the kit of the lobby,
\* and a session never outlives the visit it was made in.
THEOREM RunsLeaveNoTrace == Spec => []NoTraceOfRun
<1>1. Inv => NoTraceOfRun
  BY DEF Inv
<1>2. QED
  BY <1>1, RunInvariant, PTL

\* A countdown has exactly one live callback, however many stale ones there
\* are: it is neither stopped for good nor run at twice the speed.
THEOREM CountdownIsCarried == Spec => []CountdownGoesOn
<1>1. ASSUME Inv PROVE CountdownGoesOn
  <2>1. CASE State = "countdown"
    <3>1. PICK t \in tasks : /\ Carries(t) /\ t.visit = visit
                             /\ \A u \in tasks : Carries(u) => u = t
      BY <1>1, <2>1 DEF Inv, Chain
    <3>2. here
      BY <1>1, <2>1 DEF Inv, NoTraceOfRun, State
    <3>3. Live(t)
      BY <3>1, <3>2 DEF Live, Carries
    <3>4. {u \in tasks : Live(u)} = {t}
      BY <1>1, <3>1, <3>3, LiveCarries
    <3>5. QED
      BY <2>1, <3>4, FS_Singleton DEF CountdownGoesOn
  <2>2. CASE State # "countdown"
    <3>1. {u \in tasks : Live(u)} = {}
      BY <1>1, <2>2, LiveCarries
    <3>2. QED
      BY <2>2, <3>1, FS_EmptySet DEF CountdownGoesOn
  <2>3. QED
    BY <2>1, <2>2
<1>2. QED
  BY <1>1, RunInvariant, PTL

\* No run starts before its countdown has lasted Seconds: a callback of an
\* earlier countdown cannot cut it short.
THEOREM CountdownsAreWhole == Spec => CountdownIsWhole
<1>1. ASSUME Inv, [Next]_vars, State = "countdown", State' = "running"
      PROVE  now - began >= Seconds
  <2>1. CASE \E t \in tasks : Callback(t)
    <3>1. PICK t \in tasks : Callback(t)
      BY <2>1
    <3>2. Live(t) /\ t.remaining = 1 /\ t.due <= now
      BY <1>1, <3>1 DEF Callback, State
    <3>3. t.due + t.remaining > began + Seconds
      BY <1>1, <3>2, LiveCarries DEF Inv, Chain
    <3>4. t.due \in Nat /\ now \in Nat /\ began \in Nat /\ Seconds \in Nat
      BY <1>1, ParkourAssumption DEF Inv, Types, TypeOK, Task
    <3>5. QED
      BY <3>2, <3>3, <3>4
  <2>2. CASE StartCourse \/ restartFromCheckpoint
    BY <1>1, <2>2 DEF StartCourse, restartFromCheckpoint, State
  <2>3. CASE \E pos \in Place : HandleMove(pos)
    BY <1>1, <2>2, <2>3 DEF HandleMove, endRun, State
  <2>4. CASE UseQuit \/ UseRestart \/ HandleQuit
    BY <1>1, <2>2, <2>4 DEF UseQuit, UseRestart, HandleQuit, endRun, State
  <2>5. CASE Join \/ Second \/ UNCHANGED vars
    BY <1>1, <2>5 DEF Join, Second, vars, State
  <2>6. QED
    BY <1>1, <2>1, <2>2, <2>3, <2>4, <2>5 DEF Next
<1>2. Inv /\ [Next]_vars => [(State = "countdown" /\ State' = "running")
                             => now - began >= Seconds]_vars
  BY <1>1
<1>3. QED
  BY <1>2, RunInvariant, PTL DEF Spec, CountdownIsWhole

\* The time that is recorded at the end of the course is the time spent
\* running; sections given up at a checkpoint only make it shorter.
THEOREM TimesAreTrue == Spec => RecordedTimeIsRun
<1>1. Inv => [(State = "running" /\ State' = "none" /\ at' = "end")
                => /\ Duration(obj[cur]) <= ran
                   /\ ~restarts => Duration(obj[cur]) = ran]_vars
  BY DEF Inv, TimeAddsUp
<1>2. QED
  BY <1>1, RunInvariant, PTL DEF RecordedTimeIsRun

=============================================================================

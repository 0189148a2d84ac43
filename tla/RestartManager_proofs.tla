------------------------- MODULE RestartManager_proofs -------------------------
(***************************************************************************)
(* Proofs about RestartManager and RestartFleet, for every set of servers  *)
(* and all durations.                                                      *)
(*                                                                         *)
(* The manager by itself: Inv is inductive.  QueuedOutOfCooldown is what   *)
(* processQueue, which tests nothing, needs to respect the cooldown, and   *)
(* QueuedOnce is what keeps it true when the head of the queue gets the    *)
(* slot.                                                                   *)
(*                                                                         *)
(* The manager with its servers: FleetInv follows each permission from the *)
(* response to the end of the restart.  A server with a permission of this *)
(* hub, unless the hub takes its restart for an earlier one, holds the     *)
(* slot, and has held it for no longer than the polls, the lost responses  *)
(* and the restart explain; that is less than MaxRestartTime, so the       *)
(* takeover passes it by.                                                  *)
(***************************************************************************)
EXTENDS RestartFleet, SequenceTheorems, TLAPS

-----------------------------------------------------------------------------
(* Queues *)

NamesOf(q) == {q[i].name : i \in 1..Len(q)}

Distinct(q) == \A i, j \in 1..Len(q) : q[i].name = q[j].name => i = j

LEMMA NoNamesNoEntries ==
    ASSUME NEW q \in Seq(QueueEntry), NamesOf(q) = {}
    PROVE  q = <<>>
<1>1. Len(q) \in Nat /\ (q # <<>> => Len(q) >= 1)
  BY EmptySeq, LenProperties
<1>2. ASSUME Len(q) >= 1 PROVE FALSE
  <2>1. 1 \in 1..Len(q)
    BY <1>1, <1>2
  <2>2. q[1].name \in NamesOf(q)
    BY <2>1 DEF NamesOf
  <2>3. QED
    BY <2>2
<1>3. QED
  BY <1>1, <1>2

\* What RemoveAt leaves: all entries but the k-th, in order.
LEMMA RemoveAtProperties ==
    ASSUME NEW S, NEW q \in Seq(S), NEW k \in 1..Len(q)
    PROVE  /\ RemoveAt(q, k) \in Seq(S)
           /\ Len(RemoveAt(q, k)) = Len(q) - 1
           /\ \A j \in 1..(Len(q) - 1) :
                 RemoveAt(q, k)[j] = IF j < k THEN q[j] ELSE q[j + 1]
<1> DEFINE front == SubSeq(q, 1, k - 1)
           back  == SubSeq(q, k + 1, Len(q))
<1>1. Len(q) \in Nat /\ k \in Nat /\ k >= 1 /\ k <= Len(q)
  OBVIOUS
<1>2. /\ front \in Seq(S) /\ Len(front) = k - 1
      /\ \A j \in 1..(k - 1) : front[j] = q[j]
  BY <1>1, SubSeqProperties
<1>3. /\ back \in Seq(S) /\ Len(back) = Len(q) - k
      /\ \A j \in 1..(Len(q) - k) : back[j] = q[k + j]
  BY <1>1, SubSeqProperties
<1> HIDE DEF front, back
<1>4. /\ front \o back \in Seq(S)
      /\ Len(front \o back) = Len(q) - 1
      /\ \A j \in 1..(Len(q) - 1) :
            (front \o back)[j] = IF j <= k - 1 THEN front[j] ELSE back[j - (k - 1)]
  <2>1. /\ front \o back \in Seq(S)
        /\ Len(front \o back) = Len(front) + Len(back)
        /\ \A j \in 1..(Len(front) + Len(back)) :
              (front \o back)[j] = IF j <= Len(front) THEN front[j] ELSE back[j - Len(front)]
    BY <1>2, <1>3, ConcatProperties
  <2>2. Len(front) + Len(back) = Len(q) - 1
    BY <1>1, <1>2, <1>3
  <2>3. QED
    BY <1>2, <2>1, <2>2
<1>5. ASSUME NEW j \in 1..(Len(q) - 1)
      PROVE  (front \o back)[j] = IF j < k THEN q[j] ELSE q[j + 1]
  <2>1. CASE j < k
    BY <1>1, <1>2, <1>4, <2>1
  <2>2. CASE ~(j < k)
    <3>1. (front \o back)[j] = back[j - (k - 1)]
      BY <1>1, <1>4, <2>2
    <3>2. j - (k - 1) \in 1..(Len(q) - k) /\ k + (j - (k - 1)) = j + 1
      BY <1>1, <2>2
    <3>3. back[j - (k - 1)] = q[k + (j - (k - 1))]
      BY <1>3, <3>2
    <3>4. QED
      BY <2>2, <3>1, <3>2, <3>3
  <2>3. QED
    BY <2>1, <2>2
<1>6. RemoveAt(q, k) = front \o back
  BY DEF RemoveAt, front, back
<1>7. QED
  BY <1>4, <1>5, <1>6

\* Removing a server from a queue leaves a queue without it, of entries that
\* were there before, still at most one per server.
LEMMA WithoutProperties ==
    ASSUME NEW q \in Seq(QueueEntry), NEW s \in Server, Distinct(q)
    PROVE  /\ Without(q, s) \in Seq(QueueEntry)
           /\ Distinct(Without(q, s))
           /\ NamesOf(Without(q, s)) \subseteq NamesOf(q) \ {s}
<1>1. CASE ~ \E i \in 1..Len(q) : q[i].name = s
  BY <1>1 DEF Without, NamesOf
<1>2. CASE \E i \in 1..Len(q) : q[i].name = s
  <2> DEFINE First(i) == /\ q[i].name = s
                         /\ \A j \in 1..(i - 1) : q[j].name # s
             k == CHOOSE i \in 1..Len(q) : First(i)
             w == RemoveAt(q, k)
  <2>1. PICK i \in 1..Len(q) : q[i].name = s
    BY <1>2
  <2>2. First(i)
    <3>1. ASSUME NEW j \in 1..(i - 1), q[j].name = s PROVE FALSE
      BY <3>1, <2>1, LenProperties DEF Distinct
    <3>2. QED
      BY <3>1, <2>1
  <2>3. k \in 1..Len(q) /\ q[k].name = s
    BY <2>2
  <2>4. Without(q, s) = w
    BY <1>2 DEF Without
  <2> HIDE DEF k
  <2>5. /\ w \in Seq(QueueEntry)
        /\ Len(w) = Len(q) - 1
        /\ \A j \in 1..(Len(q) - 1) : w[j] = IF j < k THEN q[j] ELSE q[j + 1]
    BY <2>3, RemoveAtProperties
  <2> HIDE DEF w
  <2>6. Len(q) \in Nat
    OBVIOUS
  <2>7. Distinct(w)
    BY <2>3, <2>5, <2>6 DEF Distinct
  <2>8. ASSUME NEW j \in 1..Len(w)
        PROVE  w[j].name \in NamesOf(q) /\ w[j].name # s
    <3>0. j \in 1..(Len(q) - 1) /\ k \in Nat
      BY <2>3, <2>5, <2>6
    <3>1. CASE j < k
      <4>1. w[j] = q[j] /\ j \in 1..Len(q) /\ j # k
        BY <2>5, <2>6, <3>0, <3>1
      <4>2. QED
        BY <2>3, <4>1 DEF Distinct, NamesOf
    <3>2. CASE ~(j < k)
      <4>1. w[j] = q[j + 1] /\ j + 1 \in 1..Len(q) /\ j + 1 # k
        BY <2>5, <2>6, <3>0, <3>2
      <4>2. QED
        BY <2>3, <4>1 DEF Distinct, NamesOf
    <3>3. QED
      BY <3>1, <3>2
  <2>9. QED
    BY <2>4, <2>5, <2>7, <2>8 DEF NamesOf
<1>3. QED
  BY <1>1, <1>2

\* What is left of the queue after expiry: entries of the queue, at most one
\* per server.
LEMMA UnexpiredProperties ==
    ASSUME TypeOK, Distinct(queue),
           NEW n \in 0..Len(queue), NEW f \in [1..n -> 1..Len(queue)],
           KeepsUnexpired(f)
    PROVE  LET kept == [i \in 1..n |-> queue[f[i]]]
           IN  /\ kept \in Seq(QueueEntry)
               /\ Distinct(kept)
               /\ NamesOf(kept) \subseteq NamesOf(queue)
<1> DEFINE kept == [i \in 1..n |-> queue[f[i]]]
<1>1. n \in Nat /\ \A i \in 1..n : f[i] \in 1..Len(queue)
  BY DEF TypeOK
<1>2. \A i \in 1..Len(queue) : queue[i] \in QueueEntry
  BY DEF TypeOK
<1>3. kept \in [1..n -> QueueEntry]
  BY <1>1, <1>2
<1>4. kept \in Seq(QueueEntry) /\ Len(kept) = n
  BY <1>1, <1>3, IsASeq, LenProperties
<1>5. \A i, j \in 1..n : f[i] = f[j] => i = j
  BY <1>1 DEF KeepsUnexpired
<1>6. Distinct(kept)
  BY <1>1, <1>4, <1>5 DEF Distinct
<1>7. NamesOf(kept) \subseteq NamesOf(queue)
  BY <1>1, <1>4 DEF NamesOf
<1>8. QED
  BY <1>4, <1>6, <1>7

\* Handing on the slot establishes the invariant, whatever the slot was before.
LEMMA ProcessQueueProperties ==
    ASSUME NEW q \in Seq(QueueEntry), NEW h \in [Server -> Age],
           Distinct(q),
           \A s \in NamesOf(q) : h[s] >= RestartCooldown,
           processQueue(q, h)
    PROVE  /\ current' \in Server \cup {None}
           /\ queue' \in Seq(QueueEntry)
           /\ since' \in [Server -> Age]
           /\ NobodyWaitsForFreeSlot'
           /\ QueuedOnce'
           /\ QueuedOutOfCooldown'
<1>1. CASE q = <<>> /\ current' = None /\ queue' = q /\ since' = h
  BY <1>1 DEF NobodyWaitsForFreeSlot, QueuedOnce, QueuedOutOfCooldown, Queued
<1>2. CASE /\ q # <<>>
           /\ current' = Head(q).name
           /\ queue' = Tail(q)
           /\ since' = [h EXCEPT ![Head(q).name] = 0]
  <2>1. /\ Head(q) = q[1] /\ q[1] \in QueueEntry /\ Len(q) \in Nat /\ Len(q) >= 1
        /\ Tail(q) \in Seq(QueueEntry) /\ Len(Tail(q)) = Len(q) - 1
        /\ \A i \in 1..Len(Tail(q)) : Tail(q)[i] = q[i + 1]
    BY <1>2
  <2>2. q[1].name \in Server /\ q[1].name # None
    BY <2>1, NoneAssumption DEF QueueEntry
  <2>3. \A i \in 1..Len(queue') : /\ queue'[i].name # current'
                                  /\ queue'[i].name \in Server
                                  /\ queue'[i].name \in NamesOf(q)
    <3>1. ASSUME NEW i \in 1..Len(queue')
          PROVE  /\ queue'[i] = q[i + 1]
                 /\ i + 1 \in 1..Len(q) /\ i + 1 # 1
                 /\ q[i + 1] \in QueueEntry
      BY <1>2, <2>1
    <3>2. QED
      BY <1>2, <2>1, <3>1 DEF Distinct, NamesOf, QueueEntry
  <2>4. since' \in [Server -> Age]
    <3>1. 0 \in Age
      BY DurationAssumption DEF Age
    <3>2. QED
      BY <1>2, <3>1
  <2>5. QueuedOnce'
    <3>1. \A i, j \in 1..Len(queue') : queue'[i].name = queue'[j].name => i = j
      BY <1>2, <2>1 DEF Distinct
    <3>2. QED
      BY <2>3, <3>1 DEF QueuedOnce, Queued
  <2>6. QueuedOutOfCooldown'
    <3>1. ASSUME NEW i \in 1..Len(queue')
          PROVE  since'[queue'[i].name] >= RestartCooldown
      BY <1>2, <2>1, <2>2, <2>3
    <3>2. ASSUME NEW i \in 1..Len(queue')
          PROVE  ~(since'[queue'[i].name] < RestartCooldown)
      BY <3>1, <2>3, <2>4, DurationAssumption DEF Age
    <3>3. QED
      BY <3>2 DEF QueuedOutOfCooldown, Queued, InCooldown
  <2>7. QED
    BY <1>2, <2>1, <2>2, <2>4, <2>5, <2>6 DEF NobodyWaitsForFreeSlot
<1>3. QED
  BY <1>1, <1>2 DEF processQueue

-----------------------------------------------------------------------------
(* The inductive invariant *)

LEMMA InitInv == Init => Inv
<1> SUFFICES ASSUME Init PROVE Inv
  OBVIOUS
<1>1. queue \in Seq(QueueEntry) /\ Len(queue) = 0 /\ Queued = {}
  BY DEF Init, Queued
<1>2. TypeOK
  <2>1. since \in [Server -> Age]
    BY DurationAssumption DEF Init, Age
  <2>2. QED
    BY <1>1, <2>1 DEF Init, TypeOK
<1>3. QED
  BY <1>1, <1>2 DEF Init, Inv, NobodyWaitsForFreeSlot, QueuedOnce, QueuedOutOfCooldown

\* What Inv says in the vocabulary of the lemmas on queues.
LEMMA InvQueue ==
    ASSUME Inv
    PROVE  /\ queue \in Seq(QueueEntry) /\ Len(queue) \in Nat
           /\ Queued = NamesOf(queue) /\ Queued \subseteq Server
           /\ Distinct(queue)
           /\ \A s \in Queued : since[s] >= RestartCooldown
<1>1. queue \in Seq(QueueEntry) /\ Len(queue) \in Nat
  BY DEF Inv, TypeOK
<1>2. Queued = NamesOf(queue) /\ Distinct(queue)
  BY DEF Inv, QueuedOnce, Queued, NamesOf, Distinct
<1>3. Queued \subseteq Server
  <2>1. \A i \in 1..Len(queue) : queue[i] \in QueueEntry
    BY <1>1
  <2>2. QED
    BY <2>1 DEF Queued, QueueEntry
<1>4. ASSUME NEW s \in Queued PROVE since[s] >= RestartCooldown
  BY <1>3, DurationAssumption
     DEF Inv, TypeOK, QueuedOutOfCooldown, InCooldown, Age
<1>5. QED
  BY <1>1, <1>2, <1>3, <1>4

LEMMA OlderInAge ==
    ASSUME NEW x \in Age
    PROVE  Older(x) \in Age /\ Older(x) >= x
BY DurationAssumption DEF Older, Age

LEMMA TickInv ==
    ASSUME Inv, Tick
    PROVE  Inv'
<1> USE InvQueue
<1>1. since' \in [Server -> Age] /\ \A s \in Server : since'[s] >= since[s]
  BY OlderInAge DEF Tick, Inv, TypeOK
<1>2. /\ queue' \in Seq(QueueEntry) /\ Len(queue') = Len(queue)
      /\ \A i \in 1..Len(queue) : queue'[i].name = queue[i].name
  <2> DEFINE q == [i \in 1..Len(queue) |->
                      [name |-> queue[i].name, waited |-> Older(queue[i].waited)]]
  <2>1. \A i \in 1..Len(queue) : queue[i] \in QueueEntry
    OBVIOUS
  <2>2. q \in [1..Len(queue) -> QueueEntry]
    BY <2>1, OlderInAge DEF QueueEntry
  <2>3. q \in Seq(QueueEntry) /\ Len(q) = Len(queue)
    BY <2>2, IsASeq, LenProperties
  <2>4. QED
    BY <2>3 DEF Tick
<1>3. Queued' = Queued
  BY <1>2 DEF Queued
<1>4. TypeOK'
  BY <1>1, <1>2 DEF Tick, Inv, TypeOK
<1>5. NobodyWaitsForFreeSlot'
  BY <1>2 DEF Tick, Inv, NobodyWaitsForFreeSlot
<1>6. QueuedOnce'
  BY <1>2, <1>3 DEF Tick, Inv, QueuedOnce
<1>7. QueuedOutOfCooldown'
  <2>1. ASSUME NEW s \in Queued PROVE since'[s] >= RestartCooldown
    <3>1. s \in Server /\ since[s] \in Nat /\ since'[s] \in Nat
      BY <1>1 DEF Inv, TypeOK, Age
    <3>2. QED
      BY <1>1, <3>1, DurationAssumption
  <2>2. ASSUME NEW s \in Queued PROVE ~(since'[s] < RestartCooldown)
    BY <1>1, <2>1, DurationAssumption DEF Age
  <2>3. QED
    BY <1>3, <2>2 DEF QueuedOutOfCooldown, InCooldown
<1>8. QED
  BY <1>4, <1>5, <1>6, <1>7 DEF Inv

LEMMA RequestRestartInv ==
    ASSUME Inv, NEW s \in Server, RequestRestart(s)
    PROVE  Inv'
<1> USE InvQueue
<1>1. pending' \in SUBSET Server /\ UNCHANGED <<closed, due, cleaning>>
  BY DEF RequestRestart, Locked, Grant, Enqueue, Deny, Inv, TypeOK
<1>2. CASE UNCHANGED <<current, queue, since>>
  BY <1>1, <1>2 DEF Inv, TypeOK, NobodyWaitsForFreeSlot, QueuedOnce,
                    QueuedOutOfCooldown, Queued, InCooldown
<1>3. CASE /\ current = None /\ ~InCooldown(s)
           /\ current' = s
           /\ since' = [since EXCEPT ![s] = 0]
           /\ UNCHANGED queue
  <2>1. queue = <<>> /\ queue' = <<>> /\ Queued' = {}
    BY <1>3 DEF Inv, NobodyWaitsForFreeSlot, Queued
  <2>2. 0 \in Age
    BY DurationAssumption DEF Age
  <2>3. QED
    BY <1>1, <1>3, <2>1, <2>2 DEF Inv, TypeOK, NobodyWaitsForFreeSlot,
                                  QueuedOnce, QueuedOutOfCooldown
<1>4. CASE /\ current \notin {None, s} /\ ~InCooldown(s) /\ s \notin Queued
           /\ queue' = Append(queue, [name |-> s, waited |-> 0])
           /\ UNCHANGED <<current, since>>
  <2> DEFINE e == [name |-> s, waited |-> 0]
  <2>1. e \in QueueEntry
    BY DurationAssumption DEF QueueEntry, Age
  <2>2. /\ queue' \in Seq(QueueEntry)
        /\ Len(queue') = Len(queue) + 1
        /\ \A i \in 1..Len(queue) : queue'[i] = queue[i]
        /\ queue'[Len(queue) + 1] = e
    BY <1>4, <2>1, AppendProperties
  <2>3. Queued' = Queued \cup {s}
    BY <2>2 DEF Queued
  <2>4. \A i \in 1..Len(queue) : queue'[i].name # s
    BY <1>4, <2>2 DEF Queued
  <2>5. QueuedOnce'
    <3>1. \A i, j \in 1..Len(queue') : queue'[i].name = queue'[j].name => i = j
      BY <2>2, <2>4 DEF Distinct
    <3>2. QED
      BY <1>4, <2>3, <3>1 DEF QueuedOnce, Inv
  <2>6. QueuedOutOfCooldown'
    BY <1>4, <2>3 DEF QueuedOutOfCooldown, InCooldown, Inv
  <2>7. QED
    BY <1>1, <1>4, <2>2, <2>5, <2>6 DEF Inv, TypeOK, NobodyWaitsForFreeSlot
<1>5. QED
  BY <1>2, <1>3, <1>4 DEF RequestRestart, Locked, Grant, Enqueue, Deny

LEMMA CompleteInv ==
    ASSUME Inv, NEW s \in Server, NotifyRestartComplete(s)
    PROVE  Inv'
<1> USE InvQueue
<1>1. since \in [Server -> Age] /\ processQueue(queue, since)
  BY DEF NotifyRestartComplete, Inv, TypeOK
<1>2. /\ current' \in Server \cup {None} /\ queue' \in Seq(QueueEntry)
      /\ since' \in [Server -> Age]
      /\ NobodyWaitsForFreeSlot' /\ QueuedOnce' /\ QueuedOutOfCooldown'
  BY <1>1, ProcessQueueProperties
<1>3. QED
  BY <1>2 DEF NotifyRestartComplete, Inv, TypeOK

LEMMA UnauthorizedInv ==
    ASSUME Inv, NEW s \in Server, NotifyUnauthorizedRestart(s)
    PROVE  Inv'
<1> USE InvQueue
<1> DEFINE history == [since EXCEPT ![s] = 0]
           rest    == Without(queue, s)
<1>1. history \in [Server -> Age] /\ \A t \in Server \ {s} : history[t] = since[t]
  BY DurationAssumption DEF Inv, TypeOK, Age
<1>2. rest \in Seq(QueueEntry) /\ Distinct(rest) /\ NamesOf(rest) \subseteq Queued \ {s}
  BY WithoutProperties
<1>3. \A t \in NamesOf(rest) : history[t] >= RestartCooldown
  BY <1>1, <1>2
<1>4. UNCHANGED <<closed, pending, due, cleaning>>
  BY DEF NotifyUnauthorizedRestart
<1>5. CASE processQueue(rest, history)
  <2> HIDE DEF history, rest
  <2>1. /\ current' \in Server \cup {None} /\ queue' \in Seq(QueueEntry)
        /\ since' \in [Server -> Age]
        /\ NobodyWaitsForFreeSlot' /\ QueuedOnce' /\ QueuedOutOfCooldown'
    BY <1>1, <1>2, <1>3, <1>5, ProcessQueueProperties
  <2>2. QED
    BY <1>4, <2>1 DEF Inv, TypeOK
<1>6. CASE current # s /\ queue' = rest /\ since' = history /\ UNCHANGED current
  <2> HIDE DEF history, rest
  <2>1. Queued' = NamesOf(rest)
    BY <1>6 DEF Queued, NamesOf
  <2>2. NobodyWaitsForFreeSlot'
    <3>1. current = None => NamesOf(rest) = {}
      BY <1>2 DEF Inv, NobodyWaitsForFreeSlot, Queued
    <3>2. NamesOf(rest) = {} => rest = <<>>
      BY <1>2, NoNamesNoEntries
    <3>3. QED
      BY <1>6, <3>1, <3>2 DEF NobodyWaitsForFreeSlot
  <2>3. QueuedOnce'
    BY <1>2, <1>6, <2>1 DEF QueuedOnce, Distinct, Inv
  <2>4. QueuedOutOfCooldown'
    <3>1. ASSUME NEW t \in NamesOf(rest) PROVE ~(since'[t] < RestartCooldown)
      BY <1>1, <1>2, <1>3, <1>6, DurationAssumption DEF Age
    <3>2. QED
      BY <2>1, <3>1 DEF QueuedOutOfCooldown, InCooldown
  <2>5. QED
    BY <1>1, <1>2, <1>4, <1>6, <2>2, <2>3, <2>4 DEF Inv, TypeOK
<1>7. QED
  BY <1>5, <1>6 DEF NotifyUnauthorizedRestart

LEMMA CleanupInv ==
    ASSUME Inv, cleanupExpiredEntries
    PROVE  Inv'
<1> USE InvQueue
<1>0. PICK n \in 0..Len(queue) : \E f \in [1..n -> 1..Len(queue)] :
         LET validQueue == [i \in 1..n |-> queue[f[i]]]
         IN  /\ KeepsUnexpired(f)
             /\ \/ Overdue /\ processQueue(validQueue, since)
                \/ /\ ~Overdue
                   /\ queue' = validQueue
                   /\ UNCHANGED <<current, since>>
  BY DEF cleanupExpiredEntries
<1>1. PICK f \in [1..n -> 1..Len(queue)] :
         LET validQueue == [i \in 1..n |-> queue[f[i]]]
         IN  /\ KeepsUnexpired(f)
             /\ \/ Overdue /\ processQueue(validQueue, since)
                \/ /\ ~Overdue
                   /\ queue' = validQueue
                   /\ UNCHANGED <<current, since>>
  BY <1>0
<1> DEFINE kept == [i \in 1..n |-> queue[f[i]]]
<1>2. kept \in Seq(QueueEntry) /\ Distinct(kept) /\ NamesOf(kept) \subseteq Queued
  BY <1>1, UnexpiredProperties DEF Inv
<1>3. /\ closed' \in BOOLEAN /\ due' \in BOOLEAN /\ cleaning' \in BOOLEAN
      /\ pending' \in SUBSET Server
  BY DEF cleanupExpiredEntries, Inv, TypeOK
<1>4. since \in [Server -> Age]
  BY DEF Inv, TypeOK
<1>5. \/ processQueue(kept, since)
      \/ queue' = kept /\ UNCHANGED <<current, since>>
  BY <1>1
<1> HIDE DEF kept
<1>6. CASE processQueue(kept, since)
  <2>1. /\ current' \in Server \cup {None} /\ queue' \in Seq(QueueEntry)
        /\ since' \in [Server -> Age]
        /\ NobodyWaitsForFreeSlot' /\ QueuedOnce' /\ QueuedOutOfCooldown'
    BY <1>2, <1>4, <1>6, ProcessQueueProperties
  <2>2. QED
    BY <1>3, <2>1 DEF Inv, TypeOK
<1>7. CASE queue' = kept /\ UNCHANGED <<current, since>>
  <2>1. Queued' = NamesOf(kept)
    BY <1>7 DEF Queued, NamesOf
  <2>2. NobodyWaitsForFreeSlot'
    <3>1. current = None => NamesOf(kept) = {}
      BY <1>2 DEF Inv, NobodyWaitsForFreeSlot, Queued
    <3>2. NamesOf(kept) = {} => kept = <<>>
      BY <1>2, NoNamesNoEntries
    <3>3. QED
      BY <1>7, <3>1, <3>2 DEF NobodyWaitsForFreeSlot
  <2>3. QueuedOnce'
    BY <1>2, <1>7, <2>1 DEF QueuedOnce, Distinct, Inv
  <2>4. QueuedOutOfCooldown'
    BY <1>2, <1>7, <2>1 DEF QueuedOutOfCooldown, InCooldown, Inv
  <2>5. QED
    BY <1>2, <1>3, <1>7, <2>2, <2>3, <2>4 DEF Inv, TypeOK
<1>8. QED
  BY <1>5, <1>6, <1>7

LEMMA NextInv == Inv /\ [Next]_vars => Inv'
<1> SUFFICES ASSUME Inv, [Next]_vars PROVE Inv'
  OBVIOUS
<1>1. CASE Tick
  BY <1>1, TickInv
<1>2. ASSUME NEW s \in Server, RequestArrives(s) PROVE Inv'
  BY <1>2 DEF RequestArrives, Inv, TypeOK, NobodyWaitsForFreeSlot, QueuedOnce,
              QueuedOutOfCooldown, Queued, InCooldown
<1>3. ASSUME NEW s \in Server, RequestRestart(s) PROVE Inv'
  BY <1>3, RequestRestartInv
<1>4. ASSUME NEW s \in Server, NotifyRestartComplete(s) PROVE Inv'
  BY <1>4, CompleteInv
<1>5. ASSUME NEW s \in Server, NotifyUnauthorizedRestart(s) PROVE Inv'
  BY <1>5, UnauthorizedInv
<1>6. CASE cleanupExpiredEntries
  BY <1>6, CleanupInv
<1>7. CASE Stop
  BY <1>7 DEF Stop, Inv, TypeOK, NobodyWaitsForFreeSlot, QueuedOnce,
              QueuedOutOfCooldown, Queued, InCooldown
<1>8. CASE CleanupReturns
  BY <1>8 DEF CleanupReturns, Inv, TypeOK, NobodyWaitsForFreeSlot, QueuedOnce,
              QueuedOutOfCooldown, Queued, InCooldown
<1>9. CASE UNCHANGED vars
  BY <1>9 DEF vars, Inv, TypeOK, NobodyWaitsForFreeSlot, QueuedOnce,
              QueuedOutOfCooldown, Queued, InCooldown
<1>10. QED
  BY <1>1, <1>2, <1>3, <1>4, <1>5, <1>6, <1>7, <1>8, <1>9 DEF Next

\* The invariant holds of every run, for every number of servers and any
\* durations: nobody waits for a free slot, everybody is queued once and the
\* holder not at all, and whoever is queued is out of its cooldown.
THEOREM RestartInvariant == Spec => []Inv
<1>1. Init => Inv
  BY InitInv
<1>2. Inv /\ [Next]_vars => Inv'
  BY NextInv
<1>3. QED
  BY <1>1, <1>2, PTL DEF Spec

\* The type invariant of the restart manager.
THEOREM RestartTypes == Spec => []TypeOK
<1>1. Inv => TypeOK
  BY DEF Inv
<1>2. QED
  BY <1>1, RestartInvariant, PTL

\* The slot is never free while somebody waits for it.
THEOREM FreeSlotMeansEmptyQueue == Spec => []NobodyWaitsForFreeSlot
<1>1. Inv => NobodyWaitsForFreeSlot
  BY DEF Inv
<1>2. QED
  BY <1>1, RestartInvariant, PTL

\* No server is queued twice, and the holder of the slot is not queued.
THEOREM EverybodyQueuedOnce == Spec => []QueuedOnce
<1>1. Inv => QueuedOnce
  BY DEF Inv
<1>2. QED
  BY <1>1, RestartInvariant, PTL

-----------------------------------------------------------------------------
(* Who gets the slot *)

\* processQueue empties the slot or gives it to a queued server.
LEMMA ProcessQueueStep ==
    ASSUME NEW q \in Seq(QueueEntry), NEW h, processQueue(q, h)
    PROVE  \/ current' = None /\ since' = h
           \/ \E t \in NamesOf(q) : current' = t /\ since' = [h EXCEPT ![t] = 0]
<1>1. CASE q = <<>>
  BY <1>1 DEF processQueue
<1>2. CASE q # <<>>
  <2>1. 1 \in 1..Len(q) /\ Head(q) = q[1]
    BY <1>2, EmptySeq, LenProperties
  <2>2. Head(q).name \in NamesOf(q)
    BY <2>1 DEF NamesOf
  <2>3. QED
    BY <1>2, <2>2 DEF processQueue
<1>3. QED
  BY <1>1, <1>2

\* What any step does to the slot and the history, in the terms of the lock.
LEMMA SlotStep ==
    ASSUME Inv, Next
    PROVE  \/ /\ current' = current
              /\ \A s \in Server : since'[s] >= since[s]
           \/ current # None /\ current' = None /\ since' = since
           \/ \E t \in Server : /\ t # current /\ ~InCooldown(t)
                                /\ current' = t
                                /\ since' = [since EXCEPT ![t] = 0]
           \/ \E s \in Server : /\ current' = IF current = s THEN None ELSE current
                                /\ since' = [since EXCEPT ![s] = 0]
           \/ \E s \in Server : \E t \in Server \ {s} :
                 /\ current = s /\ ~InCooldown(t)
                 /\ current' = t
                 /\ since' = [[since EXCEPT ![s] = 0] EXCEPT ![t] = 0]
<1> USE InvQueue
<1>1. /\ since \in [Server -> Age]
      /\ \A s \in Server : since[s] >= since[s]
      /\ \A t \in Queued : t \in Server /\ t # current /\ ~InCooldown(t)
  BY DurationAssumption DEF Inv, TypeOK, Age, QueuedOnce, QueuedOutOfCooldown
<1>2. CASE Tick
  BY <1>2, OlderInAge DEF Tick, Inv, TypeOK
<1>3. ASSUME NEW s \in Server, RequestArrives(s) \/ Stop \/ CleanupReturns
      PROVE  current' = current /\ since' = since
  BY <1>3 DEF RequestArrives, Stop, CleanupReturns
<1>4. ASSUME NEW s \in Server, RequestRestart(s)
      PROVE  \/ current' = current /\ since' = since
             \/ /\ s # current /\ ~InCooldown(s)
                /\ current' = s
                /\ since' = [since EXCEPT ![s] = 0]
  BY <1>4, NoneAssumption DEF RequestRestart, Locked, Grant, Enqueue, Deny
<1>5. ASSUME NEW s \in Server, NotifyRestartComplete(s)
      PROVE  \/ current # None /\ current' = None /\ since' = since
             \/ \E t \in Queued : current' = t /\ since' = [since EXCEPT ![t] = 0]
  BY <1>5, ProcessQueueStep, NoneAssumption DEF NotifyRestartComplete
<1>6. ASSUME NEW s \in Server, NotifyUnauthorizedRestart(s)
      PROVE  \/ /\ current' = IF current = s THEN None ELSE current
                /\ since' = [since EXCEPT ![s] = 0]
             \/ \E t \in Queued \ {s} :
                   /\ current = s
                   /\ current' = t
                   /\ since' = [[since EXCEPT ![s] = 0] EXCEPT ![t] = 0]
  <2> DEFINE history == [since EXCEPT ![s] = 0]
             rest    == Without(queue, s)
  <2>1. rest \in Seq(QueueEntry) /\ NamesOf(rest) \subseteq Queued \ {s}
    BY WithoutProperties
  <2>2. \/ current = s /\ processQueue(rest, history)
        \/ current # s /\ since' = history /\ current' = current
    BY <1>6 DEF NotifyUnauthorizedRestart
  <2> HIDE DEF rest
  <2>3. CASE current = s /\ processQueue(rest, history)
    BY <2>1, <2>3, ProcessQueueStep
  <2>4. QED
    BY <2>2, <2>3
<1>7. CASE cleanupExpiredEntries
  <2>1. PICK n \in 0..Len(queue) : \E f \in [1..n -> 1..Len(queue)] :
           LET validQueue == [i \in 1..n |-> queue[f[i]]]
           IN  /\ KeepsUnexpired(f)
               /\ \/ Overdue /\ processQueue(validQueue, since)
                  \/ ~Overdue /\ UNCHANGED <<current, since>>
    BY <1>7 DEF cleanupExpiredEntries
  <2>2. PICK f \in [1..n -> 1..Len(queue)] :
           LET validQueue == [i \in 1..n |-> queue[f[i]]]
           IN  /\ KeepsUnexpired(f)
               /\ \/ Overdue /\ processQueue(validQueue, since)
                  \/ ~Overdue /\ UNCHANGED <<current, since>>
    BY <2>1
  <2> DEFINE kept == [i \in 1..n |-> queue[f[i]]]
  <2>3. kept \in Seq(QueueEntry) /\ NamesOf(kept) \subseteq Queued
    BY <2>2, UnexpiredProperties DEF Inv
  <2>4. \/ Overdue /\ processQueue(kept, since)
        \/ UNCHANGED <<current, since>>
    BY <2>2
  <2> HIDE DEF kept
  <2>5. \/ current # None /\ current' = None /\ since' = since
        \/ \E t \in Queued : current' = t /\ since' = [since EXCEPT ![t] = 0]
        \/ UNCHANGED <<current, since>>
    BY <2>3, <2>4, ProcessQueueStep DEF Overdue
  <2>6. QED
    BY <1>1, <2>5
<1>8. CASE \E s \in Server : RequestArrives(s)
  BY <1>1, <1>3, <1>8
<1>9. CASE Stop \/ CleanupReturns
  BY <1>1, <1>9 DEF Stop, CleanupReturns
<1>10. CASE \E s \in Server : RequestRestart(s)
  BY <1>1, <1>4, <1>10
<1>11. CASE \E s \in Server : NotifyRestartComplete(s)
  BY <1>1, <1>5, <1>11
<1>12. CASE \E s \in Server : NotifyUnauthorizedRestart(s)
  BY <1>1, <1>6, <1>12
<1>13. QED
  BY <1>2, <1>7, <1>8, <1>9, <1>10, <1>11, <1>12 DEF Next

\* No server gets the slot during its cooldown, neither by asking nor because
\* its turn in the queue comes.
THEOREM CooldownTheorem == Spec => CooldownRespected
<1>1. ASSUME Inv, Next, current' # current, current' # None
      PROVE  ~InCooldown(current')
  <2>1. \E t \in Server : current' = t /\ ~InCooldown(t)
    BY <1>1, SlotStep
  <2>2. QED
    BY <2>1
<1>2. Inv /\ [Next]_vars
         => [current' # current /\ current' # None => ~InCooldown(current')]_vars
  BY <1>1 DEF vars
<1>3. QED
  BY <1>2, RestartInvariant, PTL DEF Spec, CooldownRespected

-----------------------------------------------------------------------------
(* Who goes first *)

\* g says where in queue q the entries of queue r are from.
TakenInOrder(g, r, q) ==
    /\ g \in [1..Len(r) -> 1..Len(q)]
    /\ \A k, l \in 1..Len(r) : k < l => g[k] < g[l]
    /\ \A k \in 1..Len(r) : r[k].name = q[g[k]].name

OrderKept(r, q) ==
    \A i, j \in 1..Len(q), k, l \in 1..Len(r) :
        (i < j /\ q[i].name = r[k].name /\ q[j].name = r[l].name) => k < l

HeadServed ==
    \A j \in 1..Len(queue) :
        (current' = queue[j].name /\ current # current') =>
           \A i \in 1..(j - 1) : queue[i].name \notin Queued'

LEMMA TakenKeepsOrder ==
    ASSUME NEW q \in Seq(QueueEntry), NEW r \in Seq(QueueEntry), NEW g,
           Distinct(q), TakenInOrder(g, r, q)
    PROVE  OrderKept(r, q)
<1>1. SUFFICES ASSUME NEW i \in 1..Len(q), NEW j \in 1..Len(q),
                      NEW k \in 1..Len(r), NEW l \in 1..Len(r),
                      i < j, q[i].name = r[k].name, q[j].name = r[l].name
               PROVE  k < l
  BY DEF OrderKept
<1>2. g[k] = i /\ g[l] = j
  <2>1. /\ g[k] \in 1..Len(q) /\ g[l] \in 1..Len(q)
        /\ q[g[k]].name = q[i].name /\ q[g[l]].name = q[j].name
    BY <1>1 DEF TakenInOrder
  <2>2. QED
    BY <1>1, <2>1 DEF Distinct
<1>3. ~(l < k) /\ l # k
  BY <1>1, <1>2 DEF TakenInOrder
<1>4. QED
  BY <1>3

LEMMA WithoutInOrder ==
    ASSUME NEW q \in Seq(QueueEntry), NEW s \in Server, Distinct(q)
    PROVE  \E g : TakenInOrder(g, Without(q, s), q)
<1>1. CASE ~ \E i \in 1..Len(q) : q[i].name = s
  <2>1. Without(q, s) = q
    BY <1>1 DEF Without
  <2>2. TakenInOrder([k \in 1..Len(q) |-> k], q, q)
    BY DEF TakenInOrder
  <2>3. QED
    BY <2>1, <2>2
<1>2. CASE \E i \in 1..Len(q) : q[i].name = s
  <2> DEFINE First(i) == /\ q[i].name = s
                         /\ \A j \in 1..(i - 1) : q[j].name # s
             k == CHOOSE i \in 1..Len(q) : First(i)
             g == [j \in 1..(Len(q) - 1) |-> IF j < k THEN j ELSE j + 1]
  <2>1. \E i \in 1..Len(q) : First(i)
    <3>1. PICK i \in 1..Len(q) : q[i].name = s
      BY <1>2
    <3>2. ASSUME NEW j \in 1..(i - 1), q[j].name = s PROVE FALSE
      BY <3>1, <3>2, LenProperties DEF Distinct
    <3>3. QED
      BY <3>1, <3>2
  <2>2. k \in 1..Len(q) /\ Len(q) \in Nat
    BY <2>1
  <2>3. Without(q, s) = RemoveAt(q, k)
    BY <1>2 DEF Without
  <2> HIDE DEF k
  <2>4. /\ Len(RemoveAt(q, k)) = Len(q) - 1
        /\ \A j \in 1..(Len(q) - 1) :
              RemoveAt(q, k)[j] = IF j < k THEN q[j] ELSE q[j + 1]
    BY <2>2, RemoveAtProperties
  <2>5. TakenInOrder(g, RemoveAt(q, k), q)
    BY <2>2, <2>4 DEF TakenInOrder
  <2>6. QED
    BY <2>3, <2>5
<1>3. QED
  BY <1>1, <1>2

\* The slot passes to the head of what is left of the queue.
LEMMA HandOnInOrder ==
    ASSUME Inv, NEW q \in Seq(QueueEntry), NEW g, TakenInOrder(g, q, queue),
           NEW h, processQueue(q, h)
    PROVE  OrderKept(queue', queue) /\ HeadServed
<1> USE InvQueue
<1>1. CASE q = <<>>
  <2>1. queue' = <<>> /\ current' = None
    BY <1>1 DEF processQueue
  <2>2. Len(queue') = 0 /\ Queued' = {}
    BY <2>1 DEF Queued
  <2>3. QED
    BY <2>2 DEF OrderKept, HeadServed
<1>2. CASE q # <<>>
  <2>1. /\ Head(q) = q[1] /\ Len(q) \in Nat /\ Len(q) >= 1
        /\ Tail(q) \in Seq(QueueEntry) /\ Len(Tail(q)) = Len(q) - 1
        /\ \A i \in 1..Len(Tail(q)) : Tail(q)[i] = q[i + 1]
    BY <1>2
  <2>2. queue' = Tail(q) /\ current' = q[1].name
    BY <1>2, <2>1 DEF processQueue
  <2>3. /\ Len(queue') = Len(q) - 1 /\ queue' \in Seq(QueueEntry)
        /\ \A k \in 1..(Len(q) - 1) : queue'[k] = q[k + 1] /\ k + 1 \in 1..Len(q)
    BY <2>1, <2>2
  <2>4. /\ g \in [1..Len(q) -> 1..Len(queue)]
        /\ \A k, l \in 1..Len(q) : k < l => g[k] < g[l]
        /\ \A k \in 1..Len(q) : q[k].name = queue[g[k]].name
    BY DEF TakenInOrder
  <2>5. OrderKept(queue', queue)
    <3> DEFINE f == [k \in 1..(Len(q) - 1) |-> g[k + 1]]
    <3>1. f \in [1..(Len(q) - 1) -> 1..Len(queue)]
      BY <2>3, <2>4
    <3>2. \A k, l \in 1..(Len(q) - 1) : k < l => f[k] < f[l]
      BY <2>3, <2>4
    <3>3. \A k \in 1..(Len(q) - 1) : queue'[k].name = queue[f[k]].name
      BY <2>3, <2>4
    <3> HIDE DEF f
    <3>4. TakenInOrder(f, queue', queue)
      BY <2>3, <3>1, <3>2, <3>3 DEF TakenInOrder
    <3>5. QED
      BY <2>3, <3>4, TakenKeepsOrder
  <2>6. HeadServed
    <3>1. SUFFICES ASSUME NEW j \in 1..Len(queue), current' = queue[j].name,
                          NEW i \in 1..(j - 1), NEW k \in 1..Len(queue'),
                          queue[i].name = queue'[k].name
                   PROVE  FALSE
      BY DEF HeadServed, Queued
    <3>2. 1 \in 1..Len(q) /\ k + 1 \in 1..Len(q) /\ 1 < k + 1 /\ i \in 1..Len(queue)
      BY <2>1, <2>3
    <3>3. /\ g[1] \in 1..Len(queue) /\ queue[g[1]].name = queue[j].name
          /\ g[k + 1] \in 1..Len(queue) /\ queue[g[k + 1]].name = queue[i].name
      <4>1. g[1] \in 1..Len(queue) /\ queue[g[1]].name = queue[j].name
        BY <2>2, <2>4, <3>1, <3>2
      <4>2. k \in 1..(Len(q) - 1) /\ queue'[k] = q[k + 1]
        BY <2>3
      <4>3. g[k + 1] \in 1..Len(queue) /\ queue[g[k + 1]].name = queue[i].name
        BY <2>4, <3>1, <3>2, <4>2
      <4>4. QED
        BY <4>1, <4>3
    <3>4. Distinct(queue)
      OBVIOUS
    <3>5. g[1] = j /\ g[k + 1] = i
      BY <3>1, <3>2, <3>3, <3>4 DEF Distinct
    <3>6. g[1] < g[k + 1]
      BY <2>4, <3>2
    <3>7. QED
      BY <3>1, <3>5, <3>6
  <2>7. QED
    BY <2>5, <2>6
<1>3. QED
  BY <1>1, <1>2

\* Requests go to the end of the queue, and whatever leaves it, by expiry, by an
\* unauthorized restart or for the slot, leaves the rest in its order.
THEOREM NobodyOvertakes == Spec => NoOvertaking
<1> USE InvQueue
<1>1. ASSUME Inv, queue' \in Seq(QueueEntry), NEW g, TakenInOrder(g, queue', queue),
             UNCHANGED current
      PROVE  OrderKept(queue', queue) /\ HeadServed
  BY <1>1, TakenKeepsOrder DEF HeadServed
<1>2. ASSUME Inv, UNCHANGED <<current, queue>>
      PROVE  OrderKept(queue', queue) /\ HeadServed
  <2>1. TakenInOrder([k \in 1..Len(queue) |-> k], queue', queue)
    BY <1>2 DEF TakenInOrder
  <2>2. QED
    BY <1>1, <1>2, <2>1
<1>3. ASSUME Inv, Tick
      PROVE  OrderKept(queue', queue) /\ HeadServed
  <2>1. Inv'
    BY <1>3, TickInv
  <2>2. /\ Len(queue') = Len(queue)
        /\ \A i \in 1..Len(queue) : queue'[i].name = queue[i].name
    BY <1>3 DEF Tick
  <2>3. TakenInOrder([k \in 1..Len(queue) |-> k], queue', queue)
    BY <1>3, <2>2 DEF TakenInOrder
  <2>4. QED
    BY <1>1, <1>3, <2>1, <2>3 DEF Inv, TypeOK, Tick
<1>4. ASSUME Inv, NEW s \in Server, RequestRestart(s)
      PROVE  OrderKept(queue', queue) /\ HeadServed
  <2>1. CASE Deny
    BY <1>2, <1>4, <2>1 DEF Deny
  <2>2. CASE current = None /\ Grant(s)
    <3>1. queue' = queue /\ Len(queue) = 0
      BY <1>4, <2>2 DEF Grant, Inv, NobodyWaitsForFreeSlot
    <3>2. QED
      BY <3>1 DEF OrderKept, HeadServed
  <2>3. CASE s \notin Queued /\ Enqueue(s)
    <3>1. /\ Len(queue') = Len(queue) + 1 /\ Len(queue) \in Nat
          /\ \A k \in 1..Len(queue) : queue'[k] = queue[k]
          /\ queue'[Len(queue) + 1].name = s /\ UNCHANGED current
      BY <1>4, <2>3 DEF Enqueue
    <3>2. OrderKept(queue', queue)
      <4>1. SUFFICES ASSUME NEW i \in 1..Len(queue), NEW j \in 1..Len(queue),
                            NEW k \in 1..Len(queue'), NEW l \in 1..Len(queue'),
                            i < j, queue[i].name = queue'[k].name,
                            queue[j].name = queue'[l].name
                     PROVE  k < l
        BY DEF OrderKept
      <4>2. queue[i].name # s /\ queue[j].name # s
        BY <2>3 DEF Queued
      <4>3. k \in 1..Len(queue) /\ l \in 1..Len(queue)
        BY <3>1, <4>1, <4>2
      <4>4. k = i /\ l = j
        BY <1>4, <3>1, <4>1, <4>3 DEF Distinct
      <4>5. QED
        BY <4>1, <4>4
    <3>3. QED
      BY <3>1, <3>2 DEF HeadServed
  <2>4. QED
    BY <1>4, <2>1, <2>2, <2>3 DEF RequestRestart
<1>5. ASSUME Inv, NEW s \in Server, NotifyRestartComplete(s)
      PROVE  OrderKept(queue', queue) /\ HeadServed
  <2>1. TakenInOrder([k \in 1..Len(queue) |-> k], queue, queue)
    BY <1>5 DEF TakenInOrder
  <2>2. QED
    BY <1>5, <2>1, HandOnInOrder DEF NotifyRestartComplete
<1>6. ASSUME Inv, NEW s \in Server, NotifyUnauthorizedRestart(s)
      PROVE  OrderKept(queue', queue) /\ HeadServed
  <2> DEFINE rest == Without(queue, s)
  <2>1. rest \in Seq(QueueEntry)
    BY <1>6, WithoutProperties
  <2>2. PICK g : TakenInOrder(g, rest, queue)
    BY <1>6, WithoutInOrder
  <2>3. \/ processQueue(rest, [since EXCEPT ![s] = 0])
        \/ queue' = rest /\ UNCHANGED current
    BY <1>6 DEF NotifyUnauthorizedRestart
  <2> HIDE DEF rest
  <2>4. QED
    BY <1>1, <1>6, <2>1, <2>2, <2>3, HandOnInOrder
<1>7. ASSUME Inv, cleanupExpiredEntries
      PROVE  OrderKept(queue', queue) /\ HeadServed
  <2>1. PICK n \in 0..Len(queue) : \E f \in [1..n -> 1..Len(queue)] :
           LET validQueue == [i \in 1..n |-> queue[f[i]]]
           IN  /\ KeepsUnexpired(f)
               /\ \/ processQueue(validQueue, since)
                  \/ queue' = validQueue /\ UNCHANGED current
    BY <1>7 DEF cleanupExpiredEntries
  <2>2. PICK f \in [1..n -> 1..Len(queue)] :
           LET validQueue == [i \in 1..n |-> queue[f[i]]]
           IN  /\ KeepsUnexpired(f)
               /\ \/ processQueue(validQueue, since)
                  \/ queue' = validQueue /\ UNCHANGED current
    BY <2>1
  <2> DEFINE kept == [i \in 1..n |-> queue[f[i]]]
  <2>3. kept \in Seq(QueueEntry)
    BY <1>7, <2>2, UnexpiredProperties DEF Inv
  <2>4. n \in Nat /\ Len(kept) = n
    BY <1>7, <2>3
  <2>5. TakenInOrder(f, kept, queue)
    BY <2>2, <2>4 DEF TakenInOrder, KeepsUnexpired
  <2>6. \/ processQueue(kept, since)
        \/ queue' = kept /\ UNCHANGED current
    BY <2>2
  <2> HIDE DEF kept
  <2>7. QED
    BY <1>1, <1>7, <2>3, <2>5, <2>6, HandOnInOrder
<1>8. ASSUME Inv, Next
      PROVE  OrderKept(queue', queue) /\ HeadServed
  <2>1. CASE Stop \/ CleanupReturns \/ \E s \in Server : RequestArrives(s)
    BY <1>2, <1>8, <2>1 DEF Stop, CleanupReturns, RequestArrives
  <2>2. QED
    BY <1>3, <1>4, <1>5, <1>6, <1>7, <1>8, <2>1 DEF Next
<1> DEFINE Fair == OrderKept(queue', queue) /\ HeadServed
<1>9. Inv /\ [Next]_vars => [Fair]_vars
  BY <1>8
<1> HIDE DEF Fair
<1>10. Spec => [][Fair]_vars
  BY <1>9, RestartInvariant, PTL DEF Spec
<1>11. [Fair]_vars =>
         [/\ \A i, j \in 1..Len(queue), k, l \in 1..Len(queue') :
                (i < j /\ queue[i].name = queue'[k].name /\ queue[j].name = queue'[l].name)
                    => k < l
          /\ \A j \in 1..Len(queue) :
                (current' = queue[j].name /\ current # current') =>
                   \A i \in 1..(j - 1) : queue[i].name \notin Queued']_vars
  BY DEF Fair, OrderKept, HeadServed
<1>12. QED
  BY <1>10, <1>11, PTL DEF NoOvertaking

-----------------------------------------------------------------------------
(* Refinement *)

Cooling == {s \in Server : InCooldown(s)}

\* The restart manager, with its queue, its clock and its goroutines, is a lock
\* with a cooling down set, provided there is a cooldown at all.
THEOREM RestartImplementsLock ==
    ASSUME RestartCooldown > 0
    PROVE  Spec => ImplementsLock
<1>1. Init => Lock!LockInit
  BY DurationAssumption DEF Init, Lock!LockInit, InCooldown
<1>2. ASSUME Inv, Next
      PROVE  Lock!LockNext \/ UNCHANGED <<current, Cooling>>
  <2>1. since \in [Server -> Age] /\ since' \in [Server -> Age]
    BY <1>2, NextInv DEF Inv, TypeOK
  <2>2. \A x, y \in Age : x >= y /\ x < RestartCooldown => y < RestartCooldown
    BY DurationAssumption DEF Age
  <2>3. ASSUME NEW s \in Server, since' = [since EXCEPT ![s] = 0]
        PROVE  Cooling' = Cooling \cup {s}
    BY <2>1, <2>3, DurationAssumption DEF Cooling, InCooldown
  <2>4. CASE current' = current /\ \A s \in Server : since'[s] >= since[s]
    <3>1. Cooling' \subseteq Cooling
      BY <2>1, <2>2, <2>4 DEF Cooling, InCooldown
    <3>2. QED
      BY <2>4, <3>1 DEF Lock!LockNext, Lock!CoolDown, Cooling
  <2>5. CASE current # None /\ current' = None /\ since' = since
    BY <2>5 DEF Lock!LockNext, Lock!Release, InCooldown
  <2>6. ASSUME NEW t \in Server, t # current, ~InCooldown(t), current' = t,
               since' = [since EXCEPT ![t] = 0]
        PROVE  Lock!LockNext
    <3>1. t \notin Cooling /\ Cooling' = Cooling \cup {t}
      BY <2>3, <2>6 DEF Cooling
    <3>2. Lock!Acquire(t)
      BY <2>6, <3>1 DEF Lock!Acquire, Cooling
    <3>3. QED
      BY <3>2 DEF Lock!LockNext
  <2>7. ASSUME NEW s \in Server, current' = (IF current = s THEN None ELSE current),
               since' = [since EXCEPT ![s] = 0]
        PROVE  Lock!LockNext
    <3>1. Cooling' = Cooling \cup {s}
      BY <2>3, <2>7
    <3>2. Lock!Report(s)
      BY <2>7, <3>1 DEF Lock!Report, Cooling
    <3>3. QED
      BY <3>2 DEF Lock!LockNext
  <2>8. ASSUME NEW s \in Server, NEW t \in Server \ {s},
               current = s, ~InCooldown(t), current' = t,
               since' = [[since EXCEPT ![s] = 0] EXCEPT ![t] = 0]
        PROVE  Lock!LockNext
    <3>1. Cooling' = Cooling \cup {s, t}
      BY <2>1, <2>8, DurationAssumption DEF Cooling, InCooldown
    <3>2. t \in Server \ (Cooling \cup {s})
      BY <2>8 DEF Cooling
    <3>3. Lock!Report(s)
      BY <2>8, <3>1, <3>2 DEF Lock!Report, Cooling
    <3>4. QED
      BY <3>3 DEF Lock!LockNext
  <2>9. QED
    BY <1>2, <2>4, <2>5, <2>6, <2>7, <2>8, SlotStep
<1>3. UNCHANGED vars => UNCHANGED Lock!lockVars
  BY DEF vars, Lock!lockVars, InCooldown
<1>4. Inv /\ [Next]_vars => [Lock!LockNext]_(Lock!lockVars)
  BY <1>2, <1>3 DEF Lock!lockVars, Cooling
<1>5. QED
  BY <1>1, <1>4, RestartInvariant, PTL DEF Spec, ImplementsLock, Lock!LockSpec

-----------------------------------------------------------------------------
(* The fleet: its invariant *)

\* The time that polls and lost responses can use up of a slot, and a restart
\* after that; nothing less keeps the takeover away from a restart.
FleetTiming == PollEvery * (1 + MaxLosses) + DownTime < MaxRestartTime

\* The permission of incarnation p is on its way to s, or s restarts with it, and
\* the hub knows which restart of s it is.
HoldsPermit(s, p) ==
    s \notin confused /\ (reply[s] = p \/ (mode[s] = "down" /\ permit[s] = p))

Spent == PollEvery * losses

\* What the hub knows of a restart that it is not confused about: the slot is held
\* for it, and since when.
SlotFits(s) ==
    /\ (reply[s] = life \/ permit[s] = life) => current = s
    /\ (mode[s] = "asking" /\ current = s)
          => since[s] <= Spent + (IF reply[s] = life \/ s \in pending THEN PollEvery ELSE timer[s])
    /\ permit[s] = life => since[s] <= Spent + PollEvery + timer[s]

ServerOK(s) ==
    /\ reply[s] # 0 => mode[s] = "asking"
    /\ permit[s] # 0 => mode[s] = "down"
    /\ mode[s] = "asking" => timer[s] <= PollEvery
    /\ mode[s] = "down" => timer[s] <= DownTime
    /\ (reply[s] # 0 \/ permit[s] # 0) => s \notin pending /\ s \notin Queued
    /\ s \notin confused => SlotFits(s)

OnePerPermit ==
    \A p \in 1..life : \A s, t \in Server : HoldsPermit(s, p) /\ HoldsPermit(t, p) => s = t

FleetInv ==
    /\ Inv
    /\ FleetTypeOK
    /\ \A s \in Server : ServerOK(s)
    /\ OnePerPermit

-----------------------------------------------------------------------------
(* The fleet: what steps have in common *)

LEMMA TimesNat ==
    ASSUME NEW a \in Nat, NEW b \in Nat
    PROVE  a * b \in Nat
  OBVIOUS

LEMMA TimesMonotone ==
    ASSUME NEW a \in Nat, NEW b \in Nat, NEW c \in Nat, b <= c
    PROVE  a * b \in Nat /\ a * b <= a * c /\ a * (b + 1) = a * b + a
<1>1. PICK d \in Nat : c = b + d
  <2>1. c - b \in Nat /\ c = b + (c - b)
    OBVIOUS
  <2>2. QED
    BY <2>1
<1>2. a * c = a * b + a * d /\ a * d \in Nat /\ a * b \in Nat
  BY <1>1
<1>3. QED
  BY <1>2

LEMMA EarlierLife ==
    ASSUME NEW l \in Nat, NEW m \in {l, l + 1}, NEW p \in 1..m, p # m
    PROVE  p \in 1..(m - 1) /\ p \in 1..l
  OBVIOUS

\* The ranges that the leaves below keep needing.
LEMMA FleetRanges ==
    ASSUME FleetInv, NEW s \in Server
    PROVE  /\ life \in Nat /\ life >= 1 /\ losses \in Nat /\ losses <= MaxLosses
           /\ Spent \in Nat /\ PollEvery \in Nat \ {0} /\ DownTime \in Nat /\ MaxLosses \in Nat
           /\ since[s] \in Nat /\ timer[s] \in Nat /\ ServerOK(s)
           /\ mode[s] \in {"up", "asking", "down"}
<1>1. /\ life \in Nat /\ life >= 1 /\ losses \in Nat /\ losses <= MaxLosses
      /\ PollEvery \in Nat \ {0} /\ DownTime \in Nat /\ MaxLosses \in Nat
      /\ timer[s] \in Nat /\ ServerOK(s)
      /\ mode[s] \in {"up", "asking", "down"}
  BY FleetAssumption DEF FleetInv, FleetTypeOK
<1>2. since[s] \in Nat
  BY DurationAssumption DEF FleetInv, Inv, TypeOK, Age
<1>3. Spent \in Nat
  BY <1>1, TimesMonotone DEF Spent
<1>4. QED
  BY <1>1, <1>2, <1>3

\* Nothing happens to server t itself, whatever becomes of its notifications.
Quiet(t) ==
    /\ mode'[t] = mode[t] /\ timer'[t] = timer[t] /\ reply'[t] = reply[t]
    /\ permit'[t] = permit[t]

\* What a step of the manager may do to server t without harm: drop it from
\* the queue or give it the slot, but not take the slot from a permission.  The
\* slot it is given makes up for whatever confused the hub before.
Passes(t) ==
    /\ t \in pending' <=> t \in pending
    /\ t \in Queued' => t \in Queued
    /\ current' = t => \/ current = t /\ since'[t] = since[t]
                       \/ t \in Queued /\ since'[t] = 0
    /\ since'[t] <= since[t]
    /\ t \notin confused /\ (reply[t] = life \/ permit[t] = life) => current' = current
    /\ t \in confused /\ t \notin confused' => t \in Queued /\ since'[t] = 0

\* A step that gives nobody the slot and takes it from nobody.
LEMMA StillPasses ==
    ASSUME FleetInv, NEW t \in Server, UNCHANGED <<current, pending>>,
           confused \subseteq confused', Queued' \subseteq Queued, since'[t] = since[t]
    PROVE  Passes(t)
<1>1. since[t] <= since[t]
  BY FleetRanges
<1>2. QED
  BY <1>1 DEF Passes

LEMMA UndisturbedOK ==
    ASSUME FleetInv, NEW t \in Server, Quiet(t), Passes(t),
           life' = life, losses' \in Nat, losses <= losses', since'[t] \in Nat
    PROVE  /\ ServerOK(t)'
           /\ \A p \in 1..life : HoldsPermit(t, p)' => HoldsPermit(t, p)
<1>1. /\ life \in Nat /\ life >= 1 /\ Spent \in Nat /\ PollEvery \in Nat
      /\ since[t] \in Nat /\ timer[t] \in Nat /\ ServerOK(t)
  BY FleetRanges
<1>2. Spent' \in Nat /\ Spent <= Spent'
  <2>1. losses \in Nat
    BY FleetRanges
  <2>2. PICK c \in Nat : c = losses' /\ losses <= c
    OBVIOUS
  <2>3. PollEvery * losses <= PollEvery * c /\ PollEvery * c \in Nat
    <3>1. PollEvery * losses <= PollEvery * c
      BY <1>1, <2>1, <2>2, TimesMonotone
    <3>2. PollEvery * c \in Nat
      BY <1>1, <2>2, TimesNat
    <3>3. QED
      BY <3>1, <3>2
  <2>4. QED
    BY <2>2, <2>3 DEF Spent
<1>3. /\ reply'[t] # 0 => mode'[t] = "asking"
      /\ permit'[t] # 0 => mode'[t] = "down"
      /\ mode'[t] = "asking" => timer'[t] <= PollEvery
      /\ mode'[t] = "down" => timer'[t] <= DownTime
      /\ (reply'[t] # 0 \/ permit'[t] # 0) => t \notin pending' /\ t \notin Queued'
  BY <1>1 DEF ServerOK, Quiet, Passes
<1>4. CASE t \in confused /\ t \notin confused'
  <2>1. reply'[t] = 0 /\ permit'[t] = 0 /\ since'[t] = 0 /\ timer'[t] \in Nat
    BY <1>1, <1>4 DEF ServerOK, Quiet, Passes
  <2>2. SlotFits(t)'
    BY <1>1, <1>2, <2>1 DEF SlotFits
  <2>3. \A p \in 1..life : ~HoldsPermit(t, p)'
    BY <1>1, <2>1 DEF HoldsPermit
  <2>4. QED
    BY <1>3, <2>2, <2>3 DEF ServerOK
<1>5. CASE t \in confused /\ t \in confused'
  BY <1>3, <1>5 DEF ServerOK, HoldsPermit
<1>6. CASE t \notin confused
  <2>1. SlotFits(t)
    BY <1>1, <1>6 DEF ServerOK
  <2>2. (reply'[t] = life' \/ permit'[t] = life') => current' = t
    BY <1>6, <2>1 DEF SlotFits, Quiet, Passes
  <2>3. (mode'[t] = "asking" /\ current' = t)
         => since'[t] <= Spent' + (IF reply'[t] = life' \/ t \in pending'
                                  THEN PollEvery ELSE timer'[t])
    <3>1. CASE current = t /\ since'[t] = since[t]
      BY <1>1, <1>2, <2>1, <3>1 DEF SlotFits, Quiet, Passes
    <3>2. CASE since'[t] = 0
      BY <1>1, <1>2, <3>2 DEF Quiet
    <3>3. QED
      BY <3>1, <3>2 DEF Passes
  <2>4. permit'[t] = life' => since'[t] <= Spent' + PollEvery + timer'[t]
    BY <1>1, <1>2, <2>1 DEF SlotFits, Quiet, Passes
  <2>5. SlotFits(t)'
    BY <2>2, <2>3, <2>4 DEF SlotFits
  <2>6. QED
    BY <1>3, <1>6, <2>5 DEF ServerOK, HoldsPermit, Quiet
<1>7. QED
  BY <1>4, <1>5, <1>6

\* No step but a response gives out a permission, and a response only to the
\* server that holds the slot.
LEMMA PermitsStayUnique ==
    ASSUME FleetInv, \A s \in Server : ServerOK(s)', life' \in {life, life + 1},
           \A s \in Server : \A p \in 1..(life' - 1) : HoldsPermit(s, p)' => HoldsPermit(s, p),
           FleetTypeOK'
    PROVE  OnePerPermit'
<1>1. SUFFICES ASSUME NEW p \in 1..life', NEW s \in Server, NEW t \in Server,
                      HoldsPermit(s, p)', HoldsPermit(t, p)'
               PROVE  s = t
  BY DEF OnePerPermit
<1>2. life \in Nat /\ life >= 1
  BY FleetAssumption DEF FleetInv, FleetTypeOK
<1>3. CASE p = life'
  <2>1. \A u \in Server : HoldsPermit(u, p)' => current' = u
    BY <1>3 DEF ServerOK, SlotFits, HoldsPermit
  <2>2. QED
    BY <1>1, <2>1
<1>4. CASE p # life'
  <2>1. p \in 1..(life' - 1) /\ p \in 1..life
    BY <1>1, <1>2, <1>4, EarlierLife
  <2>2. HoldsPermit(s, p) /\ HoldsPermit(t, p)
    BY <1>1, <2>1
  <2>3. QED
    BY <2>1, <2>2 DEF FleetInv, OnePerPermit
<1>5. QED
  BY <1>3, <1>4

\* Handing on the slot takes names from the queue only.
LEMMA QueueShrinks ==
    ASSUME NEW q \in Seq(QueueEntry), NEW h, processQueue(q, h)
    PROVE  Queued' \subseteq NamesOf(q)
<1>1. CASE q = <<>> /\ queue' = q
  BY <1>1 DEF Queued
<1>2. CASE q # <<>> /\ queue' = Tail(q)
  <2>1. /\ Len(q) \in Nat /\ Len(Tail(q)) = Len(q) - 1
        /\ \A i \in 1..Len(Tail(q)) : Tail(q)[i] = q[i + 1]
    BY <1>2
  <2>2. ASSUME NEW i \in 1..Len(queue') PROVE queue'[i].name \in NamesOf(q)
    <3>1. queue'[i] = q[i + 1] /\ i + 1 \in 1..Len(q)
      BY <1>2, <2>1
    <3>2. QED
      BY <3>1 DEF NamesOf
  <2>3. QED
    BY <2>2 DEF Queued
<1>3. QED
  BY <1>1, <1>2 DEF processQueue

\* The slot is handed on: only to somebody who was queued.
LEMMA HandOnPasses ==
    ASSUME FleetInv, NEW q \in Seq(QueueEntry), NamesOf(q) \subseteq Queued,
           NEW h \in [Server -> Age], processQueue(q, h), pending' = pending,
           NEW t \in Server, h[t] <= since[t],
           t \in confused \/ (reply[t] # life /\ permit[t] # life),
           confused \ Granted \subseteq confused'
    PROVE  Passes(t) /\ Queued' \subseteq NamesOf(q) /\ (since'[t] \in {0, h[t]})
           /\ (current' = t => t \in NamesOf(q))
<1>1. Queued' \subseteq NamesOf(q)
  BY QueueShrinks
<1>2. \/ current' = None /\ since' = h
      \/ \E u \in NamesOf(q) : current' = u /\ since' = [h EXCEPT ![u] = 0]
  BY ProcessQueueStep
<1>3. since[t] \in Nat /\ h[t] \in Nat
  BY FleetRanges, DurationAssumption DEF Age
<1>4. /\ since'[t] \in {0, h[t]} /\ (current' = t => t \in NamesOf(q))
      /\ (current' = t => since'[t] = 0)
  BY <1>2, NoneAssumption
<1>5. since'[t] <= since[t]
  BY <1>3, <1>4
<1>6. QED
  BY <1>1, <1>4, <1>5 DEF Passes, Granted

\* What a step within a life of the hub has to show.
LEMMA FleetStep ==
    ASSUME FleetInv, Inv', life' = life, losses' \in 0..MaxLosses,
           mode' \in [Server -> {"up", "asking", "down"}], timer' \in [Server -> Nat],
           reply' \in [Server -> 0..life], permit' \in [Server -> 0..life],
           notices' \in [Server -> SUBSET {"complete", "report"}], confused' \in SUBSET Server,
           \A t \in Server : ServerOK(t)',
           \A t \in Server : \A p \in 1..(life - 1) : HoldsPermit(t, p)' => HoldsPermit(t, p)
    PROVE  FleetInv'
<1>1. FleetTypeOK'
  BY DEF FleetInv, FleetTypeOK, Inv
<1>2. OnePerPermit'
  BY <1>1, PermitsStayUnique
<1>3. QED
  BY <1>1, <1>2 DEF FleetInv

\* The same for a step that concerns one server.
LEMMA OneServerStep ==
    ASSUME FleetInv, NEW s \in Server, Inv', life' = life,
           losses' \in 0..MaxLosses, losses <= losses',
           mode' \in [Server -> {"up", "asking", "down"}], timer' \in [Server -> Nat],
           reply' \in [Server -> 0..life], permit' \in [Server -> 0..life],
           notices' \in [Server -> SUBSET {"complete", "report"}], confused' \in SUBSET Server,
           \A t \in Server : t # s => Quiet(t) /\ Passes(t),
           \A p \in 1..(life - 1) : HoldsPermit(s, p)' => HoldsPermit(s, p),
           ServerOK(s)'
    PROVE  FleetInv'
<1>1. ASSUME NEW t \in Server, t # s
      PROVE  ServerOK(t)' /\ \A p \in 1..life : HoldsPermit(t, p)' => HoldsPermit(t, p)
  <2>1. Quiet(t) /\ Passes(t)
    BY <1>1
  <2>2. since'[t] \in Nat /\ losses' \in Nat
    BY DurationAssumption, FleetAssumption DEF Inv, TypeOK, Age
  <2>3. QED
    BY <2>1, <2>2, UndisturbedOK
<1>2. \A t \in Server : ServerOK(t)'
  BY <1>1
<1>3. \A t \in Server : \A p \in 1..(life - 1) : HoldsPermit(t, p)' => HoldsPermit(t, p)
  <2>1. \A p \in 1..(life - 1) : p \in 1..life
    BY FleetRanges
  <2>2. QED
    BY <1>1, <2>1
<1>4. QED
  BY <1>2, <1>3, FleetStep

\* A step of one server that leaves the manager alone.
LEMMA OwnStep ==
    ASSUME FleetInv, NEW s \in Server, UNCHANGED managerVars, life' = life,
           losses' \in 0..MaxLosses, losses <= losses',
           mode' \in [Server -> {"up", "asking", "down"}], timer' \in [Server -> Nat],
           reply' \in [Server -> 0..life], permit' \in [Server -> 0..life],
           notices' \in [Server -> SUBSET {"complete", "report"}], confused' \in SUBSET Server,
           \A t \in Server : t # s => Quiet(t) /\ (t \in confused' <=> t \in confused),
           \A p \in 1..life : HoldsPermit(s, p)' => HoldsPermit(s, p),
           ServerOK(s)'
    PROVE  FleetInv'
<1>1. Inv'
  BY NextInv DEF managerVars, FleetInv
<1>2. ASSUME NEW t \in Server, t # s PROVE Passes(t)
  <2>1. since[t] <= since[t]
    BY FleetRanges
  <2>2. QED
    BY <1>2, <2>1 DEF Passes, managerVars, vars, Queued
<1>3. \A p \in 1..(life - 1) : p \in 1..life
  BY FleetAssumption DEF FleetInv, FleetTypeOK
<1>4. QED
  BY <1>1, <1>2, <1>3, OneServerStep

-----------------------------------------------------------------------------
(* The fleet: the steps of the servers *)

\* The types that a step finds and mostly leaves.
LEMMA FleetTypes ==
    ASSUME FleetInv
    PROVE  /\ mode \in [Server -> {"up", "asking", "down"}] /\ timer \in [Server -> Nat]
           /\ reply \in [Server -> 0..life] /\ permit \in [Server -> 0..life]
           /\ notices \in [Server -> SUBSET {"complete", "report"}]
           /\ confused \in SUBSET Server
           /\ losses \in 0..MaxLosses /\ losses <= losses
           /\ since \in [Server -> Age] /\ Inv
  BY FleetAssumption DEF FleetInv, FleetTypeOK, Inv, TypeOK

\* Whoever asks with the slot of an earlier restart confuses the hub.
LEMMA AskKeeps ==
    ASSUME FleetInv, NEW s \in Server, Ask(s)
    PROVE  FleetInv'
<1>1. /\ mode[s] = "up" /\ ServerOK(s) /\ life \in Nat /\ life >= 1 /\ PollEvery \in Nat
  BY FleetRanges DEF Ask
<1>2. /\ UNCHANGED managerVars /\ UNCHANGED <<reply, permit, notices, life, losses>>
      /\ mode' = [mode EXCEPT ![s] = "asking"] /\ timer' = [timer EXCEPT ![s] = PollEvery]
      /\ confused' = IF current = s THEN confused \cup {s} ELSE confused
  BY DEF Ask
<1>3. UNCHANGED <<current, queue, since, pending>> /\ UNCHANGED <<Queued, Spent>>
  BY <1>2 DEF managerVars, vars, Queued, Spent
<1>4. /\ mode' \in [Server -> {"up", "asking", "down"}] /\ timer' \in [Server -> Nat]
      /\ mode'[s] = "asking" /\ timer'[s] = PollEvery /\ confused' \in SUBSET Server
      /\ \A t \in Server : t # s => Quiet(t) /\ (t \in confused' <=> t \in confused)
  BY <1>1, <1>2, FleetTypes DEF Quiet
<1>5. reply[s] = 0 /\ permit[s] = 0
  BY <1>1 DEF ServerOK
<1>6. s \notin confused' => current # s
  BY <1>2
<1>7. ServerOK(s)'
  BY <1>1, <1>2, <1>3, <1>4, <1>5, <1>6 DEF ServerOK, SlotFits
<1>8. \A p \in 1..life : HoldsPermit(s, p)' => HoldsPermit(s, p)
  BY <1>2, <1>4, <1>5 DEF HoldsPermit
<1>9. QED
  BY <1>2, <1>4, <1>7, <1>8, FleetTypes, OwnStep

\* With an Allow the slot is held, and since when; without, nothing is claimed.
LEMMA GoDownKeeps ==
    ASSUME FleetInv, NEW s \in Server, mode[s] = "asking", NEW p \in {0, reply[s]},
           GoDown(s, p), UNCHANGED managerVars, UNCHANGED <<notices, life, losses, confused>>
    PROVE  FleetInv'
<1>1. /\ ServerOK(s) /\ life \in Nat /\ life >= 1 /\ Spent \in Nat /\ PollEvery \in Nat
      /\ DownTime \in Nat /\ since[s] \in Nat
  BY FleetRanges DEF ServerOK
<1>2. UNCHANGED <<current, queue, since, pending>> /\ UNCHANGED <<Queued, Spent>>
  BY DEF managerVars, vars, Queued, Spent
<1>3. p \in 0..life /\ 0 \in 0..life /\ 0 \in Nat
  BY <1>1, FleetTypes
<1>4. /\ mode' \in [Server -> {"up", "asking", "down"}] /\ timer' \in [Server -> Nat]
      /\ reply' \in [Server -> 0..life] /\ permit' \in [Server -> 0..life]
      /\ mode'[s] = "down" /\ timer'[s] = 0 /\ reply'[s] = 0 /\ permit'[s] = p
      /\ \A t \in Server : t # s => Quiet(t) /\ (t \in confused' <=> t \in confused)
  BY <1>3, FleetTypes DEF GoDown, Quiet
<1>5. s \notin confused /\ p = life => current = s /\ since[s] <= Spent + PollEvery
  BY <1>1 DEF ServerOK, SlotFits
<1>6. p # 0 => s \notin pending /\ s \notin Queued
  BY <1>1 DEF ServerOK
<1>7. ServerOK(s)'
  BY <1>1, <1>2, <1>4, <1>5, <1>6 DEF ServerOK, SlotFits
<1>8. \A q \in 1..life : HoldsPermit(s, q)' => HoldsPermit(s, q)
  BY <1>4 DEF HoldsPermit
<1>9. QED
  BY <1>4, <1>7, <1>8, FleetTypes, OwnStep

\* A response that gets lost is paid for by Spent.
LEMMA LoseReplyKeeps ==
    ASSUME FleetInv, NEW s \in Server, LoseReply(s)
    PROVE  FleetInv'
<1>1. /\ ServerOK(s) /\ life \in Nat /\ life >= 1 /\ Spent \in Nat /\ PollEvery \in Nat
      /\ since[s] \in Nat /\ timer[s] \in Nat /\ reply[s] # 0 /\ mode[s] = "asking"
      /\ losses \in Nat /\ MaxLosses \in Nat
  BY FleetRanges DEF LoseReply, ServerOK
<1>2. /\ UNCHANGED managerVars /\ UNCHANGED <<mode, timer, permit, notices, life, confused>>
      /\ reply' = [reply EXCEPT ![s] = 0] /\ losses' = losses + 1 /\ losses < MaxLosses
  BY DEF LoseReply
<1>3. UNCHANGED <<current, queue, since, pending>> /\ UNCHANGED Queued
  BY <1>2 DEF managerVars, vars, Queued
<1>4. Spent' = Spent + PollEvery
  BY <1>1, <1>2, TimesMonotone DEF Spent
<1>5. /\ reply' \in [Server -> 0..life] /\ reply'[s] = 0
      /\ losses' \in 0..MaxLosses /\ losses <= losses'
      /\ \A t \in Server : t # s => Quiet(t) /\ (t \in confused' <=> t \in confused)
  BY <1>1, <1>2, FleetTypes DEF Quiet
<1>6. s \notin confused => SlotFits(s)'
  <2>1. s \notin confused => SlotFits(s)
    BY <1>1 DEF ServerOK
  <2>2. permit[s] = 0
    BY <1>1 DEF ServerOK
  <2>3. QED
    BY <1>1, <1>2, <1>3, <1>4, <1>5, <2>1, <2>2 DEF SlotFits
<1>7. ServerOK(s)'
  BY <1>1, <1>2, <1>3, <1>5, <1>6 DEF ServerOK
<1>8. \A p \in 1..life : HoldsPermit(s, p)' => HoldsPermit(s, p)
  BY <1>2, <1>5 DEF HoldsPermit
<1>9. QED
  BY <1>2, <1>5, <1>7, <1>8, FleetTypes, OwnStep

\* Whoever is up again claims nothing.
LEMMA ComeUpKeeps ==
    ASSUME FleetInv, NEW s \in Server, ComeUp(s)
    PROVE  FleetInv'
<1> DEFINE k == IF permit[s] = 0 THEN "report" ELSE "complete"
<1>1. /\ ServerOK(s) /\ life \in Nat /\ life >= 1 /\ mode[s] = "down" /\ reply[s] = 0
  BY FleetRanges DEF ComeUp, ServerOK
<1>2. /\ UNCHANGED managerVars /\ UNCHANGED <<reply, life, losses>>
      /\ mode' = [mode EXCEPT ![s] = "up"] /\ timer' = [timer EXCEPT ![s] = 0]
      /\ permit' = [permit EXCEPT ![s] = 0]
      /\ notices' = [notices EXCEPT ![s] = @ \cup {k}] /\ confused' = confused \ {s}
  BY DEF ComeUp
<1>3. 0 \in 0..life /\ 0 \in Nat /\ k \in {"complete", "report"}
  BY <1>1
<1> HIDE DEF k
<1>4. notices' \in [Server -> SUBSET {"complete", "report"}]
  BY <1>2, <1>3, FleetTypes
<1>5. /\ mode' \in [Server -> {"up", "asking", "down"}] /\ timer' \in [Server -> Nat]
      /\ permit' \in [Server -> 0..life] /\ confused' \in SUBSET Server
      /\ mode'[s] = "up" /\ reply'[s] = 0 /\ permit'[s] = 0
      /\ \A t \in Server : t # s => Quiet(t) /\ (t \in confused' <=> t \in confused)
  BY <1>1, <1>2, <1>3, FleetTypes DEF Quiet
<1>6. ServerOK(s)'
  BY <1>1, <1>2, <1>5 DEF ServerOK, SlotFits
<1>7. \A p \in 1..life : HoldsPermit(s, p)' => HoldsPermit(s, p)
  BY <1>5 DEF HoldsPermit
<1>8. QED
  BY <1>2, <1>4, <1>5, <1>6, <1>7, FleetTypes, OwnStep

-----------------------------------------------------------------------------
(* The fleet: the steps of the hub *)

LEMMA PollKeeps ==
    ASSUME FleetInv, NEW s \in Server, Poll(s)
    PROVE  FleetInv'
<1>1. /\ ServerOK(s) /\ life \in Nat /\ life >= 1 /\ Spent \in Nat /\ PollEvery \in Nat
      /\ since[s] \in Nat /\ timer[s] \in Nat /\ mode[s] = "asking" /\ reply[s] = 0
      /\ s \notin pending
  BY FleetRanges DEF Poll
<1>2. /\ UNCHANGED <<mode, reply, permit, notices, life, losses, confused>>
      /\ timer' = [timer EXCEPT ![s] = 0] /\ pending' = pending \cup {s}
      /\ UNCHANGED <<current, queue, since>> /\ UNCHANGED <<Queued, Spent>>
  BY DEF Poll, RequestArrives, Queued, Spent
<1>3. Inv'
  BY NextInv DEF Poll, Next, FleetInv
<1>4. timer' \in [Server -> Nat] /\ timer'[s] = 0 /\ \A t \in Server : t # s => Quiet(t)
  BY <1>2, FleetTypes DEF Quiet
<1>5. ASSUME NEW t \in Server, t # s PROVE Passes(t)
  <2>1. since[t] <= since[t]
    BY FleetRanges
  <2>2. QED
    BY <1>2, <1>5, <2>1 DEF Passes
<1>6. permit[s] = 0
  BY <1>1 DEF ServerOK
<1>7. ServerOK(s)'
  BY <1>1, <1>2, <1>4, <1>6 DEF ServerOK, SlotFits
<1>8. \A p \in 1..(life - 1) : HoldsPermit(s, p)' => HoldsPermit(s, p)
  BY <1>2 DEF HoldsPermit
<1>9. QED
  BY <1>2, <1>3, <1>4, <1>5, <1>7, <1>8, FleetTypes, OneServerStep

\* An Allow goes to the server that holds the slot or has just got it.
LEMMA RespondKeeps ==
    ASSUME FleetInv, NEW s \in Server, Respond(s)
    PROVE  FleetInv'
<1>1. /\ ServerOK(s) /\ life \in Nat /\ life >= 1 /\ Spent \in Nat /\ PollEvery \in Nat
      /\ since[s] \in Nat /\ timer[s] \in Nat
  BY FleetRanges
<1>2. /\ UNCHANGED <<mode, timer, permit, notices, life, losses>> /\ UNCHANGED Spent
      /\ reply' = [reply EXCEPT ![s] = IF mode[s] = "asking" /\ Allowed(s) THEN life ELSE 0]
      /\ RequestRestart(s) /\ s \in pending /\ pending' = pending \ {s}
      /\ confused' = confused \ Granted
  BY DEF Respond, RequestRestart, Locked, Spent
<1>3. Inv'
  BY <1>2, NextInv DEF Next, FleetInv
<1>4. reply[s] = 0 /\ permit[s] = 0
  BY <1>1, <1>2 DEF ServerOK
<1>5. /\ reply' \in [Server -> 0..life] /\ confused' \in SUBSET Server
      /\ reply'[s] = IF mode[s] = "asking" /\ Allowed(s) THEN life ELSE 0
      /\ \A t \in Server : t # s => Quiet(t)
  BY <1>1, <1>2, FleetTypes DEF Quiet
<1>6. \A p \in 1..(life - 1) : HoldsPermit(s, p)' => HoldsPermit(s, p)
  BY <1>1, <1>2, <1>4, <1>5 DEF HoldsPermit
<1>7. s \notin pending' /\ (current = s => s \notin Queued) /\ (current = None => Queued = {})
  BY <1>2 DEF FleetInv, Inv, QueuedOnce, NobodyWaitsForFreeSlot, Queued
<1>8. CASE /\ current = s \/ InCooldown(s) \/ s \in Queued
           /\ UNCHANGED <<current, queue, since>>
  <2>1. UNCHANGED Queued /\ confused' = confused
    BY <1>2, <1>8 DEF Queued, Granted
  <2>2. ASSUME NEW t \in Server, t # s PROVE Passes(t)
    <3>1. since[t] <= since[t]
      BY FleetRanges
    <3>2. QED
      BY <1>2, <1>8, <2>1, <2>2, <3>1 DEF Passes
  <2>3. Allowed(s) => current = s
    BY <1>7, <1>8 DEF Allowed
  <2>4. ServerOK(s)'
    <3>1. /\ reply'[s] # 0 => mode[s] = "asking" /\ current = s
          /\ mode[s] = "asking" /\ current = s => reply'[s] = life
      BY <1>5, <2>3 DEF Allowed
    <3>2. s \notin confused => SlotFits(s)'
      <4>1. s \notin confused => SlotFits(s)
        BY <1>1 DEF ServerOK
      <4>2. QED
        BY <1>1, <1>2, <1>4, <1>8, <3>1, <4>1 DEF SlotFits
    <3>3. QED
      BY <1>1, <1>2, <1>4, <1>7, <1>8, <2>1, <3>1, <3>2 DEF ServerOK
  <2>5. QED
    BY <1>2, <1>3, <1>5, <1>6, <2>2, <2>4, FleetTypes, OneServerStep
<1>9. CASE /\ current = None /\ ~InCooldown(s)
           /\ current' = s /\ since' = [since EXCEPT ![s] = 0] /\ UNCHANGED queue
  <2>1. Queued' = {} /\ Queued = {} /\ since'[s] = 0
    BY <1>7, <1>9, FleetTypes DEF Queued
  <2>2. ASSUME NEW t \in Server, t # s PROVE Passes(t)
    <3>1. since'[t] = since[t] /\ since[t] <= since[t]
      BY <1>9, <2>2, FleetRanges, FleetTypes
    <3>2. t \notin confused => reply[t] # life /\ permit[t] # life
      BY <1>9, FleetRanges, NoneAssumption DEF ServerOK, SlotFits
    <3>3. t \in confused' <=> t \in confused
      BY <1>2, <1>9, <2>2 DEF Granted
    <3>4. QED
      BY <1>2, <1>9, <2>1, <2>2, <3>1, <3>2, <3>3 DEF Passes
  <2>3. ServerOK(s)'
    BY <1>1, <1>2, <1>4, <1>5, <1>7, <1>9, <2>1 DEF ServerOK, SlotFits
  <2>4. QED
    BY <1>2, <1>3, <1>5, <1>6, <2>2, <2>3, FleetTypes, OneServerStep
<1>10. CASE /\ current \notin {None, s} /\ ~InCooldown(s)
            /\ queue' = Append(queue, [name |-> s, waited |-> 0])
            /\ UNCHANGED <<current, since>>
  <2>1. Queued' \subseteq Queued \cup {s}
    <3>1. queue \in Seq(QueueEntry)
      BY InvQueue, FleetTypes
    <3>2. /\ Len(queue') = Len(queue) + 1
          /\ \A i \in 1..Len(queue) : queue'[i] = queue[i]
          /\ queue'[Len(queue) + 1].name = s
      BY <1>10, <3>1
    <3>3. QED
      BY <3>1, <3>2 DEF Queued
  <2>2. ~Allowed(s) /\ confused' = confused
    BY <1>2, <1>10 DEF Allowed, Granted
  <2>3. ASSUME NEW t \in Server, t # s PROVE Passes(t)
    <3>1. since[t] <= since[t]
      BY FleetRanges
    <3>2. QED
      BY <1>2, <1>10, <2>1, <2>2, <2>3, <3>1 DEF Passes
  <2>4. ServerOK(s)'
    BY <1>1, <1>2, <1>4, <1>5, <1>10, <2>2 DEF ServerOK, SlotFits
  <2>5. QED
    BY <1>2, <1>3, <1>5, <1>6, <2>3, <2>4, FleetTypes, OneServerStep
<1>11. QED
  BY <1>2, <1>8, <1>9, <1>10 DEF RequestRestart, Grant, Enqueue, Deny

\* A notification touches nothing but what its sender has sent.
LEMMA DeliveredTypes ==
    ASSUME FleetInv, NEW s \in Server, NEW kind, Delivered(s, kind)
    PROVE  /\ UNCHANGED <<mode, timer, reply, permit, life, losses>>
           /\ notices' \in [Server -> SUBSET {"complete", "report"}]
           /\ confused' \in SUBSET Server /\ confused \ Granted \subseteq confused'
           /\ confused' \subseteq confused \cup {s}
           /\ \A t \in Server : Quiet(t)
<1>1. UNCHANGED <<mode, timer, reply, permit, life, losses>>
  BY DEF Delivered
<1>2. notices' \in [Server -> SUBSET {"complete", "report"}]
  <2>1. PICK left \in SUBSET {"complete", "report"} :
           notices' = notices \/ notices' = [notices EXCEPT ![s] = left]
    <3>1. notices[s] \ {kind} \in SUBSET {"complete", "report"}
      BY FleetTypes
    <3>2. notices' = notices \/ notices' = [notices EXCEPT ![s] = notices[s] \ {kind}]
      BY DEF Delivered
    <3>3. QED
      BY <3>1, <3>2
  <2>2. QED
    BY <2>1, FleetTypes
<1>3. /\ confused' \in SUBSET Server /\ confused \ Granted \subseteq confused'
      /\ confused' \subseteq confused \cup {s}
  BY FleetTypes DEF Delivered
<1>4. QED
  BY <1>1, <1>2, <1>3 DEF Quiet

\* A notification that frees the slot under a permission confuses the hub about
\* its sender, and about nobody else.
LEMMA DeliveredFits ==
    ASSUME FleetInv, NEW s \in Server, NEW kind, Delivered(s, kind),
           s \notin Queued', current' # s, pending' = pending
    PROVE  /\ ServerOK(s)'
           /\ \A p \in 1..(life - 1) : HoldsPermit(s, p)' => HoldsPermit(s, p)
<1>1. ServerOK(s) /\ life \in Nat /\ life >= 1
  BY FleetRanges
<1>2. UNCHANGED <<mode, timer, reply, permit, life, losses>>
  BY DeliveredTypes
<1>3. s \in confused => s \in confused'
  BY DEF Delivered, Granted
<1>4. s \notin confused' => reply[s] # life /\ permit[s] # life
  <2>1. CASE current = s
    BY <2>1 DEF Delivered, Granted
  <2>2. CASE current # s
    BY <1>1, <1>3, <2>2 DEF ServerOK, SlotFits
  <2>3. QED
    BY <2>1, <2>2
<1>5. ServerOK(s)'
  BY <1>1, <1>2, <1>4 DEF ServerOK, SlotFits
<1>6. \A p \in 1..(life - 1) : HoldsPermit(s, p)' => HoldsPermit(s, p)
  BY <1>2, <1>3 DEF HoldsPermit
<1>7. QED
  BY <1>5, <1>6

\* A completion frees the slot of its sender or changes nothing.
LEMMA DeliverCompleteKeeps ==
    ASSUME FleetInv, NEW s \in Server, DeliverComplete(s)
    PROVE  FleetInv'
<1>1. /\ Delivered(s, "complete")
      /\ UNCHANGED <<mode, timer, reply, permit, life, losses>>
      /\ notices' \in [Server -> SUBSET {"complete", "report"}]
      /\ confused' \in SUBSET Server /\ confused \ Granted \subseteq confused'
      /\ \A t \in Server : Quiet(t)
  BY DeliveredTypes DEF DeliverComplete
<1>2. CASE NotifyRestartComplete(s)
  <2>1. Inv' /\ pending' = pending /\ current = s /\ processQueue(queue, since)
    BY <1>2, NextInv DEF Next, FleetInv, NotifyRestartComplete
  <2>2. /\ queue \in Seq(QueueEntry) /\ NamesOf(queue) = Queued /\ since \in [Server -> Age]
    BY InvQueue, FleetTypes
  <2>3. s \notin Queued
    BY <2>1 DEF FleetInv, Inv, QueuedOnce
  <2>4. ASSUME NEW t \in Server, t # s PROVE Passes(t)
    <3>1. t \in confused \/ (reply[t] # life /\ permit[t] # life)
      BY <2>1, <2>4, FleetRanges DEF ServerOK, SlotFits
    <3>2. since[t] <= since[t]
      BY FleetRanges
    <3>3. QED
      BY <1>1, <2>1, <2>2, <3>1, <3>2, HandOnPasses
  <2>5. s \notin Queued' /\ current' # s
    <3>1. current' # s
      <4>1. \/ current' = None \/ current' \in NamesOf(queue)
        BY <2>1, <2>2, ProcessQueueStep
      <4>2. QED
        BY <2>2, <2>3, <4>1, NoneAssumption
    <3>2. Queued' \subseteq Queued
      BY <2>1, <2>2, QueueShrinks
    <3>3. QED
      BY <2>3, <3>1, <3>2
  <2>6. /\ ServerOK(s)'
        /\ \A p \in 1..(life - 1) : HoldsPermit(s, p)' => HoldsPermit(s, p)
    BY <1>1, <2>1, <2>5, DeliveredFits
  <2>7. QED
    BY <1>1, <2>1, <2>4, <2>6, FleetTypes, OneServerStep
<1>3. CASE current # s /\ UNCHANGED managerVars
  <2>1. UNCHANGED <<current, queue, since, pending>> /\ UNCHANGED Queued
    BY <1>3 DEF managerVars, vars, Queued
  <2>2. confused' = confused
    BY <1>1, <1>3, <2>1 DEF Delivered, Granted
  <2>3. Quiet(s) /\ Passes(s)
    BY <1>1, <2>1, <2>2, StillPasses
  <2>4. since'[s] \in Nat /\ losses' \in Nat /\ losses <= losses'
    BY <1>1, <2>1, FleetRanges
  <2>5. ServerOK(s)' /\ \A p \in 1..life : HoldsPermit(s, p)' => HoldsPermit(s, p)
    BY <1>1, <2>3, <2>4, UndisturbedOK
  <2>6. QED
    BY <1>1, <1>3, <2>2, <2>5, FleetTypes, OwnStep
<1>4. QED
  BY <1>2, <1>3 DEF DeliverComplete

\* A report takes its sender out of the queue and frees its slot.
LEMMA DeliverReportKeeps ==
    ASSUME FleetInv, NEW s \in Server, DeliverReport(s)
    PROVE  FleetInv'
<1> DEFINE history == [since EXCEPT ![s] = 0]
           rest    == Without(queue, s)
<1>1. /\ Delivered(s, "report") /\ NotifyUnauthorizedRestart(s)
      /\ UNCHANGED <<mode, timer, reply, permit, life, losses>>
      /\ notices' \in [Server -> SUBSET {"complete", "report"}]
      /\ confused' \in SUBSET Server /\ confused \ Granted \subseteq confused'
      /\ confused' \subseteq confused \cup {s}
      /\ \A t \in Server : Quiet(t)
  BY DeliveredTypes DEF DeliverReport
<1>2. Inv' /\ pending' = pending
  BY <1>1, NextInv DEF Next, FleetInv, NotifyUnauthorizedRestart
<1>3. /\ history \in [Server -> Age] /\ history[s] = 0
      /\ \A t \in Server : t # s => history[t] = since[t]
  BY FleetTypes, DurationAssumption DEF Age
<1>4. rest \in Seq(QueueEntry) /\ NamesOf(rest) \subseteq Queued \ {s}
  BY InvQueue, FleetTypes, WithoutProperties
<1>5. \/ current = s /\ processQueue(rest, history)
      \/ current # s /\ queue' = rest /\ since' = history /\ UNCHANGED current
  BY <1>1 DEF NotifyUnauthorizedRestart
<1> HIDE DEF history, rest
<1>6. CASE current = s /\ processQueue(rest, history)
  <2>1. ASSUME NEW t \in Server, t # s PROVE Passes(t)
    <3>1. t \in confused \/ (reply[t] # life /\ permit[t] # life)
      BY <1>6, <2>1, FleetRanges DEF ServerOK, SlotFits
    <3>2. history[t] <= since[t] /\ NamesOf(rest) \subseteq Queued
      BY <1>3, <1>4, <2>1, FleetRanges
    <3>3. QED
      BY <1>1, <1>2, <1>3, <1>4, <1>6, <3>1, <3>2, HandOnPasses
  <2>2. current' # s
    <3>1. \/ current' = None \/ current' \in NamesOf(rest)
      BY <1>3, <1>4, <1>6, ProcessQueueStep
    <3>2. QED
      BY <1>4, <3>1, NoneAssumption
  <2>3. s \notin Queued'
    <3>1. Queued' \subseteq NamesOf(rest)
      BY <1>4, <1>6, QueueShrinks
    <3>2. QED
      BY <1>4, <3>1
  <2>4. /\ ServerOK(s)'
        /\ \A p \in 1..(life - 1) : HoldsPermit(s, p)' => HoldsPermit(s, p)
    BY <1>1, <1>2, <2>2, <2>3, DeliveredFits
  <2>5. QED
    BY <1>1, <1>2, <2>1, <2>4, FleetTypes, OneServerStep
<1>7. CASE current # s /\ queue' = rest /\ since' = history /\ UNCHANGED current
  <2>1. Queued' = NamesOf(rest)
    BY <1>7 DEF Queued, NamesOf
  <2>2. confused' = confused
    BY <1>1, <1>7 DEF Delivered, Granted
  <2>3. ASSUME NEW t \in Server, t # s PROVE Passes(t)
    <3>1. since'[t] = since[t] /\ Queued' \subseteq Queued
      BY <1>3, <1>4, <1>7, <2>1, <2>3
    <3>2. QED
      BY <1>2, <1>7, <2>2, <3>1, StillPasses
  <2>4. /\ ServerOK(s)'
        /\ \A p \in 1..(life - 1) : HoldsPermit(s, p)' => HoldsPermit(s, p)
    BY <1>1, <1>2, <1>4, <1>7, <2>1, DeliveredFits
  <2>5. QED
    BY <1>1, <1>2, <2>3, <2>4, FleetTypes, OneServerStep
<1>8. QED
  BY <1>5, <1>6, <1>7

\* The takeover does not hit a permission that was given for the slot: what the
\* restart can have used up of it is less than MaxRestartTime.
LEMMA PermitNotOverdue ==
    ASSUME FleetInv, FleetTiming, NEW t \in Server, t \notin confused,
           reply[t] = life \/ permit[t] = life
    PROVE  ~Overdue
<1>1. /\ ServerOK(t) /\ life \in Nat /\ life >= 1 /\ losses \in Nat /\ MaxLosses \in Nat
      /\ losses <= MaxLosses /\ PollEvery \in Nat /\ DownTime \in Nat
      /\ since[t] \in Nat /\ timer[t] \in Nat /\ SlotFits(t)
  BY FleetRanges DEF ServerOK
<1>2. /\ Spent \in Nat /\ PollEvery * MaxLosses \in Nat /\ Spent <= PollEvery * MaxLosses
      /\ PollEvery * (MaxLosses + 1) = PollEvery * MaxLosses + PollEvery
  <2>1. PollEvery * MaxLosses \in Nat /\ PollEvery * losses \in Nat
    BY <1>1, TimesNat
  <2>2. PollEvery * losses <= PollEvery * MaxLosses
    BY <1>1, TimesMonotone
  <2>3. MaxLosses <= MaxLosses
    BY <1>1
  <2>4. PollEvery * (MaxLosses + 1) = PollEvery * MaxLosses + PollEvery
    BY <1>1, <2>3, TimesMonotone
  <2>5. QED
    BY <2>1, <2>2, <2>4 DEF Spent
<1>3. PollEvery * MaxLosses + PollEvery + DownTime < MaxRestartTime
  <2>1. 1 + MaxLosses = MaxLosses + 1
    BY <1>1
  <2>2. QED
    BY <1>2, <2>1 DEF FleetTiming
<1>4. current = t /\ since[t] < MaxRestartTime
  <2>1. current = t
    BY <1>1 DEF SlotFits
  <2>2. since[t] <= Spent + PollEvery + DownTime
    <3>1. CASE reply[t] = life
      <4>1. since[t] <= Spent + PollEvery
        BY <1>1, <2>1, <3>1 DEF ServerOK, SlotFits
      <4>2. QED
        BY <1>1, <1>2, <4>1
    <3>2. CASE permit[t] = life
      <4>1. timer[t] <= DownTime /\ since[t] <= Spent + PollEvery + timer[t]
        BY <1>1, <3>2 DEF ServerOK, SlotFits
      <4>2. QED
        BY <1>1, <1>2, <4>1
    <3>3. QED
      BY <3>1, <3>2
  <2>3. QED
    BY <1>1, <1>2, <1>3, <2>1, <2>2, DurationAssumption
<1>5. QED
  BY <1>1, <1>4, DurationAssumption DEF Overdue

LEMMA CleanupKeeps ==
    ASSUME FleetInv, FleetTiming, Cleanup
    PROVE  FleetInv'
<1>1. /\ cleanupExpiredEntries /\ UNCHANGED <<mode, timer, reply, permit, notices, life, losses>>
      /\ confused' = confused \ Granted /\ pending' = pending
  BY DEF Cleanup, cleanupExpiredEntries
<1>2. Inv'
  BY <1>1, NextInv DEF Next, FleetInv
<1>3. PICK n \in 0..Len(queue) : \E f \in [1..n -> 1..Len(queue)] :
         LET validQueue == [i \in 1..n |-> queue[f[i]]]
         IN  /\ KeepsUnexpired(f)
             /\ \/ Overdue /\ processQueue(validQueue, since)
                \/ ~Overdue /\ queue' = validQueue /\ UNCHANGED <<current, since>>
  BY <1>1 DEF cleanupExpiredEntries
<1>4. PICK f \in [1..n -> 1..Len(queue)] :
         LET validQueue == [i \in 1..n |-> queue[f[i]]]
         IN  /\ KeepsUnexpired(f)
             /\ \/ Overdue /\ processQueue(validQueue, since)
                \/ ~Overdue /\ queue' = validQueue /\ UNCHANGED <<current, since>>
  BY <1>3
<1> DEFINE kept == [i \in 1..n |-> queue[f[i]]]
<1>5. kept \in Seq(QueueEntry) /\ NamesOf(kept) \subseteq Queued
  BY <1>4, UnexpiredProperties, InvQueue DEF FleetInv, Inv
<1>6. \/ Overdue /\ processQueue(kept, since)
      \/ queue' = kept /\ UNCHANGED <<current, since>>
  BY <1>4
<1> HIDE DEF kept
<1>7. ASSUME NEW t \in Server PROVE Passes(t)
  <2>1. CASE Overdue /\ processQueue(kept, since)
    <3>1. t \in confused \/ (reply[t] # life /\ permit[t] # life)
      BY <2>1, PermitNotOverdue
    <3>2. since[t] <= since[t] /\ confused \ Granted \subseteq confused'
      BY <1>1, FleetRanges
    <3>3. QED
      BY <1>1, <1>5, <2>1, <3>1, <3>2, FleetTypes, HandOnPasses
  <2>2. CASE queue' = kept /\ UNCHANGED <<current, since>>
    <3>1. Queued' \subseteq Queued
      BY <1>5, <2>2 DEF Queued, NamesOf
    <3>2. confused \subseteq confused'
      BY <1>1, <2>2 DEF Granted
    <3>3. QED
      BY <1>1, <2>2, <3>1, <3>2, StillPasses
  <2>3. QED
    BY <1>6, <2>1, <2>2
<1>8. ASSUME NEW t \in Server PROVE Quiet(t)
  BY <1>1 DEF Quiet
<1>9. ASSUME NEW t \in Server
      PROVE  ServerOK(t)' /\ \A p \in 1..life : HoldsPermit(t, p)' => HoldsPermit(t, p)
  <2>1. since'[t] \in Nat /\ losses' \in Nat /\ losses <= losses' /\ life' = life
    BY <1>1, <1>2, DurationAssumption, FleetRanges DEF Inv, TypeOK, Age
  <2>2. QED
    BY <1>7, <1>8, <2>1, UndisturbedOK
<1>10. \A p \in 1..(life - 1) : p \in 1..life
  BY FleetAssumption DEF FleetInv, FleetTypeOK
<1>11. confused' \in SUBSET Server
  BY <1>1, FleetTypes
<1>12. QED
  BY <1>1, <1>2, <1>9, <1>10, <1>11, FleetTypes, FleetStep

\* A new incarnation of the hub knows nothing and has allowed nothing yet.
LEMMA CrashKeeps ==
    ASSUME FleetInv, CrashAndRestart
    PROVE  FleetInv'
<1>1. /\ UNCHANGED <<mode, timer, reply, permit, notices, losses, confused>>
      /\ life' = life + 1 /\ life < MaxLives
      /\ current' = None /\ queue' = <<>> /\ since' = [s \in Server |-> Horizon]
      /\ closed' = FALSE /\ pending' = {} /\ due' = FALSE /\ cleaning' = TRUE
  BY DEF CrashAndRestart
<1>2. Queued' = {}
  BY <1>1 DEF Queued
<1>3. Inv'
  <2>1. since' \in [Server -> Age]
    BY <1>1, DurationAssumption DEF Age
  <2>2. queue' \in Seq(QueueEntry) /\ Len(queue') = 0
    BY <1>1
  <2>3. TypeOK'
    BY <1>1, <2>1, <2>2 DEF TypeOK
  <2>4. QED
    BY <1>1, <1>2, <2>2, <2>3
       DEF Inv, NobodyWaitsForFreeSlot, QueuedOnce, QueuedOutOfCooldown
<1>4. FleetTypeOK'
  <2>1. life \in 1..MaxLives /\ MaxLives \in Nat
    BY FleetAssumption DEF FleetInv, FleetTypeOK
  <2>2. life' \in 1..MaxLives /\ 0..life \subseteq 0..life'
    BY <1>1, <2>1
  <2>3. reply' \in [Server -> 0..life'] /\ permit' \in [Server -> 0..life']
    BY <1>1, <2>2, FleetTypes
  <2>4. QED
    BY <1>1, <1>3, <2>2, <2>3, FleetTypes DEF FleetTypeOK, Inv
<1>5. ASSUME NEW t \in Server PROVE ServerOK(t)'
  <2>1. /\ ServerOK(t) /\ life \in Nat /\ t # None
        /\ reply[t] \in 0..life /\ permit[t] \in 0..life
    BY FleetRanges, FleetTypes, NoneAssumption
  <2>2. reply[t] # life' /\ permit[t] # life'
    BY <1>1, <2>1
  <2>3. QED
    BY <1>1, <1>2, <2>1, <2>2 DEF ServerOK, SlotFits
<1>6. OnePerPermit'
  <2>1. life' - 1 = life /\ life' \in {life, life + 1}
    BY <1>1, FleetAssumption DEF FleetInv, FleetTypeOK
  <2>2. \A s \in Server : \A p \in 1..(life' - 1) : HoldsPermit(s, p)' => HoldsPermit(s, p)
    BY <1>1 DEF HoldsPermit
  <2>3. QED
    BY <1>4, <1>5, <2>1, <2>2, PermitsStayUnique
<1>7. QED
  BY <1>3, <1>4, <1>5, <1>6 DEF FleetInv

\* A minute in which every response has arrived and nobody is late.
LEMMA FleetTickKeeps ==
    ASSUME FleetInv, FleetTick
    PROVE  FleetInv'
<1>1. /\ Prompt /\ Tick /\ UNCHANGED <<mode, reply, permit, notices, life, losses, confused>>
      /\ timer' = [s \in Server |-> IF mode[s] = "up" THEN 0 ELSE timer[s] + 1]
      /\ UNCHANGED <<current, pending>> /\ UNCHANGED Spent
      /\ since' = [s \in Server |-> Older(since[s])]
  BY DEF FleetTick, Tick, Spent
<1>2. Inv'
  BY <1>1, NextInv DEF Next, FleetInv
<1>3. timer' \in [Server -> Nat]
  BY <1>1, FleetTypes
<1>4. Queued' = Queued
  <2>1. Len(queue') = Len(queue) /\ \A i \in 1..Len(queue) : queue'[i].name = queue[i].name
    <3>1. Len(queue) \in Nat
      BY InvQueue, FleetTypes
    <3>2. QED
      BY <1>1, <3>1 DEF Tick
  <2>2. QED
    BY <2>1 DEF Queued
<1>5. ASSUME NEW t \in Server PROVE ServerOK(t)'
  <2>1. /\ ServerOK(t) /\ life \in Nat /\ life >= 1 /\ Spent \in Nat /\ PollEvery \in Nat
        /\ DownTime \in Nat /\ since[t] \in Nat /\ timer[t] \in Nat
        /\ mode[t] \in {"up", "asking", "down"}
    BY FleetRanges
  <2>2. /\ pending = {} /\ reply[t] = 0
        /\ mode[t] = "asking" => timer[t] < PollEvery
        /\ mode[t] = "down" => timer[t] < DownTime
    BY <1>1 DEF Prompt
  <2>3. since'[t] <= since[t] + 1 /\ since'[t] \in Nat
    BY <1>1, <2>1, DurationAssumption DEF Older
  <2>4. mode[t] # "up" => timer'[t] = timer[t] + 1
    BY <1>1
  <2>5. /\ reply'[t] = 0 /\ (permit'[t] # 0 => mode'[t] = "down")
        /\ mode'[t] = "asking" => timer'[t] <= PollEvery
        /\ mode'[t] = "down" => timer'[t] <= DownTime
        /\ permit'[t] # 0 => t \notin pending' /\ t \notin Queued'
    <3>1. permit[t] # 0 => mode[t] = "down" /\ t \notin Queued
      BY <2>1 DEF ServerOK
    <3>2. mode[t] = "asking" => timer'[t] <= PollEvery
      BY <2>1, <2>2, <2>4
    <3>3. mode[t] = "down" => timer'[t] <= DownTime
      BY <2>1, <2>2, <2>4
    <3>4. QED
      BY <1>1, <1>4, <2>2, <3>1, <3>2, <3>3
  <2>6. ASSUME t \notin confused PROVE SlotFits(t)'
    <3>1. SlotFits(t)
      BY <2>1, <2>6 DEF ServerOK
    <3>2. reply'[t] # life' /\ t \notin pending'
      BY <1>1, <2>1, <2>2
    <3>3. permit'[t] = life' => current' = t
      BY <1>1, <3>1 DEF SlotFits
    <3>4. (mode'[t] = "asking" /\ current' = t) => since'[t] <= Spent' + timer'[t]
      <4>1. mode[t] = "asking" /\ current = t => since[t] <= Spent + timer[t]
        BY <2>1, <2>2, <3>1 DEF SlotFits
      <4>2. QED
        BY <1>1, <2>1, <2>3, <2>4, <4>1
    <3>5. permit'[t] = life' => since'[t] <= Spent' + PollEvery + timer'[t]
      <4>1. permit[t] = life => mode[t] = "down" /\ since[t] <= Spent + PollEvery + timer[t]
        BY <2>1, <3>1 DEF ServerOK, SlotFits
      <4>2. QED
        BY <1>1, <2>1, <2>3, <2>4, <4>1
    <3>6. QED
      BY <3>2, <3>3, <3>4, <3>5 DEF SlotFits
  <2>7. QED
    BY <1>1, <2>5, <2>6 DEF ServerOK
<1>6. \A t \in Server : \A p \in 1..(life - 1) : HoldsPermit(t, p)' => HoldsPermit(t, p)
  BY <1>1 DEF HoldsPermit
<1>7. QED
  BY <1>1, <1>2, <1>3, <1>5, <1>6, FleetTypes, FleetStep

-----------------------------------------------------------------------------
(* The fleet: theorems *)

LEMMA FleetInitInv == FleetInit => FleetInv
<1> SUFFICES ASSUME FleetInit PROVE FleetInv
  OBVIOUS
<1>1. Inv
  BY InitInv DEF FleetInit
<1>2. FleetTypeOK
  <2>1. 0 \in 0..life /\ life \in 1..MaxLives /\ losses \in 0..MaxLosses
    BY FleetAssumption DEF FleetInit
  <2>2. QED
    BY <1>1, <2>1 DEF FleetInit, FleetTypeOK, Inv
<1>3. ASSUME NEW s \in Server PROVE ServerOK(s)
  <2>1. /\ mode[s] = "up" /\ reply[s] = 0 /\ permit[s] = 0 /\ life = 1
        /\ pending = {} /\ current # s /\ Queued = {}
    BY NoneAssumption DEF FleetInit, Init, Queued
  <2>2. QED
    BY <2>1 DEF ServerOK, SlotFits
<1>4. OnePerPermit
  BY DEF OnePerPermit, HoldsPermit, FleetInit
<1>5. QED
  BY <1>1, <1>2, <1>3, <1>4 DEF FleetInv

LEMMA FleetNextInv ==
    ASSUME FleetTiming, FleetInv, [FleetNext]_allVars
    PROVE  FleetInv'
<1>1. ASSUME NEW s \in Server, ReceiveAllow(s) PROVE FleetInv'
  BY <1>1, GoDownKeeps DEF ReceiveAllow
<1>2. ASSUME NEW s \in Server, ForceRestart(s) PROVE FleetInv'
  BY <1>2, GoDownKeeps DEF ForceRestart
<1>3. CASE UNCHANGED allVars
  <2>1. Inv'
    BY <1>3, NextInv DEF allVars, managerVars, FleetInv
  <2>2. UNCHANGED <<mode, timer, reply, permit, notices, life, losses, confused>>
    BY <1>3 DEF allVars, fleetVars
  <2>3. UNCHANGED <<current, queue, since, pending>> /\ UNCHANGED <<Queued, Spent>>
    BY <1>3, <2>2 DEF allVars, managerVars, vars, Queued, Spent
  <2>4. ASSUME NEW s \in Server
        PROVE  ServerOK(s)' /\ \A p \in 1..life : HoldsPermit(s, p)' => HoldsPermit(s, p)
    <3>1. Quiet(s) /\ Passes(s)
      BY <2>2, <2>3, StillPasses DEF Quiet
    <3>2. since'[s] \in Nat /\ losses' \in Nat /\ losses <= losses'
      BY <2>2, <2>3, FleetRanges
    <3>3. QED
      BY <2>2, <3>1, <3>2, UndisturbedOK
  <2>5. \A p \in 1..(life - 1) : p \in 1..life
    BY FleetAssumption DEF FleetInv, FleetTypeOK
  <2>6. QED
    BY <2>1, <2>2, <2>4, <2>5, FleetTypes, FleetStep
<1>4. QED
  BY <1>1, <1>2, <1>3, AskKeeps, PollKeeps, LoseReplyKeeps, ComeUpKeeps, RespondKeeps,
     DeliverCompleteKeeps, DeliverReportKeeps, CleanupKeeps, CrashKeeps, FleetTickKeeps
     DEF FleetNext

\* With durations that leave room for polls, lost responses and a restart before
\* the takeover, the invariant of the fleet holds of every run, for every number
\* of servers, of lost responses and of crashes of the hub, and whichever
\* notifications arrive, when and how often.
THEOREM FleetInvariant ==
    ASSUME FleetTiming
    PROVE  FleetSpec => []FleetInv
<1>1. FleetInit => FleetInv
  BY FleetInitInv
<1>2. FleetInv /\ [FleetNext]_allVars => FleetInv'
  BY FleetNextInv
<1>3. QED
  BY <1>1, <1>2, PTL DEF FleetSpec

\* The type invariant of the fleet and of the manager it shares the run with.
THEOREM FleetTypesHold ==
    ASSUME FleetTiming
    PROVE  FleetSpec => []FleetTypeOK
<1>1. FleetInv => FleetTypeOK
  BY DEF FleetInv
<1>2. QED
  BY <1>1, FleetInvariant, PTL

\* Of the servers that one incarnation of the hub has allowed to restart at most
\* one is down at a time, whatever is lost, late, repeated or forced, and
\* however often the hub forgets everything, except beside servers whose restart
\* the hub takes for an earlier one of theirs.
THEOREM OneDownAtATime ==
    ASSUME FleetTiming
    PROVE  FleetSpec => []OneRestartAtATime
<1>1. ASSUME FleetInv PROVE OneRestartAtATime
  <2>1. ASSUME NEW s \in Down \ confused, NEW t \in Down \ confused,
               permit[s] = permit[t], permit[s] # 0
        PROVE  s = t
    <3>1. /\ s \notin confused /\ t \notin confused /\ s \in Server /\ t \in Server /\ mode[s] = "down" /\ mode[t] = "down"
          /\ permit[s] \in 0..life /\ life \in Nat
      BY <1>1, <2>1, FleetTypes, FleetRanges DEF Down
    <3>2. permit[s] \in 1..life /\ HoldsPermit(s, permit[s]) /\ HoldsPermit(t, permit[s])
      BY <2>1, <3>1 DEF HoldsPermit
    <3>3. QED
      BY <1>1, <3>1, <3>2 DEF FleetInv, OnePerPermit
  <2>2. QED
    BY <2>1 DEF OneRestartAtATime
<1>2. QED
  BY <1>1, FleetInvariant, PTL

\* A server that is down with the permission of this hub still holds the slot:
\* the takeover has not passed it on, unless the permission was given for a slot
\* of an earlier restart, and no notification but a late one of its own has.
THEOREM RestartsHoldTheSlot ==
    ASSUME FleetTiming
    PROVE  FleetSpec => []DownHoldsSlot
<1>1. FleetInv => DownHoldsSlot
  BY DEF FleetInv, ServerOK, SlotFits, DownHoldsSlot, Down
<1>2. QED
  BY <1>1, FleetInvariant, PTL

=============================================================================

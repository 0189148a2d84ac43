-------------------------- MODULE AuthHandover_proofs --------------------------
(***************************************************************************)
(* Proofs about AuthHandover, for any players, any number of requests at a *)
(* time and all durations.  A token only says when it expires; Inv relates *)
(* it to the transfer it was stored for (TokenOfLastSet), says what a      *)
(* request still knows of it between its two locks (SeenOfLastSet) and     *)
(* why a player that was just transferred may have none (GoneByRace).      *)
(***************************************************************************)
EXTENDS AuthHandover, TLAPS

-----------------------------------------------------------------------------
(* The inductive invariant *)

BusyHasPlayer == \A h \in Handler : req[h].pc # "idle" => req[h].player \in Player

LastSetIsPast == \A p \in Player : lastSet[p] <= now

TokenOfLastSet ==
    \A p \in Player : data[p] # Never =>
        lastSet[p] # Never /\ data[p] = lastSet[p] + Duration

SeenOfLastSet ==
    \A h \in Handler : req[h].pc \in {"expired", "remove"} =>
        LET p == req[h].player IN
        /\ req[h].seen # Never /\ lastSet[p] # Never
        /\ req[h].seen <= lastSet[p] + Duration
        /\ req[h].seen = lastSet[p] + Duration \/ raced[p]

RemovesExpired == \A h \in Handler : req[h].pc = "remove" => now > req[h].seen

GoneByRace == \A p \in Player : data[p] = Never /\ Recent(p) => raced[p]

\* When the cleanup looked at the factory last, if it has any tokens.
LastCleanup == IF due THEN now - CleanupInterval ELSE now - (now % CleanupInterval)

SurvivedCleanup ==
    /\ due => now % CleanupInterval = 0
    /\ \A p \in Player : data[p] # Never => data[p] >= LastCleanup

Inv ==
    /\ TypeOK
    /\ BusyHasPlayer
    /\ LastSetIsPast
    /\ TokenOfLastSet
    /\ SeenOfLastSet
    /\ RemovesExpired
    /\ GoneByRace
    /\ SurvivedCleanup

-----------------------------------------------------------------------------
(* Time and the remainder that starts a cleanup *)

\* Division with remainder.
LEMMA DivMod ==
    ASSUME NEW n \in Nat, NEW c \in Nat \ {0}
    PROVE  n = c * (n \div c) + (n % c) /\ n % c \in 0..(c - 1) /\ n \div c \in Int
  OBVIOUS

\* The remainder is unique.
LEMMA UniqueRemainder ==
    ASSUME NEW c \in Nat \ {0}, NEW a \in Int, NEW b \in Int,
           NEW k \in 0..(c - 1), NEW l \in 0..(c - 1), c * a + k = c * b + l
    PROVE  k = l
  OBVIOUS

\* One step of the clock starts a cleanup interval or goes on with it.
LEMMA NextRemainder ==
    ASSUME NEW n \in Nat, NEW c \in Nat \ {0}
    PROVE  (n + 1) % c = 0 \/ (n + 1) % c = (n % c) + 1
<1> DEFINE k == n % c
           l == (n + 1) % c
           a == n \div c
           b == (n + 1) \div c
<1>1. n = c * a + k /\ k \in 0..(c - 1) /\ a \in Int
  BY DivMod
<1>2. n + 1 = c * b + l /\ l \in 0..(c - 1) /\ b \in Int
  BY DivMod
<1> HIDE DEF k, l, a, b
<1>3. c * a + (k + 1) = c * b + l
  BY <1>1, <1>2
<1>4. CASE k + 1 = c
  <2>1. c * (a + 1) + 0 = c * b + l
    BY <1>1, <1>2, <1>3, <1>4
  <2>2. 0 \in 0..(c - 1)
    OBVIOUS
  <2>3. 0 = l
    BY <1>1, <1>2, <2>1, <2>2, UniqueRemainder
  <2>4. QED
    BY <2>3 DEF l
<1>5. CASE k + 1 < c
  <2>1. k + 1 \in 0..(c - 1)
    BY <1>1, <1>5
  <2>2. k + 1 = l
    BY <1>1, <1>2, <1>3, <2>1, UniqueRemainder
  <2>3. QED
    BY <2>2 DEF k, l
<1>6. QED
  BY <1>1, <1>4, <1>5

-----------------------------------------------------------------------------
(* The invariant is inductive *)

LEMMA InitInv == Init => Inv
<1> SUFFICES ASSUME Init PROVE Inv
  OBVIOUS
<1>1. TypeOK
  <2>1. Idle \in Request
    BY DEF Idle, Request
  <2>2. 0 \in Time
    BY HandoverAssumption DEF Time
  <2>3. QED
    BY <2>1, <2>2 DEF Init, TypeOK
<1>2. BusyHasPlayer /\ SeenOfLastSet /\ RemovesExpired
  BY DEF Init, BusyHasPlayer, SeenOfLastSet, RemovesExpired, Idle
<1>3. LastSetIsPast /\ TokenOfLastSet /\ GoneByRace /\ SurvivedCleanup
  BY HandoverAssumption
  DEF Init, LastSetIsPast, TokenOfLastSet, GoneByRace, Recent, SurvivedCleanup, Never
<1>4. QED
  BY <1>1, <1>2, <1>3 DEF Inv

\* Steps that change nothing but one request keep what does not depend on it.
LEMMA RequestStep ==
    ASSUME Inv, UNCHANGED <<now, rankOf, data, handing, due, lastSet, raced>>,
           NEW h \in Handler, NEW r \in Request, Becomes(h, r),
           r.pc # "idle" => r.player \in Player,
           r.pc \in {"expired", "remove"} =>
               /\ r.seen # Never /\ lastSet[r.player] # Never
               /\ r.seen <= lastSet[r.player] + Duration
               /\ r.seen = lastSet[r.player] + Duration \/ raced[r.player],
           r.pc = "remove" => now > r.seen
    PROVE  Inv'
<1>1. TypeOK'
  BY DEF Inv, TypeOK, Becomes
<1>2. \A g \in Handler : req'[g] = IF g = h THEN r ELSE req[g]
  BY DEF Inv, TypeOK, Becomes
<1>3. BusyHasPlayer'
  BY <1>2 DEF Inv, BusyHasPlayer
<1>4. SeenOfLastSet'
  BY <1>2 DEF Inv, SeenOfLastSet
<1>5. RemovesExpired'
  BY <1>2 DEF Inv, RemovesExpired
<1>6. LastSetIsPast' /\ TokenOfLastSet' /\ GoneByRace' /\ SurvivedCleanup'
  BY DEF Inv, LastSetIsPast, TokenOfLastSet, GoneByRace, Recent, SurvivedCleanup, LastCleanup
<1>7. QED
  BY <1>1, <1>3, <1>4, <1>5, <1>6 DEF Inv

\* An answered request is a request.
LEMMA AnswerIsRequest ==
    ASSUME NEW a \in {"none", "allowed", "refused"}
    PROVE  [Idle EXCEPT !.answer = a] \in Request /\ [Idle EXCEPT !.answer = a].pc = "idle"
  BY DEF Idle, Request

LEMMA SetKeepsInv == ASSUME Inv, Set PROVE Inv'
<1> DEFINE p == handing
<1>1. p \in Player
  BY DEF Inv, TypeOK, Set
<1> HIDE DEF p
<1>2. /\ data' = [data EXCEPT ![p] = now + Duration]
      /\ lastSet' = [lastSet EXCEPT ![p] = now]
      /\ raced' = [raced EXCEPT ![p] =
                       \E h \in ForPlayer(p) : req[h].pc \in {"expired", "remove"}]
      /\ handing' = Nobody
      /\ UNCHANGED <<now, rankOf, due, req>>
  BY DEF Set, p
<1>3. TypeOK'
  <2>1. now + Duration \in 0..(MaxTime + Duration)
    BY HandoverAssumption DEF Inv, TypeOK, Time
  <2>2. QED
    BY <1>1, <1>2, <2>1 DEF Inv, TypeOK
<1>4. now \in Nat /\ Duration \in Nat /\ now # Never /\ now + Duration # Never
  BY HandoverAssumption DEF Inv, TypeOK, Time, Never
<1>5. \A q \in Player :
         IF q = p THEN data'[q] = now + Duration /\ lastSet'[q] = now
                  ELSE data'[q] = data[q] /\ lastSet'[q] = lastSet[q] /\ raced'[q] = raced[q]
  BY <1>1, <1>2 DEF Inv, TypeOK
<1>6. BusyHasPlayer' /\ RemovesExpired'
  BY <1>2 DEF Inv, BusyHasPlayer, RemovesExpired
<1>7. LastSetIsPast' /\ TokenOfLastSet'
  BY <1>2, <1>4, <1>5 DEF Inv, LastSetIsPast, TokenOfLastSet
<1>8. SeenOfLastSet'
  <2>1. SUFFICES ASSUME NEW h \in Handler, req[h].pc \in {"expired", "remove"}
                 PROVE  LET q == req[h].player IN
                        /\ req[h].seen # Never /\ lastSet'[q] # Never
                        /\ req[h].seen <= lastSet'[q] + Duration
                        /\ req[h].seen = lastSet'[q] + Duration \/ raced'[q]
    BY <1>2 DEF SeenOfLastSet
  <2> DEFINE q == req[h].player
  <2>2. /\ q \in Player
        /\ req[h].seen # Never /\ lastSet[q] # Never
        /\ req[h].seen <= lastSet[q] + Duration
        /\ req[h].seen = lastSet[q] + Duration \/ raced[q]
        /\ lastSet[q] \in Int /\ lastSet[q] <= now /\ req[h].seen \in Int
    BY <2>1, HandoverAssumption
    DEF Inv, SeenOfLastSet, BusyHasPlayer, LastSetIsPast, TypeOK, Request, Time, Never
  <2>3. CASE q = p
    <3>1. raced'[q]
      BY <1>1, <1>2, <2>1, <2>2, <2>3 DEF Inv, TypeOK, ForPlayer
    <3>2. req[h].seen <= now + Duration
      BY <1>4, <2>2
    <3>3. QED
      BY <1>4, <1>5, <2>2, <2>3, <3>1, <3>2
  <2>4. CASE q # p
    BY <1>5, <2>2, <2>4
  <2>5. QED
    BY <2>3, <2>4
<1>9. GoneByRace'
  BY <1>2, <1>4, <1>5 DEF Inv, GoneByRace, Recent
<1>10. SurvivedCleanup'
  <2>1. LastCleanup \in Int /\ LastCleanup <= now
    BY <1>4, HandoverAssumption, DivMod DEF LastCleanup
  <2>2. UNCHANGED LastCleanup
    BY <1>2 DEF LastCleanup
  <2>3. QED
    BY <1>2, <1>4, <1>5, <2>1, <2>2 DEF Inv, SurvivedCleanup
<1>11. QED
  BY <1>3, <1>6, <1>7, <1>8, <1>9, <1>10 DEF Inv

LEMMA RemoveKeepsInv == ASSUME Inv, NEW h \in Handler, Remove(h) PROVE Inv'
<1> DEFINE p == req[h].player
           r == [Idle EXCEPT !.answer = "refused"]
<1>1. /\ p \in Player
      /\ data' = [data EXCEPT ![p] = Never]
      /\ req' = [req EXCEPT ![h] = r]
      /\ UNCHANGED <<now, rankOf, handing, due, lastSet, raced>>
      /\ req[h].pc = "remove"
  BY DEF Inv, BusyHasPlayer, Remove, Answers, Becomes
<1>2. r \in Request /\ r.pc = "idle"
  BY AnswerIsRequest
<1>3. /\ req[h].seen \in Int /\ lastSet[p] \in Int /\ now \in Int /\ Duration \in Int
      /\ lastSet[p] # Never /\ now > req[h].seen
      /\ req[h].seen = lastSet[p] + Duration \/ raced[p]
  BY <1>1, HandoverAssumption
  DEF Inv, RemovesExpired, SeenOfLastSet, TypeOK, Request, Time, Never
<1> HIDE DEF p, r
<1>4. TypeOK'
  BY <1>1, <1>2 DEF Inv, TypeOK
<1>5. \A g \in Handler : req'[g] = IF g = h THEN r ELSE req[g]
  BY <1>1 DEF Inv, TypeOK
<1>6. \A q \in Player : data'[q] = IF q = p THEN Never ELSE data[q]
  BY <1>1 DEF Inv, TypeOK
<1>7. BusyHasPlayer' /\ SeenOfLastSet' /\ RemovesExpired'
  BY <1>1, <1>2, <1>5 DEF Inv, BusyHasPlayer, SeenOfLastSet, RemovesExpired
<1>8. LastSetIsPast' /\ TokenOfLastSet' /\ SurvivedCleanup'
  BY <1>1, <1>6 DEF Inv, LastSetIsPast, TokenOfLastSet, SurvivedCleanup, LastCleanup
<1>9. GoneByRace'
  <2>1. ~Recent(p) \/ raced[p]
    BY <1>3 DEF Recent
  <2>2. QED
    BY <1>1, <1>6, <2>1 DEF Inv, GoneByRace, Recent
<1>10. QED
  BY <1>4, <1>7, <1>8, <1>9 DEF Inv

LEMMA TickKeepsInv == ASSUME Inv, Tick PROVE Inv'
<1>1. /\ ~due /\ now' = now + 1 /\ due' = (now' % CleanupInterval = 0)
      /\ now \in Nat /\ now' \in Time /\ CleanupInterval \in Nat \ {0}
      /\ UNCHANGED <<rankOf, data, handing, req, lastSet, raced>>
  BY HandoverAssumption DEF Tick, Inv, TypeOK, Time
<1>2. TypeOK'
  BY <1>1 DEF Inv, TypeOK
<1>3. BusyHasPlayer' /\ SeenOfLastSet' /\ TokenOfLastSet'
  BY <1>1 DEF Inv, BusyHasPlayer, SeenOfLastSet, TokenOfLastSet
<1>4. LastSetIsPast' /\ RemovesExpired'
  BY <1>1, HandoverAssumption
  DEF Inv, TypeOK, Time, Request, Never, LastSetIsPast, RemovesExpired, SeenOfLastSet
<1>5. GoneByRace'
  <2>1. ASSUME NEW p \in Player, Recent(p)' PROVE Recent(p)
    <3>1. lastSet[p] \in Int /\ Duration \in Int
      BY HandoverAssumption DEF Inv, TypeOK, Time, Never
    <3>2. QED
      BY <1>1, <2>1, <3>1 DEF Recent
  <2>2. QED
    BY <1>1, <2>1 DEF Inv, GoneByRace
<1>6. SurvivedCleanup'
  <2>1. \A p \in Player : data[p] \in Int
    BY HandoverAssumption DEF Inv, TypeOK, Never
  <2> DEFINE k == now % CleanupInterval
  <2>2. \A p \in Player : data[p] # Never => data[p] >= now - k
    BY <1>1 DEF Inv, SurvivedCleanup, LastCleanup
  <2>3. now' % CleanupInterval = 0 \/ now' % CleanupInterval = k + 1
    BY <1>1, NextRemainder
  <2>4. k \in 0..(CleanupInterval - 1)
    BY <1>1, DivMod
  <2> HIDE DEF k
  <2>5. CASE due'
    <3>1. LastCleanup' = now + 1 - CleanupInterval
      BY <1>1, <2>5 DEF LastCleanup
    <3>2. LastCleanup' <= now - k
      BY <1>1, <2>4, <3>1
    <3>3. LastCleanup' \in Int /\ now - k \in Int
      BY <1>1, <2>4, <3>1
    <3>4. \A p \in Player : data[p] # Never => data[p] >= LastCleanup'
      BY <2>1, <2>2, <3>2, <3>3
    <3>5. now' % CleanupInterval = 0
      BY <1>1, <2>5
    <3>6. QED
      BY <1>1, <3>4, <3>5 DEF SurvivedCleanup
  <2>6. CASE ~due'
    <3>1. LastCleanup' = now' - (k + 1)
      BY <1>1, <2>3, <2>6 DEF LastCleanup
    <3>2. LastCleanup' = now - k
      BY <1>1, <2>4, <3>1
    <3>3. QED
      BY <1>1, <2>2, <2>6, <3>2 DEF SurvivedCleanup
  <2>7. QED
    BY <2>5, <2>6
<1>7. QED
  BY <1>2, <1>3, <1>4, <1>5, <1>6 DEF Inv

LEMMA CleanupKeepsInv == ASSUME Inv, startCleanup PROVE Inv'
<1>1. /\ due /\ ~due' /\ due' \in BOOLEAN
      /\ \A p \in Player : data'[p] = IF now > data[p] THEN Never ELSE data[p]
      /\ UNCHANGED <<now, rankOf, handing, req, lastSet, raced>>
  BY DEF startCleanup, After
<1>2. now \in Nat /\ \A p \in Player : data[p] \in Int /\ lastSet[p] \in Int
  BY HandoverAssumption DEF Inv, TypeOK, Time, Never
<1>3. TypeOK'
  BY <1>1 DEF Inv, TypeOK, startCleanup
<1>4. BusyHasPlayer' /\ SeenOfLastSet' /\ RemovesExpired' /\ LastSetIsPast' /\ TokenOfLastSet'
  BY <1>1 DEF Inv, BusyHasPlayer, SeenOfLastSet, RemovesExpired, LastSetIsPast, TokenOfLastSet
<1>5. GoneByRace'
  <2>1. SUFFICES ASSUME NEW p \in Player, data'[p] = Never, Recent(p) PROVE raced[p]
    BY <1>1 DEF GoneByRace, Recent
  <2>2. ~(now > data[p]) \/ data[p] = Never
    BY <1>2, <2>1, HandoverAssumption DEF Inv, TokenOfLastSet, Recent
  <2>3. QED
    BY <1>1, <2>1, <2>2 DEF Inv, GoneByRace
<1>6. SurvivedCleanup'
  <2>1. now % CleanupInterval = 0
    BY <1>1 DEF Inv, SurvivedCleanup
  <2>2. LastCleanup' = now
    BY <1>1, <1>2, <2>1 DEF LastCleanup
  <2>3. QED
    BY <1>1, <1>2, <2>2 DEF SurvivedCleanup
<1>7. QED
  BY <1>3, <1>4, <1>5, <1>6 DEF Inv

LEMMA NextInv == Inv /\ [Next]_vars => Inv'
<1> SUFFICES ASSUME Inv, [Next]_vars PROVE Inv'
  OBVIOUS
<1>1. ASSUME NEW p \in Player, Transfer(p) PROVE Inv'
  <2>1. TypeOK'
    BY <1>1 DEF Transfer, Inv, TypeOK
  <2>2. QED
    BY <1>1, <2>1
    DEF Transfer, Inv, BusyHasPlayer, LastSetIsPast, TokenOfLastSet, SeenOfLastSet,
        RemovesExpired, GoneByRace, Recent, SurvivedCleanup, LastCleanup
<1>2. CASE Set
  BY <1>2, SetKeepsInv
<1>3. ASSUME NEW h \in Handler, NEW p \in Player, Arrives(h, p) PROVE Inv'
  <2> DEFINE r == [Idle EXCEPT !.pc = "roles", !.player = p]
  <2>1. r \in Request /\ r.pc = "roles" /\ r.player = p
    BY DEF Idle, Request
  <2>2. Becomes(h, r) /\ UNCHANGED <<now, rankOf, data, handing, due, lastSet, raced>>
    BY <1>3 DEF Arrives
  <2> HIDE DEF r
  <2>3. QED
    BY <2>1, <2>2, RequestStep
<1>4. ASSUME NEW h \in Handler, Bypass(h) PROVE Inv'
  <2>1. PICK k \in {rankOf[req[h].player], Unknown} :
           \/ Answers(h, "allowed")
           \/ Becomes(h, [req[h] EXCEPT !.pc = "of", !.rank = k])
    BY <1>4 DEF Bypass
  <2>2. req[h].player \in Player /\ UNCHANGED <<now, rankOf, data, handing, due, lastSet, raced>>
    BY <1>4 DEF Bypass, Inv, BusyHasPlayer
  <2>3. CASE Answers(h, "allowed")
    BY <2>2, <2>3, AnswerIsRequest, RequestStep DEF Answers
  <2>4. CASE Becomes(h, [req[h] EXCEPT !.pc = "of", !.rank = k])
    <3> DEFINE r == [req[h] EXCEPT !.pc = "of", !.rank = k]
    <3>1. k \in RankValue \cup {Unknown} /\ req[h] \in Request
      BY <2>1, <2>2 DEF Inv, TypeOK
    <3>2. r \in Request /\ r.pc = "of" /\ r.player \in Player
      BY <2>2, <3>1 DEF Request
    <3> HIDE DEF r
    <3>3. QED
      BY <2>2, <2>4, <3>2, RequestStep DEF r
  <2>5. QED
    BY <2>1, <2>3, <2>4
<1>5. ASSUME NEW h \in Handler, Of(h) PROVE Inv'
  <2> DEFINE p == req[h].player
             r == [req[h] EXCEPT !.pc = "expired", !.seen = data[p]]
  <2>1. p \in Player /\ UNCHANGED <<now, rankOf, data, handing, due, lastSet, raced>>
    BY <1>5 DEF Of, Inv, BusyHasPlayer
  <2>2. CASE data[p] = Never
    <3>1. Answers(h, "refused")
      BY <1>5, <2>2 DEF Of
    <3>2. QED
      BY <2>1, <3>1, AnswerIsRequest, RequestStep DEF Answers
  <2>3. CASE data[p] # Never
    <3>1. Becomes(h, r)
      BY <1>5, <2>3 DEF Of
    <3>2. req[h] \in Request /\ data[p] \in 0..(MaxTime + Duration) \cup {Never}
      BY <2>1 DEF Inv, TypeOK
    <3>3. r \in Request /\ r.pc = "expired" /\ r.player = p /\ r.seen = data[p]
      BY <3>2 DEF Request
    <3>4. /\ data[p] \in Int /\ lastSet[p] # Never
          /\ data[p] = lastSet[p] + Duration /\ data[p] <= lastSet[p] + Duration
      BY <2>1, <2>3, <3>2, HandoverAssumption DEF Inv, TokenOfLastSet, Never
    <3> HIDE DEF p, r
    <3>5. QED
      BY <2>1, <2>3, <3>1, <3>3, <3>4, RequestStep
  <2>4. QED
    BY <2>2, <2>3
<1>6. ASSUME NEW h \in Handler, Expired(h) PROVE Inv'
  <2> DEFINE r == [req[h] EXCEPT !.pc = "remove"]
  <2>1. /\ req[h] \in Request /\ req[h].player \in Player /\ req[h].pc = "expired"
        /\ UNCHANGED <<now, rankOf, data, handing, due, lastSet, raced>>
    BY <1>6 DEF Expired, Inv, BusyHasPlayer, TypeOK
  <2>2. CASE now > req[h].seen
    <3>1. Becomes(h, r)
      BY <1>6, <2>2 DEF Expired, After
    <3>2. /\ r \in Request /\ r.pc = "remove"
          /\ r.player = req[h].player /\ r.seen = req[h].seen
      BY <2>1 DEF Request
    <3>3. LET p == req[h].player IN
          /\ req[h].seen # Never /\ lastSet[p] # Never
          /\ req[h].seen <= lastSet[p] + Duration
          /\ req[h].seen = lastSet[p] + Duration \/ raced[p]
      BY <2>1 DEF Inv, SeenOfLastSet
    <3> HIDE DEF r
    <3>4. QED
      BY <2>1, <2>2, <3>1, <3>2, <3>3, RequestStep
  <2>3. CASE ~(now > req[h].seen)
    <3>1. Answers(h, "allowed")
      BY <1>6, <2>3 DEF Expired, After
    <3>2. QED
      BY <2>1, <3>1, AnswerIsRequest, RequestStep DEF Answers
  <2>4. QED
    BY <2>2, <2>3
<1>7. ASSUME NEW h \in Handler, Remove(h) PROVE Inv'
  BY <1>7, RemoveKeepsInv
<1>8. CASE Tick
  BY <1>8, TickKeepsInv
<1>9. CASE startCleanup
  BY <1>9, CleanupKeepsInv
<1>10. CASE UNCHANGED vars
  BY <1>10
  DEF vars, Inv, TypeOK, BusyHasPlayer, LastSetIsPast, TokenOfLastSet, SeenOfLastSet,
      RemovesExpired, GoneByRace, Recent, SurvivedCleanup, LastCleanup
<1>11. QED
  BY <1>1, <1>2, <1>3, <1>4, <1>5, <1>6, <1>7, <1>8, <1>9, <1>10 DEF Next

-----------------------------------------------------------------------------
(* Theorems *)

\* The inductive invariant of the hand-over: every token is the one of the
\* player's last transfer, and a recently transferred player without a token
\* lost it to a request that had read the one before (Factory.Of, Remove).
THEOREM HandoverInvariant == Spec => []Inv
<1>1. QED
  BY InitInv, NextInv, PTL DEF Spec

\* Factory.startCleanup forgets every token within one interval after its
\* Expiration, whatever the durations are.
THEOREM TokensForgotten == Spec => []TokensAreForgotten
<1>1. Inv => TokensAreForgotten
  <2>1. SUFFICES ASSUME Inv, ~due, NEW p \in Player, data[p] # Never
                 PROVE  now < data[p] + CleanupInterval
    BY DEF TokensAreForgotten
  <2>2. data[p] \in Int /\ now \in Nat /\ CleanupInterval \in Nat \ {0}
    BY <2>1, HandoverAssumption DEF Inv, TypeOK, Time, Never
  <2>3. data[p] >= now - (now % CleanupInterval)
    BY <2>1 DEF Inv, SurvivedCleanup, LastCleanup
  <2>4. now % CleanupInterval \in 0..(CleanupInterval - 1)
    BY <2>2, DivMod
  <2>5. QED
    BY <2>2, <2>3, <2>4
<1>2. QED
  BY <1>1, HandoverInvariant, PTL

\* A request is answered in a step of its own.
LEMMA AnsweredByOwnStep ==
    ASSUME Inv, Next, NEW h \in Handler, NEW a, Gives(h, a)
    PROVE  Bypass(h) \/ Of(h) \/ Expired(h) \/ Remove(h)
<1>1. req[h].pc # "idle" /\ req'[h].pc = "idle" /\ req' # req
  BY DEF Gives
<1>2. ASSUME NEW p \in Player PROVE ~Transfer(p)
  BY <1>1 DEF Transfer
<1>3. ~Set /\ ~Tick /\ ~startCleanup
  BY <1>1 DEF Set, Tick, startCleanup
<1>4. ASSUME NEW k \in Handler, NEW r, Becomes(k, r) PROVE k = h
  BY <1>1, <1>4 DEF Becomes, Inv, TypeOK
<1>5. ASSUME NEW k \in Handler, NEW p \in Player PROVE ~Arrives(k, p)
  BY <1>1, <1>4 DEF Arrives
<1>6. PICK k \in Handler : Bypass(k) \/ Of(k) \/ Expired(k) \/ Remove(k)
  BY <1>2, <1>3, <1>5 DEF Next
<1>7. \E r : Becomes(k, r)
  BY <1>6 DEF Bypass, Of, Expired, Remove, Answers
<1>8. QED
  BY <1>4, <1>6, <1>7

\* The handler of GET /authentication/:xuid lets in nobody but staff and
\* players transferred at most Duration ago.
THEOREM OnlyTransferredAdmitted == Spec => AdmittedAfterTransfer
<1> DEFINE Admits == \A h \in Handler : Gives(h, "allowed") =>
                        \/ rankOf[req[h].player] >= HeadModerator
                        \/ Recent(req[h].player)
<1>1. Inv /\ [Next]_vars => [Admits]_vars
  <2>1. SUFFICES ASSUME Inv, Next, NEW h \in Handler, Gives(h, "allowed")
                 PROVE  \/ rankOf[req[h].player] >= HeadModerator
                        \/ Recent(req[h].player)
    OBVIOUS
  <2> DEFINE p == req[h].player
  <2>2. p \in Player
    BY <2>1 DEF Gives, Inv, BusyHasPlayer
  <2>3. Bypass(h) \/ Of(h) \/ Expired(h) \/ Remove(h)
    BY <2>1, AnsweredByOwnStep
  <2>4. CASE Bypass(h)
    <3>1. PICK k \in {rankOf[p], Unknown} :
             \/ k >= HeadModerator
             \/ Becomes(h, [req[h] EXCEPT !.pc = "of", !.rank = k])
      BY <2>4 DEF Bypass
    <3>2. CASE k >= HeadModerator
      BY <3>1, <3>2, HandoverAssumption DEF Unknown
    <3>3. CASE Becomes(h, [req[h] EXCEPT !.pc = "of", !.rank = k])
      BY <2>1, <3>3 DEF Gives, Becomes, Inv, TypeOK, Request
    <3>4. QED
      BY <3>1, <3>2, <3>3
  <2>5. CASE Of(h)
    BY <2>1, <2>5 DEF Gives, Of, Answers, Becomes, Idle, Inv, TypeOK, Request
  <2>6. CASE Expired(h)
    <3>1. req[h].pc = "expired" /\ ~(now > req[h].seen)
      BY <2>1, <2>6 DEF Gives, Expired, Answers, Becomes, After, Inv, TypeOK, Request
    <3>2. /\ lastSet[p] # Never /\ req[h].seen <= lastSet[p] + Duration
          /\ now \in Int /\ Duration \in Int /\ lastSet[p] \in Int /\ req[h].seen \in Int
      BY <2>1, <2>2, <3>1, HandoverAssumption DEF Inv, SeenOfLastSet, TypeOK, Request, Time, Never
    <3>3. QED
      BY <3>1, <3>2 DEF Recent
  <2>7. CASE Remove(h)
    BY <2>1, <2>7 DEF Gives, Remove, Answers, Becomes, Idle, Inv, TypeOK, Request
  <2>8. QED
    BY <2>3, <2>4, <2>5, <2>6, <2>7
<1>2. QED
  BY <1>1, HandoverInvariant, PTL DEF Spec, AdmittedAfterTransfer

\* A refusal of a recently transferred player is always the fault of another
\* request that was between its two locks when the token was stored.
THEOREM RefusalsAreRaces == Spec => RefusedOnlyIfRaced
<1> DEFINE Refuses == \A h \in Handler : Gives(h, "refused") =>
                         \/ ~Recent(req[h].player)
                         \/ raced[req[h].player]
<1>1. Inv /\ [Next]_vars => [Refuses]_vars
  <2>1. SUFFICES ASSUME Inv, Next, NEW h \in Handler, Gives(h, "refused")
                 PROVE  ~Recent(req[h].player) \/ raced[req[h].player]
    OBVIOUS
  <2> DEFINE p == req[h].player
  <2>2. p \in Player
    BY <2>1 DEF Gives, Inv, BusyHasPlayer
  <2>3. Bypass(h) \/ Of(h) \/ Expired(h) \/ Remove(h)
    BY <2>1, AnsweredByOwnStep
  <2>4. CASE Bypass(h)
    BY <2>1, <2>4 DEF Gives, Bypass, Answers, Becomes, Idle, Inv, TypeOK, Request
  <2>5. CASE Of(h)
    <3>1. data[p] = Never
      BY <2>1, <2>5 DEF Gives, Of, Becomes, Inv, TypeOK, Request
    <3>2. QED
      BY <2>1, <2>2, <3>1 DEF Inv, GoneByRace
  <2>6. CASE Expired(h)
    BY <2>1, <2>6 DEF Gives, Expired, Answers, Becomes, Idle, Inv, TypeOK, Request
  <2>7. CASE Remove(h)
    <3>1. /\ now > req[h].seen /\ (req[h].seen = lastSet[p] + Duration \/ raced[p])
          /\ now \in Int /\ Duration \in Int /\ lastSet[p] \in Int
      BY <2>1, <2>2, <2>7, HandoverAssumption
      DEF Remove, Inv, RemovesExpired, SeenOfLastSet, TypeOK, Time, Never
    <3>2. QED
      BY <3>1 DEF Recent
  <2>8. QED
    BY <2>3, <2>4, <2>5, <2>6, <2>7
<1>2. QED
  BY <1>1, HandoverInvariant, PTL DEF Spec, RefusedOnlyIfRaced

=============================================================================

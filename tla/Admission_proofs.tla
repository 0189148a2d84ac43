---------------------------- MODULE Admission_proofs ----------------------------
(***************************************************************************)
(* Proofs about Admission, for any number of connections, addresses,       *)
(* attempts and windows.  Connections only meet in the cache, the rate     *)
(* limit and the bans, so the invariant has parts for those, CacheOK and   *)
(* LimitOK, and one for each connection, ConnOK: what it has been found to *)
(* be on its way, and which windows it could know of.                      *)
(***************************************************************************)
EXTENDS Admission, TLAPS

-----------------------------------------------------------------------------
(* The inductive invariant *)

Connection ==
    [pc : {"gone", "check", "request", "sent", "answered", "roles", "inflictions",
           "admitted", "here", "denied", "panic"},
     ip : Address \cup {"none"}, attempt : 0..(MaxRetries - 1),
     ttl : 0..Ttl, ends : 0..(MaxTime + Ttl),
     why : SUBSET {"limited", "unjudged", "overtaken", "unknown", "late"},
     knew : 0..(MaxTime + Ttl)]

CacheOK ==
    /\ cache \in [Address -> {"unknown", "proxy", "clean"}] /\ unjudged \subseteq Address
    /\ \A a \in Address \ unjudged :
          cache[a] # "unknown" => (cache[a] = "proxy" <=> a \in Proxy)

LimitOK ==
    /\ rateLimitReset \in 0..(MaxTime + Ttl + DefaultTTL) /\ overtaken \in BOOLEAN
    /\ window \in 0..(MaxTime + Ttl) /\ told \in 0..(MaxTime + Ttl)
    /\ told <= window /\ window <= now + Ttl
    /\ ~overtaken => told <= rateLimitReset

\* What holds of connection c when its record is r.  The headers it has got were
\* given by now, in a window that has begun.
ConnOK(c, r) ==
    /\ r.pc \notin {"gone", "denied", "panic"} => r.ip \in Address
    /\ (r.pc \in {"inflictions", "admitted", "here"} /\ r.ip \in Proxy \ Whitelist /\ c \notin Linked)
          => r.why \cap {"limited", "unjudged"} # {}
    /\ (r.pc \in {"admitted", "here"} /\ c \in banned) => r.why \cap {"late", "unknown"} # {}
    /\ r.pc = "check" => r.knew <= told
    /\ r.pc \in {"request", "sent", "answered"} => ("overtaken" \in r.why \/ r.knew <= now)
    /\ r.ends <= window /\ r.ends <= now + r.ttl

Inv ==
    /\ now \in 0..MaxTime /\ banned \subseteq Conn /\ closed \in 0..3
    /\ CacheOK /\ LimitOK
    /\ conn \in [Conn -> Connection]
    /\ \A c \in Conn : ConnOK(c, conn[c])

-----------------------------------------------------------------------------
(* One connection moves *)

LEMMA Ranges ==
    ASSUME Inv
    PROVE  /\ now \in Nat /\ MaxTime \in Nat /\ Ttl \in Nat /\ Ttl # 0 /\ DefaultTTL \in Nat
           /\ told \in Nat /\ window \in Nat /\ rateLimitReset \in Nat
           /\ \A x \in Connection : x.knew \in Nat /\ x.ttl \in Nat /\ x.ends \in Nat
  BY AdmissionAssumption DEF Inv, LimitOK, Connection

\* A player that is not connected, or not any more.
LEMMA GoneFits ==
    ASSUME window \in Nat, now \in Nat, NEW to \in {"gone", "denied", "panic"}
    PROVE  /\ [Gone EXCEPT !.pc = to] \in Connection /\ Gone \in Connection
           /\ \A c : ConnOK(c, [Gone EXCEPT !.pc = to]) /\ ConnOK(c, Gone)
<1>1. 0 \in 0..(MaxTime + Ttl) /\ 0 \in 0..(MaxRetries - 1) /\ 0 \in 0..Ttl
  BY AdmissionAssumption
<1>2. PICK g \in Connection : g = [Gone EXCEPT !.pc = to]
  BY <1>1 DEF Gone, Connection
<1>3. g.pc \in {"gone", "denied", "panic"} /\ g.ends = 0 /\ g.ttl = 0
  BY <1>2 DEF Gone
<1>4. Gone \in Connection /\ Gone.pc = "gone" /\ Gone.ends = 0 /\ Gone.ttl = 0
  BY <1>1 DEF Gone, Connection
<1>5. QED
  BY <1>2, <1>3, <1>4 DEF ConnOK

LEMMA InitInv == Init => Inv
<1> SUFFICES ASSUME Init PROVE Inv
  OBVIOUS
<1>1. now = 0 /\ window = 0 /\ 0 \in Nat
  BY DEF Init
<1>2. Gone \in Connection /\ \A c : ConnOK(c, Gone)
  BY <1>1, GoneFits
<1>3. CacheOK
  BY DEF Init, CacheOK
<1>4. LimitOK
  <2>1. /\ 0 \in 0..(MaxTime + Ttl + DefaultTTL) /\ 0 \in 0..(MaxTime + Ttl)
        /\ 0 <= 0 /\ 0 <= 0 + Ttl
    BY AdmissionAssumption
  <2>2. QED
    BY <2>1 DEF Init, LimitOK
<1>5. \A c \in Conn : conn[c] = Gone /\ ConnOK(c, conn[c])
  BY <1>2 DEF Init
<1>6. now \in 0..MaxTime /\ closed \in 0..3 /\ banned \subseteq Conn
      /\ conn \in [Conn -> Connection]
  BY <1>2, AdmissionAssumption DEF Init
<1>7. QED
  BY <1>3, <1>4, <1>5, <1>6 DEF Inv

\* Time, the windows of the API and the announced ones only move on.
LEMMA OthersKeep ==
    ASSUME Inv, NEW d, NEW x \in Connection, ConnOK(d, x), now' \in Nat, now <= now',
           LimitOK', told <= told', window <= window', (d \in banned') => (d \in banned)
    PROVE  ConnOK(d, x)'
<1>1. /\ now \in Nat /\ told \in Nat /\ window \in Nat /\ told' \in Int /\ window' \in Int
      /\ x.knew \in Nat /\ x.ttl \in Nat /\ x.ends \in Nat
  BY Ranges, AdmissionAssumption DEF LimitOK
<1>2. /\ x.ends <= window' /\ x.ends <= now' + x.ttl
      /\ x.pc = "check" => x.knew <= told'
      /\ x.pc \in {"request", "sent", "answered"} => ("overtaken" \in x.why \/ x.knew <= now')
  BY <1>1 DEF ConnOK
<1>3. QED
  BY <1>2 DEF ConnOK

\* Whatever becomes of connection c, the others stay as they are.
LEMMA GoesKeeps ==
    ASSUME Inv, NEW c \in Conn, NEW r \in Connection, Goes(c, r), ConnOK(c, r)',
           CacheOK', LimitOK', told <= told', window <= window', UNCHANGED <<now, banned, closed>>
    PROVE  Inv'
<1>1. /\ conn' \in [Conn -> Connection] /\ conn'[c] = r
      /\ \A d \in Conn : d # c => conn'[d] = conn[d]
  BY DEF Goes, Inv
<1>2. now' \in Nat /\ now <= now'
  BY Ranges
<1>3. \A d \in Conn : ConnOK(d, conn[d])'
  <2>1. SUFFICES ASSUME NEW d \in Conn PROVE ConnOK(d, conn[d])'
    OBVIOUS
  <2>2. CASE d = c
    BY <1>1, <2>2 DEF ConnOK
  <2>3. CASE d # c
    <3>1. PICK x \in Connection : x = conn[d] /\ x = conn'[d] /\ ConnOK(d, x)
      BY <1>1, <2>3 DEF Inv
    <3>2. ConnOK(d, x)'
      BY <1>2, <3>1, OthersKeep
    <3>3. QED
      BY <3>1, <3>2 DEF ConnOK
  <2>4. QED
    BY <2>2, <2>3
<1>4. QED
  BY <1>1, <1>3 DEF Inv

\* What GoesKeeps asks for when the services are left alone.
LEMMA QuietKeeps ==
    ASSUME Inv, NEW c \in Conn, NEW r \in Connection, Goes(c, r), ConnOK(c, r),
           UNCHANGED <<now, services, banned, closed>>
    PROVE  Inv'
<1>1. UNCHANGED <<cache, unjudged, rateLimitReset, told, overtaken, window, now, banned, closed>>
  BY DEF services, verdicts, limit
<1>2. CacheOK' /\ LimitOK' /\ told <= told' /\ window <= window'
  BY <1>1, Ranges DEF Inv, CacheOK, LimitOK
<1>3. ConnOK(c, r)'
  BY <1>1 DEF ConnOK
<1>4. QED
  BY <1>1, <1>2, <1>3, GoesKeeps

LEMMA DeniedFits == Inv => Denied \in Connection /\ \A c : ConnOK(c, Denied)
<1> SUFFICES ASSUME Inv PROVE Denied \in Connection /\ \A c : ConnOK(c, Denied)
  OBVIOUS
<1>1. "denied" \in {"gone", "denied", "panic"}
  OBVIOUS
<1>2. QED
  BY <1>1, Ranges, GoneFits DEF Denied

\* The connection after CheckIP has returned: with the verdict on its address, or
\* marked with the reason why this verdict need not be true.
LEMMA AfterCheckFits ==
    ASSUME Inv, NEW c \in Conn, conn[c].ip \in Address, NEW verdict \in {"proxy", "clean"},
           NEW marks \in SUBSET {"limited", "unjudged"},
           verdict = "clean" => (conn[c].ip \notin Proxy \ Whitelist \/ marks # {})
    PROVE  /\ Marked(AfterCheck(c, verdict), marks) \in Connection
           /\ ConnOK(c, Marked(AfterCheck(c, verdict), marks))
<1> DEFINE to == IF verdict = "proxy" THEN "roles" ELSE "inflictions"
           r == [Gone EXCEPT !.pc = to, !.ip = conn[c].ip, !.why = marks]
<1>1. 0 \in 0..(MaxTime + Ttl) /\ 0 \in 0..(MaxRetries - 1) /\ 0 \in 0..Ttl
  BY AdmissionAssumption
<1>2. Marked(AfterCheck(c, verdict), marks) = r
  BY DEF Marked, AfterCheck, Gone
<1>3. /\ r \in Connection /\ r.pc = to /\ r.ip = conn[c].ip /\ r.why = marks
      /\ r.ends = 0 /\ r.ttl = 0
  BY <1>1 DEF Gone, Connection
<1>4. to \in {"roles", "inflictions"} /\ (to = "inflictions" => verdict = "clean")
  OBVIOUS
<1> HIDE DEF r, to
<1>5. r.ends <= window /\ r.ends <= now + r.ttl
  BY <1>3, Ranges
<1>6. ConnOK(c, r)
  BY <1>3, <1>4, <1>5 DEF ConnOK
<1>7. QED
  BY <1>2, <1>3, <1>6

\* The next attempt, or the end.
LEMMA AgainFits ==
    ASSUME Inv, NEW c \in Conn, conn[c].pc \in {"sent", "answered"}, Again(c)
    PROVE  \E r \in Connection : Goes(c, r) /\ ConnOK(c, r)
<1>1. /\ conn[c] \in Connection /\ conn[c].ip \in Address
      /\ "overtaken" \in conn[c].why \/ conn[c].knew <= now
  BY DEF Inv, ConnOK
<1>2. CASE Goes(c, Denied)
  BY <1>2, DeniedFits
<1>3. CASE /\ conn[c].attempt + 1 < MaxRetries
           /\ Goes(c, [conn[c] EXCEPT !.pc = "request", !.attempt = @ + 1, !.ttl = 0, !.ends = 0])
  <2>1. /\ conn[c].attempt + 1 \in 0..(MaxRetries - 1)
        /\ 0 \in 0..(MaxTime + Ttl) /\ 0 \in 0..Ttl
    BY <1>1, <1>3, AdmissionAssumption DEF Connection
  <2>2. PICK r : r = [conn[c] EXCEPT !.pc = "request", !.attempt = @ + 1, !.ttl = 0, !.ends = 0]
    OBVIOUS
  <2>3. /\ r \in Connection /\ r.pc = "request" /\ r.ip = conn[c].ip /\ r.knew = conn[c].knew
        /\ r.why = conn[c].why /\ r.ends = 0 /\ r.ttl = 0
    BY <1>1, <2>1, <2>2 DEF Connection
  <2>4. r.ends <= window /\ r.ends <= now + r.ttl
    BY <2>3, Ranges
  <2>5. ConnOK(c, r)
    BY <1>1, <2>3, <2>4 DEF ConnOK
  <2>6. QED
    BY <1>3, <2>2, <2>3, <2>5
<1>4. QED
  BY <1>2, <1>3 DEF Again

\* A handled header sets the reset to the end of its window or later, unless it is
\* one that knew less.
LEMMA HeadersFit ==
    ASSUME Inv, NEW c \in Conn, handleRateLimitHeaders(c), UNCHANGED <<now, window>>
    PROVE  LimitOK' /\ told <= told'
<1>1. /\ now \in Nat /\ now <= MaxTime /\ MaxTime \in Nat /\ Ttl \in Nat /\ DefaultTTL \in Nat
      /\ told \in Nat /\ window \in Nat /\ told <= window /\ window <= now + Ttl
      /\ window \in 0..(MaxTime + Ttl) /\ overtaken \in BOOLEAN
      /\ ~overtaken => told <= rateLimitReset
  BY Ranges DEF Inv, LimitOK
<1>2. PICK ttl \in 0..Ttl : ttl = conn[c].ttl
  BY DEF Inv, Connection
<1>3. PICK ends \in 0..(MaxTime + Ttl) : ends = conn[c].ends
  BY DEF Inv, Connection
<1>4. ends <= window /\ ends <= now + ttl
  BY <1>2, <1>3 DEF Inv, ConnOK
<1>5. CASE UNCHANGED limit
  BY <1>1, <1>5 DEF limit, Inv, LimitOK
<1>6. CASE /\ rateLimitReset' = now + ttl
           /\ told' = IF ends < told THEN told ELSE ends
           /\ overtaken' = (ends < told)
  <2>1. rateLimitReset' \in 0..(MaxTime + Ttl + DefaultTTL)
    BY <1>1, <1>2, <1>6
  <2>2. told' \in 0..(MaxTime + Ttl) /\ told' <= window /\ told <= told'
    BY <1>1, <1>3, <1>4, <1>6
  <2>3. ends >= told => told' <= rateLimitReset'
    BY <1>1, <1>2, <1>3, <1>4, <1>6
  <2>4. overtaken' \in BOOLEAN /\ (~overtaken' => told' <= rateLimitReset')
    <3>1. CASE ends < told
      BY <1>6, <3>1
    <3>2. CASE ~(ends < told)
      <4>1. told' <= rateLimitReset'
        BY <1>1, <1>3, <2>3, <3>2
      <4>2. QED
        BY <1>6, <3>2, <4>1
    <3>3. QED
      BY <3>1, <3>2
  <2>5. QED
    BY <1>1, <2>1, <2>2, <2>4 DEF LimitOK
<1>7. CASE /\ rateLimitReset' = now + DefaultTTL
           /\ overtaken' = (DefaultTTL < Ttl) /\ UNCHANGED told
  <2>1. rateLimitReset' \in 0..(MaxTime + Ttl + DefaultTTL)
    BY <1>1, <1>7
  <2>2. DefaultTTL >= Ttl => told' <= rateLimitReset'
    BY <1>1, <1>7
  <2>3. overtaken' \in BOOLEAN /\ (~overtaken' => told' <= rateLimitReset')
    <3>1. CASE DefaultTTL < Ttl
      BY <1>7, <3>1
    <3>2. CASE ~(DefaultTTL < Ttl)
      <4>1. told' <= rateLimitReset'
        BY <1>1, <2>2, <3>2
      <4>2. QED
        BY <1>7, <3>2, <4>1
    <3>3. QED
      BY <3>1, <3>2
  <2>4. told' \in 0..(MaxTime + Ttl) /\ told <= told' /\ told' <= window'
    BY <1>1, <1>7
  <2>5. QED
    BY <1>1, <2>1, <2>3, <2>4 DEF LimitOK
<1>8. QED
  BY <1>2, <1>3, <1>5, <1>6, <1>7 DEF handleRateLimitHeaders

-----------------------------------------------------------------------------
(* The actions *)

LEMMA ConnectKeeps ==
    ASSUME Inv, NEW c \in Conn, NEW a \in Address, Connect(c, a)
    PROVE  Inv'
<1> DEFINE r == [Gone EXCEPT !.pc = "check", !.ip = a, !.knew = told]
<1>1. told \in 0..(MaxTime + Ttl)
  BY DEF Inv, LimitOK
<1>2. 0 \in 0..(MaxTime + Ttl) /\ 0 \in 0..(MaxRetries - 1) /\ 0 \in 0..Ttl
  BY AdmissionAssumption
<1>3. /\ r \in Connection /\ r.pc = "check" /\ r.ip = a /\ r.knew = told
      /\ r.ends = 0 /\ r.ttl = 0
  BY <1>1, <1>2 DEF Gone, Connection
<1>4. Goes(c, r) /\ UNCHANGED <<now, services, banned, closed>>
  BY DEF Connect
<1> HIDE DEF r
<1>5. r.ends <= window /\ r.ends <= now + r.ttl /\ r.knew <= told
  BY <1>3, Ranges
<1>6. ConnOK(c, r)
  BY <1>3, <1>5 DEF ConnOK
<1>7. QED
  BY <1>3, <1>4, <1>6, QuietKeeps

LEMMA CheckIPKeeps ==
    ASSUME Inv, NEW c \in Conn, CheckIP(c)
    PROVE  Inv'
<1> DEFINE a == conn[c].ip
<1>1. /\ conn[c] \in Connection /\ conn[c].pc = "check" /\ a \in Address
      /\ conn[c].knew <= told /\ ConnOK(c, conn[c])
      /\ UNCHANGED <<now, services, banned, closed>>
  BY DEF CheckIP, Inv, ConnOK
<1>2. CASE a \in Whitelist /\ Goes(c, AfterCheck(c, "clean"))
  <2>1. PICK none \in SUBSET {"limited", "unjudged"} : none = {}
    OBVIOUS
  <2>2. AfterCheck(c, "clean") = Marked(AfterCheck(c, "clean"), none)
    BY <2>1 DEF AfterCheck, Marked, Gone
  <2>3. QED
    BY <1>1, <1>2, <2>1, <2>2, AfterCheckFits, QuietKeeps
<1>3. CASE /\ cache[a] # "unknown"
           /\ Goes(c, Marked(AfterCheck(c, cache[a]), IF a \in unjudged THEN {"unjudged"} ELSE {}))
  <2>1. PICK marks \in SUBSET {"limited", "unjudged"} :
           marks = IF a \in unjudged THEN {"unjudged"} ELSE {}
    OBVIOUS
  <2>2. PICK verdict \in {"proxy", "clean"} : verdict = cache[a]
    BY <1>1, <1>3 DEF Inv, CacheOK
  <2>3. verdict = "clean" => (a \notin Proxy \ Whitelist \/ marks # {})
    BY <1>1, <1>3, <2>1, <2>2 DEF Inv, CacheOK
  <2>4. QED
    BY <1>1, <1>3, <2>1, <2>2, <2>3, AfterCheckFits, QuietKeeps
<1>4. CASE Goes(c, Marked(AfterCheck(c, "clean"), {"limited"}))
  <2>1. PICK marks \in SUBSET {"limited", "unjudged"} : marks = {"limited"}
    OBVIOUS
  <2>2. QED
    BY <1>1, <1>4, <2>1, AfterCheckFits, QuietKeeps
<1>5. CASE /\ ~Before(rateLimitReset)
           /\ Goes(c, Marked([conn[c] EXCEPT !.pc = "request"],
                              IF overtaken THEN {"overtaken"} ELSE {}))
  <2>1. PICK marks \in SUBSET {"overtaken"} : marks = IF overtaken THEN {"overtaken"} ELSE {}
    OBVIOUS
  <2>2. PICK r : r = Marked([conn[c] EXCEPT !.pc = "request"], marks)
    OBVIOUS
  <2>3. /\ r \in Connection /\ r.pc = "request" /\ r.ip = a /\ r.knew = conn[c].knew
        /\ r.why = conn[c].why \cup marks /\ r.ends = conn[c].ends /\ r.ttl = conn[c].ttl
    BY <1>1, <2>1, <2>2 DEF Marked, Connection
  <2>4. "overtaken" \in marks \/ conn[c].knew <= now
    <3>1. CASE overtaken
      BY <2>1, <3>1
    <3>2. CASE ~overtaken
      <4>1. told <= rateLimitReset /\ ~(now < rateLimitReset)
        BY <1>5, <3>2 DEF Inv, LimitOK, Before
      <4>2. QED
        BY <1>1, <4>1, Ranges
    <3>3. QED
      BY <3>1, <3>2
  <2>5. ConnOK(c, r)
    BY <1>1, <2>3, <2>4 DEF ConnOK
  <2>6. QED
    BY <1>1, <1>5, <2>1, <2>2, <2>3, <2>5, QuietKeeps
<1>6. QED
  BY <1>2, <1>3, <1>4, <1>5 DEF CheckIP

LEMMA RequestKeeps ==
    ASSUME Inv, NEW c \in Conn, Request(c)
    PROVE  Inv'
<1>1. /\ conn[c] \in Connection /\ conn[c].pc = "request" /\ ConnOK(c, conn[c])
      /\ UNCHANGED <<now, services, banned, closed>>
  BY DEF Request, Inv
<1>2. CASE Goes(c, Denied)
  BY <1>1, <1>2, DeniedFits, QuietKeeps
<1>3. CASE Goes(c, [conn[c] EXCEPT !.pc = "sent"])
  <2>1. PICK r : r = [conn[c] EXCEPT !.pc = "sent"]
    OBVIOUS
  <2>2. /\ r \in Connection /\ r.pc = "sent" /\ r.ip = conn[c].ip /\ r.knew = conn[c].knew
        /\ r.why = conn[c].why /\ r.ends = conn[c].ends /\ r.ttl = conn[c].ttl
    BY <1>1, <2>1 DEF Connection
  <2>3. ConnOK(c, r)
    BY <1>1, <2>2 DEF ConnOK
  <2>4. QED
    BY <1>1, <1>3, <2>1, <2>2, <2>3, QuietKeeps
<1>4. QED
  BY <1>2, <1>3 DEF Request

\* A window that begins ends after the ones before it.
LEMMA AnswerKeeps ==
    ASSUME Inv, NEW c \in Conn, Answer(c)
    PROVE  Inv'
<1>1. /\ conn[c] \in Connection /\ conn[c].pc = "sent" /\ ConnOK(c, conn[c])
      /\ UNCHANGED <<cache, unjudged, rateLimitReset, told, overtaken, now, banned, closed>>
  BY DEF Answer, verdicts, limit, Inv
<1>2. CacheOK'
  BY <1>1 DEF Inv, CacheOK
<1>3. CASE Goes(c, [conn[c] EXCEPT !.pc = "answered"]) /\ UNCHANGED window
  <2>1. PICK r : r = [conn[c] EXCEPT !.pc = "answered"]
    OBVIOUS
  <2>2. /\ r \in Connection /\ r.pc = "answered" /\ r.ip = conn[c].ip /\ r.knew = conn[c].knew
        /\ r.why = conn[c].why /\ r.ends = conn[c].ends /\ r.ttl = conn[c].ttl
    BY <1>1, <2>1 DEF Connection
  <2>3. ConnOK(c, r)
    BY <1>1, <2>2 DEF ConnOK
  <2>4. UNCHANGED <<now, services, banned, closed>>
    BY <1>1, <1>3 DEF services, verdicts, limit
  <2>5. QED
    BY <1>3, <2>1, <2>2, <2>3, <2>4, QuietKeeps
<1>4. CASE /\ IF Before(window) THEN UNCHANGED window ELSE window' \in now+1..now+Ttl
           /\ Goes(c, [conn[c] EXCEPT !.pc = "answered", !.ttl = window' - now, !.ends = window'])
  <2>1. /\ window' \in 0..(MaxTime + Ttl) /\ window <= window' /\ window' <= now + Ttl
        /\ window' - now \in 0..Ttl
    <3>1. /\ now \in Nat /\ now <= MaxTime /\ MaxTime \in Nat /\ Ttl \in Nat /\ window \in Nat
          /\ window <= now + Ttl
      BY Ranges DEF Inv, LimitOK
    <3>2. CASE now < window /\ window' = window
      BY <3>1, <3>2
    <3>3. CASE ~(now < window) /\ window' \in now+1..now+Ttl
      <4>1. PICK w \in now+1..now+Ttl : w = window'
        BY <3>3
      <4>2. w \in 0..(MaxTime + Ttl) /\ window <= w /\ w <= now + Ttl
        BY <3>1, <3>3
      <4>3. w - now \in 0..Ttl
        BY <3>1
      <4>4. QED
        BY <4>1, <4>2, <4>3
    <3>4. QED
      BY <1>4, <3>2, <3>3 DEF Before
  <2>2. PICK r : r = [conn[c] EXCEPT !.pc = "answered", !.ttl = window' - now, !.ends = window']
    OBVIOUS
  <2>3. /\ r \in Connection /\ r.pc = "answered" /\ r.ip = conn[c].ip /\ r.knew = conn[c].knew
        /\ r.why = conn[c].why /\ r.ends = window' /\ r.ttl = window' - now
    BY <1>1, <2>1, <2>2 DEF Connection
  <2>4. r.ends <= window' /\ r.ends <= now + r.ttl
    BY <2>1, <2>3, Ranges
  <2>5. ConnOK(c, r)'
    BY <1>1, <2>3, <2>4 DEF ConnOK
  <2>6. told' <= window'
    BY <1>1, <2>1, Ranges DEF Inv, LimitOK
  <2>7. LimitOK' /\ told <= told'
    BY <1>1, <2>1, <2>6, Ranges DEF Inv, LimitOK
  <2>8. QED
    BY <1>1, <1>2, <1>4, <2>1, <2>2, <2>3, <2>5, <2>7, GoesKeeps
<1>5. QED
  BY <1>3, <1>4 DEF Answer

\* The verdict that is stored is the one that decides where the connection
\* goes on; what is stored without a verdict is marked, and denies it.
LEMMA handleResponseKeeps ==
    ASSUME Inv, NEW c \in Conn, handleResponse(c)
    PROVE  Inv'
<1> DEFINE a == conn[c].ip
           true == IF a \in Proxy THEN "proxy" ELSE "clean"
<1>1. /\ conn[c].pc = "answered" /\ a \in Address /\ handleRateLimitHeaders(c)
      /\ UNCHANGED <<now, window, banned, closed>>
  BY DEF handleResponse, Inv, ConnOK
<1>2. LimitOK' /\ told <= told' /\ window <= window'
  BY <1>1, HeadersFit, Ranges
<1>3. ASSUME CacheOK', NEW r \in Connection, Goes(c, r), ConnOK(c, r)
      PROVE  Inv'
  <2>1. now' \in Nat /\ now <= now'
    BY <1>1, Ranges
  <2>2. ConnOK(c, r)'
    BY <1>1, <1>2, <1>3, <2>1, OthersKeep
  <2>3. QED
    BY <1>1, <1>2, <1>3, <2>2, GoesKeeps
<1>4. CASE /\ cache' = [cache EXCEPT ![a] = true] /\ unjudged' = unjudged \ {a}
           /\ Goes(c, AfterCheck(c, true))
  <2>1. PICK verdict \in {"proxy", "clean"} : verdict = true
    OBVIOUS
  <2>2. CacheOK'
    <3>1. /\ cache' \in [Address -> {"unknown", "proxy", "clean"}] /\ cache'[a] = verdict
          /\ \A b \in Address \ {a} : cache'[b] = cache[b]
          /\ unjudged' \subseteq Address
      BY <1>1, <1>4, <2>1 DEF Inv, CacheOK
    <3>2. QED
      BY <1>4, <2>1, <3>1 DEF Inv, CacheOK
  <2>3. PICK none \in SUBSET {"limited", "unjudged"} : none = {}
    OBVIOUS
  <2>4. AfterCheck(c, verdict) = Marked(AfterCheck(c, verdict), none)
    BY <2>3 DEF AfterCheck, Marked, Gone
  <2>5. AfterCheck(c, verdict) \in Connection /\ ConnOK(c, AfterCheck(c, verdict))
    BY <1>1, <2>1, <2>4, AfterCheckFits
  <2>6. QED
    BY <1>3, <1>4, <2>1, <2>2, <2>5
<1>5. CASE /\ \E field \in {"proxy", "clean"} : cache' = [cache EXCEPT ![a] = field]
           /\ unjudged' = unjudged \cup {a}
           /\ Goes(c, AfterCheck(c, "none"))
  <2>1. CacheOK'
    <3>1. /\ cache' \in [Address -> {"unknown", "proxy", "clean"}]
          /\ \A b \in Address \ {a} : cache'[b] = cache[b]
          /\ unjudged' \subseteq Address
      BY <1>1, <1>5 DEF Inv, CacheOK
    <3>2. QED
      BY <1>5, <3>1 DEF Inv, CacheOK
  <2>2. Goes(c, Denied)
    BY <1>5 DEF AfterCheck
  <2>3. QED
    BY <1>3, <2>1, <2>2, DeniedFits
<1>6. CASE /\ Again(c) \/ Goes(c, Denied)
           /\ UNCHANGED verdicts
  <2>1. CacheOK'
    BY <1>6 DEF verdicts, Inv, CacheOK
  <2>2. PICK r \in Connection : Goes(c, r) /\ ConnOK(c, r)
    BY <1>1, <1>6, AgainFits, DeniedFits
  <2>3. QED
    BY <1>3, <2>1, <2>2
<1>7. QED
  BY <1>4, <1>5, <1>6 DEF handleResponse

LEMMA NoResponseKeeps ==
    ASSUME Inv, NEW c \in Conn, NoResponse(c)
    PROVE  Inv'
<1>1. conn[c].pc \in {"sent", "answered"} /\ UNCHANGED <<now, services, banned, closed>>
  BY DEF NoResponse
<1>2. PICK r \in Connection : Goes(c, r) /\ ConnOK(c, r)
  BY <1>1, AgainFits, DeniedFits DEF NoResponse
<1>3. QED
  BY <1>1, <1>2, QuietKeeps

\* Only a player with a role gets past the ranks.
LEMMA RolesOfXUIDKeeps ==
    ASSUME Inv, NEW c \in Conn, RolesOfXUID(c)
    PROVE  Inv'
<1>1. /\ conn[c] \in Connection /\ conn[c].pc = "roles" /\ ConnOK(c, conn[c])
      /\ UNCHANGED <<now, services, banned, closed>>
  BY DEF RolesOfXUID, Inv
<1>2. CASE Goes(c, Denied)
  BY <1>1, <1>2, DeniedFits, QuietKeeps
<1>3. CASE c \in Linked /\ Goes(c, [conn[c] EXCEPT !.pc = "inflictions"])
  <2>1. PICK r : r = [conn[c] EXCEPT !.pc = "inflictions"]
    OBVIOUS
  <2>2. /\ r \in Connection /\ r.pc = "inflictions" /\ r.ip = conn[c].ip
        /\ r.ends = conn[c].ends /\ r.ttl = conn[c].ttl
    BY <1>1, <2>1 DEF Connection
  <2>3. ConnOK(c, r)
    BY <1>1, <1>3, <2>2 DEF ConnOK
  <2>4. QED
    BY <1>1, <1>3, <2>1, <2>2, <2>3, QuietKeeps
<1>4. QED
  BY <1>2, <1>3 DEF RolesOfXUID

\* The end of Allow: what was found out about the address is kept.
LEMMA InflictionOfKeeps ==
    ASSUME Inv, NEW c \in Conn, InflictionOf(c)
    PROVE  Inv'
<1>1. /\ conn[c] \in Connection /\ conn[c].pc = "inflictions" /\ ConnOK(c, conn[c])
      /\ UNCHANGED <<now, services, banned, closed>>
  BY DEF InflictionOf, Inv
<1>2. CASE Goes(c, Denied)
  BY <1>1, <1>2, DeniedFits, QuietKeeps
<1>3. CASE c \notin banned /\ Goes(c, [conn[c] EXCEPT !.pc = "admitted"])
  <2>1. PICK r : r = [conn[c] EXCEPT !.pc = "admitted"]
    OBVIOUS
  <2>2. /\ r \in Connection /\ r.pc = "admitted" /\ r.ip = conn[c].ip /\ r.why = conn[c].why
        /\ r.ends = conn[c].ends /\ r.ttl = conn[c].ttl
    BY <1>1, <2>1 DEF Connection
  <2>3. ConnOK(c, r)
    BY <1>1, <1>3, <2>2 DEF ConnOK
  <2>4. QED
    BY <1>1, <1>3, <2>1, <2>2, <2>3, QuietKeeps
<1>4. CASE Goes(c, [conn[c] EXCEPT !.pc = "admitted", !.why = @ \cup {"unknown"}])
  <2>1. PICK r : r = [conn[c] EXCEPT !.pc = "admitted", !.why = @ \cup {"unknown"}]
    OBVIOUS
  <2>2. conn[c].why \cup {"unknown"} \in SUBSET {"limited", "unjudged", "overtaken", "unknown", "late"}
    BY <1>1 DEF Connection
  <2>3. /\ r \in Connection /\ r.pc = "admitted" /\ r.ip = conn[c].ip
        /\ r.why = conn[c].why \cup {"unknown"}
        /\ r.ends = conn[c].ends /\ r.ttl = conn[c].ttl
    BY <1>1, <2>1, <2>2 DEF Connection
  <2>4. ConnOK(c, r)
    BY <1>1, <2>3 DEF ConnOK
  <2>5. QED
    BY <1>1, <1>4, <2>1, <2>3, <2>4, QuietKeeps
<1>5. CASE Goes(c, [Gone EXCEPT !.pc = "panic"])
  <2>1. "panic" \in {"gone", "denied", "panic"}
    OBVIOUS
  <2>2. [Gone EXCEPT !.pc = "panic"] \in Connection /\ ConnOK(c, [Gone EXCEPT !.pc = "panic"])
    BY <2>1, Ranges, GoneFits
  <2>3. QED
    BY <1>1, <1>5, <2>2, QuietKeeps
<1>6. QED
  BY <1>2, <1>3, <1>4, <1>5 DEF InflictionOf

LEMMA JoinKeeps ==
    ASSUME Inv, NEW c \in Conn, Join(c)
    PROVE  Inv'
<1>1. /\ conn[c] \in Connection /\ conn[c].pc = "admitted" /\ ConnOK(c, conn[c])
      /\ UNCHANGED <<now, services, banned, closed>>
  BY DEF Join, Inv
<1>2. PICK r : r = [conn[c] EXCEPT !.pc = "here"] /\ Goes(c, r)
  BY DEF Join
<1>3. /\ r \in Connection /\ r.pc = "here" /\ r.ip = conn[c].ip /\ r.why = conn[c].why
      /\ r.ends = conn[c].ends /\ r.ttl = conn[c].ttl
  BY <1>1, <1>2 DEF Connection
<1>4. ConnOK(c, r)
  BY <1>1, <1>3 DEF ConnOK
<1>5. QED
  BY <1>1, <1>2, <1>3, <1>4, QuietKeeps

\* The connection ends, by itself or because its player is kicked.
LEMMA GoneKeeps ==
    ASSUME Inv, NEW c \in Conn, Goes(c, Gone), UNCHANGED <<now, services, banned, closed>>
    PROVE  Inv'
<1>1. "gone" \in {"gone", "denied", "panic"}
  OBVIOUS
<1>2. Gone \in Connection /\ ConnOK(c, Gone)
  BY <1>1, Ranges, GoneFits
<1>3. QED
  BY <1>2, QuietKeeps

\* A ban of a player that is in the hub is marked as one that came late.
LEMMA BanKeeps ==
    ASSUME Inv, NEW c \in Conn, Ban(c)
    PROVE  Inv'
<1>1. /\ banned' = banned \cup {c} /\ UNCHANGED <<now, services, closed>>
  BY DEF Ban
<1> DEFINE why == IF conn[c].pc \in {"admitted", "here"} THEN conn[c].why \cup {"late"}
                                                          ELSE conn[c].why
<1>2. conn[c] \in Connection /\ ConnOK(c, conn[c])
  BY DEF Inv
<1>3. /\ why \in SUBSET {"limited", "unjudged", "overtaken", "unknown", "late"}
      /\ conn[c].why \subseteq why
      /\ conn[c].pc \in {"admitted", "here"} => "late" \in why
  BY <1>2 DEF Connection
<1>4. PICK r : r = [conn[c] EXCEPT !.why = why]
  OBVIOUS
<1>5. conn' = [conn EXCEPT ![c] = r]
  BY <1>4 DEF Ban, Inv
<1> HIDE DEF why
<1>6. /\ r \in Connection /\ r.pc = conn[c].pc /\ r.ip = conn[c].ip /\ r.knew = conn[c].knew
      /\ r.why = why /\ r.ends = conn[c].ends /\ r.ttl = conn[c].ttl
  BY <1>2, <1>3, <1>4 DEF Connection
<1>7. /\ conn' \in [Conn -> Connection] /\ conn'[c] = r
      /\ \A d \in Conn : d # c => conn'[d] = conn[d]
  BY <1>5, <1>6 DEF Inv
<1>8. UNCHANGED <<now, told, window>> /\ CacheOK' /\ LimitOK'
  BY <1>1 DEF Inv, CacheOK, LimitOK, services, verdicts, limit
<1>9. \A d \in Conn : ConnOK(d, conn[d])'
  <2>1. SUFFICES ASSUME NEW d \in Conn PROVE ConnOK(d, conn[d])'
    OBVIOUS
  <2>2. CASE d = c
    BY <1>2, <1>3, <1>6, <1>7, <1>8, <2>2 DEF ConnOK
  <2>3. CASE d # c
    <3>1. ConnOK(d, conn[d]) /\ conn'[d] = conn[d] /\ (d \in banned' <=> d \in banned)
      BY <1>1, <1>7, <2>3 DEF Inv
    <3>2. QED
      BY <1>8, <3>1 DEF ConnOK
  <2>4. QED
    BY <2>2, <2>3
<1>10. QED
  BY <1>1, <1>7, <1>8, <1>9 DEF Inv

LEMMA TickKeeps ==
    ASSUME Inv, Tick
    PROVE  Inv'
<1>1. now' = now + 1 /\ now < MaxTime /\ UNCHANGED <<services, conn, banned, closed>>
  BY DEF Tick
<1>2. now' \in 0..MaxTime /\ now' \in Nat /\ now <= now'
  BY <1>1, Ranges DEF Inv
<1>3. UNCHANGED <<cache, unjudged, rateLimitReset, told, overtaken, window>>
  BY <1>1 DEF services, verdicts, limit
<1>4. CacheOK' /\ LimitOK' /\ told <= told' /\ window <= window'
  BY <1>2, <1>3, Ranges DEF Inv, CacheOK, LimitOK
<1>5. \A c \in Conn : ConnOK(c, conn[c])'
  <2>1. SUFFICES ASSUME NEW c \in Conn PROVE ConnOK(c, conn[c])'
    OBVIOUS
  <2>2. PICK x \in Connection : x = conn[c] /\ x = conn'[c] /\ ConnOK(c, x)
    BY <1>1 DEF Inv
  <2>3. ConnOK(c, x)'
    BY <1>1, <1>2, <1>4, <2>2, OthersKeep
  <2>4. QED
    BY <2>2, <2>3 DEF ConnOK
<1>6. QED
  BY <1>1, <1>2, <1>4, <1>5 DEF Inv

LEMMA NextInv == Inv /\ [Next]_vars => Inv'
<1> SUFFICES ASSUME Inv, [Next]_vars PROVE Inv'
  OBVIOUS
<1>1. ASSUME NEW c \in Conn, \/ \E a \in Address : Connect(c, a)
                             \/ CheckIP(c) \/ Request(c) \/ Answer(c) \/ handleResponse(c) \/ NoResponse(c)
                             \/ RolesOfXUID(c) \/ InflictionOf(c) \/ Join(c)
      PROVE  Inv'
  BY <1>1, ConnectKeeps, CheckIPKeeps, RequestKeeps, AnswerKeeps, handleResponseKeeps, NoResponseKeeps,
     RolesOfXUIDKeeps, InflictionOfKeeps, JoinKeeps
<1>2. ASSUME NEW c \in Conn, Leave(c) \/ Kick(c)
      PROVE  Inv'
  BY <1>2, GoneKeeps DEF Leave, Kick
<1>3. ASSUME NEW c \in Conn, Ban(c)
      PROVE  Inv'
  BY <1>3, BanKeeps
<1>4. CASE Close
  BY <1>4 DEF Close, Inv, CacheOK, LimitOK, ConnOK, services, verdicts, limit
<1>5. CASE Tick
  BY <1>5, TickKeeps
<1>6. CASE UNCHANGED vars
  BY <1>6 DEF vars, Inv, CacheOK, LimitOK, ConnOK, services, verdicts, limit
<1>7. QED
  BY <1>1, <1>2, <1>3, <1>4, <1>5, <1>6 DEF Next

-----------------------------------------------------------------------------
(* The theorems *)

\* What the cache says is true but for the entries without verdict, the reset is
\* no earlier than the window told unless an answer that knew less overtook it,
\* and each connection is where its checks have let it come.
THEOREM AdmissionInvariant == Spec => []Inv
  BY InitInv, NextInv, PTL DEF Spec

\* Every variable stays in its range; the attempts stay below MaxRetries.
THEOREM AdmissionTypes == Spec => []TypeOK
<1>1. Inv => TypeOK
  BY DEF Inv, CacheOK, LimitOK, TypeOK, Connection
<1>2. QED
  BY <1>1, AdmissionInvariant, PTL

\* Proxies get through for a linked player, under the rate limit or on an entry
\* that an answer without verdict left, and never because a request fails, a
\* service is closed or another connection's verdict was cached.
THEOREM ProxiesStayOut == Spec => []ProxiesKeptOut
<1>1. Inv => ProxiesKeptOut
  BY DEF Inv, ConnOK, ProxiesKeptOut, InHub
<1>2. QED
  BY <1>1, AdmissionInvariant, PTL

\* A banned player that is in the hub was banned too late, or the moderation
\* service did not tell.
THEOREM BansHold == Spec => []BanHolds
<1>1. Inv => BanHolds
  BY DEF Inv, ConnOK, BanHolds, InHub
<1>2. QED
  BY <1>1, AdmissionInvariant, PTL

\* Between the announcement of a limited window and its end, no connection that
\* comes sends a request, in whatever order the answers are handled, as long as
\* the last one is of that window, or unreadable with a DefaultTTL as long.
THEOREM WindowsAreRespected == Spec => WindowRespected
<1>1. Inv => [\A c \in Conn :
                (conn[c].pc = "request" /\ conn'[c].pc = "sent" /\ "overtaken" \notin conn[c].why)
                => conn[c].knew <= now]_vars
  BY DEF Inv, ConnOK
<1>2. QED
  BY <1>1, AdmissionInvariant, PTL DEF WindowRespected

=============================================================================

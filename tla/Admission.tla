------------------------------ MODULE Admission ------------------------------
(***************************************************************************)
(* The admission of connections (pokebedrock/allower.go): each connection  *)
(* runs Allow on a goroutine of its own, which asks the VPN service        *)
(* (vpn/service.go), for a proxy the rank service, and the moderation      *)
(* service, all over HTTP.  The verdicts of the VPN API are cached         *)
(* (VpnCache has the file of the cache), its rate limit is remembered.     *)
(* Staff bans players meanwhile, and the hub shuts its services down.      *)
(*                                                                         *)
(* A connection stands for its player.  The three APIs are external; what  *)
(* the VPN API says of an address does not change.  Addresses that do not  *)
(* parse are left out; loopback addresses are among the whitelisted ones.  *)
(***************************************************************************)
EXTENDS Integers

CONSTANTS
    Conn,         \* connections
    Address,      \* IP addresses
    Whitelist,    \* addresses in a whitelisted range
    Proxy,        \* addresses the VPN API calls proxies
    Linked,       \* players that have a role
    MaxRetries,   \* maxRetries of vpn/service.go
    Ttl,          \* the longest limited window of the VPN API
    DefaultTTL,   \* internal.DefaultTTL, the window of an unreadable header
    MaxTime       \* the clock stops here (bound)

ASSUME AdmissionAssumption ==
    /\ Whitelist \subseteq Address /\ Proxy \subseteq Address /\ Linked \subseteq Conn
    /\ MaxRetries \in Nat \ {0} /\ Ttl \in Nat \ {0} /\ DefaultTTL \in Nat /\ MaxTime \in Nat

VARIABLES
    now,             \* time.Now()
    cache,           \* Cache.data
    unjudged,        \* addresses whose entry is from an answer without verdict (history)
    rateLimitReset,  \* Service.rateLimitReset
    window,          \* end of the limited window of the VPN API (external)
    told,            \* end of the latest window that an answer announced (history)
    overtaken,       \* an answer that knew less has set rateLimitReset since (history)
    conn,            \* the connections
    banned,          \* players with a ban in the moderation service (external)
    closed           \* the services closed so far, in the order of Close

verdicts == <<cache, unjudged>>
limit == <<rateLimitReset, told, overtaken>>
services == <<verdicts, limit, window>>
vars == <<now, services, conn, banned, closed>>

\* A connection: its address, the attempt of CheckIP, and the X-Ttl header of its
\* answer (0 if requests remain); as history, the window this header tells of,
\* what happened to the connection on its way, and the window told as it came.
Gone == [pc |-> "gone", ip |-> "none", attempt |-> 0, ttl |-> 0, ends |-> 0,
         why |-> {}, knew |-> 0]

Closing == <<"moderation", "rank", "vpn">>

IsClosed(service) == \E i \in 1..closed : Closing[i] = service

TypeOK ==
    /\ now \in 0..MaxTime
    /\ cache \in [Address -> {"unknown", "proxy", "clean"}]
    /\ unjudged \subseteq Address
    /\ rateLimitReset \in 0..(MaxTime + Ttl + DefaultTTL)
    /\ window \in 0..(MaxTime + Ttl) /\ told \in 0..(MaxTime + Ttl)
    /\ overtaken \in BOOLEAN
    /\ conn \in [Conn ->
          [pc : {"gone", "check", "request", "sent", "answered", "roles", "inflictions",
                 "admitted", "here", "denied", "panic"},
           ip : Address \cup {"none"}, attempt : 0..(MaxRetries - 1),
           ttl : 0..Ttl, ends : 0..(MaxTime + Ttl),
           why : SUBSET {"limited", "unjudged", "overtaken", "unknown", "late"},
           knew : 0..(MaxTime + Ttl)]]
    /\ banned \subseteq Conn
    /\ closed \in 0..3

Init ==
    /\ now = 0
    /\ cache = [a \in Address |-> "unknown"] /\ unjudged = {}
    /\ rateLimitReset = 0 /\ window = 0 /\ told = 0 /\ overtaken = FALSE
    /\ conn = [c \in Conn |-> Gone]
    /\ banned = {} /\ closed = 0

-----------------------------------------------------------------------------
(* The VPN check *)

Denied == [Gone EXCEPT !.pc = "denied"]

\* Allow after CheckIP: a verdict decides where the connection goes on, an
\* answer without one denies it.
AfterCheck(c, verdict) ==
    IF verdict = "none" THEN Denied
    ELSE [Gone EXCEPT !.pc = IF verdict = "proxy" THEN "roles" ELSE "inflictions",
                      !.ip = conn[c].ip]

Goes(c, to) == conn' = [conn EXCEPT ![c] = to]

Connect(c, a) ==
    /\ conn[c].pc = "gone"
    /\ Goes(c, [Gone EXCEPT !.pc = "check", !.ip = a, !.knew = told])
    /\ UNCHANGED <<now, services, banned, closed>>

Before(t) == now < t

\* What a connection takes along as history from a check.
Marked(r, marks) == [r EXCEPT !.why = @ \cup marks]

\* CheckIP up to its loop: whitelist, cache, rate limit.
CheckIP(c) ==
    LET a == conn[c].ip
    IN  /\ conn[c].pc = "check"
        /\ \/ a \in Whitelist /\ Goes(c, AfterCheck(c, "clean"))
           \/ /\ a \notin Whitelist /\ cache[a] # "unknown"
              /\ Goes(c, Marked(AfterCheck(c, cache[a]),
                                IF a \in unjudged THEN {"unjudged"} ELSE {}))
           \/ /\ a \notin Whitelist /\ cache[a] = "unknown" /\ Before(rateLimitReset)
              /\ Goes(c, Marked(AfterCheck(c, "clean"), {"limited"}))
           \/ /\ a \notin Whitelist /\ cache[a] = "unknown" /\ ~Before(rateLimitReset)
              /\ Goes(c, Marked([conn[c] EXCEPT !.pc = "request"],
                                IF overtaken THEN {"overtaken"} ELSE {}))
    /\ UNCHANGED <<now, services, banned, closed>>

\* One turn of the loop of CheckIP, up to the request.
Request(c) ==
    /\ conn[c].pc = "request"
    /\ \/ IsClosed("vpn") /\ Goes(c, Denied)
       \/ ~IsClosed("vpn") /\ Goes(c, [conn[c] EXCEPT !.pc = "sent"])
    /\ UNCHANGED <<now, services, banned, closed>>

\* The VPN API answers.  Within a limited window, or if one begins with this
\* request, the headers say how long it lasts from now on.
Answer(c) ==
    /\ conn[c].pc = "sent"
    /\ \/ /\ Goes(c, [conn[c] EXCEPT !.pc = "answered"])
          /\ UNCHANGED window
       \/ /\ IF Before(window) THEN UNCHANGED window ELSE window' \in now+1..now+Ttl
          /\ Goes(c, [conn[c] EXCEPT !.pc = "answered", !.ttl = window' - now, !.ends = window'])
    /\ UNCHANGED <<now, verdicts, limit, banned, closed>>

\* Mutant of handleRateLimitHeaders: an unreadable header counts as no time.
handleRateLimitHeadersNoDefault(c) ==
    \/ conn[c].ttl = 0 /\ UNCHANGED limit
    \/ /\ conn[c].ttl # 0
       /\ rateLimitReset' = now + conn[c].ttl
       /\ told' = IF conn[c].ends < told THEN told ELSE conn[c].ends
       /\ overtaken' = (conn[c].ends < told)
    \/ /\ conn[c].ttl # 0
       /\ rateLimitReset' = now
       /\ overtaken' = (DefaultTTL < Ttl) /\ UNCHANGED told

\* The headers of an answer are handled whenever its goroutine gets there: the
\* time they tell of runs from then on, and replaces what was known, be it of a
\* later window.  A header that cannot be read tells of DefaultTTL.
handleRateLimitHeaders(c) ==
    \/ conn[c].ttl = 0 /\ UNCHANGED limit
    \/ /\ conn[c].ttl # 0
       /\ rateLimitReset' = now + conn[c].ttl
       /\ told' = IF conn[c].ends < told THEN told ELSE conn[c].ends
       /\ overtaken' = (conn[c].ends < told)
    \/ /\ conn[c].ttl # 0
       /\ rateLimitReset' = now + DefaultTTL
       /\ overtaken' = (DefaultTTL < Ttl) /\ UNCHANGED told

\* The record forgets the headers, which are handled.
Again(c) ==
    \/ /\ conn[c].attempt + 1 < MaxRetries
       /\ Goes(c, [conn[c] EXCEPT !.pc = "request", !.attempt = @ + 1, !.ttl = 0, !.ends = 0])
    \/ /\ conn[c].attempt + 1 = MaxRetries
       /\ Goes(c, Denied)

\* Mutant of handleResponse: the verdict of a proxy is not stored as such.
handleResponseCacheClean(c) ==
    LET a == conn[c].ip
    IN  /\ conn[c].pc = "answered"
        /\ handleRateLimitHeaders(c)
        /\ cache' = [cache EXCEPT ![a] = "clean"]
        /\ unjudged' = unjudged \ {a}
        /\ Goes(c, AfterCheck(c, IF a \in Proxy THEN "proxy" ELSE "clean"))
        /\ UNCHANGED <<now, window, banned, closed>>

\* handleResponse: a verdict; a decodable answer without one, whose Proxy field
\* is stored all the same; "too many requests"; or something unusable.  A
\* reserved range counts as clean.
handleResponse(c) ==
    LET a == conn[c].ip
        verdict == IF a \in Proxy THEN "proxy" ELSE "clean"
    IN  /\ conn[c].pc = "answered"
        /\ handleRateLimitHeaders(c)
        /\ \/ /\ cache' = [cache EXCEPT ![a] = verdict]
              /\ unjudged' = unjudged \ {a}
              /\ Goes(c, AfterCheck(c, verdict))
           \/ /\ \E field \in {"proxy", "clean"} : cache' = [cache EXCEPT ![a] = field]
              /\ unjudged' = unjudged \cup {a}
              /\ Goes(c, AfterCheck(c, "none"))
           \/ Again(c) /\ UNCHANGED verdicts
           \/ Goes(c, Denied) /\ UNCHANGED verdicts
        /\ UNCHANGED <<now, window, banned, closed>>

\* No answer arrives, though one may have been given: a time-out is tried again,
\* any other failure is not.
NoResponse(c) ==
    /\ conn[c].pc \in {"sent", "answered"}
    /\ Again(c) \/ Goes(c, Denied)
    /\ UNCHANGED <<now, services, banned, closed>>

-----------------------------------------------------------------------------
(* The other services *)

\* A linked account may use a proxy; a closed service knows no roles.
RolesOfXUID(c) ==
    /\ conn[c].pc = "roles"
    /\ \/ /\ ~IsClosed("rank") /\ c \in Linked
          /\ Goes(c, [conn[c] EXCEPT !.pc = "inflictions"])
       \/ Goes(c, Denied)
    /\ UNCHANGED <<now, services, banned, closed>>

\* Mutant of InflictionOf: closed, it finds nobody banned.
InflictionOfNobody(c) ==
    /\ conn[c].pc = "inflictions"
    /\ \/ /\ IsClosed("moderation") \/ c \notin banned
          /\ Goes(c, [conn[c] EXCEPT !.pc = "admitted"])
       \/ /\ ~IsClosed("moderation") /\ c \in banned
          /\ Goes(c, Denied)
    /\ UNCHANGED <<now, services, banned, closed>>

\* The end of Allow.  A failed request admits the player.  The closed service
\* returns neither inflictions nor an error, and Allow dereferences nil; one
\* that is closed between its attempts returns the error of the first.
InflictionOf(c) ==
    /\ conn[c].pc = "inflictions"
    /\ \/ /\ ~IsClosed("moderation") /\ c \notin banned
          /\ Goes(c, [conn[c] EXCEPT !.pc = "admitted"])
       \/ /\ ~IsClosed("moderation") /\ c \in banned
          /\ Goes(c, Denied)
       \/ /\ ~IsClosed("moderation")
          /\ Goes(c, [conn[c] EXCEPT !.pc = "admitted", !.why = @ \cup {"unknown"}])
       \/ /\ IsClosed("moderation")
          /\ Goes(c, [Gone EXCEPT !.pc = "panic"])
    /\ UNCHANGED <<now, services, banned, closed>>

-----------------------------------------------------------------------------
(* The hub and its staff *)

Join(c) ==
    /\ conn[c].pc = "admitted"
    /\ Goes(c, [conn[c] EXCEPT !.pc = "here"])
    /\ UNCHANGED <<now, services, banned, closed>>

Leave(c) ==
    /\ conn[c].pc \in {"here", "denied"}
    /\ Goes(c, Gone)
    /\ UNCHANGED <<now, services, banned, closed>>

\* A form adds a ban to the moderation service; Inflictions has its details.
Ban(c) ==
    /\ c \notin banned
    /\ banned' = banned \cup {c}
    /\ conn' = [conn EXCEPT ![c].why = IF conn[c].pc \in {"admitted", "here"}
                                       THEN @ \cup {"late"} ELSE @]
    /\ UNCHANGED <<now, services, closed>>

\* The callback of the form disconnects the player if it is there by then.
Kick(c) ==
    /\ c \in banned /\ conn[c].pc = "here"
    /\ Goes(c, Gone)
    /\ UNCHANGED <<now, services, banned, closed>>

\* PokeBedrock.Close stops one service after the other.
Close ==
    /\ closed < 3
    /\ closed' = closed + 1
    /\ UNCHANGED <<now, services, conn, banned>>

Tick ==
    /\ now < MaxTime
    /\ now' = now + 1
    /\ UNCHANGED <<services, conn, banned, closed>>

Next ==
    \/ \E c \in Conn :
          \/ \E a \in Address : Connect(c, a)
          \/ CheckIP(c) \/ Request(c) \/ Answer(c) \/ handleResponse(c) \/ NoResponse(c)
          \/ RolesOfXUID(c) \/ InflictionOf(c)
          \/ Join(c) \/ Leave(c) \/ Ban(c) \/ Kick(c)
    \/ Close \/ Tick

Spec == Init /\ [][Next]_vars

-----------------------------------------------------------------------------
(* Properties *)

InHub(c) == conn[c].pc \in {"admitted", "here"}

\* A proxy gets through for a player with a role, while the VPN API is not asked
\* because of its limit, or when the cached entry is that of an answer without
\* verdict (the connection that got the answer is itself denied); but never for
\* another reason, whatever fails or is shut down and in whatever order answers
\* of several connections reach the cache.
ProxiesKeptOut ==
    \A c \in Conn :
        (InHub(c) /\ conn[c].ip \in Proxy \ Whitelist /\ c \notin Linked)
        => conn[c].why \cap {"limited", "unjudged"} # {}

\* A banned player is in the hub only if the ban came after it was admitted, or
\* the moderation service failed to tell.
BanHolds == \A c \in banned : InHub(c) => conn[c].why \cap {"late", "unknown"} # {}

\* A connection that came when an answer had announced a limited window sends no
\* request before this window is over, unless the headers handled last were those
\* of an earlier window, or unreadable while DefaultTTL is shorter than a window.
WindowRespected ==
    [][\A c \in Conn :
         (conn[c].pc = "request" /\ conn'[c].pc = "sent" /\ "overtaken" \notin conn[c].why)
         => conn[c].knew <= now]_vars

=============================================================================

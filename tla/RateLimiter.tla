---------------------------- MODULE RateLimiter -----------------------------
(***************************************************************************)
(* internal/api/middleware.go: withRateLimit, clientIP and the fixed       *)
(* window counter behind them.  A request takes the time first and the     *)
(* limiter's lock after, so requests can reach allow later than others     *)
(* that arrived after them; how much later the scheduler decides, and the  *)
(* model bounds.                                                           *)
(*                                                                         *)
(* Time is counted in ticks of the monotonic clock.  passed is a history   *)
(* variable: the program keeps no such record.                             *)
(***************************************************************************)
EXTENDS Naturals, Sequences, FiniteSets, Functions

CONSTANTS
  Clients,      \* the addresses of those who send requests
  Slots,        \* goroutines that serve requests
  Proxy,        \* the address of a proxy in front of the server
  Blank,        \* a value of a header that is only white space
  Setups,       \* the deployments considered: whether there is a trusted proxy
  PerMin,       \* how many requests a minute a client may make
  Minute,       \* a minute, in ticks
  MaxLate,      \* bound: ticks between a request's arrival and its turn in allow
  Horizon       \* bound: the time at which a behaviour ends

ASSUME AddressAssumption ==
  Proxy \notin Clients /\ Blank \notin Clients \cup {Proxy} /\ Setups \subseteq BOOLEAN
ASSUME PerMinAssumption == PerMin \in Nat \ {0}
ASSUME TimeAssumption ==
  Minute \in Nat \ {0} /\ MaxLate \in Nat /\ MaxLate <= Minute /\ Horizon \in Nat

VARIABLES
  behindProxy,  \* whether requests come through a proxy whose header is trusted
  now,          \* the clock
  windows,      \* limiter.windows, a partial function from addresses
  last,         \* limiter.last, the time of the last sweep
  request,      \* the request each slot serves and that has not been decided
  passed        \* the requests of a client that got through: when each arrived, and a
                \* number that tells requests of one time apart

limiter == <<windows, last>>
limiterVars == <<behindProxy, now, limiter, request, passed>>

Window == [count : Nat, start : Nat]
Idle == [none |-> TRUE]
Waiting(s) == request[s] # Idle

LimiterInit ==
  /\ behindProxy \in Setups
  /\ now = 0
  /\ windows = [a \in {} |-> a]
  /\ last = 0
  /\ request = [s \in Slots |-> Idle]
  /\ passed = [c \in Clients |-> {}]

-----------------------------------------------------------------------------
\* A header is the list of its values, empty if it is not sent.  A client reaches
\* the server directly and may send any, or through the proxy, which sets it to the
\* address it saw; a further proxy adds what it saw behind that.
Message(c) ==
  IF behindProxy THEN [peer : {Proxy}, header : {<<c>>, <<c, Proxy>>}]
  ELSE [peer : {c}, header : UNION {[1 .. n -> Clients \cup {Blank}] : n \in 0 .. 2}]

\* Faulty: trusts the header of anyone.
HeaderAlways(m) ==
  IF m.header # <<>> /\ m.header[1] # Blank THEN m.header[1] ELSE m.peer

\* Faulty: the last value, which the proxy next to the server has added.
LastValue(m) ==
  IF behindProxy /\ m.header # <<>> /\ m.header[Len(m.header)] # Blank
  THEN m.header[Len(m.header)] ELSE m.peer

\* The first value of the trusted header, the one the operator has named if there
\* is a proxy; without one, the address the connection comes from.
ClientIP(m) ==
  IF behindProxy /\ m.header # <<>> /\ m.header[1] # Blank THEN m.header[1] ELSE m.peer

Arrive(s, c, m) ==
  /\ ~ Waiting(s)
  /\ request' = [request EXCEPT ![s] = [client |-> c, address |-> ClientIP(m), at |-> now]]
  /\ UNCHANGED <<behindProxy, now, limiter, passed>>

\* Faulty: never drops a window.
SweepNone(at) == windows

\* The windows allow goes on with, after it has dropped the expired ones.
Swept(at) ==
  IF at > last + Minute
    THEN Restrict(windows, {a \in DOMAIN windows : at <= windows[a].start + Minute})
    ELSE windows

Fresh(a, at) == a \in DOMAIN Swept(at) => at > windows[a].start + Minute
Open(w, a, v) == [b \in DOMAIN w \cup {a} |-> IF b = a THEN v ELSE w[b]]

SweptAt(at) == last' = IF at > last + Minute THEN at ELSE last

Number(c, at) == CHOOSE i \in 1 .. Cardinality(passed[c]) + 1 : <<at, i>> \notin passed[c]

Pass(s) ==
  /\ LET c == request[s].client  at == request[s].at IN
       passed' = [passed EXCEPT ![c] = @ \cup {<<at, Number(c, at)>>}]
  /\ request' = [request EXCEPT ![s] = Idle]

OpenWindow(s) ==
  /\ Waiting(s)
  /\ LET a == request[s].address  at == request[s].at IN
       /\ Fresh(a, at)
       /\ windows' = Open(Swept(at), a, [count |-> 1, start |-> at])
       /\ SweptAt(at)
  /\ Pass(s)
  /\ UNCHANGED <<behindProxy, now>>

\* Faulty: lets one request too many through.
CountOnTooMany(s) ==
  /\ Waiting(s)
  /\ LET a == request[s].address  at == request[s].at IN
       /\ ~ Fresh(a, at)
       /\ windows[a].count <= PerMin
       /\ windows' = [Swept(at) EXCEPT ![a].count = @ + 1]
       /\ SweptAt(at)
  /\ Pass(s)
  /\ UNCHANGED <<behindProxy, now>>

CountOn(s) ==
  /\ Waiting(s)
  /\ LET a == request[s].address  at == request[s].at IN
       /\ ~ Fresh(a, at)
       /\ windows[a].count < PerMin
       /\ windows' = [Swept(at) EXCEPT ![a].count = @ + 1]
       /\ SweptAt(at)
  /\ Pass(s)
  /\ UNCHANGED <<behindProxy, now>>

Refuse(s) ==
  /\ Waiting(s)
  /\ LET a == request[s].address  at == request[s].at IN
       /\ ~ Fresh(a, at)
       /\ windows[a].count >= PerMin
       /\ windows' = Swept(at)
       /\ SweptAt(at)
  /\ request' = [request EXCEPT ![s] = Idle]
  /\ UNCHANGED <<behindProxy, now, passed>>

Tick ==
  /\ now < Horizon
  /\ \A s \in Slots : Waiting(s) => now < request[s].at + MaxLate
  /\ now' = now + 1
  /\ UNCHANGED <<behindProxy, limiter, request, passed>>

LimiterNext ==
  \/ Tick
  \/ \E s \in Slots :
       \/ \E c \in Clients : \E m \in Message(c) : Arrive(s, c, m)
       \/ OpenWindow(s) \/ CountOn(s) \/ Refuse(s)

LimiterSpec == LimiterInit /\ [][LimiterNext]_limiterVars

-----------------------------------------------------------------------------
LimiterTypeOK ==
  /\ behindProxy \in Setups
  /\ now \in 0 .. Horizon
  /\ DOMAIN windows \subseteq Clients \cup {Proxy}
  /\ \A a \in DOMAIN windows :
       windows[a].count \in 1 .. PerMin /\ windows[a].start \in 0 .. now
  /\ last \in 0 .. now
  /\ request \in [Slots -> {Idle} \cup [client : Clients, address : Clients \cup {Proxy}, at : 0 .. now]]
  /\ passed \in [Clients -> SUBSET ((0 .. now) \X Nat)]
  /\ \A c \in Clients : IsFiniteSet(passed[c])

\* The requests of a client that arrived in a span of time and got through.
Passed(c, span) == Cardinality({p \in passed[c] : p[1] \in span})

\* A client passes at most twice its limit in a minute: the end of one window and
\* the beginning of the next.  Once the sweep has dropped a window, a request that
\* is late reopens it a little early, and others are late for the one after, so
\* the span the bound holds for is shorter than a minute by twice the lateness
\* (middleware.go:110, "to bound abuse rather than to shape traffic precisely").
BoundedBurst ==
  \A c \in Clients, t \in 0 .. now :
    Minute + 1 >= 2 * MaxLate =>
      Passed(c, t .. (t + Minute + 1 - 2 * MaxLate)) <= 2 * PerMin

\* Nobody is refused for what others send: when a request is refused, its own
\* client has passed PerMin requests that arrived within a minute of it
\* (docs/deployment.md:97, "requests per minute per client").
RefusedAtLimit ==
  [][\A s \in Slots : Refuse(s) =>
       LET r == request[s] IN
       Passed(r.client, {t \in 0 .. now : t + MaxLate + Minute >= r.at}) >= PerMin]_limiterVars

\* Clients that have gone are forgotten: after a decision no window is kept that
\* began more than two minutes before ("so the map cannot grow without bound as
\* clients come and go", middleware.go:136).
Forgotten ==
  [][\A s \in Slots : Waiting(s) /\ request'[s] = Idle =>
       \A a \in DOMAIN windows' : request[s].at <= windows'[a].start + 2 * Minute]_limiterVars
=============================================================================

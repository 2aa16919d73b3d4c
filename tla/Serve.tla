-------------------------------- MODULE Serve --------------------------------
(***************************************************************************)
(* cmd/iban-pizza/serve.go with the operational handlers of internal/api:  *)
(* a server process, from start to exit and again, over a snapshot or a    *)
(* database that can be away, with requests in flight when it is told to   *)
(* stop.  net/http's Shutdown and pgxpool's Close are external: the first  *)
(* refuses new requests and waits for those in flight, the second waits    *)
(* for the connections that are lent out.  One tick is ten seconds.        *)
(***************************************************************************)
EXTENDS Integers, FiniteSets

CONSTANTS
  Clients,          \* who sends requests, one at a time each
  ShutdownTimeout,  \* how long Shutdown may wait, in ticks
  WriteTimeout      \* how long after its start a response may be written

ASSUME TimeoutsAssumption == ShutdownTimeout \in Nat /\ WriteTimeout \in Nat

VARIABLES
  backend,    \* "snapshot" or "database", for a whole behaviour
  up, loaded, \* whether the database answers, and whether the store has banks
  proc,       \* "down", "serving", "draining" in Shutdown, "closing" after it
  listener,   \* "starting", "open", "failed", "closed"
  signalled,  \* SIGTERM or SIGINT has come
  drain,      \* how long Shutdown has waited
  exit,       \* how runServe returned: "ok", "listen error", "deadline"
  call        \* the request of each client

vars == <<backend, up, loaded, proc, listener, signalled, drain, exit, call>>
store == <<backend, up, loaded>>

\* seen: what the store could answer at the moments of the request (history).
Idle == [stage |-> "idle", age |-> 0, found |-> "none", seen |-> {}]
Moments(answering, filled) ==
  IF ~ answering THEN {"error"} ELSE IF filled THEN {"banks"} ELSE {"empty"}
InFlight(c) == call[c].stage \in {"running", "reading", "listing", "writing"}

Init ==
  /\ backend \in {"snapshot", "database"}
  /\ up = TRUE /\ loaded \in BOOLEAN
  /\ proc = "down" /\ listener = "closed" /\ signalled = FALSE
  /\ drain = 0 /\ exit = "none"
  /\ call = [c \in Clients |-> Idle]

\* Every request in flight sees what the store is now.
Watch(answering, filled) ==
  call' = [c \in Clients |->
             IF InFlight(c) THEN [call[c] EXCEPT !.seen = @ \cup Moments(answering, filled)]
             ELSE call[c]]

\* The database goes away and comes back, and is loaded for the first time.
Environment ==
  /\ backend = "database"
  /\ \/ up' = ~ up /\ UNCHANGED loaded
     \/ up /\ ~ loaded /\ loaded' = TRUE /\ UNCHANGED up
  /\ Watch(up', loaded')
  /\ UNCHANGED <<backend, proc, listener, signalled, drain, exit>>

-----------------------------------------------------------------------------
\* The process.
\* A supervisor starts it; postgres.Open fails while the database is away.
Start ==
  /\ proc = "down"
  /\ backend = "database" => up
  /\ proc' = "serving" /\ listener' = "starting"
  /\ signalled' = FALSE /\ drain' = 0 /\ exit' = "none"
  /\ call' = [c \in Clients |-> Idle]
  /\ UNCHANGED store

\* The goroutine of ListenAndServe; once Shutdown was called it returns
\* ErrServerClosed, which is no error.
Listen ==
  /\ listener = "starting" /\ proc # "down"
  /\ listener' \in IF proc = "serving" THEN {"open", "failed"} ELSE {"closed"}
  /\ UNCHANGED <<store, proc, signalled, drain, exit, call>>

AcceptFails ==
  /\ listener = "open"
  /\ listener' = "failed"
  /\ UNCHANGED <<store, proc, signalled, drain, exit, call>>

Signal ==
  /\ proc # "down" /\ ~ signalled
  /\ signalled' = TRUE
  /\ UNCHANGED <<store, proc, listener, drain, exit, call>>

\* runServe returns; its deferred closeRepo begins.
Return(how) ==
  /\ proc' = "closing" /\ exit' = how
  /\ UNCHANGED <<store, signalled, drain, call>>

\* Faulty: shuts down on a listen error too, and returns what Shutdown returns.
SelectErrorDrains ==
  /\ proc = "serving" /\ listener = "failed"
  /\ proc' = "draining"
  /\ UNCHANGED <<store, listener, signalled, drain, exit, call>>

\* Faulty: waits for a moment without requests before it shuts down.
SelectSignalIdle ==
  /\ proc = "serving" /\ signalled /\ \A c \in Clients : ~ InFlight(c)
  /\ proc' = "draining"
  /\ listener' = IF listener = "open" THEN "closed" ELSE listener
  /\ UNCHANGED <<store, signalled, drain, exit, call>>

\* The select of runServe: either case when both are ready.
SelectError == proc = "serving" /\ listener = "failed" /\ Return("listen error") /\ UNCHANGED listener

SelectSignal ==
  /\ proc = "serving" /\ signalled
  /\ proc' = "draining"
  /\ listener' = IF listener = "open" THEN "closed" ELSE listener
  /\ UNCHANGED <<store, signalled, drain, exit, call>>

\* Faulty: closes the server without waiting for requests in flight.
CloseAtOnce == proc = "draining" /\ Return("ok") /\ UNCHANGED listener

Drained ==
  /\ proc = "draining"
  /\ \A c \in Clients : ~ InFlight(c)
  /\ Return("ok")
  /\ UNCHANGED listener

Deadline == proc = "draining" /\ drain = ShutdownTimeout /\ Return("deadline") /\ UNCHANGED listener

\* closeRepo returned and main ends; what is still in flight is cut off.
Exit ==
  /\ proc = "closing"
  /\ backend = "database" => \A c \in Clients : call[c].stage \notin {"reading", "listing"}
  /\ proc' = "down" /\ listener' = "closed"
  /\ call' = [c \in Clients |-> IF InFlight(c) THEN [call[c] EXCEPT !.stage = "cut"] ELSE call[c]]
  /\ UNCHANGED <<store, signalled, drain, exit>>

Least(a, b) == IF a < b THEN a ELSE b

\* Time stands still while Shutdown's deadline is due.
Tick ==
  /\ proc # "down"
  /\ proc = "draining" => drain < ShutdownTimeout
  /\ drain' = IF proc = "draining" THEN drain + 1 ELSE drain
  /\ call' = [c \in Clients |->
                IF InFlight(c) THEN [call[c] EXCEPT !.age = Least(@ + 1, WriteTimeout)] ELSE call[c]]
  /\ drain' # drain \/ call' # call
  /\ UNCHANGED <<store, proc, listener, signalled, exit>>

-----------------------------------------------------------------------------
\* Requests.
Step(c, stage, found) ==
  /\ call' = [call EXCEPT ![c] = [@ EXCEPT !.stage = stage, !.found = found]]
  /\ UNCHANGED <<store, proc, listener, signalled, drain, exit>>

Answering == backend = "snapshot" \/ up
Content == IF loaded THEN "banks" ELSE "empty"

Arrive(c) ==
  /\ listener = "open" /\ proc = "serving"
  /\ ~ InFlight(c)
  /\ call' = [call EXCEPT ![c] = [Idle EXCEPT !.stage = "running",
                                              !.seen = Moments(Answering, loaded)]]
  /\ UNCHANGED <<store, proc, listener, signalled, drain, exit>>

Handlers == {"health", "ready", "bank"}
Counting == {"health", "ready"}

\* Faulty: readiness does not look at the number of records.
ReplyUnfilled(kind, found) ==
  CASE kind = "health" -> IF found = "error" THEN "degraded" ELSE "up"
    [] kind = "ready" -> IF found = "error" THEN "unavailable" ELSE "ready"
    [] kind = "bank" -> IF found = "banks" THEN "bank" ELSE "no such bank"

\* handleHealth, handleReady, handleV2Bank: a bank is not found, too, when the
\* store failed.
Reply(kind, found) ==
  CASE kind = "health" -> IF found = "error" THEN "degraded" ELSE "up"
    [] kind = "ready" -> IF found = "error" THEN "unavailable"
                         ELSE IF found = "empty" THEN "no data" ELSE "ready"
    [] kind = "bank" -> IF found = "banks" THEN "bank" ELSE "no such bank"

\* The handlers differ in what they read and reply alone, so which one serves the
\* request is chosen when its reads first tell.
HasRead(c, kind, found) == Step(c, "writing", Reply(kind, found))

\* A memory store answers at once, a pool lends a connection, or none any more
\* once it is being closed.
Read(c) ==
  /\ call[c].stage = "running"
  /\ IF backend = "database" /\ up /\ proc # "closing" THEN Step(c, "reading", "none")
     ELSE \E kind \in Handlers :
            HasRead(c, kind, IF backend = "snapshot" THEN Content ELSE "error")

\* The one statement of Find, or the count of Stats: the pool is asked again, at
\* once, for the second statement, the list of sources.
EndRead(c) ==
  /\ call[c].stage = "reading"
  /\ \/ HasRead(c, "bank", IF up THEN Content ELSE "error")
     \/ IF up /\ proc # "closing" THEN Step(c, "listing", Content)
        ELSE \E kind \in Counting : HasRead(c, kind, "error")

\* The replies have the count of the first statement, if the second succeeds too.
EndList(c) ==
  /\ call[c].stage = "listing"
  /\ \E kind \in Counting : HasRead(c, kind, IF up THEN call[c].found ELSE "error")

\* The client takes the response in time.
Answered(c) ==
  /\ call[c].stage = "writing" /\ call[c].age < WriteTimeout
  /\ call' = [call EXCEPT ![c] = [@ EXCEPT !.stage = "answered", !.age = 0]]
  /\ UNCHANGED <<store, proc, listener, signalled, drain, exit>>

\* Faulty: the server has no WriteTimeout.
WaitForClient(c) == call[c].stage = "writing" /\ FALSE /\ Step(c, "idle", "none")

\* A client that does not read loses its connection at the WriteTimeout.
WriteFails(c) ==
  /\ call[c].stage = "writing" /\ call[c].age >= WriteTimeout
  /\ call' = [call EXCEPT ![c] = Idle]
  /\ UNCHANGED <<store, proc, listener, signalled, drain, exit>>

Next ==
  \/ Environment
  \/ Start \/ Listen \/ AcceptFails \/ Signal
  \/ SelectError \/ SelectSignal \/ Drained \/ Deadline \/ Exit \/ Tick
  \/ \E c \in Clients :
       Arrive(c) \/ Read(c) \/ EndRead(c) \/ EndList(c) \/ Answered(c) \/ WriteFails(c)

Spec == Init /\ [][Next]_vars

\* The runtime schedules runServe and the handlers, time passes, and the
\* database ends every query, if only by breaking its connection.  Nothing
\* makes a client read its response.
Fairness ==
  /\ WF_vars(SelectError \/ SelectSignal) /\ WF_vars(Drained) /\ WF_vars(Deadline)
  /\ WF_vars(Exit) /\ WF_vars(Tick)
  /\ \A c \in Clients : WF_vars(Read(c)) /\ WF_vars(EndRead(c)) /\ WF_vars(EndList(c)) /\ WF_vars(WriteFails(c))

FairSpec == Spec /\ Fairness

-----------------------------------------------------------------------------
\* Types, and where the parts of the process stand to each other: no time is
\* waited before Shutdown, and no return without a reason.
TypeOK ==
  /\ backend \in {"snapshot", "database"} /\ up \in BOOLEAN /\ loaded \in BOOLEAN
  /\ proc \in {"down", "serving", "draining", "closing"}
  /\ listener \in {"starting", "open", "failed", "closed"}
  /\ signalled \in BOOLEAN /\ drain \in 0..ShutdownTimeout
  /\ exit \in {"none", "ok", "listen error", "deadline"}
  /\ \A c \in Clients :
       /\ call[c].stage \in {"idle", "running", "reading", "listing", "writing", "answered", "cut"}
       /\ call[c].age \in 0..WriteTimeout
       /\ call[c].seen \subseteq {"error", "empty", "banks"}
  /\ proc = "draining" \/ exit \in {"ok", "deadline"} => signalled

\* A stop loses no request that could still be finished: one is cut off only
\* when the listener had failed, or when it was in flight for all the time that
\* Shutdown may wait, and then runServe reports it.
CutOnlyLate ==
  \A c \in Clients : call[c].stage = "cut" =>
    \/ exit = "listen error"
    \/ exit = "deadline" /\ drain = ShutdownTimeout
                         /\ call[c].age >= Least(ShutdownTimeout, WriteTimeout)

\* What an answer says was so at a moment of the request: ready when there were
\* banks, no data when there were none, a failing store when it failed or was
\* being closed, and "no such bank" never while every moment had the bank.
AnswersHeld ==
  \A c \in Clients : LET a == call[c] IN a.stage = "answered" =>
    CASE a.found \in {"ready", "bank"} -> "banks" \in a.seen
      [] a.found = "no data" -> "empty" \in a.seen
      [] a.found \in {"degraded", "unavailable"} -> "error" \in a.seen \/ exit \in {"listen error", "deadline"}
      [] a.found = "no such bank" -> a.seen # {"banks"} \/ exit \in {"listen error", "deadline"}
      [] a.found = "up" -> a.seen \cap {"empty", "banks"} # {}

\* A server that is told to stop stops, even with clients that never read.
StopsAfterSignal == signalled ~> proc = "down"

\* No request is held for ever by a client that does not read its response.
RequestsEnd == \A c \in Clients : InFlight(c) ~> ~ InFlight(c)
=============================================================================

---------------------------- MODULE Serve_proofs -----------------------------
(***************************************************************************)
(* Proofs about the server process.  About Serve, for any number of        *)
(* clients and any timeouts: a stop cuts off only requests that Shutdown   *)
(* waited for in vain, and what an answer says was so at a moment of the   *)
(* request.  About SchemeRegister, for any schemes, institutions and       *)
(* editions and whatever goes wrong: what the register says was published, *)
(* unless a write was cut off or under way when it was loaded.             *)
(***************************************************************************)
EXTENDS Serve, SchemeRegister, TLAPS

-----------------------------------------------------------------------------
\* The inductive invariant, one part per concern.
Contents == {"error", "empty", "banks"}
Replies == {"degraded", "up", "unavailable", "no data", "ready", "no such bank", "bank"}
Call == [stage : {"idle", "running", "reading", "listing", "writing", "answered", "cut"},
         age : 0..WriteTimeout,
         found : Contents \cup {"none"} \cup Replies,
         seen : SUBSET Contents]

TypeInv == TypeOK /\ call \in [Clients -> Call]

\* runServe has returned exactly when there is a way it did; it waits only in
\* Shutdown; and it returns without error when nothing is in flight.
ReturnInv ==
  /\ exit # "none" => proc \in {"closing", "down"}
  /\ proc = "closing" => exit # "none"
  /\ proc = "serving" => drain = 0
  /\ exit = "ok" => \A c \in Clients : ~ InFlight(c)
  /\ exit = "deadline" => drain = ShutdownTimeout

\* A request in flight is as old as Shutdown has waited: none comes after the
\* listener is closed.  Only the end of the process cuts one off.
LateInv ==
  \A c \in Clients :
    /\ InFlight(c) \/ call[c].stage = "cut" => call[c].age >= Least(drain, WriteTimeout)
    /\ call[c].stage = "cut" => proc = "down" /\ exit # "none"

\* A request in flight has seen what the store is now; only a pool lends connections.
MomentInv ==
  \A c \in Clients :
    /\ InFlight(c) => Moments(Answering, loaded) \subseteq call[c].seen
    /\ call[c].stage \in {"reading", "listing"} => backend = "database"

\* What a reply says was so at one of the moments seen, or the pool was being closed.
Failed == exit \in {"listen error", "deadline"}
Told(reply, seen) ==
  /\ reply \in {"ready", "bank"} => "banks" \in seen
  /\ reply = "no data" => "empty" \in seen
  /\ reply \in {"degraded", "unavailable"} => "error" \in seen \/ Failed
  /\ reply = "no such bank" => "empty" \in seen \/ "error" \in seen \/ Failed
  /\ reply = "up" => "empty" \in seen \/ "banks" \in seen

\* The count of the first statement was in the store at a moment of the request,
\* and so was what the reply says, before it is written and after.
FoundInv ==
  \A c \in Clients :
    /\ call[c].stage = "listing" =>
         call[c].found \in {"empty", "banks"} /\ call[c].found \in call[c].seen
    /\ call[c].stage \in {"writing", "answered"} =>
         call[c].found \in Replies /\ Told(call[c].found, call[c].seen)

Inv == TypeInv /\ ReturnInv /\ LateInv /\ MomentInv /\ FoundInv /\ CutOnlyLate

-----------------------------------------------------------------------------
LEMMA MomentsFacts ==
  ASSUME NEW answering, NEW filled
  PROVE  /\ Moments(answering, filled) \subseteq Contents
         /\ ~ answering => Moments(answering, filled) = {"error"}
         /\ answering /\ filled => Moments(answering, filled) = {"banks"}
         /\ answering /\ ~ filled => Moments(answering, filled) = {"empty"}
BY DEF Moments, Contents

LEMMA LeastFacts ==
  ASSUME NEW a \in Nat, NEW b \in Nat
  PROVE  /\ Least(a, b) \in Nat /\ Least(a, b) <= b /\ Least(a, b) <= a
         /\ Least(a, b) = a \/ Least(a, b) = b
BY DEF Least

LEMMA IdleFacts == Idle \in Call /\ Idle.stage = "idle" /\ Idle.age = 0 /\ Idle.seen = {}
BY TimeoutsAssumption DEF Idle, Call, Contents

LEMMA InitInv == Init => Inv
<1> SUFFICES ASSUME Init PROVE Inv
  OBVIOUS
<1>1. \A c \in Clients : call[c] = Idle /\ call[c].stage = "idle" /\ ~ InFlight(c)
  BY IdleFacts DEF Init, InFlight
<1>2. call \in [Clients -> Call]
  BY IdleFacts DEF Init
<1>3. TypeOK
  <2>1. \A c \in Clients : call[c].age \in 0..WriteTimeout
    BY IdleFacts, TimeoutsAssumption DEF Init
  <2>2. drain \in 0..ShutdownTimeout
    BY TimeoutsAssumption DEF Init
  <2> QED
    BY <2>1, <2>2, IdleFacts DEF Init, TypeOK
<1>4. TypeInv
  BY <1>2, <1>3 DEF TypeInv
<1> QED
  BY <1>1, <1>4, TimeoutsAssumption
  DEF Init, Inv, ReturnInv, LateInv, MomentInv, FoundInv, CutOnlyLate

\* The database goes and comes: every request in flight sees it.
LEMMA EnvironmentInv == Inv /\ Environment => Inv'
<1> SUFFICES ASSUME Inv, Environment PROVE Inv'
  OBVIOUS
<1>1. /\ backend = "database" /\ up' \in BOOLEAN /\ loaded' \in BOOLEAN
      /\ UNCHANGED <<backend, proc, listener, signalled, drain, exit>>
      /\ call' = [c \in Clients |->
             IF InFlight(c) THEN [call[c] EXCEPT !.seen = @ \cup Moments(up', loaded')] ELSE call[c]]
  BY DEF Environment, Watch, Inv, TypeInv, TypeOK
<1>2. \A c \in Clients : call[c] \in Call
  BY DEF Inv, TypeInv
<1>3. \A c \in Clients :
        /\ call'[c].stage = call[c].stage /\ call'[c].age = call[c].age
        /\ call'[c].found = call[c].found /\ call[c].seen \subseteq call'[c].seen
        /\ InFlight(c) => Moments(up', loaded') \subseteq call'[c].seen
        /\ ~ InFlight(c) => call'[c].seen = call[c].seen
        /\ call'[c] \in Call
  BY <1>1, <1>2, MomentsFacts DEF Call
<1>4. \A c \in Clients : InFlight(c)' <=> InFlight(c)
  BY <1>3 DEF InFlight
<1>5. TypeInv'
  <2>1. call' \in [Clients -> Call]
    BY <1>1, <1>3
  <2> QED
    BY <1>1, <2>1 DEF Inv, TypeInv, TypeOK, Call, Contents, Replies
<1>6. ReturnInv' /\ LateInv' /\ CutOnlyLate'
  BY <1>1, <1>3, <1>4 DEF Inv, ReturnInv, LateInv, CutOnlyLate
<1>7. MomentInv'
  BY <1>1, <1>3, <1>4 DEF Inv, MomentInv, Answering
<1>8. FoundInv'
  BY <1>1, <1>3 DEF Inv, FoundInv, Told, Failed, Replies
<1> QED
  BY <1>5, <1>6, <1>7, <1>8 DEF Inv

\* A new process knows no request.
LEMMA StartInv == Inv /\ Start => Inv'
<1> SUFFICES ASSUME Inv, Start PROVE Inv'
  OBVIOUS
<1>1. \A c \in Clients : call'[c] = Idle /\ call'[c].stage = "idle"
  BY IdleFacts DEF Start
<1>2. call' \in [Clients -> Call]
  BY IdleFacts DEF Start, Call, Contents, Replies
<1>3. TypeOK'
  <2>1. \A c \in Clients : call'[c].age \in 0..WriteTimeout
    BY <1>1, IdleFacts, TimeoutsAssumption
  <2>2. drain' \in 0..ShutdownTimeout
    BY TimeoutsAssumption DEF Start
  <2> QED
    BY <1>1, <2>1, <2>2, IdleFacts DEF Start, store, Inv, TypeInv, TypeOK
<1>4. TypeInv'
  BY <1>2, <1>3 DEF TypeInv, Call, Contents, Replies
<1> QED
  BY <1>1, <1>4, TimeoutsAssumption
  DEF Start, Inv, ReturnInv, LateInv, MomentInv, FoundInv, CutOnlyLate, InFlight

\* What runServe and its listener do before the process ends leaves the requests alone.
LEMMA ProcessInv ==
  Inv /\ (Listen \/ AcceptFails \/ Signal \/ SelectError \/ SelectSignal \/ Drained \/ Deadline) => Inv'
<1> SUFFICES ASSUME Inv,
                    Listen \/ AcceptFails \/ Signal \/ SelectError \/ SelectSignal \/ Drained \/ Deadline
             PROVE  Inv'
  OBVIOUS
<1>1. UNCHANGED <<backend, up, loaded, drain, call>>
  BY DEF Listen, AcceptFails, Signal, SelectError, SelectSignal, Drained, Deadline, Return, store
<1>2. \A c \in Clients : InFlight(c)' <=> InFlight(c)
  BY <1>1 DEF InFlight
<1>3. exit = exit' \/ exit = "none"
  BY DEF Listen, AcceptFails, Signal, SelectError, SelectSignal, Drained, Deadline, Return, Inv, ReturnInv
<1>4. proc = "down" => proc' = "down"
  BY DEF Listen, AcceptFails, Signal, SelectError, SelectSignal, Drained, Deadline, Return
<1>5. TypeInv'
  BY <1>1 DEF Listen, AcceptFails, Signal, SelectError, SelectSignal, Drained, Deadline, Return, store,
              Inv, TypeInv, TypeOK, Call, Contents, Replies
<1>6. ReturnInv'
  BY <1>1, <1>2 DEF Listen, AcceptFails, Signal, SelectError, SelectSignal, Drained, Deadline, Return, store,
              Inv, ReturnInv, TypeInv, TypeOK
<1>7. LateInv' /\ MomentInv'
  BY <1>1, <1>2, <1>3, <1>4 DEF Inv, LateInv, MomentInv, Answering
<1>8. FoundInv'
  BY <1>1, <1>3 DEF Inv, FoundInv, Told, Failed, Replies
<1>9. CutOnlyLate'
  BY <1>1, <1>3 DEF Inv, LateInv, CutOnlyLate
<1> QED
  BY <1>5, <1>6, <1>7, <1>8, <1>9 DEF Inv

\* The end of the process cuts off what is in flight, which is late.
LEMMA ExitInv == Inv /\ Exit => Inv'
<1> SUFFICES ASSUME Inv, Exit PROVE Inv'
  OBVIOUS
<1>1. /\ proc = "closing" /\ proc' = "down" /\ listener' = "closed"
      /\ UNCHANGED <<backend, up, loaded, signalled, drain, exit>>
      /\ call' = [c \in Clients |-> IF InFlight(c) THEN [call[c] EXCEPT !.stage = "cut"] ELSE call[c]]
  BY DEF Exit, store
<1>2. \A c \in Clients : call[c] \in Call
  BY DEF Inv, TypeInv
<1>3. \A c \in Clients :
        /\ ~ InFlight(c)' /\ call'[c] \in Call
        /\ call'[c].age = call[c].age
        /\ IF InFlight(c) THEN call'[c].stage = "cut" ELSE call'[c] = call[c]
  BY <1>1, <1>2 DEF Call, InFlight
<1>4. TypeInv'
  <2>1. call' \in [Clients -> Call]
    BY <1>1, <1>3
  <2> QED
    BY <1>1, <2>1 DEF Inv, TypeInv, TypeOK, Call, Contents, Replies
<1>5. ReturnInv' /\ LateInv' /\ MomentInv' /\ FoundInv'
  BY <1>1, <1>3 DEF Inv, ReturnInv, LateInv, MomentInv, FoundInv, InFlight, Told, Failed, Replies
<1>6. CutOnlyLate'
  <2> SUFFICES ASSUME NEW c \in Clients, InFlight(c)
               PROVE  \/ exit = "listen error"
                      \/ exit = "deadline" /\ drain = ShutdownTimeout
                           /\ call[c].age >= Least(ShutdownTimeout, WriteTimeout)
    BY <1>1, <1>3 DEF Inv, CutOnlyLate
  <2>1. exit \in {"listen error", "deadline"}
    BY <1>1 DEF Inv, TypeInv, TypeOK, ReturnInv
  <2> QED
    BY <2>1 DEF Inv, ReturnInv, LateInv
<1> QED
  BY <1>4, <1>5, <1>6 DEF Inv

\* Time passes for Shutdown and for the requests in flight together.
LEMMA TickInv == Inv /\ Tick => Inv'
<1> SUFFICES ASSUME Inv, Tick PROVE Inv'
  OBVIOUS
<1>1. /\ proc # "down" /\ UNCHANGED <<backend, up, loaded, proc, listener, signalled, exit>>
      /\ proc = "draining" => drain < ShutdownTimeout
      /\ drain' = IF proc = "draining" THEN drain + 1 ELSE drain
      /\ call' = [c \in Clients |->
                IF InFlight(c) THEN [call[c] EXCEPT !.age = Least(@ + 1, WriteTimeout)] ELSE call[c]]
  BY DEF Tick, store
<1>2. \A c \in Clients : call[c] \in Call
  BY DEF Inv, TypeInv
<1>3. /\ drain \in Nat /\ drain' \in Nat /\ drain' \in 0..ShutdownTimeout /\ drain' <= drain + 1
      /\ WriteTimeout \in Nat /\ ShutdownTimeout \in Nat
  <2>1. drain \in 0..ShutdownTimeout /\ ShutdownTimeout \in Nat /\ WriteTimeout \in Nat
    BY TimeoutsAssumption DEF Inv, TypeInv, TypeOK
  <2>2. CASE proc = "draining"
    BY <1>1, <2>1, <2>2
  <2>3. CASE proc # "draining"
    BY <1>1, <2>1, <2>3
  <2> QED
    BY <2>2, <2>3
<1>4. \A c \in Clients :
        /\ call'[c].stage = call[c].stage /\ call'[c].found = call[c].found
        /\ call'[c].seen = call[c].seen
        /\ IF InFlight(c) THEN call'[c].age = Least(call[c].age + 1, WriteTimeout)
           ELSE call'[c].age = call[c].age
  BY <1>1, <1>2 DEF Call
<1>5. \A c \in Clients : call'[c] \in Call
  <2> SUFFICES ASSUME NEW c \in Clients, InFlight(c) PROVE call'[c] \in Call
    BY <1>1, <1>2
  <2>1. call[c].age \in 0..WriteTimeout
    BY <1>2 DEF Call
  <2>2. Least(call[c].age + 1, WriteTimeout) \in 0..WriteTimeout
    BY <1>3, <2>1 DEF Least
  <2> QED
    BY <1>1, <1>2, <2>2 DEF Call
<1>6. \A c \in Clients : InFlight(c)' <=> InFlight(c)
  BY <1>4 DEF InFlight
<1>7. TypeInv'
  <2>1. call' \in [Clients -> Call]
    BY <1>1, <1>5
  <2> QED
    BY <1>1, <1>3, <2>1 DEF Inv, TypeInv, TypeOK, Call, Contents, Replies
<1>8. ReturnInv'
  BY <1>1, <1>6 DEF Inv, ReturnInv
<1>9. LateInv'
  <2>1. \A c \in Clients : call'[c].stage # "cut"
    BY <1>1, <1>4 DEF Inv, LateInv
  <2> SUFFICES ASSUME NEW c \in Clients, InFlight(c) PROVE call'[c].age >= Least(drain', WriteTimeout)
    BY <1>6, <2>1 DEF LateInv
  <2>2. call[c].age \in 0..WriteTimeout /\ call[c].age >= Least(drain, WriteTimeout)
    BY <1>2 DEF Inv, LateInv, Call
  <2>3. call'[c].age = Least(call[c].age + 1, WriteTimeout)
    BY <1>4
  <2> QED
    BY <1>3, <2>2, <2>3 DEF Least
<1>10. MomentInv' /\ FoundInv'
  BY <1>1, <1>4, <1>6 DEF Inv, MomentInv, Answering, FoundInv, Told, Failed, Replies
<1>11. CutOnlyLate'
  BY <1>1, <1>4 DEF Inv, CutOnlyLate, LateInv
<1> QED
  BY <1>7, <1>8, <1>9, <1>10, <1>11 DEF Inv

-----------------------------------------------------------------------------
LEMMA TypeKept ==
  ASSUME TypeOK, UNCHANGED <<backend, up, loaded, proc, listener, signalled, drain, exit>>,
         call' \in [Clients -> Call]
  PROVE  TypeOK'
<1>1. \A d \in Clients :
        /\ call'[d].stage \in {"idle", "running", "reading", "listing", "writing", "answered", "cut"}
        /\ call'[d].age \in 0..WriteTimeout
        /\ call'[d].seen \subseteq {"error", "empty", "banks"}
  BY DEF Call, Contents
<1> QED
  BY <1>1 DEF TypeOK

\* A step of one request keeps the invariant if its new state does.
Running == {"running", "reading", "listing", "writing"}
LEMMA OneCall ==
  ASSUME Inv, NEW c \in Clients, NEW x \in Call,
         call' = [call EXCEPT ![c] = x],
         UNCHANGED <<store, proc, listener, signalled, drain, exit>>,
         x.stage # "cut",
         x.stage \in Running =>
           /\ exit # "ok" /\ x.age >= Least(drain, WriteTimeout)
           /\ Moments(Answering, loaded) \subseteq x.seen,
         x.stage \in {"reading", "listing"} => backend = "database",
         x.stage = "listing" => x.found \in {"empty", "banks"} /\ x.found \in x.seen,
         x.stage \in {"writing", "answered"} => x.found \in Replies /\ Told(x.found, x.seen)
  PROVE  Inv'
<1>1. /\ call \in [Clients -> Call] /\ call' \in [Clients -> Call]
      /\ call'[c] = x /\ \A d \in Clients : d # c => call'[d] = call[d]
  BY DEF Inv, TypeInv
<1>2. UNCHANGED <<backend, up, loaded, proc, listener, signalled, drain, exit>>
  BY DEF store
<1>3. TypeInv'
  <2>1. TypeOK'
    BY <1>1, <1>2, TypeKept DEF Inv, TypeInv
  <2> QED
    BY <1>1, <2>1 DEF TypeInv, Call, Contents, Replies
<1>4. \A d \in Clients : InFlight(d)' <=> IF d = c THEN x.stage \in Running ELSE InFlight(d)
  BY <1>1 DEF InFlight, Running
<1>5. ReturnInv'
  BY <1>2, <1>4 DEF Inv, ReturnInv
<1>6. LateInv' /\ MomentInv'
  BY <1>1, <1>2, <1>4 DEF Inv, LateInv, MomentInv, Answering
<1>7. FoundInv'
  BY <1>1, <1>2 DEF Inv, FoundInv, Told, Failed, Replies
<1>8. CutOnlyLate'
  BY <1>1, <1>2 DEF Inv, CutOnlyLate
<1> QED
  BY <1>3, <1>5, <1>6, <1>7, <1>8 DEF Inv

\* A request comes while the server accepts, and sees the store as it is then.
LEMMA ArriveInv == ASSUME Inv, NEW c \in Clients, Arrive(c) PROVE Inv'
<1> DEFINE x == [Idle EXCEPT !.stage = "running", !.seen = Moments(Answering, loaded)]
<1>1. /\ proc = "serving" /\ call' = [call EXCEPT ![c] = x]
      /\ UNCHANGED <<store, proc, listener, signalled, drain, exit>>
  BY DEF Arrive
<1>2. x \in Call /\ x.stage = "running" /\ x.age = 0 /\ x.seen = Moments(Answering, loaded)
  BY IdleFacts, MomentsFacts DEF Call
<1>3. exit = "none" /\ drain = 0
  BY <1>1 DEF Inv, ReturnInv, TypeInv, TypeOK
<1>4. x.age >= Least(drain, WriteTimeout)
  BY <1>2, <1>3, TimeoutsAssumption DEF Least
<1> HIDE DEF x
<1> QED
  BY <1>1, <1>2, <1>3, <1>4, OneCall

\* What a step of a request that stays in flight leaves as it was.
LEMMA StepFacts ==
  ASSUME Inv, NEW c \in Clients, InFlight(c), NEW stage \in Running,
         NEW found \in Contents \cup {"none"} \cup Replies, Step(c, stage, found),
         stage \in {"reading", "listing"} => backend = "database",
         stage = "listing" => found \in {"empty", "banks"} /\ found \in call[c].seen,
         stage = "writing" => found \in Replies /\ Told(found, call[c].seen)
  PROVE  Inv'
<1> DEFINE x == [call[c] EXCEPT !.stage = stage, !.found = found]
<1>1. /\ call' = [call EXCEPT ![c] = x]
      /\ UNCHANGED <<store, proc, listener, signalled, drain, exit>>
  BY DEF Step
<1>2. call[c] \in Call
  BY DEF Inv, TypeInv
<1>3. /\ x \in Call /\ x.stage = stage /\ x.found = found
      /\ x.age = call[c].age /\ x.seen = call[c].seen
  BY <1>2 DEF Call, Running
<1>4. /\ exit # "ok" /\ x.age >= Least(drain, WriteTimeout)
      /\ Moments(Answering, loaded) \subseteq x.seen
  BY <1>3 DEF Inv, ReturnInv, LateInv, MomentInv
<1> HIDE DEF x
<1> QED
  BY <1>1, <1>3, <1>4, OneCall DEF Running

\* Each handler's reply is told by what it read.
LEMMA ReplyFacts ==
  ASSUME NEW kind \in Handlers, NEW found \in Contents, NEW seen,
         found \in seen \/ (found = "error" /\ Failed)
  PROVE  Reply(kind, found) \in Replies /\ Told(Reply(kind, found), seen)
<1> DEFINE r == Reply(kind, found)
<1>1. kind \in {"health", "ready", "bank"} /\ found \in {"error", "empty", "banks"}
  BY DEF Handlers, Contents
<1>2. /\ r \in Replies
      /\ r \in {"ready", "bank"} => found = "banks"
      /\ r = "no data" => found = "empty"
      /\ r \in {"degraded", "unavailable"} => found = "error"
      /\ r = "no such bank" => found # "banks"
      /\ r = "up" => found \in {"empty", "banks"}
  BY <1>1 DEF Reply, Replies
<1>3. Told(r, seen)
  <2> HIDE DEF r
  <2> QED
    BY <1>1, <1>2 DEF Told
<1> QED
  BY <1>2, <1>3

\* A handler whose reads are done replies.
LEMMA HasReadInv ==
  ASSUME Inv, NEW c \in Clients, InFlight(c), NEW kind \in Handlers, NEW found \in Contents,
         found \in call[c].seen \/ (found = "error" /\ Failed), HasRead(c, kind, found)
  PROVE  Inv'
<1> DEFINE r == Reply(kind, found)
<1>1. r \in Replies /\ Told(r, call[c].seen)
  BY ReplyFacts
<1>2. Step(c, "writing", r)
  BY DEF HasRead
<1> HIDE DEF r
<1> QED
  BY <1>1, <1>2, StepFacts DEF Running

\* A handler reads what the store is, or fails when the pool is being closed; the
\* second statement of Stats tells of the count that the first one read.
LEMMA ReadInv == ASSUME Inv, NEW c \in Clients, Read(c) \/ EndRead(c) \/ EndList(c) PROVE Inv'
<1>1. InFlight(c)
  BY DEF Read, EndRead, EndList, InFlight
<1>2. Content \in {"empty", "banks"} /\ Content \in Contents /\ "error" \in Contents
  BY DEF Content, Contents
<1>3. loaded \in BOOLEAN /\ backend \in {"snapshot", "database"}
  BY DEF Inv, TypeInv, TypeOK
<1>4. Answering => Content \in call[c].seen
  BY <1>1 DEF Content, Moments, Inv, MomentInv
<1>5. ~ Answering => "error" \in call[c].seen
  BY <1>1 DEF Moments, Inv, MomentInv
<1>6. proc = "closing" => Failed
  BY <1>1 DEF Inv, ReturnInv, Failed, TypeInv, TypeOK
<1>7. Counting \subseteq Handlers /\ "bank" \in Handlers
  BY DEF Counting, Handlers
<1>8. CASE Read(c)
  <2>1. CASE backend = "snapshot"
    <3>1. PICK kind \in Handlers : HasRead(c, kind, Content)
      BY <1>8, <2>1 DEF Read
    <3> QED
      BY <1>1, <1>2, <1>4, <2>1, <3>1, HasReadInv DEF Answering
  <2>2. CASE backend = "database" /\ (proc = "closing" \/ ~ up)
    <3>1. PICK kind \in Handlers : HasRead(c, kind, "error")
      BY <1>8, <2>2 DEF Read
    <3> QED
      BY <1>1, <1>2, <1>5, <1>6, <2>2, <3>1, HasReadInv DEF Answering
  <2>3. CASE backend = "database" /\ ~ (proc = "closing" \/ ~ up)
    BY <1>1, <1>8, <2>3, StepFacts DEF Read, Running
  <2> QED
    BY <1>3, <2>1, <2>2, <2>3
<1>9. CASE EndRead(c)
  <2>1. backend = "database" /\ (Answering <=> up)
    BY <1>9 DEF EndRead, Inv, MomentInv, Answering
  <2>2. CASE HasRead(c, "bank", IF up THEN Content ELSE "error")
    <3>1. CASE up
      BY <1>1, <1>2, <1>4, <1>7, <2>1, <2>2, <3>1, HasReadInv
    <3>2. CASE ~ up
      BY <1>1, <1>2, <1>5, <1>7, <2>1, <2>2, <3>2, HasReadInv
    <3> QED
      BY <3>1, <3>2
  <2>3. CASE up /\ proc # "closing" /\ Step(c, "listing", Content)
    BY <1>1, <1>2, <1>4, <2>1, <2>3, StepFacts DEF Running
  <2>4. CASE ~ (up /\ proc # "closing") /\ \E kind \in Counting : HasRead(c, kind, "error")
    BY <1>1, <1>2, <1>5, <1>6, <1>7, <2>1, <2>4, HasReadInv
  <2> QED
    BY <1>9, <2>2, <2>3, <2>4 DEF EndRead
<1>10. CASE EndList(c)
  <2>1. /\ backend = "database" /\ (Answering <=> up)
        /\ call[c].found \in Contents /\ call[c].found \in call[c].seen
    BY <1>10 DEF EndList, Inv, MomentInv, FoundInv, Answering, Contents
  <2>2. PICK kind \in Counting : HasRead(c, kind, IF up THEN call[c].found ELSE "error")
    BY <1>10 DEF EndList
  <2>3. CASE up
    BY <1>1, <1>7, <2>1, <2>2, <2>3, HasReadInv
  <2>4. CASE ~ up
    BY <1>1, <1>2, <1>5, <1>7, <2>1, <2>2, <2>4, HasReadInv
  <2> QED
    BY <2>3, <2>4
<1> QED
  BY <1>8, <1>9, <1>10

\* The response says what the reply was, however long the client takes.
LEMMA AnsweredInv ==
  ASSUME Inv, NEW c \in Clients, Answered(c)
  PROVE  Inv'
<1> DEFINE x == [call[c] EXCEPT !.stage = "answered", !.age = 0]
<1>1. /\ call[c].stage = "writing" /\ call[c] \in Call
      /\ call' = [call EXCEPT ![c] = x]
      /\ UNCHANGED <<store, proc, listener, signalled, drain, exit>>
  BY DEF Answered, Inv, TypeInv
<1>2. call[c].found \in Replies /\ Told(call[c].found, call[c].seen)
  BY <1>1 DEF Inv, FoundInv
<1>3. x \in Call /\ x.stage = "answered" /\ x.found = call[c].found /\ x.seen = call[c].seen
  <2>1. 0 \in 0..WriteTimeout
    BY TimeoutsAssumption
  <2> QED
    BY <1>1, <2>1 DEF Call
<1> HIDE DEF x
<1> QED
  BY <1>1, <1>2, <1>3, OneCall DEF Running

LEMMA WriteFailsInv == ASSUME Inv, NEW c \in Clients, WriteFails(c) PROVE Inv'
<1>1. call' = [call EXCEPT ![c] = Idle] /\ UNCHANGED <<store, proc, listener, signalled, drain, exit>>
  BY DEF WriteFails
<1> QED
  BY <1>1, IdleFacts, OneCall DEF Running

LEMMA StepInv == Inv /\ [Next]_vars => Inv'
<1>1. ASSUME Inv, UNCHANGED vars PROVE Inv'
  <2>1. UNCHANGED <<backend, up, loaded, proc, listener, signalled, drain, exit, call>>
    BY <1>1 DEF vars
  <2>2. TypeInv'
    BY <1>1, <2>1 DEF Inv, TypeInv, TypeOK, Call, Contents, Replies
  <2>3. ReturnInv' /\ LateInv' /\ MomentInv' /\ FoundInv' /\ CutOnlyLate'
    BY <1>1, <2>1 DEF Inv, ReturnInv, LateInv, MomentInv, FoundInv, CutOnlyLate, InFlight,
                      Answering, Told, Failed, Replies
  <2> QED
    BY <2>2, <2>3 DEF Inv
<1> QED
  BY <1>1, EnvironmentInv, StartInv, ProcessInv, ExitInv, TickInv, ArriveInv, ReadInv,
     AnsweredInv, WriteFailsInv DEF Next

LEMMA InvAlways == Spec => []Inv
BY InitInv, StepInv, PTL DEF Spec

-----------------------------------------------------------------------------
\* The types of the process and its requests, and that runServe returns as after a
\* signal only when one has come.
THEOREM ServeTypeOK == Spec => []TypeOK
<1>1. Inv => TypeOK
  BY DEF Inv, TypeInv
<1> QED
  BY <1>1, InvAlways, PTL

\* A request is cut off only when the listener had failed or Shutdown has waited
\* for it as long as it may (serve.go: the deferred closeRepo, Shutdown's context).
THEOREM ServeCutOnlyLate == Spec => []CutOnlyLate
<1>1. Inv => CutOnlyLate
  BY DEF Inv
<1> QED
  BY <1>1, InvAlways, PTL

\* What health, readiness and a bank's page say was so at a moment of the request.
THEOREM ServeAnswersHeld == Spec => []AnswersHeld
<1>1. ASSUME Inv PROVE AnswersHeld
  <2> SUFFICES ASSUME NEW c \in Clients, call[c].stage = "answered"
               PROVE  LET a == call[c] IN
                      CASE a.found \in {"ready", "bank"} -> "banks" \in a.seen
                        [] a.found = "no data" -> "empty" \in a.seen
                        [] a.found \in {"degraded", "unavailable"} ->
                             "error" \in a.seen \/ exit \in {"listen error", "deadline"}
                        [] a.found = "no such bank" ->
                             a.seen # {"banks"} \/ exit \in {"listen error", "deadline"}
                        [] a.found = "up" -> a.seen \cap {"empty", "banks"} # {}
    BY DEF AnswersHeld
  <2>1. call[c].found \in Replies /\ Told(call[c].found, call[c].seen)
    BY <1>1 DEF Inv, FoundInv
  <2>2. CASE call[c].found \in {"ready", "bank"}
    BY <2>1, <2>2 DEF Told
  <2>3. CASE call[c].found = "no data"
    BY <2>1, <2>3 DEF Told
  <2>4. CASE call[c].found \in {"degraded", "unavailable"}
    BY <2>1, <2>4 DEF Told, Failed
  <2>5. CASE call[c].found = "no such bank"
    <3>1. "empty" \in call[c].seen \/ "error" \in call[c].seen \/ Failed
      BY <2>1, <2>5 DEF Told
    <3>2. "empty" \notin {"banks"} /\ "error" \notin {"banks"}
      OBVIOUS
    <3>3. call[c].seen # {"banks"} \/ Failed
      BY <3>1, <3>2, Zenon
    <3> QED
      BY <2>5, <3>3 DEF Failed
  <2>6. CASE call[c].found = "up"
    BY <2>1, <2>6 DEF Told
  <2>7. \/ call[c].found \in {"ready", "bank"} \/ call[c].found = "no data"
        \/ call[c].found \in {"degraded", "unavailable"}
        \/ call[c].found = "no such bank" \/ call[c].found = "up"
    BY <2>1 DEF Replies
  <2> QED
    BY <2>2, <2>3, <2>4, <2>5, <2>6, <2>7, Zenon
<1> QED
  BY <1>1, InvAlways, PTL

-----------------------------------------------------------------------------
\* The inductive invariant of the register, one part per concern.

\* An export the EPC has published for a scheme, one it has published since the
\* update started, and a part of one.
Published(x, s) == \E e \in 1 .. published : x = Editions[e][s]
Recent(x, s) == \E e \in since .. published : x = Editions[e][s]
PartOf(x, s) == \E e \in 1 .. published : DOMAIN x \subseteq DOMAIN Editions[e][s]

\* update writes one file at a time, and only when it saves.
WriteInv ==
  /\ writing = NoScheme \/ (step = "save" /\ \E s \in Schemes : writing = {s})
  /\ writing \subseteq DOMAIN files

\* What update holds parsed, and was published since it started; what it has
\* downloaded and holds no more is on disk.
GotInv ==
  /\ \A s \in DOMAIN got : Recent(got[s], s)
  /\ step = "idle" => fetched = {}
  /\ step = "fetch" => fetched = DOMAIN got
  /\ step = "save" => \A s \in fetched \ DOMAIN got : s \in DOMAIN files /\ Recent(files[s], s)

\* A file is a part of an export, and all of it unless it is written or cut off.
FilesInv ==
  \A s \in DOMAIN files :
    PartOf(files[s], s) /\ (s \notin writing \cup torn => Published(files[s], s))

\* The same of what serve has loaded; and known has every BIC of it, and only such
\* as a loaded scheme has listed.
KnownInv ==
  /\ \A s \in DOMAIN register : DOMAIN register[s] \subseteq known
  /\ \A b \in known : \E t \in DOMAIN register, e \in 1 .. published : b \in DOMAIN Editions[e][t]
LoadedInv ==
  \A s \in DOMAIN register :
    PartOf(register[s], s) /\ (s \notin dubious => Published(register[s], s))
RegisterInv == KnownInv /\ LoadedInv

SchemeInv == RegisterTypeOK /\ WriteInv /\ GotInv /\ FilesInv /\ RegisterInv

-----------------------------------------------------------------------------
\* What Put, Without and Cut do to exports.
LEMMA PutTyped ==
  ASSUME NEW f, NEW x \in Schemes, NEW v \in Exports
  PROVE  /\ Partial(f) => Partial(Put(f, x, v))
         /\ Filled(f) /\ v # Nothing => Filled(Put(f, x, v))
<1>1. \A y \in DOMAIN Put(f, x, v) :
        (y = x /\ Put(f, x, v)[y] = v) \/ (y \in DOMAIN f /\ Put(f, x, v)[y] = f[y])
  BY DEF Put
<1>2. DOMAIN f \subseteq Schemes => DOMAIN Put(f, x, v) \subseteq Schemes
  BY DEF Put
<1> QED
  BY <1>1, <1>2 DEF Partial, Filled

LEMMA WithoutFacts ==
  ASSUME NEW f, NEW x
  PROVE  /\ DOMAIN Without(f, x) = DOMAIN f \ {x}
         /\ \A y \in DOMAIN f \ {x} : Without(f, x)[y] = f[y]
         /\ Filled(f) => Filled(Without(f, x))
<1>1. /\ DOMAIN Without(f, x) = DOMAIN f \ {x}
      /\ \A y \in DOMAIN f \ {x} : Without(f, x)[y] = f[y]
  BY DEF Without, Restrict
<1> QED
  BY <1>1 DEF Filled, Partial

LEMMA CutExport ==
  ASSUME NEW x \in Exports, NEW y \in Cut(x) PROVE y \in Exports
<1>1. PICK B \in SUBSET Bics : x \in [B -> Listed]
  BY DEF Exports
<1>2. PICK A \in SUBSET DOMAIN x : y \in [A -> Listed]
  BY DEF Cut
<1>3. A \in SUBSET Bics
  BY <1>1, <1>2
<1> QED
  BY <1>2, <1>3 DEF Exports

\* Nothing is the one export without a row.
LEMMA NothingFacts == DOMAIN Nothing = {} /\ Nothing \in Exports /\ Filled(Nothing)
<1>1. Nothing \in [{} -> Listed] /\ DOMAIN Nothing = {}
  BY DEF Nothing
<1>2. Nothing \in Exports
  BY <1>1 DEF Exports
<1> QED
  BY <1>1, <1>2 DEF Partial, Filled

\* What is published is an export with a row.
LEMMA EditionFacts ==
  ASSUME NEW e \in DOMAIN Editions, NEW s \in Schemes
  PROVE  Editions[e][s] \in Exports /\ Editions[e][s] # Nothing
BY EditionsAssumption DEF Nothing

LEMMA SequenceFacts ==
  /\ Len(AllSchemes) \in Nat
  /\ \A i \in 1 .. Len(AllSchemes) : AllSchemes[i] \in Schemes
  /\ DOMAIN Editions = 1 .. Len(Editions) /\ Len(Editions) \in Nat /\ Len(Editions) >= 1
BY SchemesAssumption, EditionsAssumption

\* What has been published stays so, and a whole export is a part of one.
LEMMA PublishedStays ==
  ASSUME NEW x, NEW s, published \in Nat, published' \in Nat, published <= published', since' = since,
         since \in 1 .. published
  PROVE  /\ Published(x, s) => Published(x, s)'
         /\ Recent(x, s) => Recent(x, s)'
         /\ PartOf(x, s) => PartOf(x, s)'
BY DEF Published, Recent, PartOf

LEMMA PublishedFacts ==
  ASSUME NEW x, NEW s, since \in 1 .. published, published \in Nat
  PROVE  /\ Recent(x, s) => Published(x, s)
         /\ Published(x, s) => PartOf(x, s)
<1>1. Recent(x, s) => Published(x, s)
  BY DEF Published, Recent
<1>2. Published(x, s) => PartOf(x, s)
  BY DEF Published, PartOf
<1> QED
  BY <1>1, <1>2

-----------------------------------------------------------------------------
LEMMA SchemeInitInv == RegisterInit => SchemeInv
<1> SUFFICES ASSUME RegisterInit PROVE SchemeInv
  OBVIOUS
<1>1. RegisterTypeOK
  BY NothingFacts, SequenceFacts DEF RegisterInit, RegisterTypeOK, Filled, NoScheme
<1>2. KnownInv /\ LoadedInv
  BY NothingFacts DEF RegisterInit, KnownInv, LoadedInv
<1> QED
  BY <1>1, <1>2, NothingFacts DEF RegisterInit, SchemeInv, WriteInv, GotInv, FilesInv, RegisterInv, NoScheme

\* The next edition is published.
LEMMA PublishInv == SchemeInv /\ Publish => SchemeInv'
<1> SUFFICES ASSUME SchemeInv, Publish PROVE SchemeInv'
  OBVIOUS
<1>1. /\ published \in Nat /\ published' = published + 1 /\ published' \in DOMAIN Editions
      /\ published <= published' /\ published' \in Nat /\ since \in 1 .. published
      /\ UNCHANGED <<faults, files, update, serve>>
  BY SequenceFacts DEF Publish, SchemeInv, RegisterTypeOK
<1>2. UNCHANGED <<faults, files, step, at, got, writing, torn, fetched, since, loader, reading, register, known, dubious>>
  BY <1>1 DEF update, serve
<1>3. RegisterTypeOK'
  BY <1>1, <1>2 DEF SchemeInv, RegisterTypeOK, Partial, Filled
<1>4. \A x, s : /\ Published(x, s) => Published(x, s)'
                /\ Recent(x, s) => Recent(x, s)'
                /\ PartOf(x, s) => PartOf(x, s)'
  BY <1>1, <1>2, PublishedStays
<1>5. GotInv' /\ FilesInv' /\ LoadedInv' /\ WriteInv'
  BY <1>2, <1>4 DEF SchemeInv, GotInv, FilesInv, RegisterInv, LoadedInv, WriteInv
<1>6. KnownInv'
  <2>1. 1 .. published \subseteq 1 .. published'
    BY <1>1
  <2> QED
    BY <1>2, <2>1 DEF SchemeInv, RegisterInv, KnownInv
<1> QED
  BY <1>3, <1>5, <1>6 DEF SchemeInv, RegisterInv

\* What a step leaves alone stays as it is.
LEMMA ServeKept ==
  ASSUME SchemeInv, UNCHANGED <<published, serve>> PROVE RegisterInv'
<1>1. UNCHANGED <<published, register, known, dubious>>
  BY DEF serve
<1> QED
  BY <1>1 DEF SchemeInv, RegisterInv, KnownInv, LoadedInv, Published, PartOf

LEMMA UpdateKept ==
  ASSUME SchemeInv, UNCHANGED <<published, files, update>> PROVE WriteInv' /\ GotInv' /\ FilesInv'
<1>1. UNCHANGED <<published, files, step, got, writing, torn, fetched, since>>
  BY DEF update
<1> QED
  BY <1>1 DEF SchemeInv, WriteInv, GotInv, FilesInv, Published, Recent, PartOf

\* update starts, downloads, and gives up or goes on to save.
LEMMA StartUpdateInv == SchemeInv /\ StartUpdate => SchemeInv'
<1> SUFFICES ASSUME SchemeInv, StartUpdate PROVE SchemeInv'
  OBVIOUS
<1>1. /\ step = "idle" /\ step' = "fetch" /\ since' = published /\ got = Nothing /\ fetched = {}
      /\ UNCHANGED <<faults, published, files, at, got, writing, torn, fetched, serve>>
      /\ UNCHANGED <<loader, reading, register, known, dubious>>
  BY DEF StartUpdate, SchemeInv, RegisterTypeOK, GotInv, serve
<1>2. RegisterTypeOK'
  BY <1>1, SequenceFacts DEF SchemeInv, RegisterTypeOK, Partial, Filled
<1>3. WriteInv' /\ FilesInv'
  BY <1>1 DEF SchemeInv, WriteInv, FilesInv, Published, PartOf
<1>4. GotInv'
  BY <1>1, NothingFacts DEF GotInv
<1> QED
  BY <1>1, <1>2, <1>3, <1>4, ServeKept DEF SchemeInv

LEMMA FetchInv == SchemeInv /\ (Fetch \/ FetchFails) => SchemeInv'
<1> SUFFICES ASSUME SchemeInv, Fetch \/ FetchFails PROVE SchemeInv'
  OBVIOUS
<1>1. /\ at \in 1 .. Len(AllSchemes) /\ at' = at + 1 /\ at' \in 1 .. Len(AllSchemes) + 1
      /\ step = "fetch" /\ writing = NoScheme /\ fetched = DOMAIN got
      /\ since \in 1 .. published /\ published \in Nat
      /\ UNCHANGED <<faults, published, files, step, writing, torn, since, serve>>
      /\ UNCHANGED <<loader, reading, register, known, dubious>>
  BY SequenceFacts DEF Fetch, FetchFails, Fetching, SchemeInv, RegisterTypeOK, WriteInv, GotInv, serve
<1>2. Filled(got') /\ GotInv' /\ fetched' = DOMAIN got' /\ fetched' \subseteq Schemes
  <2>1. CASE Fetch
    <3> DEFINE s == AllSchemes[at]
               x == Editions[published][s]
    <3>1. s \in Schemes /\ x \in Exports /\ x # Nothing
      BY <1>1, SequenceFacts, EditionFacts DEF SchemeInv, RegisterTypeOK
    <3>2. got' = Put(got, s, x) /\ fetched' = fetched \cup {s}
      BY <2>1 DEF Fetch
    <3>3. Filled(got')
      BY <3>1, <3>2, PutTyped DEF SchemeInv, RegisterTypeOK
    <3>4. published \in since .. published
      BY <1>1
    <3>5. Recent(x, s)
      BY <3>4 DEF Recent
    <3>6. /\ \A r \in DOMAIN got' : Recent(got'[r], r)
          /\ fetched' = DOMAIN got'
      <4> HIDE DEF s, x
      <4> QED
        BY <1>1, <3>2, <3>5 DEF Put, SchemeInv, GotInv
    <3> QED
      BY <1>1, <3>1, <3>2, <3>3, <3>6 DEF GotInv, Recent, SchemeInv, RegisterTypeOK
  <2>2. CASE FetchFails
    BY <1>1, <2>2 DEF FetchFails, SchemeInv, RegisterTypeOK, GotInv, Recent
  <2> QED
    BY <2>1, <2>2
<1>3. RegisterTypeOK'
  BY <1>1, <1>2 DEF SchemeInv, RegisterTypeOK, Partial, Filled, NoScheme
<1>4. WriteInv' /\ FilesInv'
  BY <1>1 DEF SchemeInv, WriteInv, FilesInv, Published, PartOf
<1> QED
  BY <1>1, <1>2, <1>3, <1>4, ServeKept DEF SchemeInv

\* update ends: it had nothing to save, has saved all, or is killed.
LEMMA StopUpdateInv ==
  ASSUME SchemeInv, StopUpdate, UNCHANGED <<faults, published, files, serve>>
  PROVE  SchemeInv'
<1>1. /\ step' = "idle" /\ at' = 1 /\ got' = Nothing /\ writing' = {}
      /\ torn' = torn \cup writing /\ fetched' = {} /\ since' = 1
      /\ UNCHANGED <<faults, published, files, loader, reading, register, known, dubious>>
  BY DEF StopUpdate, serve, NoScheme
<1>2. writing \subseteq DOMAIN files
  BY DEF SchemeInv, WriteInv
<1>3. RegisterTypeOK'
  BY <1>1, <1>2, NothingFacts, SequenceFacts DEF SchemeInv, RegisterTypeOK, Partial, Filled
<1>4. WriteInv' /\ GotInv'
  BY <1>1, NothingFacts DEF WriteInv, GotInv, NoScheme
<1>5. FilesInv'
  BY <1>1 DEF SchemeInv, FilesInv, Published, PartOf
<1> QED
  BY <1>3, <1>4, <1>5, ServeKept DEF SchemeInv

LEMMA EndUpdateInv == SchemeInv /\ (Fetched \/ SavedAll \/ Crash) => SchemeInv'
<1> SUFFICES ASSUME SchemeInv, Fetched \/ SavedAll \/ Crash PROVE SchemeInv'
  OBVIOUS
<1>1. UNCHANGED <<faults, published, files, serve>>
  BY DEF Fetched, SavedAll, Crash
<1>2. CASE StopUpdate
  BY <1>1, <1>2, StopUpdateInv
<1>3. CASE ~ StopUpdate
  <2>1. /\ step = "fetch" /\ step' = "save" /\ writing = NoScheme /\ fetched = DOMAIN got
        /\ UNCHANGED <<at, got, writing, torn, fetched, since>>
        /\ UNCHANGED <<loader, reading, register, known, dubious>>
    BY <1>1, <1>3 DEF Fetched, SavedAll, Crash, SchemeInv, WriteInv, GotInv, serve
  <2>2. RegisterTypeOK'
    BY <1>1, <2>1 DEF SchemeInv, RegisterTypeOK, Partial, Filled
  <2>3. WriteInv' /\ GotInv' /\ FilesInv'
    BY <1>1, <2>1 DEF SchemeInv, WriteInv, GotInv, FilesInv, Published, Recent, PartOf
  <2> QED
    BY <1>1, <2>2, <2>3, ServeKept DEF SchemeInv
<1> QED
  BY <1>2, <1>3

\* A file is truncated, then written.
LEMMA TruncateInv == SchemeInv /\ Truncate => SchemeInv'
<1> SUFFICES ASSUME SchemeInv, Truncate PROVE SchemeInv'
  OBVIOUS
<1>1. PICK s \in DOMAIN got : writing' = {s} /\ \E part \in Cut(got[s]) : files' = Put(files, s, part)
  BY DEF Truncate
<1>2. PICK part \in Cut(got[s]) : files' = Put(files, s, part)
  BY <1>1
<1>3. /\ step = "save" /\ writing = {} /\ since \in 1 .. published /\ published \in Nat
      /\ UNCHANGED <<faults, published, step, at, got, torn, fetched, since, serve>>
      /\ UNCHANGED <<loader, reading, register, known, dubious>>
  BY SequenceFacts DEF Truncate, serve, NoScheme, SchemeInv, RegisterTypeOK
<1>4. s \in Schemes /\ got[s] \in Exports
  BY DEF SchemeInv, RegisterTypeOK, Filled, Partial
<1>5. part \in Exports /\ DOMAIN part \subseteq DOMAIN got[s]
  BY <1>2, <1>4, CutExport DEF Cut
<1>6. Partial(files') /\ DOMAIN files' = DOMAIN files \cup {s}
  <2>1. Partial(files')
    BY <1>2, <1>4, <1>5, PutTyped DEF SchemeInv, RegisterTypeOK
  <2> QED
    BY <1>2, <2>1 DEF Put
<1>7. RegisterTypeOK'
  BY <1>1, <1>3, <1>6 DEF SchemeInv, RegisterTypeOK, Partial, Filled
<1>8. WriteInv'
  BY <1>1, <1>3, <1>4, <1>6 DEF WriteInv
<1>9. FilesInv'
  <2>1. PartOf(part, s)
    <3>1. PartOf(got[s], s)
      BY <1>3, PublishedFacts DEF SchemeInv, GotInv
    <3> QED
      BY <1>5, <3>1 DEF PartOf
  <2> QED
    BY <1>1, <1>2, <1>3, <2>1 DEF Put, SchemeInv, FilesInv, Published, PartOf
<1>10. GotInv'
  <2>1. \A r \in fetched \ DOMAIN got : r \in DOMAIN files' /\ files'[r] = files[r]
    BY <1>2, <1>3 DEF Put, SchemeInv, GotInv
  <2> QED
    BY <1>3, <2>1 DEF SchemeInv, GotInv, Recent
<1> QED
  BY <1>3, <1>7, <1>8, <1>9, <1>10, ServeKept DEF SchemeInv

LEMMA WrittenInv == SchemeInv /\ Written => SchemeInv'
<1> SUFFICES ASSUME SchemeInv, Written PROVE SchemeInv'
  OBVIOUS
<1>1. PICK s \in writing : files' = Put(files, s, got[s]) /\ torn' = torn \ {s} /\ got' = Without(got, s)
  BY DEF Written
<1>2. /\ step = "save" /\ writing' = {} /\ writing = {s} /\ since \in 1 .. published /\ published \in Nat
      /\ UNCHANGED <<faults, published, step, at, fetched, since, serve>>
      /\ UNCHANGED <<loader, reading, register, known, dubious>>
  BY <1>1, SequenceFacts DEF Written, SchemeInv, WriteInv, RegisterTypeOK, serve, NoScheme
<1>3. s \in DOMAIN got /\ s \in Schemes /\ got[s] \in Exports
  BY DEF SchemeInv, RegisterTypeOK, Filled, Partial
<1>4. Partial(files') /\ DOMAIN files' = DOMAIN files \cup {s}
  <2>1. Partial(files')
    BY <1>1, <1>3, PutTyped DEF SchemeInv, RegisterTypeOK
  <2> QED
    BY <1>1, <2>1 DEF Put
<1>5. Filled(got') /\ DOMAIN got' = DOMAIN got \ {s} /\ \A r \in DOMAIN got' : got'[r] = got[r]
  BY <1>1, WithoutFacts DEF SchemeInv, RegisterTypeOK
<1>6. RegisterTypeOK'
  BY <1>1, <1>2, <1>4, <1>5 DEF SchemeInv, RegisterTypeOK, Partial, Filled
<1>7. WriteInv'
  BY <1>2 DEF WriteInv, NoScheme
<1>8. Recent(got[s], s)
  BY <1>3 DEF SchemeInv, GotInv
<1>9. /\ files'[s] = got[s]
      /\ \A r \in DOMAIN files' : r # s => r \in DOMAIN files /\ files'[r] = files[r]
      /\ \A r \in DOMAIN files \ {s} : files'[r] = files[r]
  BY <1>1, <1>4 DEF Put
<1>10. GotInv'
  <2>1. \A r \in fetched \ DOMAIN got' : r \in DOMAIN files' /\ Recent(files'[r], r)
    BY <1>2, <1>4, <1>5, <1>8, <1>9 DEF SchemeInv, GotInv
  <2> QED
    BY <1>2, <1>5, <2>1 DEF SchemeInv, GotInv, Recent
<1>11. FilesInv'
  <2>1. Published(got[s], s) /\ PartOf(got[s], s)
    BY <1>2, <1>8, PublishedFacts
  <2> QED
    BY <1>1, <1>2, <1>9, <2>1 DEF SchemeInv, FilesInv, Published, PartOf
<1> QED
  BY <1>2, <1>6, <1>7, <1>10, <1>11, ServeKept DEF SchemeInv

\* serve starts to load.
LEMMA StartServeInv == SchemeInv /\ StartServe => SchemeInv'
<1> SUFFICES ASSUME SchemeInv, StartServe PROVE SchemeInv'
  OBVIOUS
<1>1. /\ loader' = "loading" /\ UNCHANGED <<faults, published, files, update, reading, register, known, dubious>>
      /\ UNCHANGED <<step, at, got, writing, torn, fetched, since>>
  BY DEF StartServe, update
<1>2. RegisterTypeOK'
  BY <1>1 DEF SchemeInv, RegisterTypeOK, Partial, Filled
<1>3. RegisterInv'
  BY <1>1 DEF SchemeInv, RegisterInv, KnownInv, LoadedInv, Published, PartOf
<1> QED
  BY <1>1, <1>2, <1>3, UpdateKept DEF SchemeInv

LEMMA LoadSchemeInv == SchemeInv /\ (LoadScheme \/ SkipScheme) => SchemeInv'
<1> SUFFICES ASSUME SchemeInv, LoadScheme \/ SkipScheme PROVE SchemeInv'
  OBVIOUS
<1>1. /\ reading \in 1 .. Len(AllSchemes) /\ reading' \in 1 .. Len(AllSchemes) + 1
      /\ loader = "loading" /\ Next1 \in Schemes
      /\ UNCHANGED <<faults, published, files, update, step, at, got, writing, torn, fetched, since, loader>>
  BY SequenceFacts DEF LoadScheme, SkipScheme, Loading, Next1, SchemeInv, RegisterTypeOK, update
<1>2. Filled(register') /\ RegisterInv' /\ known' \subseteq Bics /\ dubious' \subseteq DOMAIN register'
  <2>1. CASE LoadScheme
    <3> DEFINE x == files[Next1]
    <3>1. /\ Next1 \in DOMAIN files /\ x # Nothing /\ x \in Exports
          /\ register' = Put(register, Next1, x) /\ known' = known \cup DOMAIN x
          /\ dubious' = dubious \cup ({Next1} \cap (writing \cup torn))
      BY <2>1 DEF LoadScheme, Add, Doubt, SchemeInv, RegisterTypeOK, Partial
    <3>2. Filled(register') /\ DOMAIN x \subseteq Bics
      BY <1>1, <3>1, PutTyped DEF SchemeInv, RegisterTypeOK, Exports
    <3>3. /\ DOMAIN register' = DOMAIN register \cup {Next1} /\ register'[Next1] = x
          /\ \A s \in DOMAIN register' : s # Next1 => s \in DOMAIN register /\ register'[s] = register[s]
      BY <3>1 DEF Put
    <3>4. PartOf(x, Next1) /\ (Next1 \notin writing \cup torn => Published(x, Next1))
      BY <3>1 DEF SchemeInv, FilesInv
    <3>5. LoadedInv'
      <4>1. \A s \in DOMAIN register' :
              PartOf(register'[s], s) /\ (s \notin dubious' => Published(register'[s], s))
        <5> HIDE DEF x
        <5> QED
          BY <3>1, <3>3, <3>4 DEF SchemeInv, RegisterInv, LoadedInv
      <4> QED
        BY <1>1, <4>1 DEF LoadedInv, PartOf, Published
    <3>6. KnownInv'
      <4>1. \A s \in DOMAIN register' : DOMAIN register'[s] \subseteq known'
        <5> HIDE DEF x
        <5> QED
          BY <3>1, <3>3 DEF SchemeInv, RegisterInv, KnownInv
      <4>2. \A b \in known' : \E t \in DOMAIN register', e \in 1 .. published : b \in DOMAIN Editions[e][t]
        <5> SUFFICES ASSUME NEW b \in known'
            PROVE  \E t \in DOMAIN register', e \in 1 .. published : b \in DOMAIN Editions[e][t]
          OBVIOUS
        <5>1. CASE b \in known
          BY <3>3, <5>1 DEF SchemeInv, RegisterInv, KnownInv
        <5>2. CASE b \in DOMAIN x
          <6>1. PICK e \in 1 .. published : DOMAIN x \subseteq DOMAIN Editions[e][Next1]
            BY <3>4 DEF PartOf
          <6> QED
            BY <3>3, <5>2, <6>1
        <5> QED
          BY <3>1, <5>1, <5>2
      <4> QED
        BY <1>1, <4>1, <4>2 DEF KnownInv
    <3> QED
      BY <3>1, <3>2, <3>3, <3>5, <3>6 DEF RegisterInv, SchemeInv, RegisterTypeOK
  <2>2. CASE SkipScheme
    BY <1>1, <2>2 DEF SkipScheme, SchemeInv, RegisterTypeOK, RegisterInv, KnownInv, LoadedInv, Published, PartOf
  <2> QED
    BY <2>1, <2>2
<1>3. RegisterTypeOK'
  BY <1>1, <1>2 DEF SchemeInv, RegisterTypeOK, Partial, Filled
<1> QED
  BY <1>1, <1>2, <1>3, UpdateKept DEF SchemeInv

\* A load that fails, the end of one, and the end of the server.
LEMMA DownInv ==
  ASSUME SchemeInv, Down, UNCHANGED <<faults, published, files, update>> PROVE SchemeInv'
<1>1. /\ loader' = "down" /\ reading' = 1 /\ register' = Nothing /\ known' = {} /\ dubious' = {}
      /\ UNCHANGED <<faults, published, files, step, at, got, writing, torn, fetched, since>>
  BY DEF Down, update
<1>2. RegisterTypeOK'
  BY <1>1, NothingFacts, SequenceFacts DEF SchemeInv, RegisterTypeOK, Partial, Filled
<1>3. RegisterInv'
  BY <1>1, NothingFacts DEF RegisterInv, KnownInv, LoadedInv
<1> QED
  BY <1>2, <1>3, UpdateKept DEF SchemeInv

LEMMA EndLoadInv == SchemeInv /\ (LoadFails \/ LoadedAll \/ Stop) => SchemeInv'
<1> SUFFICES ASSUME SchemeInv, LoadFails \/ LoadedAll \/ Stop PROVE SchemeInv'
  OBVIOUS
<1>1. UNCHANGED <<faults, published, files, update>>
  BY DEF LoadFails, LoadedAll, Stop
<1>2. CASE Down
  BY <1>1, <1>2, DownInv
<1>3. CASE ~ Down
  <2>1. /\ loader = "loading" /\ loader' = "up" /\ UNCHANGED <<reading, register, known, dubious>>
        /\ UNCHANGED <<step, at, got, writing, torn, fetched, since>>
    BY <1>1, <1>3 DEF LoadFails, LoadedAll, Stop, update
  <2>2. RegisterTypeOK'
    BY <1>1, <2>1 DEF SchemeInv, RegisterTypeOK, Partial, Filled
  <2>3. RegisterInv'
    BY <1>1, <2>1 DEF SchemeInv, RegisterInv, KnownInv, LoadedInv, Published, PartOf
  <2> QED
    BY <1>1, <2>2, <2>3, UpdateKept DEF SchemeInv
<1> QED
  BY <1>2, <1>3

LEMMA SchemeStepInv == SchemeInv /\ [RegisterNext]_registerVars => SchemeInv'
<1>1. SchemeInv /\ UNCHANGED registerVars => SchemeInv'
  <2> SUFFICES ASSUME SchemeInv, UNCHANGED registerVars PROVE SchemeInv'
    OBVIOUS
  <2>1. /\ UNCHANGED <<faults, published, files, update, serve>>
        /\ UNCHANGED <<step, at, got, writing, torn, fetched, since, loader, reading, register, known, dubious>>
    BY DEF registerVars, update, serve
  <2>2. RegisterTypeOK'
    BY <2>1 DEF SchemeInv, RegisterTypeOK, Partial, Filled
  <2> QED
    BY <2>1, <2>2, ServeKept, UpdateKept DEF SchemeInv
<1> QED
  BY <1>1, PublishInv, StartUpdateInv, FetchInv, EndUpdateInv, TruncateInv, WrittenInv,
     StartServeInv, LoadSchemeInv, EndLoadInv DEF RegisterNext

LEMMA SchemeInvAlways == RegisterSpec => []SchemeInv
BY SchemeInitInv, SchemeStepInv, PTL DEF RegisterSpec

-----------------------------------------------------------------------------
\* The types, and that what update holds and what serve has loaded parsed.
THEOREM RegisterTyped == RegisterSpec => []RegisterTypeOK
<1>1. SchemeInv => RegisterTypeOK
  BY DEF SchemeInv
<1> QED
  BY <1>1, SchemeInvAlways, PTL

\* A file whose last write was not cut off is a whole published export, whichever
\* downloads fail and wherever update crashes (update.go parses before it stores).
THEOREM RegisterFilesLoadable == RegisterSpec => []FilesStayLoadable
<1>1. SchemeInv => FilesStayLoadable
  BY DEF SchemeInv, FilesInv, FilesStayLoadable, Published
<1> QED
  BY <1>1, SchemeInvAlways, PTL

\* What an update has written is on disk in an edition published since it started,
\* also where an earlier one left a file cut off (SaveDir).
THEOREM RegisterRefreshes == RegisterSpec => []UpdateRefreshes
<1>1. SchemeInv => UpdateRefreshes
  BY DEF SchemeInv, GotInv, UpdateRefreshes, Recent
<1> QED
  BY <1>1, SchemeInvAlways, PTL

\* Each status the server gives, once every scheme has data, was published, except
\* of a scheme loaded from a file that was not whole (Registry.Lookup).
THEOREM RegisterReliable == RegisterSpec => []Reliable
<1>1. ASSUME SchemeInv, DOMAIN register = Schemes,
             NEW s \in Schemes \ dubious, NEW b \in Bics, Lookup(s, b) # "unknown"
      PROVE  \E e \in 1 .. published : Lookup(s, b) = Status(e, s, b)
  <2>1. PICK e \in 1 .. published : register[s] = Editions[e][s]
    BY <1>1 DEF SchemeInv, RegisterInv, LoadedInv, Published
  <2> QED
    BY <1>1, <2>1 DEF Lookup, Status
<1>2. SchemeInv => Reliable
  BY <1>1 DEF Reliable
<1> QED
  BY <1>2, SchemeInvAlways, PTL

\* Each denial of the server has its reason in what was published, however the
\* files came to be, and known never forgets a scheme (Registry.Add, Lookup).
THEOREM RegisterNegativesEarned == RegisterSpec => []NegativesEarned
<1>1. ASSUME SchemeInv, NEW s \in Schemes, NEW b \in Bics, Lookup(s, b) \in {"not_participant", "unknown"}
      PROVE  /\ s \in DOMAIN register => b \notin DOMAIN register[s]
             /\ Lookup(s, b) = "not_participant" <=> b \in known
  <2>1. s \in DOMAIN register /\ b \in DOMAIN register[s] => register[s][b] \in Listed
    BY <1>1 DEF SchemeInv, RegisterTypeOK, Filled, Partial, Exports
  <2>2. ~ (s \in DOMAIN register /\ b \in DOMAIN register[s])
    BY <1>1, <2>1 DEF Lookup, Listed
  <2>3. Lookup(s, b) = IF b \in known THEN "not_participant" ELSE "unknown"
    BY <2>2 DEF Lookup
  <2> QED
    BY <2>2, <2>3
<1>2. ASSUME SchemeInv, NEW s \in Schemes, NEW b \in Bics, Lookup(s, b) = "not_participant"
      PROVE  \E t \in DOMAIN register, e \in 1 .. published : b \in DOMAIN Editions[e][t]
  <2>1. b \in known
    BY <1>1, <1>2
  <2> QED
    BY <1>2, <2>1 DEF SchemeInv, RegisterInv, KnownInv
<1>3. ASSUME SchemeInv, NEW s \in Schemes, NEW b \in Bics, Lookup(s, b) = "unknown",
             NEW t \in DOMAIN register \ dubious
      PROVE  \E e \in 1 .. published : b \notin DOMAIN Editions[e][t]
  <2>1. b \notin DOMAIN register[t]
    BY <1>1, <1>3 DEF SchemeInv, RegisterInv, KnownInv
  <2>2. PICK e \in 1 .. published : register[t] = Editions[e][t]
    BY <1>3 DEF SchemeInv, RegisterInv, LoadedInv, Published
  <2> QED
    BY <2>1, <2>2
<1>4. SchemeInv => NegativesEarned
  BY <1>2, <1>3 DEF NegativesEarned
<1> QED
  BY <1>4, SchemeInvAlways, PTL
=============================================================================

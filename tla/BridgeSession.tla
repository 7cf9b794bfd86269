---------------------------- MODULE BridgeSession ----------------------------
(***************************************************************************)
(* pkg/mcp: one run of the bridge (bridge.go) over its HTTP client         *)
(* (client.go), against a server that keeps sessions and may end any of    *)
(* them at any time.                                                       *)
(*                                                                         *)
(* An actor is a goroutine with at most one HTTP exchange in flight: one   *)
(* per line read from stdin (the Run loop itself acts for it before the    *)
(* handshake is over, a goroutine of its own afterwards) and one for the   *)
(* listening stream. An exchange is three steps: Prepare reads the shared  *)
(* session id into the request, Serve is the server, Receive the client's  *)
(* half of the answer. A re-init runs the same three steps on behalf of    *)
(* the actor that holds handshakeMu, first for the cached initialize       *)
(* request, then for the cached notification.                              *)
(*                                                                         *)
(* Session ids are numbered in the order the server creates them; 0 is the *)
(* empty id. Authorization (doAuthed's 401 ladder) is not part of this     *)
(* module: a call that fails on it is one more failed exchange.            *)
(***************************************************************************)
EXTENDS Naturals, FiniteSets

CONSTANTS
    Reqs,        \* the requests the MCP client sends besides initialize
    Nobody,      \* holder of a free handshakeMu, line of an idle Run loop
    Faults,      \* the failures this instance allows, a subset of FaultKinds
    MaxDeaths    \* how many sessions the server may end

FaultKinds == {"fail",       \* 5xx, 429, broken connection
               "mute",       \* 202 or an empty answer to a request
               "cut",        \* the stream breaks after the answer came
              "nostream",   \* the server may answer GET with 405
               "echo",       \* the server repeats Mcp-Session-Id on answers
               "strict",     \* it may answer 400 to a missing session id
               "cancel",     \* a signal cancels Run's context
               "drain"}      \* in-flight requests outlast DrainTimeout

Listener == "listener"
Lines  == {"init", "note"} \cup Reqs
Actors == Lines \cup {Listener}

ASSUME ConstantsAssumption ==
    /\ Reqs \cap {"init", "note", Listener, Nobody} = {}
    /\ Nobody \notin Actors
    /\ Faults \subseteq FaultKinds
    /\ MaxDeaths \in Nat

VARIABLES
    phase,      \* of Run: "open", "drain" (EOF or cancelled), "closed"
    cancelled,  \* ctx is cancelled
    timedOut,   \* drainInFlight gave up
    loop,       \* the line the Run loop serves itself in the serial phase
    ready,      \* handshakeDone
    mu,         \* holder of handshakeMu across a re-init
    gen,        \* Bridge.gen
    sessioned,  \* Bridge.sessioned
    noteCached, \* Bridge.initNote is set
    sid,        \* Client.sessionID
    cursor,     \* session whose stream Client.lastEventID comes from
    pc, job,    \* per actor: where it is; its own message or a re-init's
    mygen,      \* the generation it read before its request
    carried,    \* the session id its last request carried
    reply,      \* the answer on its way back
    replayed,   \* it is past its re-init
    live,       \* server: sessions that exist
    created,    \* server: number of sessions created
    noted,      \* server: sessions that got notifications/initialized
    executed,   \* server: how often each request was executed
    answers,    \* stdout: how many answers each request id got
    upset,      \* ids whose answer the server left out or cut off
    deaths,     \* sessions the server ended
    lost        \* sessions created by an initialize that failed for the client

run   == <<phase, cancelled, timedOut, loop, ready>>
hs    == <<mu, gen, sessioned, noteCached>>
conn  == <<sid, cursor>>
act   == <<pc, job, mygen, carried, reply, replayed>>
srv   == <<live, created, noted, executed, deaths, lost>>
outp  == <<answers, upset>>
vars  == <<run, hs, conn, act, srv, outp>>

States == {"new", "gen", "prep", "wire", "reply", "lock", "open", "done", "stopped"}
Statuses == {"ok", "mute", "cut", "notfound", "nostream", "error"}
NoReply == [status |-> "ok", hdr |-> 0]

TypeOK ==
    /\ phase \in {"open", "drain", "closed"}
    /\ cancelled \in BOOLEAN /\ timedOut \in BOOLEAN
    /\ loop \in Lines \cup {Nobody}
    /\ ready \in BOOLEAN
    /\ mu \in Actors \cup {Nobody}
    /\ gen \in Nat
    /\ sessioned \in BOOLEAN /\ noteCached \in BOOLEAN
    /\ sid \in 0..created
    /\ cursor \in 0..created
    /\ pc \in [Actors -> States]
    /\ job \in [Actors -> {"own", "reinit", "renote"}]
    /\ mygen \in [Actors -> Nat]
    /\ carried \in [Actors -> 0..created]
    /\ reply \in [Actors -> [status : Statuses, hdr : 0..created]]
    /\ replayed \in [Actors -> BOOLEAN]
    /\ created \in Nat
    /\ live \subseteq 1..created
    /\ noted \subseteq 1..created
    /\ executed \in [Reqs -> Nat]
    /\ answers \in [Reqs \cup {"init"} -> Nat]
    /\ upset \subseteq Reqs \cup {"init"}
    /\ deaths \in Nat /\ lost \subseteq 1..created

Init ==
    /\ phase = "open" /\ cancelled = FALSE /\ timedOut = FALSE
    /\ loop = Nobody /\ ready = FALSE
    /\ mu = Nobody /\ gen = 0 /\ sessioned = FALSE /\ noteCached = FALSE
    /\ sid = 0 /\ cursor = 0
    /\ pc = [a \in Actors |-> "new"]
    /\ job = [a \in Actors |-> "own"]
    /\ mygen = [a \in Actors |-> 0]
    /\ carried = [a \in Actors |-> 0]
    /\ reply = [a \in Actors |-> NoReply]
    /\ replayed = [a \in Actors |-> FALSE]
    /\ live = {} /\ created = 0 /\ noted = {} /\ deaths = 0 /\ lost = {}
    /\ executed = [m \in Reqs |-> 0]
    /\ answers = [m \in Reqs \cup {"init"} |-> 0]
    /\ upset = {}

-----------------------------------------------------------------------------
(* Helpers.                                                                *)

Running == phase # "closed"

\* The JSON-RPC message the exchange of actor a carries.
Msg(a) == CASE job[a] = "reinit" -> "init"
            [] job[a] = "renote" -> "note"
            [] OTHER -> a

Goto(a, state) == pc' = [pc EXCEPT ![a] = state]

\* Mutant: only the initialize response is waited for.
Mut_ReadyAfter(m) == m = "init" \/ pc["init"] = "done"

\* The handshake is complete once m has been served as well.
ReadyAfter(m) == \A l \in {"init", "note"} : l = m \/ pc[l] = "done"

\* The actor of line m ends. In the serial phase the Run loop takes the next
\* line and, once the handshake is complete, starts the listening goroutine.
Finish(m) ==
    /\ loop' = IF loop = m THEN Nobody ELSE loop
    /\ ready' = (ready \/ (loop = m /\ ReadyAfter(m)))
    /\ pc' = [pc EXCEPT ![m] = "done",
                        ![Listener] = IF ~ready /\ ready' THEN "gen" ELSE @]
    /\ reply' = [reply EXCEPT ![m] = NoReply]

\* n answers for m's id are written to stdout.
Answer(m, n) == answers' = [answers EXCEPT ![m] = @ + n]

\* The server left out the answer to m, or broke its stream.
MarkUpset(m) ==
    upset' = IF reply[m].status \in {"mute", "cut"} THEN upset \cup {m} ELSE upset

-----------------------------------------------------------------------------
(* The Run loop: reading stdin.                                            *)

\* An MCP client sends initialize first, and may pipeline what follows.
ReadLine(m) ==
    /\ phase = "open" /\ loop = Nobody /\ pc[m] = "new"
    /\ m # "init" => pc["init"] # "new"
    /\ loop' = IF ready THEN loop ELSE m
    /\ noteCached' = (noteCached \/ m = "note")
    /\ Goto(m, IF m \in Reqs THEN "gen" ELSE "prep")
    /\ UNCHANGED <<phase, cancelled, timedOut, ready, mu, gen, sessioned, conn,
                   job, mygen, carried, reply, replayed, srv, outp>>

\* stdin ends, or the loop sees the cancelled context.
StopReading ==
    /\ phase = "open" /\ loop = Nobody
    /\ phase' = "drain"
    /\ UNCHANGED <<cancelled, timedOut, loop, ready, hs, conn, act, srv, outp>>

Cancel ==
    /\ "cancel" \in Faults /\ Running /\ ~cancelled
    /\ cancelled' = TRUE
    /\ UNCHANGED <<phase, timedOut, loop, ready, hs, conn, act, srv, outp>>

\* Mutant: Run exits without waiting for its goroutines.
Mut_Drained == TRUE

Drained == \A m \in Lines : pc[m] \in {"new", "done"}

\* drainInFlight, the final cancel and DeleteSession.
CloseRun ==
    /\ phase = "drain"
    /\ Drained \/ "drain" \in Faults
    /\ phase' = "closed"
    /\ timedOut' = ~Drained
    /\ cancelled' = TRUE
    /\ \/ live' = live \ {sid}
       \/ "fail" \in Faults /\ UNCHANGED live
    /\ UNCHANGED <<loop, ready, hs, conn, act, created, noted, executed, deaths, lost, outp>>

-----------------------------------------------------------------------------
(* One exchange.                                                           *)

\* send and startListening: b.generation() waits for a re-init to end.
ReadGen(a) ==
    /\ Running /\ pc[a] = "gen" /\ mu = Nobody
    /\ mygen' = [mygen EXCEPT ![a] = gen]
    /\ Goto(a, "prep")
    /\ UNCHANGED <<run, hs, conn, job, carried, reply, replayed, srv, outp>>

\* Client.prepare
Prepare(a) ==
    /\ Running /\ pc[a] = "prep"
    /\ carried' = [carried EXCEPT ![a] = sid]
    /\ Goto(a, "wire")
    /\ UNCHANGED <<run, hs, conn, job, mygen, reply, replayed, srv, outp>>

Reply(a, status, hdr) ==
    /\ reply' = [reply EXCEPT ![a] = [status |-> status, hdr |-> hdr]]
    /\ Goto(a, "reply")
    /\ UNCHANGED <<run, hs, conn, job, mygen, carried, replayed, deaths, outp>>

OnWire(a, kinds) == Running /\ pc[a] = "wire" /\ Msg(a) \in kinds
Known(a) == carried[a] \in live
EchoOf(a) == {0} \cup IF "echo" \in Faults THEN {carried[a]} ELSE {}

\* Every initialize creates a session and names it in the answer's header.
ServeInit(a) ==
    /\ OnWire(a, {"init"})
    /\ created' = created + 1
    /\ live' = live \cup {created + 1}
    /\ \/ Reply(a, "ok", created + 1) /\ UNCHANGED lost
       \/ "mute" \in Faults /\ Reply(a, "mute", created + 1) /\ UNCHANGED lost
       \/ /\ \/ "cut" \in Faults /\ Reply(a, "cut", created + 1)
             \/ "fail" \in Faults /\ Reply(a, "error", 0)
          /\ lost' = lost \cup {created + 1}
    /\ UNCHANGED <<noted, executed>>

ServeNote(a) ==
    /\ OnWire(a, {"note"}) /\ Known(a)
    /\ noted' = noted \cup {carried[a]}
    /\ \E h \in EchoOf(a) : Reply(a, "ok", h)
    /\ UNCHANGED <<live, created, executed, lost>>

ServeRequest(a) ==
    /\ OnWire(a, Reqs) /\ Known(a)
    /\ executed' = [executed EXCEPT ![a] = @ + 1]
    /\ \E s \in {"ok", "mute", "cut", "error"}, h \in EchoOf(a) :
         /\ s \in {"mute", "cut"} => s \in Faults
         /\ s = "error" => "fail" \in Faults
         /\ Reply(a, s, h)
    /\ UNCHANGED <<live, created, noted, lost>>

ServeListen(a) ==
    /\ OnWire(a, {Listener}) /\ Known(a)
    /\ \/ \E h \in EchoOf(a) : Reply(a, "ok", h)
       \/ "nostream" \in Faults /\ Reply(a, "nostream", 0)
    /\ UNCHANGED <<live, created, noted, executed, lost>>

\* 404 to a dead session; 404 or 400 to a request without session id.
ServeUnknown(a) ==
    /\ OnWire(a, Actors \ {"init"}) /\ ~Known(a)
    /\ \/ \E h \in EchoOf(a) : Reply(a, "notfound", h)
       \/ carried[a] = 0 /\ "strict" \in Faults /\ Reply(a, "error", 0)
    /\ UNCHANGED <<live, created, noted, executed, lost>>

\* The exchange fails before the server acts on it, or ctx is cancelled.
ServeFails(a) ==
    /\ OnWire(a, Actors) /\ ("fail" \in Faults \/ cancelled)
    /\ Reply(a, "error", 0)
    /\ UNCHANGED <<live, created, noted, executed, lost>>

Serve(a) ==
    \/ ServeInit(a) \/ ServeNote(a) \/ ServeRequest(a)
    \/ ServeListen(a) \/ ServeUnknown(a) \/ ServeFails(a)

-----------------------------------------------------------------------------
(* The client's half of an answer.                                         *)

Arrived(a, j) == Running /\ pc[a] = "reply" /\ job[a] = j

\* Client.captureSession
Capture(a) == sid' = IF reply[a].hdr # 0 THEN reply[a].hdr ELSE sid

\* Post returned no error: a response body is not required.
Accepted(a) == reply[a].status \in {"ok", "mute"}

\* Mutant: an upstream failure is logged and not answered.
Mut_Written(status) ==
    CASE status \in {"mute", "error"} -> 0 [] status = "cut" -> 2 [] OTHER -> 1

\* How many answers a finished exchange writes for the id of its request: an
\* error is synthesized, also after a stream that broke behind the answer.
Written(status) == CASE status = "mute" -> 0 [] status = "cut" -> 2 [] OTHER -> 1

\* handleInitialize: an error is answered and ends the run.
ReceiveInit ==
    /\ Arrived("init", "own")
    /\ Capture("init")
    /\ Answer("init", Written(reply["init"].status))
    /\ MarkUpset("init")
    /\ Finish("init")
    /\ \/ Accepted("init") /\ sessioned' = (sid' # 0) /\ UNCHANGED phase
       \/ ~Accepted("init") /\ phase' = "closed" /\ UNCHANGED sessioned
    /\ UNCHANGED <<cancelled, timedOut, mu, gen, noteCached, cursor,
                   job, mygen, carried, replayed, srv>>

\* serialPhase: a failed notification is only logged.
ReceiveNote ==
    /\ Arrived("note", "own")
    /\ Capture("note")
    /\ Finish("note")
    /\ UNCHANGED <<phase, cancelled, timedOut, hs, cursor,
                   job, mygen, carried, replayed, srv, outp>>

\* Mutant: every HTTP error is replayed after a re-init.
Mut_ReplayAnyError(m) ==
    reply[m].status \in {"notfound", "error"} /\ sessioned /\ ~replayed[m]

\* Mutant: the replay may be replayed in its turn.
Mut_ReplayForever(m) == reply[m].status = "notfound" /\ sessioned

\* send: 404 of a server that has sessions goes to reinit, once.
GoesToReinit(m) == reply[m].status = "notfound" /\ sessioned /\ ~replayed[m]

ReceiveAnswer(m) ==
    /\ m \in Reqs /\ Arrived(m, "own") /\ ~GoesToReinit(m)
    /\ Capture(m)
    /\ Answer(m, Written(reply[m].status))
    /\ MarkUpset(m)
    /\ Finish(m)
    /\ UNCHANGED <<phase, cancelled, timedOut, hs, cursor,
                   job, mygen, carried, replayed, srv>>

ReceiveGone(m) ==
    /\ m \in Reqs /\ Arrived(m, "own") /\ GoesToReinit(m)
    /\ Capture(m)
    /\ Goto(m, "lock")
    /\ reply' = [reply EXCEPT ![m] = NoReply]
    /\ UNCHANGED <<run, hs, cursor, job, mygen, carried, replayed, srv, outp>>

\* listenOnce and the loops around it: what each answer to the GET leads to.
AfterListen == CASE reply[Listener].status = "ok" -> "open"
                 [] reply[Listener].status = "error" -> "prep"
                 [] reply[Listener].status = "notfound" /\ carried[Listener] # 0 -> "lock"
                 [] OTHER -> "stopped"

ReceiveListen ==
    /\ Arrived(Listener, "own")
    /\ IF reply[Listener].status = "ok" THEN Capture(Listener) ELSE UNCHANGED sid
    /\ Goto(Listener, AfterListen)
    /\ reply' = [reply EXCEPT ![Listener] = NoReply]
    /\ UNCHANGED <<run, hs, cursor, job, mygen, carried, replayed, srv, outp>>

\* An event with an id arrives on the open stream ...
StreamEvent ==
    /\ Running /\ pc[Listener] = "open" /\ cursor # carried[Listener]
    /\ cursor' = carried[Listener]
    /\ UNCHANGED <<run, hs, sid, act, srv, outp>>

\* ... and the stream ends; Listen reconnects without reading gen again.
StreamEnds ==
    /\ Running /\ pc[Listener] = "open"
    /\ Goto(Listener, "prep")
    /\ UNCHANGED <<run, hs, conn, job, mygen, carried, reply, replayed, srv, outp>>

\* Listen and its goroutine end with the context.
ListenerCancelled ==
    /\ Running /\ cancelled /\ pc[Listener] \in {"prep", "wire", "open"}
    /\ job[Listener] = "own"
    /\ Goto(Listener, "stopped")
    /\ UNCHANGED <<run, hs, conn, job, mygen, carried, reply, replayed, srv, outp>>

-----------------------------------------------------------------------------
(* reinit, under handshakeMu.                                              *)

\* Mutant: the listener resumes at a place of its own.
Mut_Resume(a) == IF a = Listener THEN "listen" ELSE "prep"

\* Where an actor goes on after a re-init: the replay, or a new Listen.
Resume(a) == IF a = Listener THEN "gen" ELSE "prep"

\* Mutant: reinit does not look at the generation.
Mut_Current(a) == TRUE

\* reinit: no re-init has succeeded since the request of a started.
Current(a) == gen = mygen[a]

\* Someone already re-initialized after our request started.
SkipReinit(a) ==
    /\ Running /\ pc[a] = "lock" /\ mu = Nobody /\ ~Current(a)
    /\ replayed' = [replayed EXCEPT ![a] = TRUE]
    /\ Goto(a, Resume(a))
    /\ UNCHANGED <<run, hs, conn, job, mygen, carried, reply, srv, outp>>

\* Mutant: the lost session stays the client's while its successor is opened.
Mut_StartReinit(a) ==
    /\ Running /\ pc[a] = "lock" /\ mu = Nobody /\ Current(a)
    /\ mu' = a
    /\ job' = [job EXCEPT ![a] = "reinit"]
    /\ Goto(a, "prep")
    /\ UNCHANGED <<run, sid, cursor, gen, sessioned, noteCached, mygen, carried,
                   reply, replayed, srv, outp>>

StartReinit(a) ==
    /\ Running /\ pc[a] = "lock" /\ mu = Nobody /\ Current(a)
    /\ mu' = a
    /\ sid' = 0 /\ cursor' = 0   \* clearSession
    /\ job' = [job EXCEPT ![a] = "reinit"]
    /\ Goto(a, "prep")
    /\ UNCHANGED <<run, gen, sessioned, noteCached, mygen, carried, reply, replayed, srv, outp>>

\* The internal initialize was answered: no line of it reaches stdout.
ReinitInitialized(a) ==
    /\ Arrived(a, "reinit") /\ Accepted(a) /\ noteCached
    /\ Capture(a)
    /\ job' = [job EXCEPT ![a] = "renote"]
    /\ Goto(a, "prep")
    /\ reply' = [reply EXCEPT ![a] = NoReply]
    /\ UNCHANGED <<run, hs, cursor, mygen, carried, replayed, srv, outp>>

\* Mutant: a finished re-init does not advance the generation.
Mut_NextGen == gen

NextGen == gen + 1

\* The handshake is through (a failed notification is only logged).
ReinitDone(a) ==
    /\ \/ Arrived(a, "renote")
       \/ Arrived(a, "reinit") /\ Accepted(a) /\ ~noteCached
    /\ Capture(a)
    /\ gen' = NextGen
    /\ mu' = Nobody
    /\ job' = [job EXCEPT ![a] = "own"]
    /\ replayed' = [replayed EXCEPT ![a] = TRUE]
    /\ Goto(a, Resume(a))
    /\ reply' = [reply EXCEPT ![a] = NoReply]
    /\ UNCHANGED <<run, sessioned, noteCached, cursor, mygen, carried, srv, outp>>

\* initialize failed: the request gets an error, the listener ends.
ReinitFails(a) ==
    /\ Arrived(a, "reinit") /\ ~Accepted(a)
    /\ Capture(a)
    /\ mu' = Nobody
    /\ job' = [job EXCEPT ![a] = "own"]
    /\ IF a = Listener
       THEN /\ Goto(a, "stopped")
            /\ reply' = [reply EXCEPT ![a] = NoReply]
            /\ UNCHANGED <<loop, ready, answers>>
       ELSE Finish(a) /\ Answer(a, 1)
    /\ UNCHANGED <<phase, cancelled, timedOut, gen, sessioned, noteCached, cursor,
                   mygen, carried, replayed, srv, upset>>

-----------------------------------------------------------------------------
\* The server ends a session: restart, timeout, eviction.
SessionDies ==
    /\ Running /\ deaths < MaxDeaths
    /\ \E s \in live : live' = live \ {s}
    /\ deaths' = deaths + 1
    /\ UNCHANGED <<run, hs, conn, act, created, noted, executed, lost, outp>>

\* The bridge has exited, or waits for a line that does not come.
Rest == (phase = "closed" \/ (phase = "open" /\ Drained)) /\ UNCHANGED vars

Receive(a) ==
    \/ a = "init" /\ ReceiveInit
    \/ a = "note" /\ ReceiveNote
    \/ ReceiveAnswer(a) \/ ReceiveGone(a)
    \/ a = Listener /\ ReceiveListen
    \/ ReinitInitialized(a) \/ ReinitDone(a) \/ ReinitFails(a)

\* What goes on without further input: the goroutine's own steps and the
\* server's half of its exchange.
Step(a) ==
    \/ ReadGen(a) \/ Prepare(a) \/ Serve(a) \/ Receive(a)
    \/ SkipReinit(a) \/ StartReinit(a)

Next ==
    \/ \E m \in Lines : ReadLine(m)
    \/ \E a \in Actors : Step(a)
    \/ StreamEvent \/ StreamEnds \/ ListenerCancelled
    \/ StopReading \/ Cancel \/ CloseRun \/ SessionDies \/ Rest

Spec == Init /\ [][Next]_vars

\* Goroutines run, the server answers or the connection breaks, and Go's mutex
\* lets every waiter in; sessions end finitely often, so weak fairness will do.
FairSpec == Spec /\ \A a \in Actors : WF_vars(Step(a))

-----------------------------------------------------------------------------
(* Properties.                                                             *)

\* Every request read from stdin ends with exactly one answer on stdout
\* (bridge.go: send, handleInitialize, reinit, synthesizeError), across
\* re-inits and replays, none of which shows on stdout; the exceptions are the
\* server's: no answer at all, or one with a broken stream behind it.
OneAnswer ==
    \A m \in (Reqs \cup {"init"}) \ upset :
        answers[m] = (IF pc[m] = "done" THEN 1 ELSE 0)

\* The replay after a re-init (bridge.go: send) never repeats a request that
\* the server has executed.
ExecutedOnce == \A m \in Reqs : executed[m] <= 1

\* However many exchanges fail together, a lost session is replaced once
\* (bridge.go: reinit; TestBridgeConcurrent404SingleReinit).
SessionsJustified == created <= 1 + deaths + Cardinality(lost)

\* reinit never gives up a session that a handshake has established and the
\* server still has: "only the first with a current gen re-inits - the rest
\* just replay against the fresh session" (bridge.go:301).
LiveSessionKept ==
    [][\A a \in Actors : StartReinit(a) => sid \notin live \ lost]_vars

\* An answer that names a session is on its way to the client.
Offered == \E a \in Actors : pc[a] = "reply" /\ reply[a].hdr # 0

Chain == INSTANCE SessionChain
             WITH session <- sid, offered <- Offered, replacing <- mu # Nobody, era <- gen

\* To a server that names each session once the goroutines of a bridge are one
\* client with one session at a time (bridge.go: reinit, generation;
\* client.go: captureSession, clearSession).
SessionsChained == Chain!Spec

\* Until the handshake is over one exchange is in flight at a time, so a
\* pipelined line never overtakes initialize or initialized (bridge.go: Run,
\* serialPhase; TestBridgeHandshakeOrdering).
SerialUntilReady ==
    pc["init"] # "done" \/ pc["note"] # "done" =>
        Cardinality({a \in Actors : pc[a] \notin {"new", "done"}}) <= 1

\* A run that ends without drain timeout leaves no request it read unanswered
\* (bridge.go: Run, drainInFlight).
ExitAnswersAll ==
    phase = "closed" /\ ~timedOut =>
        \A m \in Reqs : pc[m] = "new" \/ answers[m] >= 1 \/ m \in upset

\* A request that was read is settled, unless Run ends first (bridge.go: send):
\* neither re-inits nor waiting for handshakeMu hold it forever.
Settles ==
    \A m \in Reqs : pc[m] # "new" ~> pc[m] = "done" \/ phase = "closed"

\* With a server that offers a stream the listening goroutine ends only with the
\* run or a failed re-init: "during a re-init the id is temporarily empty, and
\* concurrent 404 handlers must still route into reinit" (bridge.go:289).
ListenerKept == "nostream" \notin Faults => pc[Listener] # "stopped"

\* Last-Event-ID is never sent to another session than the one it comes from
\* (client.go:139, clearSession).
CursorOfSession ==
    [][Prepare(Listener) /\ job[Listener] = "own" /\ sid # 0 => cursor \in {0, sid}]_vars
=============================================================================

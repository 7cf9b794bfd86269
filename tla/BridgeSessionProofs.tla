------------------------- MODULE BridgeSessionProofs -------------------------
(***************************************************************************)
(* Theorems about BridgeSession, for any set of requests, any faults and   *)
(* any number of session deaths.                                           *)
(*                                                                         *)
(* IInv says who can be where: the holder of handshakeMu is the one actor  *)
(* that speaks for the bridge (PlaceInv), and before the handshake is over *)
(* the one actor at work is the Run loop's line (SerialInv). What has been *)
(* answered and executed follows from the place alone (AnswerInv,          *)
(* ExecuteInv). SInv adds what is known about sessions when the server     *)
(* names them in the answers to initialize only.                           *)
(***************************************************************************)
EXTENDS BridgeSession, FiniteSetTheorems, TLAPS

\* Where lines and listener can be; job differs from "own" exactly under
\* handshakeMu, and only for a request or the listener.
PlaceInv ==
    /\ \A a \in {"init", "note"} : pc[a] \in {"new", "prep", "wire", "reply", "done"}
    /\ \A m \in Reqs : pc[m] \notin {"open", "stopped"}
    /\ pc[Listener] # "done"
    /\ \A a \in Actors : job[a] # "own" <=> mu = a
    /\ mu # Nobody => mu \in Reqs \cup {Listener} /\ pc[mu] \in {"prep", "wire", "reply"}

\* Before handshakeDone only the line the Run loop serves is under way, and
\* nothing has been read before initialize is done.
SerialInv ==
    /\ ready <=> pc["init"] = "done" /\ pc["note"] = "done"
    /\ ready => loop = Nobody
    /\ ~ready => \A a \in Actors : pc[a] \in {"new", "done"} \/ loop = a
    /\ pc["init"] # "done" => \A a \in Actors \ {"init"} : pc[a] = "new"

\* A request is answered when its actor ends.
AnswerInv ==
    \A m \in Reqs \cup {"init"} :
        /\ pc[m] # "done" => answers[m] = 0
        /\ pc[m] = "done" => (answers[m] = 1 \/ m \in upset)

\* A request that was executed is on its way to its answer: the one answer
\* that leads to a replay says that the server did not know the session.
ExecuteInv ==
    \A m \in Reqs :
        \/ executed[m] = 0
        \/ /\ executed[m] = 1
           /\ \/ pc[m] = "done"
              \/ (pc[m] = "reply" /\ job[m] = "own" /\ reply[m].status # "notfound")

\* A run that ends in order leaves no request under way.
ExitInv ==
    phase = "closed" /\ ~timedOut => \A m \in Reqs : pc[m] \in {"new", "done"}

IInv == TypeOK /\ PlaceInv /\ SerialInv /\ AnswerInv /\ ExecuteInv /\ ExitInv

-----------------------------------------------------------------------------
(* Sessions, of a server that does not repeat Mcp-Session-Id.              *)

\* Only the answer to initialize names a session; if that initialize failed
\* for the client the session is lost.
HeaderInv ==
    \A a \in Actors : pc[a] = "reply" =>
        /\ reply[a].hdr # 0 => Msg(a) = "init"
        /\ Msg(a) = "init" /\ ~Accepted(a) => reply[a].hdr \in {0} \cup lost

\* The client has no session before the first initialize is answered, and none
\* from clearSession until the internal one is.
ClearInv ==
    /\ pc["init"] # "done" => sid = 0
    /\ \A a \in Actors : job[a] = "reinit" => sid = 0

\* What took a to the lock is gone for good.
GoneInv ==
    \A a \in Actors :
        /\ job[a] = "own"
        /\ pc[a] = "lock" \/ (pc[a] = "reply" /\ reply[a].status = "notfound")
        => carried[a] \notin live

\* While nobody re-initializes, a request of the current generation carries
\* the client's session, or the client has none but a lost one.
CurrentInv ==
    /\ \A a \in Actors : mygen[a] <= gen
    /\ \A a \in Reqs \cup {Listener} :
        /\ mu = Nobody /\ pc[a] \in {"wire", "reply", "lock"} /\ Current(a)
        => sid \in {0, carried[a]} \cup lost

\* A session in use is the client's, or in the answer to an initialize.
KnownInv ==
    \A s \in live \ lost :
        \/ s = sid
        \/ \E a \in Actors : pc[a] = "reply" /\ Msg(a) = "init" /\ reply[a].hdr = s

\* Sessions end only when the server ends them.
CountInv == Running => created = Cardinality(live) + deaths

SInv == HeaderInv /\ ClearInv /\ GoneInv /\ CurrentInv /\ KnownInv /\ CountInv

-----------------------------------------------------------------------------
(* Each conjunct of IInv is preserved by every step.                       *)

\* Counting up one key leaves a table of counters well typed.
LEMMA CounterType ==
    ASSUME NEW K, NEW f \in [K -> Nat], NEW k, NEW n \in Nat
    PROVE  [f EXCEPT ![k] = @ + n] \in [K -> Nat]
<1>1. CASE k \in K
  <2>1. f[k] + n \in Nat
    BY <1>1
  <2> QED
    BY <2>1
<1>2. CASE k \notin K
  BY <1>2
<1> QED
  BY <1>1, <1>2

\* An answer of the server keeps the types if what the server did keeps its own.
LEMMA ReplyType ==
    ASSUME TypeOK,
           NEW a \in Actors, NEW s \in Statuses, NEW h \in 0..created', Reply(a, s, h),
           created' \in Nat, created <= created',
           live' \subseteq 1..created', noted' \subseteq 1..created', lost' \subseteq 1..created',
           executed' \in [Reqs -> Nat]
    PROVE  TypeOK'
<1> USE DEF TypeOK, Reply, Goto, run, hs, conn, outp
<1>1. reply' \in [Actors -> [status : Statuses, hdr : 0..created']]
  <2>1. [status |-> s, hdr |-> h] \in [status : Statuses, hdr : 0..created']
    OBVIOUS
  <2>2. ASSUME NEW b \in Actors PROVE reply[b] \in [status : Statuses, hdr : 0..created']
    <3>1. reply[b] \in [status : Statuses, hdr : 0..created]
      OBVIOUS
    <3>2. 0..created \subseteq 0..created'
      OBVIOUS
    <3> QED
      BY <3>1, <3>2
  <2> QED
    BY <2>1, <2>2
<1>2. pc' \in [Actors -> States]
  BY DEF States
<1>3. carried' \in [Actors -> 0..created']
  OBVIOUS
<1> QED
  BY <1>1, <1>2, <1>3

\* Whatever the server does keeps the types.
LEMMA ServeType ==
    ASSUME TypeOK, NEW a \in Actors, Serve(a)
    PROVE  TypeOK'
<1>0. /\ created \in Nat /\ carried[a] \in 0..created
      /\ live \subseteq 1..created /\ noted \subseteq 1..created /\ lost \subseteq 1..created
      /\ executed \in [Reqs -> Nat]
  BY DEF TypeOK
<1>1. EchoOf(a) \subseteq 0..created
  BY <1>0 DEF EchoOf
<1>2. "ok" \in Statuses /\ "mute" \in Statuses /\ "cut" \in Statuses /\ "error" \in Statuses
      /\ "nostream" \in Statuses /\ "notfound" \in Statuses
  BY DEF Statuses
<1>3. CASE ServeInit(a)
  <2>1. created' = created + 1 /\ noted' = noted /\ executed' = executed
        /\ live' = live \cup {created + 1} /\ lost' \in {lost, lost \cup {created + 1}}
    BY <1>3 DEF ServeInit
  <2>2. created' \in Nat /\ created <= created' /\ created + 1 \in 1..created'
        /\ created + 1 \in 0..created' /\ 0 \in 0..created' /\ 1..created \subseteq 1..created'
    BY <1>0, <2>1
  <2>3. PICK s \in Statuses, h \in {0, created + 1} : Reply(a, s, h)
    BY <1>2, <1>3 DEF ServeInit
  <2>4. h \in 0..created'
    BY <2>2
  <2>5. live' \subseteq 1..created' /\ lost' \subseteq 1..created'
        /\ noted' \subseteq 1..created' /\ executed' \in [Reqs -> Nat]
    BY <1>0, <2>1, <2>2
  <2> QED
    BY <2>2, <2>3, <2>4, <2>5, ReplyType
<1>4. CASE ServeNote(a) \/ ServeRequest(a) \/ ServeListen(a) \/ ServeUnknown(a) \/ ServeFails(a)
  <2>1. created' = created /\ live' = live /\ lost' = lost
    BY <1>4 DEF ServeNote, ServeRequest, ServeListen, ServeUnknown, ServeFails, Reply
  <2>2. noted' \subseteq 1..created
    <3>1. noted' = noted \/ (noted' = noted \cup {carried[a]} /\ carried[a] \in live)
      BY <1>4 DEF ServeNote, ServeRequest, ServeListen, ServeUnknown, ServeFails, Known
    <3>2. noted \cup live \subseteq 1..created
      BY <1>0
    <3> QED
      BY <2>1, <3>1, <3>2
  <2>3. executed' \in [Reqs -> Nat]
    BY <1>0, <1>4 DEF ServeNote, ServeRequest, ServeListen, ServeUnknown, ServeFails
  <2>4. PICK s \in Statuses, h \in {0} \cup EchoOf(a) : Reply(a, s, h)
    BY <1>2, <1>4 DEF ServeNote, ServeRequest, ServeListen, ServeUnknown, ServeFails
  <2>5. h \in 0..created'
    BY <1>0, <1>1, <2>1
  <2>6. created' \in Nat /\ created <= created'
    BY <1>0, <2>1
  <2> QED
    BY <1>0, <2>1, <2>2, <2>3, <2>4, <2>5, <2>6, ReplyType
<1> QED
  BY <1>3, <1>4 DEF Serve

\* What the client keeps of an answer.
LEMMA CaptureType ==
    ASSUME TypeOK, NEW a \in Actors
    PROVE  /\ Capture(a) => sid' \in 0..created
           /\ reply[a].status \in Statuses /\ reply[a].hdr \in 0..created
           /\ Written(reply[a].status) \in Nat
           /\ [reply EXCEPT ![a] = NoReply] \in [Actors -> [status : Statuses, hdr : 0..created]]
BY DEF TypeOK, Capture, Written, NoReply, Statuses

\* A line that ends leaves places, loop and answers well typed.
LEMMA FinishType ==
    ASSUME TypeOK, NEW m \in Lines, Finish(m)
    PROVE  /\ loop' \in Lines \cup {Nobody} /\ ready' \in BOOLEAN
           /\ pc' \in [Actors -> States]
           /\ reply' \in [Actors -> [status : Statuses, hdr : 0..created]]
<1> USE DEF TypeOK, Finish, Lines, Actors
<1>1. NoReply \in [status : Statuses, hdr : 0..created]
  BY DEF NoReply, Statuses
<1>2. ready' \in BOOLEAN
  BY DEF ReadyAfter
<1> QED
  BY <1>1, <1>2 DEF States

\* Every step keeps the types.
LEMMA TypeStep ==
    ASSUME TypeOK, [Next]_vars
    PROVE  TypeOK'
<1> USE ConstantsAssumption DEF Lines, Actors, Listener, States, Statuses, NoReply,
        run, hs, conn, act, srv, outp
<1>0. /\ created \in Nat /\ carried \in [Actors -> 0..created]
      /\ live \subseteq 1..created /\ noted \subseteq 1..created /\ lost \subseteq 1..created
      /\ executed \in [Reqs -> Nat] /\ answers \in [Reqs \cup {"init"} -> Nat]
      /\ upset \subseteq Reqs \cup {"init"}
  BY DEF TypeOK
<1>1. CASE UNCHANGED vars
  BY <1>1 DEF TypeOK, vars
<1>2. ASSUME NEW m \in Lines, ReadLine(m) PROVE TypeOK'
  BY <1>2 DEF TypeOK, ReadLine, Goto
<1>3. ASSUME NEW a \in Actors, ReadGen(a) PROVE TypeOK'
  BY <1>3 DEF TypeOK, ReadGen, Goto
<1>4. ASSUME NEW a \in Actors, Prepare(a) PROVE TypeOK'
  BY <1>4 DEF TypeOK, Prepare, Goto
<1>5. ASSUME NEW a \in Actors, Serve(a) PROVE TypeOK'
  BY <1>5, ServeType
<1>11. CASE ReceiveInit
  <2>1. "init" \in Lines /\ "init" \in Actors /\ Finish("init") /\ Capture("init")
    BY <1>11 DEF ReceiveInit
  <2>2. answers' \in [Reqs \cup {"init"} -> Nat] /\ upset' \subseteq Reqs \cup {"init"}
    BY <1>0, <1>11, <2>1, CaptureType DEF ReceiveInit, Answer, MarkUpset
  <2>3. phase' \in {"open", "drain", "closed"} /\ sessioned' \in BOOLEAN
    BY <1>11 DEF ReceiveInit, TypeOK
  <2> QED
    BY <1>11, <2>1, <2>2, <2>3, CaptureType, FinishType DEF ReceiveInit, TypeOK
<1>12. CASE ReceiveNote
  BY <1>12, CaptureType, FinishType DEF TypeOK, ReceiveNote
<1>13. ASSUME NEW m \in Actors, ReceiveAnswer(m) PROVE TypeOK'
  BY <1>13, CaptureType, FinishType DEF TypeOK, ReceiveAnswer, Answer, MarkUpset
<1>14. ASSUME NEW m \in Actors, ReceiveGone(m) PROVE TypeOK'
  BY <1>14 DEF TypeOK, ReceiveGone, Capture, Goto
<1>15. CASE ReceiveListen
  BY <1>15 DEF TypeOK, ReceiveListen, Capture, Goto, AfterListen
<1>16. ASSUME NEW a \in Actors, SkipReinit(a) PROVE TypeOK'
  BY <1>16 DEF TypeOK, SkipReinit, Goto, Resume
<1>17. ASSUME NEW a \in Actors, StartReinit(a) PROVE TypeOK'
  BY <1>17 DEF TypeOK, StartReinit, Goto
<1>18. ASSUME NEW a \in Actors, ReinitInitialized(a) PROVE TypeOK'
  BY <1>18 DEF TypeOK, ReinitInitialized, Capture, Goto
<1>19. ASSUME NEW a \in Actors, ReinitDone(a) PROVE TypeOK'
  BY <1>19 DEF TypeOK, ReinitDone, Capture, Goto, Resume, NextGen
<1>20. ASSUME NEW a \in Actors, ReinitFails(a) PROVE TypeOK'
  <2>1. sid' \in 0..created /\ NoReply \in [status : Statuses, hdr : 0..created]
    BY <1>20, CaptureType DEF ReinitFails, TypeOK
  <2>2. CASE a = Listener
    <3>1. pc' \in [Actors -> States] /\ job' \in [Actors -> {"own", "reinit", "renote"}]
      BY <1>20, <2>2 DEF ReinitFails, Goto, TypeOK
    <3>2. reply' = [reply EXCEPT ![a] = NoReply]
      BY <1>20, <2>2 DEF ReinitFails
    <3> QED
      BY <1>20, <2>1, <2>2, <3>1, <3>2, CaptureType DEF ReinitFails, TypeOK
  <2>3. CASE a \in Lines
    <3>1. Finish(a) /\ Answer(a, 1)
      BY <1>20, <2>3 DEF ReinitFails
    <3>2. answers' \in [Reqs \cup {"init"} -> Nat]
      BY <1>0, <3>1, CounterType DEF Answer
    <3> QED
      BY <1>20, <2>1, <2>3, <3>1, <3>2, FinishType DEF ReinitFails, TypeOK
  <2> QED
    BY <2>2, <2>3
<1>21. CASE StreamEvent
  BY <1>21 DEF TypeOK, StreamEvent
<1>22. CASE StreamEnds \/ ListenerCancelled
  BY <1>22, ZenonT(60) DEF TypeOK, StreamEnds, ListenerCancelled, Goto
<1>23. CASE StopReading \/ Cancel
  BY <1>23 DEF TypeOK, StopReading, Cancel
<1>24. CASE CloseRun
  BY <1>24 DEF TypeOK, CloseRun
<1>25. CASE SessionDies
  BY <1>25 DEF TypeOK, SessionDies
<1>26. CASE Rest
  BY <1>26 DEF TypeOK, Rest, vars
<1> QED
  BY <1>1, <1>2, <1>3, <1>4, <1>5, <1>11, <1>12, <1>13,
     <1>14, <1>15, <1>16, <1>17, <1>18, <1>19, <1>20, <1>21, <1>22, <1>23, <1>24, <1>25, <1>26
     DEF Next, Step, Receive

\* What an exchange does to places when the server has its half: nothing else
\* of the client moves.
LEMMA ServeMoves ==
    ASSUME NEW a \in Actors, Serve(a)
    PROVE  /\ Running /\ pc[a] = "wire"
           /\ pc' = [pc EXCEPT ![a] = "reply"]
           /\ \E s \in Statuses, h \in Nat \cup {carried[a]} \cup {created + 1} :
                  reply' = [reply EXCEPT ![a] = [status |-> s, hdr |-> h]]
           /\ UNCHANGED <<run, hs, conn, job, mygen, carried, replayed, deaths, outp>>
BY DEF Serve, ServeInit, ServeNote, ServeRequest, ServeListen, ServeUnknown, ServeFails,
       OnWire, Reply, Goto, EchoOf, Statuses

\* One actor at a time speaks for the bridge, and every actor keeps to its
\* own places.
LEMMA PlaceStep ==
    ASSUME TypeOK, PlaceInv, SerialInv, [Next]_vars
    PROVE  PlaceInv'
<1> USE ConstantsAssumption DEF PlaceInv, Lines, Actors, Listener, run, hs, conn, act, srv, outp
<1>0. /\ pc \in [Actors -> States] /\ job \in [Actors -> {"own", "reinit", "renote"}]
      /\ loop \in Lines \cup {Nobody} /\ ready \in BOOLEAN
      /\ ~ready => pc[Listener] = "new"
  BY DEF TypeOK, SerialInv
<1>1. CASE UNCHANGED vars
  BY <1>1 DEF vars
<1>2. ASSUME NEW m \in Lines, ReadLine(m) PROVE PlaceInv'
  BY <1>0, <1>2 DEF ReadLine, Goto
<1>3. ASSUME NEW a \in Actors, ReadGen(a) PROVE PlaceInv'
  BY <1>0, <1>3 DEF ReadGen, Goto
<1>4. ASSUME NEW a \in Actors, Prepare(a) PROVE PlaceInv'
  BY <1>0, <1>4 DEF Prepare, Goto
<1>5. ASSUME NEW a \in Actors, Serve(a) PROVE PlaceInv'
  <2>1. pc[a] = "wire" /\ pc' = [pc EXCEPT ![a] = "reply"] /\ UNCHANGED <<mu, job>>
    BY <1>5, ServeMoves
  <2> QED
    BY <1>0, <2>1
<1>6. CASE ReceiveInit
  BY <1>0, <1>6 DEF ReceiveInit, Arrived, Finish, ReadyAfter
<1>7. CASE ReceiveNote
  BY <1>0, <1>7 DEF ReceiveNote, Arrived, Finish, ReadyAfter
<1>8. ASSUME NEW m \in Actors, ReceiveAnswer(m) PROVE PlaceInv'
  BY <1>0, <1>8 DEF ReceiveAnswer, Arrived, Finish, ReadyAfter
<1>9. ASSUME NEW m \in Actors, ReceiveGone(m) PROVE PlaceInv'
  BY <1>0, <1>9 DEF ReceiveGone, Arrived, Goto
<1>10. CASE ReceiveListen
  BY <1>0, <1>10 DEF ReceiveListen, Arrived, Goto, AfterListen
<1>11. CASE StreamEvent
  BY <1>11 DEF StreamEvent
<1>12. CASE StreamEnds
  BY <1>0, <1>12 DEF StreamEnds, Goto
<1>13. CASE ListenerCancelled
  BY <1>0, <1>13 DEF ListenerCancelled, Goto
<1>14. ASSUME NEW a \in Actors, SkipReinit(a) PROVE PlaceInv'
  BY <1>0, <1>14 DEF SkipReinit, Goto, Resume
<1>15. ASSUME NEW a \in Actors, StartReinit(a) PROVE PlaceInv'
  BY <1>0, <1>15 DEF StartReinit, Goto
<1>16. ASSUME NEW a \in Actors, ReinitInitialized(a) PROVE PlaceInv'
  BY <1>0, <1>16 DEF ReinitInitialized, Arrived, Goto
<1>17. ASSUME NEW a \in Actors, ReinitDone(a) PROVE PlaceInv'
  BY <1>0, <1>17 DEF ReinitDone, Arrived, Goto, Resume
<1>18. ASSUME NEW a \in Actors, ReinitFails(a) PROVE PlaceInv'
  <2>1. job[a] = "reinit" /\ mu = a /\ mu' = Nobody /\ job' = [job EXCEPT ![a] = "own"]
    BY <1>0, <1>18 DEF ReinitFails, Arrived
  <2>2. CASE a = Listener
    <3>1. pc' = [pc EXCEPT ![Listener] = "stopped"]
      BY <1>18, <2>2 DEF ReinitFails, Goto
    <3> QED
      BY <1>0, <2>1, <2>2, <3>1
  <2>3. CASE a # Listener
    <3>1. a \in Reqs /\ Finish(a)
      BY <1>18, <2>1, <2>3 DEF ReinitFails
    <3> QED
      BY <1>0, <2>1, <3>1 DEF Finish
  <2> QED
    BY <2>2, <2>3
<1>19. CASE StopReading \/ Cancel \/ CloseRun \/ SessionDies
  BY <1>19 DEF StopReading, Cancel, CloseRun, SessionDies
<1>20. CASE Rest
  BY <1>20 DEF Rest, vars
<1> QED
  BY <1>1, <1>2, <1>3, <1>4, <1>5, <1>6, <1>7, <1>8, <1>9, <1>10, <1>11, <1>12, <1>13, <1>14,
     <1>15, <1>16, <1>17, <1>18, <1>19, <1>20 DEF Next, Step, Receive

\* The Run loop serves the handshake alone.
LEMMA SerialStep ==
    ASSUME TypeOK, PlaceInv, SerialInv, [Next]_vars
    PROVE  SerialInv'
<1> USE ConstantsAssumption DEF SerialInv, Lines, Actors, Listener, run, hs, conn, act, srv, outp
<1>0. /\ pc \in [Actors -> States] /\ job \in [Actors -> {"own", "reinit", "renote"}]
      /\ loop \in Lines \cup {Nobody} /\ ready \in BOOLEAN
      /\ PlaceInv
  BY DEF TypeOK
<1>1. CASE UNCHANGED vars
  BY <1>1 DEF vars
<1>2. ASSUME NEW m \in Lines, ReadLine(m) PROVE SerialInv'
  BY <1>0, <1>2 DEF PlaceInv, ReadLine, Goto
<1>3. ASSUME NEW a \in Actors, ReadGen(a) PROVE SerialInv'
  BY <1>0, <1>3 DEF PlaceInv, ReadGen, Goto
<1>4. ASSUME NEW a \in Actors, Prepare(a) PROVE SerialInv'
  BY <1>0, <1>4 DEF PlaceInv, Prepare, Goto
<1>5. ASSUME NEW a \in Actors, Serve(a) PROVE SerialInv'
  BY <1>0, <1>5, ServeMoves
<1>6. CASE ReceiveInit
  BY <1>0, <1>6 DEF PlaceInv, ReceiveInit, Arrived, Finish, ReadyAfter
<1>7. CASE ReceiveNote
  BY <1>0, <1>7 DEF PlaceInv, ReceiveNote, Arrived, Finish, ReadyAfter
<1>8. ASSUME NEW m \in Actors, ReceiveAnswer(m) PROVE SerialInv'
  BY <1>0, <1>8 DEF PlaceInv, ReceiveAnswer, Arrived, Finish, ReadyAfter
<1>9. ASSUME NEW m \in Actors, ReceiveGone(m) PROVE SerialInv'
  BY <1>0, <1>9 DEF PlaceInv, ReceiveGone, Arrived, Goto
<1>10. CASE ReceiveListen
  BY <1>0, <1>10 DEF PlaceInv, ReceiveListen, Arrived, Goto, AfterListen
<1>11. CASE StreamEvent
  BY <1>11 DEF StreamEvent
<1>12. CASE StreamEnds
  BY <1>0, <1>12 DEF PlaceInv, StreamEnds, Goto
<1>13. CASE ListenerCancelled
  BY <1>0, <1>13 DEF PlaceInv, ListenerCancelled, Goto
<1>14. ASSUME NEW a \in Actors, SkipReinit(a) PROVE SerialInv'
  BY <1>0, <1>14 DEF PlaceInv, SkipReinit, Goto, Resume
<1>15. ASSUME NEW a \in Actors, StartReinit(a) PROVE SerialInv'
  BY <1>0, <1>15 DEF PlaceInv, StartReinit, Goto
<1>16. ASSUME NEW a \in Actors, ReinitInitialized(a) PROVE SerialInv'
  BY <1>0, <1>16 DEF PlaceInv, ReinitInitialized, Arrived, Goto
<1>17. ASSUME NEW a \in Actors, ReinitDone(a) PROVE SerialInv'
  BY <1>0, <1>17 DEF PlaceInv, ReinitDone, Arrived, Goto, Resume
<1>18. ASSUME NEW a \in Actors, ReinitFails(a) PROVE SerialInv'
  BY <1>0, <1>18 DEF PlaceInv, ReinitFails, Arrived, Goto, Finish, ReadyAfter
<1>19. CASE StopReading \/ Cancel \/ CloseRun \/ SessionDies
  BY <1>19 DEF StopReading, Cancel, CloseRun, SessionDies
<1>20. CASE Rest
  BY <1>20 DEF Rest, vars
<1> QED
  BY <1>1, <1>2, <1>3, <1>4, <1>5, <1>6, <1>7, <1>8, <1>9, <1>10, <1>11, <1>12, <1>13, <1>14,
     <1>15, <1>16, <1>17, <1>18, <1>19, <1>20 DEF Next, Step, Receive

\* A request is answered at the step that ends its actor, and only then.
LEMMA AnswerStep ==
    ASSUME TypeOK, PlaceInv, AnswerInv, [Next]_vars
    PROVE  AnswerInv'
<1> USE ConstantsAssumption DEF AnswerInv, Lines, Actors, Listener, run, hs, conn, act, srv, outp
<1>0. /\ pc \in [Actors -> States]
      /\ answers \in [Reqs \cup {"init"} -> Nat] /\ upset \subseteq Reqs \cup {"init"}
  BY DEF TypeOK
<1>1. CASE UNCHANGED vars
  BY <1>1 DEF vars
<1>2. ASSUME NEW m \in Lines, ReadLine(m) PROVE AnswerInv'
  BY <1>0, <1>2 DEF ReadLine, Goto
<1>3. ASSUME NEW a \in Actors, ReadGen(a) PROVE AnswerInv'
  BY <1>0, <1>3 DEF ReadGen, Goto
<1>4. ASSUME NEW a \in Actors, Prepare(a) PROVE AnswerInv'
  BY <1>0, <1>4 DEF Prepare, Goto
<1>5. ASSUME NEW a \in Actors, Serve(a) PROVE AnswerInv'
  <2>1. pc[a] = "wire" /\ pc' = [pc EXCEPT ![a] = "reply"] /\ UNCHANGED <<answers, upset>>
    BY <1>5, ServeMoves DEF outp
  <2> QED
    BY <1>0, <2>1
<1>6. CASE ReceiveInit
  BY <1>0, <1>6 DEF ReceiveInit, Arrived, Finish, Answer, MarkUpset, Written
<1>7. CASE ReceiveNote
  BY <1>0, <1>7 DEF ReceiveNote, Arrived, Finish
<1>8. ASSUME NEW m \in Actors, ReceiveAnswer(m) PROVE AnswerInv'
  BY <1>0, <1>8 DEF ReceiveAnswer, Arrived, Finish, Answer, MarkUpset, Written
<1>9. ASSUME NEW m \in Actors, ReceiveGone(m) PROVE AnswerInv'
  BY <1>0, <1>9 DEF ReceiveGone, Arrived, Goto
<1>10. CASE ReceiveListen
  BY <1>0, <1>10 DEF ReceiveListen, Arrived, Goto, AfterListen
<1>11. CASE StreamEvent
  BY <1>0, <1>11 DEF StreamEvent
<1>12. CASE StreamEnds \/ ListenerCancelled
  BY <1>0, <1>12 DEF StreamEnds, ListenerCancelled, Goto
<1>13. ASSUME NEW a \in Actors, SkipReinit(a) PROVE AnswerInv'
  BY <1>0, <1>13 DEF SkipReinit, Goto, Resume
<1>14. ASSUME NEW a \in Actors, StartReinit(a) PROVE AnswerInv'
  BY <1>0, <1>14 DEF StartReinit, Goto
<1>15. ASSUME NEW a \in Actors, ReinitInitialized(a) PROVE AnswerInv'
  BY <1>0, <1>15 DEF ReinitInitialized, Arrived, Goto
<1>16. ASSUME NEW a \in Actors, ReinitDone(a) PROVE AnswerInv'
  BY <1>0, <1>16 DEF ReinitDone, Arrived, Goto, Resume
<1>17. ASSUME NEW a \in Actors, ReinitFails(a) PROVE AnswerInv'
  <2>1. CASE a = Listener
    <3>1. pc' = [pc EXCEPT ![Listener] = "stopped"] /\ UNCHANGED <<answers, upset>>
      BY <1>17, <2>1 DEF ReinitFails, Goto
    <3> QED
      BY <1>0, <3>1
  <2>2. CASE a # Listener
    <3>1. pc[a] = "reply" /\ upset' = upset /\ answers' = [answers EXCEPT ![a] = @ + 1]
      BY <1>17, <2>2 DEF ReinitFails, Arrived, Answer
    <3>2. pc'[a] = "done" /\ \A m \in Lines : m # a => pc'[m] = pc[m]
      BY <1>0, <1>17, <2>2 DEF ReinitFails, Finish
    <3>3. ASSUME NEW m \in Reqs \cup {"init"}
          PROVE  /\ pc'[m] # "done" => answers'[m] = 0
                 /\ pc'[m] = "done" => answers'[m] = 1 \/ m \in upset'
      <4>1. CASE m = a
        BY <1>0, <3>1, <3>2, <4>1
      <4>2. CASE m # a
        BY <1>0, <3>1, <3>2, <4>2
      <4> QED
        BY <4>1, <4>2
    <3> QED
      BY <3>3
  <2> QED
    BY <2>1, <2>2
<1>18. CASE StopReading \/ Cancel \/ CloseRun \/ SessionDies
  BY <1>0, <1>18 DEF StopReading, Cancel, CloseRun, SessionDies
<1>19. CASE Rest
  BY <1>0, <1>19 DEF Rest, vars
<1> QED
  BY <1>1, <1>2, <1>3, <1>4, <1>5, <1>6, <1>7, <1>8, <1>9, <1>10, <1>11, <1>12, <1>13, <1>14,
     <1>15, <1>16, <1>17, <1>18, <1>19 DEF Next, Step, Receive

\* A request that was executed goes to the server no more.
LEMMA ExecuteStep ==
    ASSUME TypeOK, PlaceInv, ExecuteInv, [Next]_vars
    PROVE  ExecuteInv'
<1> USE ConstantsAssumption DEF ExecuteInv, Lines, Actors, Listener, run, hs, conn, act, srv, outp
<1>0. /\ pc \in [Actors -> States] /\ job \in [Actors -> {"own", "reinit", "renote"}]
      /\ reply \in [Actors -> [status : Statuses, hdr : 0..created]]
      /\ executed \in [Reqs -> Nat]
  BY DEF TypeOK
<1>1. CASE UNCHANGED vars
  BY <1>1 DEF vars
<1>2. ASSUME NEW m \in Lines, ReadLine(m) PROVE ExecuteInv'
  BY <1>0, <1>2 DEF ReadLine, Goto
<1>3. ASSUME NEW a \in Actors, ReadGen(a) PROVE ExecuteInv'
  BY <1>0, <1>3 DEF ReadGen, Goto
<1>4. ASSUME NEW a \in Actors, Prepare(a) PROVE ExecuteInv'
  BY <1>0, <1>4 DEF Prepare, Goto
<1>5. ASSUME NEW a \in Actors, Serve(a) PROVE ExecuteInv'
  <2>1. PICK s \in Statuses, h \in Nat \cup {carried[a]} \cup {created + 1} :
           reply' = [reply EXCEPT ![a] = [status |-> s, hdr |-> h]]
    BY <1>5, ServeMoves
  <2>2. pc[a] = "wire" /\ pc' = [pc EXCEPT ![a] = "reply"] /\ job' = job
    BY <1>5, ServeMoves
  <2>3. \A m \in Reqs : executed'[m] = executed[m]
            \/ (m = a /\ job[a] = "own" /\ executed'[m] = executed[m] + 1
                      /\ reply'[a].status # "notfound")
    BY <1>0, <1>5 DEF Serve, ServeInit, ServeNote, ServeRequest, ServeListen, ServeUnknown,
                      ServeFails, OnWire, Reply, Msg
  <2> QED
    BY <1>0, <2>1, <2>2, <2>3
<1>6. CASE ReceiveInit
  BY <1>0, <1>6 DEF ReceiveInit, Arrived, Finish
<1>7. CASE ReceiveNote
  BY <1>0, <1>7 DEF ReceiveNote, Arrived, Finish
<1>8. ASSUME NEW m \in Actors, ReceiveAnswer(m) PROVE ExecuteInv'
  BY <1>0, <1>8 DEF ReceiveAnswer, Arrived, Finish
<1>9. ASSUME NEW m \in Actors, ReceiveGone(m) PROVE ExecuteInv'
  BY <1>0, <1>9 DEF ReceiveGone, Arrived, Goto, GoesToReinit
<1>10. CASE ReceiveListen
  BY <1>0, <1>10 DEF ReceiveListen, Arrived, Goto, AfterListen
<1>11. CASE StreamEvent
  BY <1>0, <1>11 DEF StreamEvent
<1>12. CASE StreamEnds \/ ListenerCancelled
  BY <1>0, <1>12 DEF StreamEnds, ListenerCancelled, Goto
<1>13. ASSUME NEW a \in Actors, SkipReinit(a) PROVE ExecuteInv'
  BY <1>0, <1>13 DEF SkipReinit, Goto, Resume
<1>14. ASSUME NEW a \in Actors, StartReinit(a) PROVE ExecuteInv'
  BY <1>0, <1>14 DEF StartReinit, Goto
<1>15. ASSUME NEW a \in Actors, ReinitInitialized(a) PROVE ExecuteInv'
  BY <1>0, <1>15 DEF ReinitInitialized, Arrived, Goto
<1>16. ASSUME NEW a \in Actors, ReinitDone(a) PROVE ExecuteInv'
  BY <1>0, <1>16 DEF ReinitDone, Arrived, Goto, Resume
<1>17. ASSUME NEW a \in Actors, ReinitFails(a) PROVE ExecuteInv'
  <2>1. pc[a] = "reply" /\ job[a] = "reinit" /\ executed' = executed
        /\ job' = [job EXCEPT ![a] = "own"] /\ reply' = [reply EXCEPT ![a] = NoReply]
    BY <1>17 DEF ReinitFails, Arrived, Finish
  <2>2. CASE a = Listener
    <3>1. pc' = [pc EXCEPT ![Listener] = "stopped"]
      BY <1>17, <2>2 DEF ReinitFails, Goto
    <3> QED
      BY <1>0, <2>1, <2>2, <3>1
  <2>3. CASE a # Listener
    <3>1. \A m \in Reqs : m # a => pc'[m] = pc[m]
      BY <1>0, <1>17, <2>3 DEF ReinitFails, Finish
    <3> QED
      BY <1>0, <2>1, <2>3, <3>1
  <2> QED
    BY <2>2, <2>3
<1>18. CASE StopReading \/ Cancel \/ CloseRun \/ SessionDies
  BY <1>0, <1>18 DEF StopReading, Cancel, CloseRun, SessionDies
<1>19. CASE Rest
  BY <1>0, <1>19 DEF Rest, vars
<1> QED
  BY <1>1, <1>2, <1>3, <1>4, <1>5, <1>6, <1>7, <1>8, <1>9, <1>10, <1>11, <1>12, <1>13, <1>14,
     <1>15, <1>16, <1>17, <1>18, <1>19 DEF Next, Step, Receive

\* Once Run has returned nothing happens.
LEMMA ClosedStays ==
    ASSUME phase = "closed", [Next]_vars
    PROVE  UNCHANGED vars
BY DEF Next, Step, Serve, Receive, ReadLine, StopReading, Cancel, CloseRun, ReadGen, Prepare,
       ServeInit, ServeNote, ServeRequest, ServeListen, ServeUnknown, ServeFails, OnWire, Arrived,
       ReceiveInit, ReceiveNote, ReceiveAnswer, ReceiveGone, ReceiveListen, StreamEvent, StreamEnds,
       ListenerCancelled, SkipReinit, StartReinit, ReinitInitialized, ReinitDone, ReinitFails,
       SessionDies, Rest, Running

\* Run returns from its drain, or when the handshake failed.
LEMMA HowClosed ==
    ASSUME phase # "closed", phase' = "closed", [Next]_vars
    PROVE  CloseRun \/ ReceiveInit
BY DEF Next, Step, Serve, Receive, ReadLine, StopReading, Cancel, ReadGen, Prepare,
       ServeInit, ServeNote, ServeRequest, ServeListen, ServeUnknown, ServeFails, Reply, Finish,
       ReceiveNote, ReceiveAnswer, ReceiveGone, ReceiveListen, StreamEvent, StreamEnds,
       ListenerCancelled, SkipReinit, StartReinit, ReinitInitialized, ReinitDone, ReinitFails,
       SessionDies, Rest, vars, run

\* Run returns in order only when its lines are through, or were never read.
LEMMA ExitStep ==
    ASSUME TypeOK, SerialInv, ExitInv, [Next]_vars
    PROVE  ExitInv'
<1>1. CASE phase = "closed"
  BY <1>1, ClosedStays DEF ExitInv, vars, run, act
<1>2. CASE phase # "closed" /\ phase' = "closed" /\ CloseRun
  BY <1>2 DEF ExitInv, CloseRun, Drained, Lines, act
<1>3. CASE phase # "closed" /\ phase' = "closed" /\ ReceiveInit
  <2>1. \A m \in Reqs : pc[m] = "new" /\ m # "init" /\ m # Listener /\ m \in Actors
    BY <1>3, ConstantsAssumption DEF ReceiveInit, Arrived, SerialInv, Lines, Actors, Listener
  <2>2. \A m \in Reqs : pc'[m] = "new"
    BY <1>3, <2>1 DEF ReceiveInit, Finish, TypeOK
  <2> QED
    BY <2>2 DEF ExitInv
<1> QED
  BY <1>1, <1>2, <1>3, HowClosed DEF ExitInv

-----------------------------------------------------------------------------
(* The theorems.                                                           *)

\* A fresh run satisfies the invariant.
LEMMA InitInv ==
    ASSUME Init
    PROVE  IInv
<1> USE ConstantsAssumption DEF Init, Lines, Actors, Listener
<1>1. TypeOK
  <2>1. created \in Nat /\ sid \in 0..created /\ cursor \in 0..created /\ gen \in Nat /\ deaths \in Nat
    OBVIOUS
  <2>2. carried \in [Actors -> 0..created] /\ mygen \in [Actors -> Nat]
    BY <2>1
  <2>3. reply \in [Actors -> [status : Statuses, hdr : 0..created]]
    BY <2>1 DEF NoReply, Statuses
  <2>4. pc \in [Actors -> States] /\ job \in [Actors -> {"own", "reinit", "renote"}]
        /\ replayed \in [Actors -> BOOLEAN]
    BY DEF States
  <2>5. executed \in [Reqs -> Nat] /\ answers \in [Reqs \cup {"init"} -> Nat]
    OBVIOUS
  <2> QED
    BY <2>1, <2>2, <2>3, <2>4, <2>5 DEF TypeOK
<1>2. PlaceInv /\ SerialInv
  BY DEF PlaceInv, SerialInv
<1>3. AnswerInv /\ ExecuteInv /\ ExitInv
  BY DEF AnswerInv, ExecuteInv, ExitInv
<1> QED
  BY <1>1, <1>2, <1>3 DEF IInv

\* IInv is inductive: it holds throughout every run of the bridge.
THEOREM Invariance == Spec => []IInv
<1>1. Init => IInv
  BY InitInv
<1>2. IInv /\ [Next]_vars => IInv'
  BY TypeStep, PlaceStep, SerialStep, AnswerStep, ExecuteStep, ExitStep DEF IInv
<1> QED
  BY <1>1, <1>2, PTL DEF Spec

\* Every variable keeps its type.
THEOREM TypeCorrect == Spec => []TypeOK
<1>1. IInv => TypeOK
  BY DEF IInv
<1> QED
  BY <1>1, Invariance, PTL

\* send, handleInitialize and reinit answer every request read from stdin
\* exactly once, unless the server withholds the answer or breaks its stream.
THEOREM AnsweredOnce == Spec => []OneAnswer
<1>1. IInv => OneAnswer
  BY DEF IInv, AnswerInv, OneAnswer
<1> QED
  BY <1>1, Invariance, PTL

\* The replay after a re-init never has the server execute a request twice.
THEOREM NeverExecutedTwice == Spec => []ExecutedOnce
<1>1. IInv => ExecutedOnce
  BY DEF IInv, TypeOK, ExecuteInv, ExecutedOnce
<1> QED
  BY <1>1, Invariance, PTL

\* Run and drainInFlight: a run that ends without drain timeout has answered
\* every request it read.
THEOREM ExitInOrder == Spec => []ExitAnswersAll
<1>1. IInv => ExitAnswersAll
  BY DEF IInv, AnswerInv, ExitInv, ExitAnswersAll
<1> QED
  BY <1>1, Invariance, PTL

\* Run and serialPhase: no pipelined line is under way beside initialize or
\* notifications/initialized.
THEOREM HandshakeSerial == Spec => []SerialUntilReady
<1>1. IInv => SerialUntilReady
  <2> DEFINE busy == {a \in Actors : pc[a] \notin {"new", "done"}}
  <2> SUFFICES ASSUME IInv, pc["init"] # "done" \/ pc["note"] # "done"
               PROVE  Cardinality(busy) <= 1
    BY DEF SerialUntilReady
  <2>1. busy \subseteq {loop}
    BY DEF IInv, SerialInv
  <2>2. IsFiniteSet({loop}) /\ Cardinality({loop}) = 1
    BY FS_Singleton
  <2> QED
    BY <2>1, <2>2, FS_Subset
<1> QED
  BY <1>1, Invariance, PTL

-----------------------------------------------------------------------------
(* Sessions.                                                               *)

\* How an exchange moves on, seen from one actor: the request takes the
\* session id of the moment, then only the server adds to it.
Moved(b) ==
    /\ pc'[b] = "wire" =>
           \/ pc[b] = "wire" /\ carried'[b] = carried[b] /\ job'[b] = job[b]
           \/ Prepare(b)
    /\ pc'[b] = "reply" =>
           \/ /\ pc[b] = "reply" /\ reply'[b] = reply[b]
              /\ job'[b] = job[b] /\ carried'[b] = carried[b]
           \/ Serve(b)
    /\ pc'[b] = "lock" =>
           /\ job'[b] = job[b] /\ carried'[b] = carried[b]
           /\ \/ pc[b] = "lock"
              \/ pc[b] = "reply" /\ job[b] = "own" /\ reply[b].status = "notfound"
    /\ mygen'[b] = mygen[b] \/ (mygen'[b] = gen /\ pc'[b] = "prep")
    /\ pc[b] = "done" /\ b # Listener => pc'[b] = "done"
    /\ job'[b] = "reinit" => job[b] = "reinit" \/ StartReinit(b)

\* No step moves an exchange in another way.
LEMMA Moves ==
    ASSUME TypeOK, NEW b \in Actors, [Next]_vars
    PROVE  Moved(b)
<1> USE ConstantsAssumption DEF Moved, Lines, Actors, Listener, run, hs, conn, act, srv, outp
<1>0. /\ pc \in [Actors -> States] /\ job \in [Actors -> {"own", "reinit", "renote"}]
      /\ reply \in [Actors -> [status : Statuses, hdr : 0..created]]
      /\ mygen \in [Actors -> Nat] /\ carried \in [Actors -> 0..created]
  BY DEF TypeOK
<1>1. CASE UNCHANGED vars
  BY <1>1 DEF vars
<1>2. ASSUME NEW m \in Lines, ReadLine(m) PROVE Moved(b)
  BY <1>0, <1>2 DEF ReadLine, Goto
<1>3. ASSUME NEW a \in Actors, ReadGen(a) PROVE Moved(b)
  BY <1>0, <1>3 DEF ReadGen, Goto
<1>4. ASSUME NEW a \in Actors, Prepare(a) PROVE Moved(b)
  BY <1>0, <1>4 DEF Prepare, Goto
<1>5. ASSUME NEW a \in Actors, Serve(a) PROVE Moved(b)
  <2>1. pc[a] = "wire" /\ pc' = [pc EXCEPT ![a] = "reply"] /\ UNCHANGED <<job, carried, mygen, sid>>
    BY <1>5, ServeMoves DEF conn
  <2>2. \A c \in Actors : c # a => reply'[c] = reply[c]
    BY <1>0, <1>5, ServeMoves
  <2> QED
    BY <1>0, <1>5, <2>1, <2>2
<1>6. CASE ReceiveInit
  BY <1>0, <1>6 DEF ReceiveInit, Arrived, Finish
<1>7. CASE ReceiveNote
  BY <1>0, <1>7 DEF ReceiveNote, Arrived, Finish
<1>8. ASSUME NEW m \in Actors, ReceiveAnswer(m) PROVE Moved(b)
  BY <1>0, <1>8 DEF ReceiveAnswer, Arrived, Finish
<1>9. ASSUME NEW m \in Actors, ReceiveGone(m) PROVE Moved(b)
  BY <1>0, <1>9 DEF ReceiveGone, Arrived, Goto, GoesToReinit
<1>10. CASE ReceiveListen
  BY <1>0, <1>10 DEF ReceiveListen, Arrived, Goto, AfterListen
<1>11. CASE StreamEvent
  BY <1>0, <1>11 DEF StreamEvent
<1>12. CASE StreamEnds \/ ListenerCancelled
  BY <1>0, <1>12 DEF StreamEnds, ListenerCancelled, Goto
<1>13. ASSUME NEW a \in Actors, SkipReinit(a) PROVE Moved(b)
  BY <1>0, <1>13 DEF SkipReinit, Goto, Resume
<1>14. ASSUME NEW a \in Actors, StartReinit(a) PROVE Moved(b)
  BY <1>0, <1>14 DEF StartReinit, Goto
<1>15. ASSUME NEW a \in Actors, ReinitInitialized(a) PROVE Moved(b)
  BY <1>0, <1>15 DEF ReinitInitialized, Arrived, Goto
<1>16. ASSUME NEW a \in Actors, ReinitDone(a) PROVE Moved(b)
  BY <1>0, <1>16 DEF ReinitDone, Arrived, Goto, Resume
<1>17. ASSUME NEW a \in Actors, ReinitFails(a) PROVE Moved(b)
  BY <1>0, <1>17 DEF ReinitFails, Arrived, Goto, Finish
<1>18. CASE StopReading \/ Cancel \/ CloseRun \/ SessionDies
  BY <1>0, <1>18 DEF StopReading, Cancel, CloseRun, SessionDies
<1>19. CASE Rest
  BY <1>0, <1>19 DEF Rest, vars
<1> QED
  BY <1>1, <1>2, <1>3, <1>4, <1>5, <1>6, <1>7, <1>8, <1>9, <1>10, <1>11, <1>12, <1>13, <1>14,
     <1>15, <1>16, <1>17, <1>18, <1>19 DEF Next, Step, Receive

\* Sessions are created by initialize alone, and end at the server's will or
\* by the DELETE of a closing run.
LEMMA LedgerMoves ==
    ASSUME [Next]_vars
    PROVE  \/ \E a \in Actors : ServeInit(a)
           \/ UNCHANGED <<created, lost>> /\ (UNCHANGED <<live, deaths>> \/ SessionDies \/ CloseRun)
BY DEF Next, Step, Serve, Receive, ReadLine, StopReading, Cancel, CloseRun, ReadGen, Prepare,
       ServeNote, ServeRequest, ServeListen, ServeUnknown, ServeFails, Reply,
       ReceiveInit, ReceiveNote, ReceiveAnswer, ReceiveGone, ReceiveListen, StreamEvent, StreamEnds,
       ListenerCancelled, SkipReinit, StartReinit, ReinitInitialized, ReinitDone, ReinitFails,
       SessionDies, Rest, vars, srv

\* What a step does to the sets of sessions.
LEMMA LedgerGrows ==
    ASSUME TypeOK, [Next]_vars
    PROVE  /\ lost \subseteq lost'
           /\ created \in Nat /\ created' \in {created, created + 1}
           /\ live' \subseteq live \cup {created + 1}
<1> USE DEF TypeOK
<1>1. ASSUME NEW a \in Actors, ServeInit(a)
      PROVE  /\ lost \subseteq lost' /\ created' = created + 1 /\ live' = live \cup {created + 1}
  BY <1>1 DEF ServeInit
<1>2. CASE UNCHANGED <<created, lost>> /\ (UNCHANGED <<live, deaths>> \/ SessionDies \/ CloseRun)
  BY <1>2 DEF SessionDies, CloseRun
<1> QED
  BY <1>1, <1>2, LedgerMoves

\* Without "echo", what the server's answers say about sessions.
LEMMA ServeNames ==
    ASSUME "echo" \notin Faults, TypeOK, NEW a \in Actors, Serve(a)
    PROVE  \E s \in Statuses, h \in {0, created + 1} :
               /\ reply' = [reply EXCEPT ![a] = [status |-> s, hdr |-> h]]
               /\ h # 0 => ServeInit(a) /\ Msg(a) = "init"
               /\ Msg(a) = "init" /\ s \notin {"ok", "mute"} => h \in {0} \cup lost'
               /\ job[a] = "own" /\ s = "notfound" => carried[a] \notin live'
<1> USE DEF OnWire, Reply, EchoOf, Statuses
<1>1. CASE ServeInit(a)
  BY <1>1 DEF ServeInit
<1>2. CASE ServeNote(a)
  BY <1>2 DEF ServeNote
<1>3. CASE ServeRequest(a)
  BY <1>3, ConstantsAssumption DEF ServeRequest
<1>4. CASE ServeListen(a)
  BY <1>4, ConstantsAssumption DEF ServeListen, Listener
<1>5. CASE ServeUnknown(a)
  BY <1>5 DEF ServeUnknown, Known
<1>6. CASE ServeFails(a)
  BY <1>6 DEF ServeFails
<1> QED
  BY <1>1, <1>2, <1>3, <1>4, <1>5, <1>6 DEF Serve

\* The server names a session to the actor that initializes, and to no other.
LEMMA HeaderStep ==
    ASSUME "echo" \notin Faults, TypeOK, HeaderInv, [Next]_vars
    PROVE  HeaderInv'
<1> SUFFICES ASSUME NEW a \in Actors, pc'[a] = "reply"
             PROVE  /\ reply'[a].hdr # 0 => Msg(a)' = "init"
                    /\ Msg(a)' = "init" /\ ~Accepted(a)' => reply'[a].hdr \in {0} \cup lost'
  BY DEF HeaderInv
<1>1. CASE Serve(a)
  <2>1. PICK s \in Statuses, h \in {0, created + 1} :
               /\ reply' = [reply EXCEPT ![a] = [status |-> s, hdr |-> h]]
               /\ h # 0 => ServeInit(a) /\ Msg(a) = "init"
               /\ Msg(a) = "init" /\ s \notin {"ok", "mute"} => h \in {0} \cup lost'
    BY <1>1, ServeNames
  <2>2. reply'[a].status = s /\ reply'[a].hdr = h
    BY <2>1 DEF TypeOK
  <2>3. Msg(a)' = Msg(a)
    BY <1>1, ServeMoves DEF Msg
  <2> QED
    BY <2>1, <2>2, <2>3 DEF Accepted
<1>2. CASE pc[a] = "reply" /\ reply'[a] = reply[a] /\ job'[a] = job[a]
  BY <1>2, LedgerGrows DEF HeaderInv, Msg, Accepted
<1> QED
  BY <1>1, <1>2, Moves DEF Moved

\* The session that took an actor to the lock does not come back.
LEMMA GoneStep ==
    ASSUME "echo" \notin Faults, TypeOK, PlaceInv, GoneInv, [Next]_vars
    PROVE  GoneInv'
<1> SUFFICES ASSUME NEW a \in Actors, job'[a] = "own",
                    pc'[a] = "lock" \/ (pc'[a] = "reply" /\ reply'[a].status = "notfound")
             PROVE  carried'[a] \notin live'
  BY DEF GoneInv
<1>1. ASSUME carried[a] \notin live PROVE carried[a] \notin live'
  BY <1>1, LedgerGrows DEF TypeOK
<1>2. CASE pc'[a] = "reply" /\ Serve(a)
  <2>1. PICK s \in Statuses, h \in {0, created + 1} :
               /\ reply' = [reply EXCEPT ![a] = [status |-> s, hdr |-> h]]
               /\ job[a] = "own" /\ s = "notfound" => carried[a] \notin live'
    BY <1>2, ServeNames
  <2>2. reply'[a].status = s
    BY <2>1 DEF TypeOK
  <2>3. job' = job /\ carried' = carried
    BY <1>2, ServeMoves
  <2> QED
    BY <1>2, <2>1, <2>2, <2>3
<1>3. CASE pc'[a] = "reply" /\ pc[a] = "reply" /\ reply'[a] = reply[a]
             /\ job'[a] = job[a] /\ carried'[a] = carried[a]
  BY <1>1, <1>3 DEF GoneInv
<1>4. CASE pc'[a] = "lock"
  <2>1. job'[a] = job[a] /\ carried'[a] = carried[a]
        /\ (pc[a] = "lock" \/ (pc[a] = "reply" /\ job[a] = "own" /\ reply[a].status = "notfound"))
    BY <1>4, Moves DEF Moved
  <2> QED
    BY <1>1, <2>1 DEF GoneInv
<1> QED
  BY <1>2, <1>3, <1>4, Moves DEF Moved

\* The client receives the answer to an initialize of a, its own or a re-init's,
\* or to the notification after it.
Initializes(a) ==
    \/ a = "init" /\ ReceiveInit
    \/ ReinitInitialized(a) \/ ReinitDone(a) \/ ReinitFails(a)

\* captureSession only ever finds a session in the answer to an initialize.
LEMMA SidMoves ==
    ASSUME TypeOK, PlaceInv, HeaderInv, [Next]_vars
    PROVE  \/ sid' = sid
           \/ \E a \in Actors : StartReinit(a)
           \/ \E a \in Actors : /\ pc[a] = "reply" /\ Msg(a) = "init" /\ Initializes(a)
                               /\ reply[a].hdr # 0 /\ sid' = reply[a].hdr
<1> DEFINE Named(a) == /\ pc[a] = "reply" /\ Msg(a) = "init" /\ Initializes(a)
                       /\ reply[a].hdr # 0 /\ sid' = reply[a].hdr
<1> USE DEF Capture, Arrived
<1>1. CASE ReceiveInit
  <2>1. sid' = sid \/ Named("init")
    BY <1>1 DEF ReceiveInit, Msg, Initializes
  <2> QED
    BY <2>1 DEF Actors, Lines
<1>2. CASE ReceiveNote
  BY <1>2 DEF ReceiveNote, HeaderInv, Msg, Actors, Lines
<1>3. ASSUME NEW m \in Actors, ReceiveAnswer(m) \/ ReceiveGone(m)
      PROVE  sid' = sid
  BY <1>3, ConstantsAssumption DEF ReceiveAnswer, ReceiveGone, HeaderInv, Msg
<1>4. CASE ReceiveListen
  BY <1>4 DEF ReceiveListen, HeaderInv, Msg, Listener, Actors
<1>5. ASSUME NEW a \in Actors, ReinitInitialized(a) \/ ReinitDone(a) \/ ReinitFails(a)
      PROVE  sid' = sid \/ Named(a)
  BY <1>5 DEF ReinitInitialized, ReinitDone, ReinitFails, HeaderInv, Initializes
<1> QED
  BY <1>1, <1>2, <1>3, <1>4, <1>5
     DEF Next, Step, Serve, Receive, ReadLine, StopReading, Cancel, CloseRun, ReadGen, Prepare,
         ServeInit, ServeNote, ServeRequest, ServeListen, ServeUnknown, ServeFails, Reply,
         StreamEvent, StreamEnds, ListenerCancelled, SkipReinit, SessionDies, Rest, vars, conn

\* One initialize at a time, while the client has no session.
LEMMA InitAlone ==
    ASSUME TypeOK, PlaceInv, SerialInv, ClearInv,
           NEW a \in Actors, NEW b \in Actors,
           pc[a] \in {"wire", "reply"}, Msg(a) = "init",
           pc[b] \in {"wire", "reply"}, Msg(b) = "init"
    PROVE  a = b /\ sid = 0
<1> USE ConstantsAssumption DEF TypeOK
<1>1. a = "init" \/ (job[a] = "reinit" /\ mu = a)
  BY DEF Msg, PlaceInv
<1>2. b = "init" \/ (job[b] = "reinit" /\ mu = b)
  BY DEF Msg, PlaceInv
<1>3. a = "init" => pc[b] = "new" \/ b = "init"
  BY DEF SerialInv
<1>4. b = "init" => pc[a] = "new" \/ a = "init"
  BY DEF SerialInv
<1> QED
  BY <1>1, <1>2, <1>3, <1>4 DEF ClearInv

\* Until an initialize is answered the client has no session.
LEMMA ClearStep ==
    ASSUME TypeOK, PlaceInv, SerialInv, HeaderInv, ClearInv, [Next]_vars
    PROVE  ClearInv'
<1> USE ConstantsAssumption
<1>1. ASSUME pc'["init"] # "done" PROVE sid' = 0
  <2>1. pc["init"] # "done" /\ sid = 0
    BY <1>1, Moves DEF Moved, ClearInv, Actors, Lines, Listener
  <2>2. ASSUME NEW a \in Actors, StartReinit(a) PROVE sid' = 0
    BY <2>2 DEF StartReinit
  <2>3. ASSUME NEW a \in Actors, pc[a] = "reply", Initializes(a) PROVE FALSE
    <3>1. a = "init"
      BY <2>1, <2>3 DEF SerialInv
    <3>2. job["init"] = "own"
      BY DEF PlaceInv, TypeOK, Actors, Lines, Listener
    <3>3. ReceiveInit
      BY <2>3, <3>1, <3>2 DEF Initializes, ReinitInitialized, ReinitDone, ReinitFails, Arrived
    <3> QED
      BY <1>1, <3>3 DEF ReceiveInit, Finish, TypeOK, Actors, Lines, Listener
  <2> QED
    BY <2>1, <2>2, <2>3, SidMoves
<1>2. ASSUME NEW a \in Actors, job'[a] = "reinit" PROVE sid' = 0
  <2>1. ASSUME NEW c \in Actors, StartReinit(c) PROVE sid' = 0
    BY <2>1 DEF StartReinit
  <2>2. CASE job[a] = "reinit"
    <3>1. sid = 0 /\ mu = a /\ pc[a] # "new" /\ pc["init"] = "done"
      BY <2>2 DEF ClearInv, PlaceInv, SerialInv, Listener
    <3>2. ASSUME NEW c \in Actors, pc[c] = "reply", Initializes(c) PROVE FALSE
      <4>1. c # "init"
        BY <3>1, <3>2
      <4>2. c = a
        BY <3>1, <3>2, <4>1 DEF Initializes, ReinitInitialized, ReinitDone, ReinitFails, Arrived, PlaceInv
      <4> QED
        BY <1>2, <3>2, <4>1, <4>2
           DEF Initializes, ReinitInitialized, ReinitDone, ReinitFails, TypeOK
    <3> QED
      BY <2>1, <3>1, <3>2, SidMoves
  <2> QED
    BY <1>2, <2>1, <2>2, Moves DEF Moved
<1> QED
  BY <1>1, <1>2 DEF ClearInv

\* The generation never falls behind the one an actor has read.
LEMMA GenMoves ==
    ASSUME TypeOK, [Next]_vars
    PROVE  gen' \in {gen, gen + 1}
BY DEF Next, Step, Serve, Receive, ReadLine, StopReading, Cancel, CloseRun, ReadGen, Prepare,
       ServeInit, ServeNote, ServeRequest, ServeListen, ServeUnknown, ServeFails, Reply,
       ReceiveInit, ReceiveNote, ReceiveAnswer, ReceiveGone, ReceiveListen, StreamEvent, StreamEnds,
       ListenerCancelled, SkipReinit, StartReinit, ReinitInitialized, ReinitDone, ReinitFails,
       SessionDies, Rest, vars, hs, NextGen

\* handshakeMu is released by the end of a re-init only.
LEMMA MuMoves ==
    ASSUME TypeOK, [Next]_vars, mu' = Nobody
    PROVE  \/ mu = Nobody /\ gen' = gen
           \/ \E a \in Actors : ReinitDone(a) /\ gen' = gen + 1
           \/ \E a \in Actors : ReinitFails(a) /\ gen' = gen
<1>1. \A a \in Actors : ~StartReinit(a)
  BY ConstantsAssumption DEF StartReinit
<1> QED
  BY <1>1
     DEF Next, Step, Serve, Receive, ReadLine, StopReading, Cancel, CloseRun, ReadGen, Prepare,
         ServeInit, ServeNote, ServeRequest, ServeListen, ServeUnknown, ServeFails, Reply,
         ReceiveInit, ReceiveNote, ReceiveAnswer, ReceiveGone, ReceiveListen, StreamEvent, StreamEnds,
         ListenerCancelled, SkipReinit, ReinitInitialized, ReinitDone, ReinitFails,
         SessionDies, Rest, vars, hs, NextGen

\* A request of the current generation carries the client's session.
LEMMA CurrentStep ==
    ASSUME TypeOK, PlaceInv, SerialInv, HeaderInv, ClearInv, CurrentInv, [Next]_vars
    PROVE  CurrentInv'
<1> USE ConstantsAssumption
<1>1. ASSUME NEW a \in Actors PROVE mygen'[a] <= gen'
  <2>1. mygen[a] <= gen /\ gen \in Nat /\ mygen[a] \in Nat
    BY DEF CurrentInv, TypeOK
  <2>2. mygen'[a] = mygen[a] \/ mygen'[a] = gen
    BY Moves DEF Moved
  <2> QED
    BY <2>1, <2>2, GenMoves
<1>2. ASSUME NEW a \in Reqs \cup {Listener},
             mu' = Nobody, pc'[a] \in {"wire", "reply", "lock"}, Current(a)'
      PROVE  sid' \in {0, carried'[a]} \cup lost'
  <2>1. a \in Actors /\ a # "init" /\ a # "note"
    BY DEF Actors, Lines, Listener
  <2>2. mygen'[a] = mygen[a] /\ mygen[a] <= gen /\ gen \in Nat /\ gen' = mygen[a]
    BY <1>2, <2>1, Moves DEF Moved, Current, CurrentInv, TypeOK
  <2>3. \A c \in Actors : ~(ReinitDone(c) /\ gen' = gen + 1)
    BY <2>2
  <2>4. CASE mu = Nobody /\ gen' = gen
    <3>1. \A c \in Actors : ~StartReinit(c) /\ job[c] = "own"
      BY <1>2, <2>4 DEF StartReinit, PlaceInv
    <3>2. ASSUME NEW c \in Actors, pc[c] = "reply", Initializes(c) PROVE FALSE
      <4>1. ReceiveInit
        BY <3>1, <3>2 DEF Initializes, ReinitInitialized, ReinitDone, ReinitFails, Arrived
      <4>2. pc[a] = "new"
        BY <2>1, <4>1 DEF ReceiveInit, Arrived, SerialInv
      <4>3. pc'[a] \in {"new", "gen"}
        BY <2>1, <4>1, <4>2 DEF ReceiveInit, Finish, TypeOK
      <4> QED
        BY <1>2, <4>3
    <3>3. sid' = sid
      BY <3>1, <3>2, SidMoves
    <3>4. (pc[a] \in {"wire", "reply", "lock"} /\ carried'[a] = carried[a]) \/ Prepare(a)
      BY <1>2, <2>1, Moves, ServeMoves DEF Moved
    <3>5. CASE Prepare(a)
      BY <2>1, <3>3, <3>5 DEF Prepare, TypeOK
    <3>6. CASE pc[a] \in {"wire", "reply", "lock"} /\ carried'[a] = carried[a]
      <4>1. sid \in {0, carried[a]} \cup lost
        BY <2>2, <2>4, <3>6 DEF CurrentInv, Current
      <4> QED
        BY <3>3, <3>6, <4>1, LedgerGrows
    <3> QED
      BY <3>4, <3>5, <3>6
  <2>5. ASSUME NEW c \in Actors, ReinitFails(c) PROVE sid' \in {0} \cup lost'
    <3>1. pc[c] = "reply" /\ job[c] = "reinit" /\ ~Accepted(c) /\ Capture(c)
      BY <2>5 DEF ReinitFails, Arrived
    <3>2. sid = 0 /\ reply[c].hdr \in {0} \cup lost
      BY <3>1 DEF ClearInv, HeaderInv, Msg
    <3> QED
      BY <3>1, <3>2, LedgerGrows DEF Capture
  <2> QED
    BY <1>2, <2>3, <2>4, <2>5, MuMoves
<1> QED
  BY <1>1, <1>2 DEF CurrentInv

\* An answer to an initialize waits for the client to receive it.
LEMMA AnswerWaits ==
    ASSUME TypeOK, PlaceInv, SerialInv, [Next]_vars,
           NEW b \in Actors, pc[b] = "reply", Msg(b) = "init", ~Initializes(b)
    PROVE  pc'[b] = "reply" /\ reply'[b] = reply[b] /\ job'[b] = job[b]
<1> DEFINE Waits == pc'[b] = "reply" /\ reply'[b] = reply[b] /\ job'[b] = job[b]
<1> USE ConstantsAssumption DEF Lines, Actors, Listener, run, hs, conn, act, srv, outp
<1>0. /\ pc \in [Actors -> States] /\ job \in [Actors -> {"own", "reinit", "renote"}]
      /\ reply \in [Actors -> [status : Statuses, hdr : 0..created]]
      /\ b = "init" \/ job[b] = "reinit"
      /\ pc[b] = "reply" /\ (b = "init" => ~ReceiveInit)
      /\ loop \in Lines \cup {Nobody} /\ (~ready => pc[Listener] = "new")
      /\ ~(ReinitInitialized(b) \/ ReinitDone(b) \/ ReinitFails(b))
  BY DEF TypeOK, PlaceInv, SerialInv, Msg, Initializes
<1>1. CASE UNCHANGED vars
  BY <1>1 DEF vars
<1>2. ASSUME NEW m \in Lines, ReadLine(m) PROVE Waits
  BY <1>0, <1>2 DEF ReadLine, Goto
<1>3. ASSUME NEW a \in Actors, ReadGen(a) PROVE Waits
  BY <1>0, <1>3 DEF ReadGen, Goto
<1>4. ASSUME NEW a \in Actors, Prepare(a) PROVE Waits
  BY <1>0, <1>4 DEF Prepare, Goto
<1>5. ASSUME NEW a \in Actors, Serve(a) PROVE Waits
  <2>1. pc[a] = "wire" /\ pc' = [pc EXCEPT ![a] = "reply"] /\ job' = job
    BY <1>5, ServeMoves
  <2>2. \A c \in Actors : c # a => reply'[c] = reply[c]
    BY <1>0, <1>5, ServeMoves
  <2> QED
    BY <1>0, <2>1, <2>2
<1>6. CASE ReceiveInit
  BY <1>0, <1>6 DEF ReceiveInit, Arrived, Finish
<1>7. CASE ReceiveNote
  BY <1>0, <1>7 DEF ReceiveNote, Arrived, Finish
<1>8. ASSUME NEW m \in Actors, ReceiveAnswer(m) PROVE Waits
  BY <1>0, <1>8 DEF ReceiveAnswer, Arrived, Finish
<1>9. ASSUME NEW m \in Actors, ReceiveGone(m) PROVE Waits
  BY <1>0, <1>9 DEF ReceiveGone, Arrived, Goto
<1>10. CASE ReceiveListen
  BY <1>0, <1>10 DEF ReceiveListen, Arrived, Goto, AfterListen
<1>11. CASE StreamEvent
  BY <1>0, <1>11 DEF StreamEvent
<1>12. CASE StreamEnds \/ ListenerCancelled
  BY <1>0, <1>12 DEF StreamEnds, ListenerCancelled, Goto
<1>13. ASSUME NEW a \in Actors, SkipReinit(a) PROVE Waits
  BY <1>0, <1>13 DEF SkipReinit, Goto, Resume
<1>14. ASSUME NEW a \in Actors, StartReinit(a) PROVE Waits
  BY <1>0, <1>14 DEF StartReinit, Goto
<1>15. ASSUME NEW a \in Actors, ReinitInitialized(a) PROVE Waits
  BY <1>0, <1>15 DEF ReinitInitialized, Arrived, Goto
<1>16. ASSUME NEW a \in Actors, ReinitDone(a) PROVE Waits
  BY <1>0, <1>16 DEF ReinitDone, Arrived, Goto, Resume
<1>17. ASSUME NEW a \in Actors, ReinitFails(a) PROVE Waits
  <2>1. a # b /\ job' = [job EXCEPT ![a] = "own"] /\ reply' = [reply EXCEPT ![a] = NoReply]
    BY <1>0, <1>17 DEF ReinitFails, Finish
  <2>2. pc'[b] = "reply"
    <3>1. CASE a = Listener
      BY <1>0, <1>17, <2>1, <3>1 DEF ReinitFails, Goto
    <3>2. CASE a # Listener
      BY <1>0, <1>17, <2>1, <3>2 DEF ReinitFails, Finish
    <3> QED
      BY <3>1, <3>2
  <2> QED
    BY <1>0, <2>1, <2>2
<1>18. CASE StopReading \/ Cancel \/ CloseRun \/ SessionDies
  BY <1>0, <1>18 DEF StopReading, Cancel, CloseRun, SessionDies
<1>19. CASE Rest
  BY <1>0, <1>19 DEF Rest, vars
<1> QED
  BY <1>1, <1>2, <1>3, <1>4, <1>5, <1>6, <1>7, <1>8, <1>9, <1>10, <1>11, <1>12, <1>13, <1>14,
     <1>15, <1>16, <1>17, <1>18, <1>19 DEF Next, Step, Receive

\* clearSession gives up no session that the server has and a handshake has
\* established.
LEMMA LiveKept ==
    ASSUME TypeOK, PlaceInv, GoneInv, CurrentInv, NEW a \in Actors, StartReinit(a)
    PROVE  sid \notin live \ lost
<1> USE ConstantsAssumption
<1>1. mu = Nobody /\ pc[a] = "lock" /\ Current(a)
  BY DEF StartReinit
<1>2. job[a] = "own" /\ a \in Reqs \cup {Listener}
  BY <1>1 DEF PlaceInv, Actors, Lines
<1>3. sid \in {0, carried[a]} \cup lost /\ carried[a] \notin live
  BY <1>1, <1>2 DEF CurrentInv, GoneInv
<1> QED
  BY <1>3 DEF TypeOK

\* Every live session that is not lost is known to the client.
LEMMA KnownStep ==
    ASSUME "echo" \notin Faults, TypeOK, PlaceInv, SerialInv, HeaderInv, ClearInv, GoneInv,
           CurrentInv, KnownInv, [Next]_vars
    PROVE  KnownInv'
<1> DEFINE Brings(a, s) == pc[a] = "reply" /\ Msg(a) = "init" /\ reply[a].hdr = s
<1> SUFFICES ASSUME NEW s \in live' \ lost'
             PROVE  s = sid' \/ \E a \in Actors : Brings(a, s)'
  BY DEF KnownInv
<1>1. ASSUME NEW a \in Actors, Serve(a), s = created + 1, s \notin live
      PROVE  Brings(a, s)'
  <2>1. ServeInit(a) /\ Msg(a) = "init"
    BY <1>1 DEF Serve, ServeInit, ServeNote, ServeRequest, ServeListen, ServeUnknown, ServeFails,
                OnWire, Reply
  <2>2. reply' = [reply EXCEPT ![a] = [status |-> reply'[a].status, hdr |-> created + 1]]
    BY <1>1, <2>1 DEF ServeInit, Reply, TypeOK
  <2>3. pc'[a] = "reply" /\ Msg(a)' = "init"
    BY <1>1, <2>1, ServeMoves DEF Msg, TypeOK
  <2> QED
    BY <1>1, <2>2, <2>3 DEF TypeOK
<1>2. CASE s \in live
  <2>1. s \notin lost /\ s # 0
    BY <1>2, LedgerGrows DEF TypeOK
  <2>2. CASE s = sid
    <3>1. \A a \in Actors : ~StartReinit(a)
      BY <1>2, <2>1, <2>2, LiveKept
    <3>2. ASSUME NEW a \in Actors, pc[a] = "reply", Msg(a) = "init" PROVE FALSE
      BY <2>1, <2>2, <3>2, InitAlone
    <3> QED
      BY <2>2, <3>1, <3>2, SidMoves
  <2>3. ASSUME NEW a \in Actors, Brings(a, s) PROVE s = sid' \/ Brings(a, s)'
    <3>1. CASE Initializes(a)
      BY <2>1, <2>3, <3>1
         DEF Initializes, ReceiveInit, ReinitInitialized, ReinitDone, ReinitFails, Capture
    <3>2. CASE ~Initializes(a)
      BY <2>3, <3>2, AnswerWaits DEF Msg
    <3> QED
      BY <3>1, <3>2
  <2> QED
    BY <1>2, <2>1, <2>2, <2>3 DEF KnownInv
<1>3. CASE s \notin live
  <2>1. s = created + 1 /\ ~UNCHANGED live /\ \E a \in Actors : ServeInit(a)
    BY <1>3, LedgerGrows, LedgerMoves DEF SessionDies, CloseRun
  <2>2. PICK a \in Actors : ServeInit(a)
    BY <2>1
  <2>3. Serve(a)
    BY <2>2 DEF Serve
  <2> QED
    BY <1>1, <1>3, <2>1, <2>3
<1> QED
  BY <1>2, <1>3

\* The server has finitely many sessions.
LEMMA SessionsFinite ==
    ASSUME TypeOK
    PROVE  /\ IsFiniteSet(live) /\ Cardinality(live) \in Nat
           /\ IsFiniteSet(lost) /\ Cardinality(lost) \in Nat
<1>1. IsFiniteSet(1..created)
  BY FS_Interval DEF TypeOK
<1>2. IsFiniteSet(live) /\ IsFiniteSet(lost)
  BY <1>1, FS_Subset DEF TypeOK
<1> QED
  BY <1>2, FS_CardinalityType

\* Sessions end only when the server ends them.
LEMMA CountStep ==
    ASSUME TypeOK, CountInv, [Next]_vars
    PROVE  CountInv'
<1> SUFFICES ASSUME Running' PROVE created' = Cardinality(live') + deaths'
  BY DEF CountInv
<1>1. Running
  BY ClosedStays DEF Running, vars, run
<1>2. IsFiniteSet(live) /\ created \in Nat /\ deaths \in Nat /\ Cardinality(live) \in Nat
  BY SessionsFinite DEF TypeOK
<1>3. created = Cardinality(live) + deaths
  BY <1>1 DEF CountInv
<1>4. ASSUME NEW a \in Actors, ServeInit(a) PROVE created' = Cardinality(live') + deaths'
  <2>1. created' = created + 1 /\ live' = live \cup {created + 1} /\ deaths' = deaths
    BY <1>4 DEF ServeInit, Reply
  <2>2. created + 1 \notin live
    BY DEF TypeOK
  <2>3. Cardinality(live \cup {created + 1}) = Cardinality(live) + 1
    BY <1>2, <2>2, FS_AddElement
  <2> QED
    BY <1>2, <1>3, <2>1, <2>3
<1>5. CASE UNCHANGED created /\ SessionDies
  <2>1. PICK s \in live : live' = live \ {s}
    BY <1>5 DEF SessionDies
  <2>2. Cardinality(live \ {s}) = Cardinality(live) - 1
    BY <1>2, FS_RemoveElement
  <2>3. deaths' = deaths + 1
    BY <1>5 DEF SessionDies
  <2> QED
    BY <1>2, <1>3, <1>5, <2>1, <2>2, <2>3
<1>6. ~CloseRun
  BY DEF CloseRun, Running
<1>7. CASE UNCHANGED <<created, live, deaths>>
  BY <1>3, <1>7
<1> QED
  BY <1>4, <1>5, <1>6, <1>7, LedgerMoves

\* At most one live session is not lost, so every session created but one is
\* accounted for by a death or a lost initialize.
LEMMA Ledger ==
    ASSUME TypeOK, PlaceInv, SerialInv, ClearInv, KnownInv, CountInv, Running
    PROVE  SessionsJustified
<1>1. IsFiniteSet(live) /\ IsFiniteSet(lost) /\ created \in Nat /\ deaths \in Nat
  BY SessionsFinite DEF TypeOK
<1>2. \A s, t \in live \ lost : s = t
  <2> SUFFICES ASSUME NEW s \in live \ lost, NEW t \in live \ lost PROVE s = t
    OBVIOUS
  <2>1. s # 0 /\ t # 0
    BY DEF TypeOK
  <2>2. ASSUME NEW a \in Actors, pc[a] = "reply", Msg(a) = "init" PROVE sid = 0
    BY <2>2, InitAlone
  <2>3. ASSUME NEW a \in Actors, pc[a] = "reply", Msg(a) = "init",
               NEW b \in Actors, pc[b] = "reply", Msg(b) = "init"
        PROVE  a = b
    BY <2>3, InitAlone
  <2> QED
    BY <2>1, <2>2, <2>3 DEF KnownInv
<1>3. PICK x : live \subseteq lost \cup {x}
  BY <1>2
<1>4. IsFiniteSet(lost \cup {x}) /\ Cardinality(lost \cup {x}) <= Cardinality(lost) + 1
      /\ Cardinality(lost) \in Nat /\ Cardinality(live) \in Nat
  <2>1. IsFiniteSet(lost \cup {x})
        /\ Cardinality(lost \cup {x}) = IF x \in lost THEN Cardinality(lost) ELSE Cardinality(lost) + 1
    BY <1>1, FS_AddElement
  <2> QED
    BY <2>1, SessionsFinite
<1>5. Cardinality(live) <= Cardinality(lost \cup {x})
  BY <1>3, <1>4, FS_Subset
<1>6. Cardinality(lost \cup {x}) \in Nat
  BY <1>4, FS_CardinalityType
<1> QED
  BY <1>1, <1>4, <1>5, <1>6 DEF CountInv, SessionsJustified

\* With a server that names its sessions in the answers to initialize only,
\* SInv is inductive relative to IInv.
LEMMA SessionInvariance ==
    ASSUME "echo" \notin Faults
    PROVE  Spec => [](IInv /\ SInv)
<1>1. Init => SInv
  <2> SUFFICES ASSUME Init PROVE SInv
    OBVIOUS
  <2>1. HeaderInv /\ ClearInv /\ GoneInv
    BY DEF Init, HeaderInv, ClearInv, GoneInv
  <2>2. CurrentInv /\ KnownInv
    BY DEF Init, CurrentInv, KnownInv, Actors, Lines
  <2>3. CountInv
    BY FS_EmptySet DEF Init, CountInv
  <2> QED
    BY <2>1, <2>2, <2>3 DEF SInv
<1>2. IInv /\ SInv /\ [Next]_vars => SInv'
  BY HeaderStep, ClearStep, GoneStep, CurrentStep, KnownStep, CountStep DEF IInv, SInv
<1> QED
  BY <1>1, <1>2, Invariance, PTL DEF Spec

\* reinit: however many exchanges fail together, a lost session is replaced
\* once; no more sessions are created than the server ended or initialize lost.
THEOREM ReinitJustified ==
    ASSUME "echo" \notin Faults
    PROVE  Spec => []SessionsJustified
<1>1. Init => SessionsJustified
  <2> SUFFICES ASSUME Init PROVE SessionsJustified
    OBVIOUS
  <2> QED
    BY FS_EmptySet DEF Init, SessionsJustified
<1>2. IInv /\ SInv /\ Running => SessionsJustified
  BY Ledger DEF IInv, SInv
<1>3. IInv /\ SessionsJustified /\ [Next]_vars => SessionsJustified' \/ Running'
  <2> SUFFICES ASSUME IInv, SessionsJustified, [Next]_vars, phase' = "closed"
               PROVE  UNCHANGED <<created, deaths, lost>>
    BY DEF SessionsJustified, Running
  <2>1. CASE phase = "closed"
    BY <2>1, ClosedStays DEF vars, srv
  <2>2. CASE CloseRun \/ ReceiveInit
    BY <2>2 DEF CloseRun, ReceiveInit, srv
  <2> QED
    BY <2>1, <2>2, HowClosed
<1> QED
  BY <1>1, <1>2, <1>3, SessionInvariance, PTL DEF Spec

\* reinit: only a request of the current generation re-initializes, and its
\* session is gone; the others replay against the fresh one.
THEOREM LiveSessionNeverDropped ==
    ASSUME "echo" \notin Faults
    PROVE  Spec => LiveSessionKept
<1>1. IInv /\ SInv => \A a \in Actors : StartReinit(a) => sid \notin live \ lost
  BY LiveKept DEF IInv, SInv
<1> QED
  BY <1>1, SessionInvariance, PTL DEF LiveSessionKept

-----------------------------------------------------------------------------
(* BridgeSession implements SessionChain, with a server that names each    *)
(* session once. HandoverInv adds to SInv what an answer under way, a      *)
(* re-init past its initialize and the notification are about.             *)

\* The session an answer names is the newest, and an initialize that was
\* accepted names one that is not lost.
OfferInv ==
    \A a \in Actors : pc[a] = "reply" =>
        /\ reply[a].hdr # 0 => reply[a].hdr = created
        /\ Msg(a) = "init" /\ Accepted(a) => reply[a].hdr \in (1..created) \ lost

\* The first initialize comes before every other.
FirstInv == pc["init"] \in {"new", "prep", "wire"} => created = 0

\* A re-init that sends its notification has a new session, and whoever sends
\* one sends it to the session in use.
NoteInv ==
    /\ \A a \in Actors : job[a] = "renote" => sid \in (1..created) \ lost
    /\ \A a \in Actors : pc[a] = "wire" /\ Msg(a) = "note" => carried[a] = sid

HandoverInv == OfferInv /\ FirstInv /\ NoteInv

\* A lost session is one the client never worked with.
LEMMA LostMoves ==
    ASSUME TypeOK, [Next]_vars
    PROVE  (1..created) \ lost \subseteq (1..created') \ lost'
<1>1. ASSUME NEW a \in Actors, ServeInit(a)
      PROVE  created' = created + 1 /\ lost' \in {lost, lost \cup {created + 1}}
  BY <1>1 DEF ServeInit
<1>2. created \in Nat
  BY DEF TypeOK
<1> QED
  BY <1>1, <1>2, LedgerMoves

\* What the server's half of an exchange says of the session it names.
LEMMA ServeOffers ==
    ASSUME "echo" \notin Faults, TypeOK, NEW a \in Actors, Serve(a)
    PROVE  /\ reply'[a].hdr # 0 => reply'[a].hdr = created' /\ ServeInit(a)
           /\ Msg(a) = "init" /\ reply'[a].status \in {"ok", "mute"}
                  => reply'[a].hdr \in (1..created') \ lost'
<1> USE DEF OnWire, Reply, Statuses
<1>1. CASE ServeInit(a)
  <2>1. /\ created \in Nat /\ created' = created + 1 /\ lost \subseteq 1..created
        /\ reply \in [Actors -> [status : Statuses, hdr : 0..created]]
    BY <1>1 DEF ServeInit, TypeOK
  <2>2. \/ /\ reply' = [reply EXCEPT ![a] = [status |-> "error", hdr |-> 0]]
        \/ /\ reply' = [reply EXCEPT ![a] = [status |-> "cut", hdr |-> created + 1]]
        \/ /\ lost' = lost
           /\ \E s \in {"ok", "mute"} : reply' = [reply EXCEPT ![a] = [status |-> s, hdr |-> created + 1]]
    BY <1>1 DEF ServeInit
  <2> QED
    BY <1>1, <2>1, <2>2
<1>2. CASE ~ServeInit(a)
  <2>1. PICK s \in Statuses, h \in {0, created + 1} :
               /\ reply' = [reply EXCEPT ![a] = [status |-> s, hdr |-> h]]
               /\ h # 0 => ServeInit(a)
    BY ServeNames
  <2>2. reply'[a] = [status |-> s, hdr |-> 0]
    BY <1>2, <2>1 DEF TypeOK
  <2>3. ASSUME Msg(a) = "init" PROVE s = "error"
    <3>1. ServeFails(a)
      BY <1>2, <2>3, ConstantsAssumption
         DEF Serve, ServeNote, ServeRequest, ServeListen, ServeUnknown, Actors, Lines, Listener
    <3> QED
      BY <2>2, <3>1 DEF ServeFails, TypeOK
  <2> QED
    BY <2>2, <2>3
<1> QED
  BY <1>1, <1>2

\* Nobody else initializes while one does.
LEMMA OfferStep ==
    ASSUME "echo" \notin Faults, TypeOK, PlaceInv, SerialInv, HeaderInv, ClearInv,
           OfferInv, [Next]_vars
    PROVE  OfferInv'
<1> SUFFICES ASSUME NEW a \in Actors, pc'[a] = "reply"
             PROVE  /\ reply'[a].hdr # 0 => reply'[a].hdr = created'
                    /\ Msg(a)' = "init" /\ Accepted(a)' => reply'[a].hdr \in (1..created') \ lost'
  BY DEF OfferInv
<1>1. CASE Serve(a)
  <2>1. Msg(a)' = Msg(a)
    BY <1>1, ServeMoves DEF Msg
  <2> QED
    BY <1>1, <2>1, ServeOffers DEF Accepted
<1>2. CASE pc[a] = "reply" /\ reply'[a] = reply[a] /\ job'[a] = job[a]
  <2>1. ASSUME Msg(a) = "init" PROVE created' = created
    <3>1. ASSUME NEW b \in Actors, ServeInit(b) PROVE FALSE
      <4>1. pc[b] = "wire" /\ Msg(b) = "init"
        BY <3>1 DEF ServeInit, OnWire
      <4>2. b = a
        BY <1>2, <2>1, <4>1, InitAlone
      <4> QED
        BY <1>2, <4>1, <4>2
    <3> QED
      BY <3>1, LedgerMoves
  <2>2. Msg(a)' = Msg(a) /\ Accepted(a)' = Accepted(a)
    BY <1>2 DEF Msg, Accepted
  <2>3. reply[a].hdr # 0 => Msg(a) = "init"
    BY <1>2 DEF HeaderInv
  <2> QED
    BY <1>2, <2>1, <2>2, <2>3, LostMoves DEF OfferInv
<1> QED
  BY <1>1, <1>2, Moves DEF Moved

\* Nothing is sent before the first initialize is answered.
LEMMA FirstStep ==
    ASSUME TypeOK, PlaceInv, SerialInv, FirstInv, [Next]_vars
    PROVE  FirstInv'
<1> SUFFICES ASSUME pc'["init"] \in {"new", "prep", "wire"} PROVE created' = 0
  BY DEF FirstInv
<1> USE ConstantsAssumption DEF Actors, Lines, Listener
<1>1. pc["init"] \in {"new", "prep", "wire"}
  <2>1. "init" \in Actors /\ pc["init"] \in {"new", "prep", "wire", "reply", "done"}
    BY DEF PlaceInv
  <2>2. pc["init"] # "done"
    BY <2>1, Moves DEF Moved
  <2>3. ASSUME pc["init"] = "reply" PROVE FALSE
    <3>1. Msg("init") = "init"
      BY DEF Msg, PlaceInv
    <3>2. CASE Initializes("init")
      <4>1. ReceiveInit
        BY <2>1, <3>2 DEF Initializes, ReinitInitialized, ReinitDone, ReinitFails, Arrived, PlaceInv
      <4> QED
        BY <4>1 DEF ReceiveInit, Finish, TypeOK
    <3>3. CASE ~Initializes("init")
      BY <2>1, <2>3, <3>1, <3>3, AnswerWaits
    <3> QED
      BY <3>2, <3>3
  <2> QED
    BY <2>1, <2>2, <2>3
<1>2. created = 0
  BY <1>1 DEF FirstInv
<1>3. ASSUME NEW a \in Actors, ServeInit(a) PROVE FALSE
  <2>1. pc[a] = "wire" /\ Msg(a) = "init" /\ Serve(a)
    BY <1>3 DEF ServeInit, OnWire, Serve
  <2>2. a = "init"
    BY <1>1, <2>1 DEF SerialInv
  <2>3. pc'["init"] = "reply"
    BY <2>1, <2>2, ServeMoves DEF TypeOK
  <2> QED
    BY <2>3
<1> QED
  BY <1>2, <1>3, LedgerMoves

\* While a notification is under way nobody else speaks for the bridge.
LEMMA SidRests ==
    ASSUME TypeOK, PlaceInv, SerialInv, HeaderInv, [Next]_vars,
           NEW a \in Actors, pc[a] \in {"prep", "wire", "reply"}, Msg(a) = "note"
    PROVE  sid' = sid
<1> USE ConstantsAssumption DEF Actors, Lines, Listener
<1>1. (a = "note" /\ job[a] = "own") \/ (job[a] = "renote" /\ mu = a)
  BY DEF Msg, PlaceInv, TypeOK
<1>2. ASSUME NEW c \in Actors, StartReinit(c) PROVE FALSE
  <2>1. pc[c] = "lock" /\ mu = Nobody
    BY <1>2 DEF StartReinit
  <2> QED
    BY <1>1, <2>1 DEF SerialInv
<1>3. ASSUME NEW c \in Actors, pc[c] = "reply", Msg(c) = "init" PROVE FALSE
  <2>1. c = "init" \/ (job[c] = "reinit" /\ mu = c)
    BY <1>3 DEF Msg, PlaceInv
  <2>2. c # a
    BY <1>3
  <2> QED
    BY <1>1, <1>3, <2>1, <2>2 DEF SerialInv
<1> QED
  BY <1>2, <1>3, SidMoves

\* A re-init goes on to its notification when initialize was accepted.
LEMMA NoteStep ==
    ASSUME TypeOK, PlaceInv, SerialInv, HeaderInv, OfferInv, NoteInv, [Next]_vars
    PROVE  NoteInv'
<1>1. ASSUME NEW a \in Actors, job'[a] = "renote"
      PROVE  sid' \in (1..created') \ lost'
  <2>1. job[a] = "renote" \/ ReinitInitialized(a)
    BY <1>1
       DEF Next, Step, Serve, Receive, ReadLine, StopReading, Cancel, CloseRun, ReadGen, Prepare,
           ServeInit, ServeNote, ServeRequest, ServeListen, ServeUnknown, ServeFails, Reply,
           ReceiveInit, ReceiveNote, ReceiveAnswer, ReceiveGone, ReceiveListen, StreamEvent,
           StreamEnds, ListenerCancelled, SkipReinit, StartReinit, ReinitInitialized, ReinitDone,
           ReinitFails, SessionDies, Rest, vars, act, TypeOK
  <2>2. CASE job[a] = "renote"
    <3>1. pc[a] \in {"prep", "wire", "reply"} /\ Msg(a) = "note"
      BY <2>2, ConstantsAssumption DEF PlaceInv, Msg
    <3>2. sid \in (1..created) \ lost
      BY <2>2 DEF NoteInv
    <3> QED
      BY <3>1, <3>2, SidRests, LostMoves
  <2>3. CASE ReinitInitialized(a)
    <3>1. pc[a] = "reply" /\ Msg(a) = "init" /\ Accepted(a) /\ Capture(a)
      BY <2>3 DEF ReinitInitialized, Arrived, Msg
    <3>2. sid' \in (1..created) \ lost
      BY <3>1 DEF OfferInv, Capture
    <3> QED
      BY <3>2, LostMoves
  <2> QED
    BY <2>1, <2>2, <2>3
<1>2. ASSUME NEW a \in Actors, pc'[a] = "wire", Msg(a)' = "note"
      PROVE  carried'[a] = sid'
  <2>1. CASE Prepare(a)
    BY <2>1 DEF Prepare, conn, TypeOK
  <2>2. CASE pc[a] = "wire" /\ carried'[a] = carried[a] /\ job'[a] = job[a]
    <3>1. Msg(a) = "note"
      BY <1>2, <2>2 DEF Msg
    <3> QED
      BY <2>2, <3>1, SidRests DEF NoteInv
  <2> QED
    BY <1>2, <2>1, <2>2, Moves DEF Moved
<1> QED
  BY <1>1, <1>2 DEF NoteInv

\* How an answer that names a session comes and goes.
LEMMA OfferedMoves ==
    ASSUME "echo" \notin Faults, TypeOK, PlaceInv, SerialInv, ClearInv, HeaderInv, [Next]_vars
    PROVE  /\ \A a \in Actors : ServeInit(a) => ~Offered /\ (Offered' <=> reply'[a].hdr # 0)
           /\ \A a \in Actors : pc[a] = "reply" /\ Msg(a) = "init" /\ Initializes(a) =>
                  (Offered <=> reply[a].hdr # 0) /\ ~Offered'
           /\ \/ \E a \in Actors : ServeInit(a)
              \/ \E a \in Actors : pc[a] = "reply" /\ Msg(a) = "init" /\ Initializes(a)
              \/ Offered' = Offered
<1> DEFINE Names(b) == pc[b] = "reply" /\ reply[b].hdr # 0
<1>1. \A b \in Actors : Names(b) => Msg(b) = "init"
  BY DEF HeaderInv
<1>2. ASSUME NEW b \in Actors, Names(b)' PROVE Names(b) \/ (ServeInit(b) /\ pc[b] = "wire")
  <2>1. ASSUME Serve(b) PROVE ServeInit(b) /\ pc[b] = "wire"
    BY <1>2, <2>1, ServeOffers, ServeMoves
  <2> QED
    BY <1>2, <2>1, Moves DEF Moved
<1>3. ASSUME NEW b \in Actors, Names(b), ~Initializes(b) PROVE Names(b)'
  BY <1>1, <1>3, AnswerWaits
<1>4. ASSUME NEW a \in Actors, ServeInit(a)
      PROVE  ~Offered /\ (Offered' <=> reply'[a].hdr # 0)
  <2>1. pc[a] = "wire" /\ Msg(a) = "init" /\ Serve(a)
    BY <1>4 DEF ServeInit, OnWire, Serve
  <2>2. pc'[a] = "reply"
    BY <2>1, ServeMoves DEF TypeOK
  <2>3. ASSUME NEW b \in Actors, Names(b) PROVE FALSE
    BY <1>1, <2>1, <2>3, InitAlone
  <2>4. ASSUME NEW b \in Actors, Names(b)' PROVE b = a
    <3>1. ServeInit(b) /\ pc[b] = "wire"
      BY <1>2, <2>3, <2>4
    <3>2. Msg(b) = "init"
      BY <3>1 DEF ServeInit, OnWire
    <3> QED
      BY <2>1, <3>1, <3>2, InitAlone
  <2> QED
    BY <2>2, <2>3, <2>4 DEF Offered
<1>5. ASSUME NEW a \in Actors, pc[a] = "reply", Msg(a) = "init", Initializes(a)
      PROVE  (Offered <=> reply[a].hdr # 0) /\ ~Offered'
  <2>1. \A b \in Actors : Names(b) => b = a
    BY <1>1, <1>5, InitAlone
  <2>2. pc'[a] # "reply"
    BY <1>5, ConstantsAssumption
       DEF Initializes, ReceiveInit, ReinitInitialized, ReinitDone, ReinitFails, Finish, Goto,
           Resume, TypeOK, Actors, Lines, Listener
  <2>3. ASSUME NEW b \in Actors, Names(b)' PROVE FALSE
    <3>1. b # a
      BY <2>2, <2>3
    <3>2. ServeInit(b) /\ pc[b] = "wire"
      BY <1>2, <2>1, <2>3, <3>1
    <3>3. Msg(b) = "init"
      BY <3>2 DEF ServeInit, OnWire
    <3> QED
      BY <1>5, <3>1, <3>2, <3>3, InitAlone
  <2> QED
    BY <1>5, <2>1, <2>3 DEF Offered
<1>6. ASSUME \A a \in Actors : ~ServeInit(a),
             \A a \in Actors : ~(pc[a] = "reply" /\ Msg(a) = "init" /\ Initializes(a))
      PROVE  Offered' = Offered
  <2>1. \A b \in Actors : Names(b) <=> Names(b)'
    BY <1>1, <1>2, <1>3, <1>6
  <2> QED
    BY <2>1 DEF Offered
<1> QED
  BY <1>4, <1>5, <1>6

\* Every step is one of SessionChain's, or none.
LEMMA ChainStep ==
    ASSUME "echo" \notin Faults, IInv, SInv, HandoverInv, [Next]_vars
    PROVE  [Chain!Next]_(Chain!chainVars)
<1> DEFINE Goal == [Chain!Next]_(Chain!chainVars)
<1> USE ConstantsAssumption DEF IInv, SInv, HandoverInv, Actors, Lines, Listener
<1>1. ASSUME NEW a \in Actors, ServeInit(a) PROVE Goal
  <2>1. pc[a] = "wire" /\ Msg(a) = "init" /\ UNCHANGED <<sid, mu, gen, noted>>
        /\ created' = created + 1 /\ live' = live \cup {created + 1}
    BY <1>1 DEF ServeInit, OnWire, Reply, hs, conn
  <2>2. \/ reply' = [reply EXCEPT ![a] = [status |-> "error", hdr |-> 0]] /\ lost' = lost \cup {created + 1}
        \/ \E s \in Statuses : reply' = [reply EXCEPT ![a] = [status |-> s, hdr |-> created + 1]]
                               /\ lost' \in {lost, lost \cup {created + 1}}
    BY <1>1 DEF ServeInit, Reply, Statuses
  <2>3. sid = 0 /\ (mu # Nobody \/ created = 0)
    BY <2>1 DEF Msg, ClearInv, FirstInv, PlaceInv
  <2>4. ~Offered /\ (Offered' <=> reply'[a].hdr # 0)
    BY <1>1, OfferedMoves
  <2>5. \/ reply'[a].hdr = 0 /\ lost' = lost \cup {created + 1}
        \/ reply'[a].hdr # 0 /\ lost' \in {lost, lost \cup {created + 1}}
    BY <2>2 DEF TypeOK
  <2>6. Offered' \in BOOLEAN
    BY DEF Offered
  <2> QED
    BY <2>1, <2>3, <2>4, <2>5, <2>6 DEF Chain!Next, Chain!Open
<1>2. ASSUME NEW a \in Actors, pc[a] = "reply", Msg(a) = "init", Initializes(a) PROVE Goal
  <2>1. (Offered <=> reply[a].hdr # 0) /\ ~Offered' /\ sid = 0
    BY <1>2, OfferedMoves, InitAlone
  <2>2. sid' = reply[a].hdr /\ UNCHANGED <<created, live, lost, noted>>
    BY <1>2, <2>1 DEF Initializes, ReceiveInit, ReinitInitialized, ReinitDone, ReinitFails, Capture, srv
  <2>3. \/ UNCHANGED <<mu, gen>> /\ (Accepted(a) \/ a = "init")
        \/ mu' = Nobody /\ gen' = gen + 1 /\ Accepted(a) /\ mu = a
        \/ mu' = Nobody /\ gen' = gen /\ ~Accepted(a) /\ mu = a
    BY <1>2 DEF Initializes, ReceiveInit, ReinitInitialized, ReinitDone, ReinitFails, NextGen, hs,
                Arrived, PlaceInv, Msg
  <2>4. /\ Accepted(a) => reply[a].hdr \in (1..created) \ lost
        /\ ~Accepted(a) => reply[a].hdr \in {0} \cup lost
        /\ reply[a].hdr # 0 => reply[a].hdr = created
    BY <1>2 DEF OfferInv, HeaderInv
  <2>5. CASE reply[a].hdr = 0
    <3>1. ~Accepted(a) /\ sid' = sid /\ Offered' = Offered
      BY <2>1, <2>2, <2>4, <2>5 DEF Offered
    <3>2. CASE UNCHANGED <<mu, gen>>
      BY <2>2, <3>1, <3>2 DEF Chain!chainVars
    <3>3. CASE mu' = Nobody /\ gen' = gen /\ mu = a
      BY <2>1, <2>2, <3>1, <3>3 DEF Chain!Next, Chain!Settle, Chain!Conclude
    <3> QED
      BY <2>3, <3>1, <3>2, <3>3
  <2>6. CASE reply[a].hdr # 0
    <3>1. sid = 0 /\ Offered /\ sid' = created /\ Offered' = FALSE
      BY <2>1, <2>2, <2>4, <2>6 DEF Offered
    <3>2. UNCHANGED <<mu # Nobody, gen>> \/ Chain!Conclude(sid')
      BY <2>2, <2>3, <2>4 DEF Chain!Conclude
    <3> QED
      BY <2>2, <3>1, <3>2 DEF Chain!Next, Chain!Take
  <2> QED
    BY <2>5, <2>6
<1> DEFINE Quiet == /\ \A a \in Actors : ~ServeInit(a)
                    /\ \A a \in Actors : ~(pc[a] = "reply" /\ Msg(a) = "init" /\ Initializes(a))
<1>3. ASSUME Quiet PROVE Offered' = Offered
  BY <1>3, OfferedMoves
<1>4. ASSUME Quiet, NEW a \in Actors, StartReinit(a) PROVE Goal
  <2>1. /\ mu = Nobody /\ mu' = a /\ sid' = 0 /\ UNCHANGED <<gen, created, live, lost, noted>>
        /\ sid \notin live \ lost
    BY <1>4, LiveKept DEF StartReinit, srv
  <2>2. ~Offered
    <3>1. ASSUME NEW b \in Actors, pc[b] = "reply", reply[b].hdr # 0 PROVE FALSE
      <4>1. b = "init"
        BY <2>1, <3>1 DEF HeaderInv, Msg, PlaceInv
      <4>2. pc[a] = "lock"
        BY <1>4 DEF StartReinit
      <4> QED
        BY <3>1, <4>1, <4>2 DEF SerialInv
    <3> QED
      BY <3>1 DEF Offered
  <2> QED
    BY <1>3, <1>4, <2>1, <2>2 DEF Chain!Next, Chain!Retire, Chain!Works
<1>5. ASSUME Quiet, NEW a \in Actors, ReinitDone(a) PROVE Goal
  <2>1. pc[a] = "reply" /\ job[a] = "renote" /\ Msg(a) = "note" /\ mu = a
    BY <1>5 DEF ReinitDone, Arrived, Initializes, Msg, PlaceInv
  <2>2. sid' = sid /\ sid \in (1..created) \ lost
    BY <2>1, SidRests DEF NoteInv
  <2>3. mu' = Nobody /\ gen' = gen + 1 /\ UNCHANGED <<created, live, lost, noted>>
    BY <1>5 DEF ReinitDone, NextGen, srv
  <2> QED
    BY <1>3, <1>5, <2>1, <2>2, <2>3 DEF Chain!Next, Chain!Settle, Chain!Conclude
<1>6. ASSUME Quiet, NEW a \in Actors, ServeNote(a) PROVE Goal
  <2>1. pc[a] = "wire" /\ Msg(a) = "note" /\ carried[a] \in live /\ noted' = noted \cup {carried[a]}
        /\ UNCHANGED <<sid, mu, gen, created, live, lost>>
    BY <1>6 DEF ServeNote, OnWire, Known, Reply, hs, conn
  <2>2. carried[a] = sid
    BY <2>1 DEF NoteInv
  <2> QED
    BY <1>3, <1>6, <2>1, <2>2 DEF Chain!Next, Chain!Note
<1>7. ASSUME Quiet, SessionDies \/ CloseRun PROVE Goal
  <2>1. UNCHANGED <<sid, mu, gen, created, lost, noted>>
    BY <1>7 DEF SessionDies, CloseRun, hs, conn
  <2>2. (\E s \in live : live' = live \ {s}) \/ live' = live
    BY <1>7 DEF SessionDies, CloseRun
  <2> QED
    BY <1>3, <1>7, <2>1, <2>2 DEF Chain!Next, Chain!End, Chain!chainVars
<1>8. ASSUME Quiet, ~SessionDies, ~CloseRun,
             \A a \in Actors : ~StartReinit(a) /\ ~ReinitDone(a) /\ ~ServeNote(a)
      PROVE  Goal
  <2>1. UNCHANGED <<created, lost, live>> /\ sid' = sid
    BY <1>8, LedgerMoves, SidMoves
  <2>2. UNCHANGED <<mu, gen, noted>>
    BY <1>8
       DEF Next, Step, Serve, Receive, ReadLine, StopReading, Cancel, ReadGen, Prepare,
           ServeRequest, ServeListen, ServeUnknown, ServeFails, Reply,
           ReceiveInit, ReceiveNote, ReceiveAnswer, ReceiveGone, ReceiveListen, StreamEvent, StreamEnds,
           ListenerCancelled, SkipReinit, ReinitInitialized, ReinitFails, Initializes, Arrived, Msg,
           Rest, vars, hs, srv
  <2> QED
    BY <1>3, <1>8, <2>1, <2>2 DEF Chain!chainVars
<1> QED
  BY <1>1, <1>2, <1>4, <1>5, <1>6, <1>7, <1>8

\* reinit, generation, captureSession and clearSession (bridge.go, client.go):
\* whatever the goroutines of a bridge do together, the server meets a client
\* with one session at a time, which gives up none that works, asks for one at
\* a time, notifies the one in use, and starts an era once for each that works.
THEOREM ChainRefinement ==
    ASSUME "echo" \notin Faults
    PROVE  Spec => SessionsChained
<1>1. Init => Chain!Init /\ HandoverInv
  <2> SUFFICES ASSUME Init PROVE Chain!Init /\ HandoverInv
    OBVIOUS
  <2>1. ~Offered
    BY DEF Init, Offered
  <2>2. Chain!Init
    BY <2>1 DEF Init, Chain!Init, Offered
  <2>3. HandoverInv
    BY DEF Init, HandoverInv, OfferInv, FirstInv, NoteInv, Actors, Lines
  <2> QED
    BY <2>2, <2>3
<1>2. IInv /\ SInv /\ HandoverInv /\ [Next]_vars => HandoverInv'
  BY OfferStep, FirstStep, NoteStep DEF IInv, SInv, HandoverInv
<1>3. IInv /\ SInv /\ HandoverInv /\ [Next]_vars => [Chain!Next]_(Chain!chainVars)
  BY ChainStep
<1> QED
  BY <1>1, <1>2, <1>3, SessionInvariance, PTL DEF Spec, SessionsChained, Chain!Spec
=============================================================================

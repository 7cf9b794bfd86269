----------------------------- MODULE EventStream -----------------------------
(***************************************************************************)
(* pkg/mcp/sse.go and Client.Listen of client.go: the listening stream is  *)
(* read line by line, ends or breaks at any line, and is resumed with the  *)
(* id of the last event that was delivered. The server numbers its events, *)
(* as it must to support Last-Event-ID; BridgeSession has the sessions and *)
(* the answers that end Listen.                                            *)
(***************************************************************************)
EXTENDS Naturals, Sequences, FiniteSets

CONSTANTS
    Lines,   \* per event of the server: the lines that it is sent as
    MaxEnds  \* how often the stream may end or break

Events == DOMAIN Lines

\* Kinds of lines: "data", "id", "other" (comment, event:, retry:), "blank".
DataLines(e) == {i \in DOMAIN Lines[e] : Lines[e][i] = "data"}
HasData(e) == DataLines(e) # {}

\* The blank line ends an event; every event has one id line.
ASSUME LinesAssumption ==
    /\ Lines \in Seq(Seq({"data", "id", "other", "blank"})) /\ MaxEnds \in Nat
    /\ \A e \in Events :
        /\ \A i \in DOMAIN Lines[e] : Lines[e][i] = "blank" <=> i = Len(Lines[e])
        /\ \E i \in DOMAIN Lines[e] :
             \A j \in DOMAIN Lines[e] : Lines[e][j] = "id" <=> j = i

VARIABLES
    published,  \* server: number of events it has for this session
    status,     \* of the stream: "open", or "wait" for the backoff
    at,         \* server: the event and line it sends next on this stream
    data,       \* sseReader.Next: the data lines collected, of which event
    lastID,     \* sseReader.lastID; 0: none yet
    cursor,     \* Client.lastEventID; 0: none
    delivered,  \* stdout: the events handed over, in order
    ends,       \* how often the stream ended or broke
    cut         \* events in the middle of which it ended without an error

server == <<published, at>>
reader == <<data, lastID>>
vars == <<server, status, reader, cursor, delivered, ends, cut>>

NoData == [event |-> 0, lines |-> 0]

TypeOK ==
    /\ published \in 0..Len(Lines)
    /\ status \in {"open", "wait"}
    /\ at.event \in 1..(published + 1)
    /\ at.line \in 1..(IF at.event \in Events THEN Len(Lines[at.event]) ELSE 1)
    /\ data = NoData \/ (data.event = at.event /\ data.lines \in 1..(at.line - 1))
    /\ lastID \in 0..at.event /\ cursor \in 0..published
    /\ \A i \in DOMAIN delivered : delivered[i] \in 1..published
    /\ ends \in 0..MaxEnds
    /\ cut \subseteq 1..published

Init ==
    /\ published = 0 /\ status = "wait" /\ at = [event |-> 1, line |-> 1]
    /\ data = NoData /\ lastID = 0 /\ cursor = 0
    /\ delivered = <<>> /\ ends = 0 /\ cut = {}

\* listenOnce: a new request with the cursor, a new reader on its answer. The
\* server resumes behind that event.
Connect ==
    /\ status = "wait"
    /\ status' = "open"
    /\ at' = [event |-> cursor + 1, line |-> 1]
    /\ data' = NoData /\ lastID' = 0
    /\ UNCHANGED <<published, cursor, delivered, ends, cut>>

Publish ==
    /\ published < Len(Lines)
    /\ published' = published + 1
    /\ UNCHANGED <<status, at, reader, cursor, delivered, ends, cut>>

\* Mutant: the cursor is not stored.
Mut_Cursor(id) == cursor

\* listenOnce stores the id that Next returns with an event, if there is one.
Cursor(id) == IF id # 0 THEN id ELSE cursor

\* Next returns what it has collected: a boundary without data is skipped.
\* deliverCompact drops what is not valid JSON, as a part of an event is not.
Return ==
    IF data = NoData THEN UNCHANGED <<cursor, delivered>>
    ELSE /\ cursor' = Cursor(lastID)
         /\ delivered' = IF data.lines = Cardinality(DataLines(data.event))
                         THEN Append(delivered, data.event) ELSE delivered

\* Mutant: the client's cursor follows the reader's.
Mut_ReadID ==
    /\ lastID' = at.event /\ cursor' = at.event
    /\ UNCHANGED <<data, delivered>>

ReadID ==
    /\ lastID' = at.event
    /\ UNCHANGED <<data, cursor, delivered>>

ReadData ==
    /\ data' = [event |-> at.event, lines |-> data.lines + 1]
    /\ UNCHANGED <<lastID, cursor, delivered>>

\* Mutant: the collected lines stay for the next event.
Mut_Boundary == Return /\ UNCHANGED reader

Boundary == Return /\ data' = NoData /\ UNCHANGED lastID

\* One line of sseReader.Next.
ReadLine ==
    /\ status = "open" /\ at.event <= published
    /\ LET line == Lines[at.event][at.line] IN
       \/ line = "id" /\ ReadID
       \/ line = "data" /\ ReadData
       \/ line = "other" /\ UNCHANGED <<reader, cursor, delivered>>
       \/ line = "blank" /\ Boundary
    /\ at' = IF at.line = Len(Lines[at.event]) THEN [event |-> at.event + 1, line |-> 1]
             ELSE [at EXCEPT !.line = @ + 1]
    /\ UNCHANGED <<published, status, ends, cut>>

\* Mutant: Listen ends with its stream.
Mut_AfterStream == "stopped"

\* Where Listen goes from a stream that is over, with an error or without.
AfterStream == "wait"

\* The stream is closed at a line: what was collected is still returned.
StreamEOF ==
    /\ status = "open" /\ ends < MaxEnds
    /\ Return
    /\ cut' = IF at.line > 1 THEN cut \cup {at.event} ELSE cut
    /\ status' = AfterStream /\ ends' = ends + 1 /\ data' = NoData
    /\ UNCHANGED <<server, lastID>>

\* The connection breaks: what was collected is lost.
StreamBreaks ==
    /\ status = "open" /\ ends < MaxEnds
    /\ status' = AfterStream /\ ends' = ends + 1 /\ data' = NoData
    /\ UNCHANGED <<server, lastID, cursor, delivered, cut>>

Next == Connect \/ Publish \/ ReadLine \/ StreamEOF \/ StreamBreaks

Spec == Init /\ [][Next]_vars

\* The goroutine runs and the backoff timer fires; streams end finitely often.
FairSpec == Spec /\ WF_vars(Connect) /\ WF_vars(ReadLine)

-----------------------------------------------------------------------------
(* Properties                                                              *)

\* However often the stream breaks, an event is handed over once, and in the
\* server's order (Listen, sseReader.Next). An event in the middle of which
\* the stream was closed without an error may come twice: it is returned
\* before its id was read.
InOrderOnce ==
    \A i, j \in DOMAIN delivered :
        i < j => delivered[i] < delivered[j] \/ delivered[j] \in cut

\* The cursor never passes an event that was not handed over, or it would not
\* be sent again (listenOnce), except one that was closed in the middle:
\* what there is of it is taken for the whole and dropped.
NoneSkipped ==
    \A e \in 1..cursor :
        HasData(e) => e \in cut \/ \E i \in DOMAIN delivered : delivered[i] = e

\* Every event of the session arrives, across any number of reconnects.
AllArrive ==
    \A e \in Events :
        (e <= published /\ HasData(e))
            ~> (e \in cut \/ \E i \in DOMAIN delivered : delivered[i] = e)
=============================================================================

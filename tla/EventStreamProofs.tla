-------------------------- MODULE EventStreamProofs --------------------------
(***************************************************************************)
(* Theorems about EventStream, for every list of events and every number   *)
(* of reconnects.                                                          *)
(***************************************************************************)
EXTENDS EventStream, FiniteSetTheorems, TLAPS

\* The data lines among the first n of an event.
Seen(e, n) == {i \in 1..n : Lines[e][i] = "data"}

\* Where the server is in what it sends on this stream.
PlaceInv ==
    /\ at \in [event : 1..(published + 1), line : Nat]
    /\ at.line \in 1..(IF at.event \in Events THEN Len(Lines[at.event]) ELSE 1)
    /\ at.line > 1 => at.event <= published
    /\ status = "open" => cursor < at.event

\* The reader has collected the data lines of the current event so far.
CountInv ==
    IF status = "wait" \/ Seen(at.event, at.line - 1) = {} THEN data = NoData
    ELSE data = [event |-> at.event, lines |-> Cardinality(Seen(at.event, at.line - 1))]

\* Its id is that of the current event or of the one before, and it has none
\* only in the first event of the stream.
IdInv ==
    /\ lastID \in Nat
    /\ status = "open" =>
         /\ lastID \in {0, at.event - 1, at.event}
         /\ lastID = 0 => at.event = cursor + 1
         /\ (\E i \in 1..(at.line - 1) : Lines[at.event][i] = "id") => lastID = at.event

\* What the cursor has passed, and what the stream has passed, was handed over.
HandedOver(e) == e \in cut \/ \E i \in DOMAIN delivered : delivered[i] = e
PassedInv ==
    /\ NoneSkipped
    /\ status = "open" => \A e \in 1..(at.event - 1) : HasData(e) => HandedOver(e)

\* What was handed over, the cursor has passed, but for an event that was
\* closed in the middle.
BehindInv ==
    /\ InOrderOnce
    /\ \A i \in DOMAIN delivered :
         delivered[i] <= cursor \/ (delivered[i] = cursor + 1 /\ delivered[i] \in cut)

IInv == TypeOK /\ PlaceInv /\ CountInv /\ IdInv /\ PassedInv /\ BehindInv /\ delivered \in Seq(Nat)

-----------------------------------------------------------------------------
(* The lines of an event.                                                  *)

\* An event is a nonempty list of lines, and its number a number.
LEMMA EventLines ==
    ASSUME NEW e \in Events
    PROVE  /\ e \in Nat \ {0} /\ e <= Len(Lines)
           /\ Len(Lines[e]) \in Nat \ {0} /\ DOMAIN Lines[e] = 1..Len(Lines[e])
           /\ \A i \in 1..Len(Lines[e]) :
                /\ Lines[e][i] \in {"data", "id", "other", "blank"}
                /\ Lines[e][i] = "blank" <=> i = Len(Lines[e])
<1>1. Lines[e] \in Seq({"data", "id", "other", "blank"}) /\ e \in 1..Len(Lines) /\ Len(Lines) \in Nat
  BY LinesAssumption DEF Events
<1>2. DOMAIN Lines[e] # {}
  BY LinesAssumption
<1> QED
  BY <1>1, <1>2, LinesAssumption

\* Reading one line more.
LEMMA SeenMore ==
    ASSUME NEW e, NEW n \in Nat \ {0}
    PROVE  /\ IsFiniteSet(Seen(e, n - 1)) /\ Cardinality(Seen(e, n - 1)) \in Nat
           /\ Lines[e][n] # "data" => Seen(e, n) = Seen(e, n - 1)
           /\ Lines[e][n] = "data" =>
                Seen(e, n) # {} /\ Cardinality(Seen(e, n)) = Cardinality(Seen(e, n - 1)) + 1
           /\ Seen(e, n - 1) = {} => Cardinality(Seen(e, n - 1)) = 0
<1>1. IsFiniteSet(Seen(e, n - 1))
  <2>1. IsFiniteSet(1..(n - 1)) /\ Seen(e, n - 1) \subseteq 1..(n - 1)
    BY FS_Interval DEF Seen
  <2> QED
    BY <2>1, FS_Subset
<1>2. Cardinality(Seen(e, n - 1)) \in Nat
  BY <1>1, FS_CardinalityType
<1>3. Lines[e][n] # "data" => Seen(e, n) = Seen(e, n - 1)
  BY DEF Seen
<1>4. ASSUME Lines[e][n] = "data"
      PROVE  Seen(e, n) = Seen(e, n - 1) \cup {n} /\ n \notin Seen(e, n - 1)
  BY <1>4 DEF Seen
<1>5. ASSUME Lines[e][n] = "data"
      PROVE  Cardinality(Seen(e, n)) = Cardinality(Seen(e, n - 1)) + 1
  BY <1>1, <1>4, <1>5, FS_AddElement
<1>6. Seen(e, n - 1) = {} => Cardinality(Seen(e, n - 1)) = 0
  BY FS_EmptySet
<1> QED
  BY <1>1, <1>2, <1>3, <1>4, <1>5, <1>6

\* The blank line is no data line: at it, the event has been read.
LEMMA SeenAll ==
    ASSUME NEW e \in Events
    PROVE  Seen(e, Len(Lines[e]) - 1) = DataLines(e)
<1>1. \A i \in 1..Len(Lines[e]) : Lines[e][i] = "data" => i # Len(Lines[e])
  BY EventLines
<1> QED
  BY <1>1, EventLines DEF Seen, DataLines

\* An event that has been read up to its blank line has shown its id.
LEMMA IdSeen ==
    ASSUME NEW e \in Events
    PROVE  \E i \in 1..(Len(Lines[e]) - 1) : Lines[e][i] = "id"
<1>1. PICK i \in DOMAIN Lines[e] : Lines[e][i] = "id"
  BY LinesAssumption
<1>2. i \in 1..Len(Lines[e]) /\ i # Len(Lines[e]) /\ Len(Lines[e]) \in Nat
  BY <1>1, EventLines
<1> QED
  BY <1>1, <1>2

\* No data of nothing.
LEMMA NoSeen == \A e : Seen(e, 0) = {}
BY DEF Seen

-----------------------------------------------------------------------------
(* Each conjunct of IInv is preserved by every step.                       *)

\* ReadLine reads line l of event e: one of the four kinds, and the blank one
\* is the last.
LEMMA LineRead ==
    ASSUME TypeOK, PlaceInv, ReadLine,
           NEW e, NEW l, e = at.event, l = at.line
    PROVE  /\ e \in Events /\ e \in 1..published /\ l \in 1..Len(Lines[e])
           /\ UNCHANGED <<published, status, ends, cut>> /\ status = "open"
           /\ \/ /\ Lines[e][l] \in {"id", "data", "other"}
                 /\ l < Len(Lines[e]) /\ at' = [event |-> e, line |-> l + 1]
                 /\ UNCHANGED <<cursor, delivered>>
                 /\ Lines[e][l] = "id" => ReadID
                 /\ Lines[e][l] = "data" => ReadData
                 /\ Lines[e][l] = "other" => UNCHANGED reader
              \/ /\ Lines[e][l] = "blank" /\ Boundary
                 /\ l = Len(Lines[e]) /\ at' = [event |-> e + 1, line |-> 1]
<1>1. published \in 0..Len(Lines) /\ Len(Lines) \in Nat /\ Events = 1..Len(Lines)
  BY LinesAssumption DEF TypeOK, Events
<1>2. e \in 1..published /\ e \in Events
  BY <1>1 DEF ReadLine, PlaceInv
<1>3. l \in 1..Len(Lines[e])
  BY <1>2 DEF PlaceInv
<1>4. at = [event |-> e, line |-> l]
  BY DEF PlaceInv
<1>5. /\ Lines[e][l] \in {"data", "id", "other", "blank"} /\ Len(Lines[e]) \in Nat
      /\ Lines[e][l] = "blank" <=> l = Len(Lines[e])
  BY <1>2, <1>3, EventLines
<1>6. at' = IF l = Len(Lines[e]) THEN [event |-> e + 1, line |-> 1] ELSE [event |-> e, line |-> l + 1]
  BY <1>4 DEF ReadLine
<1>7. CASE Lines[e][l] = "blank"
  BY <1>2, <1>3, <1>5, <1>6, <1>7 DEF ReadLine
<1>8. CASE Lines[e][l] # "blank"
  <2>1. l < Len(Lines[e])
    BY <1>3, <1>5, <1>8
  <2> QED
    BY <1>2, <1>3, <1>5, <1>6, <1>8, <2>1 DEF ReadLine, ReadID, ReadData
<1> QED
  BY <1>7, <1>8

\* The place on the stream.
LEMMA PlaceStep ==
    ASSUME TypeOK, PlaceInv, IdInv, [Next]_vars
    PROVE  PlaceInv'
<1>0. /\ published \in 0..Len(Lines) /\ Len(Lines) \in Nat /\ Events = 1..Len(Lines)
      /\ cursor \in 0..published
      /\ \A e \in Events : Len(Lines[e]) \in Nat \ {0}
  BY LinesAssumption, EventLines DEF TypeOK, Events
<1>1. CASE Connect
  <2>1. /\ at' = [event |-> cursor + 1, line |-> 1] /\ published' = published
        /\ cursor' = cursor
    BY <1>1 DEF Connect
  <2> QED
    BY <1>0, <2>1 DEF PlaceInv
<1>2. CASE Publish
  BY <1>0, <1>2 DEF Publish, PlaceInv
<1>3. CASE ReadLine
  <2> DEFINE e == at.event
             l == at.line
  <2>0. /\ e \in Events /\ e \in 1..published /\ l \in 1..Len(Lines[e])
        /\ published' = published /\ status' = status /\ status = "open"
    BY <1>3, LineRead
  <2>1. CASE l < Len(Lines[e]) /\ at' = [event |-> e, line |-> l + 1] /\ cursor' = cursor
    BY <1>0, <2>0, <2>1 DEF PlaceInv
  <2>2. CASE Boundary /\ at' = [event |-> e + 1, line |-> 1]
    <3>1. cursor' \in {cursor, lastID}
      BY <2>2 DEF Boundary, Return, Cursor
    <3>2. cursor' < e + 1
      BY <1>0, <2>0, <3>1 DEF PlaceInv, IdInv
    <3> QED
      BY <1>0, <2>0, <2>2, <3>2 DEF PlaceInv
  <2> QED
    BY <1>3, <2>1, <2>2, LineRead
<1>4. CASE StreamEOF \/ StreamBreaks
  BY <1>4 DEF StreamEOF, StreamBreaks, AfterStream, server, PlaceInv
<1>5. CASE UNCHANGED vars
  BY <1>5 DEF vars, server, PlaceInv
<1> QED
  BY <1>1, <1>2, <1>3, <1>4, <1>5 DEF Next

\* The lines collected.
LEMMA CountStep ==
    ASSUME TypeOK, PlaceInv, CountInv, [Next]_vars
    PROVE  CountInv'
<1>0. /\ at.event \in Nat \ {0} /\ at.line \in Nat \ {0}
      /\ status \in {"open", "wait"}
  BY DEF TypeOK, PlaceInv
<1>1. CASE Connect
  <2>1. at'.line - 1 = 0 /\ data' = NoData
    BY <1>1 DEF Connect
  <2> QED
    BY <2>1, NoSeen DEF CountInv
<1>2. CASE UNCHANGED <<at, data, status>>
  BY <1>2 DEF CountInv
<1>3. CASE ReadLine
  <2> DEFINE e == at.event
             l == at.line
  <2>0. l \in Nat \ {0} /\ status' = "open" /\ status = "open"
    BY <1>0, <1>3, LineRead
  <2>1. CASE /\ Lines[e][l] \in {"id", "other"} /\ data' = data
             /\ at' = [event |-> e, line |-> l + 1]
    <3>1. Seen(e, l) = Seen(e, l - 1) /\ at'.line - 1 = l
      BY <2>0, <2>1, SeenMore
    <3> QED
      BY <2>0, <2>1, <3>1 DEF CountInv
  <2>2. CASE Lines[e][l] = "data" /\ ReadData /\ at' = [event |-> e, line |-> l + 1]
    <3>1. /\ Seen(e, l) # {} /\ Cardinality(Seen(e, l)) = Cardinality(Seen(e, l - 1)) + 1
          /\ Seen(e, l - 1) = {} => Cardinality(Seen(e, l - 1)) = 0
      BY <2>0, <2>2, SeenMore
    <3>2. data.lines = Cardinality(Seen(e, l - 1))
      BY <2>0, <3>1 DEF CountInv, NoData
    <3>3. at'.event = e /\ at'.line - 1 = l
      BY <2>0, <2>2
    <3>4. data' = [event |-> e, lines |-> Cardinality(Seen(e, l))]
      BY <2>2, <3>1, <3>2 DEF ReadData
    <3> QED
      BY <2>0, <3>1, <3>3, <3>4 DEF CountInv
  <2>3. CASE Boundary /\ at' = [event |-> e + 1, line |-> 1]
    <3>1. at'.line - 1 = 0 /\ data' = NoData
      BY <2>3 DEF Boundary
    <3> QED
      BY <3>1, NoSeen DEF CountInv
  <2> QED
    BY <1>3, <2>1, <2>2, <2>3, LineRead DEF ReadID, reader
<1>4. CASE StreamEOF \/ StreamBreaks
  BY <1>4 DEF StreamEOF, StreamBreaks, AfterStream, CountInv
<1> QED
  BY <1>1, <1>2, <1>3, <1>4 DEF Next, Publish, vars, server, reader

\* The id read.
LEMMA IdStep ==
    ASSUME TypeOK, PlaceInv, IdInv, [Next]_vars
    PROVE  IdInv'
<1>0. cursor \in Nat /\ at.event \in Nat \ {0} /\ at.line \in Nat \ {0} /\ lastID \in Nat
  BY DEF TypeOK, PlaceInv, IdInv
<1>1. CASE Connect
  <2>1. at'.line = 1 /\ at'.event = cursor + 1 /\ cursor' = cursor /\ lastID' = 0
    BY <1>1 DEF Connect
  <2> QED
    BY <1>0, <2>1 DEF IdInv
<1>2. CASE UNCHANGED <<at, status, cursor, lastID>>
  BY <1>2 DEF IdInv
<1>3. CASE ReadLine
  <2> DEFINE e == at.event
             l == at.line
  <2>0. /\ e \in Events /\ status = "open"
        /\ \/ /\ Lines[e][l] \in {"id", "data", "other"}
              /\ at' = [event |-> e, line |-> l + 1] /\ cursor' = cursor
              /\ Lines[e][l] = "id" => lastID' = e
              /\ Lines[e][l] # "id" => lastID' = lastID
           \/ l = Len(Lines[e]) /\ Boundary /\ at' = [event |-> e + 1, line |-> 1]
    BY <1>3, LineRead DEF ReadID, ReadData, reader
  <2>1. CASE lastID' = e /\ at' = [event |-> e, line |-> l + 1]
    BY <1>0, <2>1 DEF IdInv
  <2>2. CASE /\ Lines[e][l] # "id" /\ lastID' = lastID /\ cursor' = cursor
             /\ at' = [event |-> e, line |-> l + 1]
    <3>1. (\E i \in 1..l : Lines[e][i] = "id") => \E i \in 1..(l - 1) : Lines[e][i] = "id"
      BY <1>0, <2>2
    <3>2. at'.event = e /\ at'.line - 1 = l
      BY <1>0, <2>2
    <3> QED
      BY <1>0, <2>0, <2>2, <3>1, <3>2 DEF IdInv
  <2>3. CASE l = Len(Lines[e]) /\ Boundary /\ at' = [event |-> e + 1, line |-> 1]
    <3>1. lastID = e /\ lastID' = lastID
      BY <2>0, <2>3, IdSeen DEF IdInv, Boundary
    <3>2. at'.event = e + 1 /\ at'.line = 1
      BY <2>3
    <3> QED
      BY <1>0, <3>1, <3>2 DEF IdInv
  <2> QED
    BY <2>0, <2>1, <2>2, <2>3
<1>4. CASE StreamEOF \/ StreamBreaks
  BY <1>4 DEF StreamEOF, StreamBreaks, AfterStream, IdInv
<1> QED
  BY <1>1, <1>2, <1>3, <1>4 DEF Next, Publish, vars, server, reader

\* What Next returns in the middle of an event, or at its end.
LEMMA Returned ==
    ASSUME TypeOK, PlaceInv, CountInv, status = "open", Return
    PROVE  \/ UNCHANGED <<cursor, delivered>>
           \/ /\ at.line > 1 /\ at.event \in 1..published /\ cursor' = Cursor(lastID)
              /\ delivered' \in {delivered, Append(delivered, at.event)}
<1>1. CASE data = NoData
  BY <1>1 DEF Return
<1>2. CASE data # NoData
  <2>1. data.event = at.event /\ Seen(at.event, at.line - 1) # {}
    BY <1>2 DEF CountInv
  <2>2. at.line > 1
    BY <2>1 DEF Seen, PlaceInv
  <2> QED
    BY <1>2, <2>1, <2>2 DEF Return, PlaceInv
<1> QED
  BY <1>1, <1>2

\* The blank line: the whole event is handed over, if there is data in it.
LEMMA Bounded ==
    ASSUME TypeOK, PlaceInv, CountInv, IdInv, ReadLine, Boundary, NEW e, e = at.event,
           at.line = Len(Lines[e])
    PROVE  /\ lastID = e
           /\ HasData(e) => cursor' = e /\ delivered' = Append(delivered, e)
           /\ ~HasData(e) => UNCHANGED <<cursor, delivered>>
<1>0. e \in Events /\ status = "open" /\ e # 0
  BY LineRead DEF PlaceInv
<1>1. lastID = e
  BY <1>0, IdSeen DEF IdInv
<1>2. Seen(e, at.line - 1) = DataLines(e)
  BY <1>0, SeenAll
<1>3. ~HasData(e) => data = NoData
  BY <1>0, <1>2 DEF HasData, CountInv
<1>4. HasData(e) => data = [event |-> e, lines |-> Cardinality(DataLines(e))]
  BY <1>0, <1>2 DEF HasData, CountInv
<1>5. HasData(e) => data # NoData /\ data.event = e /\ data.lines = Cardinality(DataLines(e))
  BY <1>0, <1>4 DEF NoData
<1> QED
  BY <1>0, <1>1, <1>3, <1>5 DEF Boundary, Return, Cursor

\* Types.
LEMMA TypeStep ==
    ASSUME TypeOK, PlaceInv, CountInv, IdInv, delivered \in Seq(Nat), [Next]_vars
    PROVE  TypeOK' /\ delivered' \in Seq(Nat)
<1>0. /\ published \in 0..Len(Lines) /\ Len(Lines) \in Nat /\ cursor \in 0..published
      /\ MaxEnds \in Nat /\ ends \in 0..MaxEnds /\ cut \subseteq 1..published
      /\ \A i \in DOMAIN delivered : delivered[i] \in 1..published
      /\ at.event \in 1..(published + 1) /\ at.line \in Nat \ {0} /\ lastID \in 0..at.event
      /\ status \in {"open", "wait"} /\ (at.line > 1 => at.event <= published)
  BY LinesAssumption DEF TypeOK, PlaceInv
<1>p. PlaceInv'
  BY PlaceStep
<1>t. ASSUME /\ published' \in 0..Len(Lines) /\ status' \in {"open", "wait"}
             /\ data' = NoData \/ (data'.event = at'.event /\ data'.lines \in 1..(at'.line - 1))
             /\ lastID' \in 0..at'.event /\ cursor' \in 0..published'
             /\ \A i \in DOMAIN delivered' : delivered'[i] \in 1..published'
             /\ ends' \in 0..MaxEnds /\ cut' \subseteq 1..published'
      PROVE  TypeOK'
  BY <1>p, <1>t DEF TypeOK, PlaceInv
<1>r. ASSUME Return, status = "open"
      PROVE  /\ cursor' \in 0..published /\ delivered' \in Seq(Nat)
             /\ \A i \in DOMAIN delivered' : delivered'[i] \in 1..published
  <2>1. CASE UNCHANGED <<cursor, delivered>>
    BY <1>0, <2>1
  <2>2. CASE /\ at.event \in 1..published /\ cursor' = Cursor(lastID)
             /\ delivered' \in {delivered, Append(delivered, at.event)}
    <3>1. at.event \in Nat /\ cursor' \in 0..published
      BY <1>0, <2>2 DEF Cursor
    <3>2. CASE delivered' = Append(delivered, at.event)
      BY <1>0, <2>2, <3>1, <3>2
    <3> QED
      BY <1>0, <2>2, <3>1, <3>2
  <2> QED
    BY <1>r, <2>1, <2>2, Returned
<1>1. CASE Connect
  <2>1. at'.event = cursor + 1 /\ lastID' = 0 /\ data' = NoData
    BY <1>1 DEF Connect
  <2> QED
    BY <1>0, <1>1, <1>t, <2>1 DEF Connect
<1>2. CASE Publish
  BY <1>0, <1>2, <1>t DEF Publish, reader, TypeOK
<1>3. CASE ReadLine
  <2> DEFINE e == at.event
             l == at.line
  <2>0. UNCHANGED <<published, status, ends, cut>> /\ status = "open"
    BY <1>3, LineRead
  <2>1. CASE /\ UNCHANGED <<cursor, delivered>> /\ (ReadData \/ UNCHANGED data)
             /\ lastID' \in {lastID, e} /\ at' = [event |-> e, line |-> l + 1]
    <3>1. at'.event = e /\ at'.line - 1 = l
      BY <1>0, <2>1
    <3>2. data' = NoData \/ (data'.event = e /\ data'.lines \in 1..l)
      BY SMTT(20), <1>0, <2>1 DEF TypeOK, ReadData, NoData
    <3> QED
      BY <1>0, <1>t, <2>0, <2>1, <3>1, <3>2
  <2>2. CASE Boundary /\ at' = [event |-> e + 1, line |-> 1]
    <3>1. at'.event = e + 1 /\ data' = NoData /\ lastID' = lastID /\ Return
      BY <2>2 DEF Boundary
    <3> QED
      BY <1>0, <1>r, <1>t, <2>0, <3>1
  <2> QED
    BY <1>3, <2>1, <2>2, LineRead DEF ReadID, ReadData, reader
<1>4. CASE StreamEOF
  <2>1. /\ Return /\ status = "open" /\ ends < MaxEnds /\ ends' = ends + 1 /\ data' = NoData
        /\ status' = "wait" /\ UNCHANGED <<published, at, lastID>>
    BY <1>4 DEF StreamEOF, AfterStream, server
  <2>2. cut' \subseteq 1..published
    <3>1. at.line > 1 => at.event \in 1..published
      BY <1>0
    <3>2. cut' = IF at.line > 1 THEN cut \cup {at.event} ELSE cut
      BY <1>4 DEF StreamEOF
    <3> QED
      BY <1>0, <3>1, <3>2
  <2> QED
    BY <1>0, <1>r, <1>t, <2>1, <2>2
<1>5. CASE StreamBreaks
  BY <1>0, <1>5, <1>t DEF StreamBreaks, AfterStream, server
<1>6. CASE UNCHANGED vars
  BY <1>6 DEF vars, server, reader, TypeOK
<1> QED
  BY <1>1, <1>2, <1>3, <1>4, <1>5, <1>6 DEF Next

\* What was handed over stays so.
LEMMA StaysHanded ==
    ASSUME NEW x \in Nat, delivered \in Seq(Nat), delivered' \in {delivered, Append(delivered, x)},
           cut \subseteq cut'
    PROVE  /\ \A e : HandedOver(e) => HandedOver(e)'
           /\ delivered' = Append(delivered, x) => HandedOver(x)'
<1>1. DOMAIN delivered = 1..Len(delivered) /\ Len(delivered) \in Nat
  OBVIOUS
<1>2. CASE delivered' = delivered
  <2>1. \A e : HandedOver(e) => HandedOver(e)'
    BY <1>2 DEF HandedOver
  <2>2. delivered' = Append(delivered, x) => FALSE
    <3>1. Len(Append(delivered, x)) = Len(delivered) + 1
      OBVIOUS
    <3> QED
      BY <1>1, <1>2, <3>1
  <2> QED
    BY <2>1, <2>2
<1>3. CASE delivered' = Append(delivered, x)
  <2>1. /\ DOMAIN delivered' = 1..(Len(delivered) + 1) /\ delivered'[Len(delivered) + 1] = x
        /\ \A i \in DOMAIN delivered : delivered'[i] = delivered[i] /\ i \in DOMAIN delivered'
    BY <1>1, <1>3
  <2>2. Len(delivered) + 1 \in DOMAIN delivered'
    BY <1>1, <2>1
  <2> QED
    BY <2>1, <2>2 DEF HandedOver
<1> QED
  BY <1>2, <1>3

\* Nothing is passed that was not handed over.
LEMMA PassedStep ==
    ASSUME TypeOK, PlaceInv, CountInv, IdInv, PassedInv, delivered \in Seq(Nat), [Next]_vars
    PROVE  PassedInv'
<1>0. /\ cursor \in Nat /\ at.event \in Nat \ {0} /\ at.line \in Nat
      /\ status = "open" => cursor < at.event
      /\ \A e \in 1..cursor : HasData(e) => HandedOver(e)
  BY DEF TypeOK, PlaceInv, PassedInv, NoneSkipped, HandedOver
<1>a. ASSUME \A e \in 1..cursor' : HasData(e) => HandedOver(e)',
             status' = "open" => \A e \in 1..(at'.event - 1) : HasData(e) => HandedOver(e)'
      PROVE  PassedInv'
  BY <1>a DEF PassedInv, NoneSkipped, HandedOver, HasData, DataLines
<1>1. CASE Connect
  <2>1. at'.event - 1 = cursor /\ UNCHANGED <<cursor, delivered, cut>>
    BY <1>0, <1>1 DEF Connect
  <2> QED
    BY <1>0, <1>a, <2>1 DEF HandedOver
<1>2. CASE UNCHANGED <<cursor, delivered, cut, status, at>>
  BY <1>0, <1>2, <1>a DEF HandedOver, PassedInv
<1>3. CASE ReadLine
  <2>e. PICK e, l : e = at.event /\ l = at.line
    OBVIOUS
  <2>0. UNCHANGED <<status, cut>> /\ status = "open"
    BY <1>3, LineRead
  <2>1. CASE UNCHANGED <<cursor, delivered>> /\ at' = [event |-> e, line |-> l + 1]
    <3>1. at'.event = e
      BY <2>1
    <3> QED
      BY <2>e, <1>0, <1>a, <2>0, <2>1, <3>1 DEF HandedOver, PassedInv
  <2>2. CASE Boundary /\ l = Len(Lines[e]) /\ at' = [event |-> e + 1, line |-> 1]
    <3>1. /\ HasData(e) => cursor' = e /\ delivered' = Append(delivered, e)
          /\ ~HasData(e) => UNCHANGED <<cursor, delivered>>
      BY <2>e, <1>3, <2>2, Bounded
    <3>2. \A x : HandedOver(x) => HandedOver(x)'
      BY <2>e, <1>0, <2>0, <3>1, StaysHanded
    <3>3. HasData(e) => HandedOver(e)'
      BY <2>e, <1>0, <2>0, <3>1, StaysHanded
    <3>4. \A x \in 1..e : HasData(x) => HandedOver(x)'
      <4>1. \A x \in 1..e : x = e \/ x \in 1..(e - 1)
        BY <1>0, <2>e
      <4> QED
        BY <2>e, <2>0, <3>2, <3>3, <4>1 DEF PassedInv
    <3>5. 1..cursor' \subseteq 1..e /\ at'.event - 1 = e
      BY <2>e, <1>0, <2>0, <2>2, <3>1
    <3> QED
      BY <1>a, <3>4, <3>5
  <2> QED
    BY <1>3, <2>e, <2>1, <2>2, LineRead
<1>4. CASE StreamEOF
  <2>0. /\ Return /\ status = "open" /\ status' = "wait" /\ cut \subseteq cut'
        /\ at.line > 1 => at.event \in cut'
    BY <1>4 DEF StreamEOF, AfterStream
  <2>1. CASE UNCHANGED <<cursor, delivered>>
    BY <1>0, <1>a, <2>0, <2>1 DEF HandedOver
  <2>2. CASE /\ at.line > 1 /\ cursor' = Cursor(lastID)
             /\ delivered' \in {delivered, Append(delivered, at.event)}
    <3>1. \A x : HandedOver(x) => HandedOver(x)'
      BY <1>0, <2>0, <2>2, StaysHanded
    <3>2. \A x \in 1..cursor' : x \in 1..(at.event - 1) \/ x = at.event
      BY <1>0, <2>0, <2>2 DEF Cursor, IdInv
    <3>3. \A x : x = at.event => HandedOver(x)'
      BY <2>0, <2>2 DEF HandedOver
    <3> QED
      BY <1>a, <2>0, <3>1, <3>2, <3>3 DEF PassedInv
  <2> QED
    BY <2>0, <2>1, <2>2, Returned
<1>5. CASE StreamBreaks
  BY <1>0, <1>5, <1>a DEF StreamBreaks, AfterStream, HandedOver
<1> QED
  BY <1>1, <1>2, <1>3, <1>4, <1>5 DEF Next, Publish, vars, server, reader

\* The order of what was handed over.
LEMMA BehindStep ==
    ASSUME TypeOK, PlaceInv, CountInv, IdInv, BehindInv, delivered \in Seq(Nat), [Next]_vars
    PROVE  BehindInv'
<1>0. /\ cursor \in Nat /\ at.event \in Nat \ {0} /\ lastID \in Nat
      /\ status = "open" => cursor < at.event
      /\ DOMAIN delivered = 1..Len(delivered) /\ Len(delivered) \in Nat
      /\ \A i \in DOMAIN delivered : delivered[i] \in Nat
  BY DEF TypeOK, PlaceInv, IdInv
<1>1. CASE delivered' = delivered /\ cursor' = cursor /\ cut \subseteq cut'
  BY <1>1 DEF BehindInv, InOrderOnce
<1>a. ASSUME NEW e \in Nat, delivered' = Append(delivered, e), cut \subseteq cut', cursor' \in Nat,
             cursor <= cursor', cursor < e,
             e \in cut' \/ (cursor' = e /\ cut' = cut),
             e <= cursor' \/ e = cursor' + 1
      PROVE  BehindInv'
  <2>1. /\ DOMAIN delivered' = 1..(Len(delivered) + 1) /\ delivered'[Len(delivered) + 1] = e
        /\ \A i \in DOMAIN delivered : delivered'[i] = delivered[i]
    BY <1>0, <1>a
  <2>2. \A i \in DOMAIN delivered' : i \in DOMAIN delivered \/ i = Len(delivered) + 1
    BY <1>0, <2>1
  <2>3. ASSUME NEW i \in DOMAIN delivered
        PROVE  /\ delivered[i] < e \/ (delivered[i] = e /\ e \in cut)
               /\ delivered[i] <= cursor' \/ (delivered[i] = cursor' + 1 /\ delivered[i] \in cut')
    <3>1. delivered[i] \in Nat
      BY <1>0, <2>3
    <3>2. delivered[i] <= cursor \/ (delivered[i] = cursor + 1 /\ delivered[i] \in cut)
      BY <2>3 DEF BehindInv
    <3> QED
      BY SMTT(20), <1>0, <1>a, <3>1, <3>2
  <2>4. ASSUME NEW i \in DOMAIN delivered', NEW j \in DOMAIN delivered', i < j
        PROVE  delivered'[i] < delivered'[j] \/ delivered'[j] \in cut'
    <3>1. CASE j \in DOMAIN delivered
      <4>1. i \in DOMAIN delivered
        BY <1>0, <2>2, <2>4, <3>1
      <4> QED
        BY <1>a, <2>1, <2>4, <3>1, <4>1 DEF BehindInv, InOrderOnce
    <3>2. CASE j = Len(delivered) + 1
      <4>1. i \in DOMAIN delivered
        BY <1>0, <2>1, <2>4, <3>2
      <4> QED
        BY <1>a, <2>1, <2>3, <3>2, <4>1
    <3> QED
      BY <2>2, <2>4, <3>1, <3>2
  <2>5. ASSUME NEW i \in DOMAIN delivered'
        PROVE  delivered'[i] <= cursor' \/ (delivered'[i] = cursor' + 1 /\ delivered'[i] \in cut')
    <3>1. CASE i \in DOMAIN delivered
      BY <2>1, <2>3, <3>1
    <3>2. CASE i = Len(delivered) + 1
      <4>1. e <= cursor' \/ (e = cursor' + 1 /\ e \in cut')
        <5>1. e <= e
          OBVIOUS
        <5>2. CASE cursor' = e
          BY <5>1, <5>2
        <5>3. CASE e \in cut'
          BY <1>a, <5>3
        <5> QED
          BY <1>a, <5>2, <5>3
      <4> QED
        BY <2>1, <3>2, <4>1
    <3> QED
      BY <2>2, <2>5, <3>1, <3>2
  <2> QED
    BY <2>4, <2>5 DEF BehindInv, InOrderOnce
<1>2. CASE ReadLine
  <2> DEFINE e == at.event
             l == at.line
  <2>0. UNCHANGED cut /\ status = "open"
    BY <1>2, LineRead
  <2>1. CASE Boundary /\ l = Len(Lines[e])
    <3>1. /\ HasData(e) => cursor' = e /\ delivered' = Append(delivered, e)
          /\ ~HasData(e) => UNCHANGED <<cursor, delivered>>
      BY <1>2, <2>1, Bounded
    <3>2. CASE HasData(e)
      BY <1>0, <1>a, <2>0, <3>1, <3>2
    <3> QED
      BY <1>1, <2>0, <3>1, <3>2
  <2>2. CASE UNCHANGED <<cursor, delivered>>
    BY <1>1, <2>0, <2>2
  <2> QED
    BY <1>2, <2>1, <2>2, LineRead
<1>3. CASE StreamEOF
  <2>0. /\ Return /\ status = "open" /\ cut \subseteq cut'
        /\ at.line > 1 => at.event \in cut'
    BY <1>3 DEF StreamEOF
  <2>1. CASE /\ at.line > 1 /\ cursor' = Cursor(lastID)
             /\ delivered' \in {delivered, Append(delivered, at.event)}
    <3>1. /\ cursor' \in Nat /\ cursor <= cursor'
          /\ at.event <= cursor' \/ at.event = cursor' + 1
      BY <1>0, <2>0, <2>1 DEF Cursor, IdInv
    <3>2. CASE delivered' = Append(delivered, at.event)
      BY <1>0, <1>a, <2>0, <2>1, <3>1, <3>2
    <3>3. CASE delivered' = delivered
      <4>1. ASSUME NEW i \in DOMAIN delivered
            PROVE  delivered[i] <= cursor' \/ (delivered[i] = cursor' + 1 /\ delivered[i] \in cut')
        <5>1. delivered[i] \in Nat
          BY <1>0, <4>1
        <5>2. delivered[i] <= cursor \/ (delivered[i] = cursor + 1 /\ delivered[i] \in cut)
          BY <4>1 DEF BehindInv
        <5> QED
          BY <1>0, <2>0, <3>1, <5>1, <5>2
      <4> QED
        BY <2>0, <3>3, <4>1 DEF BehindInv, InOrderOnce
    <3> QED
      BY <2>1, <3>2, <3>3
  <2> QED
    BY <1>1, <2>0, <2>1, Returned
<1> QED
  BY <1>1, <1>2, <1>3 DEF Next, Connect, Publish, StreamBreaks, vars

-----------------------------------------------------------------------------
(* The theorems.                                                           *)

\* IInv is inductive.
THEOREM Invariance == Spec => []IInv
<1>1. Init => IInv
  <2> SUFFICES ASSUME Init PROVE IInv
    OBVIOUS
  <2>1. /\ Len(Lines) \in Nat /\ MaxEnds \in Nat
        /\ \A e \in Events : Len(Lines[e]) \in Nat \ {0}
    BY LinesAssumption, EventLines
  <2>2. delivered = <<>> /\ DOMAIN delivered = {} /\ delivered \in Seq(Nat)
    BY DEF Init
  <2>3. TypeOK
    BY <2>1, <2>2 DEF Init, TypeOK
  <2>4. PlaceInv /\ CountInv /\ IdInv
    BY <2>1 DEF Init, PlaceInv, CountInv, IdInv
  <2>5. PassedInv /\ BehindInv
    BY <2>2 DEF Init, PassedInv, NoneSkipped, BehindInv, InOrderOnce
  <2> QED
    BY <2>2, <2>3, <2>4, <2>5 DEF IInv
<1>2. IInv /\ [Next]_vars => IInv'
  BY TypeStep, PlaceStep, CountStep, IdStep, PassedStep, BehindStep DEF IInv
<1> QED
  BY <1>1, <1>2, PTL DEF Spec

\* Every variable has its type.
THEOREM TypeCorrect == Spec => []TypeOK
<1>1. IInv => TypeOK
  BY DEF IInv
<1> QED
  BY <1>1, Invariance, PTL

\* The cursor passes nothing that would have to be sent again (listenOnce).
THEOREM CursorSkipsNothing == Spec => []NoneSkipped
<1>1. IInv => NoneSkipped
  BY DEF IInv, PassedInv
<1> QED
  BY <1>1, Invariance, PTL

\* Across any number of reconnects, events come once and in order (Listen).
THEOREM DeliveredInOrder == Spec => []InOrderOnce
<1>1. IInv => InOrderOnce
  BY DEF IInv, BehindInv
<1> QED
  BY <1>1, Invariance, PTL

=============================================================================

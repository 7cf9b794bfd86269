---------------------------- MODULE MCEventStream ----------------------------
(* TLC instances of EventStream.                                           *)
EXTENDS EventStream, TLC

\* An event in one line, one of id alone, one in two lines with a comment and
\* its id at the end, and one that begins with its id.
FourEvents == <<
    <<"id", "data", "blank">>,
    <<"other", "id", "blank">>,
    <<"data", "other", "data", "id", "blank">>,
    <<"id", "data", "data", "blank">> >>
=============================================================================

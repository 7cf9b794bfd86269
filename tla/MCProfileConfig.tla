--------------------------- MODULE MCProfileConfig ---------------------------
(* TLC instances of ProfileConfig.                                         *)
EXTENDS ProfileConfig, SequencesExt, TLC

CONSTANTS c1, c2, a, b, keep, none

TwoCommands == {c1, c2}
TwoNames == {a, b}
ThreeProfiles == {a, b, keep}
AllFaults == FaultKinds

U1 == "https://one"
U2 == "https://two"
TwoURLs == {U1, U2}

\* Hand-written files: none yet; one with notes, another tool's table, headers
\* and a foreign profile; one that gives a profile in a dotted key.
NoFile == <<>>
Annotated == <<Comment, Section(a, U1), Comment, Keys, Blank, Headers(a), Blank,
               Comment, Section(keep, U2), Blank, Table, Keys, Comment>>
Dotted == <<Inline(b, U1), Blank, Section(a, U2), Comment>>
HandWritten == {NoFile, Annotated, Dotted}

\* No client config, a broken one, one with servers of others and of ours.
Foreign == [n \in {keep} |-> none]
Ours == [n \in {a, b, keep} |-> IF n = b THEN a ELSE none]
ClientFiles == {JSON("none", NoServers), JSON("broken", NoServers),
                JSON("whole", Foreign), JSON("whole", Ours)}

\* Every document of up to SampleLen lines.
SampleLen == 4
SampleLines == {Blank, Comment, Keys, Table, Section(a, U1), Headers(a),
                Section(b, U2), Headers(b)}
AllSamples == {doc \in BoundedSeq(SampleLines, SampleLen) : Parses(doc)}

CommandSymmetry == Permutations(TwoCommands)
=============================================================================

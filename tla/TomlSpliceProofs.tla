-------------------------- MODULE TomlSpliceProofs --------------------------
(***************************************************************************)
(* Lemmas about the editor of TomlSplice, for the documents and profiles   *)
(* of ProfileConfig: where a block starts and ends (FirstLineProps to      *)
(* RestStartProps, from MinOf and MaxOf), which line of the result is      *)
(* which line of the document or the block (Spliced), and what follows.    *)
(***************************************************************************)
EXTENDS ProfileConfig, SequenceTheorems, FiniteSetTheorems, TLAPS

-----------------------------------------------------------------------------
(* The editor: where a block starts and ends.                              *)

\* A set of line numbers has a first one ...
LEMMA MinOf ==
    ASSUME NEW S, S \subseteq Nat, S # {}
    PROVE  Min(S) \in S /\ \A x \in S : Min(S) <= x
<1> DEFINE T == {1..x : x \in S}
           R == StrictSubsetOrdering(Nat)
<1>1. T \subseteq FiniteSubsetsOf(Nat)
  <2>1. \A x \in S : 1..x \subseteq Nat /\ IsFiniteSet(1..x)
    BY FS_Interval
  <2>2. QED
    BY <2>1 DEF FiniteSubsetsOf
<1>2. PICK X \in T : \A Y \in T : ~(<<Y, X>> \in R)
  <2>1. T # {}
    OBVIOUS
  <2>2. IsWellFoundedOn(R, FiniteSubsetsOf(Nat))
    BY FS_StrictSubsetOrderingWellFounded
  <2> HIDE DEF T, R
  <2>3. QED
    BY <1>1, <2>1, <2>2, WFMin
<1>3. PICK x \in S : X = 1..x
  OBVIOUS
<1>4. ASSUME NEW y \in S, ~(x <= y) PROVE FALSE
  <2>1. x \in Nat /\ y \in Nat /\ y < x
    BY <1>4
  <2>2. 1..y \subseteq 1..x /\ x \in 1..x /\ x \notin 1..y
    BY <2>1
  <2>3. 1..y \subseteq Nat /\ 1..x \subseteq Nat
    OBVIOUS
  <2>4. <<1..y, X>> \in R
    BY <1>3, <2>2, <2>3 DEF StrictSubsetOrdering
  <2>5. QED
    BY <1>2, <2>4
<1>5. QED
  BY <1>4 DEF Min

\* ... and a last one when they are the lines of a document.
LEMMA MaxOf ==
    ASSUME NEW n \in Nat, NEW S, S \subseteq 0..n, S # {}
    PROVE  Max(S) \in S /\ \A x \in S : x <= Max(S)
<1> DEFINE T == {n - x : x \in S}
<1>1. T \subseteq Nat /\ T # {}
  <2>1. \A x \in S : n - x \in Nat
    OBVIOUS
  <2>2. QED
    BY <2>1
<1>2. Min(T) \in T /\ \A y \in T : Min(T) <= y
  BY <1>1, MinOf
<1>3. PICK x \in S : Min(T) = n - x
  BY <1>2
<1>4. \A y \in S : n - x <= n - y
  BY <1>2, <1>3
<1>5. \A y \in S : x >= y
  BY <1>4
<1>6. QED
  BY <1>5 DEF Max

LEMMA FirstLineProps ==
    ASSUME NEW doc \in DocType, NEW p, HasSection(doc, p)
    PROVE  /\ FirstLine(doc, p) \in 1..Len(doc)
           /\ profileSection(doc[FirstLine(doc, p)], p)
           /\ \A i \in 1..(FirstLine(doc, p) - 1) : ~profileSection(doc[i], p)
<1> DEFINE S == {i \in DOMAIN doc : profileSection(doc[i], p)}
<1>1. DOMAIN doc = 1..Len(doc) /\ Len(doc) \in Nat
  BY LenProperties DEF DocType
<1>2. S \subseteq Nat /\ S # {}
  BY <1>1 DEF HasSection
<1>3. Min(S) \in S /\ \A x \in S : Min(S) <= x
  BY <1>2, MinOf
<1>4. FirstLine(doc, p) = Min(S)
  BY DEF FirstLine
<1> DEFINE F == Min(S)
<1>5. F \in 1..Len(doc) /\ profileSection(doc[F], p)
  BY <1>1, <1>3
<1>6. \A i \in 1..(F - 1) : ~profileSection(doc[i], p)
  <2>1. ASSUME NEW i \in 1..(F - 1), profileSection(doc[i], p) PROVE FALSE
    <3>1. i \in S
      BY <1>1, <1>5, <2>1
    <3>2. F <= i
      BY <1>3, <3>1
    <3>3. QED
      BY <1>5, <2>1, <3>2
  <2>2. QED
    BY <2>1
<1>7. QED
  BY <1>4, <1>5, <1>6

LEMMA BlockStartProps ==
    ASSUME NEW doc \in DocType, NEW p, HasSection(doc, p)
    PROVE  /\ BlockStart(doc, p) \in 1..FirstLine(doc, p)
           /\ \A j \in BlockStart(doc, p)..(FirstLine(doc, p) - 1) : blankLine(doc[j])
           /\ \A i \in 1..FirstLine(doc, p) :
                (\A j \in i..(FirstLine(doc, p) - 1) : blankLine(doc[j])) => BlockStart(doc, p) <= i
<1> DEFINE F == FirstLine(doc, p)
           S == {i \in 1..F : \A j \in i..(F - 1) : blankLine(doc[j])}
<1>1. F \in Nat /\ F >= 1
  BY FirstLineProps
<1> HIDE DEF F
<1>2. F \in S
  BY <1>1
<1>3. S \subseteq Nat
  BY <1>1
<1>4. Min(S) \in S /\ \A x \in S : Min(S) <= x
  BY <1>2, <1>3, MinOf
<1>5. BlockStart(doc, p) = Min(S)
  BY DEF BlockStart, F
<1> HIDE DEF S
<1>6. /\ BlockStart(doc, p) \in 1..F
      /\ \A j \in BlockStart(doc, p)..(F - 1) : blankLine(doc[j])
      /\ \A i \in 1..F : (\A j \in i..(F - 1) : blankLine(doc[j])) => BlockStart(doc, p) <= i
  BY <1>4, <1>5 DEF S
<1>7. QED
  BY <1>6 DEF F

LEMMA NextTableProps ==
    ASSUME NEW doc \in DocType, NEW p, HasSection(doc, p)
    PROVE  /\ NextTable(doc, p) \in (FirstLine(doc, p) + 1)..(Len(doc) + 1)
           /\ NextTable(doc, p) <= Len(doc) =>
                /\ isTable(doc[NextTable(doc, p)])
                /\ ~profileSection(doc[NextTable(doc, p)], p)
           /\ \A i \in FirstLine(doc, p)..(NextTable(doc, p) - 1) :
                isTable(doc[i]) => profileSection(doc[i], p)
<1> DEFINE F == FirstLine(doc, p)
           L == Len(doc)
           S == {i \in F..L : isTable(doc[i]) /\ ~profileSection(doc[i], p)} \cup {L + 1}
<1>1. F \in 1..L /\ profileSection(doc[F], p) /\ L \in Nat
  BY FirstLineProps, LenProperties DEF DocType
<1> HIDE DEF F, L
<1>2. S \subseteq Nat /\ S # {}
  BY <1>1
<1>3. Min(S) \in S /\ \A x \in S : Min(S) <= x
  BY <1>2, MinOf
<1>4. NextTable(doc, p) = Min(S)
  BY DEF NextTable, F, L
<1> DEFINE N == Min(S)
<1>5. N # F
  BY <1>1, <1>3
<1>6. /\ N \in (F + 1)..(L + 1)
      /\ N <= L => isTable(doc[N]) /\ ~profileSection(doc[N], p)
      /\ \A i \in F..(N - 1) : isTable(doc[i]) => profileSection(doc[i], p)
  BY <1>1, <1>3, <1>5
<1>7. QED
  BY <1>4, <1>6 DEF F, L

LEMMA BlockEndProps ==
    ASSUME NEW doc \in DocType, NEW p, HasSection(doc, p)
    PROVE  /\ BlockEnd(doc, p) \in (FirstLine(doc, p) + 1)..NextTable(doc, p)
           /\ \A j \in BlockEnd(doc, p)..(NextTable(doc, p) - 1) :
                blankLine(doc[j]) \/ commentLine(doc[j])
           /\ \A i \in (FirstLine(doc, p) + 1)..NextTable(doc, p) :
                (\A j \in i..(NextTable(doc, p) - 1) : blankLine(doc[j]) \/ commentLine(doc[j]))
                    => BlockEnd(doc, p) <= i
<1> DEFINE F == FirstLine(doc, p)
           N == NextTable(doc, p)
           S == {i \in (F + 1)..N :
                   \A j \in i..(N - 1) : blankLine(doc[j]) \/ commentLine(doc[j])}
<1>1. F \in Nat /\ N \in Nat /\ F + 1 <= N
  BY FirstLineProps, NextTableProps, LenProperties DEF DocType
<1> HIDE DEF F, N
<1>2. S \subseteq Nat /\ N \in S
  BY <1>1
<1>3. Min(S) \in S /\ \A x \in S : Min(S) <= x
  BY <1>2, MinOf
<1>4. BlockEnd(doc, p) = Min(S)
  BY DEF BlockEnd, F, N
<1>5. /\ BlockEnd(doc, p) \in (F + 1)..N
      /\ \A j \in BlockEnd(doc, p)..(N - 1) : blankLine(doc[j]) \/ commentLine(doc[j])
      /\ \A i \in (F + 1)..N :
           (\A j \in i..(N - 1) : blankLine(doc[j]) \/ commentLine(doc[j])) => BlockEnd(doc, p) <= i
  BY <1>3, <1>4
<1>6. QED
  BY <1>5 DEF F, N

LEMMA RestStartProps ==
    ASSUME NEW doc \in DocType, NEW p, NEW block, HasSection(doc, p)
    PROVE  /\ RestStart(doc, p, block) \in BlockEnd(doc, p)..(Len(doc) + 1)
           /\ \A j \in BlockEnd(doc, p)..(RestStart(doc, p, block) - 1) : blankLine(doc[j])
<1> DEFINE E == BlockEnd(doc, p)
           L == Len(doc)
           S == {i \in E..(L + 1) : \A j \in E..(i - 1) : blankLine(doc[j])}
<1>1. E \in Nat /\ L \in Nat /\ E <= L + 1
  BY FirstLineProps, NextTableProps, BlockEndProps, LenProperties DEF DocType
<1> HIDE DEF E, L
<1>2. S \subseteq 0..(L + 1) /\ E \in S
  BY <1>1
<1>3. Max(S) \in S
  <2>1. L + 1 \in Nat /\ S # {}
    BY <1>1, <1>2
  <2>2. QED
    BY <1>2, <2>1, MaxOf
<1>4. RestStart(doc, p, block) \in {Max(S), E}
  BY DEF RestStart, E, L
<1>5. RestStart(doc, p, block) \in S
  BY <1>2, <1>3, <1>4
<1> HIDE DEF S
<1>6. RestStart(doc, p, block) \in E..(L + 1) /\ \A j \in E..(RestStart(doc, p, block) - 1) : blankLine(doc[j])
  BY <1>5 DEF S
<1>7. QED
  BY <1>6 DEF E, L

\* Editing a block gives a document.
LEMMA SpliceType ==
    ASSUME NEW doc \in DocType, NEW p, NEW block \in DocType, HasSection(doc, p)
    PROVE  spliceProfileBlock(doc, p, block) \in DocType
<1> DEFINE B == BlockStart(doc, p)
           R == RestStart(doc, p, block)
           L == Len(doc)
<1>1. L \in Nat /\ \A i \in 1..L : doc[i] \in LineType
  BY ElementOfSeq, LenProperties DEF DocType
<1>2. B \in 1..L /\ R \in 1..(L + 1)
  BY <1>1, FirstLineProps, BlockStartProps, NextTableProps, BlockEndProps, RestStartProps
<1> HIDE DEF B, R, L
<1>3. SubSeq(doc, 1, B - 1) \in Seq(LineType)
  BY <1>1, <1>2, SubSeqProperties
<1>4. SubSeq(doc, R, L) \in Seq(LineType)
  BY <1>1, <1>2, SubSeqProperties
<1>5. QED
  BY <1>3, <1>4, ConcatProperties DEF spliceProfileBlock, DocType, B, R, L

-----------------------------------------------------------------------------
(* Blocks.                                                                 *)

LEMMA TwoLines ==
    ASSUME NEW line \in LineType, NEW next \in LineType
    PROVE  <<line, next>> \in DocType
<1>1. \A S, a, b : a \in S /\ b \in S => <<a, b>> \in Seq(S)
  OBVIOUS
<1>2. QED
  BY <1>1 DEF DocType

\* What install writes for a profile.
LEMMA BlockType ==
    ASSUME NEW p \in Profiles, NEW prof \in ProfType
    PROVE  Block(p, prof) \in DocType
<1>1. /\ Line("blank", NoProfile, "") \in LineType
      /\ Line("section", p, prof.url) \in LineType
      /\ Line("headers", p, "") \in LineType
  BY ConfigAssumption DEF Line, LineType, LineKinds, Naming, Named, ProfType
<1>2. <<Blank, Section(p, prof.url)>> \in DocType
  BY <1>1, TwoLines DEF Blank, Section
<1>3. <<Blank, Headers(p)>> \in DocType /\ <<>> \in DocType
  BY <1>1, TwoLines, EmptySeq DEF Blank, Headers, DocType
<1>4. QED
  BY <1>2, <1>3, ConcatProperties DEF Block, DocType

LEMMA TornType ==
    ASSUME NEW p \in Profiles
    PROVE  <<Blank, Torn(p)>> \in DocType
<1>1. Line("blank", NoProfile, "") \in LineType /\ Line("torn", p, "") \in LineType
  BY ConfigAssumption DEF Line, LineType, LineKinds, Naming, Named
<1>2. QED
  BY <1>1, TwoLines DEF Blank, Torn

\* blank one, the section, and none that is a table of anything else; the last
\* one is a table.
Blocky(block, p) ==
    /\ block \in DocType /\ Len(block) >= 2
    /\ blankLine(block[1]) /\ profileSection(block[2], p)
    /\ isTable(block[Len(block)])
    /\ \A i \in 1..Len(block) : isTable(block[i]) => profileSection(block[i], p)

LEMMA LinesOfBlock ==
    ASSUME NEW p, NEW u
    PROVE  /\ blankLine(Blank) /\ ~isTable(Blank)
           /\ isTable(Section(p, u)) /\ profileSection(Section(p, u), p)
           /\ isTable(Headers(p)) /\ profileSection(Headers(p), p)
BY DEF Blank, Section, Headers, Line, blankLine, isTable, profileSection

\* Two pairs of lines, one after the other.
LEMMA TwoAndTwo ==
    ASSUME NEW S, NEW s \in Seq(S), NEW t \in Seq(S), Len(s) = 2, Len(t) = 2
    PROVE  /\ Len(s \o t) = 4
           /\ \A i \in 1..2 : (s \o t)[i] = s[i]
           /\ \A i \in 1..2 : (s \o t)[2 + i] = t[i]
<1>1. /\ Len(s \o t) = Len(s) + Len(t)
      /\ \A i \in 1..Len(s) + Len(t) : (s \o t)[i] = IF i <= Len(s) THEN s[i] ELSE t[i - Len(s)]
  BY ConcatProperties
<1>2. /\ Len(s \o t) = 4
      /\ \A i \in 1..4 : (s \o t)[i] = IF i <= 2 THEN s[i] ELSE t[i - 2]
  BY <1>1
<1>3. (s \o t)[1] = s[1] /\ (s \o t)[2] = s[2]
  BY <1>2
<1>4. (s \o t)[2 + 1] = t[1] /\ (s \o t)[2 + 2] = t[2]
  BY <1>2
<1>5. QED
  BY <1>2, <1>3, <1>4

LEMMA BlockLines ==
    ASSUME NEW p \in Profiles, NEW prof \in ProfType
    PROVE  /\ Blocky(Block(p, prof), p)
           /\ Block(p, prof)[1] = Blank /\ Block(p, prof)[2] = Section(p, prof.url)
           /\ prof.headers => /\ Len(Block(p, prof)) = 4
                              /\ Block(p, prof)[3] = Blank /\ Block(p, prof)[4] = Headers(p)
           /\ ~prof.headers => Len(Block(p, prof)) = 2
<1> DEFINE block == Block(p, prof)
           one == <<Blank, Section(p, prof.url)>>
           two == <<Blank, Headers(p)>>
<1>1. block \in DocType
  BY BlockType
<1>2. CASE prof.headers
  <2>1. block = one \o two
    BY <1>2 DEF Block
  <2>2. one \in Seq({one[1], one[2]}) /\ two \in Seq({two[1], two[2]})
    OBVIOUS
  <2>3. /\ Len(one) = 2 /\ one[1] = Blank /\ one[2] = Section(p, prof.url)
        /\ Len(two) = 2 /\ two[1] = Blank /\ two[2] = Headers(p)
    OBVIOUS
  <2> DEFINE S == {one[1], one[2], two[1], two[2]}
  <2>4. one \in Seq(S) /\ two \in Seq(S)
    OBVIOUS
  <2> HIDE DEF one, two, block, S
  <2>5. /\ Len(block) = 4 /\ block[1] = Blank /\ block[2] = Section(p, prof.url)
        /\ block[3] = Blank /\ block[4] = Headers(p)
    <3>1. /\ Len(one \o two) = 4
          /\ \A i \in 1..2 : (one \o two)[i] = one[i]
          /\ \A i \in 1..2 : (one \o two)[2 + i] = two[i]
      <4>1. Len(one) = 2 /\ Len(two) = 2
        BY <2>3
      <4>2. QED
        BY <2>4, <4>1, TwoAndTwo
    <3>2. (one \o two)[2 + 1] = two[1] /\ (one \o two)[2 + 2] = two[2]
      BY <3>1
    <3>3. QED
      BY <2>1, <2>3, <3>1, <3>2
  <2>6. Blocky(block, p)
    <3>1. \A i \in 1..4 : i \in {1, 2, 3, 4}
      OBVIOUS
    <3>2. \A i \in 1..4 : isTable(block[i]) => profileSection(block[i], p)
      BY <2>5, <3>1, LinesOfBlock
    <3>3. QED
      BY <1>1, <2>5, <3>2, LinesOfBlock DEF Blocky, block
  <2>7. QED
    BY <1>2, <2>5, <2>6 DEF block
<1>3. CASE ~prof.headers
  <2>1. block = one \o <<>>
    BY <1>3 DEF Block
  <2>2. one \o <<>> = one
    OBVIOUS
  <2>3. Len(one) = 2 /\ one[1] = Blank /\ one[2] = Section(p, prof.url)
    OBVIOUS
  <2> HIDE DEF one, two, block
  <2>4. Len(block) = 2 /\ block[1] = Blank /\ block[2] = Section(p, prof.url)
    BY <2>1, <2>2, <2>3
  <2>5. Blocky(block, p)
    <3>1. \A i \in 1..2 : i \in {1, 2}
      OBVIOUS
    <3>2. \A i \in 1..2 : isTable(block[i]) => profileSection(block[i], p)
      BY <2>4, <3>1, LinesOfBlock
    <3>3. QED
      BY <1>1, <2>4, <3>2, LinesOfBlock DEF Blocky, block
  <2>6. QED
    BY <1>3, <2>4, <2>5 DEF block
<1>4. QED
  BY <1>2, <1>3

\* Appending a profile and dropping it leaves what was there up to blank lines.
LEMMA AppendUndone ==
    ASSUME NEW doc \in DocType, NEW p, NEW block, Blocky(block, p), ~HasSection(doc, p)
    PROVE  \E n \in 0..Len(doc) :
             /\ spliceProfileBlock(doc \o block, p, <<>>) = SubSeq(doc, 1, n)
             /\ \A i \in (n + 1)..Len(doc) : blankLine(doc[i])
<1> DEFINE n == Len(doc)
           K == Len(block)
           out == doc \o block
           L == Len(out)
           F == FirstLine(out, p)
           B == BlockStart(out, p)
           N == NextTable(out, p)
           E == BlockEnd(out, p)
           R == RestStart(out, p, <<>>)
<1>1. out \in DocType /\ n \in Nat /\ K \in Nat /\ K >= 2 /\ L = n + K
  BY ConcatProperties, LenProperties DEF Blocky, DocType
<1>2. /\ \A i \in 1..n : out[i] = doc[i]
      /\ \A i \in 1..K : out[n + i] = block[i]
  BY ConcatProperties DEF Blocky, DocType
<1>3. /\ DOMAIN doc = 1..n /\ DOMAIN out = 1..L
  BY <1>1, LenProperties DEF DocType
<1>4. /\ blankLine(out[n + 1]) /\ profileSection(out[n + 2], p) /\ isTable(out[L])
      /\ \A i \in (n + 1)..L : isTable(out[i]) => profileSection(out[i], p)
  <2>1. out[n + 1] = block[1] /\ out[n + 2] = block[2] /\ out[L] = block[K]
    BY <1>1, <1>2
  <2>2. ASSUME NEW i \in (n + 1)..L PROVE out[i] = block[i - n] /\ i - n \in 1..K
    <3>1. i - n \in 1..K /\ n + (i - n) = i
      BY <1>1
    <3>2. QED
      BY <1>2, <3>1
  <2>3. QED
    BY <2>1, <2>2 DEF Blocky
<1>5. \A i \in 1..n : ~profileSection(out[i], p)
  BY <1>2, <1>3 DEF HasSection
<1>6. HasSection(out, p)
  BY <1>1, <1>3, <1>4 DEF HasSection
<1>7. /\ F \in 1..L /\ profileSection(out[F], p)
      /\ \A i \in 1..(F - 1) : ~profileSection(out[i], p)
  BY <1>1, <1>6, FirstLineProps
<1>8. /\ B \in 1..F /\ \A j \in B..(F - 1) : blankLine(out[j])
      /\ \A i \in 1..F : (\A j \in i..(F - 1) : blankLine(out[j])) => B <= i
  BY <1>1, <1>6, BlockStartProps
<1>9. /\ N \in (F + 1)..(L + 1)
      /\ N <= L => isTable(out[N]) /\ ~profileSection(out[N], p)
  BY <1>1, <1>6, NextTableProps
<1>10. /\ E \in (F + 1)..N
       /\ \A j \in E..(N - 1) : blankLine(out[j]) \/ commentLine(out[j])
  BY <1>1, <1>6, BlockEndProps
<1>11. R \in E..(L + 1)
  BY <1>1, <1>6, RestStartProps
<1>12. spliceProfileBlock(out, p, <<>>) = SubSeq(out, 1, B - 1) \o SubSeq(out, R, L)
  <2>1. SubSeq(out, 1, B - 1) \in Seq(LineType)
    <3>1. /\ 1 \in Int /\ B - 1 \in Int
          /\ \A i \in 1..(B - 1) : i \in 1..L
      BY <1>1, <1>7, <1>8
    <3>2. \A i \in 1..L : out[i] \in LineType
      BY <1>1, ElementOfSeq DEF DocType
    <3>3. \A i \in 1..(B - 1) : out[i] \in LineType
      BY <3>1, <3>2
    <3>4. QED
      BY <3>1, <3>3, SubSeqProperties
  <2>2. SubSeq(out, 1, B - 1) \o <<>> = SubSeq(out, 1, B - 1)
    BY <2>1, ConcatEmptySeq
  <2>3. QED
    BY <2>2 DEF spliceProfileBlock
<1> HIDE DEF out, L, F, B, N, E, R, n, K
<1>13. F = n + 2
  <2>1. ~(F <= n)
    BY <1>1, <1>5, <1>7
  <2>2. F # n + 1
    BY <1>4, <1>7 DEF blankLine, profileSection, isTable
  <2>3. ~(n + 2 < F)
    BY <1>1, <1>4, <1>7
  <2>4. QED
    BY <1>1, <1>7, <2>1, <2>2, <2>3
<1>14. B <= n + 1
  <2>1. \A j \in (n + 1)..(F - 1) : blankLine(out[j])
    BY <1>1, <1>4, <1>13
  <2>2. QED
    BY <1>1, <1>8, <1>13, <2>1
<1>15. N = L + 1
  BY <1>1, <1>4, <1>9, <1>13
<1>16. E = L + 1
  <2>1. ~(blankLine(out[L]) \/ commentLine(out[L]))
    BY <1>4 DEF isTable, blankLine, commentLine
  <2>2. QED
    BY <1>1, <1>10, <1>13, <1>15, <2>1
<1>17. R = L + 1
  BY <1>1, <1>11, <1>16
<1>18. SubSeq(out, R, L) = <<>>
  BY <1>1, <1>17, SubSeqEmpty DEF DocType
<1>19. SubSeq(out, 1, B - 1) = SubSeq(doc, 1, B - 1)
  <2>1. B - 1 \in 0..n /\ B \in Nat
    BY <1>1, <1>8, <1>13, <1>14
  <2>2. QED
    BY <1>1, <1>2, <2>1, SubSeqProperties DEF n, L, DocType
<1>20. spliceProfileBlock(out, p, <<>>) = SubSeq(doc, 1, B - 1)
  <2>1. SubSeq(doc, 1, B - 1) \in Seq(LineType)
    BY <1>1, <1>8, <1>13, <1>14, ElementOfSeq, SubSeqProperties DEF n, DocType
  <2>2. QED
    BY <1>12, <1>18, <1>19, <2>1, ConcatEmptySeq
<1>21. \A i \in B..n : blankLine(doc[i])
  BY <1>1, <1>2, <1>8, <1>13
<1>22. B - 1 \in 0..n /\ (B - 1) + 1 = B
  BY <1>1, <1>8, <1>13, <1>14
<1>23. QED
  BY <1>20, <1>21, <1>22 DEF n, out

\* Two sequences in a row, line by line.
LEMMA Concatenated ==
    ASSUME NEW S, NEW s \in Seq(S), NEW t \in Seq(S)
    PROVE  /\ s \o t \in Seq(S) /\ Len(s \o t) = Len(s) + Len(t)
           /\ \A i \in 1..Len(s) : (s \o t)[i] = s[i]
           /\ \A i \in 1..Len(t) : (s \o t)[Len(s) + i] = t[i]
<1>1. Len(s) \in Nat /\ Len(t) \in Nat
  BY LenProperties
<1>2. /\ s \o t \in Seq(S) /\ Len(s \o t) = Len(s) + Len(t)
      /\ \A i \in 1..(Len(s) + Len(t)) :
           (s \o t)[i] = IF i <= Len(s) THEN s[i] ELSE t[i - Len(s)]
  BY ConcatProperties
<1>3. ASSUME NEW i \in 1..Len(s) PROVE (s \o t)[i] = s[i]
  BY <1>1, <1>2
<1>4. ASSUME NEW i \in 1..Len(t) PROVE (s \o t)[Len(s) + i] = t[i]
  <2>1. Len(s) + i \in 1..(Len(s) + Len(t)) /\ ~(Len(s) + i <= Len(s)) /\ Len(s) + i - Len(s) = i
    BY <1>1
  <2>2. QED
    BY <1>2, <2>1
<1>5. QED
  BY <1>2, <1>3, <1>4

\* A document after an edit, line by line: doc up to B, the K lines of the block,
\* and doc from E on.
SplicedAt(doc, block, out, B, E, K) ==
    /\ B \in 1..Len(doc) /\ E \in (B + 1)..(Len(doc) + 1)
    /\ K \in Nat /\ Len(doc) \in Nat
    /\ out \in DocType /\ Len(out) = Len(doc) + B + K - E
    /\ out = (SubSeq(doc, 1, B - 1) \o block) \o SubSeq(doc, E, Len(doc))
    /\ \A i \in 1..(B - 1) : out[i] = doc[i]
    /\ \A i \in 1..K : out[B - 1 + i] = block[i]
    /\ \A i \in E..Len(doc) : out[i + B + K - E] = doc[i]

LEMMA Spliced ==
    ASSUME NEW doc \in DocType, NEW p, NEW block \in DocType, HasSection(doc, p),
           NEW out, out = spliceProfileBlock(doc, p, block),
           NEW B, B = BlockStart(doc, p), NEW E, E = RestStart(doc, p, block),
           NEW K, K = Len(block)
    PROVE  SplicedAt(doc, block, out, B, E, K)
<1> DEFINE L == Len(doc)
           F == FirstLine(doc, p)
           N == NextTable(doc, p)
           pre == SubSeq(doc, 1, B - 1)
           post == SubSeq(doc, E, L)
<1>1. L \in Nat /\ K \in Nat /\ DOMAIN doc = 1..L /\ \A i \in 1..L : doc[i] \in LineType
  BY ElementOfSeq, LenProperties DEF DocType
<1>2. F \in 1..L /\ B \in 1..F /\ N \in (F + 1)..(L + 1) /\ E \in (F + 1)..(L + 1)
  <2>1. /\ F \in 1..L /\ B \in 1..F /\ N \in (F + 1)..(L + 1)
        /\ BlockEnd(doc, p) \in (F + 1)..N /\ E \in BlockEnd(doc, p)..(L + 1)
    BY FirstLineProps, BlockStartProps, NextTableProps, BlockEndProps, RestStartProps
  <2> HIDE DEF F, N, L
  <2>2. QED
    BY <1>1, <2>1
<1> HIDE DEF F, N, L
<1>3. B \in 1..L /\ E \in (B + 1)..(L + 1)
  BY <1>1, <1>2
<1>5. out = (pre \o block) \o post
  BY DEF spliceProfileBlock, L
<1>6. /\ pre \in Seq(LineType) /\ Len(pre) = B - 1
      /\ \A i \in 1..(B - 1) : pre[i] = doc[i]
  <2>1. 1 \in Int /\ B - 1 \in Int /\ \A i \in 1..(B - 1) : doc[i] \in LineType
    BY <1>1, <1>3
  <2>2. pre \in Seq(LineType)
        /\ Len(pre) = (IF 1 <= B - 1 THEN (B - 1) - 1 + 1 ELSE 0)
        /\ \A i \in 1..((B - 1) - 1 + 1) : pre[i] = doc[1 + i - 1]
    BY <2>1, SubSeqProperties
  <2>3. QED
    BY <1>3, <2>2
<1>7. /\ post \in Seq(LineType) /\ Len(post) = L + 1 - E
      /\ \A i \in 1..(L + 1 - E) : post[i] = doc[E + i - 1]
  <2>1. E \in Int /\ L \in Int /\ \A i \in E..L : doc[i] \in LineType
    BY <1>1, <1>3
  <2>2. post \in Seq(LineType)
        /\ Len(post) = (IF E <= L THEN L - E + 1 ELSE 0)
        /\ \A i \in 1..(L - E + 1) : post[i] = doc[E + i - 1]
    BY <2>1, SubSeqProperties
  <2>3. QED
    BY <1>1, <1>3, <2>2
<1> HIDE DEF pre, post
<1>8. block \in Seq(LineType)
  BY DEF DocType
<1> DEFINE left == pre \o block
<1>9. /\ left \in Seq(LineType) /\ Len(left) = B - 1 + K
      /\ \A i \in 1..(B - 1) : left[i] = pre[i]
      /\ \A i \in 1..K : left[B - 1 + i] = block[i]
  <2>1. /\ left \in Seq(LineType) /\ Len(left) = Len(pre) + Len(block)
        /\ \A i \in 1..Len(pre) : left[i] = pre[i]
        /\ \A i \in 1..Len(block) : left[Len(pre) + i] = block[i]
    <3>1. pre \in Seq(LineType)
      BY <1>6
    <3>2. QED
      BY <1>8, <3>1, Concatenated
  <2>2. QED
    BY <1>6, <2>1
<1> HIDE DEF left
<1>10. /\ out \in Seq(LineType) /\ Len(out) = B - 1 + K + (L + 1 - E)
       /\ \A i \in 1..(B - 1 + K) : out[i] = left[i]
       /\ \A i \in 1..(L + 1 - E) : out[B - 1 + K + i] = post[i]
  <2>1. out = left \o post
    BY <1>5 DEF left
  <2>2. QED
    <3>1. /\ out \in Seq(LineType) /\ Len(out) = Len(left) + Len(post)
          /\ \A i \in 1..Len(left) : out[i] = left[i]
          /\ \A i \in 1..Len(post) : out[Len(left) + i] = post[i]
      <4>1. left \in Seq(LineType) /\ post \in Seq(LineType)
        BY <1>7, <1>9
      <4>2. QED
        BY <2>1, <4>1, Concatenated
    <3>2. QED
      BY <1>7, <1>9, <3>1
<1>11. Len(out) = L + B + K - E
  BY <1>1, <1>3, <1>10
<1>12. \A i \in 1..(B - 1) : out[i] = doc[i]
  <2>1. ASSUME NEW i \in 1..(B - 1) PROVE out[i] = doc[i]
    <3>1. i \in 1..(B - 1 + K)
      BY <1>1, <1>3
    <3>2. QED
      BY <1>6, <1>9, <1>10, <3>1
  <2>2. QED
    BY <2>1
<1>13. \A i \in 1..K : out[B - 1 + i] = block[i]
  <2>1. ASSUME NEW i \in 1..K PROVE out[B - 1 + i] = block[i]
    <3>1. B - 1 + i \in 1..(B - 1 + K)
      BY <1>1, <1>3
    <3>2. QED
      BY <1>9, <1>10, <3>1
  <2>2. QED
    BY <2>1
<1>14. \A i \in E..L : out[i + B + K - E] = doc[i]
  <2>1. ASSUME NEW i \in E..L PROVE out[i + B + K - E] = doc[i]
    <3>1. /\ i - E + 1 \in 1..(L + 1 - E)
          /\ B - 1 + K + (i - E + 1) = i + B + K - E
          /\ E + (i - E + 1) - 1 = i
      <4>1. i \in Int /\ E <= i /\ i <= L /\ E \in Int /\ B \in Int /\ K \in Int /\ L \in Int
        BY <1>1, <1>3
      <4>2. QED
        BY <4>1
    <3>2. out[B - 1 + K + (i - E + 1)] = post[i - E + 1] /\ post[i - E + 1] = doc[E + (i - E + 1) - 1]
      BY <1>7, <1>10, <3>1
    <3>3. QED
      BY <3>1, <3>2
  <2>2. QED
    BY <2>1
<1>15. QED
  BY <1>1, <1>3, <1>5, <1>10, <1>11, <1>12, <1>13, <1>14 DEF L, pre, post, DocType, SplicedAt

\* With a new block the old one is replaced from its start to its end.
LEMMA SplicedBlock ==
    ASSUME NEW doc \in DocType, NEW p, NEW block, Blocky(block, p), HasSection(doc, p),
           NEW out, out = spliceProfileBlock(doc, p, block),
           NEW B, B = BlockStart(doc, p), NEW E, E = BlockEnd(doc, p),
           NEW K, K = Len(block)
    PROVE  SplicedAt(doc, block, out, B, E, K) /\ K >= 2
<1>1. block # <<>> /\ K >= 2 /\ block \in DocType
  <2>1. Len(<<>>) = 0
    OBVIOUS
  <2>2. QED
    BY <2>1 DEF Blocky
<1>2. E = RestStart(doc, p, block)
  BY <1>1 DEF RestStart
<1>3. QED
  BY <1>1, <1>2, Spliced

\* The only place that is neither before nor at a line, nor past the next.
LEMMA OnlyNext ==
    ASSUME NEW g \in Int, NEW b \in Int, ~(g < b), g # b, ~(b + 1 < g)
    PROVE  g = b + 1
OBVIOUS

\* The new block is found where the old one was.
LEMMA SplicedFirst ==
    ASSUME NEW doc \in DocType, NEW p, NEW block, Blocky(block, p), HasSection(doc, p),
           NEW out, out = spliceProfileBlock(doc, p, block),
           NEW B, B = BlockStart(doc, p)
    PROVE  HasSection(out, p) /\ FirstLine(out, p) = B + 1 /\ BlockStart(out, p) = B
<1> DEFINE L == Len(doc)
           F == FirstLine(doc, p)
           K == Len(block)
           G == FirstLine(out, p)
           C == BlockStart(out, p)
<1>1. PICK E : E = BlockEnd(doc, p)
  OBVIOUS
<1>a. SplicedAt(doc, block, out, B, E, K) /\ K >= 2
  BY <1>1, SplicedBlock
<1>2. /\ B \in 1..L /\ E \in (B + 1)..(L + 1) /\ K \in Nat /\ K >= 2 /\ L \in Nat
      /\ out \in DocType /\ Len(out) = L + B + K - E
      /\ \A i \in 1..(B - 1) : out[i] = doc[i]
      /\ \A i \in 1..K : out[B - 1 + i] = block[i]
  BY <1>a DEF SplicedAt
<1>3. /\ F \in 1..L /\ \A i \in 1..(F - 1) : ~profileSection(doc[i], p)
      /\ B \in 1..F /\ \A j \in B..(F - 1) : blankLine(doc[j])
      /\ \A i \in 1..F : (\A j \in i..(F - 1) : blankLine(doc[j])) => B <= i
  BY FirstLineProps, BlockStartProps
<1>4. blankLine(out[B]) /\ profileSection(out[B + 1], p)
  <2>1. B - 1 + 1 = B /\ B - 1 + 2 = B + 1 /\ 1 \in 1..K /\ 2 \in 1..K
    BY <1>2
  <2>2. out[B] = block[1] /\ out[B + 1] = block[2]
    BY <1>2, <2>1
  <2>3. QED
    BY <2>2 DEF Blocky
<1>5. B + 1 \in 1..Len(out) /\ DOMAIN out = 1..Len(out)
  BY <1>2, LenProperties DEF DocType
<1>6. HasSection(out, p)
  BY <1>4, <1>5 DEF HasSection
<1>7. /\ G \in 1..Len(out) /\ profileSection(out[G], p)
      /\ \A i \in 1..(G - 1) : ~profileSection(out[i], p)
      /\ C \in 1..G /\ \A j \in C..(G - 1) : blankLine(out[j])
      /\ \A i \in 1..G : (\A j \in i..(G - 1) : blankLine(out[j])) => C <= i
  BY <1>2, <1>6, FirstLineProps, BlockStartProps
<1> HIDE DEF L, F, K, G, C
<1>8. G = B + 1
  <2>1. ~(G < B)
    <3>1. ASSUME G < B PROVE FALSE
      <4>1. G \in 1..(B - 1) /\ G \in 1..(F - 1)
        BY <1>2, <1>3, <1>7, <3>1
      <4>2. QED
        BY <1>2, <1>3, <1>7, <4>1
    <3>2. QED
      BY <3>1
  <2>2. G # B
    BY <1>4, <1>7 DEF blankLine, profileSection, isTable
  <2>3. ~(B + 1 < G)
    BY <1>2, <1>4, <1>7
  <2>4. G \in Int /\ B \in Int
    BY <1>2, <1>7
  <2>5. QED
    BY <2>1, <2>2, <2>3, <2>4, OnlyNext, Zenon
<1>9. C <= B
  <2>1. \A j \in B..(G - 1) : blankLine(out[j])
    BY <1>2, <1>4, <1>8
  <2>2. B \in 1..G
    BY <1>2, <1>8
  <2>3. QED
    BY <1>7, <2>1, <2>2
<1>10. ~(C < B)
  <2>1. ASSUME C < B PROVE FALSE
    <3>1. \A j \in C..(F - 1) : blankLine(doc[j])
      <4>1. ASSUME NEW j \in C..(F - 1) PROVE blankLine(doc[j])
        <5>1. CASE j < B
          <6>1. j \in 1..(B - 1) /\ j \in C..(G - 1)
            BY <1>2, <1>3, <1>7, <1>8, <5>1
          <6>2. QED
            BY <1>2, <1>7, <6>1
        <5>2. CASE B <= j
          BY <1>2, <1>3, <1>7, <5>2
        <5>3. QED
          BY <1>2, <1>3, <1>7, <5>1, <5>2
      <4>2. QED
        BY <4>1
    <3>2. C \in 1..F
      BY <1>3, <1>7, <2>1
    <3>3. B <= C
      BY <1>3, <3>1, <3>2
    <3>4. QED
      BY <1>2, <1>7, <2>1, <3>3
  <2>2. QED
    BY <2>1
<1>11. C = B
  BY <1>2, <1>7, <1>8, <1>9, <1>10
<1>12. QED
  BY <1>6, <1>8, <1>11 DEF G, C

\* Editing a document again with the same block changes nothing.
LEMMA EditedAgain ==
    ASSUME NEW doc \in DocType, NEW p, NEW block, Blocky(block, p), HasSection(doc, p),
           NEW out, out = spliceProfileBlock(doc, p, block)
    PROVE  spliceProfileBlock(out, p, block) = out
<1>1. PICK B, E, K, L : B = BlockStart(doc, p) /\ E = BlockEnd(doc, p) /\ K = Len(block) /\ L = Len(doc)
  OBVIOUS
<1>0. SplicedAt(doc, block, out, B, E, K) /\ K >= 2
  BY <1>1, SplicedBlock
<1>2. PICK F, N : F = FirstLine(doc, p) /\ N = NextTable(doc, p)
  OBVIOUS
<1>3. PICK M, D : M = NextTable(out, p) /\ D = BlockEnd(out, p)
  OBVIOUS
<1>4. /\ B \in 1..L /\ E \in (B + 1)..(L + 1) /\ K \in Nat /\ K >= 2 /\ L \in Nat
      /\ out \in DocType /\ Len(out) = L + B + K - E
      /\ \A i \in 1..(B - 1) : out[i] = doc[i]
      /\ \A i \in 1..K : out[B - 1 + i] = block[i]
      /\ \A i \in E..L : out[i + B + K - E] = doc[i]
  BY <1>0, <1>1 DEF SplicedAt
<1>5. out = (SubSeq(doc, 1, B - 1) \o block) \o SubSeq(doc, E, L)
  BY <1>0, <1>1 DEF SplicedAt
<1>6. HasSection(out, p) /\ FirstLine(out, p) = B + 1 /\ BlockStart(out, p) = B
  BY <1>1, SplicedFirst
<1>7. /\ N \in (F + 1)..(L + 1) /\ F \in 1..L
      /\ N <= L => isTable(doc[N]) /\ ~profileSection(doc[N], p)
      /\ E \in (F + 1)..N
      /\ \A j \in E..(N - 1) : blankLine(doc[j]) \/ commentLine(doc[j])
  BY <1>1, <1>2, FirstLineProps, NextTableProps, BlockEndProps
<1>8. /\ M \in (B + 2)..(Len(out) + 1)
      /\ M <= Len(out) => isTable(out[M]) /\ ~profileSection(out[M], p)
      /\ \A i \in (B + 1)..(M - 1) : isTable(out[i]) => profileSection(out[i], p)
  <2>1. /\ M \in (FirstLine(out, p) + 1)..(Len(out) + 1)
        /\ M <= Len(out) => isTable(out[M]) /\ ~profileSection(out[M], p)
        /\ \A i \in FirstLine(out, p)..(M - 1) : isTable(out[i]) => profileSection(out[i], p)
    BY <1>3, <1>4, <1>6, NextTableProps
  <2>2. QED
    BY <1>4, <1>6, <2>1
<1>9. /\ D \in (B + 2)..M
      /\ \A j \in D..(M - 1) : blankLine(out[j]) \/ commentLine(out[j])
      /\ \A i \in (B + 2)..M :
           (\A j \in i..(M - 1) : blankLine(out[j]) \/ commentLine(out[j])) => D <= i
  <2>1. /\ D \in (FirstLine(out, p) + 1)..M
        /\ \A j \in D..(M - 1) : blankLine(out[j]) \/ commentLine(out[j])
        /\ \A i \in (FirstLine(out, p) + 1)..M :
             (\A j \in i..(M - 1) : blankLine(out[j]) \/ commentLine(out[j])) => D <= i
    BY <1>3, <1>4, <1>6, BlockEndProps
  <2>2. B + 1 + 1 = B + 2
    BY <1>4
  <2>3. QED
    BY <1>6, <2>1, <2>2
<1>10. \A i \in (B + 1)..(B + K - 1) : isTable(out[i]) => profileSection(out[i], p)
  <2>1. ASSUME NEW i \in (B + 1)..(B + K - 1), isTable(out[i]) PROVE profileSection(out[i], p)
    <3>1. i - B + 1 \in 1..K /\ B - 1 + (i - B + 1) = i
      BY <1>4
    <3>2. out[i] = block[i - B + 1]
      BY <1>4, <3>1
    <3>3. QED
      BY <1>1, <2>1, <3>1, <3>2 DEF Blocky
  <2>2. QED
    BY <2>1
<1>11. \A j \in (B + K)..(N + B + K - E - 1) : blankLine(out[j]) \/ commentLine(out[j])
  <2>1. ASSUME NEW j \in (B + K)..(N + B + K - E - 1) PROVE blankLine(out[j]) \/ commentLine(out[j])
    <3>1. j - B - K + E \in E..(N - 1) /\ j - B - K + E \in E..L /\ (j - B - K + E) + B + K - E = j
      BY <1>4, <1>7
    <3>2. out[j] = doc[j - B - K + E]
      BY <1>4, <3>1
    <3>3. QED
      BY <1>7, <3>1, <3>2
  <2>2. QED
    BY <2>1
<1>12. M = N + B + K - E
  <2>1. ~(M < N + B + K - E)
    <3>1. ASSUME M < N + B + K - E PROVE FALSE
      <4>1. M <= Len(out)
        BY <1>4, <1>7, <1>8, <3>1
      <4>2. M \in (B + 1)..(B + K - 1) \/ M \in (B + K)..(N + B + K - E - 1)
        BY <1>4, <1>7, <1>8, <3>1
      <4>3. QED
        BY <1>8, <1>10, <1>11, <4>1, <4>2 DEF isTable, blankLine, commentLine
    <3>2. QED
      BY <3>1
  <2>2. ~(N + B + K - E < M)
    <3>1. ASSUME N + B + K - E < M PROVE FALSE
      <4>1. N \in E..L /\ N <= L /\ N + B + K - E \in (B + 1)..(M - 1)
        BY <1>4, <1>7, <1>8, <3>1
      <4>2. out[N + B + K - E] = doc[N]
        BY <1>4, <4>1
      <4>3. QED
        BY <1>7, <1>8, <4>1, <4>2
    <3>2. QED
      BY <3>1
  <2>3. QED
    BY <1>4, <1>7, <1>8, <2>1, <2>2
<1>13. D = B + K
  <2>1. D <= B + K
    <3>1. B + K \in (B + 2)..M
      BY <1>4, <1>7, <1>12
    <3>2. \A j \in (B + K)..(M - 1) : blankLine(out[j]) \/ commentLine(out[j])
      <4>1. M - 1 = N + B + K - E - 1
        BY <1>4, <1>7, <1>12
      <4>2. QED
        BY <1>11, <4>1
    <3>3. QED
      BY <1>9, <3>1, <3>2
  <2>2. ~(D < B + K)
    <3>1. ASSUME D < B + K PROVE FALSE
      <4>1. B + K - 1 \in D..(M - 1) /\ K \in 1..K /\ B - 1 + K = B + K - 1
        BY <1>4, <1>7, <1>9, <1>12, <3>1
      <4>2. out[B + K - 1] = block[K]
        BY <1>4, <4>1
      <4>3. QED
        BY <1>1, <1>9, <4>1, <4>2 DEF Blocky, isTable, blankLine, commentLine
    <3>2. QED
      BY <3>1
  <2>3. QED
    BY <1>4, <1>9, <2>1, <2>2
<1>14. block # <<>>
  <2>1. Len(<<>>) = 0
    OBVIOUS
  <2>2. QED
    BY <1>1, <1>4, <2>1
<1>15. spliceProfileBlock(out, p, block) = (SubSeq(out, 1, B - 1) \o block) \o SubSeq(out, B + K, Len(out))
  BY <1>3, <1>6, <1>13, <1>14 DEF spliceProfileBlock, RestStart
<1>16. SubSeq(out, 1, B - 1) = SubSeq(doc, 1, B - 1)
  <2>1. B - 1 \in 0..L /\ B - 1 <= Len(out)
    BY <1>4
  <2>2. QED
    BY <1>4, <2>1
<1>17. SubSeq(out, B + K, Len(out)) = SubSeq(doc, E, L)
  <2>1. \A i \in 1..(L - E + 1) : out[B + K + i - 1] = doc[E + i - 1]
    <3>1. ASSUME NEW i \in 1..(L - E + 1) PROVE out[B + K + i - 1] = doc[E + i - 1]
      <4>1. E + i - 1 \in E..L /\ (E + i - 1) + B + K - E = B + K + i - 1
        BY <1>4
      <4>2. QED
        BY <1>4, <4>1
    <3>2. QED
      BY <3>1
  <2>2. Len(out) - (B + K) + 1 = L - E + 1
    BY <1>4
  <2>3. QED
    BY <1>4, <2>1, <2>2
<1>18. QED
  BY <1>5, <1>15, <1>16, <1>17

-----------------------------------------------------------------------------
(* What a document says of a profile.                                      *)

\* What is said of a profile, and the lines that say its endpoint.
Mention(doc, p) == {i \in DOMAIN doc : doc[i].of = p}
MainLine(doc, p) == {i \in Mention(doc, p) : doc[i].kind \in {"section", "inline"}}
KindLine(doc, kind, p) == {i \in DOMAIN doc : doc[i].kind = kind /\ doc[i].of = p}

\* A table that is edited is not written inline, in a document that parses.
LEMMA NotInline ==
    ASSUME NEW doc \in DocType, NEW p \in Profiles, Parses(doc), HasSection(doc, p)
    PROVE  /\ KindLine(doc, "inline", p) = {}
           /\ MainLine(doc, p) = KindLine(doc, "section", p)
<1>1. DOMAIN doc = 1..Len(doc) /\ Len(doc) \in Nat /\ \A i \in 1..Len(doc) : doc[i] \in LineType
  BY ElementOfSeq, LenProperties DEF DocType
<1>2. \A kind : IsFiniteSet(KindLine(doc, kind, p))
  <2>1. IsFiniteSet(1..Len(doc)) /\ \A kind : KindLine(doc, kind, p) \subseteq 1..Len(doc)
    BY <1>1, FS_Interval DEF KindLine
  <2>2. QED
    BY <2>1, FS_Subset
<1>3. \A kind : /\ Count(doc, kind, p) \in Nat
                /\ Count(doc, kind, p) = 0 <=> KindLine(doc, kind, p) = {}
  <2>1. \A kind : Count(doc, kind, p) = Cardinality(KindLine(doc, kind, p))
    BY DEF Count, KindLine
  <2>2. QED
    BY <1>2, <2>1, FS_CardinalityType, FS_EmptySet
<1>4. PICK i \in DOMAIN doc : profileSection(doc[i], p)
  BY DEF HasSection
<1>5. doc[i].kind \in {"section", "headers"} /\ doc[i].of = p
  BY <1>1, <1>4, ConfigAssumption DEF profileSection, isTable, LineType, Naming, LineKinds
<1>6. i \in KindLine(doc, "section", p) \/ i \in KindLine(doc, "headers", p)
  BY <1>5 DEF KindLine
<1>7. Count(doc, "section", p) # 0 \/ Count(doc, "headers", p) # 0
  BY <1>3, <1>6
<1>8. /\ Count(doc, "section", p) + Count(doc, "inline", p) <= 1
      /\ Count(doc, "inline", p) = 0 \/ Count(doc, "headers", p) = 0
  BY DEF Parses
<1>9. Count(doc, "inline", p) = 0
  BY <1>3, <1>7, <1>8
<1>10. KindLine(doc, "inline", p) = {}
  BY <1>3, <1>9
<1>11. QED
  BY <1>10 DEF MainLine, Mention, KindLine

-----------------------------------------------------------------------------
(* The shape of a document after an edit.                                  *)

\* What an edit takes from doc, from line B up to R: blank lines up to F, the
\* first table of p, and what belongs to p; the next table that is not of p is
\* N, and only comments and blank lines stand between R and N.
CutAt(doc, p, F, B, R, N) ==
    /\ Len(doc) \in Nat /\ DOMAIN doc = 1..Len(doc)
    /\ F \in 1..Len(doc) /\ B \in 1..F /\ N \in (F + 1)..(Len(doc) + 1) /\ R \in (F + 1)..N
    /\ profileSection(doc[F], p)
    /\ \A i \in 1..(F - 1) : ~profileSection(doc[i], p)
    /\ \A i \in B..(F - 1) : blankLine(doc[i])
    /\ \A i \in F..(N - 1) : isTable(doc[i]) => doc[i].of = p
    /\ \A i \in R..(N - 1) : blankLine(doc[i]) \/ commentLine(doc[i])
    /\ \A i \in F..(R - 1) : blankLine(doc[i])
         \/ \E j \in i..(N - 1) : ~blankLine(doc[j]) /\ ~commentLine(doc[j])
    /\ N <= Len(doc) => isTable(doc[N]) /\ doc[N].of # p

LEMMA Cut ==
    ASSUME NEW doc \in DocType, NEW p, NEW block, HasSection(doc, p)
    PROVE  CutAt(doc, p, FirstLine(doc, p), BlockStart(doc, p), RestStart(doc, p, block),
                 NextTable(doc, p))
<1>1. PICK L, F, B, E, R, N :
        /\ L = Len(doc) /\ F = FirstLine(doc, p) /\ B = BlockStart(doc, p)
        /\ E = BlockEnd(doc, p) /\ R = RestStart(doc, p, block) /\ N = NextTable(doc, p)
  OBVIOUS
<1>2. L \in Nat /\ DOMAIN doc = 1..L
  BY <1>1, LenProperties DEF DocType
<1>3. /\ F \in 1..L /\ profileSection(doc[F], p)
      /\ \A i \in 1..(F - 1) : ~profileSection(doc[i], p)
      /\ B \in 1..F /\ \A i \in B..(F - 1) : blankLine(doc[i])
  BY <1>1, FirstLineProps, BlockStartProps
<1>4. /\ N \in (F + 1)..(L + 1)
      /\ N <= L => isTable(doc[N]) /\ ~profileSection(doc[N], p)
      /\ \A i \in F..(N - 1) : isTable(doc[i]) => profileSection(doc[i], p)
  BY <1>1, NextTableProps
<1>5. /\ E \in (F + 1)..N
      /\ \A j \in E..(N - 1) : blankLine(doc[j]) \/ commentLine(doc[j])
      /\ \A i \in (F + 1)..N :
           (\A j \in i..(N - 1) : blankLine(doc[j]) \/ commentLine(doc[j])) => E <= i
  BY <1>1, BlockEndProps
<1>6. R \in E..(L + 1) /\ \A j \in E..(R - 1) : blankLine(doc[j])
  BY <1>1, RestStartProps
<1>7. R <= N
  <2>1. ASSUME ~(R <= N) PROVE FALSE
    <3>1. N \in E..(R - 1) /\ N <= L
      BY <1>2, <1>3, <1>4, <1>5, <1>6, <2>1
    <3>2. QED
      BY <1>4, <1>6, <3>1 DEF isTable, blankLine
  <2>2. QED
    BY <2>1
<1>8. R \in (F + 1)..N /\ \A i \in R..(N - 1) : blankLine(doc[i]) \/ commentLine(doc[i])
  BY <1>2, <1>3, <1>4, <1>5, <1>6, <1>7
<1>9. ASSUME NEW i \in F..(R - 1), ~blankLine(doc[i])
      PROVE  \E j \in i..(N - 1) : ~blankLine(doc[j]) /\ ~commentLine(doc[j])
  <2>1. CASE i = F
    <3>1. i \in i..(N - 1)
      BY <1>2, <1>3, <1>4, <2>1
    <3>2. ~commentLine(doc[i])
      BY <1>3, <2>1 DEF profileSection, isTable, commentLine
    <3>3. QED
      BY <1>9, <3>1, <3>2
  <2>2. CASE i # F
    <3>1. i < E
      BY <1>2, <1>3, <1>5, <1>6, <1>9
    <3>2. i \in (F + 1)..N
      BY <1>2, <1>3, <1>4, <1>5, <1>9, <2>2, <3>1
    <3>3. QED
      BY <1>5, <3>1, <3>2
  <2>3. QED
    BY <2>1, <2>2
<1>10. QED
  BY <1>1, <1>2, <1>3, <1>4, <1>8, <1>9 DEF CutAt, profileSection

\* Every line of the result is one of the document, outside what was cut, or one
\* of the block; and those of the document are all there.
Shift(B, K, R, j) == IF j < B THEN j ELSE j + B + K - R

LEMMA Origin ==
    ASSUME NEW doc, NEW block, NEW out, NEW B, NEW R, NEW K,
           SplicedAt(doc, block, out, B, R, K), NEW i \in 1..Len(out)
    PROVE  \/ \E k \in 1..K : i = B - 1 + k /\ out[i] = block[k]
           \/ \E j \in 1..Len(doc) :
                (j < B \/ R <= j) /\ i = Shift(B, K, R, j) /\ out[i] = doc[j]
<1>1. /\ B \in 1..Len(doc) /\ R \in (B + 1)..(Len(doc) + 1)
      /\ K \in Nat /\ Len(doc) \in Nat /\ Len(out) = Len(doc) + B + K - R
      /\ \A j \in 1..(B - 1) : out[j] = doc[j]
      /\ \A k \in 1..K : out[B - 1 + k] = block[k]
      /\ \A j \in R..Len(doc) : out[j + B + K - R] = doc[j]
  BY DEF SplicedAt
<1>2. CASE i < B
  <2>1. i \in 1..Len(doc) /\ Shift(B, K, R, i) = i /\ out[i] = doc[i]
    BY <1>1, <1>2 DEF Shift
  <2>2. QED
    BY <1>2, <2>1
<1>3. CASE B <= i /\ i < B + K
  <2>1. i - B + 1 \in 1..K /\ i = B - 1 + (i - B + 1)
    BY <1>1, <1>3
  <2>2. QED
    BY <1>1, <2>1
<1>4. CASE B + K <= i
  <2>1. PICK j : j = i - B - K + R
    OBVIOUS
  <2>2. j \in R..Len(doc) /\ i = j + B + K - R /\ ~(j < B) /\ R <= j /\ j \in 1..Len(doc)
    BY <1>1, <1>4, <2>1
  <2>3. i = Shift(B, K, R, j) /\ out[i] = doc[j]
    BY <1>1, <2>2 DEF Shift
  <2>4. QED
    BY <2>2, <2>3
<1>5. QED
  BY <1>1, <1>2, <1>3, <1>4

\* The lines that stay keep their order.
LEMMA ShiftProps ==
    ASSUME NEW doc, NEW block, NEW out, NEW B, NEW R, NEW K,
           SplicedAt(doc, block, out, B, R, K)
    PROVE  /\ \A j \in 1..Len(doc) : j < B \/ R <= j =>
                /\ Shift(B, K, R, j) \in 1..Len(out)
                /\ out[Shift(B, K, R, j)] = doc[j]
                /\ Shift(B, K, R, j) < B <=> j < B
                /\ B + K <= Shift(B, K, R, j) <=> R <= j
           /\ \A i, j \in 1..Len(doc) :
                (i < B \/ R <= i) /\ (j < B \/ R <= j) =>
                    (i < j <=> Shift(B, K, R, i) < Shift(B, K, R, j))
<1>1. /\ B \in 1..Len(doc) /\ R \in (B + 1)..(Len(doc) + 1)
      /\ K \in Nat /\ Len(doc) \in Nat /\ Len(out) = Len(doc) + B + K - R
      /\ \A j \in 1..(B - 1) : out[j] = doc[j]
      /\ \A j \in R..Len(doc) : out[j + B + K - R] = doc[j]
  BY DEF SplicedAt
<1>2. ASSUME NEW j \in 1..Len(doc), j < B \/ R <= j
      PROVE  /\ Shift(B, K, R, j) \in 1..Len(out)
             /\ out[Shift(B, K, R, j)] = doc[j]
             /\ Shift(B, K, R, j) < B <=> j < B
             /\ B + K <= Shift(B, K, R, j) <=> R <= j
  <2>1. CASE j < B
    BY <1>1, <2>1 DEF Shift
  <2>2. CASE ~(j < B)
    BY <1>1, <1>2, <2>2 DEF Shift
  <2>3. QED
    BY <2>1, <2>2
<1>3. ASSUME NEW i \in 1..Len(doc), NEW j \in 1..Len(doc), i < B \/ R <= i, j < B \/ R <= j
      PROVE  i < j <=> Shift(B, K, R, i) < Shift(B, K, R, j)
  BY <1>1, <1>3 DEF Shift
<1>4. QED
  BY <1>2, <1>3

\* What install writes: blank lines, the section, perhaps the headers.
Written(block, p) ==
    /\ Blocky(block, p) /\ block[2].kind = "section"
    /\ \A i \in 1..Len(block) :
         /\ block[i].kind \in {"blank", "section", "headers"}
         /\ block[i].of = IF block[i].kind = "blank" THEN NoProfile ELSE p
         /\ block[i].kind = "section" => i = 2
         /\ block[i].kind = "headers" => i = 4

LEMMA BlockWritten ==
    ASSUME NEW p \in Profiles, NEW prof \in ProfType
    PROVE  Written(Block(p, prof), p)
<1>1. PICK block, K : block = Block(p, prof) /\ K = Len(block)
  OBVIOUS
<1>2. /\ Blocky(block, p) /\ block[1] = Blank /\ block[2] = Section(p, prof.url)
      /\ prof.headers => K = 4 /\ block[3] = Blank /\ block[4] = Headers(p)
      /\ ~prof.headers => K = 2
  BY <1>1, BlockLines
<1>3. /\ Blank.kind = "blank" /\ Blank.of = NoProfile
      /\ Section(p, prof.url).kind = "section" /\ Section(p, prof.url).of = p
      /\ Headers(p).kind = "headers" /\ Headers(p).of = p
  BY DEF Blank, Section, Headers, Line
<1>4. ASSUME NEW i \in 1..K
      PROVE  \/ i = 2 /\ block[i].kind = "section" /\ block[i].of = p
             \/ i = 4 /\ block[i].kind = "headers" /\ block[i].of = p
             \/ block[i].kind = "blank" /\ block[i].of = NoProfile
  <2>1. CASE prof.headers
    <3>1. i \in {1, 2, 3, 4}
      BY <1>2, <1>4, <2>1
    <3>2. QED
      BY <1>2, <1>3, <2>1, <3>1
  <2>2. CASE ~prof.headers
    <3>1. i \in {1, 2}
      BY <1>2, <1>4, <2>2
    <3>2. QED
      BY <1>2, <1>3, <3>1
  <2>3. QED
    BY <2>1, <2>2
<1>5. \A i \in 1..K : /\ block[i].kind \in {"blank", "section", "headers"}
                      /\ block[i].of = IF block[i].kind = "blank" THEN NoProfile ELSE p
                      /\ block[i].kind = "section" => i = 2
                      /\ block[i].kind = "headers" => i = 4
  BY <1>4
<1>6. QED
  BY <1>1, <1>2, <1>3, <1>5 DEF Written

\* No table of p is left outside the cut but beyond another table.
LEMMA CutTables ==
    ASSUME NEW doc, NEW p, NEW F, NEW B, NEW R, NEW N, CutAt(doc, p, F, B, R, N),
           NEW j \in 1..Len(doc), isTable(doc[j])
    PROVE  /\ B <= j /\ j < R => doc[j].of = p
           /\ j < B => doc[j].of # p
           /\ R <= j => N <= j /\ isTable(doc[N]) /\ doc[N].of # p
<1>1. B <= j /\ j < R => doc[j].of = p
  BY DEF CutAt, isTable, blankLine
<1>2. j < B => doc[j].of # p
  BY DEF CutAt, profileSection
<1>3. R <= j => N <= j /\ isTable(doc[N]) /\ doc[N].of # p
  <2>1. ASSUME R <= j, j < N PROVE FALSE
    <3>1. j \in R..(N - 1)
      BY <2>1 DEF CutAt
    <3>2. QED
      BY <3>1 DEF CutAt, isTable, blankLine, commentLine
  <2>2. N <= j => isTable(doc[N]) /\ doc[N].of # p
    BY DEF CutAt
  <2>3. QED
    BY <2>1, <2>2 DEF CutAt
<1>4. QED
  BY <1>1, <1>2, <1>3

-----------------------------------------------------------------------------
(* The lines that a set numbers, in their order.                           *)

Rank(S, i) == Cardinality({j \in S : j <= i})

\* A line for every rank, and another one for another.
LEMMA Ranked ==
    ASSUME NEW S, S \subseteq Nat, IsFiniteSet(S)
    PROVE  /\ Cardinality(S) \in Nat
           /\ \A i \in S : Rank(S, i) \in 1..Cardinality(S)
           /\ \A i, j \in S : Rank(S, i) = Rank(S, j) => i = j
           /\ \A n \in 1..Cardinality(S) : \E i \in S : Rank(S, i) = n
<1> DEFINE Below(i) == {j \in S : j <= i}
           n == Cardinality(S)
<1>1. \A i : Below(i) \subseteq S /\ IsFiniteSet(Below(i)) /\ Cardinality(Below(i)) \in Nat
             /\ Cardinality(Below(i)) <= n
  BY FS_Subset, FS_CardinalityType
<1>2. n \in Nat /\ IsFiniteSet(1..n) /\ Cardinality(1..n) = n
  <2>1. n \in Nat
    BY FS_CardinalityType
  <2> HIDE DEF n
  <2>2. IsFiniteSet(1..n) /\ Cardinality(1..n) = IF 1 > n THEN 0 ELSE n - 1 + 1
    BY <2>1, FS_Interval
  <2>3. QED
    BY <2>1, <2>2
<1>3. ASSUME NEW i \in S PROVE Cardinality(Below(i)) \in 1..n
  <2>1. i \in Below(i)
    OBVIOUS
  <2>2. Cardinality(Below(i)) # 0
    BY <1>1, <2>1, FS_EmptySet
  <2> HIDE DEF Below, n
  <2>3. QED
    BY <1>1, <1>2, <2>2
<1>4. ASSUME NEW i \in S, NEW j \in S, i < j PROVE Cardinality(Below(i)) < Cardinality(Below(j))
  <2>1. Below(i) \subseteq Below(j) /\ j \in Below(j) /\ j \notin Below(i)
    <3>1. i \in Nat /\ j \in Nat
      OBVIOUS
    <3>2. \A k \in S : k <= i => k <= j
      BY <1>4, <3>1
    <3>3. j <= j /\ ~(j <= i)
      BY <1>4, <3>1
    <3>4. QED
      BY <3>2, <3>3
  <2> HIDE DEF Below
  <2>2. Cardinality(Below(i)) <= Cardinality(Below(j))
        /\ (Cardinality(Below(j)) = Cardinality(Below(i)) => Below(j) = Below(i))
    BY <1>1, <2>1, FS_Subset
  <2>3. QED
    BY <1>1, <2>1, <2>2
<1>5. ASSUME NEW i \in S, NEW j \in S, Cardinality(Below(i)) = Cardinality(Below(j)) PROVE i = j
  <2>1. i \in Nat /\ j \in Nat
    OBVIOUS
  <2>2. ~(i < j) /\ ~(j < i)
    BY <1>1, <1>4, <1>5
  <2>3. QED
    BY <2>1, <2>2
<1> DEFINE f == [i \in S |-> Cardinality(Below(i))]
<1>6. f \in Injection(S, 1..n)
  <2>1. f \in [S -> 1..n]
    BY <1>3
  <2>2. \A i, j \in S : f[i] = f[j] => i = j
    BY <1>5
  <2> HIDE DEF f
  <2>3. QED
    BY <2>1, <2>2 DEF Injection, IsInjective
<1>7. f \in Surjection(S, 1..n)
  <2>1. Cardinality(S) = Cardinality(1..n)
    BY <1>2
  <2> HIDE DEF f, n
  <2>2. QED
    BY <1>2, <1>6, <2>1, FS_Injection
<1>8. \A m \in 1..n : \E i \in S : f[i] = m
  BY <1>7 DEF Surjection
<1>9. \A i : Rank(S, i) = Cardinality(Below(i))
  BY DEF Rank
<1> HIDE DEF Below, n
<1>10. \A m \in 1..n : \E i \in S : Cardinality(Below(i)) = m
  BY <1>8
<1>11. QED
  BY <1>2, <1>3, <1>5, <1>9, <1>10 DEF n

LEMMA NthOf ==
    ASSUME NEW S, S \subseteq Nat, IsFiniteSet(S), NEW n \in 1..Cardinality(S)
    PROVE  Nth(S, n) \in S /\ Rank(S, Nth(S, n)) = n
<1>1. \E i \in S : Rank(S, i) = n
  BY Ranked
<1>2. \E i \in S : Cardinality({j \in S : j <= i}) = n
  BY <1>1 DEF Rank
<1>3. Nth(S, n) \in S /\ Cardinality({j \in S : j <= Nth(S, n)}) = n
  BY <1>2 DEF Nth
<1>4. QED
  BY <1>3 DEF Rank

\* A renumbering that keeps the order keeps the ranks.
Renumbers(f, S, T) ==
    /\ S \subseteq Nat /\ IsFiniteSet(S) /\ T \subseteq Nat
    /\ f \in [S -> T] /\ \A t \in T : \E s \in S : f[s] = t
    /\ \A i, j \in S : i < j => f[i] < f[j]

LEMMA Renumbered ==
    ASSUME NEW f, NEW S, NEW T, Renumbers(f, S, T)
    PROVE  /\ IsFiniteSet(T) /\ Cardinality(T) = Cardinality(S)
           /\ \A n \in 1..Cardinality(S) : Nth(S, n) \in S /\ Nth(T, n) = f[Nth(S, n)]
<1>1. /\ S \subseteq Nat /\ IsFiniteSet(S) /\ T \subseteq Nat
      /\ f \in [S -> T] /\ \A t \in T : \E s \in S : f[s] = t
      /\ \A i, j \in S : i < j => f[i] < f[j]
  BY DEF Renumbers
<1>2. \A i \in S : i \in Nat /\ f[i] \in Nat /\ f[i] \in T
  BY <1>1
<1>3. ASSUME NEW i \in S, NEW j \in S PROVE i <= j <=> f[i] <= f[j]
  <2>1. CASE i < j
    BY <1>1, <1>2, <2>1
  <2>2. CASE i = j
    BY <1>2, <2>2
  <2>3. CASE j < i
    BY <1>1, <1>2, <2>3
  <2>4. QED
    BY <1>2, <2>1, <2>2, <2>3
<1>4. \A i, j \in S : f[i] = f[j] => i = j
  <2>1. ASSUME NEW i \in S, NEW j \in S, f[i] = f[j] PROVE i = j
    <3>1. i <= j /\ j <= i
      BY <1>2, <1>3, <2>1
    <3>2. QED
      BY <1>2, <3>1
  <2>2. QED
    BY <2>1
<1>5. ASSUME NEW U \in SUBSET S, NEW V \in SUBSET T,
             \A i \in S : i \in U <=> f[i] \in V
      PROVE  IsFiniteSet(V) /\ Cardinality(V) = Cardinality(U)
  <2>1. IsFiniteSet(U)
    BY <1>1, FS_Subset
  <2> DEFINE g == [i \in U |-> f[i]]
  <2>2. g \in [U -> V]
    BY <1>5
  <2>3. \A i, j \in U : g[i] = g[j] => i = j
    BY <1>4
  <2>4. \A v \in V : \E i \in U : g[i] = v
    BY <1>1, <1>5
  <2> HIDE DEF g
  <2>5. g \in Bijection(U, V)
    BY <2>2, <2>3, <2>4 DEF Bijection, Injection, Surjection, IsInjective
  <2>6. ExistsBijection(U, V)
    BY <2>5 DEF ExistsBijection
  <2>7. QED
    BY <2>1, <2>6, FS_Bijection
<1>6. IsFiniteSet(T) /\ Cardinality(T) = Cardinality(S)
  <2>1. \A i \in S : i \in S <=> f[i] \in T
    BY <1>2
  <2>2. QED
    BY <1>5, <2>1
<1>7. ASSUME NEW i \in S PROVE Rank(T, f[i]) = Rank(S, i)
  <2>1. {j \in S : j <= i} \in SUBSET S /\ {t \in T : t <= f[i]} \in SUBSET T
    OBVIOUS
  <2>2. \A j \in S : j \in {k \in S : k <= i} <=> f[j] \in {t \in T : t <= f[i]}
    BY <1>2, <1>3
  <2>3. Cardinality({t \in T : t <= f[i]}) = Cardinality({j \in S : j <= i})
    BY <1>5, <2>1, <2>2
  <2>4. QED
    BY <2>3 DEF Rank
<1>8. ASSUME NEW n \in 1..Cardinality(S) PROVE Nth(S, n) \in S /\ Nth(T, n) = f[Nth(S, n)]
  <2>1. Nth(S, n) \in S /\ Rank(S, Nth(S, n)) = n
    BY <1>1, NthOf
  <2>2. Nth(T, n) \in T /\ Rank(T, Nth(T, n)) = n
    BY <1>1, <1>6, NthOf
  <2>3. Rank(T, f[Nth(S, n)]) = n /\ f[Nth(S, n)] \in T
    BY <1>2, <1>7, <2>1
  <2>4. \A i, j \in T : Rank(T, i) = Rank(T, j) => i = j
    BY <1>1, <1>6, Ranked
  <2>5. QED
    BY <2>1, <2>2, <2>3, <2>4
<1>9. QED
  BY <1>6, <1>8

\* Then the lines are the same.
LEMMA SameLines ==
    ASSUME NEW f, NEW S, NEW T, Renumbers(f, S, T), NEW d, NEW e,
           \A i \in S : e[f[i]] = d[i]
    PROVE  LinesAt(e, T) = LinesAt(d, S)
<1>1. Cardinality(T) = Cardinality(S)
      /\ \A n \in 1..Cardinality(S) : Nth(S, n) \in S /\ Nth(T, n) = f[Nth(S, n)]
  BY Renumbered
<1>2. \A n \in 1..Cardinality(S) : e[Nth(T, n)] = d[Nth(S, n)]
  BY <1>1
<1>3. QED
  BY <1>1, <1>2 DEF LinesAt

-----------------------------------------------------------------------------
(* Documents that parse, without counting.                                 *)

\* Of p there is one main line at most, one line of headers, and no torn one.
Single(doc, p) ==
    /\ \A i \in DOMAIN doc : doc[i].of = p => doc[i].kind # "torn"
    /\ \A i, j \in MainLine(doc, p) : i = j
    /\ \A i, j \in KindLine(doc, "headers", p) : i = j
    /\ \A i \in KindLine(doc, "inline", p), j \in KindLine(doc, "headers", p) : FALSE

LEMMA AtMostOne ==
    ASSUME NEW S, IsFiniteSet(S)
    PROVE  /\ Cardinality(S) \in Nat
           /\ Cardinality(S) = 0 <=> S = {}
           /\ Cardinality(S) <= 1 <=> \A x, y \in S : x = y
<1>1. Cardinality(S) \in Nat /\ (Cardinality(S) = 0 <=> S = {})
  BY FS_CardinalityType, FS_EmptySet
<1>2. ASSUME Cardinality(S) <= 1, NEW x \in S, NEW y \in S PROVE x = y
  <2>1. Cardinality(S) = 1
    BY <1>1, <1>2
  <2>2. QED
    BY <2>1, FS_Singleton
<1>3. ASSUME \A x, y \in S : x = y PROVE Cardinality(S) <= 1
  <2>1. CASE S = {}
    BY <1>1, <2>1
  <2>2. CASE S # {}
    <3>1. PICK x : x \in S
      BY <2>2
    <3>2. S = {x}
      BY <1>3, <3>1
    <3>3. QED
      BY <3>2, FS_Singleton
  <2>3. QED
    BY <2>1, <2>2
<1>4. QED
  BY <1>1, <1>2, <1>3

LEMMA ParsesSingle ==
    ASSUME NEW doc \in DocType
    PROVE  Parses(doc) <=> \A p \in Profiles : Single(doc, p)
<1>1. ASSUME NEW p
      PROVE  (/\ Count(doc, "torn", p) = 0
              /\ Count(doc, "section", p) + Count(doc, "inline", p) <= 1
              /\ Count(doc, "headers", p) <= 1
              /\ Count(doc, "inline", p) = 0 \/ Count(doc, "headers", p) = 0)
             <=> Single(doc, p)
  <2>1. \A kind : Count(doc, kind, p) = Cardinality(KindLine(doc, kind, p))
                  /\ IsFiniteSet(KindLine(doc, kind, p))
    <3>1. DOMAIN doc = 1..Len(doc) /\ Len(doc) \in Nat
      BY LenProperties DEF DocType
    <3>2. IsFiniteSet(DOMAIN doc) /\ \A kind : KindLine(doc, kind, p) \subseteq DOMAIN doc
      BY <3>1, FS_Interval DEF KindLine
    <3>3. QED
      BY <3>2, FS_Subset DEF Count, KindLine
  <2> DEFINE S == KindLine(doc, "section", p)
             I == KindLine(doc, "inline", p)
             H == KindLine(doc, "headers", p)
             T == KindLine(doc, "torn", p)
  <2>2. MainLine(doc, p) = S \cup I /\ S \cap I = {}
    BY DEF MainLine, KindLine, Mention
  <2>3. T = {} <=> \A i \in DOMAIN doc : doc[i].of = p => doc[i].kind # "torn"
    BY DEF KindLine
  <2>4. IsFiniteSet(S) /\ IsFiniteSet(I) /\ IsFiniteSet(H) /\ IsFiniteSet(T)
    BY <2>1
  <2>5. /\ Count(doc, "torn", p) = Cardinality(T) /\ Count(doc, "headers", p) = Cardinality(H)
        /\ Count(doc, "inline", p) = Cardinality(I) /\ Count(doc, "section", p) = Cardinality(S)
    BY <2>1
  <2> HIDE DEF S, I, H, T
  <2>6. IsFiniteSet(S \cup I) /\ Cardinality(S \cup I) = Cardinality(S) + Cardinality(I)
    <3>1. IsFiniteSet(S \cup I)
          /\ Cardinality(S \cup I) = Cardinality(S) + Cardinality(I) - Cardinality(S \cap I)
      BY <2>4, FS_Union
    <3>2. Cardinality(S \cap I) = 0 /\ Cardinality(S) \in Nat /\ Cardinality(I) \in Nat
      BY <2>2, <2>4, FS_EmptySet, FS_CardinalityType
    <3>3. QED
      BY <3>1, <3>2
  <2>7. /\ Cardinality(T) = 0 <=> T = {}
        /\ Cardinality(I) = 0 <=> I = {}
        /\ Cardinality(H) = 0 <=> H = {}
        /\ Cardinality(H) <= 1 <=> \A x, y \in H : x = y
        /\ Cardinality(S \cup I) <= 1 <=> \A x, y \in S \cup I : x = y
    BY <2>4, <2>6, AtMostOne
  <2>8. (I = {} \/ H = {}) <=> \A i \in I, j \in H : FALSE
    OBVIOUS
  <2>9. Single(doc, p) <=> /\ T = {}
                           /\ \A x, y \in S \cup I : x = y
                           /\ \A x, y \in H : x = y
                           /\ I = {} \/ H = {}
    BY <2>2, <2>3, <2>8 DEF Single, H, I
  <2>10. QED
    BY <2>5, <2>6, <2>7, <2>9
<1>2. QED
  BY <1>1 DEF Parses

\* Lines outside the cut that are of p: none when its tables stand together.
LEMMA NoMoreOf ==
    ASSUME NEW doc \in DocType, NEW p \in Profiles, NEW F, NEW B, NEW R, NEW N,
           CutAt(doc, p, F, B, R, N), Parses(doc), Contiguous(doc),
           NEW j \in 1..Len(doc), j < B \/ R <= j
    PROVE  doc[j].of # p
<1>1. /\ DOMAIN doc = 1..Len(doc) /\ Len(doc) \in Nat /\ doc[j] \in LineType
      /\ F \in 1..Len(doc) /\ N \in (F + 1)..(Len(doc) + 1) /\ doc[F] \in LineType
      /\ profileSection(doc[F], p)
  BY ElementOfSeq, LenProperties DEF CutAt, DocType
<1>2. HasSection(doc, p)
  BY <1>1 DEF HasSection
<1>3. SUFFICES ASSUME doc[j].of = p PROVE FALSE
  OBVIOUS
<1>4. Single(doc, p) /\ KindLine(doc, "inline", p) = {}
  BY <1>2, ParsesSingle, NotInline
<1>5. doc[j].kind # "torn" /\ doc[j].kind # "inline"
  BY <1>1, <1>3, <1>4 DEF Single, KindLine
<1>6. isTable(doc[j])
  <2>1. doc[j].kind \in {"section", "headers"}
    BY <1>1, <1>3, <1>5, ConfigAssumption DEF LineType, Naming
  <2>2. QED
    BY <2>1 DEF isTable
<1>7. R <= j /\ N <= j /\ isTable(doc[N]) /\ doc[N].of # p
  BY <1>3, <1>6, CutTables
<1>8. F < N /\ N < j /\ N \in 1..Len(doc) /\ N # j
  BY <1>1, <1>3, <1>7
<1>9. doc[N].of = doc[F].of
  BY <1>1, <1>3, <1>6, <1>7, <1>8, ConfigAssumption DEF Contiguous, profileSection
<1>10. QED
  BY <1>1, <1>7, <1>9 DEF profileSection

\* Tidy documents that parse have the tables of a profile together.
LEMMA TidyContiguous ==
    ASSUME NEW doc \in DocType, Tidy(doc), Parses(doc)
    PROVE  Contiguous(doc)
<1>1. DOMAIN doc = 1..Len(doc) /\ Len(doc) \in Nat /\ \A i \in 1..Len(doc) : doc[i] \in LineType
  BY ElementOfSeq, LenProperties DEF DocType
<1>2. ASSUME NEW i \in DOMAIN doc, NEW j \in DOMAIN doc, NEW k \in DOMAIN doc, i < j, j < k,
             isTable(doc[i]), isTable(doc[j]), isTable(doc[k]),
             doc[i].of = doc[k].of, doc[i].of # NoProfile
      PROVE  doc[j].of = doc[i].of
  <2>1. PICK p : p = doc[i].of
    OBVIOUS
  <2>2. p \in Profiles
    BY <1>1, <1>2, <2>1 DEF LineType, Named
  <2>3. Single(doc, p)
    BY <2>2, ParsesSingle
  <2>4. doc[i].kind \in {"section", "headers"} /\ doc[k].kind \in {"section", "headers"}
    BY <1>1, <1>2 DEF LineType, Naming, isTable
  <2>5. i # k
    BY <1>1, <1>2
  <2>6. \A x, y \in DOMAIN doc :
          doc[x].of = p /\ doc[y].of = p /\ doc[x].kind = doc[y].kind
            /\ doc[x].kind \in {"section", "headers"} => x = y
    BY <2>3 DEF Single, MainLine, Mention, KindLine
  <2>7. doc[i].kind # doc[k].kind
    BY <1>2, <2>1, <2>4, <2>5, <2>6
  <2>8. PICK h \in {i, k}, o \in {i, k} : doc[h].kind = "headers" /\ doc[o].kind = "section"
    BY <2>4, <2>7
  <2>9. h # o /\ {h, o} = {i, k} /\ h \in DOMAIN doc /\ o \in DOMAIN doc
    BY <1>2, <2>8
  <2>10. doc[h].of = p /\ doc[o].of = p
    BY <1>2, <2>1, <2>9
  <2>11. PICK s \in DOMAIN doc :
           /\ doc[s].kind = "section" /\ doc[s].of = doc[h].of
           /\ \A x \in s..h \cup h..s : isTable(doc[x]) => doc[x].of = doc[h].of
    BY <2>8, <2>9 DEF Tidy
  <2>12. s = o
    BY <2>6, <2>8, <2>9, <2>10, <2>11
  <2>13. j \in o..h \cup h..o
    BY <1>1, <1>2, <2>8, <2>9
  <2>14. QED
    BY <1>2, <2>1, <2>10, <2>11, <2>12, <2>13
<1>3. QED
  BY <1>2 DEF Contiguous

-----------------------------------------------------------------------------
(* What an edit keeps true of a document.                                  *)

\* What takes the place of a block: nothing, or what install writes.
Fresh(block, p) == block = <<>> \/ Written(block, p)

EditAt(doc, p, block, out, F, B, R, N, K) ==
    /\ SplicedAt(doc, block, out, B, R, K) /\ CutAt(doc, p, F, B, R, N)
    /\ K = Len(block) /\ doc \in DocType /\ block \in DocType

LEMMA EditIs ==
    ASSUME NEW doc \in DocType, NEW p, HasSection(doc, p), NEW block, Fresh(block, p)
    PROVE  EditAt(doc, p, block, spliceProfileBlock(doc, p, block), FirstLine(doc, p),
                  BlockStart(doc, p), RestStart(doc, p, block), NextTable(doc, p), Len(block))
<1>1. block \in DocType
  BY EmptySeq DEF Fresh, Written, Blocky, DocType
<1>2. SplicedAt(doc, block, spliceProfileBlock(doc, p, block), BlockStart(doc, p),
                RestStart(doc, p, block), Len(block))
  BY <1>1, Spliced
<1>3. CutAt(doc, p, FirstLine(doc, p), BlockStart(doc, p), RestStart(doc, p, block), NextTable(doc, p))
  BY Cut
<1>4. QED
  BY <1>1, <1>2, <1>3 DEF EditAt

LEMMA FreshLines ==
    ASSUME NEW p, NEW block, Fresh(block, p), NEW k \in 1..Len(block)
    PROVE  /\ Written(block, p)
           /\ block[k].kind \in {"blank", "section", "headers"}
           /\ block[k].kind # "blank" => block[k].of = p /\ isTable(block[k])
           /\ isTable(block[k]) => block[k].of = p
           /\ block[k].kind = "blank" => block[k].of = NoProfile
           /\ block[k].kind = "section" => k = 2
           /\ block[k].kind = "headers" => k = 4
<1>1. Len(<<>>) = 0
  OBVIOUS
<1>2. Written(block, p)
  BY <1>1 DEF Fresh
<1>3. QED
  BY <1>2 DEF Written, isTable

\* The lines of the result, once more: those of the block, and those that stay.
LEMMA EditLines ==
    ASSUME NEW doc, NEW p, NEW block, NEW out, NEW F, NEW B, NEW R, NEW N, NEW K,
           EditAt(doc, p, block, out, F, B, R, N, K), NEW i \in DOMAIN out
    PROVE  \/ \E k \in 1..K : i = B - 1 + k /\ out[i] = block[k]
           \/ \E j \in DOMAIN doc :
                (j < B \/ R <= j) /\ i = Shift(B, K, R, j) /\ out[i] = doc[j]
<1>1. SplicedAt(doc, block, out, B, R, K) /\ doc \in DocType
  BY DEF EditAt
<1>2. out \in DocType
  BY <1>1 DEF SplicedAt
<1>3. DOMAIN out = 1..Len(out) /\ DOMAIN doc = 1..Len(doc)
  BY <1>1, <1>2, LenProperties DEF DocType
<1>4. i \in 1..Len(out)
  BY <1>3
<1>5. QED
  BY <1>1, <1>3, <1>4, Origin

\* A key above the first table stays there.
LEMMA RootedSplice ==
    ASSUME NEW doc \in DocType, NEW p, NEW block, HasSection(doc, p), Fresh(block, p), Rooted(doc)
    PROVE  Rooted(spliceProfileBlock(doc, p, block))
<1>1. PICK out, F, B, R, N, K :
        /\ EditAt(doc, p, block, out, F, B, R, N, K) /\ out = spliceProfileBlock(doc, p, block)
  BY EditIs
<1>2. /\ DOMAIN doc = 1..Len(doc) /\ Len(doc) \in Nat /\ F \in DOMAIN doc /\ isTable(doc[F])
      /\ B \in 1..F /\ R \in (F + 1)..N /\ \A x \in B..(F - 1) : blankLine(doc[x])
      /\ K \in Nat /\ K = Len(block)
  BY <1>1 DEF EditAt, SplicedAt, CutAt, profileSection
<1>3. ASSUME NEW i \in DOMAIN out, NEW j \in DOMAIN out,
             out[i].kind = "inline", isTable(out[j])
      PROVE  i < j
  <2>1. \A k \in 1..K : block[k].kind # "inline"
    BY <1>2, FreshLines
  <2>2. PICK i0 \in DOMAIN doc : (i0 < B \/ R <= i0) /\ i = Shift(B, K, R, i0) /\ out[i] = doc[i0]
    BY <1>1, <1>3, <2>1, EditLines
  <2>3. i0 < F
    BY <1>2, <1>3, <2>2 DEF Rooted
  <2>4. i0 < B /\ i = i0
    BY <1>2, <2>2, <2>3 DEF Shift
  <2>5. CASE \E k \in 1..K : j = B - 1 + k
    BY <1>2, <2>4, <2>5
  <2>6. CASE \E j0 \in DOMAIN doc :
               (j0 < B \/ R <= j0) /\ j = Shift(B, K, R, j0) /\ out[j] = doc[j0]
    <3>1. PICK j0 \in DOMAIN doc :
            (j0 < B \/ R <= j0) /\ j = Shift(B, K, R, j0) /\ out[j] = doc[j0]
      BY <2>6
    <3>2. i0 < j0
      BY <1>3, <2>2, <3>1 DEF Rooted
    <3>3. Shift(B, K, R, i0) < Shift(B, K, R, j0)
      BY <1>1, <1>2, <2>2, <3>1, <3>2, ShiftProps DEF EditAt
    <3>4. QED
      BY <2>2, <3>1, <3>3
  <2>7. QED
    BY <1>1, <1>3, <2>5, <2>6, EditLines
<1>4. QED
  BY <1>1, <1>3 DEF Rooted

\* The headers of a profile still have their section next to them.
LEMMA TidySplice ==
    ASSUME NEW doc \in DocType, NEW p, NEW block, HasSection(doc, p), Fresh(block, p), Tidy(doc)
    PROVE  Tidy(spliceProfileBlock(doc, p, block))
<1>1. PICK out, F, B, R, N, K :
        /\ EditAt(doc, p, block, out, F, B, R, N, K) /\ out = spliceProfileBlock(doc, p, block)
  BY EditIs
<1>2. /\ DOMAIN doc = 1..Len(doc) /\ Len(doc) \in Nat /\ F \in DOMAIN doc /\ isTable(doc[F])
      /\ B \in 1..F /\ N \in (F + 1)..(Len(doc) + 1) /\ R \in (F + 1)..N
      /\ doc[F].of = p /\ K \in Nat /\ K = Len(block)
      /\ CutAt(doc, p, F, B, R, N) /\ SplicedAt(doc, block, out, B, R, K)
      /\ \A k \in 1..K : out[B - 1 + k] = block[k]
      /\ out \in DocType /\ DOMAIN out = 1..Len(out) /\ Len(out) = Len(doc) + B + K - R
  <2>1. SplicedAt(doc, block, out, B, R, K) /\ CutAt(doc, p, F, B, R, N) /\ K = Len(block)
    BY <1>1 DEF EditAt
  <2>2. out \in DocType
    BY <2>1 DEF SplicedAt
  <2>3. DOMAIN out = 1..Len(out)
    BY <2>2, LenProperties DEF DocType
  <2>4. QED
    BY <2>1, <2>2, <2>3 DEF SplicedAt, CutAt, profileSection
<1>3. \A j \in DOMAIN doc : isTable(doc[j]) =>
        /\ B <= j /\ j < R => doc[j].of = p
        /\ j < B => doc[j].of # p
        /\ R <= j => N <= j /\ isTable(doc[N]) /\ doc[N].of # p
  <2>1. CutAt(doc, p, F, B, R, N) /\ DOMAIN doc = 1..Len(doc)
    BY <1>2
  <2>2. QED
    BY <2>1, CutTables
<1>4. /\ \A j \in DOMAIN doc : j < B \/ R <= j =>
           Shift(B, K, R, j) \in DOMAIN out /\ out[Shift(B, K, R, j)] = doc[j]
      /\ \A i, j \in DOMAIN doc :
           (i < B \/ R <= i) /\ (j < B \/ R <= j) =>
               (i < j <=> Shift(B, K, R, i) < Shift(B, K, R, j))
  <2>1. SplicedAt(doc, block, out, B, R, K) /\ DOMAIN doc = 1..Len(doc) /\ DOMAIN out = 1..Len(out)
    BY <1>2
  <2>2. QED
    BY <2>1, ShiftProps
<1>5. \A k \in 1..K : isTable(block[k]) => block[k].of = p
  BY <1>2, FreshLines
<1>6. /\ Len(doc) \in Int /\ K \in Int /\ F \in Int /\ B \in Int /\ R \in Int /\ N \in Int
      /\ 1 <= B /\ B <= F /\ F < R /\ R <= N /\ N <= Len(doc) + 1 /\ 0 <= K
      /\ \A i \in DOMAIN doc : i \in Int
      /\ \A i \in DOMAIN out : i \in Int
  BY <1>2
<1>7. ASSUME NEW h \in DOMAIN out, out[h].kind = "headers"
      PROVE  \E s \in DOMAIN out :
               /\ out[s].kind = "section" /\ out[s].of = out[h].of
               /\ \A x \in s..h \cup h..s : isTable(out[x]) => out[x].of = out[h].of
  <2>1. CASE \E k \in 1..K : h = B - 1 + k /\ out[h] = block[k]
    <3>1. PICK k \in 1..K : h = B - 1 + k /\ out[h] = block[k]
      BY <2>1
    <3>2. /\ k = 4 /\ out[h].of = p /\ block[2].kind = "section" /\ K >= 4
      <4>1. K = Len(block) /\ K \in Int /\ block[k].kind = "headers" /\ out[h].of = block[k].of
        BY <1>2, <1>7, <3>1
      <4>2. k \in 1..Len(block)
        BY <4>1
      <4>3. k = 4 /\ block[k].of = p /\ Written(block, p)
        BY <4>1, <4>2, FreshLines
      <4>4. QED
        BY <4>1, <4>3 DEF Written
    <3>3. PICK s : s = B + 1
      OBVIOUS
    <3>4. s \in DOMAIN out /\ out[s] = block[2] /\ s < h
      <4>1. 2 \in 1..K /\ s = B - 1 + 2 /\ s \in 1..Len(out) /\ s < h
        BY <1>2, <3>1, <3>2, <3>3
      <4>2. QED
        BY <1>2, <4>1
    <3>5. block[2].of = p
      <4>1. 2 \in 1..K /\ isTable(block[2])
        BY <1>6, <3>2 DEF isTable
      <4>2. QED
        BY <1>5, <4>1
    <3>6. ASSUME NEW x \in s..h \cup h..s, isTable(out[x]) PROVE out[x].of = p
      <4>1. s \in Int /\ h \in Int /\ s < h /\ B \in Int /\ K \in Int
            /\ s = B + 1 /\ h = B - 1 + 4 /\ 4 <= K
        BY <1>6, <3>1, <3>2, <3>3, <3>4
      <4>2. x \in s..h
        BY <4>1
      <4>3. x - B + 1 \in 1..K /\ x = B - 1 + (x - B + 1)
        BY <4>1, <4>2
      <4>4. out[x] = block[x - B + 1]
        BY <1>2, <4>3
      <4>5. QED
        BY <1>5, <3>6, <4>3, <4>4
    <3>7. QED
      BY <3>2, <3>4, <3>5, <3>6
  <2>2. CASE \E j \in DOMAIN doc : (j < B \/ R <= j) /\ h = Shift(B, K, R, j) /\ out[h] = doc[j]
    <3>1. PICK j \in DOMAIN doc : (j < B \/ R <= j) /\ h = Shift(B, K, R, j) /\ out[h] = doc[j]
      BY <2>2
    <3>2. PICK s \in DOMAIN doc :
            /\ doc[s].kind = "section" /\ doc[s].of = doc[j].of
            /\ \A x \in s..j \cup j..s : isTable(doc[x]) => doc[x].of = doc[j].of
      BY <1>7, <3>1 DEF Tidy
    <3>3. isTable(doc[s]) /\ isTable(doc[j])
      BY <1>7, <3>1, <3>2 DEF isTable
    <3>4. s < B \/ R <= s
      <4>1. SUFFICES ASSUME B <= s, s < R PROVE FALSE
        BY <1>2
      <4>2. doc[s].of = p
        BY <1>3, <3>3, <4>1
      <4>3. R <= j /\ N <= j /\ isTable(doc[N]) /\ doc[N].of # p
        BY <1>3, <3>1, <3>2, <3>3, <4>2
      <4>4. N \in s..j
        BY <1>2, <4>1, <4>3
      <4>5. QED
        BY <3>2, <4>2, <4>3, <4>4
    <3>5. PICK t : t = Shift(B, K, R, s)
      OBVIOUS
    <3>6. t \in DOMAIN out /\ out[t] = doc[s]
      BY <1>4, <3>4, <3>5
    <3>7. ASSUME NEW x \in t..h \cup h..t, isTable(out[x]) PROVE out[x].of = doc[j].of
      <4>1. x \in DOMAIN out
        <5>1. DOMAIN out = 1..Len(out) /\ Len(out) \in Int
          BY <1>2, <1>6
        <5>2. t \in 1..Len(out) /\ h \in 1..Len(out)
          BY <3>6, <5>1
        <5>3. QED
          BY <5>1, <5>2
      <4>2. CASE \E k \in 1..K : x = B - 1 + k /\ out[x] = block[k]
        <5>1. out[x].of = p /\ B <= x /\ x < B + K
          <6>1. PICK k \in 1..K : x = B - 1 + k /\ out[x] = block[k]
            BY <4>2
          <6>2. block[k].of = p
            BY <1>5, <3>7, <6>1
          <6>3. out[x].of = p
            BY <6>1, <6>2
          <6>4. B \in Int /\ K \in Int /\ x = B - 1 + k
            BY <1>6, <6>1
          <6>5. QED
            BY <6>3, <6>4
        <5>2. F \in s..j \cup j..s
          <6>1. /\ s < B => t = s
                /\ ~(s < B) => t = s + B + K - R
                /\ j < B => h = j
                /\ ~(j < B) => h = j + B + K - R
            BY <3>1, <3>5 DEF Shift
          <6>2. CASE s < B /\ j < B
            BY <1>2, <3>7, <5>1, <6>1, <6>2
          <6>3. CASE s < B /\ R <= j
            BY <1>2, <6>3
          <6>4. CASE R <= s /\ j < B
            BY <1>2, <6>4
          <6>5. CASE R <= s /\ R <= j
            <7>1. B + K <= t /\ B + K <= h /\ t \in Int /\ h \in Int
              BY <1>6, <6>1, <6>5
            <7>2. x < t /\ x < h
              BY <1>6, <5>1, <7>1
            <7>3. QED
              BY <3>7, <7>1, <7>2
          <6>6. QED
            BY <3>1, <3>4, <6>2, <6>3, <6>4, <6>5
        <5>3. QED
          BY <1>2, <3>2, <5>1, <5>2
      <4>3. CASE \E y \in DOMAIN doc : (y < B \/ R <= y) /\ x = Shift(B, K, R, y) /\ out[x] = doc[y]
        <5>1. PICK y \in DOMAIN doc : (y < B \/ R <= y) /\ x = Shift(B, K, R, y) /\ out[x] = doc[y]
          BY <4>3
        <5>2. /\ y < s <=> x < t
              /\ s < y <=> t < x
              /\ y < j <=> x < h
              /\ j < y <=> h < x
          BY <1>4, <3>1, <3>4, <3>5, <5>1
        <5>3. t \in Int /\ h \in Int /\ x \in Int /\ s \in Int /\ j \in Int /\ y \in Int
          BY <1>2, <3>6, <4>1
        <5>4. y \in s..j \cup j..s
          BY <3>7, <5>2, <5>3
        <5>5. QED
          BY <3>2, <3>7, <5>1, <5>4
      <4>4. QED
        BY <1>1, <4>1, <4>2, <4>3, EditLines
    <3>8. QED
      BY <3>1, <3>2, <3>6, <3>7
  <2>3. QED
    BY <1>1, <2>1, <2>2, EditLines
<1>8. QED
  BY <1>1, <1>7 DEF Tidy

LEMMA NobodyNamed == NoProfile \notin Profiles
BY ConfigAssumption

\* A document that parses still does: what is left of the profile is the block.
LEMMA ParsesSplice ==
    ASSUME NEW doc \in DocType, NEW p \in Profiles, NEW block, HasSection(doc, p), Fresh(block, p),
           Parses(doc), Contiguous(doc)
    PROVE  /\ Parses(spliceProfileBlock(doc, p, block))
           /\ block = <<>> => Mention(spliceProfileBlock(doc, p, block), p) = {}
<1>1. PICK out, F, B, R, N, K :
        /\ EditAt(doc, p, block, out, F, B, R, N, K) /\ out = spliceProfileBlock(doc, p, block)
  BY EditIs
<1>2. /\ CutAt(doc, p, F, B, R, N) /\ SplicedAt(doc, block, out, B, R, K) /\ out \in DocType
      /\ K = Len(block) /\ DOMAIN doc = 1..Len(doc)
  BY <1>1 DEF EditAt, SplicedAt, CutAt
<1>3. \A j \in DOMAIN doc : j < B \/ R <= j => doc[j].of # p
  BY <1>2, NoMoreOf
<1>4. \A k \in 1..K : /\ block[k].kind \in {"blank", "section", "headers"}
                      /\ block[k].kind # "blank" => block[k].of = p
                      /\ block[k].kind = "blank" => block[k].of = NoProfile
                      /\ block[k].kind = "section" => k = 2
                      /\ block[k].kind = "headers" => k = 4
  BY <1>2, FreshLines
<1>5. \A i \in DOMAIN out :
        \/ \E k \in 1..K : i = B - 1 + k /\ out[i] = block[k]
        \/ \E j \in DOMAIN doc : (j < B \/ R <= j) /\ i = Shift(B, K, R, j) /\ out[i] = doc[j]
  BY <1>1, EditLines
<1>6. Single(out, p)
  <2>1. \A i \in DOMAIN out : out[i].of = p =>
          \/ i = B + 1 /\ out[i].kind = "section"
          \/ i = B + 3 /\ out[i].kind = "headers"
    <3>1. ASSUME NEW i \in DOMAIN out, out[i].of = p
          PROVE  \/ i = B + 1 /\ out[i].kind = "section"
                 \/ i = B + 3 /\ out[i].kind = "headers"
      <4>1. PICK k \in 1..K : i = B - 1 + k /\ out[i] = block[k]
        BY <1>3, <1>5, <3>1
      <4>2. block[k].kind = "section" \/ block[k].kind = "headers"
        BY <1>4, <3>1, <4>1, ConfigAssumption
      <4>3. B \in Int
        BY <1>2 DEF CutAt
      <4>4. QED
        BY <1>4, <4>1, <4>2, <4>3
    <3>2. QED
      BY <3>1
  <2>2. \A i \in DOMAIN out : out[i].of = p => out[i].kind # "torn" /\ out[i].kind # "inline"
    BY <2>1
  <2>3. \A i, j \in MainLine(out, p) : i = j
    BY <2>1 DEF MainLine, Mention
  <2>4. \A i, j \in KindLine(out, "headers", p) : i = j
    BY <2>1 DEF KindLine
  <2>5. QED
    BY <2>2, <2>3, <2>4 DEF Single, KindLine
<1>7. ASSUME NEW q \in Profiles, q # p PROVE Single(out, q)
  <2>1. Single(doc, q)
    BY ParsesSingle
  <2>2. \A i \in DOMAIN out : out[i].of = q =>
          \E j \in DOMAIN doc : i = Shift(B, K, R, j) /\ out[i] = doc[j]
    <3>1. \A k \in 1..K : block[k].of # q
      BY <1>4, <1>7, NobodyNamed
    <3>2. QED
      BY <1>5, <3>1
  <2>3. \A i \in DOMAIN out : out[i].of = q => out[i].kind # "torn"
    BY <2>1, <2>2 DEF Single
  <2>4. \A i, j \in MainLine(out, q) : i = j
    BY <2>1, <2>2 DEF Single, MainLine, Mention
  <2>5. \A i, j \in KindLine(out, "headers", q) : i = j
    BY <2>1, <2>2 DEF Single, KindLine
  <2>6. \A i \in KindLine(out, "inline", q), j \in KindLine(out, "headers", q) : FALSE
    BY <2>1, <2>2 DEF Single, KindLine
  <2>7. QED
    BY <2>3, <2>4, <2>5, <2>6 DEF Single
<1>8. Parses(out)
  BY <1>2, <1>6, <1>7, ParsesSingle
<1>9. ASSUME block = <<>> PROVE Mention(out, p) = {}
  <2>1. K = 0
    BY <1>2, <1>9
  <2>2. \A i \in DOMAIN out : out[i].of # p
    BY <1>3, <1>5, <2>1
  <2>3. QED
    BY <2>2 DEF Mention
<1>10. QED
  BY <1>1, <1>8, <1>9

\* An edit leaves no line torn that was not.
LEMMA TornSplice ==
    ASSUME NEW doc \in DocType, NEW p, NEW block, HasSection(doc, p), Fresh(block, p), NEW P,
           \A i \in DOMAIN doc : doc[i].kind = "torn" => doc[i].of \in P
    PROVE  LET out == spliceProfileBlock(doc, p, block) IN
           \A i \in DOMAIN out : out[i].kind = "torn" => out[i].of \in P
<1>1. PICK out, F, B, R, N, K :
        /\ EditAt(doc, p, block, out, F, B, R, N, K) /\ out = spliceProfileBlock(doc, p, block)
  BY EditIs
<1>2. \A k \in 1..K : block[k].kind # "torn"
  BY <1>1, FreshLines DEF EditAt
<1>3. \A i \in DOMAIN out : out[i].kind = "torn" => out[i].of \in P
  BY <1>1, <1>2, EditLines
<1>4. QED
  BY <1>1, <1>3

-----------------------------------------------------------------------------
(* What an append keeps.                                                   *)

\* What an append adds: a block, or a blank line and a part of it.
Suffix(block, p) == Written(block, p) \/ block = <<Blank, Torn(p)>>

LEMMA TailLines ==
    ASSUME NEW p \in Profiles, NEW block, Suffix(block, p)
    PROVE  /\ block \in DocType /\ Len(block) \in Nat /\ Len(block) >= 2
           /\ \A k \in 1..Len(block) :
                /\ block[k].kind \in {"blank", "section", "headers", "torn"}
                /\ block[k].kind # "blank" => block[k].of = p
                /\ block[k].kind = "blank" => block[k].of = NoProfile
                /\ block[k].kind = "section" => k = 2
                /\ block[k].kind = "headers" => k = 4
                /\ block[k].kind = "torn" => block = <<Blank, Torn(p)>>
           /\ Written(block, p) => block[2].kind = "section" /\ block[2].of = p
<1>1. CASE Written(block, p)
  <2>1. /\ block \in DocType /\ Len(block) \in Nat /\ Len(block) >= 2 /\ block[2].kind = "section"
        /\ 2 \in 1..Len(block)
    BY <1>1, LenProperties DEF Written, Blocky, DocType
  <2>2. \A k \in 1..Len(block) :
                /\ block[k].kind \in {"blank", "section", "headers"}
                /\ block[k].kind # "blank" => block[k].of = p
                /\ block[k].kind = "blank" => block[k].of = NoProfile
                /\ block[k].kind = "section" => k = 2
                /\ block[k].kind = "headers" => k = 4
    BY <1>1, FreshLines DEF Fresh
  <2>3. QED
    BY <2>1, <2>2
<1>2. CASE block = <<Blank, Torn(p)>>
  <2>1. block \in DocType
    BY <1>2, TornType
  <2>2. Len(block) = 2 /\ block[1] = Blank /\ block[2] = Torn(p) /\ 1..Len(block) = {1, 2}
    BY <1>2
  <2>3. /\ block[1].kind = "blank" /\ block[1].of = NoProfile
        /\ block[2].kind = "torn" /\ block[2].of = p
    <3>1. /\ Blank.kind = "blank" /\ Blank.of = NoProfile
          /\ Torn(p).kind = "torn" /\ Torn(p).of = p
      BY DEF Blank, Torn, Line
    <3>2. QED
      BY <2>2, <3>1
  <2>4. ~Written(block, p)
    BY <2>3 DEF Written
  <2>5. QED
    BY <1>2, <2>1, <2>2, <2>3, <2>4
<1>3. QED
  BY <1>1, <1>2 DEF Suffix

AppendedAt(doc, block, out) ==
    /\ out \in DocType /\ Len(doc) \in Nat /\ DOMAIN doc = 1..Len(doc)
    /\ Len(out) = Len(doc) + Len(block) /\ DOMAIN out = 1..Len(out)
    /\ \A i \in DOMAIN doc : i \in DOMAIN out /\ out[i] = doc[i]
    /\ \A k \in 1..Len(block) : Len(doc) + k \in DOMAIN out /\ out[Len(doc) + k] = block[k]
    /\ \A i \in DOMAIN out : i \notin DOMAIN doc =>
         \E k \in 1..Len(block) : i = Len(doc) + k /\ out[i] = block[k]

LEMMA AppendLines ==
    ASSUME NEW doc \in DocType, NEW p \in Profiles, NEW block, Suffix(block, p),
           NEW out, out = doc \o block
    PROVE  AppendedAt(doc, block, out)
<1>1. PICK L, M : L = Len(doc) /\ M = Len(block)
  OBVIOUS
<1>2. block \in DocType /\ L \in Nat /\ M \in Nat
  BY <1>1, TailLines, LenProperties DEF DocType
<1>3. /\ out \in DocType /\ Len(out) = L + M
      /\ \A i \in 1..L : out[i] = doc[i]
      /\ \A i \in 1..M : out[L + i] = block[i]
  BY <1>1, <1>2, Concatenated DEF DocType
<1>4. DOMAIN out = 1..(L + M) /\ DOMAIN doc = 1..L
  BY <1>1, <1>3, LenProperties DEF DocType
<1>5. ASSUME NEW i \in 1..(L + M), i \notin 1..L
      PROVE  \E k \in 1..M : i = L + k /\ out[i] = block[k]
  <2>1. i - L \in 1..M /\ i = L + (i - L)
    BY <1>2, <1>5
  <2>2. QED
    BY <1>3, <2>1
<1>6. \A k \in 1..M : L + k \in 1..(L + M)
  BY <1>2
<1>7. \A i \in 1..L : i \in 1..(L + M)
  BY <1>2
<1>8. QED
  BY <1>1, <1>2, <1>3, <1>4, <1>5, <1>6, <1>7 DEF AppendedAt

LEMMA RootedAppend ==
    ASSUME NEW doc \in DocType, NEW p \in Profiles, NEW block, Suffix(block, p), Rooted(doc)
    PROVE  Rooted(doc \o block)
<1>1. PICK out : out = doc \o block
  OBVIOUS
<1>2. /\ Len(doc) \in Nat /\ DOMAIN doc = 1..Len(doc) /\ DOMAIN out = 1..Len(out)
      /\ \A i \in DOMAIN doc : out[i] = doc[i]
      /\ \A i \in DOMAIN out : i \notin DOMAIN doc =>
           \E k \in 1..Len(block) : i = Len(doc) + k /\ out[i] = block[k]
  <2>1. AppendedAt(doc, block, out)
    BY <1>1, AppendLines
  <2>2. QED
    BY <2>1 DEF AppendedAt
<1>3. \A k \in 1..Len(block) : block[k].kind # "inline"
  BY TailLines
<1>4. ASSUME NEW i \in DOMAIN out, NEW j \in DOMAIN out, out[i].kind = "inline", isTable(out[j])
      PROVE  i < j
  <2>1. i \in DOMAIN doc /\ doc[i].kind = "inline"
    BY <1>2, <1>3, <1>4
  <2>2. CASE j \in DOMAIN doc
    BY <1>2, <1>4, <2>1, <2>2 DEF Rooted
  <2>3. CASE j \notin DOMAIN doc
    BY <1>2, <2>1, <2>3
  <2>4. QED
    BY <2>2, <2>3
<1>5. QED
  BY <1>1, <1>4 DEF Rooted

LEMMA TidyAppend ==
    ASSUME NEW doc \in DocType, NEW p \in Profiles, NEW block, Suffix(block, p), Tidy(doc)
    PROVE  Tidy(doc \o block)
<1>1. PICK out, L : out = doc \o block /\ L = Len(doc)
  OBVIOUS
<1>2. /\ L \in Nat /\ DOMAIN doc = 1..L /\ DOMAIN out = 1..Len(out) /\ Len(out) = L + Len(block)
      /\ \A i \in DOMAIN doc : i \in DOMAIN out /\ out[i] = doc[i]
      /\ \A k \in 1..Len(block) : L + k \in DOMAIN out /\ out[L + k] = block[k]
      /\ \A i \in DOMAIN out : i \notin DOMAIN doc =>
           \E k \in 1..Len(block) : i = L + k /\ out[i] = block[k]
  <2>1. AppendedAt(doc, block, out)
    BY <1>1, AppendLines
  <2>2. QED
    BY <1>1, <2>1 DEF AppendedAt
<1>3. ASSUME NEW h \in DOMAIN out, out[h].kind = "headers"
      PROVE  \E s \in DOMAIN out :
               /\ out[s].kind = "section" /\ out[s].of = out[h].of
               /\ \A x \in s..h \cup h..s : isTable(out[x]) => out[x].of = out[h].of
  <2>1. CASE h \in DOMAIN doc
    <3>1. PICK s \in DOMAIN doc :
            /\ doc[s].kind = "section" /\ doc[s].of = doc[h].of
            /\ \A x \in s..h \cup h..s : isTable(doc[x]) => doc[x].of = doc[h].of
      BY <1>2, <1>3, <2>1 DEF Tidy
    <3>2. \A x \in s..h \cup h..s : x \in DOMAIN doc
      BY <1>2, <2>1
    <3>3. QED
      BY <1>2, <2>1, <3>1, <3>2
  <2>2. CASE h \notin DOMAIN doc
    <3>1. PICK k \in 1..Len(block) : h = L + k /\ out[h] = block[k]
      BY <1>2, <2>2
    <3>2. k = 4 /\ block[k].of = p
      BY <1>3, <3>1, TailLines
    <3>3. block[2].kind = "section" /\ block[2].of = p /\ 2 \in 1..Len(block)
      <4>1. block # <<Blank, Torn(p)>>
        <5>1. Len(<<Blank, Torn(p)>>) = 2
          OBVIOUS
        <5>2. Len(block) >= 4
          BY <3>2, TailLines
        <5>3. Len(block) \in Nat /\ Len(block) # 2
          BY <5>2, TailLines
        <5>4. QED
          BY <5>1, <5>3
      <4>2. QED
        BY <4>1, TailLines DEF Suffix
    <3>4. L + 2 \in DOMAIN out /\ out[L + 2] = block[2]
      BY <1>2, <3>3
    <3>5. ASSUME NEW x \in (L + 2)..h, isTable(out[x]) PROVE out[x].of = p
      <4>1. x \in DOMAIN out /\ x \notin DOMAIN doc
        BY <1>2, <3>1, <3>5
      <4>2. PICK j \in 1..Len(block) : out[x] = block[j]
        BY <1>2, <4>1
      <4>3. QED
        BY <3>5, <4>2, TailLines DEF isTable
    <3>6. \A x \in (L + 2)..h \cup h..(L + 2) : x \in (L + 2)..h
      BY <1>2, <3>1, <3>2
    <3>7. QED
      BY <3>1, <3>2, <3>3, <3>4, <3>5, <3>6
  <2>3. QED
    BY <2>1, <2>2
<1>4. QED
  BY <1>1, <1>3 DEF Tidy

\* A profile that is new to the document does not break it.
LEMMA ParsesAppend ==
    ASSUME NEW doc \in DocType, NEW p \in Profiles, NEW block, Written(block, p),
           Parses(doc), Mention(doc, p) = {}
    PROVE  Parses(doc \o block)
<1>1. PICK out, L : out = doc \o block /\ L = Len(doc)
  OBVIOUS
<1>2. /\ L \in Nat /\ DOMAIN doc = 1..L /\ DOMAIN out = 1..Len(out) /\ out \in DocType
      /\ \A i \in DOMAIN doc : out[i] = doc[i]
      /\ \A i \in DOMAIN out : i \notin DOMAIN doc =>
           \E k \in 1..Len(block) : i = L + k /\ out[i] = block[k]
  <2>1. Suffix(block, p)
    BY DEF Suffix
  <2>2. AppendedAt(doc, block, out)
    BY <1>1, <2>1, AppendLines
  <2>3. QED
    BY <1>1, <2>2 DEF AppendedAt
<1>3. \A k \in 1..Len(block) :
        /\ block[k].kind \in {"blank", "section", "headers"}
        /\ block[k].kind # "blank" => block[k].of = p
        /\ block[k].kind = "blank" => block[k].of = NoProfile
        /\ block[k].kind = "section" => k = 2
        /\ block[k].kind = "headers" => k = 4
  BY FreshLines DEF Fresh
<1>4. Single(out, p)
  <2>1. \A i \in DOMAIN out : out[i].of = p =>
          \/ i = L + 2 /\ out[i].kind = "section"
          \/ i = L + 4 /\ out[i].kind = "headers"
    <3>1. ASSUME NEW i \in DOMAIN out, out[i].of = p
          PROVE  \/ i = L + 2 /\ out[i].kind = "section"
                 \/ i = L + 4 /\ out[i].kind = "headers"
      <4>1. i \notin DOMAIN doc
        BY <1>2, <3>1 DEF Mention
      <4>2. PICK k \in 1..Len(block) : i = L + k /\ out[i] = block[k]
        BY <1>2, <3>1, <4>1
      <4>3. QED
        BY <1>3, <3>1, <4>2, NobodyNamed
    <3>2. QED
      BY <3>1
  <2>2. \A i \in DOMAIN out : out[i].of = p => out[i].kind # "torn" /\ out[i].kind # "inline"
    BY <2>1
  <2>3. \A i, j \in MainLine(out, p) : i = j
    BY <2>1 DEF MainLine, Mention
  <2>4. \A i, j \in KindLine(out, "headers", p) : i = j
    BY <2>1 DEF KindLine
  <2>5. QED
    BY <2>2, <2>3, <2>4 DEF Single, KindLine
<1>5. ASSUME NEW q \in Profiles, q # p PROVE Single(out, q)
  <2>1. Single(doc, q)
    BY ParsesSingle
  <2>2. \A i \in DOMAIN out : out[i].of = q => i \in DOMAIN doc /\ out[i] = doc[i]
    <3>1. \A k \in 1..Len(block) : block[k].of # q
      BY <1>3, <1>5, NobodyNamed
    <3>2. QED
      BY <1>2, <3>1
  <2>3. QED
    BY <2>1, <2>2 DEF Single, MainLine, Mention, KindLine
<1>6. QED
  BY <1>1, <1>2, <1>4, <1>5, ParsesSingle

-----------------------------------------------------------------------------
(* Whose a line is.                                                        *)

\* Line i stands in table t (0: above the first), and n is the next table
\* after it (one beyond the last line: none).
Around(doc, i, t, n) ==
    /\ t \in 0..i /\ (t # 0 => isTable(doc[t])) /\ \A h \in (t + 1)..i : ~isTable(doc[h])
    /\ n \in (i + 1)..(Len(doc) + 1) /\ (n <= Len(doc) => isTable(doc[n]))
    /\ \A h \in (i + 1)..(n - 1) : ~isTable(doc[h])

LEMMA SomeAround ==
    ASSUME NEW doc \in DocType, NEW i \in DOMAIN doc
    PROVE  \E t \in Nat, n \in Nat : Around(doc, i, t, n)
<1>1. DOMAIN doc = 1..Len(doc) /\ Len(doc) \in Nat /\ i \in 1..Len(doc)
  BY LenProperties DEF DocType
<1> DEFINE S == {h \in 1..i : isTable(doc[h])} \cup {0}
           T == {h \in (i + 1)..Len(doc) : isTable(doc[h])} \cup {Len(doc) + 1}
<1>2. S \subseteq 0..i /\ S # {} /\ i \in Nat
  BY <1>1
<1>3. Max(S) \in S /\ \A x \in S : x <= Max(S)
  BY <1>2, MaxOf
<1>4. T \subseteq Nat /\ T # {}
  BY <1>1
<1>5. Min(T) \in T /\ \A x \in T : Min(T) <= x
  BY <1>4, MinOf
<1>6. PICK t, n : t = Max(S) /\ n = Min(T)
  OBVIOUS
<1>7. t \in 0..i /\ (t # 0 => isTable(doc[t])) /\ \A h \in (t + 1)..i : ~isTable(doc[h])
  BY <1>1, <1>3, <1>6
<1>8. /\ n \in (i + 1)..(Len(doc) + 1) /\ (n <= Len(doc) => isTable(doc[n]))
      /\ \A h \in (i + 1)..(n - 1) : ~isTable(doc[h])
  <2>1. n \in T /\ \A x \in T : n <= x
    BY <1>5, <1>6
  <2>2. n \in (i + 1)..(Len(doc) + 1) /\ (n <= Len(doc) => isTable(doc[n]))
    BY <1>1, <2>1
  <2>3. ASSUME NEW h \in (i + 1)..(n - 1), isTable(doc[h]) PROVE FALSE
    <3>1. h \in (i + 1)..Len(doc)
      BY <1>1, <2>2
    <3>2. n <= h
      BY <2>1, <2>3, <3>1
    <3>3. QED
      BY <1>1, <2>2, <3>2
  <2>4. QED
    BY <2>2, <2>3
<1>9. QED
  BY <1>1, <1>7, <1>8 DEF Around

LEMMA TableIs ==
    ASSUME NEW doc, NEW i \in Nat, NEW t \in 0..i, t # 0 => isTable(doc[t]),
           \A h \in (t + 1)..i : ~isTable(doc[h])
    PROVE  TableAt(doc, i) = t
<1> DEFINE S == {h \in 1..i : isTable(doc[h])} \cup {0}
<1>1. S \subseteq 0..i /\ S # {}
  OBVIOUS
<1>2. Max(S) \in S /\ \A x \in S : x <= Max(S)
  BY <1>1, MaxOf
<1>3. t \in S /\ \A x \in S : x <= t
  OBVIOUS
<1>4. Max(S) = t
  BY <1>1, <1>2, <1>3
<1>5. QED
  BY <1>4 DEF TableAt

\* The profile of a table, or of none.
OfTable(doc, t) == IF t \in DOMAIN doc THEN doc[t].of ELSE NoProfile

\* Line i is a comment that leads to another table.
Between(doc, i, t, n) ==
    /\ commentLine(doc[i]) /\ OfTable(doc, n) # OfTable(doc, t)
    /\ \A j \in i..(n - 1) : blankLine(doc[j]) \/ commentLine(doc[j])

\* Owner by the tables around a line.
LEMMA OwnerIs ==
    ASSUME NEW doc \in DocType, NEW i \in DOMAIN doc, ~blankLine(doc[i]),
           NEW t \in Nat, NEW n \in Nat, Around(doc, i, t, n)
    PROVE  Owner(doc, i) = IF doc[i].kind \in {"inline", "torn"} THEN doc[i].of
                           ELSE IF Between(doc, i, t, n) THEN NoProfile
                           ELSE OfTable(doc, t)
<1>1. DOMAIN doc = 1..Len(doc) /\ Len(doc) \in Nat /\ i \in 1..Len(doc)
  BY LenProperties DEF DocType
<1>2. /\ t \in 0..i /\ (t # 0 => isTable(doc[t])) /\ \A h \in (t + 1)..i : ~isTable(doc[h])
      /\ n \in (i + 1)..(Len(doc) + 1) /\ (n <= Len(doc) => isTable(doc[n]))
      /\ \A h \in (i + 1)..(n - 1) : ~isTable(doc[h])
  BY DEF Around
<1>3. TableAt(doc, i) = t
  BY <1>1, <1>2, TableIs
<1> DEFINE of == IF t = 0 THEN NoProfile ELSE doc[t].of
           leads == IF TablesAfter(doc, i) = {} THEN NoProfile
                    ELSE doc[Min(TablesAfter(doc, i))].of
<1>4. of = OfTable(doc, t)
  BY <1>1, <1>2 DEF OfTable
<1>5. Owner(doc, i) = IF doc[i].kind \in {"inline", "torn"} THEN doc[i].of
                      ELSE IF Trailing(doc, i) /\ leads # of THEN NoProfile ELSE of
  <2>1. CASE doc[i].kind \in {"inline", "torn"}
    <3>1. ~Trailing(doc, i)
      BY <1>1, <2>1 DEF Trailing
    <3>2. QED
      BY <2>1, <3>1 DEF Owner
  <2>2. CASE doc[i].kind \notin {"inline", "torn"} /\ Trailing(doc, i) /\ leads # of
    BY <1>3, <2>2 DEF Owner
  <2>3. CASE doc[i].kind \notin {"inline", "torn"} /\ ~(Trailing(doc, i) /\ leads # of)
    BY <1>3, <2>3 DEF Owner
  <2>4. QED
    BY <2>1, <2>2, <2>3
<1> HIDE DEF of, leads
<1>6. CASE ~commentLine(doc[i])
  <2>1. ~Trailing(doc, i)
    BY <1>1, <1>6 DEF Trailing, blankLine, commentLine
  <2>2. ~Between(doc, i, t, n)
    BY <1>6 DEF Between
  <2>3. QED
    BY <1>4, <1>5, <2>1, <2>2
<1>7. CASE commentLine(doc[i])
  <2>1. ~isTable(doc[i])
    BY <1>7 DEF commentLine, isTable
  <2>2. leads = OfTable(doc, n)
    <3>1. CASE n <= Len(doc)
      <4>1. n \in TablesAfter(doc, i) /\ \A x \in TablesAfter(doc, i) : n <= x
        BY <1>1, <1>2, <2>1, <3>1 DEF TablesAfter
      <4>2. TablesAfter(doc, i) \subseteq Nat
        BY <1>1 DEF TablesAfter
      <4>3. Min(TablesAfter(doc, i)) \in TablesAfter(doc, i)
            /\ \A x \in TablesAfter(doc, i) : Min(TablesAfter(doc, i)) <= x
        BY <4>1, <4>2, MinOf
      <4>4. Min(TablesAfter(doc, i)) = n
        BY <4>1, <4>2, <4>3
      <4>5. QED
        BY <1>1, <1>2, <3>1, <4>1, <4>4 DEF OfTable, leads
    <3>2. CASE ~(n <= Len(doc))
      <4>1. TablesAfter(doc, i) = {}
        BY <1>1, <1>2, <2>1, <3>2 DEF TablesAfter
      <4>2. QED
        BY <1>1, <3>2, <4>1 DEF OfTable, leads
    <3>3. QED
      BY <3>1, <3>2
  <2>3. Trailing(doc, i) <=> \A j \in i..(n - 1) : blankLine(doc[j]) \/ commentLine(doc[j])
    <3>1. \A j \in i..(n - 1) : TableAt(doc, j) = t
      <4>1. ASSUME NEW j \in i..(n - 1) PROVE TableAt(doc, j) = t
        <5>1. j \in Nat /\ t \in 0..j /\ \A h \in (t + 1)..j : ~isTable(doc[h])
          BY <1>1, <1>2
        <5>2. QED
          BY <1>2, <5>1, TableIs
      <4>2. QED
        BY <4>1
    <3>2. \A j \in n..Len(doc) : TableAt(doc, j) # t
      <4>1. ASSUME NEW j \in n..Len(doc) PROVE TableAt(doc, j) # t
        <5>1. j \in 1..Len(doc) /\ n <= Len(doc) /\ n \in 1..j
          BY <1>1, <1>2
        <5> DEFINE S == {h \in 1..j : isTable(doc[h])} \cup {0}
        <5>2. S \subseteq 0..j /\ S # {} /\ n \in S /\ j \in Nat
          BY <1>2, <5>1
        <5>3. n <= Max(S)
          BY <5>2, MaxOf
        <5>4. Max(S) \in S
          BY <5>2, MaxOf
        <5>5. Max(S) # t
          BY <1>1, <1>2, <5>2, <5>3, <5>4
        <5>6. QED
          BY <5>5 DEF TableAt
      <4>2. QED
        BY <4>1
    <3>3. \A j \in i..Len(doc) : TableAt(doc, j) = TableAt(doc, i) <=> j \in i..(n - 1)
      BY <1>1, <1>2, <1>3, <3>1, <3>2
    <3>4. i..(n - 1) \subseteq i..Len(doc)
      BY <1>1, <1>2
    <3>5. QED
      BY <3>3, <3>4 DEF Trailing, blankLine, commentLine
  <2>4. QED
    BY <1>4, <1>5, <1>7, <2>2, <2>3 DEF Between
<1>8. QED
  BY <1>6, <1>7

\* What an edit leaves and cuts, in numbers: D lines are added.
Stays(doc, block, out, B, R, K, D) ==
    /\ Len(doc) \in Nat /\ DOMAIN doc = 1..Len(doc) /\ doc \in DocType
    /\ Len(out) \in Nat /\ DOMAIN out = 1..Len(out) /\ out \in DocType
    /\ B \in 1..Len(doc) /\ R \in (B + 1)..(Len(doc) + 1) /\ K \in Nat
    /\ D = B + K - R /\ D \in Int /\ Len(out) = Len(doc) + D
    /\ \A i \in 1..(B - 1) : out[i] = doc[i]
    /\ \A k \in 1..K : out[B - 1 + k] = block[k]
    /\ \A i \in R..Len(doc) : out[i + D] = doc[i]

LEMMA EditKeeps ==
    ASSUME NEW doc, NEW p, NEW block, NEW out, NEW F, NEW B, NEW R, NEW N, NEW K,
           EditAt(doc, p, block, out, F, B, R, N, K), NEW D, D = B + K - R
    PROVE  Stays(doc, block, out, B, R, K, D)
<1>1. SplicedAt(doc, block, out, B, R, K) /\ CutAt(doc, p, F, B, R, N) /\ doc \in DocType
  BY DEF EditAt
<1>2. /\ Len(doc) \in Nat /\ DOMAIN doc = 1..Len(doc) /\ out \in DocType
      /\ B \in 1..Len(doc) /\ R \in (B + 1)..(Len(doc) + 1) /\ K \in Nat
      /\ Len(out) = Len(doc) + B + K - R
      /\ \A i \in 1..(B - 1) : out[i] = doc[i]
      /\ \A k \in 1..K : out[B - 1 + k] = block[k]
      /\ \A i \in R..Len(doc) : out[i + B + K - R] = doc[i]
  BY <1>1 DEF SplicedAt, CutAt
<1>3. Len(out) \in Nat /\ DOMAIN out = 1..Len(out)
  BY <1>2, LenProperties DEF DocType
<1>4. D \in Int /\ Len(out) = Len(doc) + D /\ \A i \in R..Len(doc) : i + D = i + B + K - R
  BY <1>2
<1>5. QED
  BY <1>1, <1>2, <1>3, <1>4 DEF Stays

\* The numbers alone.
LEMMA StaysNumbers ==
    ASSUME NEW doc, NEW block, NEW out, NEW B, NEW R, NEW K, NEW D,
           Stays(doc, block, out, B, R, K, D)
    PROVE  /\ Len(doc) \in Nat /\ DOMAIN doc = 1..Len(doc)
           /\ Len(out) \in Nat /\ DOMAIN out = 1..Len(out)
           /\ B \in Nat /\ R \in Nat /\ K \in Nat /\ D \in Int
           /\ 1 <= B /\ B < R /\ R <= Len(doc) + 1
           /\ D = B + K - R /\ Len(out) = Len(doc) + D
BY DEF Stays

\* Where a line of the result between two moved lines came from.
LEMMA ShiftedBack ==
    ASSUME NEW a \in Int, NEW b \in Int, NEW d \in Int
    PROVE  /\ \A h \in (a + d + 1)..(b + d - 1) : h \in Int /\ h - d \in (a + 1)..(b - 1)
           /\ \A h \in (a + d + 1)..(b + d) : h \in Int /\ h - d \in (a + 1)..b
           /\ \A h \in (a + d)..(b + d - 1) : h \in Int /\ h - d \in a..(b - 1)
<1>1. ASSUME NEW h \in (a + d + 1)..(b + d - 1) PROVE h \in Int /\ h - d \in (a + 1)..(b - 1)
  OBVIOUS
<1>2. ASSUME NEW h \in (a + d + 1)..(b + d) PROVE h \in Int /\ h - d \in (a + 1)..b
  OBVIOUS
<1>3. ASSUME NEW h \in (a + d)..(b + d - 1) PROVE h \in Int /\ h - d \in a..(b - 1)
  OBVIOUS
<1>4. QED
  BY <1>1, <1>2, <1>3

\* Below the cut every line has its tables around it, as before.
LEMMA OwnerAfter ==
    ASSUME NEW doc, NEW p, NEW block, NEW out, NEW F, NEW B, NEW R, NEW N, NEW K,
           EditAt(doc, p, block, out, F, B, R, N, K), NEW D, D = B + K - R,
           NEW j \in N..Len(doc), ~blankLine(doc[j])
    PROVE  Owner(out, j + D) = Owner(doc, j)
<1>1. Stays(doc, block, out, B, R, K, D)
  BY EditKeeps
<1>2. F \in 1..Len(doc) /\ N \in (F + 1)..(Len(doc) + 1) /\ R \in (F + 1)..N
      /\ isTable(doc[N])
  BY <1>1 DEF EditAt, CutAt, Stays
<1>3. j \in 1..Len(doc) /\ j \in DOMAIN doc
  BY <1>1, <1>2 DEF Stays
<1>4. PICK t \in Nat, n \in Nat : Around(doc, j, t, n)
  BY <1>1, <1>3, SomeAround DEF Stays
<1>5. /\ t \in 0..j /\ (t # 0 => isTable(doc[t])) /\ \A h \in (t + 1)..j : ~isTable(doc[h])
      /\ n \in (j + 1)..(Len(doc) + 1) /\ (n <= Len(doc) => isTable(doc[n]))
      /\ \A h \in (j + 1)..(n - 1) : ~isTable(doc[h])
  BY <1>4 DEF Around
<1>6. N <= t
  BY <1>2, <1>3, <1>5
<1>7. \A i \in N..Len(doc) : i + D \in DOMAIN out /\ out[i + D] = doc[i]
  BY <1>1, <1>2 DEF Stays
<1>8. \A i \in Int : N <= i - D /\ i - D <= Len(doc) => out[i] = doc[i - D]
  <2>1. ASSUME NEW i \in Int, N <= i - D, i - D <= Len(doc) PROVE out[i] = doc[i - D]
    <3>1. PICK m : m = i - D
      OBVIOUS
    <3>2. m \in N..Len(doc) /\ m + D = i
      BY <1>1, <1>2, <2>1, <3>1 DEF Stays
    <3>3. QED
      BY <1>7, <3>1, <3>2
  <2>2. QED
    BY <2>1
<1>a. /\ Len(doc) \in Int /\ Len(out) \in Int /\ D \in Int /\ Len(out) = Len(doc) + D
      /\ N \in Int /\ j \in Int /\ t \in Int /\ n \in Int /\ 0 <= n + D
      /\ 1 <= N /\ N <= t /\ t <= j /\ j <= Len(doc) /\ j < n /\ n <= Len(doc) + 1
  <2>1. N \in Int /\ 1 <= N
    BY <1>1, <1>2 DEF Stays
  <2>2. n \in Int /\ t \in Int /\ j \in Int /\ t <= j /\ j < n /\ n <= Len(doc) + 1 /\ j <= Len(doc)
    BY <1>3, <1>5
  <2>3. N <= t + 0 /\ 1 <= j + D
    BY <1>1, <1>3, <1>6, <1>7 DEF Stays
  <2>4. Len(doc) \in Int /\ Len(out) \in Int /\ D \in Int /\ Len(out) = Len(doc) + D
    BY <1>1 DEF Stays
  <2>5. 0 <= n + D
    BY <2>2, <2>3, <2>4
  <2>6. QED
    BY <1>6, <2>1, <2>2, <2>4, <2>5
<1>9. Around(out, j + D, t + D, n + D) /\ t + D \in Nat /\ n + D \in Nat
  <2>1. t \in N..Len(doc) /\ t + D \in DOMAIN out /\ out[t + D] = doc[t]
    BY <1>1, <1>3, <1>5, <1>6, <1>7 DEF Stays
  <2>2. t + D \in 1..(j + D) /\ isTable(out[t + D])
    <3>1. t # 0 /\ t \in 1..j
      BY <1>2, <1>5, <1>6
    <3>2. isTable(out[t + D])
      BY <1>5, <2>1, <3>1
    <3>3. t + D >= 1 /\ t + D <= j + D /\ t + D \in Int /\ j + D \in Int
      BY <1>1, <1>3, <2>1, <3>1 DEF Stays
    <3>4. QED
      BY <3>2, <3>3
  <2>3. ASSUME NEW h \in (t + D + 1)..(j + D) PROVE ~isTable(out[h])
    <3>1. h - D \in (t + 1)..j /\ h \in Int /\ N <= h - D /\ h - D <= Len(doc)
      <4>1. D \in Int /\ t \in Int /\ j \in Int
        BY <1>a
      <4>2. h \in Int /\ h - D \in (t + 1)..j
        BY <4>1, ShiftedBack, Zenon
      <4>3. PICK m : m = h - D
        OBVIOUS
      <4>4. m \in (t + 1)..j
        BY <4>2, <4>3
      <4>5. N <= m /\ m <= Len(doc)
        BY <1>a, <4>4
      <4>6. QED
        BY <4>2, <4>3, <4>5
    <3>2. out[h] = doc[h - D]
      BY <1>8, <3>1
    <3>3. QED
      BY <1>5, <3>1, <3>2
  <2>4. ASSUME NEW h \in (j + D + 1)..(n + D - 1) PROVE ~isTable(out[h])
    <3>1. h - D \in (j + 1)..(n - 1) /\ h \in Int /\ N <= h - D /\ h - D <= Len(doc)
      <4>1. D \in Int /\ j \in Int /\ n \in Int
        BY <1>a
      <4>2. h \in Int /\ h - D \in (j + 1)..(n - 1)
        BY <4>1, ShiftedBack, Zenon
      <4>3. PICK m : m = h - D
        OBVIOUS
      <4>4. m \in (j + 1)..(n - 1)
        BY <4>2, <4>3
      <4>5. N <= m /\ m <= Len(doc)
        BY <1>a, <4>4
      <4>6. QED
        BY <4>2, <4>3, <4>5
    <3>2. out[h] = doc[h - D]
      BY <1>8, <3>1
    <3>3. QED
      BY <1>5, <3>1, <3>2
  <2>5. n + D \in (j + D + 1)..(Len(out) + 1) /\ n + D \in Nat
    BY <1>a
  <2>6. n + D <= Len(out) => isTable(out[n + D])
    <3>1. CASE n + D <= Len(out)
      <4>1. n \in N..Len(doc)
        BY <1>a, <3>1
      <4>2. QED
        BY <1>5, <1>7, <4>1
    <3>2. QED
      BY <3>1
  <2>7. QED
    BY <2>2, <2>3, <2>4, <2>5, <2>6 DEF Around
<1>10. OfTable(out, t + D) = OfTable(doc, t) /\ OfTable(out, n + D) = OfTable(doc, n)
  <2>1. t \in N..Len(doc) /\ t \in DOMAIN doc
    BY <1>1, <1>2, <1>3, <1>5, <1>6 DEF Stays
  <2>2. n \in DOMAIN doc <=> n + D \in DOMAIN out
    BY <1>1, <1>3, <1>5, <1>9 DEF Stays
  <2>3. n \in DOMAIN doc => n \in N..Len(doc)
    BY <1>1, <1>2, <1>3, <1>5 DEF Stays
  <2>4. QED
    BY <1>7, <2>1, <2>2, <2>3 DEF OfTable
<1>11. Between(out, j + D, t + D, n + D) <=> Between(doc, j, t, n)
  <2>1. out[j + D] = doc[j]
    BY <1>3, <1>7
  <2>2. (\A i \in (j + D)..(n + D - 1) : blankLine(out[i]) \/ commentLine(out[i]))
        <=> \A i \in j..(n - 1) : blankLine(doc[i]) \/ commentLine(doc[i])
    <3>1. ASSUME NEW i \in j..(n - 1)
          PROVE  i + D \in (j + D)..(n + D - 1) /\ out[i + D] = doc[i]
      <4>1. i + D \in (j + D)..(n + D - 1) /\ i \in N..Len(doc)
        BY <1>a
      <4>2. QED
        BY <1>7, <4>1
    <3>2. ASSUME NEW i \in (j + D)..(n + D - 1)
          PROVE  i - D \in j..(n - 1) /\ out[i] = doc[i - D]
      <4>1. i \in Int /\ i - D \in j..(n - 1) /\ N <= i - D /\ i - D <= Len(doc)
        <5>1. D \in Int /\ j \in Int /\ n \in Int
          BY <1>a
        <5>2. i \in Int /\ i - D \in j..(n - 1)
          BY <5>1, ShiftedBack, Zenon
        <5>3. PICK m : m = i - D
          OBVIOUS
        <5>4. m \in j..(n - 1)
          BY <5>2, <5>3
        <5>5. N <= m /\ m <= Len(doc)
          BY <1>a, <5>4
        <5>6. QED
          BY <5>2, <5>3, <5>5
      <4>2. QED
        BY <1>8, <4>1
    <3>3. QED
      BY <3>1, <3>2
  <2>3. QED
    BY <1>10, <2>1, <2>2 DEF Between
<1>12. out[j + D] = doc[j] /\ j + D \in DOMAIN out
  BY <1>3, <1>7
<1>13. Owner(doc, j) = IF doc[j].kind \in {"inline", "torn"} THEN doc[j].of
                       ELSE IF Between(doc, j, t, n) THEN NoProfile ELSE OfTable(doc, t)
  BY <1>1, <1>3, <1>4, OwnerIs DEF Stays
<1>14. Owner(out, j + D) = IF out[j + D].kind \in {"inline", "torn"} THEN out[j + D].of
                           ELSE IF Between(out, j + D, t + D, n + D) THEN NoProfile
                           ELSE OfTable(out, t + D)
  BY <1>1, <1>9, <1>12, OwnerIs DEF Stays
<1>15. QED
  BY <1>10, <1>11, <1>12, <1>13, <1>14

\* Above the cut every line stands in the table it stood in, which is not p's.
LEMMA TableBefore ==
    ASSUME NEW doc, NEW p \in Profiles, NEW block, NEW out, NEW F, NEW B, NEW R, NEW N, NEW K,
           EditAt(doc, p, block, out, F, B, R, N, K), NEW j \in 1..(B - 1),
           NEW t, NEW n, Around(doc, j, t, n)
    PROVE  /\ \E m \in Nat : Around(out, j, t, m)
           /\ t \in 0..(B - 1) /\ OfTable(out, t) = OfTable(doc, t) /\ OfTable(doc, t) # p
<1>1. PICK D : D = B + K - R
  OBVIOUS
<1>2. Stays(doc, block, out, B, R, K, D)
  BY <1>1, EditKeeps
<1>3. /\ j \in DOMAIN doc /\ j \in DOMAIN out /\ out \in DocType
      /\ \A i \in 1..j : i \in DOMAIN doc /\ i \in DOMAIN out /\ out[i] = doc[i] /\ i < B
  <2>1. B - 1 <= Len(out) /\ B - 1 <= Len(doc)
    BY <1>2 DEF Stays
  <2>2. QED
    BY <1>2, <2>1 DEF Stays
<1>4. t \in 0..j /\ (t # 0 => isTable(doc[t])) /\ \A h \in (t + 1)..j : ~isTable(doc[h])
  BY DEF Around
<1>5. PICK t2 \in Nat, m \in Nat : Around(out, j, t2, m)
  BY <1>3, SomeAround
<1>6. (t # 0 => isTable(out[t])) /\ \A h \in (t + 1)..j : ~isTable(out[h])
  BY <1>3, <1>4
<1>7. Around(out, j, t, m)
  BY <1>4, <1>5, <1>6 DEF Around
<1>8. t \in 0..(B - 1)
  BY <1>2, <1>4 DEF Stays
<1>9. OfTable(out, t) = OfTable(doc, t)
  <2>1. CASE t = 0
    BY <1>2, <2>1 DEF OfTable, Stays
  <2>2. CASE t # 0
    BY <1>3, <1>4, <2>2 DEF OfTable
  <2>3. QED
    BY <2>1, <2>2
<1>10. OfTable(doc, t) # p
  <2>1. CASE t = 0
    <3>1. t \notin DOMAIN doc
      BY <1>2, <2>1 DEF Stays
    <3>2. QED
      BY <3>1, NobodyNamed DEF OfTable
  <2>2. CASE t # 0
    <3>1. t \in 1..Len(doc) /\ t < B /\ isTable(doc[t]) /\ t \in DOMAIN doc
      BY <1>2, <1>3, <1>4, <2>2 DEF Stays
    <3>2. CutAt(doc, p, F, B, R, N)
      BY DEF EditAt
    <3>3. doc[t].of # p
      BY <3>1, <3>2, CutTables
    <3>4. QED
      BY <3>1, <3>3 DEF OfTable
  <2>3. QED
    BY <2>1, <2>2
<1>11. QED
  BY <1>7, <1>8, <1>9, <1>10

LEMMA OwnerBefore ==
    ASSUME NEW doc, NEW p \in Profiles, NEW block, NEW out, NEW F, NEW B, NEW R, NEW N, NEW K,
           EditAt(doc, p, block, out, F, B, R, N, K),
           NEW j \in 1..(B - 1), ~blankLine(doc[j])
    PROVE  /\ ~commentLine(doc[j]) => Owner(out, j) = Owner(doc, j)
           /\ commentLine(doc[j]) => Owner(out, j) # p /\ Owner(doc, j) # p
<1>1. PICK D : D = B + K - R
  OBVIOUS
<1>2. Stays(doc, block, out, B, R, K, D)
  BY <1>1, EditKeeps
<1>3. j \in DOMAIN doc /\ j \in DOMAIN out /\ out[j] = doc[j] /\ doc \in DocType /\ out \in DocType
  <2>1. B - 1 <= Len(out) /\ B - 1 <= Len(doc)
    BY <1>2 DEF Stays
  <2>2. QED
    BY <1>2, <2>1 DEF Stays
<1>4. PICK t \in Nat, n \in Nat : Around(doc, j, t, n)
  BY <1>3, SomeAround
<1>5. PICK m \in Nat : Around(out, j, t, m)
  BY <1>4, TableBefore
<1>6. OfTable(out, t) = OfTable(doc, t) /\ OfTable(doc, t) # p
  BY <1>4, TableBefore
<1>7. Owner(doc, j) = IF doc[j].kind \in {"inline", "torn"} THEN doc[j].of
                      ELSE IF Between(doc, j, t, n) THEN NoProfile ELSE OfTable(doc, t)
  BY <1>3, <1>4, OwnerIs
<1>8. Owner(out, j) = IF out[j].kind \in {"inline", "torn"} THEN out[j].of
                      ELSE IF Between(out, j, t, m) THEN NoProfile ELSE OfTable(out, t)
  BY <1>3, <1>5, OwnerIs
<1>9. CASE ~commentLine(doc[j])
  <2>1. ~Between(doc, j, t, n) /\ ~Between(out, j, t, m)
    BY <1>3, <1>9 DEF Between
  <2>2. QED
    BY <1>3, <1>6, <1>7, <1>8, <1>9, <2>1
<1>10. CASE commentLine(doc[j])
  <2>1. doc[j].kind \notin {"inline", "torn"}
    BY <1>10 DEF commentLine
  <2>2. QED
    BY <1>3, <1>6, <1>7, <1>8, <1>10, <2>1, NobodyNamed
<1>11. QED
  BY <1>9, <1>10

\* The tables around line j of the comments that the cut gives back.
GapAt(doc, p, out, E, N, j, i, n) ==
    /\ j \in DOMAIN doc /\ i \in DOMAIN out /\ out[i] = doc[j]
    /\ i >= E /\ i < n
    /\ \A h \in E..(n - 1) : ~isTable(out[h])
    /\ \A h \in i..(n - 1) : blankLine(out[h]) \/ commentLine(out[h])
    /\ n \in (i + 1)..(Len(out) + 1)
    /\ n <= Len(out) => isTable(out[n])
    /\ OfTable(out, n) = OfTable(doc, N) /\ OfTable(doc, N) # p

LEMMA GapTables ==
    ASSUME NEW doc, NEW p \in Profiles, NEW block, NEW out, NEW F, NEW B, NEW R, NEW N, NEW K,
           EditAt(doc, p, block, out, F, B, R, N, K), NEW D, D = B + K - R,
           NEW j \in R..(N - 1)
    PROVE  GapAt(doc, p, out, B + K, N, j, j + D, N + D)
<1>1. Stays(doc, block, out, B, R, K, D)
  BY EditKeeps
<1>2. /\ F \in 1..Len(doc) /\ N \in (F + 1)..(Len(doc) + 1) /\ R \in (F + 1)..N
      /\ \A i \in R..(N - 1) : blankLine(doc[i]) \/ commentLine(doc[i])
      /\ N <= Len(doc) => isTable(doc[N]) /\ doc[N].of # p
  BY DEF EditAt, CutAt
<1>3. j \in 1..Len(doc) /\ j \in DOMAIN doc /\ j \in R..Len(doc)
  BY <1>1, <1>2 DEF Stays
<1>4. j + D \in 1..Len(out) /\ j + D >= B + K /\ j + D < N + D
  BY <1>1, <1>2, <1>3 DEF Stays
<1>5. \A i \in (B + K)..((N + D) - 1) : blankLine(out[i]) \/ commentLine(out[i])
  <2>1. ASSUME NEW i \in (B + K)..((N + D) - 1) PROVE blankLine(out[i]) \/ commentLine(out[i])
    <3>1. PICK m : m = i - D
      OBVIOUS
    <3>2. m \in R..(N - 1) /\ m \in R..Len(doc) /\ m + D = i
      BY <1>1, <1>2, <3>1 DEF Stays
    <3>3. out[i] = doc[m]
      BY <1>1, <3>2 DEF Stays
    <3>4. QED
      BY <1>2, <3>2, <3>3
  <2>2. QED
    BY <2>1
<1>6. \A i \in (B + K)..((N + D) - 1) : ~isTable(out[i])
  BY <1>5 DEF isTable, blankLine, commentLine
<1>7. \A i \in (j + D)..((N + D) - 1) : blankLine(out[i]) \/ commentLine(out[i])
  <2>1. B + K \in Int /\ j + D \in Int /\ N + D \in Int /\ B + K <= j + D
    <3>1. B \in Nat /\ K \in Nat /\ D \in Int
      BY <1>1 DEF Stays
    <3>2. j \in Int /\ N \in Int
      BY <1>2, <1>3
    <3>3. QED
      BY <1>4, <3>1, <3>2
  <2>2. (j + D)..((N + D) - 1) \subseteq (B + K)..((N + D) - 1)
    BY <2>1
  <2>3. QED
    BY <1>5, <2>2
<1>8. N + D \in (j + D + 1)..(Len(out) + 1)
  BY <1>1, <1>2, <1>3, <1>4 DEF Stays
<1>9. /\ N + D <= Len(out) => isTable(out[N + D])
      /\ OfTable(out, N + D) = OfTable(doc, N) /\ OfTable(doc, N) # p
  <2>1. CASE N <= Len(doc)
    <3>1. N \in R..Len(doc) /\ N \in DOMAIN doc
      BY <1>1, <1>2, <2>1 DEF Stays
    <3>2. N + D \in DOMAIN out
      BY <1>1, <1>2, <1>4, <2>1 DEF Stays
    <3>3. out[N + D] = doc[N]
      BY <1>1, <3>1 DEF Stays
    <3>4. QED
      BY <1>2, <2>1, <3>1, <3>2, <3>3 DEF OfTable
  <2>2. CASE ~(N <= Len(doc))
    <3>1. N \notin DOMAIN doc /\ N + D \notin DOMAIN out /\ ~(N + D <= Len(out))
      BY <1>1, <1>2, <2>2 DEF Stays
    <3>2. QED
      BY <3>1, NobodyNamed DEF OfTable
  <2>3. QED
    BY <2>1, <2>2
<1>10. j + D \in DOMAIN out /\ out[j + D] = doc[j]
  BY <1>1, <1>3, <1>4 DEF Stays
<1>11. QED
  BY <1>3, <1>4, <1>6, <1>7, <1>8, <1>9, <1>10, Zenon DEF GapAt

\* Between two tables of one profile nothing stands but its own tables.
LEMMA NoneAcross ==
    ASSUME NEW doc, NEW p, NEW F, NEW B, NEW R, NEW N,
           CutAt(doc, p, F, B, R, N), Contiguous(doc), NEW t \in 1..(B - 1), isTable(doc[t]),
           doc[t].of # p, N <= Len(doc), doc[N].of = doc[t].of
    PROVE  doc[t].of = NoProfile
<1>1. /\ DOMAIN doc = 1..Len(doc) /\ Len(doc) \in Nat /\ isTable(doc[N])
      /\ F \in 1..Len(doc) /\ B \in 1..F /\ N \in (F + 1)..(Len(doc) + 1)
      /\ isTable(doc[F]) /\ doc[F].of = p
  BY DEF CutAt, profileSection
<1>2. t \in DOMAIN doc /\ N \in DOMAIN doc /\ F \in DOMAIN doc /\ t < F /\ F < N
  BY <1>1
<1>3. QED
  BY <1>1, <1>2 DEF Contiguous

LEMMA OwnerGap ==
    ASSUME NEW doc, NEW p \in Profiles, NEW block, NEW out, NEW F, NEW B, NEW R, NEW N, NEW K,
           EditAt(doc, p, block, out, F, B, R, N, K), Fresh(block, p), NEW D, D = B + K - R,
           NEW j \in R..(N - 1), ~blankLine(doc[j])
    PROVE  /\ commentLine(doc[j]) /\ Owner(doc, j) = NoProfile /\ Owner(out, j + D) # p
           /\ Contiguous(doc) => Owner(out, j + D) = NoProfile
<1>1. Stays(doc, block, out, B, R, K, D)
  BY EditKeeps
<1>2. /\ F \in 1..Len(doc) /\ N \in (F + 1)..(Len(doc) + 1) /\ R \in (F + 1)..N
      /\ B \in 1..F /\ isTable(doc[F])
      /\ \A i \in F..(N - 1) : isTable(doc[i]) => doc[i].of = p
      /\ \A i \in R..(N - 1) : blankLine(doc[i]) \/ commentLine(doc[i])
      /\ N <= Len(doc) => isTable(doc[N]) /\ doc[N].of # p
  BY DEF EditAt, CutAt, profileSection
<1>0. PICK i, n2 : i = j + D /\ n2 = N + D
  OBVIOUS
<1>3. /\ j \in DOMAIN doc /\ i \in DOMAIN out /\ out[i] = doc[j]
      /\ i >= B + K /\ i < n2 /\ i \in Nat /\ n2 \in Nat
      /\ \A h \in (B + K)..(n2 - 1) : ~isTable(out[h])
      /\ \A h \in i..(n2 - 1) : blankLine(out[h]) \/ commentLine(out[h])
      /\ n2 \in (i + 1)..(Len(out) + 1)
      /\ n2 <= Len(out) => isTable(out[n2])
      /\ OfTable(out, n2) = OfTable(doc, N) /\ OfTable(doc, N) # p
  <2>1. GapAt(doc, p, out, B + K, N, j, j + D, N + D)
    BY GapTables
  <2>2. GapAt(doc, p, out, B + K, N, j, i, n2)
    BY <1>0, <2>1
  <2>3. i \in Nat /\ n2 \in Nat
    BY <1>1, <2>2 DEF Stays, GapAt
  <2>4. QED
    BY <2>2, <2>3 DEF GapAt
<1>4. commentLine(doc[j]) /\ doc[j].kind \notin {"inline", "torn"}
  BY <1>2 DEF commentLine
<1>5. \A h \in R..(N - 1) : ~isTable(doc[h])
  BY <1>2 DEF isTable, blankLine, commentLine
<1>6. Owner(doc, j) = NoProfile
  <2>1. PICK t \in Nat, n \in Nat : Around(doc, j, t, n)
    BY <1>1, <1>3, SomeAround DEF Stays
  <2>2. /\ t \in 0..j /\ (t # 0 => isTable(doc[t])) /\ \A h \in (t + 1)..j : ~isTable(doc[h])
        /\ n \in (j + 1)..(Len(doc) + 1) /\ (n <= Len(doc) => isTable(doc[n]))
        /\ \A h \in (j + 1)..(n - 1) : ~isTable(doc[h])
    BY <2>1 DEF Around
  <2>3. F <= t /\ t \in F..(N - 1) /\ t \in DOMAIN doc
    BY <1>1, <1>2, <2>2 DEF Stays
  <2>4. OfTable(doc, t) = p
    BY <1>2, <2>2, <2>3 DEF OfTable
  <2>5. n = N
    <3>1. ~(n < N)
      BY <1>1, <1>2, <1>5, <2>2 DEF Stays
    <3>2. ~(N < n)
      <4>1. j < N /\ j \in Nat /\ N \in Nat /\ Len(doc) \in Nat /\ n <= Len(doc) + 1
        <5>1. Len(doc) \in Nat
          BY <1>1 DEF Stays
        <5>2. N \in Nat
          BY <1>2, <5>1
        <5>3. j \in Nat /\ j < N
          BY <1>2, <5>2
        <5>4. QED
          BY <2>2, <5>1, <5>2, <5>3
      <4>2. N < n => N \in (j + 1)..(n - 1) /\ N <= Len(doc)
        BY <4>1
      <4>3. QED
        BY <1>2, <2>2, <4>2
    <3>3. QED
      BY <1>2, <2>2, <3>1, <3>2
  <2>6. Between(doc, j, t, n)
    <3>1. j..(N - 1) \subseteq R..(N - 1)
      BY <1>2
    <3>2. QED
      BY <1>2, <1>3, <1>4, <2>4, <2>5, <3>1 DEF Between
  <2>7. QED
    BY <1>1, <1>3, <1>4, <2>1, <2>6, OwnerIs DEF Stays
<1>7. PICK t \in Nat, m \in Nat : Around(out, i, t, m)
  BY <1>1, <1>3, SomeAround DEF Stays
<1>8. t \in 0..(i) /\ (t # 0 => isTable(out[t])) /\ \A h \in (t + 1)..(i) : ~isTable(out[h])
  BY <1>7 DEF Around
<1>9. Around(out, i, t, n2)
  <2>1. \A h \in (i + 1)..(n2 - 1) : ~isTable(out[h])
    <3>1. B + K \in Nat
      BY <1>1 DEF Stays
    <3>2. QED
      BY <1>3, <3>1
  <2>2. QED
    BY <1>3, <1>8, <2>1 DEF Around
<1>10. Owner(out, i) = IF Between(out, i, t, n2) THEN NoProfile ELSE OfTable(out, t)
  <2>1. ~blankLine(out[i]) /\ out[i].kind \notin {"inline", "torn"}
    BY <1>3, <1>4
  <2>2. QED
    BY <1>1, <1>3, <1>9, <2>1, OwnerIs DEF Stays
<1>11. Between(out, i, t, n2) <=> OfTable(doc, N) # OfTable(out, t)
  BY <1>3, <1>4 DEF Between
<1>12. Owner(out, i) # p
  BY <1>3, <1>10, <1>11, NobodyNamed
<1>13. ASSUME Contiguous(doc), OfTable(doc, N) = OfTable(out, t) PROVE OfTable(out, t) = NoProfile
  <2>1. CASE ~(N <= Len(doc))
    BY <1>1, <1>13, <2>1 DEF OfTable, Stays
  <2>2. CASE t = 0
    BY <1>1, <2>2 DEF OfTable, Stays
  <2>3. CASE N <= Len(doc) /\ t # 0
    <3>1. t \in DOMAIN out /\ t \in 1..Len(out) /\ isTable(out[t]) /\ OfTable(out, t) = out[t].of
      BY <1>1, <1>3, <1>8, <2>3 DEF Stays, OfTable
    <3>2. out[t].of # p
      BY <1>3, <1>13, <3>1
    <3>3. ~(B + K <= t)
      <4>1. t \in Int /\ i \in Int /\ n2 \in Int /\ t <= i /\ i < n2 /\ B + K \in Int
        <5>1. B + K \in Int
          BY <1>1 DEF Stays
        <5>2. QED
          BY <1>3, <1>8, <5>1
      <4>2. B + K <= t => t \in (B + K)..(n2 - 1)
        BY <4>1
      <4>3. QED
        BY <1>3, <3>1, <4>2
    <3>4. ASSUME B <= t PROVE FALSE
      <4>1. PICK k : k = t - B + 1
        OBVIOUS
      <4>2. k \in 1..K /\ B - 1 + k = t
        BY <1>1, <3>1, <3>3, <3>4, <4>1 DEF Stays
      <4>3. out[t] = block[k]
        BY <1>1, <4>2 DEF Stays
      <4>4. K = Len(block)
        BY DEF EditAt
      <4>5. QED
        BY <3>1, <3>2, <4>2, <4>3, <4>4, FreshLines
    <3>5. t \in 1..(B - 1) /\ out[t] = doc[t] /\ N \in DOMAIN doc
      BY <1>1, <1>2, <2>3, <3>1, <3>4 DEF Stays
    <3>6. isTable(doc[t]) /\ doc[t].of # p /\ doc[N].of = doc[t].of
      BY <1>13, <3>1, <3>2, <3>5 DEF OfTable
    <3>7. CutAt(doc, p, F, B, R, N)
      BY DEF EditAt
    <3>8. doc[t].of = NoProfile
      BY <1>13, <2>3, <3>5, <3>6, <3>7, NoneAcross
    <3>9. QED
      BY <3>1, <3>5, <3>8
  <2>4. QED
    BY <2>1, <2>2, <2>3
<1>14. Contiguous(doc) => Owner(out, i) = NoProfile
  BY <1>10, <1>11, <1>13
<1>15. QED
  BY <1>0, <1>4, <1>6, <1>12, <1>14

\* Where the tables of a profile stand together, a comment above the cut keeps
\* its owner too.
LEMMA OwnerAbove ==
    ASSUME NEW doc, NEW p \in Profiles, NEW block, NEW out, NEW F, NEW B, NEW R, NEW N, NEW K,
           EditAt(doc, p, block, out, F, B, R, N, K), Fresh(block, p), Contiguous(doc),
           NEW j \in 1..(B - 1), commentLine(doc[j])
    PROVE  Owner(out, j) = Owner(doc, j)
<1>1. PICK D : D = B + K - R
  OBVIOUS
<1>2. Stays(doc, block, out, B, R, K, D)
  BY <1>1, EditKeeps
<1>3. /\ F \in 1..Len(doc) /\ N \in (F + 1)..(Len(doc) + 1) /\ R \in (F + 1)..N
      /\ B \in 1..F /\ isTable(doc[F]) /\ doc[F].of = p
      /\ \A i \in B..(F - 1) : blankLine(doc[i])
      /\ \A i \in R..(N - 1) : blankLine(doc[i]) \/ commentLine(doc[i])
      /\ N <= Len(doc) => isTable(doc[N]) /\ doc[N].of # p
  BY DEF EditAt, CutAt, profileSection
<1>4. /\ j \in DOMAIN doc /\ j \in DOMAIN out /\ out[j] = doc[j] /\ j \in Nat
      /\ doc \in DocType /\ out \in DocType
      /\ \A i \in j..(B - 1) : out[i] = doc[i]
  <2>1. B - 1 <= Len(out) /\ B - 1 <= Len(doc)
    BY <1>2 DEF Stays
  <2>2. j \in DOMAIN doc /\ j \in DOMAIN out /\ out[j] = doc[j] /\ j \in Nat
    BY <1>2, <2>1 DEF Stays
  <2>3. \A i \in j..(B - 1) : i \in 1..(B - 1)
    BY <1>2 DEF Stays
  <2>4. QED
    BY <1>2, <2>2, <2>3 DEF Stays
<1>5. PICK t \in Nat, n \in Nat : Around(doc, j, t, n)
  BY <1>4, SomeAround
<1>6. PICK m \in Nat : Around(out, j, t, m)
  BY <1>5, TableBefore
<1>7. OfTable(out, t) = OfTable(doc, t) /\ OfTable(doc, t) # p /\ t \in 0..(B - 1)
  BY <1>5, TableBefore
<1>8. ~blankLine(doc[j]) /\ doc[j].kind \notin {"inline", "torn"}
  BY DEF commentLine, blankLine
<1>9. Owner(doc, j) = IF Between(doc, j, t, n) THEN NoProfile ELSE OfTable(doc, t)
  BY <1>4, <1>5, <1>8, OwnerIs
<1>10. ASSUME NEW n2 \in Nat, Around(out, j, t, n2)
       PROVE  Owner(out, j) = IF Between(out, j, t, n2) THEN NoProfile ELSE OfTable(doc, t)
  BY <1>4, <1>7, <1>8, <1>10, OwnerIs
<1>11. /\ t \in 0..j /\ (t # 0 => isTable(doc[t])) /\ \A h \in (t + 1)..j : ~isTable(doc[h])
       /\ n \in (j + 1)..(Len(doc) + 1) /\ (n <= Len(doc) => isTable(doc[n]))
       /\ \A h \in (j + 1)..(n - 1) : ~isTable(doc[h])
  BY <1>5 DEF Around
<1>12. /\ t \in 0..j /\ (t # 0 => isTable(out[t])) /\ \A h \in (t + 1)..j : ~isTable(out[h])
  BY <1>6 DEF Around
<1>13. CASE OfTable(doc, t) = NoProfile
  BY <1>6, <1>9, <1>10, <1>13
<1>14. CASE n < B
  <2>1. \A i \in j..n : out[i] = doc[i]
    BY <1>2, <1>4, <1>11, <1>14 DEF Stays
  <2>2. n \in DOMAIN doc /\ n \in DOMAIN out /\ n \in j..n /\ n \in (j + 1)..(Len(out) + 1)
    BY <1>2, <1>4, <1>11, <1>14 DEF Stays
  <2>3. Around(out, j, t, n)
    <3>1. isTable(out[n])
      <4>1. n <= Len(doc) /\ out[n] = doc[n]
        BY <1>2, <2>1, <2>2, StaysNumbers
      <4>2. QED
        BY <1>11, <4>1
    <3>2. \A h \in (j + 1)..(n - 1) : ~isTable(out[h])
      BY <1>4, <1>11, <2>1, <2>2
    <3>3. QED
      BY <1>12, <2>2, <3>1, <3>2 DEF Around
  <2>4. Between(out, j, t, n) <=> Between(doc, j, t, n)
    <3>1. OfTable(out, n) = OfTable(doc, n)
      BY <2>1, <2>2 DEF OfTable
    <3>2. \A i \in j..(n - 1) : out[i] = doc[i]
      BY <1>4, <2>1, <2>2
    <3>3. QED
      BY <1>4, <1>7, <3>1, <3>2 DEF Between
  <2>5. QED
    BY <1>9, <1>10, <2>3, <2>4
<1>15. CASE OfTable(doc, t) # NoProfile /\ ~(n < B)
  <2> DEFINE Quiet == \A i \in j..(B - 1) : blankLine(doc[i]) \/ commentLine(doc[i])
  <2>1. n = F
    <3>1. \A i \in B..(F - 1) : ~isTable(doc[i])
      BY <1>3 DEF isTable, blankLine
    <3>2. ~(n < F)
      <4>1. n < F => n \in B..(F - 1) /\ n <= Len(doc)
        BY <1>2, <1>3, <1>11, <1>15 DEF Stays
      <4>2. QED
        BY <1>11, <3>1, <4>1
    <3>3. ~(F < n)
      BY <1>2, <1>3, <1>11 DEF Stays
    <3>4. QED
      BY <1>2, <1>3, <1>11, <3>2, <3>3 DEF Stays
  <2>a. B \in Int /\ F \in Int /\ j \in Int /\ B <= F /\ n = F
    BY <1>2, <1>3, <1>4, <2>1, StaysNumbers
  <2>2. Between(doc, j, t, n) <=> Quiet
    <3>1. OfTable(doc, n) = p
      BY <1>2, <1>3, <2>1 DEF OfTable, Stays
    <3>2. (\A i \in j..(F - 1) : blankLine(doc[i]) \/ commentLine(doc[i])) <=> Quiet
      <4>1. \A i \in j..(F - 1) : i \in j..(B - 1) \/ i \in B..(F - 1)
        BY <1>2, <1>3, <1>4 DEF Stays
      <4>2. \A i \in j..(B - 1) : i \in j..(F - 1)
        BY <1>2, <1>3, <1>4 DEF Stays
      <4>3. QED
        BY <1>3, <4>1, <4>2
    <3>3. QED
      BY <1>7, <2>1, <3>1, <3>2 DEF Between
  <2>3. CASE block # <<>>
    <3>1. K = Len(block) /\ K >= 2 /\ blankLine(block[1]) /\ isTable(block[2]) /\ block[2].of = p
      BY <2>3 DEF EditAt, Fresh, Written, Blocky, profileSection
    <3>2. out[B] = block[1] /\ out[B + 1] = block[2]
      <4>1. 1 \in 1..K /\ 2 \in 1..K
        BY <1>2, <3>1 DEF Stays
      <4>2. out[B - 1 + 1] = block[1] /\ out[B - 1 + 2] = block[2]
        BY <1>2, <4>1 DEF Stays
      <4>3. B - 1 + 1 = B /\ B - 1 + 2 = B + 1
        BY <1>2 DEF Stays
      <4>4. QED
        BY <4>2, <4>3
    <3>3. B + 1 \in Nat /\ B + 1 \in (j + 1)..(Len(out) + 1) /\ B + 1 \in DOMAIN out /\ B \in Nat
      BY <1>2, <1>4, <3>1 DEF Stays
    <3>4. \A h \in (j + 1)..((B + 1) - 1) : ~isTable(out[h])
      <4>1. ASSUME NEW h \in (j + 1)..((B + 1) - 1) PROVE ~isTable(out[h])
        <5>1. CASE h = B
          BY <3>1, <3>2, <5>1 DEF isTable, blankLine
        <5>2. CASE h # B
          <6>1. h \in (j + 1)..(n - 1) /\ h \in j..(B - 1)
            BY <2>a, <5>2
          <6>2. QED
            BY <1>4, <1>11, <6>1
        <5>3. QED
          BY <5>1, <5>2
      <4>2. QED
        BY <4>1
    <3>5. Around(out, j, t, B + 1)
      BY <1>12, <3>1, <3>2, <3>3, <3>4 DEF Around
    <3>6. Between(out, j, t, B + 1) <=> Quiet
      <4>1. OfTable(out, B + 1) = p
        BY <3>1, <3>2, <3>3 DEF OfTable
      <4>2. (\A i \in j..((B + 1) - 1) : blankLine(out[i]) \/ commentLine(out[i])) <=> Quiet
        <5>1. \A i \in j..((B + 1) - 1) : i = B \/ i \in j..(B - 1)
          BY <1>4, <3>3
        <5>2. \A i \in j..(B - 1) : i \in j..((B + 1) - 1) /\ out[i] = doc[i]
          BY <1>4, <3>3
        <5>3. QED
          BY <3>1, <3>2, <5>1, <5>2
      <4>3. QED
        BY <1>4, <1>7, <4>1, <4>2 DEF Between
    <3>7. QED
      BY <1>9, <1>10, <2>2, <3>3, <3>5, <3>6
  <2>4. CASE block = <<>>
    <3>1. K = 0
      BY <2>4 DEF EditAt
    <3>2. PICK e : e = N + D
      OBVIOUS
    <3>3. /\ e \in Nat /\ e \in B..(Len(out) + 1) /\ e \in (j + 1)..(Len(out) + 1)
          /\ e - D = N
      BY <1>1, <1>2, <1>3, <1>4, <3>1, <3>2 DEF Stays
    <3>4. \A i \in B..(e - 1) : blankLine(out[i]) \/ commentLine(out[i])
      <4>1. ASSUME NEW i \in B..(e - 1) PROVE blankLine(out[i]) \/ commentLine(out[i])
        <5>1. PICK h : h = i - D
          OBVIOUS
        <5>2. h \in R..(N - 1) /\ h \in R..Len(doc) /\ h + D = i
          BY <1>1, <1>2, <1>3, <3>1, <3>2, <5>1 DEF Stays
        <5>3. out[i] = doc[h]
          BY <1>2, <5>2 DEF Stays
        <5>4. QED
          BY <1>3, <5>2, <5>3
      <4>2. QED
        BY <4>1
    <3>5. e <= Len(out) => isTable(out[e]) /\ OfTable(out, e) = doc[N].of /\ N <= Len(doc)
      <4>1. CASE e <= Len(out)
        <5>1. N \in R..Len(doc) /\ e \in DOMAIN out
          BY <1>2, <1>3, <3>2, <3>3, <4>1 DEF Stays
        <5>2. out[e] = doc[N]
          BY <1>2, <3>2, <5>1 DEF Stays
        <5>3. QED
          BY <1>2, <1>3, <5>1, <5>2 DEF OfTable, Stays
      <4>2. QED
        BY <4>1
    <3>6. \A h \in (j + 1)..(e - 1) : ~isTable(out[h])
      <4>1. ASSUME NEW h \in (j + 1)..(e - 1) PROVE ~isTable(out[h])
        <5>1. CASE h < B
          <6>1. h \in (j + 1)..(n - 1) /\ h \in j..(B - 1)
            BY <2>a, <3>3, <5>1
          <6>2. QED
            BY <1>4, <1>11, <6>1
        <5>2. CASE ~(h < B)
          <6>1. h \in B..(e - 1)
            BY <1>2, <1>4, <3>3, <5>2 DEF Stays
          <6>2. QED
            BY <3>4, <6>1 DEF isTable, blankLine, commentLine
        <5>3. QED
          BY <5>1, <5>2
      <4>2. QED
        BY <4>1
    <3>7. Around(out, j, t, e)
      BY <1>12, <3>3, <3>5, <3>6 DEF Around
    <3>8. OfTable(out, e) # OfTable(out, t)
      <4>1. CASE ~(e <= Len(out))
        <5>1. OfTable(out, e) = NoProfile
          BY <1>2, <4>1 DEF OfTable, Stays
        <5>2. QED
          BY <1>7, <1>15, <5>1
      <4>2. CASE e <= Len(out)
        <5>1. t \in DOMAIN doc /\ t # 0
          BY <1>2, <1>15 DEF OfTable, Stays
        <5>2. t \in 1..(B - 1) /\ isTable(doc[t]) /\ OfTable(doc, t) = doc[t].of
          BY <1>2, <1>7, <1>11, <5>1 DEF OfTable, Stays
        <5>3. CutAt(doc, p, F, B, R, N)
          BY DEF EditAt
        <5>4. doc[N].of # doc[t].of
          BY <1>7, <1>15, <3>5, <4>2, <5>2, <5>3, NoneAcross
        <5>5. QED
          BY <1>7, <3>5, <4>2, <5>2, <5>4
      <4>3. QED
        BY <4>1, <4>2
    <3>9. Between(out, j, t, e) <=> Quiet
      <4>1. (\A i \in j..(e - 1) : blankLine(out[i]) \/ commentLine(out[i])) <=> Quiet
        <5>1. \A i \in j..(e - 1) : i \in B..(e - 1) \/ i \in j..(B - 1)
          BY <1>2, <1>4, <3>3 DEF Stays
        <5>2. \A i \in j..(B - 1) : i \in j..(e - 1) /\ out[i] = doc[i]
          BY <1>2, <1>4, <3>3 DEF Stays
        <5>3. QED
          BY <3>4, <5>1, <5>2
      <4>2. QED
        BY <1>4, <3>8, <4>1 DEF Between
    <3>10. QED
      BY <1>9, <1>10, <2>2, <3>3, <3>7, <3>9
  <2>5. QED
    BY <2>3, <2>4
<1>16. QED
  BY <1>13, <1>14, <1>15

\* A table is its own.
LEMMA OwnerTable ==
    ASSUME NEW doc \in DocType, NEW i \in DOMAIN doc, isTable(doc[i])
    PROVE  ~blankLine(doc[i]) /\ ~commentLine(doc[i]) /\ Owner(doc, i) = doc[i].of
<1>1. /\ ~blankLine(doc[i]) /\ ~commentLine(doc[i])
      /\ doc[i].kind \notin {"inline", "torn"}
  BY DEF isTable, blankLine, commentLine
<1>2. PICK t \in Nat, n \in Nat : Around(doc, i, t, n)
  BY SomeAround
<1>3. t = i
  BY <1>2 DEF Around
<1>4. OfTable(doc, t) = doc[i].of
  BY <1>3 DEF OfTable
<1>5. ~Between(doc, i, t, n)
  BY <1>1 DEF Between
<1>6. QED
  BY <1>1, <1>2, <1>4, <1>5, OwnerIs

\* What is cut is the profile's, or torn.
LEMMA OwnerCut ==
    ASSUME NEW doc, NEW p \in Profiles, NEW block, NEW out, NEW F, NEW B, NEW R, NEW N, NEW K,
           EditAt(doc, p, block, out, F, B, R, N, K), Rooted(doc),
           NEW i \in DOMAIN doc, B <= i, i < R, ~blankLine(doc[i])
    PROVE  Owner(doc, i) = IF doc[i].kind = "torn" THEN doc[i].of ELSE p
<1>1. /\ Len(doc) \in Nat /\ DOMAIN doc = 1..Len(doc) /\ doc \in DocType
      /\ F \in 1..Len(doc) /\ N \in (F + 1)..(Len(doc) + 1) /\ R \in (F + 1)..N
      /\ B \in 1..F /\ isTable(doc[F])
      /\ \A j \in B..(F - 1) : blankLine(doc[j])
      /\ \A j \in F..(N - 1) : isTable(doc[j]) => doc[j].of = p
      /\ \A j \in F..(R - 1) : blankLine(doc[j])
           \/ \E h \in j..(N - 1) : ~blankLine(doc[h]) /\ ~commentLine(doc[h])
  BY DEF EditAt, CutAt, profileSection
<1>2. i \in F..(R - 1) /\ F \in DOMAIN doc
  BY <1>1
<1>3. doc[i].kind # "inline"
  BY <1>1, <1>2 DEF Rooted
<1>4. PICK h \in i..(N - 1) : ~blankLine(doc[h]) /\ ~commentLine(doc[h])
  BY <1>1, <1>2
<1>5. PICK t \in Nat, n \in Nat : Around(doc, i, t, n)
  BY <1>1, SomeAround
<1>6. /\ t \in 0..i /\ (t # 0 => isTable(doc[t])) /\ \A j \in (t + 1)..i : ~isTable(doc[j])
      /\ n \in (i + 1)..(Len(doc) + 1) /\ (n <= Len(doc) => isTable(doc[n]))
  BY <1>5 DEF Around
<1>7. OfTable(doc, t) = p
  <2>1. ~(t < F)
    BY <1>1, <1>2, <1>6
  <2>2. t \in F..(N - 1) /\ t \in DOMAIN doc /\ t # 0
    BY <1>1, <1>2, <1>6, <2>1
  <2>3. QED
    BY <1>1, <1>6, <2>2 DEF OfTable
<1>8. ~Between(doc, i, t, n)
  <2>1. CASE n < N
    <3>1. n \in F..(N - 1) /\ n \in DOMAIN doc /\ n <= Len(doc)
      BY <1>1, <1>2, <1>6, <2>1
    <3>2. OfTable(doc, n) = p
      BY <1>1, <1>6, <3>1 DEF OfTable
    <3>3. QED
      BY <1>7, <3>2 DEF Between
  <2>2. CASE ~(n < N)
    <3>1. h \in i..(n - 1)
      BY <1>1, <1>2, <1>4, <1>6, <2>2
    <3>2. QED
      BY <1>4, <3>1 DEF Between
  <2>3. QED
    BY <2>1, <2>2
<1>9. Owner(doc, i) = IF doc[i].kind \in {"inline", "torn"} THEN doc[i].of ELSE OfTable(doc, t)
  BY <1>1, <1>5, <1>8, OwnerIs
<1>10. QED
  BY <1>3, <1>7, <1>9

\* A line that stays keeps its owner, but perhaps a comment; that is p's as
\* little as before.
LEMMA OwnerStays ==
    ASSUME NEW doc, NEW p \in Profiles, NEW block, NEW out, NEW F, NEW B, NEW R, NEW N, NEW K,
           EditAt(doc, p, block, out, F, B, R, N, K), Fresh(block, p),
           NEW j \in DOMAIN doc, j < B \/ R <= j, ~blankLine(doc[j]),
           NEW i, i = Shift(B, K, R, j)
    PROVE  /\ ~commentLine(doc[j]) \/ Contiguous(doc) => Owner(out, i) = Owner(doc, j)
           /\ Owner(out, i) = p <=> Owner(doc, j) = p
<1>1. PICK D : D = B + K - R
  OBVIOUS
<1>2. Stays(doc, block, out, B, R, K, D)
  BY <1>1, EditKeeps
<1>3. /\ F \in 1..Len(doc) /\ N \in (F + 1)..(Len(doc) + 1) /\ R \in (F + 1)..N /\ B \in 1..F
  BY DEF EditAt, CutAt
<1>4. CASE j < B
  <2>1. j \in 1..(B - 1) /\ i = j
    BY <1>2, <1>4 DEF Stays, Shift
  <2>2. /\ ~commentLine(doc[j]) => Owner(out, i) = Owner(doc, j)
        /\ commentLine(doc[j]) => Owner(out, i) # p /\ Owner(doc, j) # p
    BY <2>1, OwnerBefore
  <2>3. Contiguous(doc) /\ commentLine(doc[j]) => Owner(out, i) = Owner(doc, j)
    BY <2>1, OwnerAbove
  <2>4. QED
    BY <2>2, <2>3
<1>5. CASE ~(j < B)
  <2>1. i = j + D /\ R <= j /\ j \in 1..Len(doc)
    BY <1>1, <1>2, <1>5 DEF Stays, Shift
  <2>2. CASE j < N
    <3>1. j \in R..(N - 1)
      BY <1>2, <1>3, <2>1, <2>2 DEF Stays
    <3>2. /\ commentLine(doc[j]) /\ Owner(doc, j) = NoProfile /\ Owner(out, j + D) # p
          /\ Contiguous(doc) => Owner(out, j + D) = NoProfile
      BY <1>1, <3>1, OwnerGap
    <3>3. QED
      BY <2>1, <3>2, NobodyNamed
  <2>3. CASE ~(j < N)
    <3>1. j \in N..Len(doc)
      BY <1>2, <1>3, <2>1, <2>3 DEF Stays
    <3>2. Owner(out, j + D) = Owner(doc, j)
      BY <1>1, <3>1, OwnerAfter
    <3>3. QED
      BY <2>1, <3>2
  <2>4. QED
    BY <2>2, <2>3
<1>6. QED
  BY <1>4, <1>5

-----------------------------------------------------------------------------
(* What an edit makes of the lines of others.                              *)

\* Lines that an edit leaves are the same ones after it, when T numbers in the
\* result what S numbers in the document.
LEMMA Carried ==
    ASSUME NEW doc, NEW p \in Profiles, NEW block, NEW out, NEW F, NEW B, NEW R, NEW N, NEW K,
           EditAt(doc, p, block, out, F, B, R, N, K), Fresh(block, p),
           NEW S \in SUBSET DOMAIN doc, NEW T \in SUBSET DOMAIN out,
           \A j \in S : (j < B \/ R <= j) /\ Shift(B, K, R, j) \in T,
           \A j \in DOMAIN doc : (j < B \/ R <= j) /\ Shift(B, K, R, j) \in T => j \in S,
           \A k \in 1..K : B - 1 + k \notin T
    PROVE  LinesAt(out, T) = LinesAt(doc, S)
<1>1. /\ DOMAIN doc = 1..Len(doc) /\ Len(doc) \in Nat /\ Len(out) \in Nat
      /\ DOMAIN out = 1..Len(out)
  <2>1. PICK D : D = B + K - R
    OBVIOUS
  <2>2. Stays(doc, block, out, B, R, K, D)
    BY <2>1, EditKeeps
  <2>3. QED
    BY <2>2 DEF Stays
<1>2. PICK f : f = [j \in S |-> Shift(B, K, R, j)]
  OBVIOUS
<1>3. SplicedAt(doc, block, out, B, R, K)
  BY DEF EditAt
<1>4. /\ \A j \in 1..Len(doc) : j < B \/ R <= j => out[Shift(B, K, R, j)] = doc[j]
      /\ \A i, j \in 1..Len(doc) :
            (i < B \/ R <= i) /\ (j < B \/ R <= j) =>
                (i < j <=> Shift(B, K, R, i) < Shift(B, K, R, j))
  BY <1>3, ShiftProps
<1>5. \A t \in T : \E s \in S : f[s] = t
  <2>1. ASSUME NEW t \in T PROVE \E s \in S : f[s] = t
    <3>1. \/ \E k \in 1..K : t = B - 1 + k /\ out[t] = block[k]
          \/ \E j \in DOMAIN doc :
               (j < B \/ R <= j) /\ t = Shift(B, K, R, j) /\ out[t] = doc[j]
      BY EditLines
    <3>2. PICK j \in DOMAIN doc : (j < B \/ R <= j) /\ t = Shift(B, K, R, j)
      BY <3>1
    <3>3. j \in S
      BY <3>2
    <3>4. QED
      BY <1>2, <3>2, <3>3
  <2>2. QED
    BY <2>1
<1>6. IsFiniteSet(S)
  <2>1. IsFiniteSet(1..Len(doc)) /\ S \in SUBSET (1..Len(doc))
    BY <1>1, FS_Interval
  <2>2. QED
    BY <2>1, FS_Subset
<1>7. S \subseteq Nat /\ T \subseteq Nat /\ f \in [S -> T]
  BY <1>1, <1>2
<1>8. \A i, j \in S : i < j => f[i] < f[j]
  BY <1>1, <1>2, <1>4
<1>9. Renumbers(f, S, T)
  BY <1>5, <1>6, <1>7, <1>8 DEF Renumbers
<1>10. \A i \in S : out[f[i]] = doc[i]
  BY <1>1, <1>2, <1>4
<1>11. QED
  BY <1>9, <1>10, SameLines

\* A line of the block is the profile's.
LEMMA OwnerBlock ==
    ASSUME NEW doc, NEW p \in Profiles, NEW block, NEW out, NEW F, NEW B, NEW R, NEW N, NEW K,
           EditAt(doc, p, block, out, F, B, R, N, K), Fresh(block, p),
           NEW k \in 1..K, ~blankLine(block[k])
    PROVE  /\ B - 1 + k \in DOMAIN out /\ out[B - 1 + k] = block[k]
           /\ isTable(out[B - 1 + k]) /\ Owner(out, B - 1 + k) = p
<1>1. PICK D : D = B + K - R
  OBVIOUS
<1>2. Stays(doc, block, out, B, R, K, D)
  BY <1>1, EditKeeps
<1>3. B - 1 + k \in DOMAIN out /\ out[B - 1 + k] = block[k] /\ out \in DocType
  BY <1>2 DEF Stays
<1>4. K = Len(block)
  BY DEF EditAt
<1>5. isTable(block[k]) /\ block[k].of = p
  BY <1>4, FreshLines DEF blankLine
<1>6. QED
  BY <1>3, <1>5, OwnerTable

\* What is beside the profiles P stays what it was, when the owners of the
\* lines that stay do.
LEMMA BesideSplice ==
    ASSUME NEW doc, NEW p \in Profiles, NEW block, NEW out, NEW F, NEW B, NEW R, NEW N, NEW K,
           EditAt(doc, p, block, out, F, B, R, N, K), Fresh(block, p), Rooted(doc),
           NEW P, p \in P, \A i \in DOMAIN doc : doc[i].kind = "torn" => doc[i].of \in P
    PROVE  /\ SettingsBeside(out, P) = SettingsBeside(doc, P)
           /\ P = {p} \/ Contiguous(doc) => LinesBeside(out, P) = LinesBeside(doc, P)
<1>1. SplicedAt(doc, block, out, B, R, K)
  BY DEF EditAt
<1>2. /\ DOMAIN doc = 1..Len(doc) /\ Len(doc) \in Nat /\ Len(out) \in Nat
      /\ DOMAIN out = 1..Len(out)
  <2>1. PICK D : D = B + K - R
    OBVIOUS
  <2>2. Stays(doc, block, out, B, R, K, D)
    BY <2>1, EditKeeps
  <2>3. QED
    BY <2>2 DEF Stays
<1>3. \A j \in DOMAIN doc : j < B \/ R <= j =>
        Shift(B, K, R, j) \in DOMAIN out /\ out[Shift(B, K, R, j)] = doc[j]
  BY <1>1, <1>2, ShiftProps
<1>4. \A j \in DOMAIN doc : (j < B \/ R <= j) /\ ~blankLine(doc[j]) =>
        /\ ~commentLine(doc[j]) \/ Contiguous(doc) =>
             Owner(out, Shift(B, K, R, j)) = Owner(doc, j)
        /\ Owner(out, Shift(B, K, R, j)) = p <=> Owner(doc, j) = p
  BY OwnerStays
<1>5. \A j \in DOMAIN doc : ~(j < B \/ R <= j) /\ ~blankLine(doc[j]) => Owner(doc, j) \in P
  <2>1. ASSUME NEW j \in DOMAIN doc, ~(j < B \/ R <= j), ~blankLine(doc[j])
        PROVE  Owner(doc, j) \in P
    <3>1. B <= j /\ j < R
      BY <1>1, <1>2, <2>1 DEF SplicedAt
    <3>2. Owner(doc, j) = IF doc[j].kind = "torn" THEN doc[j].of ELSE p
      BY <2>1, <3>1, OwnerCut
    <3>3. QED
      BY <3>2
  <2>2. QED
    BY <2>1
<1>6. \A k \in 1..K : B - 1 + k \notin Beside(out, P)
  <2>1. ASSUME NEW k \in 1..K, B - 1 + k \in Beside(out, P) PROVE FALSE
    <3>1. ~blankLine(out[B - 1 + k]) /\ Owner(out, B - 1 + k) \notin P
      BY <2>1 DEF Beside
    <3>2. out[B - 1 + k] = block[k]
      BY <1>1 DEF SplicedAt
    <3>3. Owner(out, B - 1 + k) = p
      BY <3>1, <3>2, OwnerBlock
    <3>4. QED
      BY <3>1, <3>3
  <2>2. QED
    BY <2>1
<1>7. SettingsBeside(out, P) = SettingsBeside(doc, P)
  <2>1. PICK S, T : /\ S = {i \in Beside(doc, P) : ~commentLine(doc[i])}
                    /\ T = {i \in Beside(out, P) : ~commentLine(out[i])}
    OBVIOUS
  <2>2. S \in SUBSET DOMAIN doc /\ T \in SUBSET DOMAIN out
    BY <2>1 DEF Beside
  <2>3. \A j \in S : (j < B \/ R <= j) /\ Shift(B, K, R, j) \in T
    BY <1>3, <1>4, <1>5, <2>1 DEF Beside
  <2>4. \A j \in DOMAIN doc : (j < B \/ R <= j) /\ Shift(B, K, R, j) \in T => j \in S
    BY <1>3, <1>4, <2>1 DEF Beside
  <2>5. \A k \in 1..K : B - 1 + k \notin T
    BY <1>6, <2>1
  <2>6. LinesAt(out, T) = LinesAt(doc, S)
    BY <2>2, <2>3, <2>4, <2>5, Carried
  <2>7. QED
    BY <2>1, <2>6 DEF SettingsBeside
<1>8. ASSUME P = {p} \/ Contiguous(doc) PROVE LinesBeside(out, P) = LinesBeside(doc, P)
  <2>1. \A j \in DOMAIN doc : (j < B \/ R <= j) /\ ~blankLine(doc[j]) =>
          (Owner(out, Shift(B, K, R, j)) \in P <=> Owner(doc, j) \in P)
    BY <1>4, <1>8
  <2>2. Beside(doc, P) \in SUBSET DOMAIN doc /\ Beside(out, P) \in SUBSET DOMAIN out
    BY DEF Beside
  <2>3. \A j \in Beside(doc, P) : (j < B \/ R <= j) /\ Shift(B, K, R, j) \in Beside(out, P)
    BY <1>3, <1>5, <2>1 DEF Beside
  <2>4. \A j \in DOMAIN doc : (j < B \/ R <= j) /\ Shift(B, K, R, j) \in Beside(out, P)
          => j \in Beside(doc, P)
    BY <1>3, <2>1 DEF Beside
  <2>5. LinesAt(out, Beside(out, P)) = LinesAt(doc, Beside(doc, P))
    BY <1>6, <2>2, <2>3, <2>4, Carried
  <2>6. QED
    BY <2>5 DEF LinesBeside
<1>9. QED
  BY <1>7, <1>8

\* The lines beside P after an edit of one of P: where the tables of a profile
\* stand together, or P is that profile alone, its comments too.
LEMMA SpliceBeside ==
    ASSUME NEW doc \in DocType, NEW p \in Profiles, NEW block, HasSection(doc, p),
           Fresh(block, p), Rooted(doc), NEW P, p \in P,
           \A i \in DOMAIN doc : doc[i].kind = "torn" => doc[i].of \in P
    PROVE  LET out == spliceProfileBlock(doc, p, block) IN
           /\ SettingsBeside(out, P) = SettingsBeside(doc, P)
           /\ P = {p} \/ Contiguous(doc) => LinesBeside(out, P) = LinesBeside(doc, P)
<1>1. PICK out : out = spliceProfileBlock(doc, p, block)
  OBVIOUS
<1>2. PICK F, B, R, N, K : EditAt(doc, p, block, out, F, B, R, N, K)
  BY <1>1, EditIs
<1>3. QED
  BY <1>1, <1>2, BesideSplice

\* A document that parses has no torn line.
LEMMA NoneTorn ==
    ASSUME NEW doc \in DocType, Parses(doc), NEW i \in DOMAIN doc
    PROVE  doc[i].kind # "torn"
<1> SUFFICES ASSUME doc[i].kind = "torn" PROVE FALSE
  OBVIOUS
<1>1. doc[i] \in LineType
  BY ElementOfSeq, LenProperties DEF DocType
<1>2. doc[i].of \in Profiles
  BY <1>1 DEF LineType, Naming, Named
<1>3. Single(doc, doc[i].of)
  BY <1>2, ParsesSingle
<1>4. QED
  BY <1>3 DEF Single

-----------------------------------------------------------------------------
(* What an edit leaves of the profile itself.                              *)

\* The lines of the block, when the tables of the profile stood together.
LEMMA SpliceOwn ==
    ASSUME NEW doc, NEW p \in Profiles, NEW block, NEW out, NEW F, NEW B, NEW R, NEW N, NEW K,
           EditAt(doc, p, block, out, F, B, R, N, K), Fresh(block, p),
           Parses(doc), Contiguous(doc)
    PROVE  LinesOf(out, p) = LinesOf(block, p)
<1>1. PICK D : D = B + K - R
  OBVIOUS
<1>2. Stays(doc, block, out, B, R, K, D)
  BY <1>1, EditKeeps
<1>3. SplicedAt(doc, block, out, B, R, K) /\ CutAt(doc, p, F, B, R, N) /\ K = Len(block)
      /\ block \in DocType
  BY DEF EditAt
<1>4. DOMAIN block = 1..K /\ K \in Nat /\ B \in Nat /\ DOMAIN out = 1..Len(out) /\ out \in DocType
  BY <1>2, <1>3, LenProperties DEF DocType, Stays
<1>5. \A j \in 1..Len(doc) : j < B \/ R <= j => doc[j].of # p
  BY <1>2, <1>3, NoMoreOf DEF Stays
<1>6. \A j \in DOMAIN doc : (j < B \/ R <= j) /\ ~blankLine(doc[j]) =>
        Owner(out, Shift(B, K, R, j)) # p
  <2>1. ASSUME NEW j \in DOMAIN doc, j < B \/ R <= j, ~blankLine(doc[j])
        PROVE  Owner(doc, j) # p
    <3>1. doc \in DocType /\ j \in 1..Len(doc)
      BY <1>2 DEF Stays
    <3>2. PICK t \in Nat, n \in Nat : Around(doc, j, t, n)
      BY <2>1, <3>1, SomeAround
    <3>3. doc[j].of # p
      BY <1>5, <2>1, <3>1
    <3>4. CASE OfTable(doc, t) # p
      BY <2>1, <3>1, <3>2, <3>3, <3>4, OwnerIs, NobodyNamed
    <3>5. CASE OfTable(doc, t) = p
      <4>1. /\ t \in DOMAIN doc /\ doc[t].of = p /\ t \in 0..j /\ (t # 0 => isTable(doc[t]))
            /\ \A h \in (t + 1)..j : ~isTable(doc[h])
            /\ n \in (j + 1)..(Len(doc) + 1) /\ (n <= Len(doc) => isTable(doc[n]))
        BY <3>2, <3>5, NobodyNamed DEF OfTable, Around
      <4>2. B <= t /\ t < R /\ R <= j
        BY <1>2, <1>5, <2>1, <3>1, <4>1 DEF Stays
      <4>3. j < N
        <5>1. N <= j => N \in (t + 1)..j /\ isTable(doc[N])
          <6>1. N \in Int /\ j \in Int /\ R <= N /\ j <= Len(doc) /\ Len(doc) \in Int
                /\ (N <= Len(doc) => isTable(doc[N]))
            BY <1>2, <1>3, <3>1 DEF CutAt, Stays
          <6>2. t \in Int /\ R \in Int /\ t < R
            BY <1>2, <4>1, <4>2, StaysNumbers
          <6>3. QED
            BY <6>1, <6>2
        <5>2. N \in Int /\ j \in Int
          BY <1>2, <1>3, <3>1 DEF CutAt, Stays
        <5>3. QED
          BY <4>1, <5>1, <5>2
      <4>4. j \in R..(N - 1)
        BY <1>2, <1>3, <3>1, <4>2, <4>3 DEF CutAt, Stays
      <4>5. Owner(doc, j) = NoProfile
        BY <1>1, <2>1, <4>4, OwnerGap
      <4>6. QED
        BY <4>5, NobodyNamed
    <3>6. QED
      BY <3>4, <3>5
  <2>2. QED
    BY <2>1, OwnerStays
<1>7. \A k \in 1..K : ~blankLine(block[k]) =>
        /\ B - 1 + k \in DOMAIN out /\ out[B - 1 + k] = block[k] /\ Owner(out, B - 1 + k) = p
        /\ Owner(block, k) = p
  <2>1. ASSUME NEW k \in 1..K, ~blankLine(block[k])
        PROVE  /\ B - 1 + k \in DOMAIN out /\ out[B - 1 + k] = block[k]
               /\ Owner(out, B - 1 + k) = p /\ Owner(block, k) = p
    <3>1. B - 1 + k \in DOMAIN out /\ out[B - 1 + k] = block[k] /\ Owner(out, B - 1 + k) = p
      BY <2>1, OwnerBlock
    <3>2. isTable(block[k]) /\ block[k].of = p
      BY <1>3, <2>1, FreshLines DEF blankLine
    <3>3. Owner(block, k) = p
      BY <1>3, <1>4, <3>2, OwnerTable
    <3>4. QED
      BY <3>1, <3>3
  <2>2. QED
    BY <2>1
<1>8. PICK S, T : S = Within(block, {p}) /\ T = Within(out, {p})
  OBVIOUS
<1>9. \A k \in S : k \in 1..K /\ B - 1 + k \in T /\ out[B - 1 + k] = block[k]
  BY <1>4, <1>7, <1>8 DEF Within
<1>10. \A t \in T : \E k \in S : B - 1 + k = t
  <2>1. ASSUME NEW t \in T PROVE \E k \in S : B - 1 + k = t
    <3>1. t \in DOMAIN out /\ ~blankLine(out[t]) /\ Owner(out, t) = p
      BY <1>8 DEF Within
    <3>2. \/ \E k \in 1..K : t = B - 1 + k /\ out[t] = block[k]
          \/ \E j \in DOMAIN doc :
               (j < B \/ R <= j) /\ t = Shift(B, K, R, j) /\ out[t] = doc[j]
      BY <3>1, EditLines
    <3>3. PICK k \in 1..K : t = B - 1 + k /\ out[t] = block[k]
      BY <1>6, <3>1, <3>2
    <3>4. k \in S
      BY <1>4, <1>7, <1>8, <3>1, <3>3 DEF Within
    <3>5. QED
      BY <3>3, <3>4
  <2>2. QED
    BY <2>1
<1>11. PICK f : f = [k \in S |-> B - 1 + k]
  OBVIOUS
<1>12. IsFiniteSet(S)
  <2>1. IsFiniteSet(1..K) /\ S \in SUBSET (1..K)
    BY <1>4, <1>9, FS_Interval
  <2>2. QED
    BY <2>1, FS_Subset
<1>13. S \subseteq Nat /\ T \subseteq Nat
  <2>1. T \subseteq DOMAIN out /\ S \subseteq DOMAIN block
    BY <1>8 DEF Within
  <2>2. QED
    BY <1>4, <2>1
<1>14. Renumbers(f, S, T)
  <2>1. f \in [S -> T] /\ \A t \in T : \E s \in S : f[s] = t
    BY <1>9, <1>10, <1>11
  <2>2. \A i, j \in S : i < j => f[i] < f[j]
    BY <1>4, <1>11, <1>13
  <2>3. QED
    BY <1>12, <1>13, <2>1, <2>2 DEF Renumbers
<1>15. \A k \in S : out[f[k]] = block[k]
  BY <1>9, <1>11
<1>16. QED
  BY <1>8, <1>14, <1>15, SameLines DEF LinesOf

\* The tables of every profile still stand together.
LEMMA SpliceTogether ==
    ASSUME NEW doc, NEW p \in Profiles, NEW block, NEW out, NEW F, NEW B, NEW R, NEW N, NEW K,
           EditAt(doc, p, block, out, F, B, R, N, K), Fresh(block, p),
           Parses(doc), Contiguous(doc)
    PROVE  Contiguous(out)
<1>1. PICK D : D = B + K - R
  OBVIOUS
<1>2. Stays(doc, block, out, B, R, K, D)
  BY <1>1, EditKeeps
<1>3. SplicedAt(doc, block, out, B, R, K) /\ CutAt(doc, p, F, B, R, N) /\ K = Len(block)
  BY DEF EditAt
<1>4. \A j \in DOMAIN doc : j < B \/ R <= j => doc[j].of # p
  BY <1>2, <1>3, NoMoreOf DEF Stays
<1>5. \A i \in DOMAIN out :
        \/ \E k \in 1..K : i = B - 1 + k /\ out[i] = block[k]
        \/ \E j \in DOMAIN doc : (j < B \/ R <= j) /\ i = Shift(B, K, R, j) /\ out[i] = doc[j]
  BY EditLines
<1>6. \A k \in 1..K : isTable(block[k]) => block[k].of = p
  BY <1>3, FreshLines
<1>7. \A i, j \in DOMAIN doc : (i < B \/ R <= i) /\ (j < B \/ R <= j) =>
        (i < j <=> Shift(B, K, R, i) < Shift(B, K, R, j))
  BY <1>2, <1>3, ShiftProps DEF Stays
<1>8. \A j \in DOMAIN doc, k \in 1..K : j < B \/ R <= j =>
        /\ Shift(B, K, R, j) < B - 1 + k => j < B
        /\ B - 1 + k < Shift(B, K, R, j) => R <= j
        /\ Shift(B, K, R, j) # B - 1 + k
  <2>1. B \in Int /\ R \in Int /\ K \in Int /\ B < R /\ DOMAIN doc = 1..Len(doc) /\ Len(doc) \in Int
    BY <1>2, StaysNumbers
  <2>2. QED
    BY <2>1 DEF Shift
<1>9. \A i, j, k \in DOMAIN doc :
        i < j /\ j < k /\ isTable(doc[i]) /\ isTable(doc[j]) /\ isTable(doc[k])
          /\ doc[i].of = doc[k].of /\ doc[i].of # NoProfile => doc[j].of = doc[i].of
  BY DEF Contiguous
<1>10. F \in DOMAIN doc /\ isTable(doc[F]) /\ doc[F].of = p /\ B <= F /\ F < R
       /\ DOMAIN out \subseteq Nat /\ DOMAIN doc \subseteq Nat /\ B \in Nat /\ R \in Nat
  BY <1>2, <1>3 DEF Stays, CutAt, profileSection
<1>11. ASSUME NEW x \in DOMAIN out, NEW y \in DOMAIN out, NEW z \in DOMAIN out, x < y, y < z,
              isTable(out[x]), isTable(out[y]), isTable(out[z]),
              out[x].of = out[z].of, out[x].of # NoProfile
       PROVE  out[y].of = out[x].of
  <2>1. CASE out[x].of = p
    <3>1. PICK k \in 1..K, h \in 1..K : x = B - 1 + k /\ z = B - 1 + h
      BY <1>4, <1>5, <1>11, <2>1
    <3>2. ASSUME NEW j \in DOMAIN doc, j < B \/ R <= j, y = Shift(B, K, R, j) PROVE FALSE
      BY <1>8, <1>10, <1>11, <3>1, <3>2
    <3>3. PICK m \in 1..K : out[y] = block[m]
      BY <1>5, <3>2
    <3>4. QED
      BY <1>6, <1>11, <2>1, <3>3
  <2>2. CASE out[x].of # p
    <3>1. PICK i \in DOMAIN doc : (i < B \/ R <= i) /\ x = Shift(B, K, R, i) /\ out[x] = doc[i]
      BY <1>5, <1>6, <1>11, <2>2
    <3>2. PICK k \in DOMAIN doc : (k < B \/ R <= k) /\ z = Shift(B, K, R, k) /\ out[z] = doc[k]
      BY <1>5, <1>6, <1>11, <2>2
    <3>3. ASSUME NEW m \in 1..K, y = B - 1 + m PROVE FALSE
      <4>1. i < B /\ R <= k
        BY <1>8, <1>11, <3>1, <3>2, <3>3
      <4>2. i < F /\ F < k
        BY <1>10, <4>1
      <4>3. QED
        BY <1>9, <1>10, <1>11, <2>2, <3>1, <3>2, <4>2
    <3>4. PICK j \in DOMAIN doc : (j < B \/ R <= j) /\ y = Shift(B, K, R, j) /\ out[y] = doc[j]
      BY <1>5, <3>3
    <3>5. i < j /\ j < k
      BY <1>7, <1>11, <3>1, <3>2, <3>4
    <3>6. QED
      BY <1>9, <1>11, <3>1, <3>2, <3>4, <3>5
  <2>3. QED
    BY <2>1, <2>2
<1>12. QED
  BY <1>11 DEF Contiguous

\* The profile keeps its place among the others when it has one section.
LEMMA SpliceOrder ==
    ASSUME NEW doc, NEW p \in Profiles, NEW block, NEW out, NEW F, NEW B, NEW R, NEW N, NEW K,
           EditAt(doc, p, block, out, F, B, R, N, K), Fresh(block, p), block # <<>>,
           Parses(doc), Contiguous(doc), Count(doc, "section", p) = 1
    PROVE  Order(out) = Order(doc)
<1>1. PICK D : D = B + K - R
  OBVIOUS
<1>2. Stays(doc, block, out, B, R, K, D)
  BY <1>1, EditKeeps
<1>3. SplicedAt(doc, block, out, B, R, K) /\ CutAt(doc, p, F, B, R, N) /\ K = Len(block)
  BY DEF EditAt
<1>4. \A j \in DOMAIN doc : j < B \/ R <= j => doc[j].of # p
  BY <1>2, <1>3, NoMoreOf DEF Stays
<1>5. /\ DOMAIN out \subseteq Nat /\ DOMAIN doc \subseteq Nat /\ B \in Nat /\ R \in Nat
      /\ doc \in DocType /\ DOMAIN doc = 1..Len(doc) /\ Len(doc) \in Nat
  BY <1>2 DEF Stays
<1>6. K >= 2 /\ block[2].kind = "section" /\ block[2].of = p
  BY <1>3 DEF Fresh, Written, Blocky, profileSection
<1>7. B + 1 \in DOMAIN out /\ out[B + 1] = block[2] /\ B - 1 + 2 = B + 1
  <2>1. 2 \in 1..K /\ B - 1 + 2 = B + 1
    BY <1>2, <1>6 DEF Stays
  <2>2. out[B - 1 + 2] = block[2]
    BY <1>2, <2>1 DEF Stays
  <2>3. B + 1 \in DOMAIN out
    BY <1>2, <1>6 DEF Stays
  <2>4. QED
    BY <2>1, <2>2, <2>3
<1>8. \A k \in 1..K : block[k].kind \in {"section", "table"} => k = 2
  BY <1>3, FreshLines
<1>9. PICK s \in DOMAIN doc : doc[s].kind = "section" /\ doc[s].of = p
  <2>a. DOMAIN doc = 1..Len(doc) /\ Len(doc) \in Nat
    BY <1>5
  <2>1. KindLine(doc, "section", p) \in SUBSET (1..Len(doc)) /\ IsFiniteSet(1..Len(doc))
    BY <2>a, FS_Interval DEF KindLine
  <2>2. IsFiniteSet(KindLine(doc, "section", p))
    BY <2>1, FS_Subset
  <2>3. Cardinality(KindLine(doc, "section", p)) = 1
    BY DEF Count, KindLine
  <2>4. KindLine(doc, "section", p) # {}
    BY <2>2, <2>3, AtMostOne
  <2>5. QED
    BY <2>4 DEF KindLine
<1>10. B <= s /\ s < R
  BY <1>4, <1>5, <1>9
<1>11. \A i \in Tables(doc) : ~(i < B \/ R <= i) => i = s
  <2>1. ASSUME NEW i \in Tables(doc), ~(i < B \/ R <= i) PROVE i = s
    <3>1. i \in DOMAIN doc /\ doc[i].kind \in {"section", "table"} /\ isTable(doc[i])
          /\ i \in 1..Len(doc) /\ B <= i /\ i < R
      BY <1>5, <2>1 DEF Tables, isTable
    <3>2. doc[i].of = p
      BY <1>3, <3>1, CutTables
    <3>3. doc[i] \in LineType
      BY <1>5, <3>1, ElementOfSeq DEF DocType
    <3>4. doc[i].kind = "section"
      BY <3>1, <3>2, <3>3, NobodyNamed DEF LineType, Naming
    <3>5. i \in MainLine(doc, p) /\ s \in MainLine(doc, p)
      BY <1>9, <3>1, <3>2, <3>4 DEF MainLine, Mention
    <3>6. Single(doc, p)
      BY <1>5, ParsesSingle
    <3>7. QED
      BY <3>5, <3>6 DEF Single
  <2>2. QED
    BY <2>1
<1>12. PICK S, T : S = Tables(doc) /\ T = Tables(out)
  OBVIOUS
<1>13. PICK f : f = [i \in S |-> IF i = s THEN B + 1 ELSE Shift(B, K, R, i)]
  OBVIOUS
<1>14. s \in S /\ B + 1 \in T
  BY <1>6, <1>7, <1>9, <1>12 DEF Tables
<1>15. S \subseteq DOMAIN doc /\ T \subseteq DOMAIN out
  BY <1>12 DEF Tables
<1>16. \A i \in S : i # s => /\ i < B \/ R <= i
                             /\ f[i] = Shift(B, K, R, i) /\ f[i] \in T /\ out[f[i]] = doc[i]
  <2>1. ASSUME NEW i \in S, i # s
        PROVE  /\ i < B \/ R <= i
               /\ f[i] = Shift(B, K, R, i) /\ f[i] \in T /\ out[f[i]] = doc[i]
    <3>1. (i < B \/ R <= i) /\ f[i] = Shift(B, K, R, i) /\ i \in 1..Len(doc)
      BY <1>5, <1>11, <1>12, <1>13, <1>15, <2>1
    <3>2. f[i] \in 1..Len(out) /\ out[f[i]] = doc[i]
      BY <1>3, <3>1, ShiftProps
    <3>3. f[i] \in DOMAIN out
      BY <1>2, <3>2 DEF Stays
    <3>4. f[i] \in T
      BY <1>12, <3>2, <3>3 DEF Tables
    <3>5. QED
      BY <3>1, <3>2, <3>4
  <2>2. QED
    BY <2>1
<1>17. f[s] = B + 1 /\ out[f[s]].of = doc[s].of
  BY <1>6, <1>7, <1>9, <1>13, <1>14
<1>18. \A t \in T : \E i \in S : f[i] = t
  <2>1. ASSUME NEW t \in T PROVE \E i \in S : f[i] = t
    <3>1. t \in DOMAIN out /\ out[t].kind \in {"section", "table"}
      BY <1>12 DEF Tables
    <3>2. \/ \E k \in 1..K : t = B - 1 + k /\ out[t] = block[k]
          \/ \E j \in DOMAIN doc :
               (j < B \/ R <= j) /\ t = Shift(B, K, R, j) /\ out[t] = doc[j]
      BY <3>1, EditLines
    <3>3. ASSUME NEW k \in 1..K, t = B - 1 + k, out[t] = block[k] PROVE f[s] = t
      BY <1>7, <1>8, <1>17, <3>1, <3>3
    <3>4. ASSUME NEW j \in DOMAIN doc, j < B \/ R <= j, t = Shift(B, K, R, j), out[t] = doc[j]
          PROVE  j \in S /\ f[j] = t
      <4>1. j \in S
        BY <1>12, <3>1, <3>4 DEF Tables
      <4>2. j # s
        BY <1>5, <1>10, <3>4
      <4>3. QED
        BY <1>16, <3>4, <4>1, <4>2
    <3>5. QED
      BY <1>14, <3>2, <3>3, <3>4
  <2>2. QED
    BY <2>1
<1>19. \A i, j \in S : i < j => f[i] < f[j]
  <2>1. ASSUME NEW i \in S, NEW j \in S, i < j PROVE f[i] < f[j]
    <3>1. i \in 1..Len(doc) /\ j \in 1..Len(doc)
      BY <1>5, <1>15
    <3>2. CASE i = s
      <4>1. R <= j /\ f[j] = Shift(B, K, R, j)
        BY <1>5, <1>10, <1>16, <2>1, <3>1, <3>2
      <4>2. B + 1 < Shift(B, K, R, j)
        BY <1>2, <1>6, <3>1, <4>1 DEF Stays, Shift
      <4>3. QED
        BY <1>17, <3>2, <4>1, <4>2
    <3>3. CASE j = s
      <4>1. i < B /\ f[i] = Shift(B, K, R, i)
        BY <1>5, <1>10, <1>16, <2>1, <3>1, <3>3
      <4>2. Shift(B, K, R, i) = i /\ i < B + 1
        BY <1>5, <3>1, <4>1 DEF Shift
      <4>3. QED
        BY <1>17, <3>3, <4>1, <4>2
    <3>4. CASE i # s /\ j # s
      <4>1. /\ i < B \/ R <= i
            /\ j < B \/ R <= j
            /\ f[i] = Shift(B, K, R, i) /\ f[j] = Shift(B, K, R, j)
        BY <1>16, <3>4
      <4>2. Shift(B, K, R, i) < Shift(B, K, R, j)
        BY <1>3, <2>1, <3>1, <4>1, ShiftProps
      <4>3. QED
        BY <4>1, <4>2
    <3>5. QED
      BY <3>2, <3>3, <3>4
  <2>2. QED
    BY <2>1
<1>20. Renumbers(f, S, T)
  <2>1. IsFiniteSet(1..Len(doc)) /\ S \in SUBSET (1..Len(doc))
    BY <1>5, <1>15, FS_Interval
  <2>2. IsFiniteSet(S)
    BY <2>1, FS_Subset
  <2>3. f \in [S -> T]
    BY <1>13, <1>14, <1>16, <1>17
  <2>4. QED
    BY <1>5, <1>15, <1>18, <1>19, <2>2, <2>3 DEF Renumbers
<1>21. /\ Cardinality(T) = Cardinality(S)
       /\ \A n \in 1..Cardinality(S) : Nth(S, n) \in S /\ Nth(T, n) = f[Nth(S, n)]
  BY <1>20, Renumbered
<1>22. \A n \in 1..Cardinality(S) : out[Nth(T, n)].of = doc[Nth(S, n)].of
  BY <1>16, <1>17, <1>21
<1>23. \A n \in 1..Cardinality(S) :
         LinesAt(out, T)[n] = out[Nth(T, n)] /\ LinesAt(doc, S)[n] = doc[Nth(S, n)]
  BY <1>21 DEF LinesAt
<1>24. Order(out) = [n \in 1..Cardinality(T) |-> LinesAt(out, T)[n].of]
       /\ Order(doc) = [n \in 1..Cardinality(S) |-> LinesAt(doc, S)[n].of]
  BY <1>12 DEF Order
<1>25. QED
  BY <1>21, <1>22, <1>23, <1>24

\* All of it together.
LEMMA SpliceFull ==
    ASSUME NEW doc \in DocType, NEW p \in Profiles, NEW block, HasSection(doc, p),
           Fresh(block, p), Parses(doc), Contiguous(doc)
    PROVE  LET out == spliceProfileBlock(doc, p, block) IN
           /\ LinesOf(out, p) = LinesOf(block, p)
           /\ Parses(out) /\ Contiguous(out)
           /\ block # <<>> /\ Count(doc, "section", p) = 1 => Order(out) = Order(doc)
<1>1. PICK out : out = spliceProfileBlock(doc, p, block)
  OBVIOUS
<1>2. PICK F, B, R, N, K : EditAt(doc, p, block, out, F, B, R, N, K)
  BY <1>1, EditIs
<1>3. LinesOf(out, p) = LinesOf(block, p) /\ Contiguous(out)
  BY <1>2, SpliceOwn, SpliceTogether
<1>4. block # <<>> /\ Count(doc, "section", p) = 1 => Order(out) = Order(doc)
  BY <1>2, SpliceOrder
<1>5. Parses(out)
  BY <1>1, ParsesSplice
<1>6. QED
  BY <1>1, <1>3, <1>4, <1>5

-----------------------------------------------------------------------------
(* What an append leaves of the lines of others.                           *)

LEMMA OwnerAppend ==
    ASSUME NEW doc \in DocType, NEW p \in Profiles, NEW block, Suffix(block, p),
           NEW out, AppendedAt(doc, block, out), NEW i \in DOMAIN doc, ~blankLine(doc[i])
    PROVE  ~commentLine(doc[i]) \/ (Written(block, p) /\ Mention(doc, p) = {}) =>
             Owner(out, i) = Owner(doc, i)
<1>1. /\ out \in DocType /\ Len(doc) \in Nat /\ DOMAIN doc = 1..Len(doc)
      /\ Len(out) = Len(doc) + Len(block) /\ DOMAIN out = 1..Len(out)
      /\ \A j \in DOMAIN doc : j \in DOMAIN out /\ out[j] = doc[j]
      /\ \A k \in 1..Len(block) : Len(doc) + k \in DOMAIN out /\ out[Len(doc) + k] = block[k]
  BY DEF AppendedAt
<1>2. Len(block) \in Nat /\ Len(block) >= 2
  BY TailLines
<1>3. PICK t \in Nat, n \in Nat : Around(doc, i, t, n)
  BY SomeAround
<1>4. PICK t2 \in Nat, m \in Nat : Around(out, i, t2, m)
  BY <1>1, SomeAround
<1>5. /\ t \in 0..i /\ (t # 0 => isTable(doc[t])) /\ \A h \in (t + 1)..i : ~isTable(doc[h])
      /\ n \in (i + 1)..(Len(doc) + 1) /\ (n <= Len(doc) => isTable(doc[n]))
      /\ \A h \in (i + 1)..(n - 1) : ~isTable(doc[h])
  BY <1>3 DEF Around
<1>6. i \in 1..Len(doc) /\ i \in DOMAIN out /\ out[i] = doc[i]
  BY <1>1
<1>7. \A h \in 1..Len(doc) : out[h] = doc[h]
  BY <1>1
<1>8. t \in 0..i /\ (t # 0 => isTable(out[t])) /\ \A h \in (t + 1)..i : ~isTable(out[h])
  BY <1>1, <1>5, <1>6, <1>7
<1>9. Around(out, i, t, m)
  BY <1>4, <1>8 DEF Around
<1>10. OfTable(out, t) = OfTable(doc, t)
  <2>1. CASE t = 0
    BY <1>1, <2>1 DEF OfTable
  <2>2. CASE t # 0
    BY <1>1, <1>5, <2>2 DEF OfTable
  <2>3. QED
    BY <2>1, <2>2
<1>11. Owner(doc, i) = IF doc[i].kind \in {"inline", "torn"} THEN doc[i].of
                       ELSE IF Between(doc, i, t, n) THEN NoProfile ELSE OfTable(doc, t)
  BY <1>3, OwnerIs
<1>12. ASSUME NEW e \in Nat, Around(out, i, t, e)
       PROVE  Owner(out, i) = IF out[i].kind \in {"inline", "torn"} THEN out[i].of
                              ELSE IF Between(out, i, t, e) THEN NoProfile ELSE OfTable(out, t)
  BY <1>1, <1>6, <1>12, OwnerIs
<1>13. CASE ~commentLine(doc[i])
  <2>1. ~Between(doc, i, t, n) /\ ~Between(out, i, t, m)
    BY <1>6, <1>13 DEF Between
  <2>2. QED
    BY <1>6, <1>9, <1>10, <1>11, <1>12, <1>13, <2>1
<1>14. CASE commentLine(doc[i]) /\ n <= Len(doc)
  <2>1. n \in 1..Len(doc) /\ n \in DOMAIN out /\ out[n] = doc[n] /\ n \in (i + 1)..(Len(out) + 1)
    BY <1>1, <1>2, <1>5, <1>6, <1>14
  <2>2. \A h \in i..(n - 1) : h \in 1..Len(doc) /\ out[h] = doc[h]
    BY <1>1, <1>6, <1>7, <1>14
  <2>3. Around(out, i, t, n)
    <3>1. \A h \in (i + 1)..(n - 1) : h \in i..(n - 1)
      BY <1>6
    <3>2. QED
      BY <1>5, <1>8, <1>14, <2>1, <2>2, <3>1 DEF Around
  <2>4. OfTable(out, n) = OfTable(doc, n)
    BY <1>1, <2>1 DEF OfTable
  <2>5. Between(out, i, t, n) <=> Between(doc, i, t, n)
    BY <1>6, <1>10, <2>2, <2>4 DEF Between
  <2>6. QED
    BY <1>6, <1>10, <1>11, <1>12, <2>3, <2>5
<1>15. CASE commentLine(doc[i]) /\ ~(n <= Len(doc)) /\ Written(block, p) /\ Mention(doc, p) = {}
  <2> DEFINE L == Len(doc)
             Quiet == \A h \in i..L : blankLine(doc[h]) \/ commentLine(doc[h])
  <2>1. n = L + 1 /\ n \notin DOMAIN doc /\ n - 1 = L
    BY <1>1, <1>5, <1>15
  <2>2. OfTable(doc, n) = NoProfile
    BY <2>1 DEF OfTable
  <2>3. Between(doc, i, t, n) <=> Quiet /\ OfTable(doc, t) # NoProfile
    BY <1>15, <2>1, <2>2 DEF Between
  <2>4. blankLine(block[1]) /\ isTable(block[2]) /\ block[2].of = p
    BY <1>15 DEF Written, Blocky, profileSection
  <2>5. /\ out[L + 1] = block[1] /\ out[L + 2] = block[2] /\ L + 2 \in DOMAIN out
        /\ 1 \in 1..Len(block) /\ 2 \in 1..Len(block)
    BY <1>1, <1>2
  <2>6. OfTable(out, L + 2) = p
    BY <2>4, <2>5 DEF OfTable
  <2>7. OfTable(doc, t) # p
    <3>1. t \notin DOMAIN doc \/ doc[t].of # p
      BY <1>15 DEF Mention
    <3>2. QED
      BY <3>1, NobodyNamed DEF OfTable
  <2>8. \A h \in i..((L + 2) - 1) : h = L + 1 \/ (h \in i..L /\ out[h] = doc[h])
    BY <1>1, <1>6, <1>7
  <2>9. L \in Nat /\ L + 2 \in Nat /\ L + 2 \in (i + 1)..(Len(out) + 1)
    BY <1>1, <1>2, <1>6
  <2>10. \A h \in (i + 1)..((L + 2) - 1) : ~isTable(out[h])
    <3>1. ASSUME NEW h \in (i + 1)..((L + 2) - 1) PROVE ~isTable(out[h])
      <4>1. CASE h = L + 1
        BY <2>4, <2>5, <4>1 DEF isTable, blankLine
      <4>2. CASE h # L + 1
        <5>1. h \in (i + 1)..(n - 1) /\ out[h] = doc[h]
          BY <1>1, <1>6, <1>7, <2>1, <4>2
        <5>2. QED
          BY <1>5, <5>1
      <4>3. QED
        BY <4>1, <4>2
    <3>2. QED
      BY <3>1
  <2>11. Around(out, i, t, L + 2)
    BY <1>8, <2>4, <2>5, <2>9, <2>10 DEF Around
  <2>12. Between(out, i, t, L + 2) <=> Quiet
    <3>1. (\A h \in i..((L + 2) - 1) : blankLine(out[h]) \/ commentLine(out[h])) <=> Quiet
      <4>1. \A h \in i..L : h \in i..((L + 2) - 1) /\ out[h] = doc[h]
        BY <1>1, <1>6, <1>7
      <4>2. QED
        BY <2>4, <2>5, <2>8, <4>1
    <3>2. QED
      BY <1>6, <1>10, <1>15, <2>6, <2>7, <3>1 DEF Between
  <2>13. doc[i].kind \notin {"inline", "torn"}
    BY <1>15 DEF commentLine
  <2> HIDE DEF Quiet, L
  <2>14. QED
    BY <1>6, <1>10, <1>11, <1>12, <2>3, <2>9, <2>11, <2>12, <2>13
<1>16. QED
  BY <1>13, <1>14, <1>15

\* What is beside P stays what it was when a profile of P is appended; the
\* comments at the end too, when the document has not mentioned it.
LEMMA AppendBeside ==
    ASSUME NEW doc \in DocType, NEW p \in Profiles, NEW block, Suffix(block, p), NEW P, p \in P
    PROVE  /\ SettingsBeside(doc \o block, P) = SettingsBeside(doc, P)
           /\ Written(block, p) /\ Mention(doc, p) = {} =>
                LinesBeside(doc \o block, P) = LinesBeside(doc, P)
<1>1. PICK out : out = doc \o block
  OBVIOUS
<1>2. AppendedAt(doc, block, out)
  BY <1>1, AppendLines
<1>3. /\ out \in DocType /\ Len(doc) \in Nat /\ DOMAIN doc = 1..Len(doc)
      /\ \A j \in DOMAIN doc : j \in DOMAIN out /\ out[j] = doc[j]
      /\ \A i \in DOMAIN out : i \notin DOMAIN doc =>
           \E k \in 1..Len(block) : i = Len(doc) + k /\ out[i] = block[k]
  BY <1>2 DEF AppendedAt
<1>4. ASSUME NEW i \in DOMAIN out, i \notin DOMAIN doc, ~blankLine(out[i])
      PROVE  Owner(out, i) = p
  <2>1. PICK k \in 1..Len(block) : out[i] = block[k]
    BY <1>3, <1>4
  <2>2. out[i].kind \in {"section", "headers", "torn"} /\ out[i].of = p
    BY <1>4, <2>1, TailLines DEF blankLine
  <2>3. CASE out[i].kind = "torn"
    <3>1. PICK t \in Nat, n \in Nat : Around(out, i, t, n)
      BY <1>3, SomeAround
    <3>2. QED
      BY <1>3, <1>4, <2>2, <2>3, <3>1, OwnerIs
  <2>4. CASE out[i].kind # "torn"
    <3>1. isTable(out[i])
      BY <2>2, <2>4 DEF isTable
    <3>2. QED
      BY <1>3, <2>2, <3>1, OwnerTable
  <2>5. QED
    BY <2>3, <2>4
<1>5. \A i \in Beside(out, P) : i \in DOMAIN doc
  BY <1>4 DEF Beside
<1>6. ASSUME NEW S \in SUBSET DOMAIN doc PROVE LinesAt(out, S) = LinesAt(doc, S)
  <2>1. PICK f : f = [i \in S |-> i]
    OBVIOUS
  <2>2. IsFiniteSet(1..Len(doc)) /\ S \in SUBSET (1..Len(doc))
    BY <1>3, FS_Interval
  <2>3. IsFiniteSet(S)
    BY <2>2, FS_Subset
  <2>4. Renumbers(f, S, S)
    BY <1>3, <2>1, <2>3 DEF Renumbers
  <2>5. \A i \in S : out[f[i]] = doc[i]
    BY <1>3, <2>1
  <2>6. QED
    BY <2>4, <2>5, SameLines
<1>7. SettingsBeside(out, P) = SettingsBeside(doc, P)
  <2>1. PICK S, T : /\ S = {i \in Beside(doc, P) : ~commentLine(doc[i])}
                    /\ T = {i \in Beside(out, P) : ~commentLine(out[i])}
    OBVIOUS
  <2>2. \A i \in DOMAIN doc : ~blankLine(doc[i]) /\ ~commentLine(doc[i]) =>
          Owner(out, i) = Owner(doc, i)
    BY <1>2, OwnerAppend
  <2>3. S = T /\ S \in SUBSET DOMAIN doc
    BY <1>3, <1>5, <2>1, <2>2 DEF Beside
  <2>4. LinesAt(out, T) = LinesAt(doc, S)
    BY <1>6, <2>3
  <2>5. QED
    BY <2>1, <2>4 DEF SettingsBeside
<1>8. ASSUME Written(block, p), Mention(doc, p) = {} PROVE LinesBeside(out, P) = LinesBeside(doc, P)
  <2>1. \A i \in DOMAIN doc : ~blankLine(doc[i]) => Owner(out, i) = Owner(doc, i)
    BY <1>2, <1>8, OwnerAppend
  <2>2. Beside(out, P) = Beside(doc, P) /\ Beside(doc, P) \in SUBSET DOMAIN doc
    BY <1>3, <1>5, <2>1 DEF Beside
  <2>3. QED
    BY <1>6, <2>2 DEF LinesBeside
<1>9. QED
  BY <1>1, <1>7, <1>8
=============================================================================

----------------------------- MODULE TomlSplice -----------------------------
(***************************************************************************)
(* pkg/app/tomledit.go: config.toml is edited as text, one profile's block *)
(* at a time. A document is a sequence of lines; what a line says is       *)
(* reduced to what the editor and the TOML parser tell apart. A table      *)
(* header stands for itself and the keys right below it; further keys, say *)
(* after a comment, are lines of kind "key".                               *)
(***************************************************************************)
EXTENDS Naturals, Sequences, FiniteSetsExt

CONSTANTS Profiles,   \* names that a document can give to a profile
          NoProfile   \* `of` of a line that names none

Line(kind, p, url) == [kind |-> kind, of |-> p, url |-> url]
Blank     == Line("blank", NoProfile, "")
Comment   == Line("comment", NoProfile, "")
Keys      == Line("key", NoProfile, "")
Table     == Line("table", NoProfile, "")        \* [other], [[other]]
Section(p, url) == Line("section", p, url)       \* [profiles.p]
Headers(p)      == Line("headers", p, "")        \* [profiles.p.headers]
Inline(p, url)  == Line("inline", p, url)        \* profiles.p = {...}
Torn(p)         == Line("torn", p, "")           \* a header cut short

LineKinds == {"blank", "comment", "key", "table", "section", "headers", "inline", "torn"}
\* The kinds of a line that names a profile.
Naming == {"section", "headers", "inline", "torn"}

blankLine(line) == line.kind = "blank"
commentLine(line) == line.kind = "comment"
isTable(line) == line.kind \in {"section", "headers", "table"}

\* Mutant: nested tables are not seen.
Mut_profileSection(line, p) == line.kind = "section" /\ line.of = p

profileSection(line, p) == isTable(line) /\ line.of = p

-----------------------------------------------------------------------------
(* spliceProfileBlock                                                      *)

HasSection(doc, p) == \E i \in DOMAIN doc : profileSection(doc[i], p)

FirstLine(doc, p) == Min({i \in DOMAIN doc : profileSection(doc[i], p)})

\* The blank separator belongs to the block that is replaced.
BlockStart(doc, p) ==
    Min({i \in 1..FirstLine(doc, p) :
            \A j \in i..(FirstLine(doc, p) - 1) : blankLine(doc[j])})

\* The next unrelated table ends the block.
NextTable(doc, p) ==
    Min({i \in FirstLine(doc, p)..Len(doc) :
            isTable(doc[i]) /\ ~profileSection(doc[i], p)} \cup {Len(doc) + 1})

\* Mutant: the comments above the next table go with the block.
Mut_BlockEnd(doc, p) == NextTable(doc, p)

\* Comments above that table document it: they and their blanks are given back.
BlockEnd(doc, p) ==
    Min({i \in (FirstLine(doc, p) + 1)..NextTable(doc, p) :
            \A j \in i..(NextTable(doc, p) - 1) :
                blankLine(doc[j]) \/ commentLine(doc[j])})

\* Nothing above to separate from: the file does not open blank.
RestStart(doc, p, block) ==
    IF BlockStart(doc, p) = 1 /\ block = <<>>
    THEN Max({i \in BlockEnd(doc, p)..(Len(doc) + 1) :
                 \A j \in BlockEnd(doc, p)..(i - 1) : blankLine(doc[j])})
    ELSE BlockEnd(doc, p)

\* Mutant: the blank line above is left where it is.
Mut_spliceProfileBlock(doc, p, block) ==
    SubSeq(doc, 1, FirstLine(doc, p) - 1) \o block
        \o SubSeq(doc, RestStart(doc, p, block), Len(doc))

spliceProfileBlock(doc, p, block) ==
    SubSeq(doc, 1, BlockStart(doc, p) - 1) \o block
        \o SubSeq(doc, RestStart(doc, p, block), Len(doc))

-----------------------------------------------------------------------------
(* What the lines of a document mean to the TOML parser: a reference that  *)
(* the editor knows nothing of.                                            *)

\* The table that line i stands in; 0: above the first one.
TableAt(doc, i) == Max({h \in 1..i : isTable(doc[h])} \cup {0})

\* Only blank lines and comments stand between line i and the next table.
Trailing(doc, i) ==
    \A j \in i..Len(doc) :
        TableAt(doc, j) = TableAt(doc, i) => doc[j].kind \in {"blank", "comment"}

TablesAfter(doc, i) == {h \in i..Len(doc) : isTable(doc[h])}

\* The profile that line i is part of: the one of its table. A comment that
\* leads to a table is part of a profile when both tables around it are.
Owner(doc, i) ==
    LET table == TableAt(doc, i)
        of == IF table = 0 THEN NoProfile ELSE doc[table].of
        leads == IF TablesAfter(doc, i) = {} THEN NoProfile
                 ELSE doc[Min(TablesAfter(doc, i))].of
    IN  CASE doc[i].kind \in {"inline", "torn"} -> doc[i].of
          [] Trailing(doc, i) /\ leads # of -> NoProfile
          [] OTHER -> of

\* The lines of doc that S numbers, in their order.
Nth(S, n) == CHOOSE i \in S : Cardinality({j \in S : j <= i}) = n
LinesAt(doc, S) == [n \in 1..Cardinality(S) |-> doc[Nth(S, n)]]

\* Where doc has lines, blank ones aside, of a profile in P, or of none of P.
Within(doc, P) == {i \in DOMAIN doc : ~blankLine(doc[i]) /\ Owner(doc, i) \in P}
Beside(doc, P) == {i \in DOMAIN doc : ~blankLine(doc[i]) /\ Owner(doc, i) \notin P}

LinesOf(doc, p)     == LinesAt(doc, Within(doc, {p}))
LinesBeside(doc, P) == LinesAt(doc, Beside(doc, P))

\* Those of them that mean something to the TOML parser.
SettingsBeside(doc, P) == LinesAt(doc, {i \in Beside(doc, P) : ~commentLine(doc[i])})

Count(doc, kind, p) ==
    Cardinality({i \in DOMAIN doc : doc[i].kind = kind /\ doc[i].of = p})

\* toml.Unmarshal takes the document: no table is defined twice.
Parses(doc) ==
    \A p \in Profiles :
        /\ Count(doc, "torn", p) = 0
        /\ Count(doc, "section", p) + Count(doc, "inline", p) <= 1
        /\ Count(doc, "headers", p) <= 1
        /\ Count(doc, "inline", p) = 0 \/ Count(doc, "headers", p) = 0

\* The tables of every profile follow each other, as install writes them.
Contiguous(doc) ==
    \A i, j, k \in DOMAIN doc :
        (i < j /\ j < k /\ isTable(doc[i]) /\ isTable(doc[j]) /\ isTable(doc[k])
           /\ doc[i].of = doc[k].of /\ doc[i].of # NoProfile)
        => doc[j].of = doc[i].of

\* No profile has its headers without its section next to them, at the most
\* with other tables of its own in between: what install writes is tidy.
Tidy(doc) ==
    \A h \in DOMAIN doc : doc[h].kind = "headers" =>
        \E s \in DOMAIN doc :
            /\ doc[s].kind = "section" /\ doc[s].of = doc[h].of
            /\ \A j \in s..h \cup h..s : isTable(doc[j]) => doc[j].of = doc[h].of

\* A dotted key gives a profile above the first table; below, it is a key of
\* that table.
Rooted(doc) ==
    \A i, j \in DOMAIN doc : doc[i].kind = "inline" /\ isTable(doc[j]) => i < j

\* The order in which the profiles and other tables stand.
Tables(doc) == {i \in DOMAIN doc : doc[i].kind \in {"section", "table"}}
Order(doc) == [n \in 1..Cardinality(Tables(doc)) |-> LinesAt(doc, Tables(doc))[n].of]
=============================================================================

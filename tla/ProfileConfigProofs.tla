------------------------- MODULE ProfileConfigProofs -------------------------
(***************************************************************************)
(* Theorems about ProfileConfig, for any documents, clients, commands and  *)
(* faults.                                                                 *)
(*                                                                         *)
(* IInv: AloneInv says what it means that a command is alone (whoever      *)
(* starts later marks it), KeptInv follows what it has read from the file  *)
(* to the backup. InstallInv follows what an install has achieved.         *)
(*                                                                         *)
(* StepShape then says in a word what each step does. On it rest JobsInv   *)
(* and DocsInv, which hold however many commands overlap (SharedInv);      *)
(* ParseInv, UndoInv and CommentInv, which a command that is alone has;    *)
(* and FirmInv: what a command is about to write keeps what is not its.    *)
(***************************************************************************)
EXTENDS TomlSpliceProofs

-----------------------------------------------------------------------------
(* Documents and settings.                                                 *)

\* What Load makes of a document.
LEMMA LoadedType ==
    ASSUME NEW doc \in DocType
    PROVE  Loaded(doc) \in ConfigType
<1> DEFINE Mentions(p) == {i \in DOMAIN doc : doc[i].of = p}
           Main(p) == {i \in Mentions(p) : doc[i].kind \in {"section", "inline"}}
           D == {q \in Profiles : Mentions(q) # {}}
           Prof(p) == [url |-> IF Main(p) = {} THEN "" ELSE doc[Min(Main(p))].url,
                       headers |-> Count(doc, "headers", p) > 0]
<1>1. DOMAIN doc = 1..Len(doc) /\ \A i \in 1..Len(doc) : doc[i] \in LineType
  BY ElementOfSeq, LenProperties DEF DocType
<1>2. ASSUME NEW p \in D PROVE Prof(p) \in ProfType
  <2>1. Main(p) \subseteq Nat
    BY <1>1
  <2>2. Main(p) # {} => Min(Main(p)) \in Main(p)
    BY <2>1, MinOf
  <2>3. Main(p) # {} => doc[Min(Main(p))] \in LineType
    BY <1>1, <2>2
  <2>4. (IF Main(p) = {} THEN "" ELSE doc[Min(Main(p))].url) \in URLs \cup {""}
    BY <2>3 DEF LineType
  <2>5. (Count(doc, "headers", p) > 0) \in BOOLEAN
    OBVIOUS
  <2> HIDE DEF Main, Mentions
  <2>6. QED
    BY <2>4, <2>5 DEF ProfType
<1>3. Loaded(doc) = [p \in D |-> Prof(p)]
  BY DEF Loaded
<1> HIDE DEF Prof, D
<1>4. [p \in D |-> Prof(p)] \in [D -> ProfType]
  BY <1>2
<1>5. D \in SUBSET Profiles
  BY DEF D
<1>6. QED
  BY <1>3, <1>4, <1>5 DEF ConfigType

\* What an edit puts in place of a profile's block.
LEMMA NewBlockFresh ==
    ASSUME proc \in [Commands -> ProcType], NEW c \in Commands, proc[c].prof \in Profiles
    PROVE  /\ NewBlock(c) \in DocType
           /\ proc[c].job = "uninstall" => NewBlock(c) = <<>>
           /\ proc[c].job # "uninstall" => Written(NewBlock(c), proc[c].prof)
<1>1. proc[c] \in ProcType
  OBVIOUS
<1>2. proc[c].cfg \in ConfigType /\ proc[c].url \in URLs \cup {""}
  BY <1>1 DEF ProcType
<1>3. PICK D \in SUBSET Profiles : proc[c].cfg \in [D -> ProfType]
  BY <1>2 DEF ConfigType
<1>4. Desired(c) \in ProfType
  <2>1. CASE proc[c].prof \in DOMAIN proc[c].cfg
    <3>1. proc[c].cfg[proc[c].prof] \in ProfType
      BY <1>3, <2>1
    <3>2. \A old \in ProfType, u \in URLs \cup {""} : mergeProfile(old, u) \in ProfType
      BY DEF mergeProfile, ProfType
    <3>3. QED
      BY <1>2, <2>1, <3>1, <3>2 DEF Desired
  <2>2. CASE proc[c].prof \notin DOMAIN proc[c].cfg
    BY <1>2, <2>2 DEF Desired, ProfType
  <2>3. QED
    BY <2>1, <2>2
<1>5. <<>> \in DocType
  BY DEF DocType
<1>6. QED
  BY <1>4, <1>5, BlockType, BlockWritten DEF NewBlock

LEMMA NewBlockType ==
    ASSUME proc \in [Commands -> ProcType], NEW c \in Commands, proc[c].prof \in Profiles
    PROVE  NewBlock(c) \in DocType
BY NewBlockFresh

\* The entries of a client's file after an edit.
LEMMA EntryTypes ==
    ASSUME NEW file \in FileType, NEW n \in Names, NEW p \in Profiles
    PROVE  /\ JSON("whole", With(file.servers, n, p)) \in FileType
           /\ JSON("whole", Without(file.servers, n)) \in FileType
           /\ \A m \in DOMAIN file.servers : file.servers[m] \in Named
<1>1. PICK D \in SUBSET Profiles : file.servers \in [D -> Named]
  BY DEF FileType, ServersType
<1>2. DOMAIN file.servers = D
  BY <1>1
<1>3. With(file.servers, n, p) \in [D \cup {n} -> Named]
  BY <1>1, <1>2 DEF With, Named
<1>4. Without(file.servers, n) \in [D \ {n} -> Named]
  BY <1>1, <1>2 DEF Without
<1>5. D \cup {n} \in SUBSET Profiles /\ D \ {n} \in SUBSET Profiles
  BY ConfigAssumption
<1>6. With(file.servers, n, p) \in ServersType /\ Without(file.servers, n) \in ServersType
  BY <1>3, <1>4, <1>5 DEF ServersType
<1>7. QED
  BY <1>1, <1>2, <1>6 DEF JSON, FileType

-----------------------------------------------------------------------------
(* What a command remembers.                                               *)

SameFiles(p, q) ==
    q.read = p.read /\ q.data = p.data /\ q.jread = p.jread /\ q.jdata = p.jdata
SameTask(p, q) ==
    /\ q.job = p.job /\ q.name = p.name /\ q.prof = p.prof /\ q.url = p.url
    /\ q.cfg = p.cfg /\ q.gone = p.gone /\ q.alone = p.alone

LEMMA Moved ==
    ASSUME NEW p \in ProcType, NEW x \in Places
    PROVE  LET q == [p EXCEPT !.pc = x] IN
           q \in ProcType /\ q.pc = x /\ q.ok = p.ok /\ SameFiles(p, q) /\ SameTask(p, q)
BY DEF ProcType, SameFiles, SameTask

LEMMA Returned ==
    ASSUME NEW p \in ProcType, NEW ok \in BOOLEAN
    PROVE  LET q == [p EXCEPT !.pc = "done", !.ok = ok] IN
           q \in ProcType /\ q.pc = "done" /\ q.ok = ok /\ SameFiles(p, q) /\ SameTask(p, q)
BY DEF ProcType, SameFiles, SameTask, Places

LEMMA HasReadToml ==
    ASSUME NEW p \in ProcType, NEW r \in DocType, NEW d \in DocType
    PROVE  LET q == [p EXCEPT !.pc = "tomlBak", !.read = r, !.data = d] IN
           /\ q \in ProcType /\ q.pc = "tomlBak" /\ q.read = r /\ q.data = d
           /\ q.jread = p.jread /\ q.jdata = p.jdata /\ q.ok = p.ok /\ SameTask(p, q)
BY DEF ProcType, SameTask, Places

LEMMA HasReadJSON ==
    ASSUME NEW p \in ProcType, NEW r \in FileType, NEW d \in FileType, NEW x \in Places
    PROVE  LET q == [p EXCEPT !.jread = r, !.jdata = d, !.pc = x] IN
           /\ q \in ProcType /\ q.pc = x /\ q.jread = r /\ q.jdata = d
           /\ q.read = p.read /\ q.data = p.data /\ q.ok = p.ok /\ SameTask(p, q)
BY DEF ProcType, SameTask

LEMMA PastEntry ==
    ASSUME NEW p \in ProcType, NEW prof \in Named, NEW gone \in BOOLEAN
    PROVE  LET q == AfterEntry(p, gone, prof) IN
           /\ q \in ProcType /\ q.pc \in {"edit", "done"} /\ q.prof = prof
           /\ q.gone = gone /\ q.ok = gone /\ q.job = p.job /\ q.name = p.name
           /\ q.url = p.url /\ q.cfg = p.cfg /\ q.alone = p.alone /\ SameFiles(p, q)
BY DEF ProcType, SameFiles, Places, AfterEntry

LEMMA Joined ==
    ASSUME NEW p \in ProcType
    PROVE  LET q == [p EXCEPT !.alone = FALSE] IN
           /\ q \in ProcType /\ q.pc = p.pc /\ ~q.alone
           /\ q.job = p.job /\ q.name = p.name /\ q.prof = p.prof
           /\ q.jread = p.jread /\ q.jdata = p.jdata
BY DEF ProcType

LEMMA IdleType == Idle \in ProcType /\ Idle.pc = "idle" /\ Idle.read = <<>> /\ Idle.jread.kind = "none"
<1>1. <<>> \in DocType
  BY DEF DocType
<1>2. Loaded(<<>>) \in ConfigType
  BY <1>1, LoadedType
<1>3. NoServers \in ServersType
  <2>1. NoServers \in [{} -> Named]
    BY DEF NoServers
  <2>2. {} \in SUBSET Profiles
    OBVIOUS
  <2>3. QED
    BY <2>1, <2>2 DEF ServersType
<1>4. JSON("none", NoServers) \in FileType /\ JSON("none", NoServers).kind = "none"
  BY <1>3 DEF JSON, FileType
<1>5. QED
  BY <1>1, <1>2, <1>4 DEF Idle, ProcType, Places, Named

-----------------------------------------------------------------------------
(* The inductive invariant.                                                *)

\* What a command is about, from app.New on.
TaskOf(p) == p.pc # "idle" =>
    /\ p.name \in Names /\ p.prof \in Profiles
    /\ p.pc \in {"jsonBak", "jsonSwap"} =>
           /\ p.jdata.kind = "whole"
           /\ p.job = "uninstall" => p.name \in DOMAIN p.jread.servers

\* What it has read of a file is in place until the backup is written, and in
\* the backup from then on.
Kept(p) == p.pc # "idle" /\ p.alone =>
    /\ IF p.pc = "tomlBak" THEN toml = p.read
       ELSE p.read = <<>> \/ tomlBak = [kind |-> "whole", doc |-> p.read]
    /\ IF p.pc = "jsonBak" THEN json = p.jread
       ELSE p.jread.kind = "none" \/ jsonBak = p.jread

FilesOK ==
    /\ toml \in DocType
    /\ tomlBak \in [kind : {"none", "torn", "whole"}, doc : DocType]
    /\ json \in FileType /\ json.kind # "torn"
    /\ jsonBak \in FileType
    /\ tokens \subseteq URLs
    /\ runs \in 0..MaxRuns

ProcsOK == proc \in [Commands -> ProcType]

TaskInv == \A c \in Commands : TaskOf(proc[c])
\* A command that is marked as alone is the only one that runs.
AloneInv ==
    \A c \in Commands : Active(c) /\ proc[c].alone => Others(c) = {}
KeptInv == \A c \in Commands : Kept(proc[c])

IInv == FilesOK /\ ProcsOK /\ TaskInv /\ AloneInv /\ KeptInv

\* A step that takes a running command to q. Whoever runs beside it is not
\* alone, and so has nothing to lose.
LEMMA StepTo ==
    ASSUME ProcsOK, TaskInv, AloneInv, KeptInv, NEW c \in Commands, Active(c),
           NEW q \in ProcType, proc' = [proc EXCEPT ![c] = q],
           q.pc = "idle" \/ q.alone = proc[c].alone,
           TaskOf(q), Kept(q)'
    PROVE  ProcsOK' /\ TaskInv' /\ AloneInv' /\ KeptInv'
<1>1. ProcsOK' /\ proc'[c] = q /\ \A d \in Commands \ {c} : proc'[d] = proc[d]
  BY DEF ProcsOK
<1>2. \A d \in Commands \ {c} : ~(Active(d) /\ proc[d].alone)
  BY DEF AloneInv, Others
<1>3. TaskInv'
  BY <1>1 DEF TaskInv
<1>4. AloneInv'
  <2>1. ASSUME NEW d \in Commands, Active(d)', proc'[d].alone PROVE (Others(d) = {})'
    <3>1. d = c
      BY <1>1, <1>2, <2>1 DEF Active
    <3>2. Active(c)' /\ proc[c].alone
      BY <1>1, <2>1, <3>1 DEF Active
    <3>3. Others(c) = {}
      BY <3>2 DEF AloneInv
    <3>4. QED
      BY <1>1, <3>1, <3>3 DEF Others, Active
  <2>2. QED
    BY <2>1 DEF AloneInv
<1>5. KeptInv'
  <2>1. ASSUME NEW d \in Commands PROVE Kept(proc[d])'
    <3>1. CASE d = c
      BY <1>1, <3>1 DEF Kept
    <3>2. CASE d # c
      BY <1>1, <1>2, <3>2 DEF Kept, Active
    <3>3. QED
      BY <3>1, <3>2
  <2>2. QED
    BY <2>1 DEF KeptInv
<1>6. QED
  BY <1>1, <1>3, <1>4, <1>5

\* Start marks a command alone when nobody else runs, and nobody else from
\* then on.
LEMMA StartStep ==
    ASSUME IInv, NEW c \in Commands, NEW q \in ProcType, Start(c, q),
           q.name \in Names, q.prof \in Profiles, q.pc \in {"entry", "append", "edit"},
           q.read = <<>>, q.jread.kind = "none"
    PROVE  IInv'
<1>1. /\ proc' = [d \in Commands |->
                  IF d = c THEN [q EXCEPT !.cfg = Loaded(toml), !.alone = Others(c) = {}]
                  ELSE IF Active(d) THEN [proc[d] EXCEPT !.alone = FALSE] ELSE proc[d]]
  BY DEF Start
<1>a. /\ ~Active(c)
      /\ runs' = runs + 1 /\ runs < MaxRuns
      /\ UNCHANGED <<toml, tomlBak, json, jsonBak, tokens>>
  BY DEF Start
<1>2. PICK alone \in BOOLEAN : alone = (Others(c) = {})
  OBVIOUS
<1>3. PICK cfg \in ConfigType : cfg = Loaded(toml)
  BY LoadedType DEF IInv, FilesOK
<1>4. PICK r : r = [q EXCEPT !.cfg = cfg, !.alone = alone]
  OBVIOUS
<1>5. /\ r \in ProcType /\ r.pc = q.pc /\ r.alone = alone
      /\ r.name = q.name /\ r.prof = q.prof /\ r.read = <<>> /\ r.jread.kind = "none"
  <2>1. LET u == [q EXCEPT !.cfg = cfg, !.alone = alone] IN
        /\ u \in ProcType /\ u.pc = q.pc /\ u.alone = alone
        /\ u.name = q.name /\ u.prof = q.prof /\ SameFiles(q, u)
    BY DEF ProcType, SameFiles
  <2>2. QED
    BY <1>4, <2>1 DEF SameFiles
<1>6. proc'[c] = r
  BY <1>1, <1>2, <1>3, <1>4
<1>7. ASSUME NEW d \in Commands \ {c}
      PROVE  /\ proc'[d] \in ProcType
             /\ Active(d)' <=> Active(d)
             /\ TaskOf(proc[d])'
             /\ ~(Active(d)' /\ proc'[d].alone)
  <2>1. proc[d] \in ProcType /\ TaskOf(proc[d])
    BY DEF IInv, ProcsOK, TaskInv
  <2>2. CASE Active(d)
    <3>1. PICK u : u = [proc[d] EXCEPT !.alone = FALSE]
      OBVIOUS
    <3>2. /\ u \in ProcType /\ u.pc = proc[d].pc /\ ~u.alone
          /\ u.job = proc[d].job /\ u.name = proc[d].name
          /\ u.prof = proc[d].prof /\ u.jread = proc[d].jread /\ u.jdata = proc[d].jdata
      BY <2>1, <3>1, Joined
    <3>3. proc'[d] = u
      BY <1>1, <2>2, <3>1
    <3>4. QED
      BY <2>1, <2>2, <3>2, <3>3 DEF TaskOf, Active
  <2>3. CASE ~Active(d)
    <3>1. proc'[d] = proc[d]
      BY <1>1, <2>3
    <3>2. QED
      BY <2>1, <2>3, <3>1 DEF TaskOf, Active
  <2>4. QED
    BY <2>2, <2>3
<1>8. ProcsOK'
  <2>1. \A d \in Commands : proc'[d] \in ProcType
    BY <1>5, <1>6, <1>7
  <2>2. proc' = [d \in Commands |-> proc'[d]]
    BY <1>1
  <2>3. QED
    BY <2>1, <2>2 DEF ProcsOK
<1>9. TaskInv'
  BY <1>5, <1>6, <1>7 DEF TaskInv, TaskOf
<1>10. AloneInv'
  <2>1. ASSUME NEW d \in Commands, Active(d)', proc'[d].alone PROVE (Others(d) = {})'
    <3>1. d = c
      BY <1>7, <2>1
    <3>2. Others(c) = {}
      BY <1>2, <1>5, <1>6, <2>1, <3>1
    <3>3. QED
      BY <1>7, <3>1, <3>2 DEF Others
  <2>2. QED
    BY <2>1 DEF AloneInv
<1>11. KeptInv'
  <2>1. ASSUME NEW d \in Commands PROVE Kept(proc[d])'
    <3>1. CASE d = c
      BY <1>5, <1>6, <3>1 DEF Kept
    <3>2. CASE d # c
      BY <1>7, <3>2 DEF Kept, Active
    <3>3. QED
      BY <3>1, <3>2
  <2>2. QED
    BY <2>1 DEF KeptInv
<1>12. FilesOK'
  <2>1. runs' \in 0..MaxRuns
    <3>1. MaxRuns \in Nat
      BY ConfigAssumption
    <3>2. runs \in 0..MaxRuns
      BY DEF IInv, FilesOK
    <3>3. QED
      BY <1>a, <3>1, <3>2
  <2>2. QED
    BY <1>a, <2>1 DEF IInv, FilesOK
<1>13. QED
  BY <1>8, <1>9, <1>10, <1>11, <1>12 DEF IInv

\* Every step of one command keeps the invariant.
LEMMA InvStep ==
    ASSUME IInv, [Next]_vars
    PROVE  IInv'
<1> USE DEF IInv
<1>1. ASSUME NEW c \in Commands, InstallURL(c) PROVE IInv'
  <2>1. PICK n \in Names, u \in URLs, x \in {"entry", "append", "edit"} :
          Start(c, [Idle EXCEPT !.pc = x, !.name = n, !.prof = n, !.url = u])
    BY <1>1 DEF InstallURL
  <2>2. PICK q : q = [Idle EXCEPT !.pc = x, !.name = n, !.prof = n, !.url = u]
    OBVIOUS
  <2>3. n \in Profiles /\ n \in Named
    BY ConfigAssumption DEF Named
  <2>4. /\ q \in ProcType /\ q.pc = x /\ q.name = n /\ q.prof = n
        /\ q.read = Idle.read /\ q.jread = Idle.jread
    BY <2>2, <2>3, IdleType DEF ProcType, Places
  <2>5. QED
    BY <2>1, <2>2, <2>3, <2>4, IdleType, StartStep
<1>2. ASSUME NEW c \in Commands, InstallProfile(c) PROVE IInv'
  <2>1. PICK n \in Names, p \in DOMAIN Loaded(toml) \cap Names :
          Start(c, [Idle EXCEPT !.pc = "entry", !.name = n, !.prof = p,
                                !.url = Loaded(toml)[p].url])
    BY <1>2 DEF InstallProfile
  <2>2. PICK u \in URLs \cup {""} : u = Loaded(toml)[p].url
    <3>1. PICK D \in SUBSET Profiles : Loaded(toml) \in [D -> ProfType]
      BY LoadedType DEF FilesOK, ConfigType
    <3>2. Loaded(toml)[p] \in ProfType
      BY <3>1
    <3>3. QED
      BY <3>2 DEF ProfType
  <2>3. PICK q : q = [Idle EXCEPT !.pc = "entry", !.name = n, !.prof = p, !.url = u]
    OBVIOUS
  <2>4. n \in Named /\ p \in Profiles /\ p \in Named
    BY ConfigAssumption DEF Named
  <2>5. /\ q \in ProcType /\ q.pc = "entry" /\ q.name = n /\ q.prof = p
        /\ q.read = Idle.read /\ q.jread = Idle.jread
    BY <2>3, <2>4, IdleType DEF ProcType, Places
  <2>6. QED
    BY <2>1, <2>2, <2>3, <2>4, <2>5, IdleType, StartStep
<1>3. ASSUME NEW c \in Commands, Uninstall(c) PROVE IInv'
  <2>1. PICK n \in Names :
          Start(c, [Idle EXCEPT !.pc = "entry", !.job = "uninstall", !.name = n, !.prof = n])
    BY <1>3 DEF Uninstall
  <2>2. PICK q : q = [Idle EXCEPT !.pc = "entry", !.job = "uninstall", !.name = n, !.prof = n]
    OBVIOUS
  <2>3. n \in Profiles /\ n \in Named
    BY ConfigAssumption DEF Named
  <2>4. /\ q \in ProcType /\ q.pc = "entry" /\ q.name = n /\ q.prof = n
        /\ q.read = Idle.read /\ q.jread = Idle.jread
    BY <2>2, <2>3, IdleType DEF ProcType, Places
  <2>5. QED
    BY <2>1, <2>2, <2>3, <2>4, IdleType, StartStep
<1>4. ASSUME NEW c \in Commands, AppendProfile(c) PROVE IInv'
  <2> PICK p \in ProcType : p = proc[c]
    BY DEF ProcsOK
  <2>0. p.pc = "append" /\ Active(c) /\ TaskOf(p) /\ Kept(p)
    BY <1>4 DEF AppendProfile, Active, TaskInv, KeptInv
  <2>1. p.prof \in Profiles
    BY <2>0 DEF TaskOf
  <2>2. CASE toml' = toml \o NewBlock(c) /\ Goto(c, "entry")
    <3>1. PICK q : q = [p EXCEPT !.pc = "entry"]
      OBVIOUS
    <3>2. proc' = [proc EXCEPT ![c] = q]
      BY <2>2, <3>1 DEF Goto, ProcsOK
    <3>3. q \in ProcType /\ q.pc = "entry" /\ SameFiles(p, q) /\ SameTask(p, q)
      BY <3>1, Moved DEF Places
    <3>4. FilesOK'
      <4>1. toml' \in DocType
        BY <2>1, <2>2, NewBlockType, ConcatProperties DEF FilesOK, ProcsOK, DocType
      <4>2. QED
        BY <1>4, <4>1 DEF AppendProfile, FilesOK
    <3>5. TaskOf(q) /\ Kept(q)'
      BY <1>4, <2>0, <3>3 DEF AppendProfile, TaskOf, Kept, SameFiles, SameTask
    <3>6. QED
      BY <2>0, <3>2, <3>3, <3>4, <3>5, StepTo DEF SameTask
  <2>3. CASE toml' = toml \o <<Blank, Torn(p.prof)>> /\ Return(c, FALSE)
    <3>1. PICK q : q = [p EXCEPT !.pc = "done", !.ok = FALSE]
      OBVIOUS
    <3>2. proc' = [proc EXCEPT ![c] = q]
      BY <2>3, <3>1 DEF Return, ProcsOK
    <3>3. q \in ProcType /\ q.pc = "done" /\ SameFiles(p, q) /\ SameTask(p, q)
      BY <3>1, Returned
    <3>4. FilesOK'
      <4>1. toml' \in DocType
        BY <2>1, <2>3, TornType, ConcatProperties DEF FilesOK, DocType
      <4>2. QED
        BY <1>4, <4>1 DEF AppendProfile, FilesOK
    <3>5. TaskOf(q) /\ Kept(q)'
      BY <1>4, <2>0, <3>3 DEF AppendProfile, TaskOf, Kept, SameFiles, SameTask
    <3>6. QED
      BY <2>0, <3>2, <3>3, <3>4, <3>5, StepTo DEF SameTask
  <2>4. QED
    BY <1>4, <2>2, <2>3 DEF AppendProfile
<1>5. ASSUME NEW c \in Commands, ReadToml(c) PROVE IInv'
  <2> PICK p \in ProcType : p = proc[c]
    BY DEF ProcsOK
  <2>0. p.pc = "edit" /\ Active(c) /\ TaskOf(p) /\ Kept(p)
    BY <1>5 DEF ReadToml, Active, TaskInv, KeptInv
  <2>1. CASE HasSection(toml, p.prof)
    <3> DEFINE d == spliceProfileBlock(toml, p.prof, NewBlock(c))
    <3>1. toml \in DocType /\ d \in DocType
      BY <2>0, <2>1, NewBlockType, SpliceType DEF FilesOK, ProcsOK, TaskOf
    <3>2. PICK q : q = [p EXCEPT !.pc = "tomlBak", !.read = toml, !.data = d]
      OBVIOUS
    <3> HIDE DEF d
    <3>3. proc' = [proc EXCEPT ![c] = q]
      BY <1>5, <2>1, <3>2 DEF ReadToml, ProcsOK, d
    <3>4. /\ q \in ProcType /\ q.pc = "tomlBak" /\ q.read = toml
          /\ q.jread = p.jread /\ q.jdata = p.jdata /\ SameTask(p, q)
      <4>1. LET u == [p EXCEPT !.pc = "tomlBak", !.read = toml, !.data = d] IN
            /\ u \in ProcType /\ u.pc = "tomlBak" /\ u.read = toml /\ u.data = d
            /\ u.jread = p.jread /\ u.jdata = p.jdata /\ u.ok = p.ok /\ SameTask(p, u)
        BY <3>1, HasReadToml
      <4>2. QED
        BY <3>2, <4>1
    <3>5. FilesOK'
      BY <1>5 DEF ReadToml, FilesOK
    <3>6. TaskOf(q) /\ Kept(q)'
      BY <1>5, <2>0, <3>4 DEF ReadToml, TaskOf, Kept, SameTask
    <3>7. QED
      BY <2>0, <3>3, <3>4, <3>5, <3>6, StepTo DEF SameTask
  <2>2. CASE ~HasSection(toml, p.prof) /\ Return(c, FALSE)
    <3>1. PICK q : q = [p EXCEPT !.pc = "done", !.ok = FALSE]
      OBVIOUS
    <3>2. proc' = [proc EXCEPT ![c] = q]
      BY <2>2, <3>1 DEF Return, ProcsOK
    <3>3. q \in ProcType /\ q.pc = "done" /\ SameFiles(p, q) /\ SameTask(p, q)
      BY <3>1, Returned
    <3>4. FilesOK'
      BY <1>5, <2>0, <2>2 DEF ReadToml, FilesOK
    <3>5. TaskOf(q) /\ Kept(q)'
      BY <1>5, <2>0, <2>2, <3>3 DEF ReadToml, TaskOf, Kept, SameFiles, SameTask
    <3>6. QED
      BY <2>0, <3>2, <3>3, <3>4, <3>5, StepTo DEF SameTask
  <2>3. QED
    BY <1>5, <2>1, <2>2 DEF ReadToml
<1>6. ASSUME NEW c \in Commands, BackupToml(c) PROVE IInv'
  <2> PICK p \in ProcType : p = proc[c]
    BY DEF ProcsOK
  <2>0. p.pc = "tomlBak" /\ Active(c) /\ TaskOf(p) /\ Kept(p)
    BY <1>6 DEF BackupToml, Active, TaskInv, KeptInv
  <2>1. PICK q : q = [p EXCEPT !.pc = "tomlSwap"]
    OBVIOUS
  <2>2. proc' = [proc EXCEPT ![c] = q]
    BY <1>6, <2>1 DEF BackupToml, Goto, ProcsOK
  <2>3. q \in ProcType /\ q.pc = "tomlSwap" /\ SameFiles(p, q) /\ SameTask(p, q)
    BY <2>1, Moved DEF Places
  <2>4. FilesOK'
    BY <1>6, <2>0 DEF BackupToml, FilesOK, ProcType
  <2>5. TaskOf(q) /\ Kept(q)'
    BY <1>6, <2>0, <2>3 DEF BackupToml, TaskOf, Kept, SameFiles, SameTask
  <2>6. QED
    BY <2>0, <2>2, <2>3, <2>4, <2>5, StepTo DEF SameTask
<1>7. ASSUME NEW c \in Commands, SwapToml(c) PROVE IInv'
  <2> PICK p \in ProcType : p = proc[c]
    BY DEF ProcsOK
  <2>0. p.pc = "tomlSwap" /\ Active(c) /\ TaskOf(p) /\ Kept(p)
    BY <1>7 DEF SwapToml, Active, TaskInv, KeptInv
  <2>a. PICK x \in Places \ {"jsonBak", "jsonSwap", "tomlBak", "idle"} : Goto(c, x)
    BY <1>7 DEF SwapToml, Places
  <2>1. PICK q : q = [p EXCEPT !.pc = x]
    OBVIOUS
  <2>2. proc' = [proc EXCEPT ![c] = q]
    BY <2>a, <2>1 DEF SwapToml, Goto, ProcsOK
  <2>3. q \in ProcType /\ q.pc = x /\ SameFiles(p, q) /\ SameTask(p, q)
    <3>1. x \in Places
      BY DEF Places
    <3>2. LET u == [p EXCEPT !.pc = x] IN
          u \in ProcType /\ u.pc = x /\ u.ok = p.ok /\ SameFiles(p, u) /\ SameTask(p, u)
      BY <3>1, Moved
    <3>3. QED
      BY <2>1, <3>2
  <2>4. FilesOK'
    BY <1>7, <2>0 DEF SwapToml, FilesOK, ProcType
  <2>5. TaskOf(q) /\ Kept(q)'
    BY <1>7, <2>0, <2>3 DEF SwapToml, TaskOf, Kept, SameFiles, SameTask
  <2>6. QED
    BY <2>0, <2>2, <2>3, <2>4, <2>5, StepTo DEF SameTask
<1>8. ASSUME NEW c \in Commands, DropTokens(c) PROVE IInv'
  <2> PICK p \in ProcType : p = proc[c]
    BY DEF ProcsOK
  <2>0. p.pc = "tokens" /\ Active(c) /\ TaskOf(p) /\ Kept(p)
    BY <1>8 DEF DropTokens, Active, TaskInv, KeptInv
  <2>1. CASE Return(c, TRUE)
    <3>1. PICK q : q = [p EXCEPT !.pc = "done", !.ok = TRUE]
      OBVIOUS
    <3>2. proc' = [proc EXCEPT ![c] = q]
      BY <2>1, <3>1 DEF Return, ProcsOK
    <3>3. q \in ProcType /\ q.pc = "done" /\ SameFiles(p, q) /\ SameTask(p, q)
      BY <3>1, Returned
    <3>4. FilesOK'
      BY <1>8, <2>0, <2>1 DEF DropTokens, FilesOK
    <3>5. TaskOf(q) /\ Kept(q)'
      BY <1>8, <2>0, <2>1, <3>3 DEF DropTokens, TaskOf, Kept, SameFiles, SameTask
    <3>6. QED
      BY <2>0, <3>2, <3>3, <3>4, <3>5, StepTo DEF SameTask
  <2>2. QED
    BY <1>8, <2>1 DEF DropTokens
<1>9. ASSUME NEW c \in Commands, LoadJSON(c) PROVE IInv'
  <2> PICK p \in ProcType : p = proc[c]
    BY DEF ProcsOK
  <2>0. p.pc = "entry" /\ Active(c) /\ TaskOf(p) /\ Kept(p)
    BY <1>9 DEF LoadJSON, Active, TaskInv, KeptInv
  <2>a. p.name \in Names /\ p.prof \in Profiles
    BY <2>0 DEF TaskOf
  <2>1. CASE Return(c, FALSE)
    <3>1. PICK q : q = [p EXCEPT !.pc = "done", !.ok = FALSE]
      OBVIOUS
    <3>2. proc' = [proc EXCEPT ![c] = q]
      BY <2>1, <3>1 DEF Return, ProcsOK
    <3>3. q \in ProcType /\ q.pc = "done" /\ SameFiles(p, q) /\ SameTask(p, q)
      BY <3>1, Returned
    <3>4. FilesOK'
      BY <1>9, <2>0, <2>1 DEF LoadJSON, FilesOK
    <3>5. TaskOf(q) /\ Kept(q)'
      BY <1>9, <2>0, <2>1, <3>3 DEF LoadJSON, TaskOf, Kept, SameFiles, SameTask
    <3>6. QED
      BY <2>0, <3>2, <3>3, <3>4, <3>5, StepTo DEF SameTask
  <2>2. ASSUME NEW servers, JSON("whole", servers) \in FileType,
               proc' = [proc EXCEPT ![c] =
                  [p EXCEPT !.jread = json, !.jdata = JSON("whole", servers),
                     !.pc = IF json.kind = "none" THEN "jsonSwap" ELSE "jsonBak"]],
               p.job = "uninstall" => p.name \in DOMAIN json.servers
        PROVE  IInv'
    <3>1. PICK x \in {"jsonSwap", "jsonBak"} : x = IF json.kind = "none" THEN "jsonSwap" ELSE "jsonBak"
      OBVIOUS
    <3>2. PICK q : q = [p EXCEPT !.jread = json, !.jdata = JSON("whole", servers), !.pc = x]
      OBVIOUS
    <3>3. proc' = [proc EXCEPT ![c] = q]
      BY <2>2, <3>1, <3>2
    <3>4. /\ q \in ProcType /\ q.pc = x /\ q.jread = json
          /\ q.jdata.kind = "whole" /\ q.read = p.read /\ SameTask(p, q)
      <4>1. json \in FileType /\ x \in Places
        BY DEF FilesOK, Places
      <4>2. LET u == [p EXCEPT !.jread = json, !.jdata = JSON("whole", servers), !.pc = x] IN
            /\ u \in ProcType /\ u.pc = x /\ u.jread = json /\ u.jdata = JSON("whole", servers)
            /\ u.read = p.read /\ u.data = p.data /\ u.ok = p.ok /\ SameTask(p, u)
        BY <2>2, <4>1, HasReadJSON
      <4>3. QED
        BY <3>2, <4>2 DEF JSON
    <3>5. FilesOK'
      BY <1>9 DEF LoadJSON, FilesOK
    <3>6. TaskOf(q) /\ Kept(q)'
      BY <1>9, <2>0, <2>2, <3>1, <3>4 DEF LoadJSON, TaskOf, Kept, SameTask
    <3>7. QED
      BY <2>0, <3>3, <3>4, <3>5, <3>6, StepTo DEF SameTask
  <2>3. CASE proc' = [proc EXCEPT ![c] = AfterEntry(p, FALSE, p.name)]
    <3>1. PICK ref \in Profiles : ref = p.name
      BY <2>a, ConfigAssumption
    <3>2. PICK q : q = AfterEntry(p, FALSE, ref)
      OBVIOUS
    <3>3. proc' = [proc EXCEPT ![c] = q]
      BY <1>9, <2>3, <3>1, <3>2 DEF LoadJSON, ProcsOK
    <3>4. /\ q \in ProcType /\ q.pc \in {"edit", "done"} /\ q.prof = ref
          /\ q.name = p.name /\ q.alone = p.alone /\ SameFiles(p, q)
      <4>1. ref \in Named
        BY DEF Named
      <4>2. LET u == AfterEntry(p, FALSE, ref) IN
            /\ u \in ProcType /\ u.pc \in {"edit", "done"} /\ u.prof = ref
            /\ u.name = p.name /\ u.alone = p.alone /\ SameFiles(p, u)
        BY <4>1, PastEntry
      <4>3. QED
        BY <3>2, <4>2
    <3>5. FilesOK'
      BY <1>9, <2>0, <2>3 DEF LoadJSON, FilesOK, ProcType
    <3>6. TaskOf(q) /\ Kept(q)'
      BY <1>9, <2>0, <2>3, <3>4 DEF LoadJSON, TaskOf, Kept, SameFiles
    <3>7. QED
      BY <2>0, <3>3, <3>4, <3>5, <3>6, StepTo
  <2>4. CASE p.job = "install" /\ proc' = [proc EXCEPT ![c] =
                  [p EXCEPT !.jread = json, !.jdata = JSON("whole", With(json.servers, p.name, p.prof)),
                     !.pc = IF json.kind = "none" THEN "jsonSwap" ELSE "jsonBak"]]
    BY <2>a, <2>2, <2>4, EntryTypes DEF FilesOK
  <2>5. CASE p.name \in DOMAIN json.servers /\ proc' = [proc EXCEPT ![c] =
                  [p EXCEPT !.jread = json, !.jdata = JSON("whole", Without(json.servers, p.name)),
                     !.pc = IF json.kind = "none" THEN "jsonSwap" ELSE "jsonBak"]]
    BY <2>a, <2>2, <2>5, EntryTypes DEF FilesOK
  <2>6. QED
    BY <1>9, <2>1, <2>3, <2>4, <2>5 DEF LoadJSON
<1>10. ASSUME NEW c \in Commands, BackupJSON(c) PROVE IInv'
  <2> PICK p \in ProcType : p = proc[c]
    BY DEF ProcsOK
  <2>0. p.pc = "jsonBak" /\ Active(c) /\ TaskOf(p) /\ Kept(p)
    BY <1>10 DEF BackupJSON, Active, TaskInv, KeptInv
  <2>1. PICK q : q = [p EXCEPT !.pc = "jsonSwap"]
    OBVIOUS
  <2>2. proc' = [proc EXCEPT ![c] = q]
    BY <1>10, <2>1 DEF BackupJSON, Goto, ProcsOK
  <2>3. q \in ProcType /\ q.pc = "jsonSwap" /\ SameFiles(p, q) /\ SameTask(p, q)
    BY <2>1, Moved DEF Places
  <2>4. FilesOK'
    BY <1>10, <2>0 DEF BackupJSON, FilesOK, ProcType
  <2>5. TaskOf(q) /\ Kept(q)'
    BY <1>10, <2>0, <2>3 DEF BackupJSON, TaskOf, Kept, SameFiles, SameTask
  <2>6. QED
    BY <2>0, <2>2, <2>3, <2>4, <2>5, StepTo DEF SameTask
<1>11. ASSUME NEW c \in Commands, SwapJSON(c) PROVE IInv'
  <2> PICK p \in ProcType : p = proc[c]
    BY DEF ProcsOK
  <2>0. p.pc = "jsonSwap" /\ Active(c) /\ TaskOf(p) /\ Kept(p)
    BY <1>11 DEF SwapJSON, Active, TaskInv, KeptInv
  <2>a. p.jdata \in FileType /\ p.jdata.kind # "torn"
    BY <2>0 DEF TaskOf, ProcType
  <2>1. CASE Return(c, TRUE)
    <3>1. PICK q : q = [p EXCEPT !.pc = "done", !.ok = TRUE]
      OBVIOUS
    <3>2. proc' = [proc EXCEPT ![c] = q]
      BY <2>1, <3>1 DEF Return, ProcsOK
    <3>3. q \in ProcType /\ q.pc = "done" /\ SameFiles(p, q) /\ SameTask(p, q)
      BY <3>1, Returned
    <3>4. FilesOK'
      BY <1>11, <2>0, <2>a, <2>1 DEF SwapJSON, FilesOK
    <3>5. TaskOf(q) /\ Kept(q)'
      BY <1>11, <2>0, <2>1, <3>3 DEF SwapJSON, TaskOf, Kept, SameFiles, SameTask
    <3>6. QED
      BY <2>0, <3>2, <3>3, <3>4, <3>5, StepTo DEF SameTask
  <2>2. CASE p.job = "uninstall" /\ proc' = [proc EXCEPT ![c] = AfterEntry(p, TRUE, entryProfile(p))]
    <3>1. PICK ref \in Profiles : ref = entryProfile(p)
      <4>1. p.name \in DOMAIN p.jread.servers /\ p.name \in Names
        BY <2>0, <2>2 DEF TaskOf
      <4>2. p.jread.servers[p.name] \in Named
        <5>1. PICK file \in FileType : file = p.jread
          BY DEF ProcType
        <5>2. PICK D \in SUBSET Profiles : file.servers \in [D -> Named]
          BY DEF FileType, ServersType
        <5>3. QED
          BY <4>1, <5>1, <5>2
      <4>3. QED
        BY <4>1, <4>2, ConfigAssumption DEF entryProfile, Named
    <3>2. PICK q : q = AfterEntry(p, TRUE, ref)
      OBVIOUS
    <3>3. proc' = [proc EXCEPT ![c] = q]
      BY <1>11, <2>2, <3>1, <3>2 DEF SwapJSON, ProcsOK
    <3>4. /\ q \in ProcType /\ q.pc \in {"edit", "done"} /\ q.prof = ref
          /\ q.name = p.name /\ q.alone = p.alone /\ SameFiles(p, q)
      <4>1. ref \in Named
        BY DEF Named
      <4>2. LET u == AfterEntry(p, TRUE, ref) IN
            /\ u \in ProcType /\ u.pc \in {"edit", "done"} /\ u.prof = ref
            /\ u.name = p.name /\ u.alone = p.alone /\ SameFiles(p, u)
        BY <4>1, PastEntry
      <4>3. QED
        BY <3>2, <4>2
    <3>5. FilesOK'
      BY <1>11, <2>0, <2>a, <2>2 DEF SwapJSON, FilesOK, ProcType
    <3>6. TaskOf(q) /\ Kept(q)'
      BY <1>11, <2>0, <2>2, <3>4 DEF SwapJSON, TaskOf, Kept, SameFiles
    <3>7. QED
      BY <2>0, <3>3, <3>4, <3>5, <3>6, StepTo
  <2>3. p.job = "install" \/ p.job = "uninstall"
    BY DEF ProcType
  <2>4. QED
    BY <1>11, <2>1, <2>2, <2>3 DEF SwapJSON
<1>12. ASSUME NEW c \in Commands, Exit(c) \/ Crash(c) PROVE IInv'
  <2> PICK q : q = Idle
    OBVIOUS
  <2>1. Active(c) /\ proc' = [proc EXCEPT ![c] = q]
    BY <1>12 DEF Exit, Crash, Active
  <2>2. q \in ProcType /\ q.pc = "idle"
    BY IdleType
  <2>3. TaskOf(q) /\ Kept(q)'
    BY <2>2 DEF TaskOf, Kept
  <2>4. FilesOK'
    <3>1. [kind |-> "torn", doc |-> <<>>] \in [kind : {"none", "torn", "whole"}, doc : DocType]
      BY EmptySeq DEF DocType
    <3>2. JSON("torn", NoServers) \in FileType
      <4>1. JSON("none", NoServers) \in FileType
        BY IdleType DEF Idle, ProcType
      <4>2. QED
        BY <4>1 DEF JSON, FileType
    <3>3. UNCHANGED <<toml, json, tokens, runs>>
      BY <1>12 DEF Exit, Crash
    <3>4. tomlBak' \in {tomlBak, [kind |-> "torn", doc |-> <<>>]}
      BY <1>12 DEF Exit, Crash
    <3>5. jsonBak' \in {jsonBak, JSON("torn", NoServers)}
      BY <1>12 DEF Exit, Crash
    <3>6. QED
      BY <3>1, <3>2, <3>3, <3>4, <3>5 DEF FilesOK
  <2>5. QED
    BY <2>1, <2>2, <2>3, <2>4, StepTo
<1>13. CASE UNCHANGED vars
  BY <1>13 DEF vars, FilesOK, ProcsOK, TaskInv, TaskOf, AloneInv, Others, Active, KeptInv, Kept
<1>14. QED
  BY <1>1, <1>2, <1>3, <1>4, <1>5, <1>6, <1>7, <1>8, <1>9, <1>10, <1>11, <1>12, <1>13 DEF Next

LEMMA InitInv == Init => IInv
<1> SUFFICES ASSUME Init PROVE IInv
  OBVIOUS
<1>1. \A c \in Commands : proc[c] = Idle
  BY DEF Init
<1>2. ProcsOK
  BY <1>1, IdleType DEF Init, ProcsOK
<1>3. TaskInv /\ AloneInv /\ KeptInv
  BY <1>1, IdleType DEF TaskInv, TaskOf, AloneInv, Active, KeptInv, Kept
<1>4. FilesOK
  <2>1. toml \in DocType
    BY ConfigAssumption DEF Init
  <2>2. JSON("none", NoServers) \in FileType /\ JSON("none", NoServers).kind # "torn"
    BY IdleType DEF Idle, ProcType
  <2>3. json \in FileType /\ json.kind # "torn"
    BY <2>2, ConfigAssumption DEF Init
  <2>4. runs \in 0..MaxRuns
    <3>1. MaxRuns \in Nat
      BY ConfigAssumption
    <3>2. runs \in {0, MaxRuns}
      BY DEF Init
    <3>3. QED
      BY <3>1, <3>2
  <2>5. tomlBak \in [kind : {"none", "torn", "whole"}, doc : DocType]
    BY EmptySeq DEF Init, DocType
  <2>6. QED
    BY <2>1, <2>2, <2>3, <2>4, <2>5 DEF Init, FilesOK
<1>5. QED
  BY <1>2, <1>3, <1>4 DEF IInv

\* The inductive invariant of the two configuration files and the commands.
THEOREM Invariance == Spec => []IInv
<1>1. Init => IInv
  BY InitInv
<1>2. IInv /\ [Next]_vars => IInv'
  BY InvStep
<1>3. QED
  BY <1>1, <1>2, PTL DEF Spec

\* The files stay documents and lists of entries, whatever is edited, appended
\* or left half-written (tomledit.go: spliceProfileBlock; install.go).
THEOREM TypeCorrect == Spec => []TypeOK
<1>1. IInv => TypeOK
  BY DEF IInv, FilesOK, ProcsOK, TypeOK
<1>2. QED
  BY <1>1, Invariance, PTL

\* Nothing is lost by a kill (install.go: replaceConfig): at every point of a
\* command that has the files to itself, what it has read is in place or in
\* the backup, for any document and any client's file.
THEOREM NothingLost == Spec => []Recoverable
<1>1. IInv => Recoverable
  <2>1. ASSUME IInv, NEW c \in Commands, Active(c), proc[c].alone
        PROVE  /\ \/ proc[c].read = <<>> \/ toml = proc[c].read
                  \/ tomlBak = [kind |-> "whole", doc |-> proc[c].read]
               /\ \/ proc[c].jread.kind = "none" \/ json = proc[c].jread
                  \/ jsonBak = proc[c].jread
    BY <2>1 DEF IInv, KeptInv, Kept, Active
  <2>2. QED
    BY <2>1 DEF Recoverable
<1>2. QED
  BY <1>1, Invariance, PTL

-----------------------------------------------------------------------------
(* Editing again, and undoing.                                             *)

\* Both together, for every document.
LEMMA RestoresHere ==
    ASSUME toml \in DocType
    PROVE  SpliceRestores
<1>1. ASSUME NEW p \in Names, NEW block \in Blocks(p) PROVE Blocky(block, p)
  <2>1. PICK u \in URLs, h \in BOOLEAN : block = Block(p, [url |-> u, headers |-> h])
    BY DEF Blocks
  <2>2. [url |-> u, headers |-> h] \in ProfType /\ p \in Profiles
    BY ConfigAssumption DEF ProfType
  <2>3. QED
    BY <2>1, <2>2, BlockLines
<1>2. ASSUME NEW p \in Names, NEW block \in {<<>>} \cup Blocks(p), HasSection(toml, p), block # <<>>
      PROVE  spliceProfileBlock(Edit(p, block), p, block) = Edit(p, block)
  <2>1. Blocky(block, p)
    BY <1>1, <1>2
  <2>2. QED
    BY <1>2, <2>1, EditedAgain DEF Edit
<1>3. ASSUME NEW p \in Names, NEW block \in Blocks(p), ~HasSection(toml, p)
      PROVE  \E n \in 0..Len(toml) :
               /\ spliceProfileBlock(toml \o block, p, <<>>) = SubSeq(toml, 1, n)
               /\ \A i \in (n + 1)..Len(toml) : blankLine(toml[i])
  BY <1>1, <1>3, AppendUndone
<1>4. QED
  BY <1>2, <1>3 DEF SpliceRestores, Edits

\* Editing again changes nothing, and an appended profile can be dropped
\* without a trace (tomledit.go: spliceProfileBlock), whatever else the
\* document contains.
THEOREM EditsRestore == Spec => []SpliceRestores
<1>1. IInv => SpliceRestores
  BY RestoresHere DEF IInv, FilesOK
<1>2. QED
  BY <1>1, Invariance, PTL

-----------------------------------------------------------------------------
(* What Load reads after an edit.                                          *)

LEMMA LoadedOf ==
    ASSUME NEW doc \in DocType, NEW p \in Profiles
    PROVE  /\ p \in DOMAIN Loaded(doc) <=> Mention(doc, p) # {}
           /\ Mention(doc, p) # {} =>
                /\ MainLine(doc, p) # {} => Loaded(doc)[p].url = doc[Min(MainLine(doc, p))].url
                /\ Loaded(doc)[p].headers <=> KindLine(doc, "headers", p) # {}
<1> DEFINE D == {q \in Profiles : Mention(doc, q) # {}}
           Url(q) == IF MainLine(doc, q) = {} THEN "" ELSE doc[Min(MainLine(doc, q))].url
           Has(q) == Count(doc, "headers", q) > 0
<1>1. Loaded(doc) = [q \in D |-> [url |-> Url(q), headers |-> Has(q)]]
  BY DEF Loaded, MainLine, Mention
<1>2. Has(p) <=> KindLine(doc, "headers", p) # {}
  <2>1. DOMAIN doc = 1..Len(doc) /\ Len(doc) \in Nat
    BY LenProperties DEF DocType
  <2>2. IsFiniteSet(1..Len(doc)) /\ KindLine(doc, "headers", p) \subseteq 1..Len(doc)
    BY <2>1, FS_Interval DEF KindLine
  <2>3. IsFiniteSet(KindLine(doc, "headers", p))
    BY <2>2, FS_Subset
  <2>4. /\ Cardinality(KindLine(doc, "headers", p)) \in Nat
        /\ Cardinality(KindLine(doc, "headers", p)) = 0 <=> KindLine(doc, "headers", p) = {}
    BY <2>3, FS_CardinalityType, FS_EmptySet
  <2>5. Count(doc, "headers", p) = Cardinality(KindLine(doc, "headers", p))
    BY DEF Count, KindLine
  <2>6. QED
    BY <2>4, <2>5
<1> HIDE DEF Url, Has
<1>3. p \in DOMAIN Loaded(doc) <=> Mention(doc, p) # {}
  BY <1>1
<1>4. Mention(doc, p) # {} => Loaded(doc)[p].url = Url(p) /\ Loaded(doc)[p].headers = Has(p)
  BY <1>1
<1>5. QED
  BY <1>2, <1>3, <1>4 DEF Url

\* After an edit the profile has the endpoint of the new block, and headers as
\* before when the block has.
LEMMA EditLoads ==
    ASSUME NEW doc \in DocType, NEW p \in Profiles, Parses(doc), HasSection(doc, p),
           NEW prof \in ProfType, prof.headers = Loaded(doc)[p].headers,
           NEW out, out = spliceProfileBlock(doc, p, Block(p, prof))
    PROVE  /\ p \in DOMAIN Loaded(out) /\ Loaded(out)[p].url = prof.url
           /\ Loaded(out)[p].headers = Loaded(doc)[p].headers
<1>1. PICK block, B, E, K, F : /\ block = Block(p, prof) /\ B = BlockStart(doc, p)
                               /\ E = BlockEnd(doc, p) /\ K = Len(block) /\ F = FirstLine(doc, p)
  OBVIOUS
<1>2. /\ Blocky(block, p) /\ block[2] = Section(p, prof.url)
      /\ prof.headers => block[4] = Headers(p) /\ K = 4
      /\ ~prof.headers => K = 2
  BY <1>1, BlockLines
<1>3. SplicedAt(doc, block, out, B, E, K) /\ K >= 2
  BY <1>1, <1>2, SplicedBlock
<1>4. /\ B \in 1..Len(doc) /\ E \in (B + 1)..(Len(doc) + 1) /\ K \in Nat /\ K >= 2
      /\ Len(doc) \in Nat /\ out \in DocType /\ Len(out) = Len(doc) + B + K - E
      /\ \A i \in 1..(B - 1) : out[i] = doc[i]
      /\ \A i \in 1..K : out[B - 1 + i] = block[i]
      /\ \A i \in E..Len(doc) : out[i + B + K - E] = doc[i]
  BY <1>3 DEF SplicedAt
<1>5. DOMAIN doc = 1..Len(doc) /\ DOMAIN out = 1..Len(out)
  BY <1>4, LenProperties DEF DocType
<1>6. F \in 1..Len(doc) /\ B \in 1..F /\ \A i \in 1..(F - 1) : ~profileSection(doc[i], p)
  BY <1>1, FirstLineProps, BlockStartProps
<1>7. /\ B - 1 + 1 = B /\ B - 1 + 2 = B + 1 /\ 1 \in 1..K /\ 2 \in 1..K
      /\ B \in 1..Len(out) /\ B + 1 \in 1..Len(out)
  BY <1>4
<1>8. out[B] = block[1] /\ out[B + 1] = Section(p, prof.url)
  BY <1>2, <1>4, <1>7
<1>9. /\ out[B].kind = "blank"
      /\ out[B + 1].kind = "section" /\ out[B + 1].of = p /\ out[B + 1].url = prof.url
  BY <1>2, <1>8 DEF Blocky, blankLine, Section, Line
<1>10. B + 1 \in MainLine(out, p) /\ B + 1 \in Mention(out, p)
  BY <1>5, <1>7, <1>9 DEF MainLine, Mention
<1>11. \A i \in MainLine(out, p) : B + 1 <= i
  <2>1. ASSUME NEW i \in MainLine(out, p), ~(B + 1 <= i) PROVE FALSE
    <3>1. i \in 1..Len(out) /\ out[i].of = p /\ out[i].kind \in {"section", "inline"}
      BY <1>5, <2>1 DEF MainLine, Mention
    <3>2. i \in 1..(B - 1) \/ i = B
      BY <1>4, <2>1, <3>1
    <3>3. i # B
      BY <1>9, <3>1
    <3>4. i \in 1..(B - 1) /\ i \in 1..(F - 1) /\ i \in 1..Len(doc)
      BY <1>4, <1>6, <3>2, <3>3
    <3>5. doc[i].of = p /\ doc[i].kind \in {"section", "inline"} /\ i \in DOMAIN doc
      BY <1>4, <1>5, <3>1, <3>4
    <3>6. doc[i].kind # "section"
      BY <1>6, <3>4, <3>5 DEF profileSection, isTable
    <3>7. i \in KindLine(doc, "inline", p)
      BY <3>5, <3>6 DEF KindLine
    <3>8. QED
      BY <3>7, NotInline
  <2>2. QED
    BY <2>1
<1>12. Min(MainLine(out, p)) = B + 1
  <2>1. MainLine(out, p) \subseteq Nat
    BY <1>5 DEF MainLine, Mention
  <2>2. Min(MainLine(out, p)) \in MainLine(out, p) /\ Min(MainLine(out, p)) <= B + 1
    BY <1>10, <2>1, MinOf
  <2>3. QED
    BY <1>4, <1>11, <2>1, <2>2
<1>13. p \in DOMAIN Loaded(out) /\ Loaded(out)[p].url = prof.url
  BY <1>4, <1>9, <1>10, <1>12, LoadedOf
<1>14. KindLine(out, "headers", p) # {} <=> KindLine(doc, "headers", p) # {}
  <2>0. Mention(doc, p) # {}
    BY DEF HasSection, profileSection, Mention
  <2>1. prof.headers <=> KindLine(doc, "headers", p) # {}
    BY <2>0, LoadedOf
  <2>2. CASE prof.headers
    <3>1. 4 \in 1..K /\ B - 1 + 4 = B + 3 /\ B + 3 \in 1..Len(out)
      BY <1>2, <1>4, <2>2
    <3>2. out[B + 3] = Headers(p)
      BY <1>2, <1>4, <2>2, <3>1
    <3>3. B + 3 \in KindLine(out, "headers", p)
      <4>1. Headers(p).kind = "headers" /\ Headers(p).of = p
        BY DEF Headers, Line
      <4>2. QED
        BY <1>5, <3>1, <3>2, <4>1 DEF KindLine
    <3>4. QED
      BY <2>1, <2>2, <3>3
  <2>3. CASE ~prof.headers
    <3>1. ASSUME NEW i \in KindLine(out, "headers", p) PROVE FALSE
      <4>1. i \in 1..Len(out) /\ out[i].kind = "headers" /\ out[i].of = p
        BY <1>5, <3>1 DEF KindLine
      <4>2. K = 2
        BY <1>2, <2>3
      <4>3. i # B /\ i # B + 1
        BY <1>9, <4>1
      <4>4. PICK j \in DOMAIN doc : out[i] = doc[j]
        <5>1. CASE i < B
          <6>1. i \in 1..(B - 1) /\ i \in 1..Len(doc)
            BY <1>4, <4>1, <5>1
          <6>2. QED
            BY <1>4, <1>5, <6>1
        <5>2. CASE ~(i < B)
          <6>1. /\ i - B - K + E \in E..Len(doc) /\ i - B - K + E \in 1..Len(doc)
                /\ (i - B - K + E) + B + K - E = i
            BY <1>4, <4>1, <4>2, <4>3, <5>2
          <6>2. out[(i - B - K + E) + B + K - E] = doc[i - B - K + E]
            BY <1>4, <6>1
          <6>3. out[i] = doc[i - B - K + E] /\ i - B - K + E \in DOMAIN doc
            BY <1>5, <6>1, <6>2
          <6>4. QED
            BY <6>3
        <5>3. QED
          BY <5>1, <5>2
      <4>5. j \in KindLine(doc, "headers", p)
        BY <4>1, <4>4 DEF KindLine
      <4>6. QED
        BY <2>1, <2>3, <4>5
    <3>2. QED
      BY <2>1, <2>3, <3>1
  <2>4. QED
    BY <2>2, <2>3
<1>15. Loaded(out)[p].headers = Loaded(doc)[p].headers
  <2>1. Mention(doc, p) # {} /\ Mention(out, p) # {}
    BY <1>10 DEF HasSection, profileSection, Mention
  <2>2. Loaded(doc)[p].headers \in BOOLEAN
    BY DEF ProfType
  <2>3. Loaded(out)[p].headers \in BOOLEAN
    <3>1. PICK D \in SUBSET Profiles : Loaded(out) \in [D -> ProfType]
      BY <1>4, LoadedType DEF ConfigType
    <3>2. Loaded(out)[p] \in ProfType
      BY <1>13, <3>1
    <3>3. QED
      BY <3>2 DEF ProfType
  <2>4. (Loaded(out)[p].headers <=> KindLine(out, "headers", p) # {})
        /\ (Loaded(doc)[p].headers <=> KindLine(doc, "headers", p) # {})
    BY <1>4, <2>1, LoadedOf
  <2>5. QED
    BY <1>14, <2>2, <2>3, <2>4
<1>16. QED
  BY <1>13, <1>15

Appended(doc, block) == doc \o block

\* An appended profile has the endpoint it was given.
LEMMA AppendLoads ==
    ASSUME NEW doc \in DocType, NEW p \in Profiles, p \notin DOMAIN Loaded(doc),
           NEW prof \in ProfType, NEW out, out = Appended(doc, Block(p, prof))
    PROVE  p \in DOMAIN Loaded(out) /\ Loaded(out)[p].url = prof.url
<1>1. PICK block, n, K : block = Block(p, prof) /\ n = Len(doc) /\ K = Len(block)
  OBVIOUS
<1>2. /\ Blocky(block, p) /\ block[2] = Section(p, prof.url)
      /\ prof.headers => block[4] = Headers(p) /\ K = 4
      /\ ~prof.headers => K = 2
  BY <1>1, BlockLines
<1>3. /\ doc \in Seq(LineType) /\ block \in Seq(LineType)
      /\ n \in Nat /\ K \in Nat /\ K >= 2
  BY <1>1, <1>2, LenProperties DEF Blocky, DocType
<1>4. /\ doc \o block \in Seq(LineType) /\ Len(doc \o block) = Len(doc) + Len(block)
      /\ \A i \in 1..Len(doc) : (doc \o block)[i] = doc[i]
      /\ \A i \in 1..Len(block) : (doc \o block)[Len(doc) + i] = block[i]
  BY <1>3, Concatenated
<1>5. /\ out \in DocType /\ Len(out) = n + K
      /\ \A i \in 1..n : out[i] = doc[i]
      /\ \A i \in 1..K : out[n + i] = block[i]
  BY <1>1, <1>4 DEF DocType, Appended
<1>6. DOMAIN doc = 1..n /\ DOMAIN out = 1..(n + K)
  BY <1>1, <1>3, <1>5, LenProperties DEF DocType
<1>7. \A i \in 1..n : out[i].of # p
  <2>1. Mention(doc, p) = {}
    BY LoadedOf
  <2>2. QED
    BY <1>5, <1>6, <2>1 DEF Mention
<1>8. /\ out[n + 1].kind = "blank"
      /\ out[n + 2].kind = "section" /\ out[n + 2].of = p /\ out[n + 2].url = prof.url
  <2>1. out[n + 1] = block[1] /\ out[n + 2] = block[2]
    BY <1>3, <1>5
  <2>2. QED
    BY <1>2, <2>1 DEF Blocky, blankLine, Section, Line
<1>9. n + 2 \in MainLine(out, p) /\ n + 2 \in Mention(out, p)
  BY <1>3, <1>6, <1>8 DEF MainLine, Mention
<1>10. \A i \in MainLine(out, p) : n + 2 <= i
  <2>1. ASSUME NEW i \in MainLine(out, p), ~(n + 2 <= i) PROVE FALSE
    <3>1. i \in 1..(n + K) /\ out[i].of = p /\ out[i].kind \in {"section", "inline"}
      BY <1>6, <2>1 DEF MainLine, Mention
    <3>2. i \in 1..n \/ i = n + 1
      BY <1>3, <2>1, <3>1
    <3>3. QED
      BY <1>7, <1>8, <3>1, <3>2
  <2>2. QED
    BY <2>1
<1>11. Min(MainLine(out, p)) = n + 2
  <2>1. MainLine(out, p) \subseteq Nat
    BY <1>3, <1>6 DEF MainLine, Mention
  <2>2. Min(MainLine(out, p)) \in MainLine(out, p) /\ Min(MainLine(out, p)) <= n + 2
    BY <1>9, <2>1, MinOf
  <2>3. QED
    BY <1>3, <1>10, <2>1, <2>2
<1>12. out \in DocType /\ MainLine(out, p) # {} /\ Mention(out, p) # {}
  BY <1>5, <1>9
<1>13. p \in DOMAIN Loaded(out) /\ Loaded(out)[p].url = out[Min(MainLine(out, p))].url
  BY <1>12, LoadedOf
<1>14. QED
  BY <1>8, <1>11, <1>13

-----------------------------------------------------------------------------
(* What an install leaves.                                                 *)

\* doc gives the profile the endpoint of the command, and the headers it had.
Served(p, doc) ==
    /\ p.prof \in DOMAIN Loaded(doc)
    /\ Loaded(doc)[p.prof].url = p.url
    /\ p.prof \in DOMAIN p.cfg => Loaded(doc)[p.prof].headers = p.cfg[p.prof].headers

Entered(p, servers) == p.name \in DOMAIN servers /\ servers[p.name] = p.prof

\* Where an install that is alone has come to.
InstallOf(p) == p.pc # "idle" /\ p.alone /\ p.job = "install" =>
    /\ p.pc \in {"append", "edit"} => Parses(toml) /\ p.cfg = Loaded(toml)
    /\ p.pc # "tokens"
    /\ p.pc = "append" => p.prof \notin DOMAIN p.cfg
    /\ p.pc = "edit" => p.prof \in DOMAIN p.cfg
    /\ p.pc \in {"tomlBak", "tomlSwap"} => Served(p, p.data)
    /\ p.pc \in {"entry", "jsonBak", "jsonSwap"} => Served(p, toml)
    /\ p.pc \in {"jsonBak", "jsonSwap"} => Entered(p, p.jdata.servers)
    /\ p.pc = "done" /\ p.ok => Served(p, toml) /\ Entered(p, json.servers)

InstallInv == \A c \in Commands : InstallOf(proc[c])

\* Nobody else has a word to say while a command that is alone runs.
LEMMA InstallTo ==
    ASSUME ProcsOK, AloneInv, NEW c \in Commands, Active(c),
           NEW q, proc' = [proc EXCEPT ![c] = q], InstallOf(q)'
    PROVE  InstallInv'
<1>1. proc'[c] = q /\ \A d \in Commands \ {c} : proc'[d] = proc[d]
  BY DEF ProcsOK
<1>2. \A d \in Commands \ {c} : ~(Active(d) /\ proc[d].alone)
  BY DEF AloneInv, Others
<1>3. ASSUME NEW d \in Commands PROVE InstallOf(proc[d])'
  <2>1. CASE d = c
    BY <1>1, <2>1 DEF InstallOf
  <2>2. CASE d # c
    BY <1>1, <1>2, <2>2 DEF InstallOf, Active
  <2>3. QED
    BY <2>1, <2>2
<1>4. QED
  BY <1>3 DEF InstallInv

LEMMA InstallStart ==
    ASSUME IInv, NEW c \in Commands, NEW q \in ProcType, Start(c, q),
           q.job = "uninstall" \/ q.pc \in {"entry", "append", "edit"},
           q.job = "install" =>
             /\ q.pc = "entry" => q.prof \in DOMAIN Loaded(toml) /\ Loaded(toml)[q.prof].url = q.url
             /\ q.pc = "append" => q.prof \notin DOMAIN Loaded(toml)
             /\ q.pc = "edit" => q.prof \in DOMAIN Loaded(toml)
    PROVE  InstallInv'
<1>1. /\ proc' = [d \in Commands |->
                  IF d = c THEN [q EXCEPT !.cfg = Loaded(toml), !.alone = Others(c) = {}]
                  ELSE IF Active(d) THEN [proc[d] EXCEPT !.alone = FALSE] ELSE proc[d]]
      /\ Parses(toml) /\ toml' = toml
  BY DEF Start
<1>2. PICK alone \in BOOLEAN : alone = (Others(c) = {})
  OBVIOUS
<1>3. PICK cfg \in ConfigType : cfg = Loaded(toml)
  BY LoadedType DEF IInv, FilesOK
<1>4. PICK r : r = [q EXCEPT !.cfg = cfg, !.alone = alone]
  OBVIOUS
<1>5. /\ r.pc = q.pc /\ r.prof = q.prof /\ r.url = q.url /\ r.job = q.job /\ r.cfg = cfg
  BY <1>4 DEF ProcType
<1>6. proc'[c] = r
  BY <1>1, <1>2, <1>3, <1>4
<1>7. InstallOf(r)'
  <2>1. CASE q.job = "install"
    BY <1>1, <1>3, <1>5, <2>1 DEF InstallOf, Served
  <2>2. CASE q.job # "install"
    BY <1>5, <2>2 DEF InstallOf
  <2>3. QED
    BY <2>1, <2>2
<1>8. ASSUME NEW d \in Commands \ {c} PROVE InstallOf(proc[d])'
  <2>1. proc[d] \in ProcType
    BY DEF IInv, ProcsOK
  <2>2. CASE Active(d)
    <3>1. PICK u : u = [proc[d] EXCEPT !.alone = FALSE]
      OBVIOUS
    <3>2. ~u.alone
      BY <2>1, <3>1 DEF ProcType
    <3>3. proc'[d] = u
      BY <1>1, <2>2, <3>1
    <3>4. QED
      BY <3>2, <3>3 DEF InstallOf
  <2>3. CASE ~Active(d)
    <3>1. proc'[d] = proc[d]
      BY <1>1, <2>3
    <3>2. QED
      BY <2>3, <3>1 DEF InstallOf, Active
  <2>4. QED
    BY <2>2, <2>3
<1>9. QED
  BY <1>6, <1>7, <1>8 DEF InstallInv

\* Every step of one command keeps it.
LEMMA InstallStep ==
    ASSUME IInv, InstallInv, [Next]_vars
    PROVE  InstallInv'
<1> USE DEF IInv
<1>1. ASSUME NEW c \in Commands, InstallURL(c) PROVE InstallInv'
  <2>1. PICK n \in Names, u \in URLs, x \in {"entry", "append", "edit"} :
          /\ Start(c, [Idle EXCEPT !.pc = x, !.name = n, !.prof = n, !.url = u])
          /\ x = "entry" => n \in DOMAIN Loaded(toml)
                              /\ mergeProfile(Loaded(toml)[n], u) = Loaded(toml)[n]
          /\ x = "append" => n \notin DOMAIN Loaded(toml)
          /\ x = "edit" => n \in DOMAIN Loaded(toml)
    BY <1>1 DEF InstallURL
  <2>2. PICK q : q = [Idle EXCEPT !.pc = x, !.name = n, !.prof = n, !.url = u]
    OBVIOUS
  <2>3. n \in Profiles /\ n \in Named
    BY ConfigAssumption DEF Named
  <2>4. q \in ProcType /\ q.pc = x /\ q.prof = n /\ q.url = u
    BY <2>2, <2>3, IdleType DEF ProcType, Places
  <2>5. x = "entry" => Loaded(toml)[n].url = u
    <3>1. SUFFICES ASSUME x = "entry" PROVE Loaded(toml)[n].url = u
      OBVIOUS
    <3>2. PICK D \in SUBSET Profiles : Loaded(toml) \in [D -> ProfType]
      BY LoadedType DEF ConfigType, FilesOK
    <3>3. PICK old \in ProfType : old = Loaded(toml)[n]
      BY <2>1, <3>1, <3>2
    <3>4. [old EXCEPT !.url = u] = old
      BY <2>1, <3>1, <3>3 DEF mergeProfile
    <3>5. [old EXCEPT !.url = u].url = u
      BY DEF ProfType
    <3>6. QED
      BY <3>3, <3>4, <3>5
  <2>6. QED
    BY <2>1, <2>2, <2>4, <2>5, InstallStart
<1>2. ASSUME NEW c \in Commands, InstallProfile(c) PROVE InstallInv'
  <2>1. PICK n \in Names, p \in DOMAIN Loaded(toml) \cap Names :
          Start(c, [Idle EXCEPT !.pc = "entry", !.name = n, !.prof = p, !.url = Loaded(toml)[p].url])
    BY <1>2 DEF InstallProfile
  <2>2. PICK u \in URLs \cup {""} : u = Loaded(toml)[p].url
    <3>1. PICK D \in SUBSET Profiles : Loaded(toml) \in [D -> ProfType]
      BY LoadedType DEF ConfigType, FilesOK
    <3>2. Loaded(toml)[p] \in ProfType
      BY <3>1
    <3>3. QED
      BY <3>2 DEF ProfType
  <2>3. PICK q : q = [Idle EXCEPT !.pc = "entry", !.name = n, !.prof = p, !.url = u]
    OBVIOUS
  <2>4. n \in Named /\ p \in Named
    BY ConfigAssumption DEF Named
  <2>5. q \in ProcType /\ q.pc = "entry" /\ q.prof = p /\ q.url = u
    BY <2>3, <2>4, IdleType DEF ProcType, Places
  <2>6. QED
    BY <2>1, <2>2, <2>3, <2>5, InstallStart
<1>3. ASSUME NEW c \in Commands, Uninstall(c) PROVE InstallInv'
  <2>1. PICK n \in Names :
          Start(c, [Idle EXCEPT !.pc = "entry", !.job = "uninstall", !.name = n, !.prof = n])
    BY <1>3 DEF Uninstall
  <2>2. PICK q : q = [Idle EXCEPT !.pc = "entry", !.job = "uninstall", !.name = n, !.prof = n]
    OBVIOUS
  <2>3. n \in Named
    BY ConfigAssumption DEF Named
  <2>4. q \in ProcType /\ q.job = "uninstall"
    BY <2>2, <2>3, IdleType DEF ProcType, Places
  <2>5. QED
    BY <2>1, <2>2, <2>4, InstallStart
<1>4. ASSUME NEW c \in Commands, AppendProfile(c) PROVE InstallInv'
  <2> PICK p \in ProcType : p = proc[c]
    BY DEF ProcsOK
  <2>0. p.pc = "append" /\ Active(c) /\ TaskOf(p) /\ InstallOf(p)
    BY <1>4 DEF AppendProfile, Active, TaskInv, InstallInv
  <2>1. CASE toml' = toml \o NewBlock(c) /\ Goto(c, "entry")
    <3>1. PICK q : q = [p EXCEPT !.pc = "entry"]
      OBVIOUS
    <3>2. proc' = [proc EXCEPT ![c] = q]
      BY <2>1, <3>1 DEF Goto, ProcsOK
    <3>3. q.pc = "entry" /\ SameTask(p, q)
      BY <3>1, Moved DEF Places
    <3>4. InstallOf(q)'
      <4>1. SUFFICES ASSUME p.alone, p.job = "install" PROVE Served(q, toml')
        BY <3>3 DEF InstallOf, SameTask
      <4>2. p.cfg = Loaded(toml) /\ p.prof \notin DOMAIN p.cfg /\ p.prof \in Profiles
        BY <2>0, <4>1 DEF InstallOf, TaskOf
      <4>3. PICK prof \in ProfType : prof = [url |-> p.url, headers |-> FALSE]
        BY DEF ProfType, ProcType
      <4>4. NewBlock(c) = Block(p.prof, prof)
        BY <4>1, <4>2, <4>3 DEF NewBlock, Desired
      <4>5. p.prof \in DOMAIN Loaded(toml') /\ Loaded(toml')[p.prof].url = prof.url
        <5>0. PICK doc \in DocType : doc = toml
          BY DEF FilesOK
        <5>1. PICK out : out = toml' /\ out = Appended(doc, Block(p.prof, prof))
          BY <2>1, <4>4, <5>0 DEF Appended
        <5>2. p.prof \in Profiles /\ p.prof \notin DOMAIN Loaded(doc)
          BY <4>2, <5>0
        <5>3. p.prof \in DOMAIN Loaded(out) /\ Loaded(out)[p.prof].url = prof.url
          BY <5>1, <5>2, AppendLoads
        <5>4. QED
          BY <5>1, <5>3
      <4>6. QED
        BY <3>3, <4>2, <4>3, <4>5 DEF Served, SameTask
    <3>5. QED
      BY <2>0, <3>2, <3>4, InstallTo
  <2>2. CASE Return(c, FALSE)
    <3>1. PICK q : q = [p EXCEPT !.pc = "done", !.ok = FALSE]
      OBVIOUS
    <3>2. proc' = [proc EXCEPT ![c] = q]
      BY <2>2, <3>1 DEF Return, ProcsOK
    <3>3. q.pc = "done" /\ ~q.ok
      BY <3>1, Returned
    <3>4. InstallOf(q)'
      BY <3>3 DEF InstallOf
    <3>5. QED
      BY <2>0, <3>2, <3>4, InstallTo
  <2>3. QED
    BY <1>4, <2>1, <2>2 DEF AppendProfile
<1>5. ASSUME NEW c \in Commands, ReadToml(c) PROVE InstallInv'
  <2> PICK p \in ProcType : p = proc[c]
    BY DEF ProcsOK
  <2>0. p.pc = "edit" /\ Active(c) /\ TaskOf(p) /\ InstallOf(p)
    BY <1>5 DEF ReadToml, Active, TaskInv, InstallInv
  <2>1. CASE HasSection(toml, p.prof)
    <3>1. p.prof \in Profiles /\ toml \in DocType
      BY <2>0 DEF TaskOf, FilesOK
    <3>2. PICK d \in DocType : d = spliceProfileBlock(toml, p.prof, NewBlock(c))
      <4>1. NewBlock(c) \in DocType
        <5>1. proc \in [Commands -> ProcType] /\ proc[c].prof \in Profiles
          BY <3>1 DEF ProcsOK
        <5>2. QED
          BY <5>1, NewBlockType
      <4>2. QED
        BY <2>1, <3>1, <4>1, SpliceType
    <3>3. PICK q : q = [p EXCEPT !.pc = "tomlBak", !.read = toml, !.data = d]
      OBVIOUS
    <3>4. proc' = [proc EXCEPT ![c] = q]
      BY <1>5, <2>1, <3>2, <3>3 DEF ReadToml, ProcsOK
    <3>5. q.pc = "tomlBak" /\ q.data = d /\ SameTask(p, q)
      BY <3>1, <3>3, HasReadToml
    <3>6. InstallOf(q)'
      <4>1. SUFFICES ASSUME p.alone, p.job = "install" PROVE Served(q, d)
        BY <3>5 DEF InstallOf, SameTask
      <4>2. p.cfg = Loaded(toml) /\ Parses(toml) /\ p.prof \in DOMAIN p.cfg
        BY <2>0, <4>1 DEF InstallOf
      <4>3. PICK old \in ProfType : old = p.cfg[p.prof]
        <5>1. PICK D \in SUBSET Profiles : p.cfg \in [D -> ProfType]
          BY DEF ProcType, ConfigType
        <5>2. QED
          BY <4>2, <5>1
      <4>4. PICK prof \in ProfType : prof = mergeProfile(old, p.url) /\ prof.url = p.url
                                       /\ prof.headers = old.headers
        <5>1. \A o \in ProfType, u \in URLs \cup {""} :
                /\ mergeProfile(o, u) \in ProfType
                /\ mergeProfile(o, u).url = u /\ mergeProfile(o, u).headers = o.headers
          BY DEF ProfType, mergeProfile
        <5>2. p.url \in URLs \cup {""}
          BY DEF ProcType
        <5>3. QED
          BY <5>1, <5>2
      <4>5. NewBlock(c) = Block(p.prof, prof)
        BY <4>1, <4>2, <4>3, <4>4 DEF NewBlock, Desired
      <4>6. /\ p.prof \in DOMAIN Loaded(d) /\ Loaded(d)[p.prof].url = prof.url
            /\ Loaded(d)[p.prof].headers = Loaded(toml)[p.prof].headers
        BY <2>1, <3>1, <3>2, <4>2, <4>3, <4>4, <4>5, EditLoads
      <4>7. QED
        BY <3>5, <4>2, <4>4, <4>6 DEF Served, SameTask
    <3>7. QED
      BY <2>0, <3>4, <3>6, InstallTo
  <2>2. CASE ~HasSection(toml, p.prof)
    <3>1. PICK q : q = [p EXCEPT !.pc = "done", !.ok = FALSE]
      OBVIOUS
    <3>2. proc' = [proc EXCEPT ![c] = q]
      BY <1>5, <2>2, <3>1 DEF ReadToml, Return, ProcsOK
    <3>3. q.pc = "done" /\ ~q.ok
      BY <3>1, Returned
    <3>4. InstallOf(q)'
      BY <3>3 DEF InstallOf
    <3>5. QED
      BY <2>0, <3>2, <3>4, InstallTo
  <2>3. QED
    BY <2>1, <2>2
<1>6. ASSUME NEW c \in Commands, BackupToml(c) PROVE InstallInv'
  <2> PICK p \in ProcType : p = proc[c]
    BY DEF ProcsOK
  <2>0. p.pc = "tomlBak" /\ Active(c) /\ InstallOf(p)
    BY <1>6 DEF BackupToml, Active, InstallInv
  <2>1. PICK q : q = [p EXCEPT !.pc = "tomlSwap"]
    OBVIOUS
  <2>2. proc' = [proc EXCEPT ![c] = q]
    BY <1>6, <2>1 DEF BackupToml, Goto, ProcsOK
  <2>3. q.pc = "tomlSwap" /\ SameFiles(p, q) /\ SameTask(p, q)
    BY <2>1, Moved DEF Places
  <2>4. InstallOf(q)'
    BY <2>0, <2>3 DEF InstallOf, Served, SameFiles, SameTask
  <2>5. QED
    BY <2>0, <2>2, <2>4, InstallTo
<1>7. ASSUME NEW c \in Commands, SwapToml(c) PROVE InstallInv'
  <2> PICK p \in ProcType : p = proc[c]
    BY DEF ProcsOK
  <2>0. p.pc = "tomlSwap" /\ Active(c) /\ InstallOf(p) /\ toml' = p.data
    BY <1>7 DEF SwapToml, Active, InstallInv
  <2>1. PICK x \in {"entry", "tokens"} :
          proc' = [proc EXCEPT ![c].pc = x] /\ (p.job = "install" => x = "entry")
    BY <1>7 DEF SwapToml, Goto
  <2>2. PICK q : q = [p EXCEPT !.pc = x]
    OBVIOUS
  <2>3. proc' = [proc EXCEPT ![c] = q]
    BY <2>1, <2>2 DEF ProcsOK
  <2>4. q.pc = x /\ SameTask(p, q)
    <3>1. x \in Places
      BY DEF Places
    <3>2. LET u == [p EXCEPT !.pc = x] IN
          u \in ProcType /\ u.pc = x /\ u.ok = p.ok /\ SameFiles(p, u) /\ SameTask(p, u)
      BY <3>1, Moved
    <3>3. QED
      BY <2>2, <3>2
  <2>5. InstallOf(q)'
    BY <2>0, <2>1, <2>4 DEF InstallOf, Served, SameTask
  <2>6. QED
    BY <2>0, <2>3, <2>5, InstallTo
<1>8. ASSUME NEW c \in Commands, DropTokens(c) PROVE InstallInv'
  <2> PICK p \in ProcType : p = proc[c]
    BY DEF ProcsOK
  <2>0. p.pc = "tokens" /\ Active(c)
    BY <1>8 DEF DropTokens, Active
  <2>1. InstallOf(p)
    BY DEF InstallInv
  <2>2. PICK q : q = [p EXCEPT !.pc = "done", !.ok = TRUE]
    OBVIOUS
  <2>3. proc' = [proc EXCEPT ![c] = q]
    BY <1>8, <2>2 DEF DropTokens, Return, ProcsOK
  <2>4. q.pc = "done" /\ SameTask(p, q)
    BY <2>2, Returned
  <2>5. InstallOf(q)'
    BY <2>0, <2>1, <2>4 DEF InstallOf, SameTask
  <2>6. QED
    BY <2>0, <2>3, <2>5, InstallTo
<1>9. ASSUME NEW c \in Commands, LoadJSON(c) PROVE InstallInv'
  <2> PICK p \in ProcType : p = proc[c]
    BY DEF ProcsOK
  <2>0. p.pc = "entry" /\ Active(c) /\ TaskOf(p) /\ InstallOf(p) /\ toml' = toml
    BY <1>9 DEF LoadJSON, Active, TaskInv, InstallInv
  <2>1. CASE Return(c, FALSE)
    <3>1. PICK q : q = [p EXCEPT !.pc = "done", !.ok = FALSE]
      OBVIOUS
    <3>2. proc' = [proc EXCEPT ![c] = q]
      BY <2>1, <3>1 DEF Return, ProcsOK
    <3>3. q.pc = "done" /\ ~q.ok
      BY <3>1, Returned
    <3>4. InstallOf(q)'
      BY <3>3 DEF InstallOf
    <3>5. QED
      BY <2>0, <3>2, <3>4, InstallTo
  <2>2. ASSUME NEW servers, JSON("whole", servers) \in FileType,
               p.job = "install" => servers = With(json.servers, p.name, p.prof),
               proc' = [proc EXCEPT ![c] = [p EXCEPT !.jread = json, !.jdata = JSON("whole", servers),
                          !.pc = IF json.kind = "none" THEN "jsonSwap" ELSE "jsonBak"]]
        PROVE  InstallInv'
    <3>1. PICK x \in {"jsonSwap", "jsonBak"} : x = IF json.kind = "none" THEN "jsonSwap" ELSE "jsonBak"
      OBVIOUS
    <3>2. PICK q : q = [p EXCEPT !.jread = json, !.jdata = JSON("whole", servers), !.pc = x]
      OBVIOUS
    <3>3. proc' = [proc EXCEPT ![c] = q]
      BY <2>2, <3>1, <3>2
    <3>4. q.pc = x /\ q.jdata = JSON("whole", servers) /\ SameTask(p, q)
      <4>1. json \in FileType /\ x \in Places
        BY DEF FilesOK, Places
      <4>2. LET u == [p EXCEPT !.jread = json, !.jdata = JSON("whole", servers), !.pc = x] IN
            /\ u \in ProcType /\ u.pc = x /\ u.jread = json /\ u.jdata = JSON("whole", servers)
            /\ u.read = p.read /\ u.data = p.data /\ u.ok = p.ok /\ SameTask(p, u)
        BY <2>2, <4>1, HasReadJSON
      <4>3. QED
        BY <3>2, <4>2
    <3>5. p.job = "install" => Entered(p, servers)
      BY <2>2 DEF Entered, With
    <3>6. q.jdata.servers = servers
      BY <3>4 DEF JSON
    <3>7. InstallOf(q)'
      BY <2>0, <3>1, <3>4, <3>5, <3>6 DEF InstallOf, Served, Entered, SameTask
    <3>8. QED
      BY <2>0, <3>3, <3>7, InstallTo
  <2>3. CASE p.job = "uninstall" /\ proc' = [proc EXCEPT ![c] = AfterEntry(p, FALSE, p.name)]
    <3>1. PICK q : q = AfterEntry(p, FALSE, p.name)
      OBVIOUS
    <3>2. proc' = [proc EXCEPT ![c] = q] /\ q.job = p.job
      BY <2>3, <3>1 DEF AfterEntry, ProcType
    <3>3. InstallOf(q)'
      BY <2>3, <3>2 DEF InstallOf
    <3>4. QED
      BY <2>0, <3>2, <3>3, InstallTo
  <2>4. CASE p.job = "install" /\ proc' = [proc EXCEPT ![c] =
                  [p EXCEPT !.jread = json, !.jdata = JSON("whole", With(json.servers, p.name, p.prof)),
                     !.pc = IF json.kind = "none" THEN "jsonSwap" ELSE "jsonBak"]]
    BY <2>0, <2>2, <2>4, EntryTypes DEF FilesOK, TaskOf
  <2>5. CASE p.job = "uninstall" /\ proc' = [proc EXCEPT ![c] =
                  [p EXCEPT !.jread = json, !.jdata = JSON("whole", Without(json.servers, p.name)),
                     !.pc = IF json.kind = "none" THEN "jsonSwap" ELSE "jsonBak"]]
    BY <2>0, <2>2, <2>5, EntryTypes DEF FilesOK, TaskOf
  <2>6. QED
    BY <1>9, <2>1, <2>3, <2>4, <2>5 DEF LoadJSON
<1>10. ASSUME NEW c \in Commands, BackupJSON(c) PROVE InstallInv'
  <2> PICK p \in ProcType : p = proc[c]
    BY DEF ProcsOK
  <2>0. p.pc = "jsonBak" /\ Active(c) /\ InstallOf(p) /\ toml' = toml
    BY <1>10 DEF BackupJSON, Active, InstallInv
  <2>1. PICK q : q = [p EXCEPT !.pc = "jsonSwap"]
    OBVIOUS
  <2>2. proc' = [proc EXCEPT ![c] = q]
    BY <1>10, <2>1 DEF BackupJSON, Goto, ProcsOK
  <2>3. q.pc = "jsonSwap" /\ SameFiles(p, q) /\ SameTask(p, q)
    BY <2>1, Moved DEF Places
  <2>4. InstallOf(q)'
    BY <2>0, <2>3 DEF InstallOf, Served, Entered, SameFiles, SameTask
  <2>5. QED
    BY <2>0, <2>2, <2>4, InstallTo
<1>11. ASSUME NEW c \in Commands, SwapJSON(c) PROVE InstallInv'
  <2> PICK p \in ProcType : p = proc[c]
    BY DEF ProcsOK
  <2>0. p.pc = "jsonSwap" /\ Active(c) /\ InstallOf(p) /\ toml' = toml /\ json' = p.jdata
    BY <1>11 DEF SwapJSON, Active, InstallInv
  <2>1. CASE p.job = "install" /\ Return(c, TRUE)
    <3>1. PICK q : q = [p EXCEPT !.pc = "done", !.ok = TRUE]
      OBVIOUS
    <3>2. proc' = [proc EXCEPT ![c] = q]
      BY <2>1, <3>1 DEF Return, ProcsOK
    <3>3. q.pc = "done" /\ SameTask(p, q)
      BY <3>1, Returned
    <3>4. InstallOf(q)'
      BY <2>0, <2>1, <3>3 DEF InstallOf, Served, Entered, SameTask
    <3>5. QED
      BY <2>0, <3>2, <3>4, InstallTo
  <2>2. CASE p.job # "install" /\ proc' = [proc EXCEPT ![c] = AfterEntry(p, TRUE, entryProfile(p))]
    <3>1. PICK q : q = AfterEntry(p, TRUE, entryProfile(p))
      OBVIOUS
    <3>2. proc' = [proc EXCEPT ![c] = q] /\ q.job = p.job
      BY <2>2, <3>1 DEF AfterEntry, ProcType
    <3>3. InstallOf(q)'
      BY <2>2, <3>2 DEF InstallOf
    <3>4. QED
      BY <2>0, <3>2, <3>3, InstallTo
  <2>3. QED
    BY <1>11, <2>1, <2>2 DEF SwapJSON
<1>12. ASSUME NEW c \in Commands, Exit(c) \/ Crash(c) PROVE InstallInv'
  <2> PICK q : q = Idle
    OBVIOUS
  <2>1. Active(c) /\ proc' = [proc EXCEPT ![c] = q]
    BY <1>12 DEF Exit, Crash, Active
  <2>2. InstallOf(q)'
    BY IdleType DEF InstallOf
  <2>3. QED
    BY <2>1, <2>2, InstallTo
<1>13. CASE UNCHANGED vars
  BY <1>13 DEF vars, InstallInv, InstallOf, Served, Entered
<1>14. QED
  BY <1>1, <1>2, <1>3, <1>4, <1>5, <1>6, <1>7, <1>8, <1>9, <1>10, <1>11, <1>12, <1>13 DEF Next

\* An install that had the files to itself and reports success has worked
\* (install.go: Install, ensureProfile), for any documents - also where the
\* tables of the profile stand apart - and whatever killed commands have left.
THEOREM InstalledServes == Spec => []InstallWorks
<1>1. Init => InstallInv
  <2>1. Init => \A c \in Commands : proc[c] = Idle
    BY DEF Init
  <2>2. QED
    BY <2>1, IdleType DEF InstallInv, InstallOf
<1>2. IInv /\ InstallInv /\ [Next]_vars => InstallInv'
  BY InstallStep
<1>3. InstallInv => InstallWorks
  <2>1. ASSUME InstallInv, NEW c \in Commands, proc[c].pc = "done", proc[c].alone,
               proc[c].ok, proc[c].job = "install"
        PROVE  Served(proc[c], toml) /\ Entered(proc[c], json.servers)
    BY <2>1 DEF InstallInv, InstallOf
  <2>2. QED
    BY <2>1 DEF InstallWorks, Undisturbed, Served, Entered
<1>4. QED
  BY <1>1, <1>2, <1>3, Invariance, PTL DEF Spec

-----------------------------------------------------------------------------
(* What a step does, in a word: p is what a running command remembers       *)
(* before it, q what it remembers after.                                    *)

Running(c, p, q) ==
    /\ Active(c) /\ p = proc[c] /\ p \in ProcType /\ q \in ProcType
    /\ proc' = [proc EXCEPT ![c] = q] /\ TaskOf(p) /\ runs' = runs

Appends(c, p, q) ==
    /\ p.pc = "append" /\ q.pc = "entry" /\ SameTask(p, q)
    /\ toml' = toml \o NewBlock(c) /\ UNCHANGED <<json, tokens>>
Tears(p, q) ==
    /\ p.pc = "append" /\ q.pc = "done" /\ ~q.ok /\ SameTask(p, q)
    /\ toml' = toml \o <<Blank, Torn(p.prof)>> /\ UNCHANGED <<json, tokens>>
Reads(c, p, q) ==
    /\ p.pc = "edit" /\ q.pc = "tomlBak" /\ SameTask(p, q)
    /\ HasSection(toml, p.prof) /\ q.data = spliceProfileBlock(toml, p.prof, NewBlock(c))
    /\ q.jread = p.jread /\ UNCHANGED <<toml, json, tokens>>
Swaps(p, q) ==
    /\ p.pc = "tomlSwap" /\ q.pc = (IF p.job = "install" THEN "entry" ELSE "tokens")
    /\ SameTask(p, q) /\ SameFiles(p, q) /\ toml' = p.data /\ UNCHANGED <<json, tokens>>
BacksUp(p, q) ==
    /\ \/ p.pc = "tomlBak" /\ q.pc = "tomlSwap"
       \/ p.pc = "jsonBak" /\ q.pc = "jsonSwap"
    /\ SameTask(p, q) /\ SameFiles(p, q) /\ UNCHANGED <<toml, json, tokens>>
Fails(p, q) ==
    /\ p.pc \in {"edit", "entry"} /\ q.pc = "done" /\ ~q.ok
    /\ SameTask(p, q) /\ UNCHANGED <<toml, json, tokens>>
Drops(p, q) ==
    /\ p.pc = "tokens" /\ q.pc = "done" /\ q.ok /\ SameTask(p, q) /\ SameFiles(p, q)
    /\ tokens' = tokens \ {p.cfg[p.prof].url} /\ UNCHANGED <<toml, json>>
Loads(p, q) ==
    /\ p.pc = "entry" /\ q.pc \in {"jsonBak", "jsonSwap"} /\ SameTask(p, q)
    /\ Readable(json) /\ q.jread = json
    /\ \/ p.job = "install" /\ q.jdata = JSON("whole", With(json.servers, p.name, p.prof))
       \/ p.job = "uninstall" /\ q.jdata = JSON("whole", Without(json.servers, p.name))
    /\ UNCHANGED <<toml, json, tokens>>

\* Where uninstall goes from the entry, as q.
GoesOn(p, q, gone, prof) ==
    /\ q.pc = (IF prof \in DOMAIN p.cfg THEN "edit" ELSE "done")
    /\ q.prof = prof /\ q.gone = gone /\ q.ok = gone
    /\ q.job = p.job /\ q.name = p.name /\ q.url = p.url /\ q.cfg = p.cfg
    /\ q.alone = p.alone /\ SameFiles(p, q)
Skips(p, q) ==
    /\ p.pc = "entry" /\ p.job = "uninstall" /\ p.name \notin DOMAIN json.servers
    /\ GoesOn(p, q, FALSE, p.name) /\ UNCHANGED <<toml, json, tokens>>
Enters(p, q) ==
    /\ p.pc = "jsonSwap" /\ p.job = "install" /\ q.pc = "done" /\ SameTask(p, q)
    /\ json' = p.jdata /\ UNCHANGED <<toml, tokens>>
Removes(p, q) ==
    /\ p.pc = "jsonSwap" /\ p.job = "uninstall" /\ GoesOn(p, q, TRUE, entryProfile(p))
    /\ json' = p.jdata /\ UNCHANGED <<toml, tokens>>
Ends(q) == q.pc = "idle" /\ UNCHANGED <<toml, json, tokens>>

Moves(c, p, q) ==
    \/ Appends(c, p, q) \/ Tears(p, q) \/ Reads(c, p, q) \/ Swaps(p, q) \/ BacksUp(p, q)
    \/ Fails(p, q) \/ Drops(p, q) \/ Loads(p, q) \/ Skips(p, q) \/ Enters(p, q) \/ Removes(p, q)
    \/ Ends(q)

\* A command starts as r: alone when nobody else runs, and nobody else is then.
Begun(c, r) ==
    /\ runs < MaxRuns /\ ~Active(c) /\ Parses(toml) /\ UNCHANGED <<toml, json, tokens>>
    /\ proc'[c] = r /\ r.cfg = Loaded(toml) /\ r.name \in Names /\ r.prof \in Names
    /\ \/ /\ r.job = "install" /\ r.pc \in {"entry", "append", "edit"}
          /\ r.pc = "append" => r.prof \notin DOMAIN Loaded(toml)
       \/ r.job = "uninstall" /\ r.pc = "entry" /\ r.prof = r.name
    /\ \A d \in Commands \ {c} :
         /\ proc'[d].pc = proc[d].pc /\ proc'[d].prof = proc[d].prof
         /\ proc'[d].job = proc[d].job
         /\ SameFiles(proc[d], proc'[d]) /\ ~(Active(d)' /\ proc'[d].alone)

LEMMA StartBegun ==
    ASSUME IInv, NEW c \in Commands, NEW q \in ProcType, Start(c, q),
           q.name \in Names, q.prof \in Names,
           \/ /\ q.job = "install" /\ q.pc \in {"entry", "append", "edit"}
              /\ q.pc = "append" => q.prof \notin DOMAIN Loaded(toml)
           \/ q.job = "uninstall" /\ q.pc = "entry" /\ q.prof = q.name
    PROVE  \E r \in ProcType : Begun(c, r)
<1>1. /\ proc' = [d \in Commands |->
                  IF d = c THEN [q EXCEPT !.cfg = Loaded(toml), !.alone = Others(c) = {}]
                  ELSE IF Active(d) THEN [proc[d] EXCEPT !.alone = FALSE] ELSE proc[d]]
      /\ runs < MaxRuns /\ ~Active(c) /\ Parses(toml) /\ UNCHANGED <<toml, json, tokens>>
  BY DEF Start
<1>2. PICK alone \in BOOLEAN : alone = (Others(c) = {})
  OBVIOUS
<1>3. PICK cfg \in ConfigType : cfg = Loaded(toml)
  BY LoadedType DEF IInv, FilesOK
<1>4. PICK r : r = [q EXCEPT !.cfg = cfg, !.alone = alone]
  OBVIOUS
<1>5. /\ r \in ProcType /\ r.pc = q.pc /\ r.job = q.job /\ r.name = q.name /\ r.prof = q.prof
      /\ r.cfg = cfg
  BY <1>4 DEF ProcType
<1>6. proc'[c] = r
  BY <1>1, <1>2, <1>3, <1>4
<1>7. ASSUME NEW d \in Commands \ {c}
      PROVE  /\ proc'[d].pc = proc[d].pc /\ proc'[d].prof = proc[d].prof
             /\ proc'[d].job = proc[d].job
             /\ SameFiles(proc[d], proc'[d]) /\ ~(Active(d)' /\ proc'[d].alone)
  <2>1. proc[d] \in ProcType
    BY DEF IInv, ProcsOK
  <2>2. CASE Active(d)
    <3>1. PICK u : u = [proc[d] EXCEPT !.alone = FALSE]
      OBVIOUS
    <3>2. ~u.alone /\ u.pc = proc[d].pc /\ u.prof = proc[d].prof /\ u.job = proc[d].job
          /\ SameFiles(proc[d], u)
      BY <2>1, <3>1 DEF ProcType, SameFiles
    <3>3. proc'[d] = u
      BY <1>1, <2>2, <3>1
    <3>4. QED
      BY <3>2, <3>3
  <2>3. CASE ~Active(d)
    <3>1. proc'[d] = proc[d]
      BY <1>1, <2>3
    <3>2. QED
      BY <2>3, <3>1 DEF Active, SameFiles
  <2>4. QED
    BY <2>2, <2>3
<1>8. Begun(c, r)
  BY <1>1, <1>3, <1>5, <1>6, <1>7 DEF Begun
<1>9. QED
  BY <1>5, <1>8

LEMMA StepShape ==
    ASSUME IInv, [Next]_vars
    PROVE  \/ UNCHANGED vars
           \/ \E c \in Commands, r \in ProcType : Begun(c, r)
           \/ \E c \in Commands, p, q \in ProcType : Running(c, p, q) /\ Moves(c, p, q)
<1> USE DEF IInv
<1> DEFINE Goal == \/ \E c \in Commands, r \in ProcType : Begun(c, r)
                   \/ \E c \in Commands, p, q \in ProcType : Running(c, p, q) /\ Moves(c, p, q)
<1>0. ASSUME NEW c \in Commands, NEW p \in ProcType, p = proc[c], Active(c), NEW q \in ProcType,
             proc' = [proc EXCEPT ![c] = q], runs' = runs, Moves(c, p, q)
      PROVE  Goal
  BY <1>0 DEF Running, TaskInv
<1>1. ASSUME NEW c \in Commands, InstallURL(c) PROVE Goal
  <2>1. PICK n \in Names, u \in URLs, x \in {"entry", "append", "edit"} :
          /\ Start(c, [Idle EXCEPT !.pc = x, !.name = n, !.prof = n, !.url = u])
          /\ x = "append" => n \notin DOMAIN Loaded(toml)
    BY <1>1 DEF InstallURL
  <2>2. PICK q : q = [Idle EXCEPT !.pc = x, !.name = n, !.prof = n, !.url = u]
    OBVIOUS
  <2>3. n \in Profiles /\ n \in Named
    BY ConfigAssumption DEF Named
  <2>4. Idle.job = "install"
    BY DEF Idle
  <2>5. q \in ProcType /\ q.pc = x /\ q.name = n /\ q.prof = n /\ q.job = "install"
    BY <2>2, <2>3, <2>4, IdleType DEF ProcType, Places
  <2>6. QED
    BY <2>1, <2>2, <2>5, StartBegun
<1>2. ASSUME NEW c \in Commands, InstallProfile(c) PROVE Goal
  <2>1. PICK n \in Names, p \in DOMAIN Loaded(toml) \cap Names :
          Start(c, [Idle EXCEPT !.pc = "entry", !.name = n, !.prof = p,
                                !.url = Loaded(toml)[p].url])
    BY <1>2 DEF InstallProfile
  <2>2. PICK u \in URLs \cup {""} : u = Loaded(toml)[p].url
    <3>1. PICK D \in SUBSET Profiles : Loaded(toml) \in [D -> ProfType]
      BY LoadedType DEF FilesOK, ConfigType
    <3>2. Loaded(toml)[p] \in ProfType
      BY <3>1
    <3>3. QED
      BY <3>2 DEF ProfType
  <2>3. PICK q : q = [Idle EXCEPT !.pc = "entry", !.name = n, !.prof = p, !.url = u]
    OBVIOUS
  <2>4. n \in Named /\ p \in Named
    BY ConfigAssumption DEF Named
  <2>5. Idle.job = "install"
    BY DEF Idle
  <2>6. q \in ProcType /\ q.pc = "entry" /\ q.name = n /\ q.prof = p /\ q.job = "install"
    BY <2>3, <2>4, <2>5, IdleType DEF ProcType, Places
  <2>7. QED
    BY <2>1, <2>2, <2>3, <2>6, StartBegun
<1>3. ASSUME NEW c \in Commands, Uninstall(c) PROVE Goal
  <2>1. PICK n \in Names :
          Start(c, [Idle EXCEPT !.pc = "entry", !.job = "uninstall", !.name = n, !.prof = n])
    BY <1>3 DEF Uninstall
  <2>2. PICK q : q = [Idle EXCEPT !.pc = "entry", !.job = "uninstall", !.name = n, !.prof = n]
    OBVIOUS
  <2>3. n \in Named
    BY ConfigAssumption DEF Named
  <2>4. /\ q \in ProcType /\ q.pc = "entry" /\ q.name = n /\ q.prof = n /\ q.job = "uninstall"
    BY <2>2, <2>3, IdleType DEF ProcType, Places
  <2>5. QED
    BY <2>1, <2>2, <2>4, StartBegun
<1>4. ASSUME NEW c \in Commands, AppendProfile(c) PROVE Goal
  <2> PICK p \in ProcType : p = proc[c]
    BY DEF ProcsOK
  <2>0. p.pc = "append" /\ Active(c) /\ UNCHANGED <<json, tokens, runs>>
    BY <1>4 DEF AppendProfile, Active
  <2>1. CASE toml' = toml \o NewBlock(c) /\ Goto(c, "entry")
    <3>1. PICK q : q = [p EXCEPT !.pc = "entry"]
      OBVIOUS
    <3>2. proc' = [proc EXCEPT ![c] = q]
      BY <2>1, <3>1 DEF Goto, ProcsOK
    <3>3. q \in ProcType /\ q.pc = "entry" /\ SameTask(p, q)
      BY <3>1, Moved DEF Places
    <3>4. Moves(c, p, q)
      BY <2>0, <2>1, <3>3 DEF Moves, Appends
    <3>5. QED
      BY <1>0, <2>0, <3>2, <3>3, <3>4
  <2>2. CASE toml' = toml \o <<Blank, Torn(p.prof)>> /\ Return(c, FALSE)
    <3>1. PICK q : q = [p EXCEPT !.pc = "done", !.ok = FALSE]
      OBVIOUS
    <3>2. proc' = [proc EXCEPT ![c] = q]
      BY <2>2, <3>1 DEF Return, ProcsOK
    <3>3. q \in ProcType /\ q.pc = "done" /\ ~q.ok /\ SameTask(p, q)
      BY <3>1, Returned
    <3>4. Moves(c, p, q)
      BY <2>0, <2>2, <3>3 DEF Moves, Tears
    <3>5. QED
      BY <1>0, <2>0, <3>2, <3>3, <3>4
  <2>3. QED
    BY <1>4, <2>1, <2>2 DEF AppendProfile
<1>5. ASSUME NEW c \in Commands, ReadToml(c) PROVE Goal
  <2> PICK p \in ProcType : p = proc[c]
    BY DEF ProcsOK
  <2>0. p.pc = "edit" /\ Active(c) /\ TaskOf(p) /\ UNCHANGED <<toml, json, tokens, runs>>
    BY <1>5 DEF ReadToml, Active, TaskInv
  <2>1. CASE HasSection(toml, p.prof)
    <3>1. PICK d : d = spliceProfileBlock(toml, p.prof, NewBlock(c))
      OBVIOUS
    <3>2. toml \in DocType /\ d \in DocType
      BY <2>0, <2>1, <3>1, NewBlockType, SpliceType DEF FilesOK, ProcsOK, TaskOf
    <3>3. PICK q : q = [p EXCEPT !.pc = "tomlBak", !.read = toml, !.data = d]
      OBVIOUS
    <3>4. proc' = [proc EXCEPT ![c] = q]
      BY <1>5, <2>1, <3>1, <3>3 DEF ReadToml, ProcsOK
    <3>5. q \in ProcType /\ q.pc = "tomlBak" /\ q.data = d /\ q.jread = p.jread /\ SameTask(p, q)
      <4>1. LET u == [p EXCEPT !.pc = "tomlBak", !.read = toml, !.data = d] IN
            /\ u \in ProcType /\ u.pc = "tomlBak" /\ u.read = toml /\ u.data = d
            /\ u.jread = p.jread /\ u.jdata = p.jdata /\ u.ok = p.ok /\ SameTask(p, u)
        BY <3>2, HasReadToml
      <4>2. QED
        BY <3>3, <4>1
    <3>6. Moves(c, p, q)
      BY <2>0, <2>1, <3>1, <3>5 DEF Moves, Reads
    <3>7. QED
      BY <1>0, <2>0, <3>4, <3>5, <3>6
  <2>2. CASE ~HasSection(toml, p.prof) /\ Return(c, FALSE)
    <3>1. PICK q : q = [p EXCEPT !.pc = "done", !.ok = FALSE]
      OBVIOUS
    <3>2. proc' = [proc EXCEPT ![c] = q]
      BY <2>2, <3>1 DEF Return, ProcsOK
    <3>3. q \in ProcType /\ q.pc = "done" /\ ~q.ok /\ SameTask(p, q)
      BY <3>1, Returned
    <3>4. Moves(c, p, q)
      BY <2>0, <3>3 DEF Moves, Fails
    <3>5. QED
      BY <1>0, <2>0, <3>2, <3>3, <3>4
  <2>3. QED
    BY <1>5, <2>1, <2>2 DEF ReadToml
<1>6. ASSUME NEW c \in Commands, BackupToml(c) \/ BackupJSON(c) PROVE Goal
  <2> PICK p \in ProcType : p = proc[c]
    BY DEF ProcsOK
  <2>1. PICK x \in {"tomlSwap", "jsonSwap"} :
          /\ p.pc = IF x = "tomlSwap" THEN "tomlBak" ELSE "jsonBak"
          /\ Active(c) /\ Goto(c, x) /\ UNCHANGED <<toml, json, tokens, runs>>
    BY <1>6 DEF BackupToml, BackupJSON, Active
  <2>2. PICK q : q = [p EXCEPT !.pc = x]
    OBVIOUS
  <2>3. proc' = [proc EXCEPT ![c] = q]
    BY <2>1, <2>2 DEF Goto, ProcsOK
  <2>4. q \in ProcType /\ q.pc = x /\ SameTask(p, q) /\ SameFiles(p, q)
    <3>1. x \in Places
      BY DEF Places
    <3>2. QED
      BY <2>2, <3>1, Moved
  <2>5. Moves(c, p, q)
    BY <2>1, <2>4 DEF Moves, BacksUp
  <2>6. QED
    BY <1>0, <2>1, <2>3, <2>4, <2>5
<1>7. ASSUME NEW c \in Commands, SwapToml(c) PROVE Goal
  <2> PICK p \in ProcType : p = proc[c]
    BY DEF ProcsOK
  <2>1. PICK x \in {"entry", "tokens"} :
          /\ x = IF p.job = "install" THEN "entry" ELSE "tokens"
          /\ p.pc = "tomlSwap" /\ Active(c) /\ Goto(c, x)
          /\ toml' = p.data /\ UNCHANGED <<json, tokens, runs>>
    BY <1>7 DEF SwapToml, Active
  <2>2. PICK q : q = [p EXCEPT !.pc = x]
    OBVIOUS
  <2>3. proc' = [proc EXCEPT ![c] = q]
    BY <2>1, <2>2 DEF Goto, ProcsOK
  <2>4. q \in ProcType /\ q.pc = x /\ SameTask(p, q) /\ SameFiles(p, q)
    <3>1. x \in Places
      BY DEF Places
    <3>2. QED
      BY <2>2, <3>1, Moved
  <2>5. Moves(c, p, q)
    BY <2>1, <2>4 DEF Moves, Swaps
  <2>6. QED
    BY <1>0, <2>1, <2>3, <2>4, <2>5
<1>8. ASSUME NEW c \in Commands, DropTokens(c) PROVE Goal
  <2> PICK p \in ProcType : p = proc[c]
    BY DEF ProcsOK
  <2>1. /\ p.pc = "tokens" /\ Active(c) /\ tokens' = tokens \ {p.cfg[p.prof].url}
        /\ UNCHANGED <<toml, json, runs>>
    BY <1>8 DEF DropTokens, Active
  <2>2. PICK q : q = [p EXCEPT !.pc = "done", !.ok = TRUE]
    OBVIOUS
  <2>3. proc' = [proc EXCEPT ![c] = q]
    BY <1>8, <2>2 DEF DropTokens, Return, ProcsOK
  <2>4. q \in ProcType /\ q.pc = "done" /\ q.ok /\ SameTask(p, q) /\ SameFiles(p, q)
    BY <2>2, Returned
  <2>5. Moves(c, p, q)
    BY <2>1, <2>4 DEF Moves, Drops
  <2>6. QED
    BY <1>0, <2>1, <2>3, <2>4, <2>5
<1>9. ASSUME NEW c \in Commands, LoadJSON(c) PROVE Goal
  <2> PICK p \in ProcType : p = proc[c]
    BY DEF ProcsOK
  <2>0. /\ p.pc = "entry" /\ Active(c) /\ TaskOf(p) /\ UNCHANGED <<toml, json, tokens, runs>>
        /\ json \in FileType
    BY <1>9 DEF LoadJSON, Active, TaskInv, FilesOK
  <2>1. CASE Return(c, FALSE)
    <3>1. PICK q : q = [p EXCEPT !.pc = "done", !.ok = FALSE]
      OBVIOUS
    <3>2. proc' = [proc EXCEPT ![c] = q]
      BY <2>1, <3>1 DEF Return, ProcsOK
    <3>3. q \in ProcType /\ q.pc = "done" /\ ~q.ok /\ SameTask(p, q)
      BY <3>1, Returned
    <3>4. Moves(c, p, q)
      BY <2>0, <3>3 DEF Moves, Fails
    <3>5. QED
      BY <1>0, <2>0, <3>2, <3>3, <3>4
  <2>2. ASSUME NEW servers, JSON("whole", servers) \in FileType, Readable(json),
               \/ p.job = "install" /\ servers = With(json.servers, p.name, p.prof)
               \/ p.job = "uninstall" /\ servers = Without(json.servers, p.name),
               proc' = [proc EXCEPT ![c] = [p EXCEPT !.jread = json, !.jdata = JSON("whole", servers),
                          !.pc = IF json.kind = "none" THEN "jsonSwap" ELSE "jsonBak"]]
        PROVE  Goal
    <3>1. PICK x \in {"jsonSwap", "jsonBak"} : x = IF json.kind = "none" THEN "jsonSwap" ELSE "jsonBak"
      OBVIOUS
    <3>2. PICK data \in FileType : data = JSON("whole", servers)
      BY <2>2
    <3>3. PICK q : q = [p EXCEPT !.jread = json, !.jdata = data, !.pc = x]
      OBVIOUS
    <3>4. proc' = [proc EXCEPT ![c] = q]
      BY <2>2, <3>1, <3>2, <3>3
    <3>5. q \in ProcType /\ q.pc = x /\ q.jread = json /\ q.jdata = data /\ SameTask(p, q)
      <4>1. x \in Places /\ json \in FileType
        BY <2>0 DEF Places
      <4>2. LET u == [p EXCEPT !.jread = json, !.jdata = data, !.pc = x] IN
            /\ u \in ProcType /\ u.pc = x /\ u.jread = json /\ u.jdata = data
            /\ u.read = p.read /\ u.data = p.data /\ u.ok = p.ok /\ SameTask(p, u)
        BY <4>1, HasReadJSON
      <4>3. QED
        BY <3>3, <4>2
    <3>6. Moves(c, p, q)
      BY <2>0, <2>2, <3>2, <3>5 DEF Moves, Loads
    <3>7. QED
      BY <1>0, <2>0, <3>4, <3>5, <3>6
  <2>3. CASE p.job = "uninstall" /\ p.name \notin DOMAIN json.servers
               /\ proc' = [proc EXCEPT ![c] = AfterEntry(p, FALSE, p.name)]
    <3>1. PICK q : q = AfterEntry(p, FALSE, p.name)
      OBVIOUS
    <3>2. q \in ProcType /\ GoesOn(p, q, FALSE, p.name)
      <4>1. p.name \in Named
        BY DEF ProcType
      <4>2. q \in ProcType /\ q.prof = p.name /\ q.gone = FALSE /\ q.ok = FALSE
            /\ q.job = p.job /\ q.name = p.name /\ q.url = p.url /\ q.cfg = p.cfg
            /\ q.alone = p.alone /\ SameFiles(p, q)
        BY <3>1, <4>1, PastEntry
      <4>3. q.pc = IF p.name \in DOMAIN p.cfg THEN "edit" ELSE "done"
        BY <3>1 DEF AfterEntry, ProcType
      <4>4. QED
        BY <4>2, <4>3 DEF GoesOn
    <3>3. Moves(c, p, q)
      BY <2>0, <2>3, <3>2 DEF Moves, Skips
    <3>4. QED
      BY <1>0, <2>0, <2>3, <3>1, <3>2, <3>3
  <2>4. CASE p.job = "install" /\ Readable(json) /\ proc' = [proc EXCEPT ![c] =
                  [p EXCEPT !.jread = json, !.jdata = JSON("whole", With(json.servers, p.name, p.prof)),
                     !.pc = IF json.kind = "none" THEN "jsonSwap" ELSE "jsonBak"]]
    BY <2>0, <2>2, <2>4, EntryTypes DEF TaskOf
  <2>5. CASE p.job = "uninstall" /\ Readable(json) /\ proc' = [proc EXCEPT ![c] =
                  [p EXCEPT !.jread = json, !.jdata = JSON("whole", Without(json.servers, p.name)),
                     !.pc = IF json.kind = "none" THEN "jsonSwap" ELSE "jsonBak"]]
    BY <2>0, <2>2, <2>5, EntryTypes DEF TaskOf
  <2>6. QED
    BY <1>9, <2>1, <2>3, <2>4, <2>5 DEF LoadJSON
<1>10. ASSUME NEW c \in Commands, SwapJSON(c) PROVE Goal
  <2> PICK p \in ProcType : p = proc[c]
    BY DEF ProcsOK
  <2>0. /\ p.pc = "jsonSwap" /\ Active(c) /\ TaskOf(p) /\ json' = p.jdata
        /\ UNCHANGED <<toml, tokens, runs>>
    BY <1>10 DEF SwapJSON, Active, TaskInv
  <2>1. CASE p.job = "install" /\ Return(c, TRUE)
    <3>1. PICK q : q = [p EXCEPT !.pc = "done", !.ok = TRUE]
      OBVIOUS
    <3>2. proc' = [proc EXCEPT ![c] = q]
      BY <2>1, <3>1 DEF Return, ProcsOK
    <3>3. q \in ProcType /\ q.pc = "done" /\ SameTask(p, q)
      BY <3>1, Returned
    <3>4. Moves(c, p, q)
      BY <2>0, <2>1, <3>3 DEF Moves, Enters
    <3>5. QED
      BY <1>0, <2>0, <3>2, <3>3, <3>4
  <2>2. CASE p.job # "install" /\ proc' = [proc EXCEPT ![c] = AfterEntry(p, TRUE, entryProfile(p))]
    <3>1. PICK q, prof : q = AfterEntry(p, TRUE, prof) /\ prof = entryProfile(p)
      OBVIOUS
    <3>2. p.job = "uninstall" /\ p.name \in DOMAIN p.jread.servers /\ p.jread \in FileType
      BY <2>0, <2>2 DEF ProcType, TaskOf
    <3>3. prof \in Named
      <4>1. PICK D \in SUBSET Profiles : p.jread.servers \in [D -> Named]
        BY <3>2 DEF FileType, ServersType
      <4>2. p.jread.servers[p.name] \in Named /\ p.name \in Named
        BY <3>2, <4>1 DEF ProcType
      <4>3. QED
        BY <3>1, <4>2 DEF entryProfile
    <3>4. q \in ProcType /\ GoesOn(p, q, TRUE, prof)
      <4>1. q \in ProcType /\ q.prof = prof /\ q.gone = TRUE /\ q.ok = TRUE
            /\ q.job = p.job /\ q.name = p.name /\ q.url = p.url /\ q.cfg = p.cfg
            /\ q.alone = p.alone /\ SameFiles(p, q)
        BY <3>1, <3>3, PastEntry
      <4>2. q.pc = IF prof \in DOMAIN p.cfg THEN "edit" ELSE "done"
        BY <3>1 DEF AfterEntry, ProcType
      <4>3. QED
        BY <4>1, <4>2 DEF GoesOn
    <3>5. Moves(c, p, q)
      BY <2>0, <3>1, <3>2, <3>4 DEF Moves, Removes
    <3>6. QED
      BY <1>0, <2>0, <2>2, <3>1, <3>4, <3>5
  <2>3. QED
    BY <1>10, <2>1, <2>2 DEF SwapJSON
<1>11. ASSUME NEW c \in Commands, Exit(c) \/ Crash(c) PROVE Goal
  <2>1. PICK q \in ProcType : q = Idle /\ q.pc = "idle"
    BY IdleType
  <2>2. PICK p \in ProcType : p = proc[c]
    BY DEF ProcsOK
  <2>3. Active(c) /\ proc' = [proc EXCEPT ![c] = q] /\ UNCHANGED <<toml, json, tokens, runs>>
    BY <1>11, <2>1 DEF Exit, Crash, Active
  <2>4. Moves(c, p, q)
    BY <2>1, <2>3 DEF Moves, Ends
  <2>5. QED
    BY <1>0, <2>2, <2>3, <2>4
<1>12. QED
  BY <1>1, <1>2, <1>3, <1>4, <1>5, <1>6, <1>7, <1>8, <1>9, <1>10, <1>11 DEF Next

LEMMA RunningTo ==
    ASSUME IInv, NEW c \in Commands, NEW p, NEW q, Running(c, p, q)
    PROVE  proc'[c] = q /\ \A d \in Commands \ {c} : proc'[d] = proc[d]
BY DEF Running, IInv, ProcsOK

-----------------------------------------------------------------------------
(* What commands are about, however many overlap.                          *)

Editing(p) == p.pc \in {"tomlBak", "tomlSwap"}
Writing(p) == p.pc \in {"jsonBak", "jsonSwap"}

\* A profile that commands name, and entries that refer to such ones.
JobOf(p) ==
    /\ p.pc # "idle" => p.prof \in Names
    /\ p.pc = "append" => p.job = "install"
    /\ Writing(p) => Closed(p.jread.servers) /\ Closed(p.jdata.servers)
JobsInv == Closed(json.servers) /\ \A c \in Commands : JobOf(proc[c])

LEMMA ClosedEdits ==
    ASSUME NEW servers, Closed(servers), NEW n \in Names, NEW p \in Names
    PROVE  Closed(With(servers, n, p)) /\ Closed(Without(servers, n))
BY DEF Closed, With, Without

LEMMA JobsStep ==
    ASSUME IInv, JobsInv, [Next]_vars
    PROVE  JobsInv'
<1>1. CASE UNCHANGED vars
  BY <1>1 DEF vars, JobsInv
<1>2. ASSUME NEW c \in Commands, NEW r \in ProcType, Begun(c, r) PROVE JobsInv'
  <2>1. \A d \in Commands \ {c} : JobOf(proc'[d])
    BY <1>2 DEF Begun, JobsInv, JobOf, SameFiles, Writing
  <2>2. JobOf(proc'[c])
    BY <1>2 DEF Begun, JobOf, Writing
  <2>3. QED
    BY <1>2, <2>1, <2>2 DEF Begun, JobsInv
<1>3. ASSUME NEW c \in Commands, NEW p \in ProcType, NEW q \in ProcType,
             Running(c, p, q), Moves(c, p, q)
      PROVE  JobsInv'
  <2>1. proc'[c] = q /\ \A d \in Commands \ {c} : proc'[d] = proc[d]
    BY <1>3, RunningTo
  <2>2. p.pc # "idle" /\ TaskOf(p) /\ p.prof \in Names /\ p.name \in Names /\ JobOf(p)
    BY <1>3 DEF Running, Active, JobsInv, JobOf, TaskOf
  <2>3. Closed(json.servers)' /\ JobOf(q)
    <3>1. CASE \/ Appends(c, p, q) \/ Tears(p, q) \/ Reads(c, p, q) \/ Swaps(p, q)
               \/ BacksUp(p, q) \/ Fails(p, q) \/ Drops(p, q) \/ Ends(q)
      BY <2>2, <3>1 DEF JobsInv, JobOf, Writing, Appends, Tears, Reads, Swaps, BacksUp, Fails,
         Drops, Ends, SameTask, SameFiles
    <3>2. CASE Loads(p, q)
      <4>1. \A servers : JSON("whole", servers).servers = servers
        BY DEF JSON
      <4>2. Closed(With(json.servers, p.name, p.prof)) /\ Closed(Without(json.servers, p.name))
        BY <2>2, ClosedEdits DEF JobsInv
      <4>3. QED
        BY <2>2, <3>2, <4>1, <4>2 DEF Loads, JobsInv, JobOf, Writing, SameTask
    <3>3. CASE Skips(p, q)
      BY <2>2, <3>3 DEF Skips, GoesOn, JobsInv, JobOf, Writing
    <3>4. CASE Enters(p, q)
      BY <2>2, <3>4 DEF Enters, JobsInv, JobOf, Writing, SameTask
    <3>5. CASE Removes(p, q)
      <4>1. entryProfile(p) \in Names
        <5>1. Closed(p.jread.servers) /\ p.name \in DOMAIN p.jread.servers
          BY <2>2, <3>5 DEF Removes, JobOf, Writing, TaskOf
        <5>2. QED
          BY <2>2, <5>1 DEF Closed, entryProfile
      <4>2. QED
        BY <2>2, <3>5, <4>1 DEF Removes, GoesOn, JobsInv, JobOf, Writing
    <3>6. QED
      BY <1>3, <3>1, <3>2, <3>3, <3>4, <3>5 DEF Moves
  <2>4. QED
    BY <2>1, <2>3 DEF JobsInv
<1>4. QED
  BY <1>1, <1>2, <1>3, StepShape

-----------------------------------------------------------------------------
(* What documents are like, however many commands overlap.                 *)

\* The samples come with no command to run.
Loose == runs = MaxRuns /\ \A c \in Commands : ~Active(c)

AllTidy == \A doc \in Documents : Tidy(doc)

\* Only appends of commands are torn, and what is tidy stays so.
Sound(doc) ==
    /\ Rooted(doc)
    /\ AllTidy => Tidy(doc)
    /\ \A i \in DOMAIN doc : doc[i].kind = "torn" => doc[i].of \in Names

DocsInv ==
    /\ Rooted(toml) /\ (Loose \/ Sound(toml))
    /\ \A c \in Commands : Editing(proc[c]) => Sound(proc[c].data)

LEMMA SoundSplice ==
    ASSUME NEW doc \in DocType, NEW p \in Names, NEW block, HasSection(doc, p), Fresh(block, p),
           Sound(doc)
    PROVE  Sound(spliceProfileBlock(doc, p, block))
<1>1. /\ Rooted(doc) /\ (AllTidy => Tidy(doc))
      /\ \A i \in DOMAIN doc : doc[i].kind = "torn" => doc[i].of \in Names
  BY DEF Sound
<1>2. Rooted(spliceProfileBlock(doc, p, block))
  BY <1>1, RootedSplice
<1>3. AllTidy => Tidy(spliceProfileBlock(doc, p, block))
  BY <1>1, TidySplice
<1>4. LET out == spliceProfileBlock(doc, p, block) IN
      \A i \in DOMAIN out : out[i].kind = "torn" => out[i].of \in Names
  BY <1>1, TornSplice
<1>5. QED
  BY <1>2, <1>3, <1>4 DEF Sound

LEMMA SoundAppend ==
    ASSUME NEW doc \in DocType, NEW p \in Names, NEW block, Suffix(block, p), Sound(doc)
    PROVE  Sound(doc \o block)
<1>1. /\ Rooted(doc) /\ (AllTidy => Tidy(doc))
      /\ \A i \in DOMAIN doc : doc[i].kind = "torn" => doc[i].of \in Names
  BY DEF Sound
<1>2. p \in Profiles
  BY ConfigAssumption
<1>3. Rooted(doc \o block)
  BY <1>1, <1>2, RootedAppend
<1>4. AllTidy => Tidy(doc \o block)
  BY <1>1, <1>2, TidyAppend
<1>5. \A i \in DOMAIN (doc \o block) : (doc \o block)[i].kind = "torn" =>
                                         (doc \o block)[i].of \in Names
  <2>1. PICK out : out = doc \o block
    OBVIOUS
  <2>2. AppendedAt(doc, block, out)
    BY <1>2, <2>1, AppendLines
  <2>3. \A k \in 1..Len(block) : block[k].kind = "torn" => block[k].of \in Names
    BY <1>2, TailLines
  <2>4. \A i \in DOMAIN out : out[i].kind = "torn" => out[i].of \in Names
    BY <1>1, <2>2, <2>3 DEF AppendedAt
  <2>5. QED
    BY <2>1, <2>4
<1>6. QED
  BY <1>3, <1>4, <1>5 DEF Sound

LEMMA DocsStep ==
    ASSUME IInv, JobsInv, DocsInv, [Next]_vars
    PROVE  DocsInv'
<1>1. CASE UNCHANGED vars
  BY <1>1 DEF vars, DocsInv, Loose, Active
<1>2. ASSUME NEW c \in Commands, NEW r \in ProcType, Begun(c, r) PROVE DocsInv'
  <2>1. Sound(toml)
    <3>1. MaxRuns \in Nat /\ runs \in 0..MaxRuns
      BY ConfigAssumption DEF IInv, FilesOK
    <3>2. runs # MaxRuns
      BY <1>2, <3>1 DEF Begun
    <3>3. QED
      BY <3>2 DEF DocsInv, Loose
  <2>2. \A d \in Commands \ {c} : Editing(proc'[d]) => Sound(proc'[d].data)
    BY <1>2 DEF Begun, DocsInv, Editing, SameFiles
  <2>3. ~Editing(proc'[c]) /\ toml' = toml
    BY <1>2 DEF Begun, Editing
  <2>4. QED
    BY <2>1, <2>2, <2>3 DEF DocsInv, Sound
<1>3. ASSUME NEW c \in Commands, NEW p \in ProcType, NEW q \in ProcType,
             Running(c, p, q), Moves(c, p, q)
      PROVE  DocsInv'
  <2>1. proc'[c] = q /\ \A d \in Commands \ {c} : proc'[d] = proc[d]
    BY <1>3, RunningTo
  <2>2. /\ p = proc[c] /\ p.pc # "idle" /\ p.prof \in Names /\ p.prof \in Profiles
        /\ JobOf(p) /\ toml \in DocType
    BY <1>3, ConfigAssumption DEF Running, Active, JobsInv, JobOf, IInv, FilesOK
  <2>3. Sound(toml)
    BY <1>3, <2>2 DEF DocsInv, Loose, Active
  <2>4. Editing(p) => Sound(p.data)
    BY <2>2 DEF DocsInv
  <2>5. /\ NewBlock(c) \in DocType
        /\ p.job = "uninstall" => NewBlock(c) = <<>>
        /\ p.job # "uninstall" => Written(NewBlock(c), p.prof)
    BY <2>2, NewBlockFresh DEF IInv, ProcsOK
  <2>6. Sound(toml') /\ (Editing(q) => Sound(q.data))
    <3>1. CASE Appends(c, p, q)
      <4>1. Suffix(NewBlock(c), p.prof)
        BY <2>2, <2>5, <3>1 DEF Appends, JobOf, Suffix
      <4>2. QED
        BY <2>2, <2>3, <3>1, <4>1, SoundAppend DEF Appends, Editing
    <3>2. CASE Tears(p, q)
      BY <2>2, <2>3, <3>2, SoundAppend DEF Tears, Editing, Suffix
    <3>3. CASE Reads(c, p, q)
      <4>1. Fresh(NewBlock(c), p.prof)
        BY <2>5 DEF Fresh
      <4>2. Sound(spliceProfileBlock(toml, p.prof, NewBlock(c)))
        BY <2>2, <2>3, <3>3, <4>1, SoundSplice DEF Reads
      <4>3. QED
        BY <2>3, <3>3, <4>2 DEF Reads
    <3>4. CASE Swaps(p, q)
      BY <2>4, <3>4 DEF Swaps, Editing
    <3>5. CASE BacksUp(p, q)
      BY <2>3, <2>4, <3>5 DEF BacksUp, Editing, SameFiles
    <3>6. CASE \/ Fails(p, q) \/ Drops(p, q) \/ Loads(p, q) \/ Skips(p, q)
               \/ Enters(p, q) \/ Removes(p, q) \/ Ends(q)
      BY <2>3, <3>6 DEF Fails, Drops, Loads, Skips, Enters, Removes, Ends, GoesOn, Editing
    <3>7. QED
      BY <1>3, <3>1, <3>2, <3>3, <3>4, <3>5, <3>6 DEF Moves
  <2>7. \A d \in Commands : Editing(proc'[d]) => Sound(proc'[d].data)
    BY <2>1, <2>6 DEF DocsInv
  <2>8. QED
    BY <2>6, <2>7 DEF DocsInv, Sound
<1>4. QED
  BY <1>1, <1>2, <1>3, StepShape

LEMMA InitShared == Init => JobsInv /\ DocsInv
<1> SUFFICES ASSUME Init PROVE JobsInv /\ DocsInv
  OBVIOUS
<1>1. \A c \in Commands : proc[c].pc = "idle"
  BY IdleType DEF Init
<1>2. Closed(json.servers)
  <2>1. NoServers = [p \in {} |-> NoProfile] /\ JSON("none", NoServers).servers = NoServers
    BY DEF NoServers, JSON
  <2>2. Closed(JSON("none", NoServers).servers)
    BY <2>1 DEF Closed
  <2>3. QED
    BY <2>2, ConfigAssumption DEF Init
<1>3. JobsInv
  BY <1>1, <1>2 DEF JobsInv, JobOf, Writing
<1>4. Rooted(toml)
  BY ConfigAssumption DEF Init
<1>5. Loose \/ Sound(toml)
  <2>1. CASE toml \in Documents
    <3>1. toml \in DocType /\ Parses(toml)
      BY <2>1, ConfigAssumption
    <3>2. \A i \in DOMAIN toml : toml[i].kind # "torn"
      <4>1. ASSUME NEW i \in DOMAIN toml, toml[i].kind = "torn" PROVE FALSE
        <5>1. toml[i] \in LineType
          BY <3>1, ElementOfSeq, LenProperties DEF DocType
        <5>2. toml[i].of \in Profiles
          BY <4>1, <5>1 DEF LineType, Naming, Named
        <5>3. Single(toml, toml[i].of)
          BY <3>1, <5>2, ParsesSingle
        <5>4. QED
          BY <4>1, <5>3 DEF Single
      <4>2. QED
        BY <4>1
    <3>3. QED
      BY <1>4, <2>1, <3>2 DEF Sound, AllTidy
  <2>2. CASE toml \notin Documents
    BY <1>1, <2>2 DEF Init, Loose, Active
  <2>3. QED
    BY <2>1, <2>2
<1>6. DocsInv
  BY <1>1, <1>4, <1>5 DEF DocsInv, Editing
<1>7. QED
  BY <1>3, <1>6

SharedInv == IInv /\ JobsInv /\ DocsInv

\* However many commands overlap, they name what commands may name, a profile
\* written with a dotted key stays above the first table, and where the
\* documents they found were tidy, so are the ones they leave.
THEOREM SharedInvariance == Spec => []SharedInv
<1>1. Init => SharedInv
  BY InitInv, InitShared DEF SharedInv
<1>2. SharedInv /\ [Next]_vars => SharedInv'
  BY InvStep, JobsStep, DocsStep DEF SharedInv
<1>3. QED
  BY <1>1, <1>2, PTL DEF Spec

-----------------------------------------------------------------------------
(* What a command that is alone makes of config.toml.                      *)

\* It parses but for the header of an install that was cut short.
ParseOf(p) == p.pc # "idle" /\ p.alone =>
    /\ Parses(toml) \/ (p.pc = "done" /\ p.job = "install" /\ Count(toml, "torn", p.prof) > 0)
    /\ Editing(p) => Parses(p.data)
    /\ p.pc = "append" => p.prof \notin DOMAIN Loaded(toml)
ParseInv == \A c \in Commands : ParseOf(proc[c])

LEMMA TornCount ==
    ASSUME NEW doc \in DocType, NEW p \in Profiles
    PROVE  Count(doc \o <<Blank, Torn(p)>>, "torn", p) > 0
<1>1. PICK block : block = <<Blank, Torn(p)>>
  OBVIOUS
<1>2. PICK out : out = doc \o block
  OBVIOUS
<1>3. AppendedAt(doc, block, out) /\ block \in DocType
  BY <1>1, <1>2, AppendLines, TailLines DEF Suffix
<1>4. Len(doc) + 2 \in KindLine(out, "torn", p)
  <2>1. Len(block) = 2 /\ block[2] = Torn(p)
    BY <1>1
  <2>2. Torn(p).kind = "torn" /\ Torn(p).of = p
    BY DEF Torn, Line
  <2>3. Len(doc) + 2 \in DOMAIN out /\ out[Len(doc) + 2] = block[2]
    BY <1>3, <2>1 DEF AppendedAt
  <2>4. QED
    BY <2>1, <2>2, <2>3 DEF KindLine
<1>5. out \in DocType
  BY <1>2, <1>3, Concatenated DEF DocType
<1>6. IsFiniteSet(KindLine(out, "torn", p))
  <2>1. DOMAIN out = 1..Len(out) /\ Len(out) \in Nat
    BY <1>5, LenProperties DEF DocType
  <2>2. IsFiniteSet(1..Len(out)) /\ KindLine(out, "torn", p) \subseteq 1..Len(out)
    BY <2>1, FS_Interval DEF KindLine
  <2>3. QED
    BY <2>2, FS_Subset
<1>7. Count(out, "torn", p) = Cardinality(KindLine(out, "torn", p))
  BY DEF Count, KindLine
<1>8. Count(out, "torn", p) \in Nat /\ Count(out, "torn", p) # 0
  BY <1>4, <1>6, <1>7, AtMostOne
<1>9. QED
  BY <1>1, <1>2, <1>8

LEMMA ParseStep ==
    ASSUME SharedInv, AllTidy, ParseInv, [Next]_vars
    PROVE  ParseInv'
<1>1. CASE UNCHANGED vars
  BY <1>1 DEF vars, ParseInv, ParseOf
<1>2. ASSUME NEW c \in Commands, NEW r \in ProcType, Begun(c, r) PROVE ParseInv'
  <2>1. ParseOf(proc[c])'
    BY <1>2 DEF Begun, ParseOf, Editing
  <2>2. \A d \in Commands \ {c} : ParseOf(proc[d])'
    BY <1>2 DEF Begun, ParseOf, Active
  <2>3. QED
    BY <2>1, <2>2 DEF ParseInv
<1>3. ASSUME NEW c \in Commands, NEW p \in ProcType, NEW q \in ProcType,
             Running(c, p, q), Moves(c, p, q)
      PROVE  ParseInv'
  <2>1. proc'[c] = q /\ \A d \in Commands \ {c} : proc'[d] = proc[d]
    BY <1>3, RunningTo DEF SharedInv
  <2>2. /\ p = proc[c] /\ p.pc # "idle" /\ p.prof \in Profiles /\ toml \in DocType
        /\ JobOf(p) /\ ParseOf(p)
    BY <1>3, ConfigAssumption
       DEF Running, Active, SharedInv, JobsInv, JobOf, IInv, FilesOK, ParseInv
  <2>3. \A d \in Commands \ {c} : ~(proc'[d].pc # "idle" /\ proc'[d].alone)
    BY <1>3, <2>1 DEF Running, SharedInv, IInv, AloneInv, Others, Active
  <2>4. \A d \in Commands \ {c} : ParseOf(proc[d])'
    BY <2>3 DEF ParseOf
  <2>5. ParseOf(q)'
    <3> SUFFICES ASSUME q.pc # "idle", q.alone PROVE ParseOf(q)'
      BY DEF ParseOf
    <3>1. p.alone
      BY <1>3 DEF Moves, Appends, Tears, Reads, Swaps, BacksUp, Fails, Drops, Loads, Skips,
         Enters, Removes, Ends, GoesOn, SameTask
    <3>2. p.pc # "done" => Parses(toml)
      BY <2>2, <3>1 DEF ParseOf
    <3>3. /\ NewBlock(c) \in DocType
          /\ p.job = "uninstall" => NewBlock(c) = <<>>
          /\ p.job # "uninstall" => Written(NewBlock(c), p.prof)
      BY <2>2, NewBlockFresh DEF SharedInv, IInv, ProcsOK
    <3>4. CASE Appends(c, p, q)
      <4>1. Mention(toml, p.prof) = {}
        BY <2>2, <3>1, <3>4, LoadedOf DEF ParseOf, Appends
      <4>2. Parses(toml \o NewBlock(c))
        BY <2>2, <3>2, <3>3, <3>4, <4>1, ParsesAppend DEF Appends, JobOf
      <4>3. QED
        BY <3>4, <4>2 DEF Appends, ParseOf, Editing
    <3>5. CASE Tears(p, q)
      BY <2>2, <3>5, TornCount DEF Tears, ParseOf, Editing, SameTask, JobOf
    <3>6. CASE Reads(c, p, q)
      <4>1. Fresh(NewBlock(c), p.prof)
        BY <3>3 DEF Fresh
      <4>2. Contiguous(toml)
        <5>1. Sound(toml)
          BY <1>3 DEF Running, SharedInv, DocsInv, Loose
        <5>2. Tidy(toml) /\ Parses(toml)
          BY <3>2, <3>6, <5>1 DEF Sound, Reads
        <5>3. QED
          BY <2>2, <5>2, TidyContiguous
      <4>3. Parses(spliceProfileBlock(toml, p.prof, NewBlock(c)))
        BY <2>2, <3>2, <3>6, <4>1, <4>2, ParsesSplice DEF Reads
      <4>4. QED
        BY <3>2, <3>6, <4>3 DEF Reads, ParseOf, Editing
    <3>7. CASE Swaps(p, q)
      BY <2>2, <3>1, <3>7 DEF Swaps, ParseOf, Editing
    <3>8. CASE BacksUp(p, q)
      BY <2>2, <3>1, <3>8 DEF BacksUp, ParseOf, Editing, SameFiles
    <3>9. CASE \/ Fails(p, q) \/ Drops(p, q) \/ Loads(p, q) \/ Skips(p, q)
               \/ Enters(p, q) \/ Removes(p, q)
      BY <3>2, <3>9 DEF Fails, Drops, Loads, Skips, Enters, Removes, GoesOn, ParseOf, Editing
    <3>10. QED
      BY <1>3, <3>4, <3>5, <3>6, <3>7, <3>8, <3>9 DEF Moves, Ends
  <2>6. QED
    BY <2>1, <2>4, <2>5 DEF ParseInv, ParseOf
<1>4. QED
  BY <1>1, <1>2, <1>3, StepShape DEF SharedInv

\* When the documents it was started on have every profile's headers next to
\* its section, as install writes them, config.toml still parses after every
\* command that was alone, unless its append was cut short (ensureProfile,
\* editProfileBlock): for any documents, clients, commands and faults.
THEOREM ParsesStill ==
    ASSUME \A doc \in Documents : Tidy(doc)
    PROVE  Spec => []ConfigStillParses
<1>1. AllTidy
  BY DEF AllTidy
<1>2. Init => ParseInv
  BY IdleType DEF Init, ParseInv, ParseOf
<1>3. SharedInv /\ ParseInv /\ [Next]_vars => ParseInv'
  BY <1>1, ParseStep
<1>4. ParseInv => ConfigStillParses
  BY DEF ParseInv, ParseOf, ConfigStillParses, Undisturbed
<1>5. QED
  BY <1>2, <1>3, <1>4, SharedInvariance, PTL DEF Spec

-----------------------------------------------------------------------------
(* How far an uninstall that is alone has undone.                          *)

\* The entry is gone, and the profile is the one that is meant.
Dropped(p) == p.name \notin DOMAIN json.servers /\ p.prof = Meant(p)

UndoOf(p) == p.pc # "idle" /\ p.alone /\ p.job = "uninstall" =>
    /\ p.pc \in {"entry", "jsonBak", "jsonSwap", "edit"} => p.cfg = Loaded(toml)
    /\ p.pc = "entry" => p.prof = p.name
    /\ Writing(p) => p.name \notin DOMAIN p.jdata.servers
    /\ p.pc \in {"edit", "tomlBak", "tomlSwap", "tokens"} =>
         Dropped(p) /\ p.prof \in DOMAIN p.cfg
    /\ Editing(p) => p.prof \notin DOMAIN Loaded(p.data)
    /\ p.pc = "tokens" => p.prof \notin DOMAIN Loaded(toml)
    /\ p.pc = "done" /\ p.ok =>
         /\ Dropped(p) /\ p.prof \notin DOMAIN Loaded(toml)
         /\ p.prof \in DOMAIN p.cfg => p.cfg[p.prof].url \notin tokens
UndoInv == \A c \in Commands : UndoOf(proc[c])

\* Without an entry it is the profile of the given name, with one the profile
\* that the entry names.
LEMMA MeantBy ==
    ASSUME NEW p, NEW q, q.name = p.name, SameFiles(p, q)
    PROVE  /\ ~q.gone => Meant(q) = p.name
           /\ q.gone => Meant(q) = entryProfile(p)
           /\ q.gone = p.gone => Meant(q) = Meant(p)
BY DEF Meant, entryProfile, SameFiles

LEMMA UndoStep ==
    ASSUME SharedInv, AllTidy, ParseInv, UndoInv, [Next]_vars
    PROVE  UndoInv'
<1>1. CASE UNCHANGED vars
  BY <1>1 DEF vars, UndoInv, UndoOf, Dropped
<1>2. ASSUME NEW c \in Commands, NEW r \in ProcType, Begun(c, r) PROVE UndoInv'
  <2>1. UndoOf(proc[c])'
    BY <1>2 DEF Begun, UndoOf, Editing, Writing
  <2>2. \A d \in Commands \ {c} : UndoOf(proc[d])'
    BY <1>2 DEF Begun, UndoOf, Active
  <2>3. QED
    BY <2>1, <2>2 DEF UndoInv
<1>3. ASSUME NEW c \in Commands, NEW p \in ProcType, NEW q \in ProcType,
             Running(c, p, q), Moves(c, p, q)
      PROVE  UndoInv'
  <2>1. proc'[c] = q /\ \A d \in Commands \ {c} : proc'[d] = proc[d]
    BY <1>3, RunningTo DEF SharedInv
  <2>2. /\ p = proc[c] /\ p.pc # "idle" /\ p.prof \in Profiles /\ toml \in DocType
        /\ JobOf(p) /\ ParseOf(p) /\ UndoOf(p)
    BY <1>3, ConfigAssumption
       DEF Running, Active, SharedInv, JobsInv, JobOf, IInv, FilesOK, ParseInv, UndoInv
  <2>3. \A d \in Commands \ {c} : ~(proc'[d].pc # "idle" /\ proc'[d].alone)
    BY <1>3, <2>1 DEF Running, SharedInv, IInv, AloneInv, Others, Active
  <2>4. \A d \in Commands \ {c} : UndoOf(proc[d])'
    BY <2>3 DEF UndoOf
  <2>5. UndoOf(q)'
    <3> SUFFICES ASSUME q.pc # "idle", q.alone, q.job = "uninstall" PROVE UndoOf(q)'
      BY DEF UndoOf
    <3>1. p.alone /\ p.job = "uninstall"
      BY <1>3 DEF Moves, Appends, Tears, Reads, Swaps, BacksUp, Fails, Drops, Loads, Skips,
         Enters, Removes, Ends, GoesOn, SameTask
    <3>2. p.pc # "done" => Parses(toml)
      BY <2>2, <3>1 DEF ParseOf
    <3>3. CASE Appends(c, p, q) \/ Tears(p, q) \/ Enters(p, q)
      BY <2>2, <3>1, <3>3 DEF Appends, Tears, Enters, JobOf
    <3>4. CASE Reads(c, p, q)
      <4>1. PICK out : out = spliceProfileBlock(toml, p.prof, <<>>)
        OBVIOUS
      <4>2. NewBlock(c) = <<>> /\ Fresh(<<>>, p.prof) /\ <<>> \in DocType
        BY <2>2, <3>1, EmptySeq DEF NewBlock, Fresh, DocType
      <4>3. Contiguous(toml)
        <5>1. Sound(toml)
          BY <1>3 DEF Running, SharedInv, DocsInv, Loose
        <5>2. Tidy(toml) /\ Parses(toml)
          BY <3>2, <3>4, <5>1 DEF Sound, Reads
        <5>3. QED
          BY <2>2, <5>2, TidyContiguous
      <4>4. Mention(out, p.prof) = {} /\ out \in DocType
        BY <2>2, <3>2, <3>4, <4>1, <4>2, <4>3, ParsesSplice, SpliceType DEF Reads
      <4>5. p.prof \notin DOMAIN Loaded(out)
        BY <2>2, <4>4, LoadedOf
      <4>6. Meant(q) = Meant(p)
        BY <3>4 DEF Reads, SameTask, Meant
      <4>7. q.data = out /\ q.pc = "tomlBak"
        BY <3>4, <4>1, <4>2 DEF Reads
      <4>8. QED
        BY <2>2, <3>1, <3>4, <4>5, <4>6, <4>7 DEF Reads, UndoOf, Editing, Writing, Dropped, SameTask
    <3>5. CASE Swaps(p, q)
      <4>1. Meant(q) = Meant(p)
        BY <3>5, MeantBy DEF Swaps, SameTask
      <4>2. QED
        BY <2>2, <3>1, <3>5, <4>1 DEF Swaps, UndoOf, Editing, Writing, Dropped, SameTask
    <3>6. CASE BacksUp(p, q)
      <4>1. Meant(q) = Meant(p)
        BY <3>6, MeantBy DEF BacksUp, SameTask
      <4>2. QED
        BY <2>2, <3>1, <3>6, <4>1
           DEF BacksUp, UndoOf, Editing, Writing, Dropped, SameTask, SameFiles
    <3>7. CASE Fails(p, q)
      BY <3>7 DEF Fails, UndoOf, Editing, Writing
    <3>8. CASE Drops(p, q)
      <4>1. Meant(q) = Meant(p)
        BY <3>8, MeantBy DEF Drops, SameTask
      <4>2. QED
        BY <2>2, <3>1, <3>8, <4>1 DEF Drops, UndoOf, Editing, Writing, Dropped, SameTask
    <3>9. CASE Loads(p, q)
      <4>1. \A servers : JSON("whole", servers).servers = servers
        BY DEF JSON
      <4>2. p.name \notin DOMAIN Without(json.servers, p.name)
        BY DEF Without
      <4>3. QED
        BY <2>2, <3>1, <3>9, <4>1, <4>2 DEF Loads, UndoOf, Editing, Writing, SameTask
    <3>10. CASE Skips(p, q)
      <4>1. Meant(q) = p.name
        BY <3>10, MeantBy DEF Skips, GoesOn
      <4>2. QED
        BY <2>2, <3>1, <3>10, <4>1 DEF Skips, GoesOn, UndoOf, Editing, Writing, Dropped
    <3>11. CASE Removes(p, q)
      <4>1. Meant(q) = entryProfile(p)
        BY <3>11, MeantBy DEF Removes, GoesOn
      <4>2. QED
        BY <2>2, <3>1, <3>11, <4>1 DEF Removes, GoesOn, UndoOf, Editing, Writing, Dropped
    <3>12. QED
      BY <1>3, <3>3, <3>4, <3>5, <3>6, <3>7, <3>8, <3>9, <3>10, <3>11 DEF Moves, Ends
  <2>6. QED
    BY <2>1, <2>4, <2>5 DEF UndoInv, UndoOf, Dropped
<1>4. QED
  BY <1>1, <1>2, <1>3, StepShape DEF SharedInv

\* Uninstall is the full undo (Uninstall, editProfileBlock, Flow.Forget): when
\* one that was alone reports success, the entry, the profile that it named and
\* the tokens of its endpoint are gone, whatever the commands before it were
\* and wherever they were killed, for any client's file and any documents with
\* every profile's headers next to its section, as install writes them.
THEOREM UndoesAll ==
    ASSUME \A doc \in Documents : Tidy(doc)
    PROVE  Spec => []UndoComplete
<1>1. AllTidy
  BY DEF AllTidy
<1>2. Init => ParseInv /\ UndoInv
  BY IdleType DEF Init, ParseInv, ParseOf, UndoInv, UndoOf
<1>3. SharedInv /\ ParseInv /\ UndoInv /\ [Next]_vars => ParseInv' /\ UndoInv'
  BY <1>1, ParseStep, UndoStep
<1>4. UndoInv => UndoComplete
  <2>1. ASSUME UndoInv, NEW c \in Commands, proc[c].pc = "done", proc[c].alone,
               proc[c].ok, proc[c].job = "uninstall"
        PROVE  /\ Dropped(proc[c]) /\ proc[c].prof \notin DOMAIN Loaded(toml)
               /\ proc[c].prof \in DOMAIN proc[c].cfg =>
                    proc[c].cfg[proc[c].prof].url \notin tokens
    BY <2>1 DEF UndoInv, UndoOf
  <2>2. QED
    BY <2>1 DEF UndoComplete, Undisturbed, Dropped
<1>5. QED
  BY <1>2, <1>3, <1>4, SharedInvariance, PTL DEF Spec

-----------------------------------------------------------------------------
(* What an edit keeps and replaces, on every document a command can leave. *)

LEMMA BlocksFresh ==
    ASSUME NEW p \in Names, NEW block \in {<<>>} \cup Blocks(p)
    PROVE  p \in Profiles /\ Fresh(block, p)
<1>1. p \in Profiles
  BY ConfigAssumption
<1>2. ASSUME NEW written \in Blocks(p) PROVE Fresh(written, p)
  <2>1. PICK u \in URLs, h \in BOOLEAN : written = Block(p, [url |-> u, headers |-> h])
    BY DEF Blocks
  <2>2. [url |-> u, headers |-> h] \in ProfType
    BY DEF ProfType
  <2>3. QED
    BY <1>1, <2>1, <2>2, BlockWritten DEF Fresh
<1>3. Fresh(<<>>, p)
  BY DEF Fresh
<1>4. QED
  BY <1>1, <1>2, <1>3

\* A splice leaves the tables, keys and comments of everybody else alone
\* (tomledit.go: spliceProfileBlock), in any document that parses, tidy or not,
\* on which commands have run in any order.
THEOREM EditsKeepOthers == Spec => []SpliceKeepsOthers
<1>1. SharedInv => SpliceKeepsOthers
  <2>1. ASSUME SharedInv, Parses(toml), NEW p \in Names, HasSection(toml, p),
               NEW block \in {<<>>} \cup Blocks(p)
        PROVE  LinesBeside(Edit(p, block), {p}) = LinesBeside(toml, {p})
    <3>1. toml \in DocType /\ Rooted(toml)
      BY <2>1 DEF SharedInv, IInv, FilesOK, DocsInv
    <3>2. p \in Profiles /\ Fresh(block, p) /\ p \in {p}
      BY BlocksFresh
    <3>3. \A i \in DOMAIN toml : toml[i].kind = "torn" => toml[i].of \in {p}
      BY <2>1, <3>1, NoneTorn
    <3>4. QED
      BY <2>1, <3>1, <3>2, <3>3, SpliceBeside DEF Edit
  <2>2. QED
    BY <2>1 DEF SpliceKeepsOthers, Edits, Resting
<1>2. QED
  BY <1>1, SharedInvariance, PTL

\* Of the profile itself exactly the new block is left, in the place of the old
\* one, and the document still parses, with the tables of every profile still
\* together when they were (tomledit.go: spliceProfileBlock).
THEOREM EditsReplace == Spec => []SpliceReplaces
<1>1. IInv => SpliceReplaces
  <2>1. ASSUME IInv, Parses(toml), Contiguous(toml), NEW p \in Names, HasSection(toml, p),
               NEW block \in {<<>>} \cup Blocks(p)
        PROVE  /\ LinesOf(Edit(p, block), p) = LinesOf(block, p)
               /\ Parses(Edit(p, block)) /\ Contiguous(Edit(p, block))
               /\ block # <<>> /\ Count(toml, "section", p) = 1 =>
                    Order(Edit(p, block)) = Order(toml)
    <3>1. toml \in DocType
      BY <2>1 DEF IInv, FilesOK
    <3>2. p \in Profiles /\ Fresh(block, p)
      BY BlocksFresh
    <3>3. QED
      BY <2>1, <3>1, <3>2, SpliceFull DEF Edit
  <2>2. QED
    BY <2>1 DEF SpliceReplaces, Edits, Resting
<1>2. QED
  BY <1>1, Invariance, PTL

-----------------------------------------------------------------------------
(* What belongs to nobody who runs a command.                              *)

\* Other servers' entries are the same in both.
SameForeign(s, t) ==
    \A n : n \notin Names =>
        (n \in DOMAIN s <=> n \in DOMAIN t) /\ (n \in DOMAIN s => s[n] = t[n])

\* What a command is about to write has it all.
FirmOf(p) ==
    /\ Editing(p) => SettingsBeside(p.data, Names) = SettingsBeside(toml, Names)
    /\ Writing(p) => json.kind # "broken" /\ SameForeign(p.jdata.servers, json.servers)
FirmInv == \A c \in Commands : FirmOf(proc[c])

\* What a step leaves of it.
OthersKept ==
    /\ SettingsBeside(toml', Names) = SettingsBeside(toml, Names)
    /\ SameForeign(json'.servers, json.servers)
    /\ IF json.kind = "broken" THEN json' = json ELSE json'.kind # "broken"

LEMMA SameEntries ==
    ASSUME NEW s, NEW n \in Names, NEW p
    PROVE  SameForeign(s, s) /\ SameForeign(With(s, n, p), s) /\ SameForeign(Without(s, n), s)
BY DEF SameForeign, With, Without

\* Whatever a step keeps, it keeps for those who do not take it.
LEMMA FirmStays ==
    ASSUME OthersKept, NEW p, FirmOf(p)
    PROVE  FirmOf(p)'
<1>1. Editing(p) => SettingsBeside(p.data, Names) = SettingsBeside(toml', Names)
  BY DEF OthersKept, FirmOf
<1>2. Writing(p) => json'.kind # "broken" /\ SameForeign(p.jdata.servers, json'.servers)
  BY DEF OthersKept, FirmOf, SameForeign
<1>3. QED
  BY <1>1, <1>2 DEF FirmOf, Editing, Writing, SameForeign

LEMMA FirmStep ==
    ASSUME SharedInv, FirmInv, [Next]_vars
    PROVE  OthersKept /\ FirmInv'
<1>0. toml' = toml /\ json' = json => OthersKept
  BY DEF OthersKept, SameForeign
<1>1. CASE UNCHANGED vars
  <2>1. toml' = toml /\ json' = json /\ proc' = proc
    BY <1>1 DEF vars
  <2>2. QED
    BY <1>0, <2>1, FirmStays DEF FirmInv
<1>2. ASSUME NEW c \in Commands, NEW r \in ProcType, Begun(c, r) PROVE OthersKept /\ FirmInv'
  <2>1. toml' = toml /\ json' = json
    BY <1>2 DEF Begun
  <2>2. FirmOf(proc[c])'
    BY <1>2 DEF Begun, FirmOf, Editing, Writing
  <2>3. \A d \in Commands \ {c} : FirmOf(proc[d])'
    BY <1>2, <2>1 DEF Begun, FirmInv, FirmOf, Editing, Writing, SameFiles, SameForeign
  <2>4. QED
    BY <1>0, <2>1, <2>2, <2>3 DEF FirmInv
<1>3. ASSUME NEW c \in Commands, NEW p \in ProcType, NEW q \in ProcType,
             Running(c, p, q), Moves(c, p, q)
      PROVE  OthersKept /\ FirmInv'
  <2>1. proc'[c] = q /\ \A d \in Commands \ {c} : proc'[d] = proc[d]
    BY <1>3, RunningTo DEF SharedInv
  <2>2. /\ p = proc[c] /\ p.pc # "idle" /\ p.prof \in Names /\ p.prof \in Profiles
        /\ p.name \in Names /\ toml \in DocType /\ JobOf(p) /\ TaskOf(p) /\ FirmOf(p)
    BY <1>3, ConfigAssumption
       DEF Running, Active, SharedInv, JobsInv, JobOf, TaskOf, IInv, FilesOK, FirmInv
  <2>3. Rooted(toml) /\ \A i \in DOMAIN toml : toml[i].kind = "torn" => toml[i].of \in Names
    BY <1>3 DEF Running, SharedInv, DocsInv, Loose, Sound
  <2>4. /\ NewBlock(c) \in DocType
        /\ p.job = "uninstall" => NewBlock(c) = <<>>
        /\ p.job # "uninstall" => Written(NewBlock(c), p.prof)
    BY <2>2, NewBlockFresh DEF SharedInv, IInv, ProcsOK
  <2>5. OthersKept /\ FirmOf(q)'
    <3>1. ASSUME NEW block, Suffix(block, p.prof), toml' = toml \o block, json' = json,
                 q.pc \in {"entry", "done"}
          PROVE  OthersKept /\ FirmOf(q)'
      <4>1. SettingsBeside(toml', Names) = SettingsBeside(toml, Names)
        BY <2>2, <3>1, AppendBeside
      <4>2. QED
        BY <3>1, <4>1 DEF OthersKept, SameForeign, FirmOf, Editing, Writing
    <3>2. CASE Appends(c, p, q)
      BY <2>2, <2>4, <3>1, <3>2 DEF Appends, JobOf, Suffix
    <3>3. CASE Tears(p, q)
      BY <3>1, <3>3 DEF Tears, Suffix
    <3>4. CASE Reads(c, p, q)
      <4>1. Fresh(NewBlock(c), p.prof)
        BY <2>4 DEF Fresh
      <4>2. SettingsBeside(q.data, Names) = SettingsBeside(toml, Names)
        BY <2>2, <2>3, <3>4, <4>1, SpliceBeside DEF Reads
      <4>3. QED
        BY <1>0, <3>4, <4>2 DEF Reads, FirmOf, Editing, Writing
    <3>5. CASE Swaps(p, q)
      BY <2>2, <3>5 DEF Swaps, OthersKept, SameForeign, FirmOf, Editing, Writing
    <3>6. CASE BacksUp(p, q)
      BY <1>0, <2>2, <3>6 DEF BacksUp, FirmOf, Editing, Writing, SameFiles, SameForeign
    <3>7. CASE Loads(p, q)
      <4>1. \A servers : JSON("whole", servers).servers = servers
        BY DEF JSON
      <4>2. /\ SameForeign(With(json.servers, p.name, p.prof), json.servers)
            /\ SameForeign(Without(json.servers, p.name), json.servers)
        BY <2>2, SameEntries
      <4>3. \/ q.jdata.servers = With(json.servers, p.name, p.prof)
            \/ q.jdata.servers = Without(json.servers, p.name)
        BY <3>7, <4>1 DEF Loads
      <4>4. SameForeign(q.jdata.servers, json.servers)
        BY <4>2, <4>3
      <4>5. json.kind # "broken" /\ json' = json /\ toml' = toml
        BY <3>7 DEF Loads, Readable
      <4>6. QED
        BY <1>0, <3>7, <4>4, <4>5 DEF Loads, FirmOf, Editing, Writing, SameForeign
    <3>8. CASE Enters(p, q) \/ Removes(p, q)
      <4>1. /\ json' = p.jdata /\ toml' = toml /\ Writing(p)
            /\ ~Editing(q) /\ ~Writing(q) /\ p.jdata.kind = "whole"
        BY <2>2, <3>8 DEF Enters, Removes, GoesOn, Editing, Writing, TaskOf
      <4>2. OthersKept
        BY <2>2, <4>1 DEF OthersKept, FirmOf
      <4>3. QED
        BY <4>1, <4>2 DEF FirmOf, Editing, Writing
    <3>9. CASE Fails(p, q) \/ Drops(p, q) \/ Skips(p, q) \/ Ends(q)
      BY <1>0, <3>9 DEF Fails, Drops, Skips, Ends, GoesOn, FirmOf, Editing, Writing
    <3>10. QED
      BY <1>3, <3>2, <3>3, <3>4, <3>5, <3>6, <3>7, <3>8, <3>9 DEF Moves
  <2>6. \A d \in Commands \ {c} : FirmOf(proc[d])'
    <3>1. \A d \in Commands \ {c} : FirmOf(proc[d])
      BY DEF FirmInv
    <3>2. ASSUME NEW d \in Commands \ {c} PROVE FirmOf(proc[d])'
      <4>1. PICK o : o = proc[d] /\ o = proc'[d]
        BY <2>1
      <4>2. FirmOf(o)
        BY <3>1, <4>1
      <4>3. FirmOf(o)'
        BY <2>5, <4>2, FirmStays
      <4>4. QED
        BY <4>1, <4>3 DEF FirmOf, Editing, Writing, SameForeign
    <3>3. QED
      BY <3>2
  <2>7. QED
    BY <2>1, <2>5, <2>6 DEF FirmInv, FirmOf
<1>4. QED
  BY <1>1, <1>2, <1>3, StepShape DEF SharedInv

\* However many commands overlap and wherever they are killed, the tables and
\* keys of config.toml that are not of a profile they name stay, in their order,
\* and so do the client's other servers; a client's file that is not valid JSON
\* stays as it is (editProfileBlock, appendProfile, upsertServerEntry,
\* removeServerEntry, loadClientConfig). No document has to be tidy for that.
THEOREM OthersFirm == Spec => [][OthersKept]_vars
<1>1. Init => FirmInv
  BY IdleType DEF Init, FirmInv, FirmOf, Editing, Writing
<1>2. SharedInv /\ FirmInv /\ [Next]_vars => OthersKept /\ FirmInv'
  BY FirmStep
<1>3. QED
  BY <1>1, <1>2, SharedInvariance, PTL DEF Spec

-----------------------------------------------------------------------------
(* The comments, which only a command that is alone can be sure to keep.   *)

CommentOf(p) == p.pc # "idle" /\ p.alone /\ Editing(p) =>
    LinesBeside(p.data, Names) = LinesBeside(toml, Names)
CommentInv == \A c \in Commands : CommentOf(proc[c])

\* What a step leaves of them while a command is alone.
CommentsKept ==
    (\E c \in Commands : Active(c) /\ proc[c].alone) /\ Parses(toml') =>
        LinesBeside(toml', Names) = LinesBeside(toml, Names)

LEMMA CommentStep ==
    ASSUME SharedInv, AllTidy, ParseInv, CommentInv, [Next]_vars
    PROVE  CommentsKept /\ CommentInv'
<1>1. CASE UNCHANGED vars
  BY <1>1 DEF vars, CommentInv, CommentOf, CommentsKept
<1>2. ASSUME NEW c \in Commands, NEW r \in ProcType, Begun(c, r)
      PROVE  CommentsKept /\ CommentInv'
  <2>1. CommentOf(proc[c])'
    BY <1>2 DEF Begun, CommentOf, Editing
  <2>2. \A d \in Commands \ {c} : CommentOf(proc[d])'
    BY <1>2 DEF Begun, CommentOf, Active
  <2>3. CommentsKept
    BY <1>2 DEF Begun, CommentsKept
  <2>4. QED
    BY <2>1, <2>2, <2>3 DEF CommentInv
<1>3. ASSUME NEW c \in Commands, NEW p \in ProcType, NEW q \in ProcType,
             Running(c, p, q), Moves(c, p, q)
      PROVE  CommentsKept /\ CommentInv'
  <2>1. proc'[c] = q /\ \A d \in Commands \ {c} : proc'[d] = proc[d]
    BY <1>3, RunningTo DEF SharedInv
  <2>2. /\ p = proc[c] /\ p.pc # "idle" /\ p.prof \in Names /\ p.prof \in Profiles
        /\ toml \in DocType /\ JobOf(p) /\ ParseOf(p) /\ CommentOf(p)
    BY <1>3, ConfigAssumption
       DEF Running, Active, SharedInv, JobsInv, JobOf, IInv, FilesOK, ParseInv, CommentInv
  <2>3. \A d \in Commands \ {c} : ~(proc[d].pc # "idle" /\ proc[d].alone)
    BY <1>3 DEF Running, SharedInv, IInv, AloneInv, Others, Active
  <2>4. \A d \in Commands \ {c} : CommentOf(proc[d])'
    BY <2>1, <2>3 DEF CommentOf
  <2>5. Sound(toml)
    BY <1>3 DEF Running, SharedInv, DocsInv, Loose
  <2>6. Rooted(toml) /\ \A i \in DOMAIN toml : toml[i].kind = "torn" => toml[i].of \in Names
    BY <2>5 DEF Sound
  <2>7. /\ NewBlock(c) \in DocType
        /\ p.job = "uninstall" => NewBlock(c) = <<>>
        /\ p.job # "uninstall" => Written(NewBlock(c), p.prof)
    BY <2>2, NewBlockFresh DEF SharedInv, IInv, ProcsOK
  <2>8. p.alone /\ p.pc # "done" => Parses(toml)
    BY <2>2 DEF ParseOf
  <2>9. ASSUME p.alone, Parses(toml')
        PROVE  LinesBeside(toml', Names) = LinesBeside(toml, Names)
    <3>1. CASE Appends(c, p, q)
      <4>1. Mention(toml, p.prof) = {}
        BY <2>2, <2>9, <3>1, LoadedOf DEF ParseOf, Appends
      <4>2. Written(NewBlock(c), p.prof) /\ Suffix(NewBlock(c), p.prof)
        BY <2>2, <2>7, <3>1 DEF Appends, JobOf, Suffix
      <4>3. QED
        BY <2>2, <3>1, <4>1, <4>2, AppendBeside DEF Appends
    <3>2. CASE Tears(p, q)
      <4>1. Count(toml', "torn", p.prof) > 0 /\ Count(toml', "torn", p.prof) = 0
        BY <2>2, <2>9, <3>2, TornCount DEF Tears, Parses
      <4>2. QED
        BY <4>1
    <3>3. CASE Swaps(p, q)
      BY <2>2, <2>9, <3>3 DEF Swaps, CommentOf, Editing
    <3>4. CASE \/ Reads(c, p, q) \/ BacksUp(p, q) \/ Fails(p, q) \/ Drops(p, q) \/ Loads(p, q)
               \/ Skips(p, q) \/ Enters(p, q) \/ Removes(p, q) \/ Ends(q)
      BY <3>4 DEF Reads, BacksUp, Fails, Drops, Loads, Skips, Enters, Removes, Ends
    <3>5. QED
      BY <1>3, <3>1, <3>2, <3>3, <3>4 DEF Moves
  <2>10. CommentsKept
    BY <2>2, <2>3, <2>9 DEF CommentsKept, Active
  <2>11. CommentOf(q)'
    <3> SUFFICES ASSUME q.pc # "idle", q.alone, Editing(q)
                 PROVE  LinesBeside(q.data, Names) = LinesBeside(toml', Names)
      BY DEF CommentOf, Editing
    <3>1. CASE Reads(c, p, q)
      <4>1. p.alone /\ Parses(toml)
        BY <2>8, <3>1 DEF Reads, SameTask
      <4>2. Contiguous(toml)
        BY <2>2, <2>5, <4>1, TidyContiguous DEF Sound
      <4>3. Fresh(NewBlock(c), p.prof)
        BY <2>7 DEF Fresh
      <4>4. LinesBeside(q.data, Names) = LinesBeside(toml, Names)
        BY <2>2, <2>6, <3>1, <4>2, <4>3, SpliceBeside DEF Reads
      <4>5. QED
        BY <3>1, <4>4 DEF Reads
    <3>2. CASE BacksUp(p, q)
      BY <2>2, <3>2 DEF BacksUp, CommentOf, Editing, SameTask, SameFiles
    <3>3. QED
      BY <1>3, <3>1, <3>2 DEF Moves, Appends, Tears, Swaps, Fails, Drops, Loads, Skips,
         Enters, Removes, Ends, GoesOn, Editing
  <2>12. QED
    BY <2>1, <2>4, <2>10, <2>11 DEF CommentInv, CommentOf
<1>4. QED
  BY <1>1, <1>2, <1>3, StepShape DEF SharedInv

\* What belongs to nobody who runs a command is never lost, and a command that
\* has the files to itself keeps the comments too (editProfileBlock,
\* appendProfile, upsertServerEntry, removeServerEntry), when the documents it
\* was started on have every profile's headers next to its section.
THEOREM OthersStay ==
    ASSUME \A doc \in Documents : Tidy(doc)
    PROVE  Spec => OthersUntouched
<1>1. AllTidy
  BY DEF AllTidy
<1>2. Init => ParseInv /\ CommentInv
  BY IdleType DEF Init, ParseInv, ParseOf, CommentInv, CommentOf
<1>3. SharedInv /\ ParseInv /\ CommentInv /\ [Next]_vars =>
        CommentsKept /\ ParseInv' /\ CommentInv'
  BY <1>1, ParseStep, CommentStep
<1> DEFINE Body ==
      /\ SettingsBeside(toml', Names) = SettingsBeside(toml, Names)
      /\ (\E c \in Commands : Active(c) /\ proc[c].alone) /\ Parses(toml') =>
           LinesBeside(toml', Names) = LinesBeside(toml, Names)
      /\ \A n \in DOMAIN json.servers \ Names :
           n \in DOMAIN json'.servers /\ json'.servers[n] = json.servers[n]
      /\ json.kind = "broken" => json' = json
<1>4. OthersKept /\ CommentsKept => Body
  BY DEF OthersKept, CommentsKept, SameForeign
<1>5. [][OthersKept]_vars /\ [][CommentsKept]_vars => [][Body]_vars
  <2>1. [OthersKept]_vars /\ [CommentsKept]_vars => [Body]_vars
    BY <1>4
  <2> HIDE DEF Body
  <2>2. QED
    BY <2>1, PTL
<1>6. Spec => [][CommentsKept]_vars
  BY <1>2, <1>3, SharedInvariance, PTL DEF Spec
<1>7. QED
  BY <1>5, <1>6, OthersFirm, PTL DEF OthersUntouched
=============================================================================

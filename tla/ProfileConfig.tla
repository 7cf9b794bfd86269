---------------------------- MODULE ProfileConfig ----------------------------
(***************************************************************************)
(* pkg/app/install.go: `mcpurl install` and `mcpurl uninstall` on the two  *)
(* configuration files, config.toml (a document of TomlSplice) and an MCP  *)
(* client's JSON (the profile that every server entry names). No lock is   *)
(* taken: every read, backup and replacement is a step of its own, and a   *)
(* process can be killed before each.                                      *)
(***************************************************************************)
EXTENDS TomlSplice

CONSTANTS
    Commands,   \* processes that run install or uninstall
    Names,      \* the profiles and entries that commands name
    URLs,       \* the endpoints that install is given
    Documents,  \* the initial contents of config.toml
    Clients,    \* the initial contents of the client's JSON
    Samples,    \* documents that no command runs on, to check the editor alone
    Faults,     \* a subset of FaultKinds
    MaxRuns     \* no command starts once this many have

FaultKinds == {"crash",  \* a command is killed
               "short"}  \* an append is cut short: disk full, power loss

Named == Profiles \cup {NoProfile}
LineType ==
    {line \in [kind : LineKinds, of : Named, url : URLs \cup {""}] :
        line.kind \in Naming <=> line.of # NoProfile}
DocType == Seq(LineType)

\* mcpServers: the profile that each entry names, or none.
ServersType == UNION {[D -> Named] : D \in SUBSET Profiles}
FileType == [kind : {"none", "broken", "torn", "whole"}, servers : ServersType]

\* Entries that commands name refer to profiles that commands name.
Closed(servers) ==
    \A n \in Names \cap DOMAIN servers : servers[n] \in Names \cup {NoProfile}

ASSUME ConfigAssumption ==
    /\ Names \subseteq Profiles /\ NoProfile \notin Profiles
    /\ "" \notin URLs
    /\ Documents \cup Samples \subseteq DocType
    /\ \A doc \in Documents : Parses(doc)
    /\ \A doc \in Documents \cup Samples : Rooted(doc)
    /\ Clients \subseteq {file \in FileType : file.kind # "torn" /\ Closed(file.servers)}
    /\ Faults \subseteq FaultKinds /\ MaxRuns \in Nat

VARIABLES
    toml,     \* config.toml; a missing file is an empty one
    tomlBak,  \* config.toml.bak
    json,     \* the client's config: its kind and its mcpServers
    jsonBak,  \* its .bak
    tokens,   \* endpoints that have stored tokens
    proc,     \* per command: its place in the code and what it has read
    runs      \* commands started

vars == <<toml, tomlBak, json, jsonBak, tokens, proc, runs>>

\* A file of kind "none" is missing, one of kind "torn" is partly written.
NoServers == [p \in {} |-> NoProfile]
JSON(kind, servers) == [kind |-> kind, servers |-> servers]

\* Config.Profiles as Load reads it.
Loaded(doc) ==
    LET Mentions(p) == {i \in DOMAIN doc : doc[i].of = p}
        Main(p) == {i \in Mentions(p) : doc[i].kind \in {"section", "inline"}}
    IN  [p \in {q \in Profiles : Mentions(q) # {}} |->
            [url |-> IF Main(p) = {} THEN "" ELSE doc[Min(Main(p))].url,
             headers |-> Count(doc, "headers", p) > 0]]

\* profileTOML
Block(p, prof) ==
    <<Blank, Section(p, prof.url)>>
        \o (IF prof.headers THEN <<Blank, Headers(p)>> ELSE <<>>)

\* Mutant: the settings of the command replace all that was stored.
Mut_mergeProfile(old, url) == [url |-> url, headers |-> FALSE]

\* mergeProfile: the settings that install was not given survive.
mergeProfile(old, url) == [old EXCEPT !.url = url]

Idle == [pc |-> "idle", job |-> "install", name |-> NoProfile, prof |-> NoProfile,
         url |-> "", cfg |-> Loaded(<<>>), gone |-> FALSE, ok |-> FALSE, alone |-> TRUE,
         read |-> <<>>, data |-> <<>>, jread |-> JSON("none", NoServers),
         jdata |-> JSON("none", NoServers)]

ProfType == [url : URLs \cup {""}, headers : BOOLEAN]
ConfigType == UNION {[D -> ProfType] : D \in SUBSET Profiles}

Places == {"idle", "append", "edit", "tomlBak", "tomlSwap",
           "entry", "jsonBak", "jsonSwap", "tokens", "done"}
ProcType ==
    [pc : Places, job : {"install", "uninstall"}, name : Named, prof : Named,
     url : URLs \cup {""}, cfg : ConfigType, gone : BOOLEAN, ok : BOOLEAN,
     alone : BOOLEAN, read : DocType, data : DocType, jread : FileType, jdata : FileType]

TypeOK ==
    /\ toml \in DocType
    /\ tomlBak \in [kind : {"none", "torn", "whole"}, doc : DocType]
    /\ json \in FileType /\ json.kind # "torn"
    /\ jsonBak \in FileType
    /\ tokens \subseteq URLs
    /\ proc \in [Commands -> ProcType]
    /\ runs \in 0..MaxRuns

Init ==
    /\ \/ toml \in Documents /\ json \in Clients /\ runs = 0
       \/ toml \in Samples /\ json = JSON("none", NoServers) /\ runs = MaxRuns
    /\ tomlBak = [kind |-> "none", doc |-> <<>>] /\ jsonBak = JSON("none", NoServers)
    /\ tokens = URLs
    /\ proc = [c \in Commands |-> Idle]

Goto(c, pc) == proc' = [proc EXCEPT ![c].pc = pc]
Return(c, ok) == proc' = [proc EXCEPT ![c].pc = "done", ![c].ok = ok]

Active(c) == proc[c].pc # "idle"
Others(c) == {d \in Commands \ {c} : Active(d)}

-----------------------------------------------------------------------------
(* app.New loads config.toml and ends a command when it does not parse.    *)

Start(c, p) ==
    /\ runs < MaxRuns /\ ~Active(c) /\ Parses(toml)
    /\ proc' = [d \in Commands |->
                  IF d = c THEN [p EXCEPT !.cfg = Loaded(toml), !.alone = Others(c) = {}]
                  ELSE IF Active(d) THEN [proc[d] EXCEPT !.alone = FALSE] ELSE proc[d]]
    /\ runs' = runs + 1
    /\ UNCHANGED <<toml, tomlBak, json, jsonBak, tokens>>

\* Install with a URL and a name: ensureProfile decides by what New has read.
InstallURL(c) == \E n \in Names, u \in URLs :
    LET cfg == Loaded(toml)
        same == n \in DOMAIN cfg /\ mergeProfile(cfg[n], u) = cfg[n]
    IN  Start(c, [Idle EXCEPT !.pc = IF same THEN "entry"
                                     ELSE IF n \in DOMAIN cfg THEN "edit" ELSE "append",
                              !.name = n, !.prof = n, !.url = u])

\* Install of a stored profile, under its own or another name.
InstallProfile(c) == \E n \in Names, p \in DOMAIN Loaded(toml) \cap Names :
    /\ Loaded(toml)[p].url # ""
    /\ Start(c, [Idle EXCEPT !.pc = "entry", !.name = n, !.prof = p,
                             !.url = Loaded(toml)[p].url])

Uninstall(c) == \E n \in Names :
    Start(c, [Idle EXCEPT !.pc = "entry", !.job = "uninstall", !.name = n, !.prof = n])

-----------------------------------------------------------------------------
(* config.toml                                                             *)

\* The profile that ensureProfile writes.
Desired(c) ==
    LET p == proc[c] IN
    IF p.prof \in DOMAIN p.cfg THEN mergeProfile(p.cfg[p.prof], p.url)
    ELSE [url |-> p.url, headers |-> FALSE]

\* What takes the place of the profile's block.
NewBlock(c) ==
    IF proc[c].job = "uninstall" THEN <<>> ELSE Block(proc[c].prof, Desired(c))

\* appendProfile writes in place.
AppendProfile(c) ==
    /\ proc[c].pc = "append"
    /\ \/ toml' = toml \o NewBlock(c) /\ Goto(c, "entry")
       \/ /\ "short" \in Faults
          /\ toml' = toml \o <<Blank, Torn(proc[c].prof)>>
          /\ Return(c, FALSE)
    /\ UNCHANGED <<tomlBak, json, jsonBak, tokens, runs>>

\* editProfileBlock reads the file anew.
ReadToml(c) ==
    /\ proc[c].pc = "edit"
    /\ IF HasSection(toml, proc[c].prof)
       THEN proc' = [proc EXCEPT ![c].pc = "tomlBak", ![c].read = toml,
                        ![c].data = spliceProfileBlock(toml, proc[c].prof, NewBlock(c))]
       ELSE Return(c, FALSE)
    /\ UNCHANGED <<toml, tomlBak, json, jsonBak, tokens, runs>>

\* Mutant: the backup is what replaces the file.
Mut_BackupToml(c) ==
    /\ proc[c].pc = "tomlBak"
    /\ tomlBak' = [kind |-> "whole", doc |-> proc[c].data]
    /\ Goto(c, "tomlSwap")
    /\ UNCHANGED <<toml, json, jsonBak, tokens, runs>>

\* replaceConfig: a .bak of what was read, then an atomic replacement.
BackupToml(c) ==
    /\ proc[c].pc = "tomlBak"
    /\ tomlBak' = [kind |-> "whole", doc |-> proc[c].read]
    /\ Goto(c, "tomlSwap")
    /\ UNCHANGED <<toml, json, jsonBak, tokens, runs>>

SwapToml(c) ==
    /\ proc[c].pc = "tomlSwap"
    /\ toml' = proc[c].data
    /\ Goto(c, IF proc[c].job = "install" THEN "entry" ELSE "tokens")
    /\ UNCHANGED <<tomlBak, json, jsonBak, tokens, runs>>

\* Uninstall drops the tokens once the profile is gone (Flow.Forget, see
\* ClientRegistration).
DropTokens(c) ==
    /\ proc[c].pc = "tokens"
    /\ tokens' = tokens \ {proc[c].cfg[proc[c].prof].url}
    /\ Return(c, TRUE)
    /\ UNCHANGED <<toml, tomlBak, json, jsonBak, runs>>

-----------------------------------------------------------------------------
(* The client's JSON                                                       *)

\* Mutant: a broken file is taken for an empty one.
Mut_Readable(file) == file.kind \in {"none", "whole", "broken"}

\* loadClientConfig refuses a file that is not valid JSON.
Readable(file) == file.kind \in {"none", "whole"}

\* mcpServers.<name> set; every other entry as it was read.
With(servers, n, p) ==
    [m \in DOMAIN servers \cup {n} |-> IF m = n THEN p ELSE servers[m]]
Without(servers, n) == [m \in DOMAIN servers \ {n} |-> servers[m]]

\* Where uninstall goes from the client's entry: the profile is dropped when
\* New has seen it, and only an empty result is an error.
AfterEntry(p, gone, prof) ==
    [p EXCEPT !.prof = prof, !.gone = gone, !.ok = gone,
              !.pc = IF prof \in DOMAIN p.cfg THEN "edit" ELSE "done"]

\* upsertServerEntry, removeServerEntry: there is no backup of a missing file.
LoadJSON(c) ==
    LET p == proc[c]
        found == p.name \in DOMAIN json.servers
        Edited(servers) == [p EXCEPT !.jread = json, !.jdata = JSON("whole", servers),
                              !.pc = IF json.kind = "none" THEN "jsonSwap" ELSE "jsonBak"]
    IN
    /\ p.pc = "entry"
    /\ \/ ~Readable(json) /\ Return(c, FALSE)
       \/ /\ Readable(json) /\ p.job = "install"
          /\ proc' = [proc EXCEPT ![c] = Edited(With(json.servers, p.name, p.prof))]
       \/ /\ Readable(json) /\ p.job = "uninstall" /\ found
          /\ proc' = [proc EXCEPT ![c] = Edited(Without(json.servers, p.name))]
       \/ /\ Readable(json) /\ p.job = "uninstall" /\ ~found
          /\ proc' = [proc EXCEPT ![c] = AfterEntry(p, FALSE, p.name)]
    /\ UNCHANGED <<toml, tomlBak, json, jsonBak, tokens, runs>>

BackupJSON(c) ==
    /\ proc[c].pc = "jsonBak"
    /\ jsonBak' = proc[c].jread
    /\ Goto(c, "jsonSwap")
    /\ UNCHANGED <<toml, tomlBak, json, tokens, runs>>

\* Mutant: the entry's own name is taken for its profile.
Mut_entryProfile(p) == p.name

\* The profile that an entry names, the entry's own name when it names none.
entryProfile(p) ==
    LET ref == p.jread.servers[p.name] IN IF ref = NoProfile THEN p.name ELSE ref

SwapJSON(c) ==
    LET p == proc[c] IN
    /\ p.pc = "jsonSwap"
    /\ json' = p.jdata
    /\ IF p.job = "install" THEN Return(c, TRUE)
       ELSE proc' = [proc EXCEPT ![c] = AfterEntry(p, TRUE, entryProfile(p))]
    /\ UNCHANGED <<toml, tomlBak, jsonBak, tokens, runs>>

-----------------------------------------------------------------------------
Exit(c) ==
    /\ proc[c].pc = "done"
    /\ proc' = [proc EXCEPT ![c] = Idle]
    /\ UNCHANGED <<toml, tomlBak, json, jsonBak, tokens, runs>>

\* Mutant: the client's JSON is replaced in place.
Mut_Crash(c) ==
    /\ "crash" \in Faults /\ Active(c)
    /\ proc' = [proc EXCEPT ![c] = Idle]
    /\ json' \in {json} \cup
         IF proc[c].pc = "jsonSwap" THEN {JSON("torn", NoServers)} ELSE {}
    /\ UNCHANGED <<toml, tomlBak, jsonBak, tokens, runs>>

\* os.WriteFile truncates the backup first: a kill can leave a part of it. A
\* kill inside atomicfile.Write leaves a temporary file and the old content.
Crash(c) ==
    /\ "crash" \in Faults /\ Active(c)
    /\ proc' = [proc EXCEPT ![c] = Idle]
    /\ tomlBak' \in {tomlBak} \cup
         IF proc[c].pc = "tomlBak" THEN {[kind |-> "torn", doc |-> <<>>]} ELSE {}
    /\ jsonBak' \in {jsonBak} \cup
         IF proc[c].pc = "jsonBak" THEN {JSON("torn", NoServers)} ELSE {}
    /\ UNCHANGED <<toml, json, tokens, runs>>

Next == \E c \in Commands :
    \/ InstallURL(c) \/ InstallProfile(c) \/ Uninstall(c)
    \/ AppendProfile(c) \/ ReadToml(c) \/ BackupToml(c) \/ SwapToml(c) \/ DropTokens(c)
    \/ LoadJSON(c) \/ BackupJSON(c) \/ SwapJSON(c)
    \/ Exit(c) \/ Crash(c)

Spec == Init /\ [][Next]_vars

-----------------------------------------------------------------------------
(* Properties                                                              *)

\* What belongs to nobody who runs a command is never lost, however many
\* commands overlap and wherever they are killed: other tables, other profiles
\* and their keys stay in config.toml, in their order (install.go:1-4), the
\* client's other servers stay, and a file that is not valid JSON is not touched
\* (loadClientConfig). A command that has the files to itself keeps the comments
\* too. Overlapping ones can define a profile twice, and a comment between the
\* two goes with the next edit.
OthersUntouched ==
    [][/\ SettingsBeside(toml', Names) = SettingsBeside(toml, Names)
       /\ (\E c \in Commands : Active(c) /\ proc[c].alone) /\ Parses(toml') =>
            LinesBeside(toml', Names) = LinesBeside(toml, Names)
       /\ \A n \in DOMAIN json.servers \ Names :
            n \in DOMAIN json'.servers /\ json'.servers[n] = json.servers[n]
       /\ json.kind = "broken" => json' = json]_vars

\* A command that had both files to itself from start to end.
Undisturbed(c) == proc[c].pc = "done" /\ proc[c].alone

\* An install that reports success leaves a client entry whose profile has
\* the endpoint it was given and the headers it had before, whatever earlier
\* commands that were killed half-way have left (Install, ensureProfile).
InstallWorks ==
    \A c \in Commands :
        LET p == proc[c] IN
        (Undisturbed(c) /\ p.ok /\ p.job = "install") =>
            /\ p.name \in DOMAIN json.servers /\ json.servers[p.name] = p.prof
            /\ p.prof \in DOMAIN Loaded(toml)
            /\ Loaded(toml)[p.prof].url = p.url
            /\ p.prof \in DOMAIN p.cfg =>
                 Loaded(toml)[p.prof].headers = p.cfg[p.prof].headers

\* The profile an uninstall is about: the one its entry named, the one of the
\* given name when there was no entry or the entry names none.
Meant(p) ==
    IF p.gone /\ p.jread.servers[p.name] # NoProfile
    THEN p.jread.servers[p.name] ELSE p.name

\* Uninstall is the full undo: when it reports success the entry, the profile
\* that the entry named and the tokens of its endpoint are gone (Uninstall).
UndoComplete ==
    \A c \in Commands :
        LET p == proc[c] IN
        (Undisturbed(c) /\ p.ok /\ p.job = "uninstall") =>
            /\ p.name \notin DOMAIN json.servers
            /\ Meant(p) \notin DOMAIN Loaded(toml)
            /\ Meant(p) \in DOMAIN p.cfg => p.cfg[Meant(p)].url \notin tokens

\* After every command that was alone config.toml still parses, unless its
\* append was cut short: no edit defines a table twice. A config that does not
\* parse stops every later command and bridge (Load).
ConfigStillParses ==
    \A c \in Commands : Undisturbed(c) =>
        \/ Parses(toml)
        \/ proc[c].job = "install" /\ Count(toml, "torn", proc[c].prof) > 0

\* At every point of a command that is alone, so wherever it is killed, the
\* content it found is in place or in the .bak (replaceConfig).
Recoverable ==
    \A c \in Commands : Active(c) /\ proc[c].alone =>
        LET p == proc[c] IN
        /\ p.read = <<>> \/ toml = p.read \/ tomlBak = [kind |-> "whole", doc |-> p.read]
        /\ p.jread.kind = "none" \/ json = p.jread \/ jsonBak = p.jread

-----------------------------------------------------------------------------
(* Properties of the editor alone, on every document that parses and is    *)
(* found while no command runs.                                            *)

Resting == Parses(toml) /\ \A c \in Commands : ~Active(c)
Blocks(p) == {Block(p, [url |-> u, headers |-> h]) : u \in URLs, h \in BOOLEAN}
Edit(p, block) == spliceProfileBlock(toml, p, block)
Edits(Holds(_, _)) ==
    Resting => \A p \in {q \in Names : HasSection(toml, q)} :
                  \A block \in {<<>>} \cup Blocks(p) : Holds(p, block)

\* A splice leaves every line alone that the TOML parser or a reader does not
\* take for the profile's: other tables with their keys, and the comments
\* between profiles (tomledit.go:37-41).
SpliceKeepsOthers ==
    LET Holds(p, block) == LinesBeside(Edit(p, block), {p}) = LinesBeside(toml, {p})
    IN  Edits(Holds)

\* Of the profile itself exactly the new block is left, nested tables
\* included, in the place of the old one, and the result still parses, when
\* the profile's tables stand together.
SpliceReplaces ==
    LET Holds(p, block) ==
          LET out == Edit(p, block) IN
          /\ LinesOf(out, p) = LinesOf(block, p)
          /\ Parses(out) /\ Contiguous(out)
          /\ (block # <<>> /\ Count(toml, "section", p) = 1) => Order(out) = Order(toml)
    IN  Contiguous(toml) => Edits(Holds)

\* Editing again changes nothing, and dropping a profile that was appended
\* gives the document back up to the blank lines at its end: install and
\* uninstall in turn never make the file grow.
SpliceRestores ==
    LET Again(p, block) ==
          block # <<>> => spliceProfileBlock(Edit(p, block), p, block) = Edit(p, block)
        Undone(p) == \A block \in Blocks(p) :
          LET back == spliceProfileBlock(toml \o block, p, <<>>) IN
          \E n \in 0..Len(toml) :
             /\ back = SubSeq(toml, 1, n)
             /\ \A i \in (n + 1)..Len(toml) : blankLine(toml[i])
    IN  /\ Edits(Again)
        /\ Resting => \A p \in Names : ~HasSection(toml, p) => Undone(p)
=============================================================================

----------------------------- MODULE ConfigFile -----------------------------
(***************************************************************************)
(* config.ini: what the parser reads out of a file a person wrote, and     *)
(* what an edit from the overlay does to its text.  An edit is made on the *)
(* lines, not on the parsed settings, so that comments, order and sections *)
(* this build does not know stay; it is checked by being read back, and it *)
(* replaces the file through an atomic write a power cut may interrupt.    *)
(*                                                                         *)
(* A file is a sequence of lines.  Two sections stand for all of them:     *)
(* [sync], whose missing keys are the defaults, and [platform.p], whose    *)
(* presence replaces the default folders of a platform this build maps.    *)
(***************************************************************************)
EXTENDS Integers, Sequences, FiniteSets, SequencesExt

CONSTANTS
    Absent,        \* no file
    MaxEdits, MaxShocks

ASSUME ConfigAssumption == MaxEdits \in Nat /\ MaxShocks \in Nat

VARIABLES
    ini,           \* config.ini and config.ini.old, each a file or Absent
    inForce,       \* the configuration the engine acts on
    pane,          \* the settings screen's: link, shown, notice
    edits, shocks

configFileVars == <<ini, inForce, pane, edits, shocks>>

Header(section) == [at |-> "header", section |-> section]
Setting(key, value) == [at |-> "set", key |-> key, value |-> value]
Comment == [at |-> "note"]
Newer == [at |-> "newer"]

\* The settings: the kinds differ in what they refuse and in what a missing line means.
KeysOf(section) == CASE section = "sync" -> {"enabled"}
                     [] section = "platform.p" -> {"roms", "saves", "play_with"}
                     [] OTHER -> {}
Folders == {"roms", "saves"}
NormalizeValue(key) == IF key = "enabled" THEN {"true", "false"} ELSE {"", "x", "d"}

DefaultPlatform == [roms |-> "d", saves |-> "d"]
NoFolders == [roms |-> "", saves |-> ""]
Defaults == [enabled |-> "true", folders |-> DefaultPlatform, play_with |-> "", newer |-> FALSE]

--------------------------------------------------------------------------
(* Reading.                                                                *)

\* A section of the platform opens with no folders, the first time it is opened.
ParseHeader(s, section) ==
    [s EXCEPT !.section = section,
              !.claimed = @ \/ section = "platform.p",
              !.config.folders = IF section = "platform.p" /\ ~s.claimed THEN NoFolders ELSE @]

\* A value the key refuses leaves the setting as it was.
ApplySync(s, key, value) ==
    IF key = "enabled" /\ value \in NormalizeValue(key) THEN [s EXCEPT !.config.enabled = value] ELSE s

\* A folder whose every entry is refused is mapped nowhere.
ApplyPlatform(s, key, value) ==
    CASE key \in Folders ->
           [s EXCEPT !.maps = TRUE,
                     !.config.folders[key] = IF value \in NormalizeValue(key) THEN value ELSE ""]
      [] key = "play_with" ->
           [s EXCEPT !.names = TRUE,
                     !.config[key] = IF value \in NormalizeValue(key) THEN value ELSE @]
      [] key = "enabled" /\ value \in {"true", "false"} -> [s EXCEPT !.switch = value]
      [] OTHER -> s

\* The format's version, above the first section: a newer one and nothing is read.
ParseVersion(s) == IF s.section = "" THEN [s EXCEPT !.config.newer = TRUE] ELSE s

ParseLine(s, line) ==
    CASE line.at = "header" -> ParseHeader(s, line.section)
      [] line.at = "newer" -> ParseVersion(s)
      [] line.at = "set" /\ s.section = "sync" -> ApplySync(s, line.key, line.value)
      [] line.at = "set" /\ s.section = "platform.p" -> ApplyPlatform(s, line.key, line.value)
      [] OTHER -> s

\* The platform's section, once every line is read: switched off; switched on, or only
\* named, with no folders of its own, so the built-in ones; or what it lists.
ParseConfig(file) ==
    LET s == FoldLeft(ParseLine,
                      [section |-> "", claimed |-> FALSE, maps |-> FALSE, names |-> FALSE,
                       switch |-> "", config |-> Defaults], file)
    IN  IF s.config.newer THEN [Defaults EXCEPT !.newer = TRUE]
        ELSE IF s.claimed /\ s.switch = "false" THEN [s.config EXCEPT !.folders = NoFolders]
        ELSE IF s.claimed /\ ~s.maps /\ (s.switch = "true" \/ s.names)
             THEN [s.config EXCEPT !.folders = DefaultPlatform]
        ELSE s.config

\* A missing file is read from the one an interrupted write left beside it.
ReadConfigText(card) == IF card.file # Absent THEN card.file
                        ELSE IF card.old # Absent THEN card.old ELSE <<>>

\* Mutant: the file an interrupted write left beside is not looked for.
LoadConfigHere(card) == ParseConfig(IF card.file # Absent THEN card.file ELSE <<>>)

LoadConfig(card) == ParseConfig(ReadConfigText(card))

--------------------------------------------------------------------------
(* Editing.                                                                *)

SectionAt(file, i) ==
    LET headers == {k \in 1 .. i : file[k].at = "header"}
    IN  IF headers = {} THEN "" ELSE file[CHOOSE k \in headers : \A n \in headers : n <= k].section

AssignmentLines(file, section, key) ==
    {i \in DOMAIN file : file[i].at = "set" /\ file[i].key = key /\ SectionAt(file, i) = section}

Greatest(set) == CHOOSE k \in set : \A n \in set : n <= k

\* After the section's last assignment, ahead of the comments under it; 0 if it is not there.
InsertPoint(file, section) ==
    LET lines == {i \in DOMAIN file : SectionAt(file, i) = section /\ file[i].at \in {"header", "set"}}
    IN  IF lines = {} THEN 0 ELSE Greatest(lines)

Erase(file, lines) ==
    LET kept == {i \in DOMAIN file : i \notin lines}
    IN  FoldLeft(LAMBDA out, i : IF i \in kept THEN Append(out, file[i]) ELSE out,
                 <<>>, [i \in DOMAIN file |-> i])

InsertLines(file, at, lines) == SubSeq(file, 1, at) \o lines \o SubSeq(file, at + 1, Len(file))

\* Mutant: a section made for one folder holds that folder only.
NewSectionBodyAlone(target, edit, before) == <<Setting(target.key, target.value)>>

\* The lines a section is given: for a folder of a platform in force, the others too,
\* as the same edit sets them, or as they stand.
NewSectionBody(target, edit, before) ==
    IF target.key \notin Folders \/ before.folders = NoFolders
    THEN <<Setting(target.key, target.value)>>
    ELSE LET Asked(key) == {a \in ToSet(edit) : a.section = target.section /\ a.key = key}
             LineFor(key) ==
                IF Asked(key) # {}
                THEN LET a == CHOOSE a \in Asked(key) : TRUE
                     IN  IF a.remove THEN <<>> ELSE <<Setting(key, a.value)>>
                ELSE IF before.folders[key] # "" THEN <<Setting(key, before.folders[key])>> ELSE <<>>
         IN  LineFor("roms") \o LineFor("saves")

\* One assignment, on the lines the ones before it left.
ApplyAssignment(edit, before, file, target) ==
    LET hits == AssignmentLines(file, target.section, target.key)
        at == InsertPoint(file, target.section)
        maps == \E key \in Folders : AssignmentLines(file, target.section, key) # {}
    IN  IF target.remove THEN Erase(file, hits)
        ELSE IF hits # {} THEN [file EXCEPT ![Greatest(hits)] = Setting(target.key, target.value)]
        ELSE IF at # 0 /\ (target.key \notin Folders \/ maps)
             THEN InsertLines(file, at, <<Setting(target.key, target.value)>>)
        ELSE IF at # 0 THEN InsertLines(file, at, NewSectionBody(target, edit, before))
        ELSE file \o <<Header(target.section)>> \o NewSectionBody(target, edit, before)

ValueOf(config, key) == IF key \in Folders THEN config.folders[key] ELSE config[key]

ReadsBackAs(file, target) ==
    IF target.remove THEN AssignmentLines(file, target.section, target.key) = {}
    ELSE ValueOf(ParseConfig(file), target.key) = target.value

\* All of it lands, or none of it does: the file it makes, if it makes one.
ApplyEdit(file, edit) ==
    LET before == ParseConfig(file)
        written == FoldLeft(LAMBDA f, target : ApplyAssignment(edit, before, f, target), file, edit)
        usable == /\ ~before.newer
                  /\ \A a \in ToSet(edit) : /\ a.key \in KeysOf(a.section)
                                            /\ a.remove \/ a.value \in NormalizeValue(a.key)
                  /\ \A i, j \in DOMAIN edit : edit[i].key = edit[j].key => i = j
    IN  IF usable /\ \A a \in ToSet(edit) : ReadsBackAs(written, a) THEN {written} ELSE {}

--------------------------------------------------------------------------
(* The engine's half.                                                      *)

Assign(section, key, value) == [section |-> section, key |-> key, value |-> value, remove |-> FALSE]
Reset(section, key) == [section |-> section, key |-> key, value |-> "", remove |-> TRUE]

Assignments ==
    {Assign("sync", "enabled", v) : v \in {"true", "false", "bad"}}
        \cup {Assign("platform.p", k, v) : k \in Folders, v \in {"", "x"}}
        \cup {Assign("platform.p", k, v) : k \in {"play_with"}, v \in {"", "x"}}
        \cup {Reset("sync", "enabled")} \cup {Reset("platform.p", k) : k \in KeysOf("platform.p")}

ConfigEdits ==
    LET platform == {a \in Assignments : a.section = "platform.p"}
    IN  {<<a>> : a \in Assignments}
            \cup {edit \in platform \X platform : edit[1].key # edit[2].key}
            \cup {<<a, a>> : a \in platform}

\* CommitStaged: the file aside, the new one in, the one aside gone.
WriteAtomically(file) ==
    {[outcome |-> "ok", card |-> [file |-> file, old |-> Absent]],
     [outcome |-> "failed", card |-> ini],
     [outcome |-> "failed", card |-> IF ini.file = Absent THEN ini ELSE [file |-> Absent, old |-> ini.file]]}

\* Under the card's lock, from the text read to the configuration adopted: how it ends.
ApplyConfigEdit(edit) ==
    LET applied == ApplyEdit(ReadConfigText(ini), edit)
    IN  IF applied = {} THEN {[outcome |-> "invalid", card |-> ini, config |-> inForce]}
        ELSE UNION {{[outcome |-> wrote.outcome, card |-> wrote.card,
                      config |-> IF wrote.outcome = "ok" THEN ParseConfig(file) ELSE inForce] :
                          wrote \in WriteAtomically(file)} : file \in applied}

Ends(edited) ==
    /\ edits < MaxEdits /\ edits' = edits + 1
    /\ ini' = edited.card /\ inForce' = edited.config
    /\ shocks' = IF edited.outcome = "failed" THEN shocks + 1 ELSE shocks
    /\ shocks' <= MaxShocks

\* An edit of several assignments, from a client other than the screen.
SetConfig ==
    /\ edits < MaxEdits
    /\ \E edit \in ConfigEdits : \E edited \in ApplyConfigEdit(edit) : Ends(edited)
    /\ UNCHANGED pane

--------------------------------------------------------------------------
(* The settings screen.                                                    *)

NoPane == [link |-> FALSE, shown |-> Defaults, notice |-> ""]

PollSettings ==
    /\ pane' = [pane EXCEPT !.link = TRUE, !.shown = inForce]
    /\ pane' # pane
    /\ UNCHANGED <<ini, inForce, edits, shocks>>

\* A row that changes steps to the next of its values, from the one shown.
Changeable(key) ==
    CASE key = "enabled" -> Assign("sync", key, IF pane.shown.enabled = "true" THEN "false" ELSE "true")
      [] key = "play_with" -> Assign("platform.p", key, IF pane.shown.play_with = "" THEN "x" ELSE "")

\* The answer, then the configuration as it now stands; or no answer, whatever was done.
PressChange(key) ==
    /\ pane.link
    /\ edits < MaxEdits
    /\ \E edited \in ApplyConfigEdit(<<Changeable(key)>>) :
         /\ Ends(edited)
         /\ \/ pane' = [pane EXCEPT !.notice = edited.outcome, !.shown = inForce']
            \/ pane' = NoPane

ShowUnreachable ==
    /\ pane.link /\ pane' = NoPane
    /\ UNCHANGED <<ini, inForce, edits, shocks>>

\* Power is cut between two renames, or anywhere else; the next boot loads what is there.
Restart ==
    /\ shocks < MaxShocks /\ shocks' = shocks + 1
    /\ inForce' = LoadConfig(ini) /\ pane' = NoPane
    /\ UNCHANGED <<ini, edits>>

\* Files people write: none, sections twice, values that are no values, comments between.
HandWritten == {
    <<>>,
    <<Comment, Header("sync"), Setting("enabled", "false"), Comment, Header("other"), Setting("enabled", "x")>>,
    <<Header("platform.p"), Setting("play_with", "x"), Comment, Header("sync"), Setting("enabled", "bad")>>,
    <<Header("platform.p"), Setting("roms", "x"), Header("sync"), Header("platform.p"),
      Setting("saves", "bad"), Setting("roms", "d")>>,
    <<Header("platform.p"), Setting("enabled", "true"), Header("sync"), Setting("enabled", "false"),
      Setting("enabled", "true")>>,
    <<Header("platform.p"), Setting("enabled", "false"), Setting("roms", "x"), Comment>>,
    <<Header("platform.p"), Comment>>,
    <<Newer, Header("sync"), Setting("enabled", "false")>>}

ConfigInit ==
    /\ \E file \in HandWritten :
         ini \in {[file |-> file, old |-> Absent], [file |-> Absent, old |-> file]}
    /\ inForce = LoadConfig(ini)
    /\ pane = NoPane /\ edits = 0 /\ shocks = 0

ConfigNext ==
    \/ SetConfig \/ PollSettings \/ ShowUnreachable \/ Restart
    \/ \E key \in {"enabled", "play_with"} : PressChange(key)

ConfigSpec == ConfigInit /\ [][ConfigNext]_configFileVars

--------------------------------------------------------------------------
(* The configuration in force and the one shown have values the settings   *)
(* allow (Config, ConfigView).                                             *)
ConfigTypeOK ==
    /\ \A config \in {inForce, pane.shown} :
         /\ config.enabled \in {"true", "false"} /\ config.newer \in BOOLEAN
         /\ \A key \in Folders : config.folders[key] \in {"", "x", "d"}
         /\ config.play_with \in {"", "x"}
    /\ ini.file # Absent \/ ini.old # Absent
    /\ pane.notice \in {"", "ok", "failed", "invalid"}

(* What the engine acts on is what the card holds: after a refused edit, a *)
(* write that failed half way through its renames, or a restart, the next  *)
(* boot reads the settings in force (ApplyConfigEdit, LoadConfig).         *)
InForceIsOnCard == inForce = LoadConfig(ini)

Others(file) == SelectSeq(file, LAMBDA line : line.at # "set")

\* The platform's section is there and sets nothing, which maps the platform nowhere.
Bare(file) ==
    /\ Header("platform.p") \in ToSet(file)
    /\ \A i \in DOMAIN file : SectionAt(file, i) = "platform.p" => file[i].at # "set"

Unnamed(edit) == (Folders \cup {"enabled", "play_with"}) \ {a.key : a \in ToSet(edit)}

Reads(before, after, keys) ==
    LET was == ParseConfig(before) is == ParseConfig(after)
    IN  \A key \in keys : ValueOf(is, key) = ValueOf(was, key)

(* An edit sets what it names and nothing else: every other setting reads  *)
(* as it did, through duplicates, a section that replaces the built-in     *)
(* folders, switches and assignments in any order, and no comment, header  *)
(* or unknown section is lost or moved (ApplyEdit).  A section that sets   *)
(* nothing, before or after, is what ResetIsTheDefault is about; one whose *)
(* folders are taken out has its built-in ones again, all of them.         *)
EditKeepsTheRest ==
    LET text == ReadConfigText(ini)
        unmaps(edit) == \E a \in ToSet(edit) : a.remove /\ a.key \in Folders
    IN  \A edit \in ConfigEdits : \A written \in ApplyEdit(text, edit) :
          /\ Bare(text) \/ Bare(written) \/ unmaps(edit) \/ Reads(text, written, Unnamed(edit))
          /\ IsPrefix(Others(text), Others(written))

(* Taking a key out of the file puts that setting back to its default and  *)
(* leaves the others (Assignment::remove, ApplyEdit).  Does not hold: the   *)
(* emptied section stays, and still replaces the default folders.          *)
ResetIsTheDefault ==
    LET text == ReadConfigText(ini)
    IN  \A written \in ApplyEdit(text, <<Reset("platform.p", "play_with")>>) :
          Reads(text, written, Folders)
=============================================================================

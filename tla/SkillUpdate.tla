----------------------------- MODULE SkillUpdate -----------------------------
(***************************************************************************)
(* The updates of one installation: `update' (SelfUpdate), `update-skill'  *)
(* (update_skill.go), which unpacks a package over the files of the skill, *)
(* and the listener's checkAndNotifyUpdate (listener.go), which tells the  *)
(* user that there is something to update.                                 *)
(*                                                                         *)
(* A file of the skill is the version it was taken from, or torn.  The     *)
(* version of the skill is what SKILL.md says.                             *)
(***************************************************************************)
EXTENDS SelfUpdate

CONSTANTS
    SkillTags,  \* versions of the skill
    Package,    \* version of the skill -> the files of its package
    Manifest,   \* SKILL.md
    Torn        \* what is in a file whose writing has not ended

Files == UNION {Package[v] : v \in SkillTags}

ASSUME PackageAssumption ==
    /\ SkillTags \subseteq Tags /\ First \in SkillTags
    /\ \A v \in SkillTags : Manifest \in Package[v]
ASSUME TornAssumption == Torn \notin Tags /\ Torn # None

VARIABLES
    skill,        \* file of the skill -> its version, Torn, or None
    skillLatest,  \* the tag of the latest release of the skill
    skillStep,    \* what update-skill does
    pack,         \* the version of the package it has downloaded
    left,         \* files of it that are not yet unpacked
    writing,      \* the file it is writing, or None
    whole,        \* the last extraction ended without an error (history)
    listener,     \* the version compiled into the running listener, or None
    said          \* what the user was told to update and has not tried to

skillVars == <<skill, skillStep, pack, left, writing, whole>>
tellVars == <<listener, said>>
vars == <<updateVars, skillVars, skillLatest, tellVars>>

readSkillVersion == IF skill[Manifest] \in SkillTags THEN skill[Manifest] ELSE None

Init ==
    /\ UpdateInit
    /\ skillLatest \in SkillTags
    /\ skill = [f \in Files |-> IF f \in Package[First] THEN First ELSE None]
    /\ skillStep = "idle"
    /\ pack = None /\ left = {} /\ writing = None
    /\ whole = TRUE
    /\ listener = None /\ said = {}

\* A release of the skill is published or withdrawn.
SkillRelease ==
    /\ skillLatest' \in SkillTags \ {skillLatest}
    /\ UNCHANGED <<updateVars, skillVars, tellVars>>

-----------------------------------------------------------------------------
(* update-skill *)

\* The directory of the skill is there, or --force makes it.  The user has done
\* what he was told.
SkillRun ==
    /\ skillStep = "idle"
    /\ skillStep' = "download"
    /\ said' = said \ {"skill"}
    /\ UNCHANGED <<updateVars, skill, pack, left, writing, whole, skillLatest, listener>>

\* Whatever the latest release is goes to a temporary file: no version is
\* compared.
SkillDownload ==
    /\ skillStep = "download"
    /\ skillStep' = "extract"
    /\ pack' = skillLatest
    /\ left' = Package[skillLatest]
    /\ UNCHANGED <<updateVars, skill, writing, whole, skillLatest, tellVars>>

\* Mutant of ToUnpack: files that are there are kept, SKILL.md excepted.
OnlyMissing == {f \in left : f = Manifest \/ skill[f] = None}

\* "replacing existing files"
ToUnpack == left

\* os.Create empties the next file of the archive; the archive has any order.
OpenFile ==
    /\ skillStep = "extract"
    /\ writing = None
    /\ \E f \in ToUnpack :
        /\ writing' = f
        /\ skill' = [skill EXCEPT ![f] = Torn]
    /\ whole' = FALSE
    /\ UNCHANGED <<updateVars, skillStep, pack, left, skillLatest, tellVars>>

CloseFile ==
    /\ writing # None
    /\ skill' = [skill EXCEPT ![writing] = pack]
    /\ left' = left \ {writing}
    /\ writing' = None
    /\ UNCHANGED <<updateVars, skillStep, pack, whole, skillLatest, tellVars>>

SkillEnds ==
    /\ skillStep' = "idle"
    /\ pack' = None /\ left' = {} /\ writing' = None
    /\ UNCHANGED <<updateVars, skill, skillLatest, tellVars>>

Unpacked ==
    /\ skillStep = "extract"
    /\ writing = None /\ ToUnpack = {}
    /\ whole' = TRUE
    /\ SkillEnds

\* No answer, an archive cut short, no room, or the process is killed: what was
\* written stays.
SkillStops ==
    /\ skillStep # "idle"
    /\ SkillEnds
    /\ UNCHANGED whole

-----------------------------------------------------------------------------
(* The listener *)

\* The listener is the binary that was installed when it started, for as long as
\* it runs.
ListenerStarts ==
    /\ listener = None
    /\ \E v \in Tags : Holds(bin, v) /\ listener' = v
    /\ UNCHANGED <<updateVars, skillVars, skillLatest, said>>

ListenerEnds ==
    /\ listener # None
    /\ listener' = None
    /\ UNCHANGED <<updateVars, skillVars, skillLatest, said>>

\* Mutant of News: only a new major version is told.
MajorNews ==
    (IF NewerIn(latest, listener, 1) THEN {"cli"} ELSE {}) \cup
    (IF readSkillVersion # None /\ NewerIn(skillLatest, readSkillVersion, 1)
        THEN {"skill"} ELSE {})

\* A skill whose version cannot be read is taken for one that is not installed.
News ==
    (IF isMajorMinorNewer(latest, listener) THEN {"cli"} ELSE {}) \cup
    (IF readSkillVersion # None /\ isMajorMinorNewer(skillLatest, readSkillVersion)
        THEN {"skill"} ELSE {})

\* Of the two tags those that were told are compared, and one message goes to the
\* most recent session.  Nothing remembers that it went: the next check repeats it.
checkAndNotifyUpdate(told) ==
    /\ listener # None
    /\ told # {} /\ told \subseteq News
    /\ said' = said \cup told
    /\ UNCHANGED <<updateVars, skillVars, skillLatest, listener>>

Notify == \E told \in SUBSET {"cli", "skill"} : checkAndNotifyUpdate(told)

-----------------------------------------------------------------------------

\* `update', which the user runs when he likes, and who has been told has done it.
UpdateRun(u) ==
    /\ Run(u)
    /\ said' = said \ {"cli"}
    /\ UNCHANGED <<skillVars, skillLatest, listener>>

UpdateStep(u) ==
    /\ step[u] # "idle"
    /\ Updates(u)
    /\ UNCHANGED <<skillVars, skillLatest, tellVars>>

CliRelease == Release /\ UNCHANGED <<skillVars, skillLatest, tellVars>>

Skill == SkillRun \/ SkillDownload \/ OpenFile \/ CloseFile \/ Unpacked \/ SkillStops

Next ==
    \/ CliRelease \/ SkillRelease
    \/ \E u \in Updaters : UpdateRun(u) \/ UpdateStep(u)
    \/ Skill
    \/ ListenerStarts \/ ListenerEnds \/ Notify

Spec == Init /\ [][Next]_vars
=============================================================================

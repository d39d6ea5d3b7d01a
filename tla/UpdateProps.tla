----------------------------- MODULE UpdateProps -----------------------------
(* What an installation that updates itself promises. *)
EXTENDS SkillUpdate

\* Until two updates have run at the same time, the path of the binary holds one
\* version, all of it, wherever an update stopped ("先写到临时位置，再 rename
\* （原子替换）", update.go:259).
WholeUnlessTogether == together \/ \E v \in Tags : Holds(bin, v)

\* Until two updates have run at the same time, no update puts an older version in
\* the place of a newer one, whatever the servers say is the latest.
NeverOlder ==
    [][together' \/ \A a, b \in Tags :
            Holds(bin, a) /\ Holds(bin, b)' => ~isNewer(a, b)]_vars

\* After an extraction that ended, and until the next one has begun to write, the
\* version that SKILL.md tells is the version of every file of its package: those
\* that an earlier, torn or newer package left there too (extractSkillZip).
SkillVersionHolds ==
    whole /\ readSkillVersion # None =>
        \A f \in Package[readSkillVersion] : skill[f] = readSkillVersion

\* News arrive: once the latest release stays the latest, the installed binary is,
\* again and again, no major or minor version behind it, unless two updates met;
\* nor is the skill, unless its SKILL.md is torn for good (then nobody is told).
CliArrives ==
    \A v \in Tags :
        <>[](latest = v /\ ~together) =>
            []<>(\E b \in Tags : Holds(bin, b) /\ ~isMajorMinorNewer(v, b))

SkillArrives ==
    \A v \in SkillTags :
        (<>[](skillLatest = v) /\ []<>(readSkillVersion # None)) =>
            []<>(readSkillVersion # None /\ ~isMajorMinorNewer(v, readSkillVersion))

NewsArrive == CliArrives /\ SkillArrives

\* What goes wrong and comes to an end: updates that stop or cannot replace the
\* binary, listeners that are stopped.
Trouble ==
    \/ \E u \in Updaters : UpdateStep(u) /\ (Stops(u) \/ ReplaceFails(u))
    \/ SkillStops
    \/ ListenerEnds

\* A listener that is down is started, its check gets through, the user does what
\* he is told, and commands go on; nothing goes wrong for ever.
Fairness ==
    /\ <>[][~Trouble]_vars
    /\ WF_vars(ListenerStarts)
    /\ \A news \in {"cli", "skill"} :
        WF_vars(\E told \in SUBSET {"cli", "skill"} :
                    news \in told \ said /\ checkAndNotifyUpdate(told))
    /\ \A u \in Updaters : WF_vars("cli" \in said /\ UpdateRun(u)) /\ WF_vars(UpdateStep(u))
    /\ WF_vars("skill" \in said /\ SkillRun)
    /\ WF_vars(Skill /\ skillStep # "idle")

FairSpec == Spec /\ Fairness
=============================================================================

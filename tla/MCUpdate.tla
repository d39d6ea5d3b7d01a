------------------------------ MODULE MCUpdate ------------------------------
(* Instances of SkillUpdate for TLC.                                        *)
EXTENDS UpdateProps, TLC

CONSTANTS u1, i1, i2, md, old, added

\* The minor version is newer, its patch is not.
V109 == <<1, 0, 9>>
V110 == <<1, 1, 0>>
TwoTags == {V109, V110}

OneUpdater == {u1}
TwoInodes == {i1, i2}

\* The newer package has a file the older has not, and the other way round.
Packages == V109 :> {md, old} @@ V110 :> {md, added}
=============================================================================

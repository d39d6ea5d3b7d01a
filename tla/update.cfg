\* One update at a time (see UpdateProofs for more), two versions, a skill of two
\* packages.
SPECIFICATION FairSpec
CONSTANTS
    u1 = u1  i1 = i1  i2 = i2
    md = md  old = old  added = added
    None = None  Torn = Torn
    Updaters <- OneUpdater
    Tags <- TwoTags
    First <- V109
    Inodes <- TwoInodes
    Chunks = 1
    SkillTags <- TwoTags
    Package <- Packages
    Manifest = md
INVARIANTS WholeUnlessTogether SkillVersionHolds
PROPERTIES NeverOlder NewsArrive

---------------------------- MODULE UpdateProofs ----------------------------
(***************************************************************************)
(* For every set of updaters, versions and inodes: the binary is one       *)
(* version and never gets older, until two updates have met.               *)
(*                                                                         *)
(* The argument.  As long as no two updates have met, one process at most  *)
(* runs `update' (Alone), so the file it writes is binary.new and nobody   *)
(* else's (WritesNew); what it has copied is the version it fetched        *)
(* (CopiedSoFar), all of it by the time it renames (Ready); and what it    *)
(* replaces is the version it was compiled from (RunsBinary), which it     *)
(* found to be older (FetchedNewer).                                       *)
(*                                                                         *)
(* At the end, likewise: SKILL.md tells the version of the files of its    *)
(* package after every extraction that ended.                              *)
(***************************************************************************)
EXTENDS UpdateProps, TLAPS

UpdateTypeOK ==
    /\ latest \in Tags
    /\ content \in [Inodes -> [Pieces -> Tags \cup {None}]]
    /\ bin \in Inodes /\ new \in Inodes \cup {None}
    /\ step \in [Updaters -> UpdateSteps]
    /\ ran \in [Updaters -> Tags] /\ tag \in [Updaters -> Tags]
    /\ file \in [Updaters -> Inodes \cup {None}]
    /\ pos \in [Updaters -> 0 .. Chunks]
    /\ together \in BOOLEAN

Alone == \A u, w \in Updaters : step[u] # "idle" /\ step[w] # "idle" => u = w

WritesNew ==
    /\ new # bin
    /\ \A u \in Updaters : step[u] = "copy" => new # None /\ file[u] = new

CopiedSoFar ==
    \A u \in Updaters : step[u] = "copy" =>
        \A k \in Pieces : k <= pos[u] => content[new][k] = tag[u]

StartsAtZero == \A u \in Updaters : step[u] \in UpdateSteps \ {"copy", "chmod", "rename"} => pos[u] = 0

Ready ==
    \A u \in Updaters : step[u] \in {"chmod", "rename"} => new # None /\ Holds(new, tag[u])

RunsBinary == \A u \in Updaters : step[u] # "idle" => Holds(bin, ran[u])

FetchedNewer ==
    \A u \in Updaters : step[u] \notin {"idle", "fetch"} => isNewer(tag[u], ran[u])

BinaryIsWhole == \E v \in Tags : Holds(bin, v)

Quiet ==
    /\ Alone /\ WritesNew /\ CopiedSoFar /\ StartsAtZero /\ Ready
    /\ RunsBinary /\ FetchedNewer /\ BinaryIsWhole

IInv == UpdateTypeOK /\ (~together => Quiet)

-----------------------------------------------------------------------------
(* Versions *)

LEMMA PartIsNat == ASSUME NEW v \in Tags, NEW i \in Nat PROVE Part(v, i) \in Nat
<1>1. v \in Seq(Nat)
  BY TagsAssumption
<1> QED
  BY <1>1 DEF Part

\* No version is newer than one that is newer than it, nor than itself.
THEOREM NewerIsStrict ==
    \A a, b \in Tags, n \in Nat : NewerIn(a, b, n) => ~NewerIn(b, a, n)
<1> SUFFICES ASSUME NEW a \in Tags, NEW b \in Tags, NEW n \in Nat,
                    NewerIn(a, b, n), NewerIn(b, a, n)
             PROVE  FALSE
  OBVIOUS
<1>1. PICK i \in 1 .. n : Part(a, i) > Part(b, i) /\ \A j \in 1 .. i - 1 : Part(a, j) = Part(b, j)
  BY DEF NewerIn
<1>2. PICK k \in 1 .. n : Part(b, k) > Part(a, k) /\ \A j \in 1 .. k - 1 : Part(b, j) = Part(a, j)
  BY DEF NewerIn
<1>3. /\ Part(a, i) \in Nat /\ Part(b, i) \in Nat
      /\ Part(a, k) \in Nat /\ Part(b, k) \in Nat
  BY PartIsNat
<1>4. CASE i < k
  BY <1>2, <1>3, <1>1, <1>4
<1>5. CASE k < i
  BY <1>2, <1>3, <1>1, <1>5
<1>6. CASE i = k
  BY <1>1, <1>2, <1>3, <1>6
<1> QED
  BY <1>4, <1>5, <1>6

LEMMA NewerOnce == ASSUME NEW a \in Tags, NEW b \in Tags, isNewer(a, b) PROVE ~isNewer(b, a)
BY NewerIsStrict DEF isNewer

LEMMA NeverNewerThanItself == ASSUME NEW a \in Tags PROVE ~isNewer(a, a)
BY NewerIsStrict DEF isNewer

\* An inode holds one version.
LEMMA HoldsOne ==
    ASSUME NEW a, NEW b, NEW i, Holds(i, a), Holds(i, b) PROVE a = b
<1>1. 1 \in Pieces
  BY ChunksAssumption DEF Pieces
<1>2. content[i][1] = a /\ content[i][1] = b
  BY <1>1 DEF Holds
<1> QED
  BY <1>2

-----------------------------------------------------------------------------
(* Types *)

\* To the binary, the skill and the listener do nothing.
LEMMA StepIsUpdateStep == [Next]_vars => [UpdateNext]_updateVars
<1> SUFFICES ASSUME Next PROVE [UpdateNext]_updateVars
  BY DEF vars
<1>1. CASE CliRelease
  BY <1>1 DEF CliRelease, UpdateNext
<1>2. CASE \E u \in Updaters : UpdateRun(u) \/ UpdateStep(u)
  BY <1>2 DEF UpdateRun, UpdateStep, UpdateNext, Updates
<1>3. CASE SkillRelease \/ Skill \/ ListenerStarts \/ ListenerEnds \/ Notify
  BY <1>3 DEF SkillRelease, Skill, SkillRun, SkillDownload, OpenFile, CloseFile, Unpacked,
     SkillStops, SkillEnds, ListenerStarts, ListenerEnds, Notify, checkAndNotifyUpdate
<1> QED
  BY <1>1, <1>2, <1>3 DEF Next

LEMMA NoneIsNoInode == None \notin Inodes
BY InodesAssumption

LEMMA TypesInit == UpdateInit => UpdateTypeOK
<1> SUFFICES ASSUME UpdateInit PROVE UpdateTypeOK
  OBVIOUS
<1>1. content \in [Inodes -> [Pieces -> Tags \cup {None}]]
  <2>1. \A i \in Inodes : [k \in Pieces |-> IF i = bin THEN First ELSE None]
                            \in [Pieces -> Tags \cup {None}]
    BY TagsAssumption
  <2> QED
    BY <2>1 DEF UpdateInit
<1>2. 0 \in 0 .. Chunks
  BY ChunksAssumption
<1> QED
  BY <1>1, <1>2, TagsAssumption DEF UpdateInit, UpdateTypeOK, UpdateSteps

LEMMA TypesStep == UpdateTypeOK /\ [UpdateNext]_updateVars => UpdateTypeOK'
<1> SUFFICES ASSUME UpdateTypeOK, [UpdateNext]_updateVars PROVE UpdateTypeOK'
  OBVIOUS
<1> USE DEF UpdateTypeOK
<1>1. CASE UNCHANGED updateVars
  BY <1>1 DEF updateVars
<1>2. CASE Release
  BY <1>2 DEF Release
<1>3. ASSUME NEW u \in Updaters, Updates(u) PROVE UpdateTypeOK'
  <2> USE DEF Go, UpdateSteps
  <2>1. ASSUME Ends(u), UNCHANGED content, bin' \in Inodes, new' \in Inodes \cup {None}
        PROVE  UpdateTypeOK'
    BY <2>1, TagsAssumption, ChunksAssumption DEF Ends
  <2>2. CASE Run(u)
    BY <2>2 DEF Run
  <2>3. CASE Fetch(u)
    BY <2>3, <2>1 DEF Fetch
  <2>4. CASE Download(u) \/ Unpack(u)
    BY <2>4 DEF Download, Unpack
  <2>5. CASE Create(u)
    BY <2>5 DEF Create, Empty
  <2>6. CASE Copy(u)
    <3>1. content' \in [Inodes -> [Pieces -> Tags \cup {None}]]
      BY <2>6 DEF Copy
    <3>2. pos' \in [Updaters -> 0 .. Chunks]
      BY <2>6, ChunksAssumption DEF Copy
    <3> QED
      BY <2>6, <3>1, <3>2 DEF Copy
  <2>7. CASE Copied(u)
    BY <2>7 DEF Copied
  <2>8. CASE Chmod(u)
    BY <2>8 DEF Chmod
  <2>9. CASE Rename(u)
    BY <2>9, <2>1 DEF Rename
  <2>10. CASE ReplaceFails(u)
    BY <2>10, <2>1 DEF ReplaceFails
  <2>11. CASE Stops(u)
    BY <2>11, <2>1 DEF Stops
  <2> QED
    BY <1>3, <2>2, <2>3, <2>4, <2>5, <2>6, <2>7, <2>8, <2>9, <2>10, <2>11 DEF Updates
<1> QED
  BY <1>1, <1>2, <1>3 DEF UpdateNext

-----------------------------------------------------------------------------
(* The invariant *)

LEMMA QuietInit == UpdateInit => IInv
<1> SUFFICES ASSUME UpdateInit PROVE Quiet
  BY TypesInit DEF IInv
<1>1. Holds(bin, First)
  BY DEF UpdateInit, Holds
<1>2. \A u \in Updaters : step[u] = "idle" /\ pos[u] = 0
  BY DEF UpdateInit
<1>3. new # bin
  BY NoneIsNoInode DEF UpdateInit
<1>4. BinaryIsWhole
  BY <1>1, TagsAssumption DEF BinaryIsWhole
<1> QED
  BY <1>2, <1>3, <1>4 DEF Quiet, Alone, WritesNew, CopiedSoFar, StartsAtZero, Ready,
     RunsBinary, FetchedNewer

\* An update that ends leaves what the others rely on, if the binary is whole.
LEMMA EndKeepsQuiet ==
    ASSUME UpdateTypeOK, Alone, StartsAtZero, NEW u \in Updaters, step[u] # "idle", Ends(u),
           BinaryIsWhole', new' # bin'
    PROVE  Quiet'
<1>1. \A w \in Updaters : step'[w] = "idle" /\ pos'[w] = 0
  <2>1. \A w \in Updaters \ {u} : step[w] = "idle"
    BY DEF Alone
  <2>2. step' = [step EXCEPT ![u] = "idle"] /\ pos' = [pos EXCEPT ![u] = 0]
    BY DEF Ends, Go
  <2> QED
    BY <2>1, <2>2 DEF UpdateTypeOK, UpdateSteps, StartsAtZero
<1> QED
  BY <1>1 DEF Quiet, Alone, WritesNew, CopiedSoFar, StartsAtZero, Ready, RunsBinary, FetchedNewer

\* What an updater that is not idle does to the others, when there is none.
LEMMA OthersIdle ==
    ASSUME Alone, NEW u \in Updaters, step[u] # "idle", NEW s, Go(u, s), UpdateTypeOK
    PROVE  /\ \A w \in Updaters \ {u} : step[w] = "idle" /\ step'[w] = "idle"
           /\ step'[u] = s
           /\ Alone'
BY DEF Alone, Go, UpdateTypeOK

LEMMA QuietStep == IInv /\ [UpdateNext]_updateVars => IInv'
<1> SUFFICES ASSUME IInv, [UpdateNext]_updateVars, ~together' PROVE Quiet'
  BY TypesStep DEF IInv
<1> USE NoneIsNoInode
<1>0. UpdateTypeOK /\ UpdateTypeOK'
  BY TypesStep DEF IInv
<1>1. CASE UNCHANGED updateVars
  BY <1>1 DEF updateVars, IInv, Quiet, Alone, WritesNew, CopiedSoFar, StartsAtZero, Ready,
     RunsBinary, FetchedNewer, BinaryIsWhole, Holds
<1>2. CASE Release
  BY <1>2 DEF Release, IInv, Quiet, Alone, WritesNew, CopiedSoFar, StartsAtZero, Ready,
     RunsBinary, FetchedNewer, BinaryIsWhole, Holds
<1>3. ASSUME NEW u \in Updaters, Updates(u) PROVE Quiet'
  <2>0. ~together /\ Quiet
    BY <1>3, <1>0 DEF IInv, Updates, Run, Fetch, Ends, Download, Unpack, Create, Copy, Copied, Chmod,
       Rename, ReplaceFails, Stops, UpdateTypeOK
  <2> USE DEF Quiet
  <2>1. CASE Run(u)
    <3>1. \A w \in Updaters : step[w] = "idle"
      BY <2>1, <2>0, <1>0 DEF Run
    <3>2. step'[u] = "fetch" /\ \A w \in Updaters \ {u} : step'[w] = "idle"
      BY <2>1, <3>1, <1>0 DEF Run, Go, UpdateTypeOK
    <3>3. Holds(bin, ran[u])' /\ BinaryIsWhole'
      BY <2>1, <1>0 DEF Run, Holds, UpdateTypeOK, BinaryIsWhole
    <3>4. pos' = pos /\ bin' = bin /\ new' = new
      BY <2>1 DEF Run
    <3>5. \A w \in Updaters : pos[w] = 0
      BY <3>1, <2>0 DEF StartsAtZero, UpdateSteps
    <3>6. \A w \in Updaters : step'[w] \in {"idle", "fetch"}
      BY <3>2
    <3> QED
      BY <3>2, <3>3, <3>4, <3>5, <3>6, <2>0
      DEF Alone, WritesNew, CopiedSoFar, StartsAtZero, Ready, RunsBinary, FetchedNewer
  <2>2. CASE Fetch(u)
    <3>1. CASE ~WantsLatest(u) /\ Ends(u)
      <4>1. BinaryIsWhole' /\ new' # bin'
        BY <2>2, <2>0 DEF Fetch, BinaryIsWhole, Holds, WritesNew
      <4> QED
        BY <2>2, <3>1, <4>1, <2>0, <1>0, EndKeepsQuiet DEF Fetch
    <3>2. CASE WantsLatest(u) /\ Go(u, "download") /\ tag' = [tag EXCEPT ![u] = latest]
      <4>1. \A w \in Updaters \ {u} : step'[w] = "idle"
        BY <2>2, <3>2, <2>0, <1>0, OthersIdle DEF Fetch
      <4>2. step'[u] = "download" /\ Alone'
        BY <2>2, <3>2, <2>0, <1>0, OthersIdle DEF Fetch
      <4>3. UNCHANGED <<content, bin, new, ran, pos>>
        BY <2>2, <3>2, <2>0, <1>0 DEF Fetch, Ends, Go, UpdateTypeOK
      <4>4. isNewer(tag'[u], ran'[u])
        BY <3>2, <4>3, <1>0 DEF WantsLatest, UpdateTypeOK
      <4>5. pos'[u] = 0 /\ Holds(bin, ran[u])' /\ BinaryIsWhole' /\ new' # bin'
        BY <2>2, <2>0, <4>3 DEF Fetch, StartsAtZero, UpdateSteps, RunsBinary, Holds, BinaryIsWhole,
           WritesNew
      <4>6. \A w \in Updaters \ {u} : pos'[w] = 0
        BY <2>0, <4>3, <2>2, <1>0 DEF Fetch, Alone, StartsAtZero, UpdateSteps
      <4> QED
        BY <4>1, <4>2, <4>4, <4>5, <4>6
        DEF WritesNew, CopiedSoFar, StartsAtZero, Ready, RunsBinary, FetchedNewer
    <3> QED
      BY <2>2, <3>1, <3>2 DEF Fetch
  <2> HIDE DEF Quiet
  <2>others. ASSUME step[u] # "idle"
             PROVE  \A w \in Updaters \ {u} : step[w] = "idle" /\ pos[w] = 0
    BY <2>0, <2>others DEF Quiet, Alone, StartsAtZero, UpdateSteps
  \* What remains to show of a step after which u is at s and the others are idle.
  <2>goes. ASSUME NEW s \in UpdateSteps \ {"idle", "fetch"}, step[u] \notin {"idle", "fetch"},
                  Go(u, s), UNCHANGED <<bin, ran, tag>>, Holds(bin, ran[u])',
                  \A w \in Updaters \ {u} : pos'[w] = 0,
                  new' # bin',
                  s = "copy" => /\ new' # None /\ file'[u] = new'
                                /\ \A k \in Pieces : k <= pos'[u] => content'[new'][k] = tag'[u],
                  s \notin {"copy", "chmod", "rename"} => pos'[u] = 0,
                  s \in {"chmod", "rename"} => new' # None /\ Holds(new, tag[u])'
           PROVE  Quiet'
    <3>1. \A w \in Updaters \ {u} : step'[w] = "idle"
      BY <2>goes, <2>0, <1>0, OthersIdle DEF Quiet
    <3>2. step'[u] = s /\ Alone'
      BY <2>goes, <2>0, <1>0, OthersIdle DEF Quiet
    <3>3. BinaryIsWhole'
      BY <2>goes, <1>0 DEF BinaryIsWhole, UpdateTypeOK
    <3>4. isNewer(tag'[u], ran'[u])
      BY <2>goes, <2>0 DEF Quiet, FetchedNewer
    <3> QED
      BY <2>goes, <3>1, <3>2, <3>3, <3>4
      DEF Quiet, WritesNew, CopiedSoFar, StartsAtZero, Ready, RunsBinary, FetchedNewer
  <2>3. CASE Download(u) \/ Unpack(u)
    <3>1. Holds(bin, ran[u])' /\ new' # bin'
      BY <2>3, <2>0 DEF Download, Unpack, Quiet, RunsBinary, Holds, WritesNew
    <3>2. pos'[u] = 0
      BY <2>3, <2>0 DEF Download, Unpack, Quiet, StartsAtZero, UpdateSteps
    <3> QED
      BY <2>3, <3>1, <3>2, <2>others, <2>goes DEF Download, Unpack, UpdateSteps
  <2>4. CASE Create(u)
    <3>1. new' \in Inodes /\ new' # bin /\ file'[u] = new' /\ content' = [content EXCEPT ![new'] = Empty]
      BY <2>4, <2>0, <1>0 DEF Create, Quiet, WritesNew, UpdateTypeOK
    <3>2. Holds(bin, ran[u])'
      BY <2>4, <3>1, <2>0, <1>0 DEF Create, Quiet, RunsBinary, Holds, UpdateTypeOK
    <3>3. pos'[u] = 0
      BY <2>4, <2>0 DEF Create, Quiet, StartsAtZero, UpdateSteps
    <3>4. \A k \in Pieces : ~(k <= pos'[u])
      BY <3>3, ChunksAssumption DEF Pieces
    <3> QED
      BY <2>4, <3>1, <3>2, <3>4, <2>others, <2>goes DEF Create, UpdateSteps
  <2>5. CASE Copy(u)
    <3>1. file[u] = new /\ new \in Inodes /\ new # bin
      BY <2>5, <2>0, <1>0 DEF Copy, Quiet, WritesNew, UpdateTypeOK
    <3>2. content' = [content EXCEPT ![new] = [content[new] EXCEPT ![pos[u] + 1] = tag[u]]]
      BY <2>5, <3>1 DEF Copy
    <3>3. Holds(bin, ran[u])'
      BY <2>5, <3>1, <3>2, <2>0, <1>0 DEF Copy, Quiet, RunsBinary, Holds, UpdateTypeOK
    <3>4. \A w \in Updaters \ {u} : step[w] = "idle" /\ pos'[w] = 0
      BY <2>5, <2>others DEF Copy
    <3>5. pos[u] \in 0 .. Chunks - 1 /\ pos'[u] = pos[u] + 1 /\ pos[u] + 1 \in Pieces
      BY <2>5, <1>0, ChunksAssumption DEF Copy, UpdateTypeOK, Pieces
    <3>6. ASSUME NEW k \in Pieces, k <= pos'[u] PROVE content'[new][k] = tag[u]
      <4>1. content[new] \in [Pieces -> Tags \cup {None}]
        BY <1>0, <3>1 DEF UpdateTypeOK
      <4>2. content'[new] = [content[new] EXCEPT ![pos[u] + 1] = tag[u]]
        BY <3>1, <3>2, <1>0 DEF UpdateTypeOK
      <4>3. CASE k = pos[u] + 1
        BY <4>1, <4>2, <4>3, <3>5
      <4>4. CASE k <= pos[u]
        BY <4>1, <4>2, <4>4, <3>5, <2>5, <2>0 DEF Copy, Quiet, CopiedSoFar, Pieces
      <4> QED
        BY <4>3, <4>4, <3>5, <3>6 DEF Pieces
    <3>7. step[u] = "copy" /\ UNCHANGED <<bin, new, step, ran, tag, file>>
      BY <2>5 DEF Copy
    <3>8. Go(u, "copy")
      BY <3>7, <1>0 DEF Go, UpdateTypeOK
    <3> QED
      BY <3>1, <3>3, <3>4, <3>6, <3>7, <3>8, <1>0, <2>goes, NoneIsNoInode DEF UpdateSteps
  <2>6. CASE Copied(u)
    <3>1. Holds(bin, ran[u])' /\ new' # bin' /\ new' # None
      BY <2>6, <2>0 DEF Copied, Quiet, RunsBinary, Holds, WritesNew
    <3>2. Holds(new, tag[u])'
      <4>1. content[new] \in [Pieces -> Tags \cup {None}]
        BY <2>6, <3>1, <1>0 DEF Copied, UpdateTypeOK
      <4>2. \A k \in Pieces : content[new][k] = tag[u]
        BY <2>6, <2>0, ChunksAssumption DEF Copied, Quiet, CopiedSoFar, Pieces
      <4> QED
        BY <2>6, <4>1, <4>2 DEF Copied, Holds
    <3> QED
      BY <2>6, <3>1, <3>2, <2>others, <2>goes DEF Copied, UpdateSteps
  <2>7. CASE Chmod(u)
    <3>1. Holds(bin, ran[u])' /\ new' # bin' /\ new' # None /\ Holds(new, tag[u])'
      BY <2>7, <2>0 DEF Chmod, Quiet, RunsBinary, Holds, WritesNew, Ready
    <3> QED
      BY <2>7, <3>1, <2>others, <2>goes DEF Chmod, UpdateSteps
  <2>8. CASE Rename(u)
    <3>1. content'[bin'] = [k \in Pieces |-> tag[u]]
      BY <2>8, <2>0 DEF Rename, Quiet, Ready, Holds
    <3>2. BinaryIsWhole' /\ new' # bin'
      BY <2>8, <3>1, <1>0 DEF Rename, BinaryIsWhole, Holds, UpdateTypeOK
    <3> QED
      BY <2>8, <3>2, <2>0, <1>0, EndKeepsQuiet DEF Rename, Quiet
  <2>9. CASE ReplaceFails(u) \/ Stops(u)
    <3>1. BinaryIsWhole' /\ new' # bin'
      BY <2>9, <2>0, <1>0 DEF ReplaceFails, Stops, Quiet, BinaryIsWhole, Holds, WritesNew, UpdateTypeOK
    <3> QED
      BY <2>9, <3>1, <2>0, <1>0, EndKeepsQuiet DEF ReplaceFails, Stops, Quiet
  <2> QED
    BY <1>3, <2>1, <2>2, <2>3, <2>4, <2>5, <2>6, <2>7, <2>8, <2>9 DEF Updates
<1> QED
  BY <1>1, <1>2, <1>3 DEF UpdateNext

-----------------------------------------------------------------------------
(* The theorems *)

\* An installation with a skill and a listener updates its binary as `update' alone
\* would: they change nothing it reads.
THEOREM ImplementsUpdate == Spec => UpdateSpec
<1>1. Init => UpdateInit
  BY DEF Init
<1>. QED
  BY <1>1, StepIsUpdateStep, PTL DEF Spec, UpdateSpec

\* The inductive invariant, of `update' alone.
THEOREM UpdateInvariant == UpdateSpec => []IInv
BY QuietInit, QuietStep, PTL DEF UpdateSpec

\* WholeUnlessTogether, for any number of updaters, versions and pieces.
THEOREM WholeTheorem == Spec => []WholeUnlessTogether
<1>1. IInv => WholeUnlessTogether
  BY DEF IInv, Quiet, BinaryIsWhole, WholeUnlessTogether
<1> QED
  BY <1>1, ImplementsUpdate, UpdateInvariant, PTL

LEMMA StepIsNotOlder ==
    ASSUME IInv, [UpdateNext]_updateVars
    PROVE  together' \/ \A a, b \in Tags : Holds(bin, a) /\ Holds(bin, b)' => ~isNewer(a, b)
<1> SUFFICES ASSUME ~together', NEW a \in Tags, NEW b \in Tags, Holds(bin, a), Holds(bin, b)'
             PROVE  ~isNewer(a, b)
  OBVIOUS
<1>0. UpdateTypeOK /\ IInv' /\ Quiet'
  BY QuietStep DEF IInv
<1>1. CASE \E u \in Updaters : Rename(u)
  <2>1. PICK u \in Updaters : Rename(u)
    BY <1>1
  <2>2. ~together /\ Quiet
    BY <2>1 DEF Rename, Ends, IInv
  <2>3. Holds(bin, ran[u]) /\ isNewer(tag[u], ran[u]) /\ ran[u] \in Tags /\ tag[u] \in Tags
    BY <2>1, <2>2, <1>0 DEF Rename, Quiet, RunsBinary, FetchedNewer, UpdateTypeOK
  <2>4. content'[bin'] = [k \in Pieces |-> tag[u]]
    BY <2>1, <2>2 DEF Rename, Quiet, Ready, Holds
  <2>5. a = ran[u]
    BY <2>3, HoldsOne
  <2>6. b = tag[u]
    <3>1. 1 \in Pieces
      BY ChunksAssumption DEF Pieces
    <3>2. content'[bin'] = [k \in Pieces |-> b]
      BY DEF Holds
    <3> QED
      BY <2>4, <3>1, <3>2
  <2> QED
    BY <2>3, <2>5, <2>6, NewerOnce
<1>2. CASE ~\E u \in Updaters : Rename(u)
  <2>1. UpdateTypeOK /\ (~together => Quiet)
    BY DEF IInv
  <2>2. content'[bin'] = content[bin]
    <3>1. CASE UNCHANGED updateVars \/ Release
      BY <3>1 DEF updateVars, Release
    <3>2. ASSUME NEW u \in Updaters, Create(u) PROVE content'[bin'] = content[bin]
      <4>1. ~together /\ new # bin
        BY <3>2, <2>1 DEF Create, Quiet, WritesNew
      <4> QED
        BY <3>2, <4>1, <2>1 DEF Create, UpdateTypeOK
    <3>3. ASSUME NEW u \in Updaters, Copy(u) PROVE content'[bin'] = content[bin]
      <4>1. file[u] # bin
        BY <3>3, <2>1 DEF Copy, Quiet, WritesNew
      <4> QED
        BY <3>3, <4>1, <2>1 DEF Copy, UpdateTypeOK
    <3>4. ASSUME NEW u \in Updaters,
                 Run(u) \/ Fetch(u) \/ Download(u) \/ Unpack(u) \/ Copied(u) \/ Chmod(u) \/ ReplaceFails(u) \/ Stops(u)
          PROVE  content'[bin'] = content[bin]
      BY <3>4 DEF Run, Fetch, Download, Unpack, Copied, Chmod, ReplaceFails, Stops
    <3> QED
      BY <1>2, <3>1, <3>2, <3>3, <3>4 DEF UpdateNext, Updates
  <2>3. Holds(bin, b)
    BY <2>2 DEF Holds
  <2>4. a = b
    BY <2>3, HoldsOne
  <2> QED
    BY <2>4, NeverNewerThanItself
<1> QED
  BY <1>1, <1>2

\* NeverOlder, likewise.
THEOREM NeverOlderTheorem == Spec => NeverOlder
<1>1. IInv /\ [UpdateNext]_updateVars =>
        [together' \/ \A a, b \in Tags : Holds(bin, a) /\ Holds(bin, b)' => ~isNewer(a, b)]_vars
  BY StepIsNotOlder
<1>2. Spec => []IInv
  BY ImplementsUpdate, UpdateInvariant, PTL
<1>3. Spec => [][UpdateNext]_updateVars
  BY ImplementsUpdate, PTL DEF UpdateSpec
<1> QED
  BY <1>1, <1>2, <1>3, StepIsUpdateStep, PTL DEF NeverOlder, Spec

-----------------------------------------------------------------------------
(***************************************************************************)
(* The skill.  What makes SkillVersionHolds inductive: while a package is  *)
(* unpacked, the files of it that are not left have its version            *)
(* (UnpackedSoFar), so that when none is left SKILL.md tells what all are; *)
(* and an extraction that has begun to write is not whole until then.      *)
(***************************************************************************)
UnpackedSoFar ==
    skillStep = "extract" =>
        /\ pack \in SkillTags
        /\ \A f \in Package[pack] \ left : skill[f] = pack

\* A file is being written only while a package is unpacked, and only one that is left.
WritesLeft == writing # None => skillStep = "extract" /\ writing \in left /\ ~whole

SkillTypes == skillLatest \in SkillTags /\ DOMAIN skill = Files

SkillInv == SkillTypes /\ UnpackedSoFar /\ WritesLeft /\ SkillVersionHolds

LEMMA ManifestIsAFile == Manifest \in Files /\ \A v \in SkillTags : Package[v] \subseteq Files
BY PackageAssumption DEF Files

LEMMA SkillInitially == Init => SkillInv
<1> SUFFICES ASSUME Init PROVE SkillInv
  OBVIOUS
<1>1. SkillTypes /\ UnpackedSoFar /\ WritesLeft
  BY DEF Init, SkillTypes, UnpackedSoFar, WritesLeft
<1>2. readSkillVersion = First
  BY PackageAssumption, ManifestIsAFile DEF Init, readSkillVersion
<1>3. SkillVersionHolds
  BY <1>2, PackageAssumption, ManifestIsAFile DEF Init, SkillVersionHolds
<1> QED
  BY <1>1, <1>3 DEF SkillInv

LEMMA SkillKeepsInv ==
    ASSUME SkillInv, Skill
    PROVE  SkillInv'
<1> USE DEF SkillInv, SkillTypes, UnpackedSoFar, WritesLeft
<1>1. CASE SkillRun
  BY <1>1 DEF SkillRun, SkillVersionHolds, readSkillVersion
<1>2. CASE SkillDownload
  BY <1>2 DEF SkillDownload, SkillVersionHolds, readSkillVersion
<1>3. CASE OpenFile
  <2>1. PICK f \in left : writing' = f /\ skill' = [skill EXCEPT ![f] = Torn]
    BY <1>3 DEF OpenFile, ToUnpack
  <2>2. UnpackedSoFar' /\ WritesLeft' /\ SkillTypes' /\ ~whole'
    BY <1>3, <2>1 DEF OpenFile
  <2> QED
    BY <2>2 DEF SkillVersionHolds
<1>4. CASE CloseFile
  <2>1. UnpackedSoFar' /\ WritesLeft' /\ SkillTypes' /\ ~whole'
    BY <1>4, ManifestIsAFile DEF CloseFile
  <2> QED
    BY <2>1 DEF SkillVersionHolds
<1>5. CASE Unpacked
  <2>1. pack \in SkillTags /\ \A f \in Package[pack] : skill'[f] = pack
    BY <1>5 DEF Unpacked, SkillEnds, ToUnpack
  <2>2. readSkillVersion' = pack
    BY <2>1, PackageAssumption DEF readSkillVersion
  <2>3. SkillVersionHolds'
    BY <2>1, <2>2 DEF SkillVersionHolds
  <2> QED
    BY <1>5, <2>3 DEF Unpacked, SkillEnds
<1>6. CASE SkillStops
  <2>1. SkillVersionHolds'
    BY <1>6 DEF SkillStops, SkillEnds, SkillVersionHolds, readSkillVersion
  <2> QED
    BY <1>6, <2>1 DEF SkillStops, SkillEnds
<1> QED
  BY <1>1, <1>2, <1>3, <1>4, <1>5, <1>6 DEF Skill

LEMMA SkillStep == SkillInv /\ [Next]_vars => SkillInv'
<1> SUFFICES ASSUME SkillInv, [Next]_vars PROVE SkillInv'
  OBVIOUS
<1>1. CASE Skill
  BY <1>1, SkillKeepsInv
<1>2. ASSUME UNCHANGED skillVars, skillLatest' \in SkillTags PROVE SkillInv'
  BY <1>2 DEF skillVars, SkillInv, SkillTypes, UnpackedSoFar, WritesLeft,
              SkillVersionHolds, readSkillVersion
<1>3. CASE SkillRelease
  BY <1>2, <1>3 DEF SkillRelease
<1>4. CASE CliRelease \/ (\E u \in Updaters : UpdateRun(u) \/ UpdateStep(u))
  BY <1>2, <1>4 DEF CliRelease, UpdateRun, UpdateStep, SkillInv, SkillTypes
<1>5. CASE ListenerStarts \/ ListenerEnds \/ Notify
  BY <1>2, <1>5 DEF ListenerStarts, ListenerEnds, Notify, checkAndNotifyUpdate,
                    SkillInv, SkillTypes
<1>6. CASE UNCHANGED vars
  BY <1>2, <1>6 DEF vars, SkillInv, SkillTypes
<1> QED
  BY <1>1, <1>3, <1>4, <1>5, <1>6 DEF Next

\* For any versions of the skill and any packages of files: after an extraction
\* that ended, SKILL.md tells the version of every file of its package, whatever
\* extractions before it had left there.
THEOREM SkillVersionTheorem == Spec => []SkillVersionHolds
<1>1. SkillInv => SkillVersionHolds
  BY DEF SkillInv
<1> QED
  BY <1>1, SkillInitially, SkillStep, PTL DEF Spec

=============================================================================

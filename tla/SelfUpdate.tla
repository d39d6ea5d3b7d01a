----------------------------- MODULE SelfUpdate -----------------------------
(***************************************************************************)
(* `update' (update.go): the latest tag, the comparison of versions, the   *)
(* download, and the replacement of the installed binary through the file  *)
(* "<binary>.new", by commands that may run at the same time.              *)
(*                                                                         *)
(* Files are what the kernel makes of them: a path leads to an inode, an   *)
(* open file keeps its inode through a rename, and a file that is opened   *)
(* for writing again is the same inode, emptied.  A binary is Chunks       *)
(* pieces, each of the version it was written from.                        *)
(***************************************************************************)
EXTENDS Naturals, Sequences, FiniteSets

CONSTANTS
    Updaters,   \* processes that run `update'
    Tags,       \* versions, as parseVersion returns them
    First,      \* the one installed at first
    Inodes,     \* files that binary and binary.new can be
    Chunks,     \* pieces of a binary that are written one after another
    None        \* no file, no version

ASSUME TagsAssumption == First \in Tags /\ \A v \in Tags : v \in Seq(Nat) /\ None # v
ASSUME InodesAssumption == Inodes # {} /\ None \notin Inodes
ASSUME ChunksAssumption == Chunks \in Nat \ {0}

VARIABLES
    latest,   \* the tag of the latest release, as the servers tell it
    content,  \* inode -> piece -> the version it comes from, or None
    bin,      \* the inode at the path of the binary
    new,      \* the inode at the path binary.new, or None
    step,     \* what each updater does
    ran,      \* the version compiled into it
    tag,      \* the version it installs
    file,     \* the inode it writes to, or None
    pos,      \* pieces it has written
    together  \* two updaters have run at the same time (history)

updateVars == <<latest, content, bin, new, step, ran, tag, file, pos, together>>

UpdateSteps == {"idle", "fetch", "download", "unpack", "create", "copy", "chmod", "rename"}
Pieces == 1 .. Chunks

-----------------------------------------------------------------------------
(* Versions *)

\* The i-th number of a version; one that is not there is 0.
Part(v, i) == IF i \in DOMAIN v THEN v[i] ELSE 0

NewerIn(a, b, parts) ==
    \E i \in 1 .. parts :
        Part(a, i) > Part(b, i) /\ \A j \in 1 .. i - 1 : Part(a, j) = Part(b, j)

isNewer(a, b) == NewerIn(a, b, 3)

\* A patch is no news to the user.
isMajorMinorNewer(a, b) == NewerIn(a, b, 2)

-----------------------------------------------------------------------------
(* The binary *)

\* Inode i holds version v, all of it.
Holds(i, v) == content[i] = [k \in Pieces |-> v]

UpdateInit ==
    /\ latest \in Tags
    /\ bin \in Inodes /\ new = None
    /\ content = [i \in Inodes |-> [k \in Pieces |-> IF i = bin THEN First ELSE None]]
    /\ step = [u \in Updaters |-> "idle"]
    /\ ran = [u \in Updaters |-> First] /\ tag = [u \in Updaters |-> First]
    /\ file = [u \in Updaters |-> None]
    /\ pos = [u \in Updaters |-> 0]
    /\ together = FALSE

\* A release is published or withdrawn, or a proxy tells an older one.
Release ==
    /\ latest' \in Tags \ {latest}
    /\ UNCHANGED <<content, bin, new, step, ran, tag, file, pos, together>>

Go(u, s) == step' = [step EXCEPT ![u] = s]

\* `update' runs what the path holds: a binary that is not whole does not run.
Run(u) ==
    /\ step[u] = "idle"
    /\ \E v \in Tags : Holds(bin, v) /\ ran' = [ran EXCEPT ![u] = v]
    /\ Go(u, "fetch")
    /\ together' = (together \/ \E w \in Updaters \ {u} : step[w] # "idle")
    /\ UNCHANGED <<latest, content, bin, new, tag, file, pos>>

\* The process ends: its files are closed.
Ends(u) ==
    /\ Go(u, "idle")
    /\ ran' = [ran EXCEPT ![u] = First] /\ tag' = [tag EXCEPT ![u] = First]
    /\ file' = [file EXCEPT ![u] = None]
    /\ pos' = [pos EXCEPT ![u] = 0]
    /\ UNCHANGED <<latest, together>>

\* Mutant of WantsLatest: any other version will do.
WantsOther(u) == latest # ran[u]

WantsLatest(u) == isNewer(latest, ran[u])

Fetch(u) ==
    /\ step[u] = "fetch"
    /\ \/ /\ WantsLatest(u)
          /\ tag' = [tag EXCEPT ![u] = latest]
          /\ Go(u, "download")
          /\ UNCHANGED <<latest, ran, file, pos, together>>
       \/ ~WantsLatest(u) /\ Ends(u)
    /\ UNCHANGED <<content, bin, new>>

\* The archive is fetched from one of two servers into a directory of the process.
Download(u) ==
    /\ step[u] = "download"
    /\ Go(u, "unpack")
    /\ UNCHANGED <<latest, content, bin, new, ran, tag, file, pos, together>>

\* It is unpacked there, and the binary found among its files; one that has none of
\* that name ends the update (Stops).
Unpack(u) ==
    /\ step[u] = "unpack"
    /\ Go(u, "create")
    /\ UNCHANGED <<latest, content, bin, new, ran, tag, file, pos, together>>

Empty == [k \in Pieces |-> None]

\* Mutant of Create: the binary is written where it lies.
CreateInPlace(u) ==
    /\ step[u] = "create"
    /\ file' = [file EXCEPT ![u] = bin]
    /\ content' = [content EXCEPT ![bin] = Empty]
    /\ Go(u, "copy")
    /\ UNCHANGED <<latest, bin, new, ran, tag, pos, together>>

\* copyFile: os.Create opens binary.new, emptying what is there.
Create(u) ==
    /\ step[u] = "create"
    /\ \E i \in Inodes :
        /\ IF new = None THEN i # bin /\ \A w \in Updaters : file[w] # i ELSE i = new
        /\ new' = i
        /\ file' = [file EXCEPT ![u] = i]
        /\ content' = [content EXCEPT ![i] = Empty]
    /\ Go(u, "copy")
    /\ UNCHANGED <<latest, bin, ran, tag, pos, together>>

\* io.Copy writes the next piece, at its own offset.
Copy(u) ==
    /\ step[u] = "copy"
    /\ pos[u] < Chunks
    /\ content' = [content EXCEPT ![file[u]][pos[u] + 1] = tag[u]]
    /\ pos' = [pos EXCEPT ![u] = @ + 1]
    /\ UNCHANGED <<latest, bin, new, step, ran, tag, file, together>>

Copied(u) ==
    /\ step[u] = "copy"
    /\ pos[u] = Chunks
    /\ file' = [file EXCEPT ![u] = None]
    /\ Go(u, "chmod")
    /\ UNCHANGED <<latest, content, bin, new, ran, tag, pos, together>>

Chmod(u) ==
    /\ step[u] = "chmod"
    /\ new # None
    /\ Go(u, "rename")
    /\ UNCHANGED <<latest, content, bin, new, ran, tag, file, pos, together>>

\* Whatever binary.new is by now becomes the binary.
Rename(u) ==
    /\ step[u] = "rename"
    /\ new # None
    /\ bin' = new /\ new' = None
    /\ Ends(u)
    /\ UNCHANGED content

\* chmod or rename fails: no right to, or the file is gone.  What is at the path
\* is removed.
ReplaceFails(u) ==
    /\ step[u] \in {"chmod", "rename"}
    /\ new' = None
    /\ Ends(u)
    /\ UNCHANGED <<content, bin>>

\* The process is killed, or gives up: --check-only; no answer, no archive, no
\* binary in it, no room.  binary.new stays as it is.
Stops(u) ==
    /\ step[u] # "idle"
    /\ Ends(u)
    /\ UNCHANGED <<content, bin, new>>

Updates(u) ==
    \/ Run(u) \/ Fetch(u) \/ Download(u) \/ Unpack(u) \/ Create(u) \/ Copy(u) \/ Copied(u)
    \/ Chmod(u) \/ Rename(u) \/ ReplaceFails(u) \/ Stops(u)

UpdateNext == Release \/ \E u \in Updaters : Updates(u)

UpdateSpec == UpdateInit /\ [][UpdateNext]_updateVars
=============================================================================

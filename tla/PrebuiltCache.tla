---------------------------- MODULE PrebuiltCache ----------------------------
(***************************************************************************)
(* The cache of native libraries of one user: `dart run iroh_quic:setup`   *)
(* (bin/setup.dart) downloads a library to a temporary file and renames    *)
(* it, `dart run iroh_quic:build` (bin/build.dart) compiles one and copies *)
(* it over the path that the loader reads.  Each is a process of its own   *)
(* and may be killed at any step.                                          *)
(*                                                                         *)
(* A file is written part by part.  A path names an inode; a rename moves  *)
(* the name, an open for writing truncates the inode that is there.  An    *)
(* inode bears the name of the installer that created it: no installer     *)
(* creates two.                                                            *)
(***************************************************************************)
EXTENDS Integers, FiniteSets

CONSTANTS
    Setups,       \* runs of setup
    Builds,       \* runs of build
    Forced,       \* the setups with --force
    NoVerify,     \* the setups with --no-verify
    Parts,        \* number of writes that a library takes
    Overlap,      \* two installers may run at once
    NoFile

ASSUME InstallerAssumption ==
    /\ Setups \cap Builds = {} /\ NoFile \notin Setups \cup Builds
    /\ Forced \subseteq Setups /\ NoVerify \subseteq Setups
ASSUME PartsAssumption == Parts \in Nat \ {0} /\ Overlap \in BOOLEAN

Installers == Setups \cup Builds

VARIABLES
    dest,         \* inode at prebuiltCacheLibPath, or NoFile
    tmp,          \* inode at "$dest.tmp", or NoFile
    content,      \* [Installers -> [1..Parts -> Origin]] what the inodes hold
    inst,         \* [Installers -> InstState]
    fd,           \* [Installers -> inode the installer has opened]
    pos,          \* [Installers -> parts it has written]
    data          \* [Installers -> Origin] what it downloaded or compiled

cacheVars == <<dest, tmp, content, inst, fd, pos, data>>

InstState == {"idle", "download", "verify", "open", "write", "compile", "copy",
              "installed", "skipped", "failed", "killed"}
Busy == {"download", "verify", "open", "write", "compile", "copy"}

(* Where a part comes from: a release, a download that differs from the    *)
(* release, a local compilation; "none" was not written.                   *)
Origin == {"none", "release", "damaged", "local"}
Empty  == [p \in 1..Parts |-> "none"]

(* All parts of a file are there and of one origin.                        *)
Whole(f) == \E o \in Origin \ {"none"} : content[f] = [p \in 1..Parts |-> o]

CacheTypeOK ==
    /\ dest \in Installers \cup {NoFile} /\ tmp \in Installers \cup {NoFile}
    /\ content \in [Installers -> [1..Parts -> Origin]]
    /\ inst \in [Installers -> InstState]
    /\ fd \in [Installers -> Installers \cup {NoFile}]
    /\ pos \in [Installers -> 0..Parts]
    /\ data \in [Installers -> Origin]

CacheInit ==
    /\ dest = NoFile /\ tmp = NoFile
    /\ content = [i \in Installers |-> Empty]
    /\ inst = [i \in Installers |-> "idle"]
    /\ fd = [i \in Installers |-> NoFile]
    /\ pos = [i \in Installers |-> 0]
    /\ data = [i \in Installers |-> "none"]

files == <<dest, tmp, content>>

May(i) == inst[i] = "idle" /\ (Overlap \/ \A j \in Installers : inst[j] \notin Busy)

Becomes(i, st) == inst' = [inst EXCEPT ![i] = st]

(* Open for writing: the inode f that has the name already is truncated,   *)
(* otherwise i creates one.                                                *)
Opens(i, f) ==
    LET n == IF f = NoFile THEN i ELSE f
    IN  fd' = [fd EXCEPT ![i] = n] /\ content' = [content EXCEPT ![n] = Empty]

(* i writes the next part to its descriptor.                               *)
Writes(i) ==
    /\ pos[i] < Parts
    /\ content' = [content EXCEPT ![fd[i]][pos[i] + 1] = data[i]]
    /\ pos' = [pos EXCEPT ![i] = @ + 1]

(***************************************************************************)
(* setup                                                                   *)
(***************************************************************************)

(* A library that is there is kept unless --force is given.                *)
StartSetup(s) ==
    /\ May(s)
    /\ Becomes(s, IF dest # NoFile /\ s \notin Forced THEN "skipped" ELSE "download")
    /\ UNCHANGED <<files, fd, pos, data>>

Download(s) ==
    /\ inst[s] = "download"
    /\ \E o \in {"release", "damaged"} : data' = [data EXCEPT ![s] = o]
    /\ Becomes(s, IF s \in NoVerify THEN "open" ELSE "verify")
    /\ UNCHANGED <<files, fd, pos>>

(* The signature of a release fits; of anything else it does not.          *)
Verify(s) ==
    /\ inst[s] = "verify"
    /\ Becomes(s, IF data[s] = "release" THEN "open" ELSE "failed")
    /\ UNCHANGED <<files, fd, pos, data>>

(* Mutant: no temporary file. *)
OpenDestInstead(s) ==
    /\ inst[s] = "open" /\ Opens(s, dest)
    /\ dest' = fd'[s] /\ tmp' = fd'[s] /\ Becomes(s, "write")
    /\ UNCHANGED <<pos, data>>

OpenTmp(s) ==
    /\ inst[s] = "open" /\ Opens(s, tmp)
    /\ tmp' = fd'[s] /\ Becomes(s, "write")
    /\ UNCHANGED <<dest, pos, data>>

(* Mutant: the write does not stop at the end of the data. *)
WriteTmpOn(s) ==
    /\ inst[s] = "write"
    /\ content' = [content EXCEPT ![fd[s]][1] = data[s]]
    /\ pos' = [pos EXCEPT ![s] = @ + 1]
    /\ UNCHANGED <<dest, tmp, inst, fd, data>>

WriteTmp(s) ==
    /\ inst[s] = "write" /\ Writes(s)
    /\ UNCHANGED <<dest, tmp, inst, fd, data>>

(* Mutant: the write is not awaited. *)
RenameEarly(s) ==
    /\ inst[s] = "write" /\ tmp # NoFile
    /\ Becomes(s, "installed") /\ dest' = tmp /\ tmp' = NoFile
    /\ UNCHANGED <<content, fd, pos, data>>

(* The rename fails when another setup has renamed the temporary file.     *)
RenameTmp(s) ==
    /\ inst[s] = "write" /\ pos[s] = Parts
    /\ IF tmp = NoFile
       THEN Becomes(s, "failed") /\ UNCHANGED <<dest, tmp>>
       ELSE Becomes(s, "installed") /\ dest' = tmp /\ tmp' = NoFile
    /\ UNCHANGED <<content, fd, pos, data>>

(* No network, no release, no signature, no permission or a full disk:     *)
(* the exception is printed.  What was written stays.                      *)
SetupFails(s) ==
    /\ inst[s] \in {"download", "verify", "open", "write"}
    /\ Becomes(s, "failed") /\ UNCHANGED <<files, fd, pos, data>>

(***************************************************************************)
(* build                                                                   *)
(***************************************************************************)

StartBuild(b) == May(b) /\ Becomes(b, "compile") /\ UNCHANGED <<files, fd, pos, data>>

(* cargo succeeds; the copy opens and truncates the file at dest.          *)
OpenDest(b) ==
    /\ inst[b] = "compile" /\ Opens(b, dest)
    /\ dest' = fd'[b] /\ data' = [data EXCEPT ![b] = "local"] /\ Becomes(b, "copy")
    /\ UNCHANGED <<tmp, pos>>

CopyPart(b) ==
    /\ inst[b] = "copy" /\ Writes(b)
    /\ UNCHANGED <<dest, tmp, inst, fd, data>>

(* Mutant: the copy is not awaited. *)
CopyDoneEarly(b) ==
    inst[b] = "copy" /\ Becomes(b, "installed") /\ UNCHANGED <<files, fd, pos, data>>

CopyDone(b) ==
    /\ inst[b] = "copy" /\ pos[b] = Parts /\ Becomes(b, "installed")
    /\ UNCHANGED <<files, fd, pos, data>>

(* cargo fails, or the disk is full.                                       *)
BuildFails(b) ==
    /\ inst[b] \in {"compile", "copy"} /\ Becomes(b, "failed")
    /\ UNCHANGED <<files, fd, pos, data>>

Kill(i) ==
    inst[i] \in Busy /\ Becomes(i, "killed") /\ UNCHANGED <<files, fd, pos, data>>

CacheNext ==
    \/ \E s \in Setups : \/ StartSetup(s) \/ Download(s) \/ Verify(s) \/ OpenTmp(s)
                         \/ WriteTmp(s) \/ RenameTmp(s) \/ SetupFails(s)
    \/ \E b \in Builds : \/ StartBuild(b) \/ OpenDest(b) \/ CopyPart(b) \/ CopyDone(b)
                         \/ BuildFails(b)
    \/ \E i \in Installers : Kill(i)

(***************************************************************************)
(* Properties                                                              *)
(***************************************************************************)

(* A file at dest that is not whole is one that a build is copying or left *)
(* behind: a setup that fails or is killed never shows half a library.     *)
(* (setup.dart 68-72: write to a temporary file, then rename)              *)
SetupInstallsWhole ==
    (dest # NoFile /\ ~Whole(dest)) =>
        \E b \in Builds : fd[b] = dest /\ inst[b] \in {"copy", "failed", "killed"}

(* What stands at dest was signed, or compiled here, unless a setup that   *)
(* was told not to verify has installed something.                         *)
(* (setup.dart 51-65: a failed verification returns before the write)      *)
OnlyVerified ==
    (dest # NoFile /\ \E p \in 1..Parts : content[dest][p] = "damaged") =>
        \E s \in NoVerify : inst[s] = "installed"

(* The loader never sees part of a library, as setup.dart 68-69 says.      *)
(* Builds, whose copy is not atomic, are left out of the instance.         *)
NoPartialSeen == dest # NoFile => Whole(dest)

=============================================================================

---------------------------- MODULE LoaderProofs ----------------------------
(***************************************************************************)
(* Proofs about the cache and the loader for every number of installers,   *)
(* parts and calls.  What is said of setups holds while one installer runs *)
(* at a time; that is an assumption of those theorems.                     *)
(***************************************************************************)
EXTENDS Loader, TLAPS

(* Type correctness is inductive by itself once a busy installer has what  *)
(* it works on: nothing is written to a file that is not open.             *)
FilesAreOpen == \A i \in Installers :
    /\ inst[i] \in {"write", "copy"} => fd[i] \in Installers
    /\ inst[i] = "copy" => i \in Builds

(* One installer at a time.                                                *)
Alone == \A i, j \in Installers : inst[i] \in Busy /\ inst[j] \in Busy => i = j

(* Before it opens a file an installer has written nothing and created     *)
(* nothing.                                                                *)
Before == {"idle", "download", "verify", "open", "compile"}
NothingYet == \A i \in Installers : inst[i] \in Before =>
    pos[i] = 0 /\ i # dest /\ i # tmp

(* A setup works with the release, or what it need not verify.             *)
DataIsFit == \A s \in Setups :
    /\ inst[s] \in {"verify", "open", "write"} => data[s] \in {"release", "damaged"}
    /\ inst[s] \in {"open", "write"} /\ data[s] = "damaged" => s \in NoVerify

(* i has written its first parts to its file.                              *)
Written(i) == \A p \in 1..pos[i] : content[fd[i]][p] = data[i]

(* While a setup writes, the temporary file is its own and hidden; a build *)
(* writes to the visible one.                                              *)
SetupHides == \A s \in Setups : inst[s] = "write" => tmp = fd[s] /\ Written(s)
BuildShows == \A b \in Builds : inst[b] = "copy" =>
    dest = fd[b] /\ data[b] = "local" /\ Written(b)

Apart == tmp # NoFile => tmp # dest

CacheInv ==
    /\ Alone /\ NothingYet /\ DataIsFit
    /\ SetupHides /\ BuildShows /\ Apart /\ SetupInstallsWhole

(* What the program knows about its library.                               *)
InitInv ==
    /\ initialised => frb = "good"
    /\ \A c \in InitCalls : call[c] = "ok" => initialised

-----------------------------------------------------------------------------
LEMMA TypeInit == Init => LoaderTypeOK /\ FilesAreOpen
<1> SUFFICES ASSUME Init PROVE LoaderTypeOK /\ FilesAreOpen
  OBVIOUS
<1>1. Empty \in [1..Parts -> Origin] /\ 0 \in 0..Parts
  BY PartsAssumption DEF Empty, Origin
<1>2. CacheTypeOK
  BY <1>1 DEF Init, CacheInit, CacheTypeOK, Origin, InstState
<1>3. LoaderTypeOK
  BY <1>2 DEF Init, LoaderTypeOK, Library, CallState
<1> QED BY <1>3 DEF Init, CacheInit, FilesAreOpen

(* An open and a write leave every file a file.                            *)
LEMMA OpensType ==
    ASSUME CacheTypeOK, NEW i \in Installers, NEW f \in Installers \cup {NoFile}, Opens(i, f)
    PROVE  /\ fd' \in [Installers -> Installers \cup {NoFile}] /\ fd'[i] \in Installers
           /\ content' \in [Installers -> [1..Parts -> Origin]]
           /\ \A j \in Installers : j # i => fd'[j] = fd[j]
<1> DEFINE n == IF f = NoFile THEN i ELSE f
<1>1. n \in Installers /\ Empty \in [1..Parts -> Origin]
  BY DEF Empty, Origin
<1>2. fd' = [fd EXCEPT ![i] = n] /\ content' = [content EXCEPT ![n] = Empty]
  BY DEF Opens
<1> QED BY <1>1, <1>2 DEF CacheTypeOK

LEMMA WritesType ==
    ASSUME CacheTypeOK, NEW i \in Installers, fd[i] \in Installers, Writes(i)
    PROVE  /\ pos' \in [Installers -> 0..Parts]
           /\ content' \in [Installers -> [1..Parts -> Origin]]
<1>1. pos[i] \in 0..Parts /\ pos[i] < Parts /\ data[i] \in Origin
  BY DEF CacheTypeOK, Writes
<1>2. pos[i] + 1 \in 0..Parts /\ pos[i] + 1 \in 1..Parts
  BY <1>1, PartsAssumption
<1>3. content[fd[i]] \in [1..Parts -> Origin]
  BY DEF CacheTypeOK
<1>4. [content[fd[i]] EXCEPT ![pos[i] + 1] = data[i]] \in [1..Parts -> Origin]
  BY <1>1, <1>3
<1> QED BY <1>1, <1>2, <1>4 DEF CacheTypeOK, Writes

LEMMA CacheTypeStep ==
    ASSUME CacheTypeOK, FilesAreOpen, CacheNext
    PROVE  CacheTypeOK' /\ FilesAreOpen'
<1> USE InstallerAssumption, PartsAssumption DEF Installers
<1>1. ASSUME NEW s \in Setups, StartSetup(s) \/ Verify(s) \/ SetupFails(s)
      PROVE  CacheTypeOK' /\ FilesAreOpen'
  <2>1. CASE StartSetup(s)
    BY <2>1 DEF StartSetup, Becomes, files, CacheTypeOK, FilesAreOpen, InstState
  <2>2. CASE Verify(s)
    BY <2>2 DEF Verify, Becomes, files, CacheTypeOK, FilesAreOpen, InstState
  <2>3. CASE SetupFails(s)
    BY <2>3 DEF SetupFails, Becomes, files, CacheTypeOK, FilesAreOpen, InstState
  <2> QED BY <1>1, <2>1, <2>2, <2>3
<1>2. ASSUME NEW s \in Setups, Download(s) PROVE CacheTypeOK' /\ FilesAreOpen'
  BY <1>2 DEF Download, Becomes, files, CacheTypeOK, FilesAreOpen, InstState, Origin
<1>3. ASSUME NEW s \in Setups, OpenTmp(s) PROVE CacheTypeOK' /\ FilesAreOpen'
  <2>1. Opens(s, tmp) /\ tmp \in Installers \cup {NoFile}
    BY <1>3 DEF OpenTmp, CacheTypeOK
  <2>2. /\ fd' \in [Installers -> Installers \cup {NoFile}] /\ fd'[s] \in Installers
        /\ content' \in [Installers -> [1..Parts -> Origin]]
        /\ \A j \in Installers : j # s => fd'[j] = fd[j]
    BY <2>1, OpensType
  <2> QED BY <1>3, <2>2 DEF OpenTmp, Becomes, CacheTypeOK, FilesAreOpen, InstState
<1>4. ASSUME NEW s \in Setups, WriteTmp(s) PROVE CacheTypeOK' /\ FilesAreOpen'
  <2>1. fd[s] \in Installers /\ Writes(s)
    BY <1>4 DEF WriteTmp, FilesAreOpen
  <2>2. /\ pos' \in [Installers -> 0..Parts]
        /\ content' \in [Installers -> [1..Parts -> Origin]]
    BY <2>1, WritesType
  <2> QED BY <1>4, <2>2 DEF WriteTmp, CacheTypeOK, FilesAreOpen
<1>5. ASSUME NEW s \in Setups, RenameTmp(s) PROVE CacheTypeOK' /\ FilesAreOpen'
  <2>1. /\ dest' \in Installers \cup {NoFile} /\ tmp' \in Installers \cup {NoFile}
        /\ UNCHANGED <<content, fd, pos, data>>
    BY <1>5 DEF RenameTmp, CacheTypeOK
  <2>2. Becomes(s, "installed") \/ Becomes(s, "failed")
    BY <1>5 DEF RenameTmp
  <2>3. /\ inst' \in [Installers -> InstState]
        /\ \A i \in Installers : inst'[i] = inst[i] \/ inst'[i] \in {"installed", "failed"}
    BY <2>2 DEF Becomes, CacheTypeOK, InstState
  <2> QED BY <2>1, <2>3 DEF CacheTypeOK, FilesAreOpen
<1>6. ASSUME NEW b \in Builds, StartBuild(b) \/ CopyDone(b) \/ BuildFails(b)
      PROVE  CacheTypeOK' /\ FilesAreOpen'
  <2>1. CASE StartBuild(b)
    BY <2>1 DEF StartBuild, Becomes, files, CacheTypeOK, FilesAreOpen, InstState
  <2>2. CASE CopyDone(b)
    BY <2>2 DEF CopyDone, Becomes, files, CacheTypeOK, FilesAreOpen, InstState
  <2>3. CASE BuildFails(b)
    BY <2>3 DEF BuildFails, Becomes, files, CacheTypeOK, FilesAreOpen, InstState
  <2> QED BY <1>6, <2>1, <2>2, <2>3
<1>7. ASSUME NEW b \in Builds, OpenDest(b) PROVE CacheTypeOK' /\ FilesAreOpen'
  <2>1. Opens(b, dest) /\ dest \in Installers \cup {NoFile}
    BY <1>7 DEF OpenDest, CacheTypeOK
  <2>2. /\ fd' \in [Installers -> Installers \cup {NoFile}] /\ fd'[b] \in Installers
        /\ content' \in [Installers -> [1..Parts -> Origin]]
        /\ \A j \in Installers : j # b => fd'[j] = fd[j]
    BY <2>1, OpensType
  <2> QED BY <1>7, <2>2 DEF OpenDest, Becomes, CacheTypeOK, FilesAreOpen, InstState, Origin
<1>8. ASSUME NEW b \in Builds, CopyPart(b) PROVE CacheTypeOK' /\ FilesAreOpen'
  <2>1. fd[b] \in Installers /\ Writes(b)
    BY <1>8 DEF CopyPart, FilesAreOpen
  <2>2. /\ pos' \in [Installers -> 0..Parts]
        /\ content' \in [Installers -> [1..Parts -> Origin]]
    BY <2>1, WritesType
  <2> QED BY <1>8, <2>2 DEF CopyPart, CacheTypeOK, FilesAreOpen
<1>9. ASSUME NEW i \in Installers, Kill(i) PROVE CacheTypeOK' /\ FilesAreOpen'
  BY <1>9 DEF Kill, Becomes, files, CacheTypeOK, FilesAreOpen, InstState
<1> QED
  BY <1>1, <1>2, <1>3, <1>4, <1>5, <1>6, <1>7, <1>8, <1>9 DEF CacheNext

(* A library that RustLib.init keeps is an old or a good one.              *)
LEMMA LoaderTypeStep ==
    ASSUME LoaderTypeOK, NEW c \in InitCalls, CallInit(c) \/ CheckAbi(c), UNCHANGED cacheVars
    PROVE  LoaderTypeOK'
<1>1. CacheTypeOK'
  BY DEF LoaderTypeOK, CacheTypeOK, cacheVars
<1>2. Opened \subseteq Installers
  BY DEF Opened, LoaderTypeOK, CacheTypeOK
<1>3. CASE CallInit(c)
  BY <1>1, <1>2, <1>3 DEF CallInit, Answer, LoaderTypeOK, CallState
<1>4. CASE CheckAbi(c)
  BY <1>1, <1>4 DEF CheckAbi, Answer, LoaderTypeOK, CallState
<1> QED BY <1>3, <1>4

LEMMA TypeStep ==
    LoaderTypeOK /\ FilesAreOpen /\ [Next]_vars => LoaderTypeOK' /\ FilesAreOpen'
<1> SUFFICES ASSUME LoaderTypeOK, FilesAreOpen, [Next]_vars
             PROVE  LoaderTypeOK' /\ FilesAreOpen'
  OBVIOUS
<1>1. CASE CacheNext /\ UNCHANGED loaderVars
  <2>1. CacheTypeOK' /\ FilesAreOpen'
    BY <1>1, CacheTypeStep DEF LoaderTypeOK
  <2> QED BY <1>1, <2>1 DEF LoaderTypeOK, loaderVars
<1>2. ASSUME NEW c \in InitCalls, CallInit(c) \/ CheckAbi(c), UNCHANGED cacheVars
      PROVE  LoaderTypeOK' /\ FilesAreOpen'
  BY <1>2, LoaderTypeStep DEF FilesAreOpen, cacheVars
<1>3. CASE UNCHANGED vars
  BY <1>3 DEF vars, cacheVars, loaderVars, LoaderTypeOK, CacheTypeOK, FilesAreOpen
<1> QED BY <1>1, <1>2, <1>3 DEF Next

(* Type correctness: whatever fails, is killed or runs at the same time,   *)
(* no process writes beyond its file or to a file that is not open.        *)
THEOREM TypeCorrect == Spec => []LoaderTypeOK
BY TypeInit, TypeStep, PTL DEF Spec

-----------------------------------------------------------------------------
(* A file whose writer has reached the end holds all of its data.          *)
LEMMA AllWritten ==
    ASSUME CacheTypeOK, NEW i \in Installers, fd[i] \in Installers, Written(i), pos[i] = Parts
    PROVE  content[fd[i]] = [p \in 1..Parts |-> data[i]]
<1>1. content[fd[i]] \in [1..Parts -> Origin]
  BY DEF CacheTypeOK
<1>2. \A p \in 1..Parts : content[fd[i]][p] = data[i]
  BY DEF Written
<1> QED BY <1>1, <1>2

(* One more part is written, the earlier ones stay.                        *)
LEMMA WritesKeep ==
    ASSUME CacheTypeOK, NEW i \in Installers, fd[i] \in Installers, Written(i), Writes(i),
           UNCHANGED <<fd, data>>
    PROVE  /\ Written(i)'
           /\ \A f \in Installers : f # fd[i] => content'[f] = content[f]
<1>1. pos[i] \in Nat /\ pos[i] + 1 \in 1..Parts /\ pos'[i] = pos[i] + 1
  BY PartsAssumption DEF CacheTypeOK, Writes
<1>2. content[fd[i]] \in [1..Parts -> Origin]
  BY DEF CacheTypeOK
<1>3. content'[fd[i]] = [content[fd[i]] EXCEPT ![pos[i] + 1] = data[i]]
  BY DEF CacheTypeOK, Writes
<1>4. \A p \in 1..pos'[i] : content'[fd[i]][p] = data[i]
  <2> TAKE p \in 1..pos'[i]
  <2>1. CASE p = pos[i] + 1
    BY <1>1, <1>2, <1>3, <2>1
  <2>2. CASE p # pos[i] + 1
    <3>1. p \in 1..pos[i] /\ p \in 1..Parts
      BY <1>1, <2>2, PartsAssumption
    <3> QED BY <1>2, <1>3, <2>2, <3>1 DEF Written
  <2> QED BY <2>1, <2>2
<1> QED BY <1>4 DEF Written, Writes, CacheTypeOK

LEMMA CacheInvInit == Init => CacheInv
BY InstallerAssumption
DEF Init, CacheInit, CacheInv, Alone, Busy, NothingYet, DataIsFit, SetupHides, BuildShows,
    Apart, SetupInstallsWhole, Installers

(* A step that only changes where one installer is.                        *)
LEMMA QuietStep ==
    ASSUME CacheTypeOK, CacheInv, NEW i \in Installers, NEW st, Becomes(i, st),
           UNCHANGED <<files, fd, pos, data>>,
           st \in Busy => inst[i] \in Busy \/ \A j \in Installers : inst[j] \notin Busy,
           st \in Before => inst[i] \in Before,
           st \notin {"write", "copy"},
           i \in Setups /\ st \in {"verify", "open"} =>
               /\ data[i] \in {"release", "damaged"}
               /\ st = "open" /\ data[i] = "damaged" => i \in NoVerify,
           inst[i] \notin {"failed", "killed"},
           inst[i] = "copy" => st \in {"failed", "killed"} \/ Whole(dest)
    PROVE  CacheInv'
<1>0. /\ inst'[i] = st /\ \A j \in Installers : j # i => inst'[j] = inst[j]
      /\ UNCHANGED <<dest, tmp, content, fd, pos, data>>
  BY DEF Becomes, CacheTypeOK, files
<1>1. Alone'
  BY <1>0 DEF CacheInv, Alone
<1>2. NothingYet'
  BY <1>0 DEF CacheInv, NothingYet
<1>3. DataIsFit'
  BY <1>0 DEF CacheInv, DataIsFit, Installers
<1>4. SetupHides' /\ BuildShows'
  BY <1>0 DEF CacheInv, SetupHides, BuildShows, Written, Installers
<1>5. Apart'
  BY <1>0 DEF CacheInv, Apart
<1>6. SetupInstallsWhole'
  <2> SUFFICES ASSUME dest # NoFile, ~Whole(dest)
               PROVE  \E b \in Builds : fd[b] = dest /\ inst'[b] \in {"copy", "failed", "killed"}
    BY <1>0 DEF SetupInstallsWhole, Whole
  <2>1. PICK b \in Builds : fd[b] = dest /\ inst[b] \in {"copy", "failed", "killed"}
    BY DEF CacheInv, SetupInstallsWhole
  <2>2. CASE b = i
    BY <1>0, <2>1, <2>2
  <2>3. CASE b # i
    BY <1>0, <2>1, <2>3 DEF Installers
  <2> QED BY <2>2, <2>3
<1> QED BY <1>1, <1>2, <1>3, <1>4, <1>5, <1>6 DEF CacheInv

(* The steps of CacheNext that open, write or rename a file.               *)
LEMMA OpenTmpKeeps ==
    ASSUME CacheTypeOK, FilesAreOpen, CacheInv, NEW s \in Setups, OpenTmp(s)
    PROVE  CacheInv'
<1> DEFINE n == IF tmp = NoFile THEN s ELSE tmp
<1> USE InstallerAssumption DEF Installers
<1>0. /\ inst[s] = "open" /\ inst'[s] = "write" /\ pos[s] = 0 /\ UNCHANGED <<dest, pos, data>>
      /\ \A j \in Installers : j # s => inst'[j] = inst[j] /\ fd'[j] = fd[j]
      /\ tmp' = n /\ fd'[s] = n /\ n \in Installers
      /\ \A f \in Installers : f # n => content'[f] = content[f]
  BY DEF OpenTmp, Opens, Becomes, CacheTypeOK, CacheInv, NothingYet, Before
<1>1. n # dest /\ s # dest
  BY <1>0 DEF CacheInv, NothingYet, Before, Apart
<1>2. \A j \in Installers : j # s => inst[j] \notin Busy
  BY <1>0 DEF CacheInv, Alone, Busy
<1>3. Alone' /\ DataIsFit' /\ Apart'
  BY <1>0, <1>1, <1>2 DEF CacheInv, Alone, DataIsFit, Apart, Busy
<1>4. NothingYet'
  BY <1>0, <1>1 DEF CacheInv, NothingYet, Before
<1>5. SetupHides' /\ BuildShows'
  BY <1>0, <1>2 DEF SetupHides, BuildShows, Written, Busy
<1>6. SetupInstallsWhole'
  <2> SUFFICES ASSUME dest # NoFile, ~Whole(dest)'
               PROVE  \E b \in Builds : fd'[b] = dest /\ inst'[b] \in {"copy", "failed", "killed"}
    BY <1>0 DEF SetupInstallsWhole
  <2>1. ~Whole(dest)
    BY <1>0, <1>1 DEF Whole, CacheTypeOK
  <2>2. PICK b \in Builds : fd[b] = dest /\ inst[b] \in {"copy", "failed", "killed"}
    BY <2>1 DEF CacheInv, SetupInstallsWhole
  <2> QED BY <1>0, <2>2
<1> QED BY <1>3, <1>4, <1>5, <1>6 DEF CacheInv

LEMMA WriteTmpKeeps ==
    ASSUME CacheTypeOK, FilesAreOpen, CacheInv, NEW s \in Setups, WriteTmp(s)
    PROVE  CacheInv'
<1> USE InstallerAssumption DEF Installers
<1>0. /\ inst[s] = "write" /\ fd[s] \in Installers /\ Writes(s) /\ Written(s) /\ tmp = fd[s]
      /\ UNCHANGED <<dest, tmp, inst, fd, data>>
      /\ \A j \in Installers : j # s => pos'[j] = pos[j]
  BY DEF WriteTmp, Writes, FilesAreOpen, CacheInv, SetupHides, CacheTypeOK
<1>1. Written(s)' /\ \A f \in Installers : f # fd[s] => content'[f] = content[f]
  BY <1>0, WritesKeep
<1>2. fd[s] # dest
  BY <1>0 DEF CacheInv, Apart
<1>3. \A j \in Installers : j # s => inst[j] \notin Busy
  BY <1>0 DEF CacheInv, Alone, Busy
<1>4. Alone' /\ DataIsFit' /\ Apart' /\ NothingYet'
  BY <1>0 DEF CacheInv, Alone, DataIsFit, Apart, NothingYet, Before
<1>5. SetupHides' /\ BuildShows'
  BY <1>0, <1>1, <1>3 DEF SetupHides, BuildShows, Busy
<1>6. SetupInstallsWhole'
  BY <1>0, <1>1, <1>2 DEF CacheInv, SetupInstallsWhole, Whole, CacheTypeOK
<1> QED BY <1>4, <1>5, <1>6 DEF CacheInv

(* With one installer at a time the temporary file is there.               *)
LEMMA RenameInstalls ==
    ASSUME CacheTypeOK, FilesAreOpen, CacheInv, NEW s \in Setups, RenameTmp(s)
    PROVE  /\ dest' = tmp /\ tmp' = NoFile /\ tmp = fd[s] /\ tmp \in Installers
           /\ Becomes(s, "installed")
           /\ content[tmp] = [p \in 1..Parts |-> data[s]]
           /\ data[s] \in {"release", "damaged"}
<1>1. fd[s] \in Installers /\ tmp = fd[s] /\ Written(s) /\ pos[s] = Parts
  BY DEF RenameTmp, FilesAreOpen, CacheInv, SetupHides, Installers
<1>2. content[fd[s]] = [p \in 1..Parts |-> data[s]]
  BY <1>1, AllWritten DEF Installers
<1> QED BY <1>1, <1>2, InstallerAssumption DEF RenameTmp, Installers, CacheInv, DataIsFit

LEMMA RenameTmpKeeps ==
    ASSUME CacheTypeOK, FilesAreOpen, CacheInv, NEW s \in Setups, RenameTmp(s)
    PROVE  CacheInv'
<1> USE InstallerAssumption DEF Installers
<1>0. /\ dest' = tmp /\ tmp' = NoFile /\ tmp \in Installers
      /\ content[tmp] = [p \in 1..Parts |-> data[s]] /\ data[s] \in {"release", "damaged"}
      /\ inst[s] = "write" /\ inst'[s] = "installed" /\ UNCHANGED <<content, fd, pos, data>>
      /\ \A j \in Installers : j # s => inst'[j] = inst[j]
  <2>1. inst[s] = "write" /\ UNCHANGED <<content, fd, pos, data>>
    BY DEF RenameTmp
  <2>2. Becomes(s, "installed")
    BY RenameInstalls
  <2>3. inst'[s] = "installed" /\ \A j \in Installers : j # s => inst'[j] = inst[j]
    BY <2>2 DEF Becomes, CacheTypeOK
  <2> QED BY <2>1, <2>3, RenameInstalls
<1>1. \A j \in Installers : j # s => inst[j] \notin Busy
  BY <1>0 DEF CacheInv, Alone, Busy
<1>2. Alone' /\ DataIsFit' /\ Apart'
  BY <1>0, <1>1 DEF CacheInv, Alone, DataIsFit, Apart, Busy
<1>3. NothingYet'
  BY <1>0 DEF CacheInv, NothingYet, Before
<1>4. SetupHides' /\ BuildShows'
  BY <1>0, <1>1 DEF SetupHides, BuildShows, Busy
<1>5. Whole(dest)'
  BY <1>0 DEF Whole, Origin
<1> QED BY <1>2, <1>3, <1>4, <1>5 DEF CacheInv, SetupInstallsWhole

LEMMA OpenDestKeeps ==
    ASSUME CacheTypeOK, FilesAreOpen, CacheInv, NEW b \in Builds, OpenDest(b)
    PROVE  CacheInv'
<1> DEFINE n == IF dest = NoFile THEN b ELSE dest
<1> USE InstallerAssumption DEF Installers
<1>0. /\ inst[b] = "compile" /\ inst'[b] = "copy" /\ pos[b] = 0 /\ UNCHANGED <<tmp, pos>>
      /\ \A j \in Installers : j # b => inst'[j] = inst[j] /\ fd'[j] = fd[j] /\ data'[j] = data[j]
      /\ dest' = n /\ fd'[b] = n /\ data'[b] = "local" /\ n \in Installers
  BY DEF OpenDest, Opens, Becomes, CacheTypeOK, CacheInv, NothingYet, Before
<1>1. n # tmp
  BY <1>0 DEF CacheInv, NothingYet, Before, Apart
<1>2. \A j \in Installers : j # b => inst[j] \notin Busy
  BY <1>0 DEF CacheInv, Alone, Busy
<1>3. Alone' /\ DataIsFit' /\ Apart'
  BY <1>0, <1>1, <1>2 DEF CacheInv, Alone, DataIsFit, Apart, Busy
<1>4. NothingYet'
  BY <1>0 DEF CacheInv, NothingYet, Before
<1>5. SetupHides' /\ BuildShows'
  BY <1>0, <1>2 DEF SetupHides, BuildShows, Written, Busy
<1>6. SetupInstallsWhole'
  BY <1>0 DEF SetupInstallsWhole
<1> QED BY <1>3, <1>4, <1>5, <1>6 DEF CacheInv

LEMMA CopyPartKeeps ==
    ASSUME CacheTypeOK, FilesAreOpen, CacheInv, NEW b \in Builds, CopyPart(b)
    PROVE  CacheInv'
<1> USE InstallerAssumption DEF Installers
<1>0. /\ inst[b] = "copy" /\ fd[b] \in Installers /\ Writes(b) /\ Written(b) /\ dest = fd[b]
      /\ UNCHANGED <<dest, tmp, inst, fd, data>>
      /\ \A j \in Installers : j # b => pos'[j] = pos[j]
  BY DEF CopyPart, Writes, FilesAreOpen, CacheInv, BuildShows, CacheTypeOK
<1>1. Written(b)'
  BY <1>0, WritesKeep
<1>3. \A j \in Installers : j # b => inst[j] \notin Busy
  BY <1>0 DEF CacheInv, Alone, Busy
<1>4. Alone' /\ DataIsFit' /\ Apart' /\ NothingYet'
  BY <1>0 DEF CacheInv, Alone, DataIsFit, Apart, NothingYet, Before
<1>5. SetupHides' /\ BuildShows'
  BY <1>0, <1>1, <1>3 DEF CacheInv, SetupHides, BuildShows, Busy
<1>6. SetupInstallsWhole'
  BY <1>0 DEF SetupInstallsWhole
<1> QED BY <1>4, <1>5, <1>6 DEF CacheInv

(* A copy that is done has written all parts to dest.                      *)
LEMMA CopyDoneInstalls ==
    ASSUME CacheTypeOK, FilesAreOpen, CacheInv, NEW b \in Builds, CopyDone(b)
    PROVE  /\ dest \in Installers /\ content[dest] = [p \in 1..Parts |-> data[b]]
           /\ data[b] = "local"
<1>1. fd[b] \in Installers /\ dest = fd[b] /\ Written(b) /\ pos[b] = Parts /\ data[b] = "local"
  BY DEF CopyDone, FilesAreOpen, CacheInv, BuildShows, Installers
<1> QED BY <1>1, AllWritten DEF Installers

LEMMA CacheInvStep ==
    ASSUME ~Overlap, CacheTypeOK, FilesAreOpen, CacheInv, [Next]_vars
    PROVE  CacheInv'
<1> USE InstallerAssumption DEF Installers
<1>1. ASSUME NEW s \in Setups, StartSetup(s) PROVE CacheInv'
  <2> DEFINE st == IF dest # NoFile /\ s \notin Forced THEN "skipped" ELSE "download"
  <2>1. /\ inst[s] = "idle" /\ \A j \in Installers : inst[j] \notin Busy
        /\ Becomes(s, st) /\ UNCHANGED <<files, fd, pos, data>>
    BY <1>1 DEF StartSetup, May
  <2>2. st \in {"skipped", "download"}
    OBVIOUS
  <2> HIDE DEF st
  <2> QED BY <2>1, <2>2, QuietStep DEF Before
<1>2. ASSUME NEW s \in Setups, Download(s) PROVE CacheInv'
  <2>0. /\ inst[s] = "download" /\ inst'[s] = (IF s \in NoVerify THEN "open" ELSE "verify")
        /\ data'[s] \in {"release", "damaged"} /\ UNCHANGED <<dest, tmp, content, fd, pos>>
        /\ \A j \in Installers : j # s => inst'[j] = inst[j] /\ data'[j] = data[j]
    BY <1>2 DEF Download, Becomes, files, CacheTypeOK
  <2>1. \A j \in Installers : j # s => inst[j] \notin Busy
    BY <2>0 DEF CacheInv, Alone, Busy
  <2>2. Alone' /\ DataIsFit' /\ Apart' /\ NothingYet'
    BY <2>0, <2>1 DEF CacheInv, Alone, DataIsFit, Apart, NothingYet, Before, Busy
  <2>3. SetupHides' /\ BuildShows'
    BY <2>0, <2>1 DEF SetupHides, BuildShows, Busy
  <2>4. SetupInstallsWhole'
    BY <2>0 DEF CacheInv, SetupInstallsWhole, Whole
  <2> QED BY <2>2, <2>3, <2>4 DEF CacheInv
<1>3. ASSUME NEW s \in Setups, Verify(s) PROVE CacheInv'
  <2> DEFINE st == IF data[s] = "release" THEN "open" ELSE "failed"
  <2>1. inst[s] = "verify" /\ Becomes(s, st) /\ UNCHANGED <<files, fd, pos, data>>
    BY <1>3 DEF Verify
  <2>2. st \in {"open", "failed"} /\ (st = "open" => data[s] = "release")
    OBVIOUS
  <2> HIDE DEF st
  <2> QED BY <2>1, <2>2, QuietStep DEF Before, Busy
<1>4. ASSUME NEW s \in Setups, SetupFails(s) PROVE CacheInv'
  BY <1>4, QuietStep DEF SetupFails, Before, Busy
<1>5. ASSUME NEW b \in Builds, StartBuild(b) PROVE CacheInv'
  BY <1>5, QuietStep DEF StartBuild, May, Before
<1>6. ASSUME NEW b \in Builds, CopyDone(b) PROVE CacheInv'
  <2>1. Whole(dest)
    BY <1>6, CopyDoneInstalls DEF Whole, Origin
  <2> QED BY <1>6, <2>1, QuietStep DEF CopyDone, Before, Busy
<1>7. ASSUME NEW b \in Builds, BuildFails(b) PROVE CacheInv'
  BY <1>7, QuietStep DEF BuildFails, Before, Busy
<1>8. ASSUME NEW i \in Installers, Kill(i) PROVE CacheInv'
  BY <1>8, QuietStep DEF Kill, Before, Busy
<1>9. CASE CacheNext
  BY <1>9, <1>1, <1>2, <1>3, <1>4, <1>5, <1>6, <1>7, <1>8, OpenTmpKeeps, WriteTmpKeeps,
     RenameTmpKeeps, OpenDestKeeps, CopyPartKeeps DEF CacheNext
<1>10. CASE UNCHANGED cacheVars
  <2> USE <1>10 DEF cacheVars, CacheInv
  <2>1. Alone' /\ NothingYet' /\ DataIsFit' /\ Apart'
    BY DEF Alone, NothingYet, DataIsFit, Apart
  <2>2. SetupHides' /\ BuildShows'
    BY DEF SetupHides, BuildShows, Written
  <2>3. SetupInstallsWhole'
    BY DEF SetupInstallsWhole, Whole
  <2> QED BY <2>1, <2>2, <2>3
<1> QED BY <1>9, <1>10 DEF Next, vars

(* As long as installers do not overlap, a file at dest that is not whole  *)
(* was left or is being written by a build, for any number of setups and   *)
(* builds that fail or are killed anywhere.  native_overlap shows that the *)
(* assumption is needed.                                                   *)
THEOREM NoHalfSetup == ASSUME ~Overlap PROVE Spec => []SetupInstallsWhole
<1>1. LoaderTypeOK /\ FilesAreOpen /\ CacheInv /\ [Next]_vars => CacheInv'
  BY CacheInvStep DEF LoaderTypeOK
<1>2. CacheInv => SetupInstallsWhole
  BY DEF CacheInv
<1> QED BY <1>1, <1>2, CacheInvInit, TypeInit, TypeStep, PTL DEF Spec

(* Under the same assumption: an installer that reports success has put    *)
(* its library, whole, where the loader looks.                             *)
THEOREM SuccessMeansInstalled == ASSUME ~Overlap PROVE Spec => InstalledIsThere
<1> DEFINE A == \A i \in Installers :
                    inst[i] # "installed" /\ inst'[i] = "installed" => Serves(i)'
<1>1. LoaderTypeOK /\ FilesAreOpen /\ CacheInv /\ [Next]_vars => CacheInv'
  BY CacheInvStep DEF LoaderTypeOK
<1>2. ASSUME LoaderTypeOK, FilesAreOpen, CacheInv, [Next]_vars PROVE A
  <2> SUFFICES ASSUME NEW i \in Installers, inst[i] # "installed", inst'[i] = "installed"
               PROVE  Serves(i)'
    OBVIOUS
  <2> USE InstallerAssumption DEF Installers
  <2>1. CacheTypeOK
    BY <1>2 DEF LoaderTypeOK
  <2>2. CacheNext
    BY <1>2 DEF Next, vars, cacheVars
  <2>3. ASSUME NEW s \in Setups, RenameTmp(s)
        PROVE  Serves(i)'
    <3>1. /\ dest' = tmp /\ tmp \in Installers /\ Becomes(s, "installed")
          /\ content[tmp] = [p \in 1..Parts |-> data[s]]
      BY <1>2, <2>1, <2>3, RenameInstalls
    <3>2. s = i
      BY <2>1, <3>1 DEF Becomes, CacheTypeOK
    <3> QED BY <2>3, <3>1, <3>2 DEF RenameTmp, Serves
  <2>4. ASSUME NEW b \in Builds, CopyDone(b)
        PROVE  Serves(i)'
    <3>1. dest \in Installers /\ content[dest] = [p \in 1..Parts |-> data[b]]
      BY <1>2, <2>1, <2>4, CopyDoneInstalls
    <3>2. b = i
      BY <2>1, <2>4 DEF CopyDone, Becomes, CacheTypeOK
    <3> QED BY <2>4, <3>1, <3>2 DEF CopyDone, files, Serves
  <2>5. ASSUME NEW s \in Setups, StartSetup(s) \/ Download(s) \/ Verify(s) PROVE FALSE
    BY <2>1, <2>5 DEF StartSetup, Download, Verify, Becomes, CacheTypeOK
  <2>6. ASSUME NEW s \in Setups, OpenTmp(s) \/ WriteTmp(s) \/ SetupFails(s) PROVE FALSE
    BY <2>1, <2>6 DEF OpenTmp, WriteTmp, SetupFails, Becomes, CacheTypeOK
  <2>7. ASSUME NEW b \in Builds, StartBuild(b) \/ OpenDest(b) \/ CopyPart(b) \/ BuildFails(b)
        PROVE  FALSE
    BY <2>1, <2>7 DEF StartBuild, OpenDest, CopyPart, BuildFails, Becomes, CacheTypeOK
  <2>8. ASSUME NEW j \in Installers, Kill(j) PROVE FALSE
    BY <2>1, <2>8 DEF Kill, Becomes, CacheTypeOK
  <2> QED BY <2>2, <2>3, <2>4, <2>5, <2>6, <2>7, <2>8 DEF CacheNext
<1>3. Spec => [][A]_vars
  BY <1>1, <1>2, CacheInvInit, TypeInit, TypeStep, PTL DEF Spec
<1> QED BY <1>3 DEF InstalledIsThere

-----------------------------------------------------------------------------
(* What is at dest changes only by a rename and by a build.                *)
LEMMA OnlyVerifiedStep ==
    ASSUME ~Overlap, CacheTypeOK, FilesAreOpen, CacheInv, OnlyVerified, [Next]_vars
    PROVE  OnlyVerified'
<1> USE InstallerAssumption DEF Installers
<1>1. ASSUME UNCHANGED dest, dest # NoFile => content'[dest] = content[dest],
             \A s \in Setups : inst[s] = "installed" => inst'[s] = "installed"
      PROVE  OnlyVerified'
  BY <1>1 DEF OnlyVerified
<1>2. ASSUME NEW s \in Setups, StartSetup(s) \/ Download(s) \/ Verify(s) \/ SetupFails(s)
      PROVE  OnlyVerified'
  <2>1. UNCHANGED <<dest, content>>
    BY <1>2 DEF StartSetup, Download, Verify, SetupFails, files
  <2>2. \A r \in Setups : inst[r] = "installed" => inst'[r] = "installed"
    BY <1>2 DEF StartSetup, May, Download, Verify, SetupFails, Becomes, CacheTypeOK
  <2> QED BY <1>1, <2>1, <2>2
<1>3. ASSUME NEW s \in Setups, OpenTmp(s) PROVE OnlyVerified'
  <2>1. UNCHANGED dest /\ inst[s] = "open"
        /\ \A r \in Setups : inst[r] = "installed" => inst'[r] = "installed"
    BY <1>3 DEF OpenTmp, Becomes, CacheTypeOK
  <2>2. dest # NoFile => content'[dest] = content[dest]
    BY <1>3, <2>1
    DEF OpenTmp, Opens, CacheTypeOK, CacheInv, NothingYet, Before, Apart
  <2> QED BY <1>1, <2>1, <2>2
<1>4. ASSUME NEW s \in Setups, WriteTmp(s) PROVE OnlyVerified'
  <2>1. /\ fd[s] \in Installers /\ tmp = fd[s] /\ UNCHANGED <<dest, inst, fd, data>>
        /\ Written(s) /\ Writes(s)
    BY <1>4 DEF WriteTmp, FilesAreOpen, CacheInv, SetupHides
  <2>2. dest # NoFile => content'[dest] = content[dest]
    BY <2>1, WritesKeep DEF CacheInv, Apart, CacheTypeOK
  <2> QED BY <1>1, <2>1, <2>2
<1>5. ASSUME NEW s \in Setups, RenameTmp(s) PROVE OnlyVerified'
  <2>1. /\ dest' = tmp /\ content[tmp] = [p \in 1..Parts |-> data[s]]
        /\ inst'[s] = "installed" /\ content' = content
    <3>1. content' = content
      BY <1>5 DEF RenameTmp
    <3>2. Becomes(s, "installed")
      BY <1>5, RenameInstalls
    <3>3. inst'[s] = "installed"
      BY <3>2 DEF Becomes, CacheTypeOK
    <3> QED BY <1>5, <3>1, <3>3, RenameInstalls
  <2>2. data[s] = "damaged" => s \in NoVerify
    BY <1>5 DEF RenameTmp, CacheInv, DataIsFit
  <2> QED BY <2>1, <2>2 DEF OnlyVerified
<1>6. ASSUME NEW b \in Builds, StartBuild(b) \/ CopyDone(b) \/ BuildFails(b)
      PROVE  OnlyVerified'
  <2>1. UNCHANGED <<dest, content>>
    BY <1>6 DEF StartBuild, CopyDone, BuildFails, files
  <2>2. \A r \in Setups : inst[r] = "installed" => inst'[r] = "installed"
    BY <1>6 DEF StartBuild, CopyDone, BuildFails, Becomes, CacheTypeOK
  <2> QED BY <1>1, <2>1, <2>2
<1>7. ASSUME NEW b \in Builds, OpenDest(b) PROVE OnlyVerified'
  <2>1. dest' \in Installers /\ content'[dest'] = Empty
    BY <1>7 DEF OpenDest, Opens, CacheTypeOK
  <2> QED BY <2>1 DEF OnlyVerified, Empty
<1>8. ASSUME NEW b \in Builds, CopyPart(b) PROVE OnlyVerified'
  <2>1. /\ dest = fd[b] /\ fd[b] \in Installers /\ data[b] = "local"
        /\ UNCHANGED <<dest, inst>> /\ Writes(b)
    BY <1>8 DEF CopyPart, FilesAreOpen, CacheInv, BuildShows
  <2>2. content[dest] \in [1..Parts -> Origin]
        /\ content'[dest] = [content[dest] EXCEPT ![pos[b] + 1] = "local"]
    BY <2>1 DEF Writes, CacheTypeOK
  <2>3. \A p \in 1..Parts : content'[dest][p] = "damaged" => content[dest][p] = "damaged"
    BY <2>2
  <2> QED BY <2>1, <2>3 DEF OnlyVerified
<1>9. ASSUME NEW i \in Installers, Kill(i) PROVE OnlyVerified'
  <2>1. UNCHANGED <<dest, content>>
        /\ \A r \in Setups : inst[r] = "installed" => inst'[r] = "installed"
    BY <1>9 DEF Kill, Becomes, files, CacheTypeOK, Busy
  <2> QED BY <1>1, <2>1
<1>10. CASE UNCHANGED cacheVars
  BY <1>1, <1>10 DEF cacheVars
<1> QED
  BY <1>2, <1>3, <1>4, <1>5, <1>6, <1>7, <1>8, <1>9, <1>10 DEF Next, CacheNext, vars

(* Under the same assumption: only a setup that was told not to verify     *)
(* brings to dest what is not the release or compiled here.                *)
THEOREM OnlyVerifiedShown == ASSUME ~Overlap PROVE Spec => []OnlyVerified
<1>1. LoaderTypeOK /\ FilesAreOpen /\ CacheInv /\ [Next]_vars => CacheInv'
  BY CacheInvStep DEF LoaderTypeOK
<1>2. LoaderTypeOK /\ FilesAreOpen /\ CacheInv /\ OnlyVerified /\ [Next]_vars => OnlyVerified'
  BY OnlyVerifiedStep DEF LoaderTypeOK
<1>3. Init => OnlyVerified
  BY DEF Init, CacheInit, OnlyVerified
<1> QED BY <1>1, <1>2, <1>3, CacheInvInit, TypeInit, TypeStep, PTL DEF Spec

-----------------------------------------------------------------------------
(* An inode that a program has opened has left the temporary path, and no   *)
(* installer has yet to create it.                                         *)
MappedInv ==
    /\ tmp \notin mapped
    /\ \A i \in Installers : inst[i] \in Before => i \notin mapped

LEMMA MappedStep ==
    ASSUME ~Overlap, LoaderTypeOK, FilesAreOpen, CacheInv, MappedInv, [Next]_vars
    PROVE  /\ MappedInv'
           /\ \A f \in mapped : content'[f] # content[f] =>
                  \E b \in Builds : inst[b] \in {"compile", "copy"}
<1> USE InstallerAssumption DEF Installers
<1>0. CacheTypeOK /\ mapped \subseteq Installers
  BY DEF LoaderTypeOK
<1>1. ASSUME NEW s \in Setups, OpenTmp(s), UNCHANGED loaderVars
      PROVE  MappedInv' /\ \A f \in mapped : content'[f] = content[f]
  <2> DEFINE n == IF tmp = NoFile THEN s ELSE tmp
  <2>1. /\ tmp' = n /\ inst[s] = "open" /\ inst'[s] = "write" /\ mapped' = mapped
        /\ \A j \in Installers : j # s => inst'[j] = inst[j]
        /\ \A f \in Installers : f # n => content'[f] = content[f]
    BY <1>0, <1>1 DEF OpenTmp, Opens, Becomes, CacheTypeOK, loaderVars
  <2>2. n \notin mapped
    BY <2>1 DEF MappedInv, Before
  <2> QED BY <1>0, <2>1, <2>2 DEF MappedInv, Before
<1>2. ASSUME NEW s \in Setups, WriteTmp(s), UNCHANGED loaderVars
      PROVE  MappedInv' /\ \A f \in mapped : content'[f] = content[f]
  <2>1. tmp = fd[s] /\ fd[s] \in Installers /\ Written(s) /\ Writes(s)
    BY <1>2 DEF WriteTmp, FilesAreOpen, CacheInv, SetupHides
  <2>2. \A f \in Installers : f # fd[s] => content'[f] = content[f]
    BY <1>0, <1>2, <2>1, WritesKeep DEF WriteTmp
  <2> QED BY <1>0, <1>2, <2>1, <2>2 DEF MappedInv, WriteTmp, loaderVars
<1>3. ASSUME NEW s \in Setups, RenameTmp(s), UNCHANGED loaderVars
      PROVE  MappedInv' /\ \A f \in mapped : content'[f] = content[f]
  <2>1. tmp' = NoFile /\ Becomes(s, "installed")
    BY <1>0, <1>3, RenameInstalls
  <2> QED BY <1>0, <1>3, <2>1
          DEF MappedInv, RenameTmp, Becomes, CacheTypeOK, loaderVars, Before
<1>4. ASSUME NEW s \in Setups, StartSetup(s) \/ Download(s) \/ Verify(s) \/ SetupFails(s),
             UNCHANGED loaderVars
      PROVE  MappedInv' /\ \A f \in mapped : content'[f] = content[f]
  <2>1. tmp' = tmp /\ content' = content
    BY <1>4 DEF StartSetup, Download, Verify, SetupFails, files
  <2>2. \A i \in Installers : inst'[i] \in Before => inst[i] \in Before
    BY <1>0, <1>4
    DEF StartSetup, May, Download, Verify, SetupFails, Becomes, CacheTypeOK, Before
  <2> QED BY <1>4, <2>1, <2>2 DEF MappedInv, loaderVars
<1>5. ASSUME NEW b \in Builds, UNCHANGED loaderVars,
             StartBuild(b) \/ OpenDest(b) \/ CopyPart(b) \/ CopyDone(b) \/ BuildFails(b)
      PROVE  /\ MappedInv'
             /\ content' # content => inst[b] \in {"compile", "copy"}
  <2>1. tmp' = tmp /\ (content' # content => inst[b] \in {"compile", "copy"})
    BY <1>5 DEF StartBuild, OpenDest, CopyPart, CopyDone, BuildFails, files
  <2>2. \A i \in Installers : inst'[i] \in Before => inst[i] \in Before
    BY <1>0, <1>5
    DEF StartBuild, May, OpenDest, CopyPart, CopyDone, BuildFails, Becomes, CacheTypeOK, Before
  <2> QED BY <1>5, <2>1, <2>2 DEF MappedInv, loaderVars
<1>6. ASSUME NEW i \in Installers, Kill(i), UNCHANGED loaderVars
      PROVE  MappedInv' /\ \A f \in mapped : content'[f] = content[f]
  BY <1>0, <1>6 DEF Kill, Becomes, files, CacheTypeOK, MappedInv, loaderVars, Before
<1>7. ASSUME NEW c \in InitCalls, CallInit(c) \/ CheckAbi(c), UNCHANGED cacheVars
      PROVE  MappedInv' /\ \A f \in mapped : content'[f] = content[f]
  <2>1. mapped' \subseteq mapped \cup ({dest} \ {NoFile})
    BY <1>0, <1>7 DEF CallInit, CheckAbi, Opened
  <2> QED BY <1>0, <1>7, <2>1 DEF MappedInv, cacheVars, CacheInv, NothingYet, Apart, CacheTypeOK
<1>8. CASE UNCHANGED vars
  BY <1>8 DEF vars, cacheVars, loaderVars, MappedInv
<1> QED
  BY <1>1, <1>2, <1>3, <1>4, <1>5, <1>6, <1>7, <1>8 DEF Next, CacheNext

(* Under the same assumption: no setup changes a file that a running       *)
(* program has opened as a library.                                        *)
THEOREM SetupsKeepMapped == ASSUME ~Overlap PROVE Spec => SetupKeepsMapped
<1> DEFINE A == \A f \in mapped : content'[f] # content[f] =>
                    \E b \in Builds : inst[b] \in {"compile", "copy"}
<1>1. LoaderTypeOK /\ FilesAreOpen /\ CacheInv /\ [Next]_vars => CacheInv'
  BY CacheInvStep DEF LoaderTypeOK
<1>2. LoaderTypeOK /\ FilesAreOpen /\ CacheInv /\ MappedInv /\ [Next]_vars => MappedInv' /\ A
  BY MappedStep
<1>3. Init => MappedInv
  BY InstallerAssumption DEF Init, CacheInit, MappedInv, Installers
<1>4. Spec => [][A]_vars
  BY <1>1, <1>2, <1>3, CacheInvInit, TypeInit, TypeStep, PTL DEF Spec
<1> QED BY <1>4 DEF SetupKeepsMapped

-----------------------------------------------------------------------------
LEMMA InitInvStep == ASSUME LoaderTypeOK, InitInv, [Next]_vars PROVE InitInv'
<1>1. ASSUME NEW c \in InitCalls, CallInit(c) PROVE InitInv'
  BY <1>1 DEF CallInit, Answer, InitInv, LoaderTypeOK
<1>2. ASSUME NEW c \in InitCalls, CheckAbi(c) PROVE InitInv'
  BY <1>2 DEF CheckAbi, Answer, InitInv, LoaderTypeOK
<1>3. CASE UNCHANGED loaderVars
  BY <1>3 DEF loaderVars, InitInv
<1> QED BY <1>1, <1>2, <1>3 DEF Next, vars

(* Whatever overlaps and whatever happens to the file, an initialised      *)
(* program holds a library that passed every check ...                     *)
THEOREM InitIsChecked == Spec => []InitialisedIsChecked
<1>1. Init => InitInv
  BY DEF Init, InitInv
<1>2. LoaderTypeOK /\ InitInv /\ [Next]_vars => InitInv'
  BY InitInvStep
<1>3. InitInv => InitialisedIsChecked
  BY DEF InitInv, InitialisedIsChecked
<1> QED BY <1>1, <1>2, <1>3, TypeCorrect, PTL DEF Spec

(* ... and once one call has succeeded all later ones do.                  *)
THEOREM LaterCallsSucceed == Spec => SuccessLasts
<1> DEFINE A == \A c \in InitCalls :
                    (\E b \in InitCalls : call[b] = "ok") /\ call[c] = "idle" /\ call'[c] # "idle"
                        => call'[c] = "ok"
<1>1. Init => InitInv
  BY DEF Init, InitInv
<1>2. LoaderTypeOK /\ InitInv /\ [Next]_vars => InitInv'
  BY InitInvStep
<1>3. ASSUME LoaderTypeOK, InitInv, [Next]_vars PROVE A
  <2> SUFFICES ASSUME NEW c \in InitCalls, NEW b \in InitCalls, call[b] = "ok",
                      call[c] = "idle", call'[c] # "idle"
               PROVE  call'[c] = "ok"
    OBVIOUS
  <2>1. initialised
    BY <1>3 DEF InitInv
  <2>2. PICK d \in InitCalls : CallInit(d) \/ CheckAbi(d)
    BY <1>3 DEF Next, vars, loaderVars
  <2> QED BY <1>3, <2>1, <2>2 DEF CallInit, CheckAbi, Answer, LoaderTypeOK
<1>4. Spec => [][A]_vars
  BY <1>1, <1>2, <1>3, TypeCorrect, PTL DEF Spec
<1> QED BY <1>4 DEF SuccessLasts

=============================================================================

------------------------------- MODULE Loader -------------------------------
(***************************************************************************)
(* Iroh.init (lib/src/runtime.dart, lib/src/ffi/loader.dart) in a program  *)
(* that runs beside the installers of PrebuiltCache.  The calls of one     *)
(* isolate may overlap: ensureInitialized runs without a break up to the   *)
(* await of RustLib.init, and again from there.                            *)
(*                                                                         *)
(* RustLib.init (flutter_rust_bridge 2.13) throws when the isolate has a   *)
(* library already, when a symbol is missing or when the content hash of   *)
(* the library is another one; otherwise it keeps the library, before its  *)
(* first await.                                                            *)
(***************************************************************************)
EXTENDS PrebuiltCache

CONSTANT InitCalls    \* calls of Iroh.init without libraryPath

VARIABLES
    near,         \* what a cargo build left below the current directory
    far,          \* what is beside the executable, known to the linker, or
                  \* in the process
    call,         \* [InitCalls -> CallState]
    frb,          \* library that flutter_rust_bridge holds, or "none"
    initialised,  \* IrohRuntime._initialised
    mapped        \* inodes the program has opened as libraries

loaderVars == <<near, far, call, frb, initialised, mapped>>
vars == <<cacheVars, loaderVars>>

CallState == {"idle", "initialising", "ok", "load error", "argument error"}

(* "broken": the operating system cannot open it; "alien": RustLib.init    *)
(* refuses it (another content hash, no symbols); "old": only the ABI      *)
(* version differs.                                                        *)
Library == {"none", "broken", "alien", "old", "good"}

LoaderTypeOK ==
    /\ CacheTypeOK
    /\ near \in Library /\ far \in Library
    /\ call \in [InitCalls -> CallState]
    /\ frb \in {"none", "old", "good"}
    /\ initialised \in BOOLEAN
    /\ mapped \subseteq Installers

Init ==
    /\ CacheInit
    /\ near \in {"none", "old", "good"} /\ far \in {"none", "alien", "good"}
    /\ call = [c \in InitCalls |-> "idle"]
    /\ frb = "none" /\ initialised = FALSE /\ mapped = {}

(* A library whose parts are all there and undamaged can be opened.        *)
Cached ==
    CASE dest = NoFile -> "none"
      [] dest # NoFile /\ Whole(dest) /\ content[dest][1] # "damaged" -> "good"
      [] OTHER -> "broken"

(* The first file that exists, in the order of _libSearchPaths; the rest   *)
(* is left to the platform.                                                *)
Found ==
    CASE near # "none" -> near
      [] near = "none" /\ Cached # "none" -> Cached
      [] OTHER -> far

Opened == IF near = "none" /\ dest # NoFile THEN mapped \cup {dest} ELSE mapped

Answer(c, st) == call' = [call EXCEPT ![c] = st]

(* ensureInitialized up to its await.                                      *)
CallInit(c) ==
    /\ call[c] = "idle"
    /\ UNCHANGED <<near, far, initialised>>
    /\ \/ initialised /\ Answer(c, "ok") /\ UNCHANGED <<frb, mapped>>
       \/ /\ ~initialised /\ Found \in {"none", "broken"}
          /\ Answer(c, "argument error") /\ UNCHANGED <<frb, mapped>>
       \/ /\ ~initialised /\ Found \in {"alien", "old", "good"}
          /\ mapped' = Opened
          /\ IF frb # "none" \/ Found = "alien"
             THEN Answer(c, "load error") /\ UNCHANGED frb
             ELSE Answer(c, "initialising") /\ frb' = Found

(* Mutant: the flag is set before the check. *)
CheckAbiLate(c) ==
    /\ call[c] = "initialising" /\ initialised' = TRUE
    /\ Answer(c, IF frb = "good" THEN "ok" ELSE "load error")
    /\ UNCHANGED <<near, far, frb, mapped>>

(* The rest of it: the ABI check.  A library that fails it stays with      *)
(* flutter_rust_bridge.                                                    *)
CheckAbi(c) ==
    /\ call[c] = "initialising"
    /\ IF frb = "good"
       THEN Answer(c, "ok") /\ initialised' = TRUE
       ELSE Answer(c, "load error") /\ UNCHANGED initialised
    /\ UNCHANGED <<near, far, frb, mapped>>

Next ==
    \/ CacheNext /\ UNCHANGED loaderVars
    \/ \E c \in InitCalls : (CallInit(c) \/ CheckAbi(c)) /\ UNCHANGED cacheVars

Spec == Init /\ [][Next]_vars

(***************************************************************************)
(* Properties                                                              *)
(***************************************************************************)

(* A program that is told that the library is loaded has one that passed   *)
(* every check, whatever else was found or failed before.                  *)
(* (loader.dart 61-69: the flag is set after the comparison)               *)
InitialisedIsChecked ==
    (initialised \/ \E c \in InitCalls : call[c] = "ok") => frb = "good"

(* Once a call has succeeded no later one fails, though the file may be    *)
(* truncated, damaged or replaced meanwhile.                               *)
(* (loader.dart 44: the flag is read before anything else)                 *)
SuccessLasts ==
    [][\A c \in InitCalls :
        (\E b \in InitCalls : call[b] = "ok") /\ call[c] = "idle" /\ call'[c] # "idle"
            => call'[c] = "ok"]_vars

(* A setup never changes the bytes of a file that a running program has    *)
(* opened as a library: it replaces the name, not the inode.               *)
(* (setup.dart 68-72)                                                      *)
SetupKeepsMapped ==
    [][\A f \in mapped :
        content'[f] # content[f] => \E b \in Builds : inst[b] \in {"compile", "copy"}]_vars

(* The loader finds the whole of what i downloaded or compiled.            *)
Serves(i) == dest # NoFile /\ content[dest] = [p \in 1..Parts |-> data[i]]

(* An installer that reports success has put the whole of what it          *)
(* downloaded or compiled where the loader looks for it.                   *)
(* (setup.dart 71-76, build.dart 78-81)                                    *)
InstalledIsThere ==
    [][\A i \in Installers :
        inst[i] # "installed" /\ inst'[i] = "installed" => Serves(i)']_vars

(* Iroh.init may be called more than one time: a call does not fail        *)
(* because of another one, as runtime.dart 6-7 and 11 say.                 *)
RepeatedInitSucceeds ==
    \A c \in InitCalls : call[c] = "load error" => frb # "good"

=============================================================================

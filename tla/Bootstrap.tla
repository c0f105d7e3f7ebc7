------------------------------ MODULE Bootstrap ------------------------------
(***************************************************************************)
(* What has to happen on Android before an endpoint can bind: the plugin   *)
(* class loads the library and hands it the context when an engine attaches *)
(* (IrohFlutterPlugin.java, rust/src/android.rs), then bind                *)
(* (rust/src/api/endpoint.rs, rust/src/api/address_lookup.rs).             *)
(*                                                                         *)
(* The bootstrap fails by throwing; the embedding logs that and starts the  *)
(* engine's Dart program all the same.  A release build aborts on a panic.  *)
(***************************************************************************)
EXTENDS Integers, Sequences, FiniteSets

CONSTANT Engines    \* engines of the process, in add-to-app or after a restart

VARIABLES
    build,        \* "release" or "debug"
    process,      \* "up", or what it aborted on: "no context",
                  \* "callback threw", "allocation failed"
    initialized,  \* the static of the Java class
    ndk,          \* ndk-context has the JavaVM and the Context
    attached,     \* [Engines -> {"no", "ok", "failed"}]
    endpoint,     \* "none", "binding", "open", "closed"
    lookup        \* who resolves ids for it: "dns" or "dart"

bootVars == <<build, process, initialized, ndk, attached>>
bindVars == <<endpoint, lookup>>

BootInit ==
    /\ build \in {"release", "debug"}
    /\ process = "up"
    /\ initialized = FALSE
    /\ ndk = FALSE
    /\ attached = [e \in Engines |-> "no"]
    /\ endpoint = "none"
    /\ lookup = "dns"

-----------------------------------------------------------------------------
(* The Once hands over the context the first time only.                    *)
InitAndroidContext == ndk' = TRUE

(* Mutant: the flag is set before the native call that may throw.          *)
AttachFailsMarked(e) ==
    /\ attached[e] = "no" /\ ~initialized
    /\ attached' = [attached EXCEPT ![e] = "failed"]
    /\ initialized' = TRUE
    /\ UNCHANGED <<build, process, ndk, bindVars>>

(* loadLibrary, the JavaVM, the global reference or the verifier fails.    *)
(* Nothing fails once ndk-context has been set.                            *)
AttachFails(e) ==
    /\ attached[e] = "no" /\ ~initialized
    /\ attached' = [attached EXCEPT ![e] = "failed"]
    /\ UNCHANGED <<build, process, initialized, ndk, bindVars>>

(* onAttachedToEngine, under the monitor of the class.                     *)
Attach(e) ==
    /\ attached[e] = "no"
    /\ IF initialized THEN UNCHANGED <<initialized, ndk>>
                      ELSE InitAndroidContext /\ initialized' = TRUE
    /\ attached' = [attached EXCEPT ![e] = "ok"]
    /\ UNCHANGED <<build, process, bindVars>>

(* endpoint_bind and endpoint_bind_with_address_lookup: the call.  What     *)
(* they check of their arguments the Dart value classes checked before.    *)
CallBind(with) ==
    /\ endpoint = "none" /\ \E e \in Engines : attached[e] # "no"
    /\ endpoint' = "binding" /\ lookup' = with
    /\ UNCHANGED bootVars

BindDone ==
    /\ endpoint = "binding" /\ (ndk \/ build = "debug")
    /\ endpoint' = "open"
    /\ UNCHANGED <<bootVars, lookup>>

BindFails ==
    /\ endpoint = "binding"
    /\ endpoint' = "none"
    /\ UNCHANGED <<bootVars, lookup>>

(* iroh-dns reads a context that is not there and panics.                  *)
BindAborts ==
    /\ endpoint = "binding" /\ ~ndk /\ build = "release"
    /\ process' = "no context"
    /\ UNCHANGED <<build, initialized, ndk, attached, bindVars>>

Binding == BindDone \/ BindFails \/ BindAborts

Booting == \E e \in Engines : Attach(e) \/ AttachFails(e)

-----------------------------------------------------------------------------
(* An engine that attached without an exception can count on the context:  *)
(* no bind aborts the app then, whatever attach failed before it and        *)
(* whichever engine's program binds.                                       *)
AttachedCanBind == process = "no context" => \A e \in Engines : attached[e] # "ok"
=============================================================================

--------------------------- MODULE PluginRegistry ---------------------------
(***************************************************************************)
(* The plugin registry (packages/plugin-manager), the managed snapshots    *)
(* and runtime bindings of its packages (packages/pi-host) and the commands*)
(* over the three (apps/cli pluginCommand, quickSessionCommand).  Install, *)
(* disable and remove run one at a time under the lifecycle lock, a session*)
(* takes no lock, and the process of a command may end between two of its  *)
(* steps.  The registry is an immutable journal; a plugin identity is bound*)
(* to one exact release, so its snapshot has one content.  The record of a *)
(* plugin holds for the distribution, engine and platform it was qualified *)
(* on, and is not renewed by installing the plugin again.                  *)
(***************************************************************************)
EXTENDS Naturals

CONSTANTS Plugins,       \* plugin identities, each one exact release
          MaxEntries,    \* bound: journal entries
          MaxUpsets      \* bound: processes that end half-way, failures passed over or reported
                         \* late, changes of the runtime

VARIABLES registered,    \* [Plugins -> the projected record's state, or "NONE"]
          entries,       \* length of the journal
          snapshot,      \* [Plugins -> "NONE", "WHOLE" or "PARTIAL"]: managed package snapshot
          binding,       \* [Plugins -> "NONE", "LINKED" (two links) or "OK"]: runtime binding
          command,       \* the command that holds the lifecycle lock
          launch,        \* a quick session being started
          upsets,
          outdated,      \* plugins whose record's qualification does not hold any more
          disowned       \* history: plugins registered by an install that reported failure

assurance == <<outdated, disowned>>
pluginVars == <<registered, entries, snapshot, binding, command, launch, upsets, assurance>>

NoCommand == [pc |-> "NONE", plugin |-> "NONE", created |-> FALSE]
NoLaunch == [pc |-> "START", enabled |-> {}, quarantine |-> FALSE, since |-> 0]

PluginInit ==
    /\ registered = [p \in Plugins |-> "NONE"] /\ entries = 0
    /\ snapshot = [p \in Plugins |-> "NONE"] /\ binding = [p \in Plugins |-> "NONE"]
    /\ command = NoCommand /\ launch = NoLaunch /\ upsets = 0
    /\ outdated = {} /\ disowned = {}

CommandAt(pc) == command.pc = pc
CommandTo(pc) == command' = IF pc = "NONE" THEN NoCommand ELSE [command EXCEPT !.pc = pc]
Subject == command.plugin
EnabledNow == {p \in Plugins : registered[p] = "ENABLED"}
Quarantine == \E p \in Plugins : registered[p] = "QUARANTINED"

(* #append: one entry more, under the journal's own lock.                    *)
Entry(p, state) ==
    /\ entries < MaxEntries
    /\ entries' = entries + 1
    /\ registered' = [registered EXCEPT ![p] = state]

Upset == upsets < MaxUpsets /\ upsets' = upsets + 1

CommandBegins(p, pc) ==
    /\ CommandAt("NONE")
    /\ command' = [pc |-> pc, plugin |-> p, created |-> FALSE]
    /\ UNCHANGED <<registered, entries, snapshot, binding, launch, upsets, assurance>>

-----------------------------------------------------------------------------
(* install and import-pi                                                     *)

(* inspect: a published snapshot is kept, and must still be whole.           *)
Inspect ==
    /\ CommandAt("INSPECT")
    /\ IF snapshot[Subject] = "PARTIAL"
         THEN CommandTo("NONE") /\ UNCHANGED snapshot
         ELSE /\ snapshot' = [snapshot EXCEPT ![Subject] = "WHOLE"]
              /\ CommandTo("PUT")
    /\ UNCHANGED <<registered, entries, binding, launch, upsets, assurance>>
(* put: a binding with a second link is not the manager's own file.          *)
PutBinding ==
    /\ CommandAt("PUT")
    /\ \/ binding[Subject] = "OK" /\ CommandTo("INSTALL") /\ UNCHANGED binding
       \/ binding[Subject] = "LINKED" /\ CommandTo("NONE") /\ UNCHANGED binding
       \/ /\ binding[Subject] = "NONE"
          /\ binding' = [binding EXCEPT ![Subject] = "LINKED"]
          /\ command' = [command EXCEPT !.pc = "PUBLISHED", !.created = TRUE]
    /\ UNCHANGED <<registered, entries, snapshot, launch, upsets, assurance>>
(* A failure to remove the temporary file is passed over.                    *)
DropTemporary ==
    /\ CommandAt("PUBLISHED")
    /\ \/ binding' = [binding EXCEPT ![Subject] = "OK"] /\ UNCHANGED upsets
       \/ Upset /\ UNCHANGED binding
    /\ CommandTo("INSTALL")
    /\ UNCHANGED <<registered, entries, snapshot, launch, assurance>>

(* #recordFor: enabled only if the qualification verified the package.       *)
RecordStates == {"ENABLED", "QUARANTINED"}
(* A plugin that is registered keeps its record and its qualification.       *)
RecordInstall ==
    IF registered[Subject] = "NONE"
      THEN /\ \E state \in RecordStates : Entry(Subject, state)
           /\ outdated' = outdated \ {Subject}
      ELSE Entry(Subject, registered[Subject]) /\ UNCHANGED outdated
InstallCommits ==
    /\ CommandAt("INSTALL")
    /\ RecordInstall
    /\ disowned' = disowned \ {Subject}
    /\ CommandTo("NONE")
    /\ UNCHANGED <<snapshot, binding, launch, upsets>>

\* Mutant: a binding is taken back although it was there before.
TakesBack_AnyBinding == TRUE
(* Only a binding this command created is taken back.                        *)
TakesBack == command.created
(* Qualification, resolution or the journal fails, or a step after the entry *)
(* was published: the release of a lock.  The caller cannot tell.            *)
InstallFails ==
    /\ CommandAt("INSTALL")
    /\ \/ UNCHANGED <<registered, entries, upsets, assurance>>
       \/ /\ Upset /\ RecordInstall
          /\ disowned' = IF command.created THEN disowned \cup {Subject} ELSE disowned
    /\ CommandTo(IF TakesBack THEN "PLAN" ELSE "NONE")
    /\ UNCHANGED <<snapshot, binding, launch>>

-----------------------------------------------------------------------------
(* disable, remove and removeManagedSnapshots                                *)

DisablePlugin ==
    /\ CommandAt("DISABLE")
    /\ IF registered[Subject] = "NONE" THEN UNCHANGED <<registered, entries>>
                                       ELSE Entry(Subject, "DISABLED")
    /\ CommandTo("NONE")
    /\ UNCHANGED <<snapshot, binding, launch, upsets, assurance>>
(* The registry forgets the plugin before its files go.                      *)
RemoveRecord ==
    /\ CommandAt("REMOVE")
    /\ Entry(Subject, "NONE")
    /\ disowned' = disowned \ {Subject}
    /\ CommandTo("PLAN")
    /\ UNCHANGED <<snapshot, binding, launch, upsets, outdated>>

(* A snapshot that is no longer whole stops the removal; without a readable  *)
(* binding no snapshot is touched.                                           *)
PlanRemoval ==
    /\ CommandAt("PLAN")
    /\ CommandTo(CASE binding[Subject] = "NONE" -> "NONE"
                   [] binding[Subject] = "LINKED" -> "UNBIND"
                   [] OTHER -> CASE snapshot[Subject] = "PARTIAL" -> "NONE"
                                 [] snapshot[Subject] = "NONE" -> "UNBIND"
                                 [] OTHER -> "DELETE")
    /\ UNCHANGED <<registered, entries, snapshot, binding, launch, upsets, assurance>>
(* removeWritableTree, file by file.                                         *)
DeleteSnapshot ==
    \/ /\ CommandAt("DELETE")
       /\ snapshot' = [snapshot EXCEPT ![Subject] = "PARTIAL"] /\ CommandTo("DELETING")
       /\ UNCHANGED <<registered, entries, binding, launch, upsets, assurance>>
    \/ /\ CommandAt("DELETING")
       /\ snapshot' = [snapshot EXCEPT ![Subject] = "NONE"] /\ CommandTo("UNBIND")
       /\ UNCHANGED <<registered, entries, binding, launch, upsets, assurance>>
DeleteBinding ==
    /\ CommandAt("UNBIND")
    /\ binding' = [binding EXCEPT ![Subject] = "NONE"]
    /\ CommandTo("NONE")
    /\ UNCHANGED <<registered, entries, snapshot, launch, upsets, assurance>>

CommandKilled ==
    /\ ~CommandAt("NONE") /\ Upset
    /\ CommandTo("NONE")
    /\ UNCHANGED <<registered, entries, snapshot, binding, launch, assurance>>

-----------------------------------------------------------------------------
(* quickSessionCommand: startup(), list() and inventory() each read the      *)
(* journal, prepareQualifiedPiPluginActivation then reads, of every enabled  *)
(* plugin, its qualification, its binding and its snapshot                   *)

LaunchTo(pc) == launch' = [launch EXCEPT !.pc = pc]
ReadStartup ==
    /\ launch.pc \in {"START", "NORMAL", "SAFE", "FALLBACK"}
    /\ launch' = [NoLaunch EXCEPT !.pc = IF Quarantine THEN "SAFE" ELSE "LIST", !.since = entries]
    /\ UNCHANGED <<registered, entries, snapshot, binding, command, upsets, assurance>>
ReadList ==
    /\ launch.pc = "LIST"
    /\ launch' = [launch EXCEPT !.pc = "INVENTORY", !.enabled = EnabledNow, !.quarantine = Quarantine]
    /\ UNCHANGED <<registered, entries, snapshot, binding, command, upsets, assurance>>
ReadInventory ==
    /\ launch.pc = "INVENTORY"
    /\ LaunchTo(IF Quarantine \/ launch.quarantine \/ EnabledNow # launch.enabled
                  THEN "FALLBACK" ELSE "VERIFY")
    /\ UNCHANGED <<registered, entries, snapshot, binding, command, upsets, assurance>>
(* verifyCurrentCompatibility: the record names this distribution, engine    *)
(* and platform, and its qualification receipt is there and unchanged.       *)
CompatibilityHolds(p) == p \notin outdated
VerifyActivation ==
    /\ launch.pc = "VERIFY"
    /\ IF launch.enabled = {}
         THEN LaunchTo("NORMAL")
         ELSE \E p \in launch.enabled :
                 IF CompatibilityHolds(p) /\ binding[p] = "OK" /\ snapshot[p] = "WHOLE"
                   THEN launch' = [launch EXCEPT !.enabled = @ \ {p}]
                   ELSE LaunchTo("FALLBACK")
    /\ UNCHANGED <<registered, entries, snapshot, binding, command, upsets, assurance>>

(* Another release of the product, or a receipt that was lost or changed.    *)
RuntimeChanges ==
    /\ Upset
    /\ \E p \in Plugins \ outdated : outdated' = outdated \cup {p}
    /\ UNCHANGED <<registered, entries, snapshot, binding, command, launch, disowned>>

PluginNext ==
    \/ \E p \in Plugins, pc \in {"INSPECT", "DISABLE", "REMOVE"} : CommandBegins(p, pc)
    \/ Inspect \/ PutBinding \/ DropTemporary \/ InstallCommits \/ InstallFails
    \/ DisablePlugin \/ RemoveRecord \/ PlanRemoval \/ DeleteSnapshot \/ DeleteBinding
    \/ CommandKilled
    \/ ReadStartup \/ ReadList \/ ReadInventory \/ VerifyActivation
    \/ RuntimeChanges
PluginSpec == PluginInit /\ [][PluginNext]_pluginVars

-----------------------------------------------------------------------------
(* Whatever commands run, fail or die half-way, a registered plugin has its  *)
(* whole snapshot and its binding, except where an install that reported     *)
(* failure had been registered all the same and took its files back.  So a   *)
(* session whose startup found the registry sound falls back to Safe Mode    *)
(* only if the journal grew in the meantime, or for a plugin that was        *)
(* qualified on another runtime, was registered by such an install, or has a *)
(* binding whose temporary file could not be removed (pluginCommand's order  *)
(* of writes, removeManagedSnapshots, prepareQualifiedPiPluginActivation).   *)
Unbacked(p) == registered[p] # "NONE" /\ (binding[p] = "NONE" \/ snapshot[p] # "WHOLE")
RegisteredIsBacked ==
    /\ \A p \in Plugins : Unbacked(p) => p \in disowned
    /\ launch.pc = "FALLBACK" =>
          \/ entries > launch.since
          \/ \E p \in launch.enabled : p \in outdated \cup disowned \/ binding[p] = "LINKED"
=============================================================================

---------------------------- MODULE PilotArchive ----------------------------
(***************************************************************************)
(* The store of the pilot's evidence (packages/pilot archive.ts).  A write *)
(* publishes three immutable files in turn, each through a pending file    *)
(* that is linked to its name and then removed: the identity receipt binds *)
(* the archive to its facts before the package is there, the commit receipt*)
(* says that the package is.  Several processes may write and read at once,*)
(* and one may end between any two calls.  A file whose pending file was   *)
(* not removed has a second link, and every reader refuses it.  Facts stand*)
(* for all an archive binds; proofs under the store's key are not broken.  *)
(***************************************************************************)
EXTENDS Naturals

CONSTANTS WriterFacts,    \* [writer -> what it archives under the one identity]
          MaxDeaths,      \* bound: writers that end in the middle
          MaxLosses       \* bound: packages deleted by others

ASSUME WriterAssumption == \A w \in DOMAIN WriterFacts : WriterFacts[w] # "ABSENT"

VARIABLES storeKey,   \* ".pilot-store-key": "ABSENT", "SHORT" or "WHOLE"
          published,  \* [file -> facts, or "ABSENT"]
          pending,    \* [file -> its second link is there]
          sealer,     \* [writer -> [pc, committed: a commit receipt was seen]]
          handles,    \* facts of the trusted handles given out
          deaths, losses
pilotArchiveVars == <<storeKey, published, pending, sealer, handles, deaths, losses>>

Writers == DOMAIN WriterFacts
ArchiveFiles == {"identity", "package", "commit"}
PilotArchiveInit ==
    /\ storeKey = "ABSENT" /\ published = [f \in ArchiveFiles |-> "ABSENT"]
    /\ pending = [f \in ArchiveFiles |-> FALSE]
    /\ sealer = [w \in Writers |-> [pc |-> "START", committed |-> FALSE]]
    /\ handles = {} /\ deaths = 0 /\ losses = 0

WriterAt(w, pc) == sealer[w].pc = pc
WriterTo(w, pc) == sealer' = [sealer EXCEPT ![w].pc = pc]
Refuses(w) == WriterTo(w, "FAILED")
Single(f) == published[f] # "ABSENT" /\ ~pending[f]

-----------------------------------------------------------------------------
(* loadOrCreateStoreKey: the file is created empty, then written.            *)

CreateKey(w) ==
    /\ WriterAt(w, "START")
    /\ IF storeKey = "ABSENT" THEN storeKey' = "SHORT" /\ WriterTo(w, "FILL")
                              ELSE UNCHANGED storeKey /\ WriterTo(w, "KEY")
    /\ UNCHANGED <<published, pending, handles, deaths, losses>>
FillKey(w) ==
    /\ WriterAt(w, "FILL") /\ storeKey' = "WHOLE" /\ WriterTo(w, "KEY")
    /\ UNCHANGED <<published, pending, handles, deaths, losses>>
ReadKey(w) ==
    /\ WriterAt(w, "KEY")
    /\ IF storeKey = "WHOLE" THEN WriterTo(w, "LOOK") ELSE Refuses(w)
    /\ UNCHANGED <<storeKey, published, pending, handles, deaths, losses>>

-----------------------------------------------------------------------------
(* write: what is there already, before the identity receipt                 *)

Look(w) ==
    /\ WriterAt(w, "LOOK")
    /\ IF published["package"] # "ABSENT" /\ published["identity"] = "ABSENT" THEN Refuses(w)
       ELSE sealer' = [sealer EXCEPT ![w] = [pc |-> "PUT identity", committed |-> published["commit"] # "ABSENT"]]
    /\ UNCHANGED <<storeKey, published, pending, handles, deaths, losses>>

Putting == [identity |-> "PUT identity", package |-> "PUT package", commit |-> "PUT commit"]
Dropping == [identity |-> "DROP identity", package |-> "DROP package", commit |-> "DROP commit"]
Checking == [identity |-> "CHECK identity", package |-> "CHECK package", commit |-> "CHECK commit"]
(* writeImmutableAtomically: to link to a name that exists fails, and the    *)
(* caller goes on with the file that is there.  The removal may fail: that is*)
(* ignored, and counted as a death.                                          *)
Put(w, f) ==
    /\ WriterAt(w, Putting[f])
    /\ IF published[f] = "ABSENT"
       THEN /\ published' = [published EXCEPT ![f] = WriterFacts[w]] /\ pending' = [pending EXCEPT ![f] = TRUE]
            /\ WriterTo(w, Dropping[f])
       ELSE UNCHANGED <<published, pending>> /\ WriterTo(w, Checking[f])
    /\ UNCHANGED <<storeKey, handles, deaths, losses>>
DropPending(w, f) ==
    /\ WriterAt(w, Dropping[f]) /\ WriterTo(w, Checking[f])
    /\ \/ pending' = [pending EXCEPT ![f] = FALSE] /\ UNCHANGED deaths
       \/ deaths < MaxDeaths /\ deaths' = deaths + 1 /\ UNCHANGED pending
    /\ UNCHANGED <<storeKey, published, handles, losses>>

Binds(f, facts) == Single(f) /\ published[f] = facts
(* ensureIdentityReceipt, then the commit receipt seen before it.            *)
CheckIdentity(w) ==
    /\ WriterAt(w, Checking["identity"])
    /\ IF /\ Binds("identity", WriterFacts[w])
          /\ sealer[w].committed => Binds("commit", WriterFacts[w]) /\ published["package"] # "ABSENT"
       THEN WriterTo(w, Putting["package"]) ELSE Refuses(w)
    /\ UNCHANGED <<storeKey, published, pending, handles, deaths, losses>>
(* parsePackageBoundToIdentity                                               *)
PackageBound(facts) == Binds("identity", facts) /\ Binds("package", facts)
CheckPackage(w) ==
    /\ WriterAt(w, Checking["package"])
    /\ IF PackageBound(WriterFacts[w]) THEN WriterTo(w, Putting["commit"]) ELSE Refuses(w)
    /\ UNCHANGED <<storeKey, published, pending, handles, deaths, losses>>
(* parseBoundArchive                                                         *)
\* Mutant: the package alone is trusted.
Sealed_PackageOnly(facts) == PackageBound(facts)
Sealed(facts) == PackageBound(facts) /\ Binds("commit", facts)
CheckCommit(w) ==
    /\ WriterAt(w, Checking["commit"])
    /\ IF Sealed(WriterFacts[w]) THEN WriterTo(w, "DONE") /\ handles' = handles \cup {WriterFacts[w]}
       ELSE UNCHANGED handles /\ Refuses(w)
    /\ UNCHANGED <<storeKey, published, pending, deaths, losses>>

-----------------------------------------------------------------------------
(* read and readPackageFile, by any process at any time                      *)
ReadArchive ==
    /\ storeKey = "WHOLE"
    /\ \E w \in Writers : Sealed(WriterFacts[w]) /\ handles' = handles \cup {WriterFacts[w]}
    /\ UNCHANGED <<storeKey, published, pending, sealer, deaths, losses>>

WriterDies(w) ==
    /\ deaths < MaxDeaths /\ deaths' = deaths + 1
    /\ sealer[w].pc \notin {"DONE", "FAILED"} /\ Refuses(w)
    /\ UNCHANGED <<storeKey, published, pending, handles, losses>>
PackageLost ==
    /\ losses < MaxLosses /\ losses' = losses + 1
    /\ Single("package") /\ published' = [published EXCEPT !["package"] = "ABSENT"]
    /\ UNCHANGED <<storeKey, pending, sealer, handles, deaths>>

WriterStep(w) ==
    \/ CreateKey(w) \/ FillKey(w) \/ ReadKey(w) \/ Look(w)
    \/ \E f \in ArchiveFiles : Put(w, f) \/ DropPending(w, f)
    \/ CheckIdentity(w) \/ CheckPackage(w) \/ CheckCommit(w) \/ WriterDies(w)
PilotArchiveNext == (\E w \in Writers : WriterStep(w)) \/ ReadArchive \/ PackageLost
PilotArchiveSpec == PilotArchiveInit /\ [][PilotArchiveNext]_pilotArchiveVars

-----------------------------------------------------------------------------
(* Whatever writers race, end or fail, all trusted handles ever given out    *)
(* hold the same facts, and once there is one all three files name them: the *)
(* archive can be read again unless its package was deleted, and no write    *)
(* binds the identity to anything else (archive.ts write, parseBoundArchive).*)
OneTrustedArchive ==
    /\ \A a, b \in handles : a = b
    /\ \A a \in handles, f \in ArchiveFiles :
          \/ published[f] = a /\ (~pending[f] \/ losses > 0)
          \/ f = "package" /\ losses > 0 /\ published[f] = "ABSENT"
=============================================================================

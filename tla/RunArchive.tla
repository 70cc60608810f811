----------------------------- MODULE RunArchive -----------------------------
(***************************************************************************)
(* The run archive store (packages/evidence/src/archive.ts): a native      *)
(* store, bound to the workflow kernel, that finalizes, exports and        *)
(* deletes, and an archive-only store on another device that imports.      *)
(*                                                                         *)
(* An operation runs inside the store's durable mutation lock, so what     *)
(* interleaves is a crash and the next operation.  Every fact is a file    *)
(* published by a hard link (writeImmutableAtomically): the staging name   *)
(* is removed in a second step, and a reader that insists on exactly one   *)
(* link refuses the file until then.                                       *)
(***************************************************************************)
EXTENDS Integers, FiniteSets

CONSTANTS Archives,      \* Archive identities
          Targets,       \* export target references
          ArchiveOps,    \* operation identities of export and delete
          Profiles,      \* device profiles, whose files DeviceImport publishes
          Imports,       \* import requests: [op, archive, content]
          MaxStops       \* bound on interrupted operations

(* A request carries the package of its Archive, as it should be or not.     *)
ASSUME ArchiveAssumption ==
    /\ MaxStops \in Nat
    /\ \A q \in Imports :
          /\ q.archive \in Archives
          /\ \E c \in {"canonical", "live", "altered"} : q.content = [archive |-> q.archive, content |-> c]

VARIABLES run,      \* "ENDED", or the Archive the kernel has archived the Run as
          file,     \* [Files -> [links : 0..2, value]]: durable facts
          task,     \* the operation under way, or Idle
          stops     \* operations that died or failed on the way

archiveVars == <<run, file, task, stops>>

ContentOf(a) == [archive |-> a, content |-> "canonical"]
Files == ({"package", "import", "importIntent", "importReceipt"} \X Archives)
            \cup ({"export", "deletePending", "deleteReceipt"} \X Targets)
            \cup ({"deviceIntent", "deviceReceipt"} \X Profiles)
NoFile == [links |-> 0, value |-> 0]
Idle == [kind |-> "IDLE"]

ArchiveInit ==
    /\ run = "ENDED"
    /\ file = [n \in Files |-> NoFile]
    /\ task = Idle
    /\ stops = 0

Exists(kind, k) == file[<<kind, k>>].links > 0
Value(kind, k) == file[<<kind, k>>].value
(* readImmutableJsonOptional and #readExportOptional refuse any other file.  *)
Exact(kind, k) == file[<<kind, k>>].links \in {0, 1}

(* The step of the operation that writes the file; its end follows.          *)
Publish(kind, k, value, after) ==
    /\ ~Exists(kind, k)
    /\ file' = [file EXCEPT ![<<kind, k>>] = [links |-> 2, value |-> value]]
    /\ task' = [kind |-> "LINKED", file |-> <<kind, k>>, after |-> after]
    /\ UNCHANGED <<run, stops>>
Unlink ==
    /\ task.kind = "LINKED"
    /\ file' = [file EXCEPT ![task.file].links = 1]
    /\ task' = task.after
    /\ UNCHANGED <<run, stops>>
Goes(kind, p) == task' = [kind |-> kind, p |-> p] /\ UNCHANGED <<run, file, stops>>
Doing(kind) == task.kind = kind

(* The process dies, which leaves a published file with two links, or an     *)
(* error ends the operation.                                                 *)
Stop ==
    /\ task # Idle /\ stops < MaxStops
    /\ task' = Idle /\ stops' = stops + 1
    /\ UNCHANGED <<run, file>>

-----------------------------------------------------------------------------
(* finalize: the package is durable before the kernel is told.               *)

Finalize(a) ==
    /\ Doing("IDLE") /\ run = "ENDED"
    /\ IF Exists("package", a) THEN Goes("ARCHIVE_RUN", a) ELSE Goes("WRITE_PACKAGE", a)
WritePackage ==
    Doing("WRITE_PACKAGE")
        /\ Publish("package", task.p, ContentOf(task.p), [kind |-> "ARCHIVE_RUN", p |-> task.p])
ArchiveRun ==
    /\ Doing("ARCHIVE_RUN") /\ run = "ENDED"
    /\ run' = task.p /\ task' = Idle
    /\ UNCHANGED <<file, stops>>

(* #assertCanonicalArchive: what read, export and readCanonicalPackage ask.  *)
Canonical(a) == Exists("package", a) /\ run = a

-----------------------------------------------------------------------------
(* export and deleteExport of one target                                     *)

Export(t, x, a) ==
    /\ Doing("IDLE") /\ Canonical(a)
    /\ Exact("deleteReceipt", t) /\ ~Exists("deleteReceipt", t)
    /\ Exact("deletePending", t) /\ ~Exists("deletePending", t)
    /\ Publish("export", t, [op |-> x, archive |-> a], Idle)

DeleteBegins(t, x) ==
    /\ Doing("IDLE")
    /\ Exact("deleteReceipt", t) /\ ~Exists("deleteReceipt", t)
    /\ Exact("deletePending", t)
    /\ Exists("deletePending", t) => Value("deletePending", t).op = x
    /\ LET p == [target |-> t, op |-> x]
           answer(outcome) == [op |-> x, outcome |-> outcome]
       IN  \/ /\ ~Exists("export", t)
              /\ Publish("deleteReceipt", t, answer("NOOP"), Idle)
           \/ /\ Exists("export", t) /\ ~Exact("export", t)
              /\ Publish("deleteReceipt", t, answer("BLOCKED"), Idle)
           \/ /\ Exists("export", t) /\ Exact("export", t) /\ ~Exists("deletePending", t)
              /\ Publish("deletePending", t, [op |-> x, export |-> Value("export", t)],
                         [kind |-> "REMOVE", p |-> p])
           \/ /\ Exists("export", t) /\ Exact("export", t) /\ Exists("deletePending", t)
              /\ Value("deletePending", t).export = Value("export", t)
              /\ Goes("REMOVE", p)
Remove ==
    /\ Doing("REMOVE")
    /\ file' = [file EXCEPT ![<<"export", task.p.target>>] = NoFile]
    /\ task' = [task EXCEPT !.kind = "DELETED"]
    /\ UNCHANGED <<run, stops>>
DeleteEnds ==
    /\ Doing("DELETED")
    /\ Publish("deleteReceipt", task.p.target, [op |-> task.p.op, outcome |-> "APPLIED"], Idle)

-----------------------------------------------------------------------------
(* import, q being the request; back is the operation it is part of.         *)

(* #assertImportOperationBinding reads every receipt and intent of the store.*)
OperationFree(q) ==
    \A kind \in {"importReceipt", "importIntent"}, a \in Archives :
        /\ Exact(kind, a)
        /\ Exists(kind, a) /\ Value(kind, a).op = q.op => a = q.archive

(* assertPortableArchive and assertArchivePackage: nothing in the package is *)
(* alive or of one device, and it is what the events and the Evidence say.   *)
Portable(content) == content.content # "live"
Exactly(content) == content.content # "altered"

SamePackage(q) == Exists("import", q.archive) => Value("import", q.archive) = q.content
Fact(q, outcome) == [op |-> q.op, content |-> q.content, outcome |-> outcome]
Bound(kind, q) ==
    Exists(kind, q.archive) =>
        Value(kind, q.archive).op = q.op /\ Value(kind, q.archive).content = q.content

MayImport(q) ==
    /\ Portable(q.content) /\ Exactly(q.content)
    /\ OperationFree(q) /\ SamePackage(q)
    /\ Bound("importReceipt", q) /\ Bound("importIntent", q)

\* Mutant: the receipt says what the store says, not what the intent said.
Recorded_ByPackage(q) == IF Exists("import", q.archive) THEN "NOOP" ELSE "APPLIED"
(* What the receipt will say: what the intent, or else the store, says.      *)
Recorded(q) == IF Exists("importIntent", q.archive) THEN Value("importIntent", q.archive).outcome
               ELSE IF Exists("import", q.archive) THEN "NOOP" ELSE "APPLIED"

Importing(q, back) == [kind |-> "IMPORT", p |-> q, back |-> back]
ImportBegins(q) ==
    Doing("IDLE") /\ MayImport(q) /\ task' = Importing(q, Idle) /\ UNCHANGED <<run, file, stops>>
ImportStep ==
    /\ Doing("IMPORT")
    /\ LET q == task.p
           a == q.archive
           step(back) == Importing(q, back)
       IN  \/ /\ Exists("importReceipt", a) /\ ~Exists("import", a)
              /\ Publish("import", a, q.content, task.back)
           \/ /\ Exists("importReceipt", a) /\ Exists("import", a)
              /\ task' = task.back /\ UNCHANGED <<run, file, stops>>
           \/ /\ ~Exists("importReceipt", a) /\ ~Exists("importIntent", a)
              /\ Publish("importIntent", a, Fact(q, Recorded(q)), step(task.back))
           \/ /\ ~Exists("importReceipt", a) /\ Exists("importIntent", a) /\ ~Exists("import", a)
              /\ Publish("import", a, q.content, step(task.back))
           \/ /\ ~Exists("importReceipt", a) /\ Exists("importIntent", a) /\ Exists("import", a)
              /\ Publish("importReceipt", a, Fact(q, Recorded(q)), task.back)

(* projectImported succeeds.                                                 *)
Projects(q) ==
    /\ Exists("import", q.archive) /\ Value("import", q.archive) = q.content
    /\ Exists("importReceipt", q.archive) /\ Exact("importReceipt", q.archive)
    /\ Bound("importReceipt", q)

ArchiveNext ==
    \/ Unlink \/ Stop \/ WritePackage \/ ArchiveRun \/ Remove \/ DeleteEnds \/ ImportStep
    \/ \E a \in Archives : Finalize(a) \/ \E t \in Targets, x \in ArchiveOps : Export(t, x, a)
    \/ \E t \in Targets, x \in ArchiveOps : DeleteBegins(t, x)
    \/ \E q \in Imports : ImportBegins(q)
ArchiveSpec == ArchiveInit /\ [][ArchiveNext]_archiveVars

-----------------------------------------------------------------------------
(* What a durable fact of the store says holds, wherever operations stopped: *)
(* a Run is archived only as a package that exists; a target with a delete   *)
(* receipt that is not BLOCKED is gone for good; an import receipt has its   *)
(* package, and calls it APPLIED although the retry that wrote the receipt   *)
(* found it there (finalize, deleteExport, import).                          *)
ArchiveFactsHold ==
    /\ run # "ENDED" => Exists("package", run)
    /\ \A t \in Targets :
          Exists("deleteReceipt", t) /\ Value("deleteReceipt", t).outcome # "BLOCKED"
              => ~Exists("export", t)
    /\ \A a \in Archives :
          Exists("importReceipt", a) =>
              /\ Exists("import", a) /\ Value("import", a) = ContentOf(a)
              /\ Value("importReceipt", a).content = Value("import", a)
              /\ Value("importReceipt", a).outcome = "APPLIED"
=============================================================================

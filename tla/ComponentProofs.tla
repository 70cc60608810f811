-------------------------- MODULE ComponentProofs ---------------------------
(***************************************************************************)
(* What the components that keep files of their own promise, for any       *)
(* number of clients: the run archive with the device importer, the        *)
(* workspace manager, the package installer, the plugin registry and the   *)
(* updater.                                                                *)
(*                                                                         *)
(* None of the promises is inductive. Each section strengthens one with    *)
(* what the command under way may rely on at each of its program points,   *)
(* then takes the actions in turn.                                         *)
(***************************************************************************)
EXTENDS DeviceImport, GitWorkspaces, PackageInstall, PluginRegistry, Updater,
        WellFoundedInduction, TLAPS

-----------------------------------------------------------------------------
(* Run archive and device importer: a fact is written only after the facts  *)
(* it speaks of, none is written twice, and only an export is ever removed. *)
(* A device operation holds its profile by its intent until it publishes    *)
(* the receipt.                                                             *)

Requested(q) == q \in Imports /\ q.archive \in Archives /\ q.content = ContentOf(q.archive)
DeviceKinds == {"DEVICE_IMPORT", "DEVICE_POLICY", "DEVICE_READY"}
(* The operation of a device that is at work holds its profile.              *)
DeviceHolds(x) ==
    /\ x.p \in DeviceRequests
    /\ ~Exists("deviceReceipt", x.p.profile)
    /\ Exists("deviceIntent", x.p.profile) /\ Value("deviceIntent", x.p.profile).request = x.p
PolicyIsReady(x) ==
    /\ Exists("import", x.p.import.archive) /\ Value("import", x.p.import.archive) = x.p.import.content
    /\ x.outcome = "EXACT" => policy[x.p.profile] = x.p.policy
    /\ x.cloned => clones[x.p.profile] = 1
(* What an operation that is under way may rely on.                          *)
Prepared(x) ==
    /\ x.kind # "LINKED"
    /\ x.kind \in {"WRITE_PACKAGE", "ARCHIVE_RUN"} => x.p \in Archives
    /\ x.kind = "ARCHIVE_RUN" => Exists("package", x.p)
    /\ x.kind \in {"REMOVE", "DELETED"} => DOMAIN x = {"kind", "p"} /\ x.p.target \in Targets
    /\ x.kind = "DELETED" => ~Exists("export", x.p.target)
    /\ x.kind = "IMPORT" => /\ Requested(x.p)
                            /\ x.back = Idle \/ (x.back.kind = "DEVICE_POLICY" /\ DeviceHolds(x.back))
    /\ x.kind \in DeviceKinds => DeviceHolds(x)
    /\ x.kind = "DEVICE_READY" => PolicyIsReady(x)
TaskIsPrepared ==
    IF task.kind = "LINKED" THEN task.file \in Files /\ file[task.file].links > 0 /\ Prepared(task.after)
    ELSE Prepared(task)

ArchiveShapes ==
    /\ DOMAIN file = Files
    /\ \A n \in Files : DOMAIN file[n] = {"links", "value"} /\ file[n].links \in {0, 1, 2}
    /\ run \in {"ENDED"} \cup Archives
DeletedStaysDeleted ==
    \A t \in Targets :
        Exists("deleteReceipt", t) /\ Value("deleteReceipt", t).outcome # "BLOCKED" => ~Exists("export", t)
ImportsAreBound ==
    \A a \in Archives :
        /\ Exists("import", a) => Value("import", a) = ContentOf(a) /\ Exists("importIntent", a)
        /\ Exists("importIntent", a) => Value("importIntent", a).outcome = "APPLIED"
        /\ Exists("importReceipt", a) => /\ Exists("import", a)
                                         /\ Value("importReceipt", a).content = ContentOf(a)
                                         /\ Value("importReceipt", a).outcome = "APPLIED"
ReceiptIsBacked(p, fact) ==
    /\ Exists("deviceIntent", p) /\ Value("deviceIntent", p).request = fact.request
    /\ fact.request.import.archive \in Archives
    /\ Exists("import", fact.request.import.archive)
    /\ Value("import", fact.request.import.archive) = fact.request.import.content
    /\ fact.policy = "EXACT" => policy[p] = fact.request.policy
    /\ fact.outcome = "READY" => fact.policy = "EXACT"
DevicesAreBound ==
    /\ DOMAIN policy = Profiles /\ DOMAIN clones = Profiles
    /\ \A p \in Profiles :
        /\ clones[p] \in {0, 1} /\ (clones[p] = 1 => policy[p] # "ABSENT")
        /\ Exists("deviceReceipt", p) => ReceiptIsBacked(p, Value("deviceReceipt", p))
ArchivedIsPackaged == run # "ENDED" => Exists("package", run)
DeviceInv ==
    /\ ArchiveShapes /\ ArchivedIsPackaged /\ DeletedStaysDeleted /\ ImportsAreBound /\ DevicesAreBound
    /\ TaskIsPrepared

LEMMA FilesOfStore ==
  /\ \A a \in Archives : /\ <<"package", a>> \in Files /\ <<"import", a>> \in Files
                         /\ <<"importIntent", a>> \in Files /\ <<"importReceipt", a>> \in Files
  /\ \A t \in Targets : /\ <<"export", t>> \in Files /\ <<"deletePending", t>> \in Files
                        /\ <<"deleteReceipt", t>> \in Files
  /\ \A p \in Profiles : <<"deviceIntent", p>> \in Files /\ <<"deviceReceipt", p>> \in Files
BY DEF Files

LEMMA IdleIsPrepared == Prepared(Idle) /\ Prepared(Idle)' /\ Idle.kind = "IDLE"
BY DEF Prepared, Idle, DeviceKinds

LEMMA DeviceInvInit == DeviceInit => DeviceInv
<1> SUFFICES ASSUME DeviceInit PROVE DeviceInv
  OBVIOUS
<1>1. \A n \in Files : file[n] = NoFile
  BY DEF DeviceInit, ArchiveInit
<1>2. ArchiveShapes /\ ArchivedIsPackaged
  BY <1>1 DEF DeviceInit, ArchiveInit, ArchiveShapes, ArchivedIsPackaged, NoFile
<1>0. \A kind, k : <<kind, k>> \in Files => ~Exists(kind, k)
  BY <1>1 DEF Exists, NoFile
<1>3. DeletedStaysDeleted /\ ImportsAreBound
  BY <1>0, FilesOfStore DEF DeletedStaysDeleted, ImportsAreBound
<1>4. DevicesAreBound
  <2>1. \A p \in Profiles : ~Exists("deviceReceipt", p)
    BY <1>0, FilesOfStore
  <2>2. DOMAIN policy = Profiles /\ clones = [p \in Profiles |-> 0]
    BY DEF DeviceInit
  <2> QED  BY <2>1, <2>2 DEF DevicesAreBound
<1>5. TaskIsPrepared
  BY IdleIsPrepared DEF DeviceInit, ArchiveInit, TaskIsPrepared
<1> QED  BY <1>2, <1>3, <1>4, <1>5 DEF DeviceInv

\* A step that writes no file and no policy.
LEMMA DeviceTurnKeeps ==
  ASSUME DeviceInv, UNCHANGED <<run, file, policy, clones>>, task'.kind # "LINKED", Prepared(task')
  PROVE  DeviceInv'
<1>1. (ArchiveShapes /\ ArchivedIsPackaged /\ DeletedStaysDeleted)'
  BY DEF DeviceInv, ArchiveShapes, ArchivedIsPackaged, DeletedStaysDeleted, Exists, Value
<1>2. ImportsAreBound'
  BY DEF DeviceInv, ImportsAreBound, Exists, Value
<1>3. DevicesAreBound'
  BY DEF DeviceInv, DevicesAreBound, ReceiptIsBacked, Exists, Value
<1>4. TaskIsPrepared'
  BY DEF TaskIsPrepared, Prepared, DeviceHolds, PolicyIsReady, Exists, Value
<1> QED  BY <1>1, <1>2, <1>3, <1>4 DEF DeviceInv

\* The frame of a publication.
LEMMA FactPublishFrame ==
  ASSUME DeviceInv, NEW kind, NEW k, <<kind, k>> \in Files, NEW value, NEW after, Publish(kind, k, value, after)
  PROVE  /\ ~Exists(kind, k) /\ UNCHANGED <<run, stops>>
         /\ Exists(kind, k)' /\ Value(kind, k)' = value
         /\ \A other, j : <<other, j>> \in Files /\ ~(other = kind /\ j = k) =>
               Exists(other, j)' = Exists(other, j) /\ Value(other, j)' = Value(other, j)
         /\ ArchiveShapes'
         /\ task'.kind = "LINKED" /\ task'.after = after /\ task'.file = <<kind, k>>
<1>1. file' = [file EXCEPT ![<<kind, k>>] = [links |-> 2, value |-> value]] /\ DOMAIN file = Files
  BY DEF Publish, DeviceInv, ArchiveShapes
<1>2. /\ file'[<<kind, k>>] = [links |-> 2, value |-> value] /\ DOMAIN file' = Files
      /\ \A n \in Files : n # <<kind, k>> => file'[n] = file[n]
  BY <1>1
<1>3. Exists(kind, k)' /\ Value(kind, k)' = value
  BY <1>2 DEF Exists, Value
<1>4. ASSUME NEW other, NEW j, <<other, j>> \in Files, ~(other = kind /\ j = k)
      PROVE  Exists(other, j)' = Exists(other, j) /\ Value(other, j)' = Value(other, j)
  <2>1. file'[<<other, j>>] = file[<<other, j>>]
    BY <1>2, <1>4
  <2> QED  BY <2>1 DEF Exists, Value
<1>5. ArchiveShapes'
  BY <1>2 DEF Publish, DeviceInv, ArchiveShapes
<1> QED  BY <1>3, <1>4, <1>5 DEF Publish

\* A publication is sound by its kind, and what follows it is prepared.
LEMMA FactPublishKeeps ==
  ASSUME DeviceInv, NEW kind, NEW k, <<kind, k>> \in Files, NEW value, NEW after, Publish(kind, k, value, after),
         UNCHANGED <<policy, clones>>, Prepared(after)',
         kind = "export" => ~Exists("deleteReceipt", k),
         kind = "deleteReceipt" => value.outcome = "BLOCKED" \/ ~Exists("export", k),
         kind = "importIntent" => value.outcome = "APPLIED",
         kind = "import" => value = ContentOf(k) /\ Exists("importIntent", k),
         kind = "importReceipt" => /\ Exists("import", k)
                                   /\ value.content = ContentOf(k) /\ value.outcome = "APPLIED",
         kind = "deviceReceipt" => ReceiptIsBacked(k, value)
  PROVE  DeviceInv'
<1>0. /\ ~Exists(kind, k) /\ UNCHANGED <<run, stops>>
      /\ Exists(kind, k)' /\ Value(kind, k)' = value
      /\ \A other, j : <<other, j>> \in Files /\ ~(other = kind /\ j = k) =>
            Exists(other, j)' = Exists(other, j) /\ Value(other, j)' = Value(other, j)
      /\ ArchiveShapes'
      /\ task'.kind = "LINKED" /\ task'.after = after /\ task'.file = <<kind, k>>
  BY FactPublishFrame
<1>1. DeletedStaysDeleted'
  BY <1>0, FilesOfStore DEF DeviceInv, DeletedStaysDeleted
<1>2. ImportsAreBound'
  <2> SUFFICES ASSUME NEW a \in Archives
      PROVE  /\ Exists("import", a)' => Value("import", a)' = ContentOf(a) /\ Exists("importIntent", a)'
             /\ Exists("importIntent", a)' => Value("importIntent", a)'.outcome = "APPLIED"
             /\ Exists("importReceipt", a)' => /\ Exists("import", a)'
                                         /\ Value("importReceipt", a)'.content = ContentOf(a)
                                         /\ Value("importReceipt", a)'.outcome = "APPLIED"
    BY DEF ImportsAreBound
  <2>1. /\ Exists("import", a) => Value("import", a) = ContentOf(a) /\ Exists("importIntent", a)
        /\ Exists("importIntent", a) => Value("importIntent", a).outcome = "APPLIED"
        /\ Exists("importReceipt", a) => /\ Exists("import", a)
                                         /\ Value("importReceipt", a).content = ContentOf(a)
                                         /\ Value("importReceipt", a).outcome = "APPLIED"
    BY DEF DeviceInv, ImportsAreBound
  <2> QED  BY <2>1, <1>0, FilesOfStore
<1>3. DevicesAreBound'
  <2>1. DOMAIN policy' = Profiles /\ DOMAIN clones' = Profiles
    BY DEF DeviceInv, DevicesAreBound
  <2>2. ASSUME NEW p \in Profiles, NEW fact, ReceiptIsBacked(p, fact) PROVE ReceiptIsBacked(p, fact)'
    <3>1. Exists("deviceIntent", p)' /\ Value("deviceIntent", p)' = Value("deviceIntent", p)
      BY <1>0, <2>2, FilesOfStore DEF ReceiptIsBacked
    <3> DEFINE a == fact.request.import.archive
    <3>2. a \in Archives /\ Exists("import", a) /\ Value("import", a) = fact.request.import.content
      BY <2>2 DEF ReceiptIsBacked
    <3>3. Exists("import", a)' /\ Value("import", a)' = Value("import", a)
      <4> HIDE DEF a
      <4> QED  BY <1>0, <3>2, FilesOfStore
    <3>4. fact.policy = "EXACT" => policy'[p] = fact.request.policy
      BY <2>2 DEF ReceiptIsBacked
    <3> QED  BY <2>2, <3>1, <3>2, <3>3, <3>4 DEF ReceiptIsBacked
  <2>3. ASSUME NEW p \in Profiles, Exists("deviceReceipt", p)' PROVE ReceiptIsBacked(p, Value("deviceReceipt", p))'
    <3>1. CASE kind = "deviceReceipt" /\ k = p
      BY <2>2, <3>1, <1>0 DEF ReceiptIsBacked
    <3>2. CASE ~(kind = "deviceReceipt" /\ k = p)
      <4>1. Exists("deviceReceipt", p) /\ Value("deviceReceipt", p)' = Value("deviceReceipt", p)
        BY <2>3, <3>2, <1>0, FilesOfStore
      <4>2. PICK v : v = Value("deviceReceipt", p)
        OBVIOUS
      <4>3. ReceiptIsBacked(p, v)'
        BY <2>2, <4>1, <4>2 DEF DeviceInv, DevicesAreBound
      <4> QED  BY <4>1, <4>2, <4>3 DEF ReceiptIsBacked
    <3> QED  BY <3>1, <3>2
  <2> QED  BY <2>1, <2>3 DEF DeviceInv, DevicesAreBound
<1>4. ArchivedIsPackaged' /\ ArchiveShapes'
  BY <1>0, FilesOfStore DEF DeviceInv, ArchivedIsPackaged, ArchiveShapes
<1>5. TaskIsPrepared'
  BY <1>0 DEF TaskIsPrepared, Exists
<1> QED  BY <1>1, <1>2, <1>3, <1>4, <1>5 DEF DeviceInv

\* The steps of the archive store.
LEMMA ArchiveStepsKeep ==
  ASSUME DeviceInv, UNCHANGED <<policy, clones>>,
         Stop \/ WritePackage \/ ArchiveRun \/ DeleteEnds \/ \E a \in Archives : Finalize(a)
  PROVE  DeviceInv'
<1>1. CASE Stop
  BY <1>1, DeviceTurnKeeps, IdleIsPrepared DEF Stop
<1>2. CASE WritePackage
  <2>1. task.p \in Archives
    BY <1>2 DEF WritePackage, Doing, DeviceInv, TaskIsPrepared, Prepared
  <2> DEFINE after == [kind |-> "ARCHIVE_RUN", p |-> task.p]
  <2>2. Publish("package", task.p, ContentOf(task.p), after)
    BY <1>2 DEF WritePackage
  <2>3. PICK a \in Archives : a = task.p
    BY <2>1
  <2>8. PICK v, x : v = ContentOf(task.p) /\ x = after
    OBVIOUS
  <2>4. x.kind = "ARCHIVE_RUN" /\ x.p = a
    BY <2>3, <2>8
  <2>5. Publish("package", a, v, x) /\ <<"package", a>> \in Files
    BY <2>2, <2>3, <2>8, FilesOfStore
  <2>6. Exists("package", a)'
    BY <2>5, FactPublishFrame
  <2>7. Prepared(x)'
    BY <2>4, <2>6 DEF Prepared, DeviceKinds
  <2> QED  BY <2>5, <2>7, FactPublishKeeps
<1>3. CASE ArchiveRun
  <2>1. /\ task.p \in Archives /\ Exists("package", task.p) /\ run' = task.p /\ task' = Idle
        /\ UNCHANGED file
    BY <1>3 DEF ArchiveRun, Doing, DeviceInv, TaskIsPrepared, Prepared
  <2>2. ArchivedIsPackaged' /\ ArchiveShapes' /\ DeletedStaysDeleted' /\ ImportsAreBound'
    BY <2>1 DEF DeviceInv, ArchivedIsPackaged, ArchiveShapes, DeletedStaysDeleted, ImportsAreBound, Exists, Value
  <2>3. DevicesAreBound'
    BY <2>1 DEF DeviceInv, DevicesAreBound, ReceiptIsBacked, Exists, Value
  <2>4. TaskIsPrepared'
    BY <2>1, IdleIsPrepared DEF TaskIsPrepared
  <2> QED  BY <2>2, <2>3, <2>4 DEF DeviceInv
<1>4. CASE DeleteEnds
  <2>1. task.p.target \in Targets /\ ~Exists("export", task.p.target)
    BY <1>4 DEF DeleteEnds, Doing, DeviceInv, TaskIsPrepared, Prepared
  <2>2. PICK v : Publish("deleteReceipt", task.p.target, v, Idle)
    BY <1>4 DEF DeleteEnds
  <2>3. PICK t \in Targets : t = task.p.target
    BY <2>1
  <2>4. Publish("deleteReceipt", t, v, Idle) /\ <<"deleteReceipt", t>> \in Files /\ ~Exists("export", t)
    BY <2>1, <2>2, <2>3, FilesOfStore
  <2> QED  BY <2>4, FactPublishKeeps, IdleIsPrepared
<1>5. ASSUME NEW a \in Archives, Finalize(a) PROVE DeviceInv'
  <2>1. PICK kind \in {"ARCHIVE_RUN", "WRITE_PACKAGE"} :
           Goes(kind, a) /\ (kind = "ARCHIVE_RUN" => Exists("package", a))
    BY <1>5 DEF Finalize
  <2>2. task' = [kind |-> kind, p |-> a] /\ UNCHANGED <<run, file>>
    BY <2>1 DEF Goes
  <2>3. task'.kind = kind /\ task'.p = a
    BY <2>2
  <2>4. Prepared(task')
    BY <2>1, <2>3 DEF Prepared, DeviceKinds
  <2> QED  BY <2>2, <2>3, <2>4, DeviceTurnKeeps
<1> QED  BY <1>1, <1>2, <1>3, <1>4, <1>5

LEMMA UnlinkKeeps == ASSUME DeviceInv, UNCHANGED <<policy, clones>>, Unlink PROVE DeviceInv'
<1>1. /\ task.file \in Files /\ file[task.file].links > 0 /\ Prepared(task.after)
      /\ file' = [file EXCEPT ![task.file].links = 1] /\ task' = task.after /\ UNCHANGED run
  BY DEF Unlink, DeviceInv, TaskIsPrepared
<1>2. ArchiveShapes' /\ \A n \in Files : file'[n].value = file[n].value /\ (file'[n].links > 0 <=> file[n].links > 0)
  BY <1>1 DEF DeviceInv, ArchiveShapes
<1>3. \A kind, k : <<kind, k>> \in Files => Exists(kind, k)' = Exists(kind, k) /\ Value(kind, k)' = Value(kind, k)
  BY <1>2 DEF Exists, Value
<1>4. ArchivedIsPackaged' /\ DeletedStaysDeleted' /\ ImportsAreBound'
  <2>1. ArchivedIsPackaged' /\ DeletedStaysDeleted'
    BY <1>1, <1>3, FilesOfStore DEF DeviceInv, ArchiveShapes, ArchivedIsPackaged, DeletedStaysDeleted
  <2>2. ImportsAreBound'
    BY <1>3, FilesOfStore DEF DeviceInv, ImportsAreBound
  <2> QED  BY <2>1, <2>2
<1>5. DevicesAreBound'
  <2>1. ASSUME NEW p \in Profiles, Exists("deviceReceipt", p)' PROVE ReceiptIsBacked(p, Value("deviceReceipt", p))'
    <3>1. PICK v : v = Value("deviceReceipt", p)
      OBVIOUS
    <3>2. ReceiptIsBacked(p, v) /\ Value("deviceReceipt", p)' = v
      BY <1>3, <2>1, <3>1, FilesOfStore DEF DeviceInv, DevicesAreBound
    <3> QED  BY <1>3, <3>2, FilesOfStore DEF ReceiptIsBacked
  <2> QED  BY <2>1 DEF DeviceInv, DevicesAreBound
<1>6. TaskIsPrepared'
  <2>1. ASSUME NEW x, DeviceHolds(x) PROVE DeviceHolds(x)'
    BY <1>3, <2>1, FilesOfStore, DeviceAssumption DEF DeviceHolds
  <2>2. ASSUME NEW x, PolicyIsReady(x), x.p \in DeviceRequests PROVE PolicyIsReady(x)'
    <3>1. <<"import", x.p.import.archive>> \in Files
      BY <2>2, FilesOfStore, DeviceAssumption, ArchiveAssumption
    <3> QED  BY <1>3, <2>2, <3>1 DEF PolicyIsReady
  <2>3. ASSUME NEW x, Prepared(x) PROVE Prepared(x)'
    BY <1>3, <2>1, <2>2, <2>3, FilesOfStore DEF Prepared, DeviceHolds, DeviceKinds, Requested
  <2>4. PICK x : x = task.after
    OBVIOUS
  <2>5. Prepared(x)' /\ task' = x /\ x.kind # "LINKED"
    BY <1>1, <2>3, <2>4 DEF Prepared
  <2> QED  BY <2>5 DEF TaskIsPrepared, Prepared, DeviceHolds, PolicyIsReady, Requested, Exists, Value
<1> QED  BY <1>2, <1>4, <1>5, <1>6 DEF DeviceInv

LEMMA ExportKeeps ==
  ASSUME DeviceInv, UNCHANGED <<policy, clones>>, NEW t \in Targets, NEW x \in ArchiveOps,
         (\E a \in Archives : Export(t, x, a)) \/ DeleteBegins(t, x)
  PROVE  DeviceInv'
<1>0. <<"export", t>> \in Files /\ <<"deleteReceipt", t>> \in Files /\ <<"deletePending", t>> \in Files
  BY FilesOfStore
<1>1. ASSUME NEW a \in Archives, Export(t, x, a) PROVE DeviceInv'
  <2>1. PICK v : Publish("export", t, v, Idle) /\ ~Exists("deleteReceipt", t)
    BY <1>1 DEF Export
  <2> QED  BY <1>0, <2>1, FactPublishKeeps, IdleIsPrepared
<1>2. CASE DeleteBegins(t, x)
  <2>1. \/ \E v : Publish("deleteReceipt", t, v, Idle) /\ (v.outcome = "BLOCKED" \/ ~Exists("export", t))
        \/ \E v, after : /\ Publish("deletePending", t, v, after)
                         /\ after = [kind |-> "REMOVE", p |-> [target |-> t, op |-> x]]
        \/ Goes("REMOVE", [target |-> t, op |-> x])
    BY <1>2 DEF DeleteBegins
  <2>2. ASSUME NEW v, Publish("deleteReceipt", t, v, Idle), v.outcome = "BLOCKED" \/ ~Exists("export", t)
        PROVE DeviceInv'
    BY <1>0, <2>2, FactPublishKeeps, IdleIsPrepared
  <2>3. ASSUME NEW after, after = [kind |-> "REMOVE", p |-> [target |-> t, op |-> x]]
        PROVE  Prepared(after) /\ Prepared(after)' /\ after.kind = "REMOVE"
    BY <2>3 DEF Prepared, DeviceKinds
  <2>4. ASSUME NEW v, NEW after, Publish("deletePending", t, v, after),
               after = [kind |-> "REMOVE", p |-> [target |-> t, op |-> x]]
        PROVE DeviceInv'
    BY <1>0, <2>3, <2>4, FactPublishKeeps
  <2>5. CASE Goes("REMOVE", [target |-> t, op |-> x])
    <3>1. PICK after : after = [kind |-> "REMOVE", p |-> [target |-> t, op |-> x]]
      OBVIOUS
    <3>2. task' = after /\ UNCHANGED <<run, file>>
      BY <2>5, <3>1 DEF Goes
    <3>3. task'.kind = "REMOVE" /\ DOMAIN task' = {"kind", "p"} /\ task'.p.target \in Targets
      BY <3>1, <3>2
    <3>4. Prepared(task')
      BY <3>3 DEF Prepared, DeviceKinds
    <3> QED  BY <3>2, <3>3, <3>4, DeviceTurnKeeps
  <2> QED  BY <2>1, <2>2, <2>4, <2>5
<1> QED  BY <1>1, <1>2

LEMMA ExportRemoveKeeps == ASSUME DeviceInv, UNCHANGED <<policy, clones>>, Remove PROVE DeviceInv'
<1>1. PICK t \in Targets : t = task.p.target
  BY DEF Remove, Doing, DeviceInv, TaskIsPrepared, Prepared
<1>2. /\ file' = [file EXCEPT ![<<"export", t>>] = NoFile] /\ UNCHANGED run
      /\ task' = [task EXCEPT !.kind = "DELETED"] /\ DOMAIN task = {"kind", "p"}
  BY <1>1 DEF Remove, Doing, DeviceInv, TaskIsPrepared, Prepared
<1>3. task'.kind = "DELETED" /\ task'.p.target = t /\ DOMAIN task' = {"kind", "p"}
  BY <1>1, <1>2
<1>4. /\ DOMAIN file' = Files /\ file'[<<"export", t>>] = NoFile
      /\ \A n \in Files : n # <<"export", t>> => file'[n] = file[n]
  BY <1>2, FilesOfStore DEF DeviceInv, ArchiveShapes
<1>5. ~Exists("export", t)'
  BY <1>4 DEF Exists, NoFile
<1>6. \A kind, k : <<kind, k>> \in Files /\ kind # "export" =>
         Exists(kind, k)' = Exists(kind, k) /\ Value(kind, k)' = Value(kind, k)
  <2> SUFFICES ASSUME NEW kind, NEW k, <<kind, k>> \in Files, kind # "export"
               PROVE  Exists(kind, k)' = Exists(kind, k) /\ Value(kind, k)' = Value(kind, k)
    OBVIOUS
  <2>1. file'[<<kind, k>>] = file[<<kind, k>>]
    BY <1>4
  <2> QED  BY <2>1 DEF Exists, Value
<1>7. \A j \in Targets : Exists("export", j)' => Exists("export", j)
  <2> SUFFICES ASSUME NEW j \in Targets, j # t PROVE Exists("export", j)' = Exists("export", j)
    BY <1>5
  <2>1. file'[<<"export", j>>] = file[<<"export", j>>]
    BY <1>4, FilesOfStore
  <2> QED  BY <2>1 DEF Exists
<1>8. ArchiveShapes'
  BY <1>2, <1>4 DEF DeviceInv, ArchiveShapes, NoFile
<1>9. ArchivedIsPackaged' /\ DeletedStaysDeleted'
  BY <1>2, <1>6, <1>7, FilesOfStore DEF DeviceInv, ArchiveShapes, ArchivedIsPackaged, DeletedStaysDeleted
<1>10. ImportsAreBound'
  BY <1>6, FilesOfStore DEF DeviceInv, ImportsAreBound
<1>11. DevicesAreBound'
  <2>1. ASSUME NEW p \in Profiles, Exists("deviceReceipt", p)' PROVE ReceiptIsBacked(p, Value("deviceReceipt", p))'
    <3>1. PICK v : v = Value("deviceReceipt", p)
      OBVIOUS
    <3>2. ReceiptIsBacked(p, v) /\ Value("deviceReceipt", p)' = v
      BY <1>6, <2>1, <3>1, FilesOfStore DEF DeviceInv, DevicesAreBound
    <3> QED  BY <1>6, <3>2, FilesOfStore DEF ReceiptIsBacked
  <2> QED  BY <2>1 DEF DeviceInv, DevicesAreBound
<1>12. TaskIsPrepared'
  BY <1>3, <1>5 DEF TaskIsPrepared, Prepared, DeviceKinds
<1> QED  BY <1>8, <1>9, <1>10, <1>11, <1>12 DEF DeviceInv

\* What MayImport lets through is the package of its Archive.
LEMMA AdmittedIsCanonical == ASSUME NEW q \in Imports, MayImport(q) PROVE Requested(q)
<1>1. /\ q.archive \in Archives
      /\ \E c \in {"canonical", "live", "altered"} : q.content = [archive |-> q.archive, content |-> c]
  BY ArchiveAssumption
<1>2. q.content.content # "live" /\ q.content.content # "altered"
  BY DEF MayImport, Portable, Exactly
<1> QED  BY <1>1, <1>2 DEF Requested, ContentOf

LEMMA ImportBeginsKeeps ==
  ASSUME DeviceInv, UNCHANGED <<policy, clones>>, NEW q \in Imports, ImportBegins(q)
  PROVE  DeviceInv'
<1>1. task' = [kind |-> "IMPORT", p |-> q, back |-> Idle] /\ UNCHANGED <<run, file>> /\ Requested(q)
  BY AdmittedIsCanonical DEF ImportBegins, Importing
<1>2. task'.kind = "IMPORT" /\ task'.p = q /\ task'.back = Idle
  BY <1>1
<1>3. Prepared(task')
  BY <1>1, <1>2 DEF Prepared, DeviceKinds
<1> QED  BY <1>1, <1>2, <1>3, DeviceTurnKeeps

LEMMA ImportStepKeeps == ASSUME DeviceInv, UNCHANGED <<policy, clones>>, ImportStep PROVE DeviceInv'
<1>1. PICK q, back : q = task.p /\ back = task.back
  OBVIOUS
<1>2. Requested(q) /\ (back = Idle \/ (back.kind = "DEVICE_POLICY" /\ DeviceHolds(back))) /\ task.kind = "IMPORT"
  BY <1>1 DEF ImportStep, Doing, DeviceInv, TaskIsPrepared, Prepared
<1>3. PICK a \in Archives : a = q.archive
  BY <1>2 DEF Requested
<1>4. /\ q.content = ContentOf(a)
      /\ <<"import", a>> \in Files /\ <<"importIntent", a>> \in Files /\ <<"importReceipt", a>> \in Files
  BY <1>2, <1>3, FilesOfStore DEF Requested
<1>5. /\ Exists("import", a) => Value("import", a) = ContentOf(a) /\ Exists("importIntent", a)
      /\ Exists("importIntent", a) => Value("importIntent", a).outcome = "APPLIED"
      /\ Exists("importReceipt", a) => Exists("import", a)
  BY DEF DeviceInv, ImportsAreBound
<1>6. PICK next : next = Importing(q, back)
  OBVIOUS
<1>7. /\ next.kind = "IMPORT" /\ next.p = q /\ next.back = back
  BY <1>6 DEF Importing
<1>8. PICK fact : fact = Fact(q, Recorded(q))
  OBVIOUS
<1>9. fact.content = q.content /\ fact.outcome = Recorded(q)
  BY <1>8 DEF Fact
<1>10. Prepared(back)
  BY <1>2, IdleIsPrepared DEF Prepared, DeviceKinds
<1>11. \/ Exists("importReceipt", a) /\ Exists("import", a) /\ task' = back /\ UNCHANGED <<run, file>>
       \/ ~Exists("importIntent", a) /\ Publish("importIntent", a, fact, next)
       \/ Exists("importIntent", a) /\ ~Exists("import", a) /\ Publish("import", a, q.content, next)
       \/ Exists("importIntent", a) /\ Exists("import", a) /\ Publish("importReceipt", a, fact, back)
  BY <1>1, <1>3, <1>5, <1>6, <1>8 DEF ImportStep
<1>12. ASSUME NEW kind \in {"import", "importIntent", "importReceipt"}, NEW v, NEW after, Publish(kind, a, v, after)
       PROVE  DeviceHolds(back) => DeviceHolds(back)'
  <2> SUFFICES ASSUME DeviceHolds(back) PROVE DeviceHolds(back)'
    OBVIOUS
  <2>1. back.p.profile \in Profiles
    BY DeviceAssumption DEF DeviceHolds
  <2>2. <<kind, a>> \in Files
    BY <1>4
  <2>3. \A other, j : <<other, j>> \in Files /\ ~(other = kind /\ j = a) =>
               Exists(other, j)' = Exists(other, j) /\ Value(other, j)' = Value(other, j)
    BY <1>12, <2>2, FactPublishFrame
  <2> QED  BY <2>1, <2>3, FilesOfStore DEF DeviceHolds
<1>13. ASSUME NEW kind \in {"import", "importIntent", "importReceipt"}, NEW v, NEW after, Publish(kind, a, v, after)
       PROVE  Prepared(back)' /\ Prepared(next)'
  <2>1. back = Idle \/ (back.kind = "DEVICE_POLICY" /\ DeviceHolds(back)')
    BY <1>2, <1>12, <1>13
  <2>2. Prepared(back)'
    BY <2>1, IdleIsPrepared DEF Prepared, DeviceKinds
  <2>3. Prepared(next)'
    BY <1>2, <1>7, <2>1 DEF Prepared, DeviceKinds, Requested
  <2> QED  BY <2>2, <2>3
<1>14. CASE Exists("importReceipt", a) /\ Exists("import", a) /\ task' = back /\ UNCHANGED <<run, file>>
  <2>1. Prepared(task') /\ task'.kind # "LINKED"
    BY <1>10, <1>14 DEF Prepared
  <2> QED  BY <1>14, <2>1, DeviceTurnKeeps
<1>15. CASE ~Exists("importIntent", a) /\ Publish("importIntent", a, fact, next)
  <2>1. fact.outcome = "APPLIED"
    BY <1>3, <1>5, <1>9, <1>15 DEF Recorded
  <2> QED  BY <1>4, <1>13, <1>15, <2>1, FactPublishKeeps
<1>16. CASE Exists("importIntent", a) /\ ~Exists("import", a) /\ Publish("import", a, q.content, next)
  <2>1. PICK v : v = q.content
    OBVIOUS
  <2> QED  BY <1>4, <1>13, <1>16, <2>1, FactPublishKeeps
<1>17. CASE Exists("importIntent", a) /\ Exists("import", a) /\ Publish("importReceipt", a, fact, back)
  <2>1. fact.outcome = "APPLIED" /\ fact.content = ContentOf(a)
    BY <1>3, <1>4, <1>5, <1>9, <1>17 DEF Recorded
  <2> QED  BY <1>4, <1>13, <1>17, <2>1, FactPublishKeeps
<1> QED  BY <1>11, <1>14, <1>15, <1>16, <1>17

\* A step that changes the policy of one profile that has no receipt.
LEMMA PolicyChangeKeeps ==
  ASSUME DeviceInv, UNCHANGED <<run, file>>, NEW p \in Profiles, ~Exists("deviceReceipt", p),
         NEW v, NEW n \in {0, 1}, n = 1 => v # "ABSENT",
         policy' = [policy EXCEPT ![p] = v], clones' = [clones EXCEPT ![p] = n],
         NEW x, x = task', x.kind # "LINKED", Prepared(x)'
  PROVE  DeviceInv'
<1>1. (ArchiveShapes /\ ArchivedIsPackaged /\ DeletedStaysDeleted)'
  BY DEF DeviceInv, ArchiveShapes, ArchivedIsPackaged, DeletedStaysDeleted, Exists, Value
<1>2. ImportsAreBound'
  BY DEF DeviceInv, ImportsAreBound, Exists, Value
<1>3. /\ DOMAIN policy' = Profiles /\ DOMAIN clones' = Profiles /\ policy'[p] = v /\ clones'[p] = n
      /\ \A o \in Profiles : o # p => policy'[o] = policy[o] /\ clones'[o] = clones[o]
  BY DEF DeviceInv, DevicesAreBound
<1>4. DevicesAreBound'
  <2>1. ASSUME NEW o \in Profiles PROVE clones'[o] \in {0, 1} /\ (clones'[o] = 1 => policy'[o] # "ABSENT")
    BY <1>3 DEF DeviceInv, DevicesAreBound
  <2>2. ASSUME NEW o \in Profiles, Exists("deviceReceipt", o)' PROVE ReceiptIsBacked(o, Value("deviceReceipt", o))'
    <3>1. Exists("deviceReceipt", o) /\ o # p
      BY <2>2 DEF Exists
    <3>2. ReceiptIsBacked(o, Value("deviceReceipt", o)) /\ policy'[o] = policy[o]
      BY <1>3, <3>1 DEF DeviceInv, DevicesAreBound
    <3> QED  BY <3>2 DEF ReceiptIsBacked, Exists, Value
  <2> QED  BY <1>3, <2>1, <2>2 DEF DevicesAreBound
<1>5. TaskIsPrepared'
  BY DEF TaskIsPrepared, Prepared, DeviceHolds, PolicyIsReady, Requested, Exists, Value
<1> QED  BY <1>1, <1>2, <1>4, <1>5 DEF DeviceInv

LEMMA DeviceBeginsKeeps ==
    ASSUME DeviceInv, NEW r \in DeviceRequests, DeviceBegins(r)
    PROVE  DeviceInv'
<1>0. r.profile \in Profiles /\ <<"deviceIntent", r.profile>> \in Files /\ <<"deviceReceipt", r.profile>> \in Files
  BY DeviceAssumption, FilesOfStore
<1>1. CASE Exists("deviceIntent", r.profile) /\ DeviceTurn([kind |-> "DEVICE_IMPORT", p |-> r])
  <2>1. Value("deviceIntent", r.profile).request = r /\ ~Exists("deviceReceipt", r.profile)
    BY <1>0, <1>1 DEF DeviceBegins, BoundTo, DeviceFacts
  <2>2. task'.kind = "DEVICE_IMPORT" /\ task'.p = r /\ UNCHANGED <<run, file, policy, clones>>
    BY <1>1 DEF DeviceTurn
  <2>3. Prepared(task')
    BY <1>1, <2>1, <2>2 DEF Prepared, DeviceKinds, DeviceHolds
  <2> QED  BY <2>2, <2>3, DeviceTurnKeeps
<1>2. CASE /\ Publish("deviceIntent", r.profile, [request |-> r], [kind |-> "DEVICE_IMPORT", p |-> r])
           /\ KeepPolicy
  <2>1. PICK v, x : v = [request |-> r] /\ x = [kind |-> "DEVICE_IMPORT", p |-> r]
    OBVIOUS
  <2>2. v.request = r /\ x.kind = "DEVICE_IMPORT" /\ x.p = r
    BY <2>1
  <2>3. PICK p \in Profiles : p = r.profile
    BY <1>0
  <2>4. Publish("deviceIntent", p, v, x) /\ <<"deviceIntent", p>> \in Files /\ UNCHANGED <<policy, clones>>
    BY <1>0, <1>2, <2>1, <2>3 DEF KeepPolicy
  <2>5. ~Exists("deviceReceipt", p)
    BY <2>3 DEF DeviceBegins
  <2>6. Exists("deviceIntent", p)' /\ Value("deviceIntent", p)' = v
    BY <2>4, FactPublishFrame
  <2>9. \A other, j : <<other, j>> \in Files /\ ~(other = "deviceIntent" /\ j = p) =>
               Exists(other, j)' = Exists(other, j) /\ Value(other, j)' = Value(other, j)
    BY <2>4, FactPublishFrame
  <2>7. ~Exists("deviceReceipt", p)'
    BY <2>5, <2>9, FilesOfStore
  <2>8. Prepared(x)'
    BY <2>2, <2>3, <2>6, <2>7 DEF Prepared, DeviceKinds, DeviceHolds
  <2> QED  BY <2>4, <2>8, FactPublishKeeps
<1> QED  BY <1>1, <1>2 DEF DeviceBegins

LEMMA DeviceImportsKeeps == ASSUME DeviceInv, DeviceImports PROVE DeviceInv'
<1>1. PICK r \in DeviceRequests : r = task.p /\ MayImport(r.import) /\ DeviceHolds(task) /\ task.kind = "DEVICE_IMPORT"
  BY DEF DeviceImports, Doing, DeviceInv, TaskIsPrepared, Prepared, DeviceKinds, DeviceHolds
<1>2. PICK q \in Imports : q = r.import
  BY DeviceAssumption
<1>3. Requested(q)
  BY <1>1, <1>2, AdmittedIsCanonical
<1>4. PICK back : back = [kind |-> "DEVICE_POLICY", p |-> r]
  OBVIOUS
<1>5. task' = [kind |-> "IMPORT", p |-> q, back |-> back] /\ UNCHANGED <<run, file, policy, clones>>
  BY <1>1, <1>2, <1>4 DEF DeviceImports, DeviceTurn, Importing
<1>6. task'.kind = "IMPORT" /\ task'.p = q /\ task'.back = back
  BY <1>5
<1>7. back.kind = "DEVICE_POLICY" /\ DeviceHolds(back)
  BY <1>1, <1>4 DEF DeviceHolds
<1>8. Prepared(task')
  BY <1>3, <1>6, <1>7 DEF Prepared, DeviceKinds
<1> QED  BY <1>5, <1>6, <1>8, DeviceTurnKeeps

LEMMA DeviceRefusedKeeps == ASSUME DeviceInv, DeviceRefused PROVE DeviceInv'
BY DeviceTurnKeeps, IdleIsPrepared DEF DeviceRefused, DeviceTurn

LEMMA PolicyStepKeeps == ASSUME DeviceInv, PolicyStep PROVE DeviceInv'
<1>1. PICK r \in DeviceRequests : r = task.p /\ Projects(r.import) /\ DeviceHolds(task)
  BY DEF PolicyStep, Doing, DeviceInv, TaskIsPrepared, Prepared, DeviceKinds, DeviceHolds
<1>2. r.profile \in Profiles /\ r.policy # "ABSENT" /\ DOMAIN policy = Profiles /\ DOMAIN clones = Profiles
  BY DeviceAssumption DEF DeviceInv, DevicesAreBound
<1>3. Exists("import", r.import.archive) /\ Value("import", r.import.archive) = r.import.content
  BY <1>1 DEF Projects
<1>4. PICK status \in {"ABSENT", "EXACT", "CONFLICT", "NOT_PROVEN"} :
          /\ ReconciledStatus(r, status)
          /\ \/ /\ status # "ABSENT"
                /\ DeviceTurn([kind |-> "DEVICE_READY", p |-> r, outcome |-> status, cloned |-> FALSE])
             \/ /\ status = "ABSENT"
                /\ policy' = [policy EXCEPT ![r.profile] = r.policy]
                /\ clones' = [clones EXCEPT ![r.profile] = @ + 1]
                /\ task' = [kind |-> "DEVICE_READY", p |-> r,
                            outcome |-> "EXACT", cloned |-> TRUE]
                /\ UNCHANGED <<run, file, stops>>
  BY <1>1 DEF PolicyStep
<1>5. /\ status = "EXACT" => policy[r.profile] = r.policy
      /\ status = "ABSENT" => policy[r.profile] = "ABSENT"
  BY <1>2, <1>4 DEF ReconciledStatus
<1>6. CASE status # "ABSENT"
  <2>3. UNCHANGED <<run, file, policy, clones>>
    BY <1>4, <1>6 DEF DeviceTurn
  <2>4. task'.kind = "DEVICE_READY" /\ task'.p = r /\ task'.outcome = status /\ task'.cloned = FALSE
    BY <1>4, <1>6 DEF DeviceTurn
  <2>5. Prepared(task')
    BY <1>1, <1>3, <1>5, <2>4 DEF Prepared, DeviceKinds, DeviceHolds, PolicyIsReady
  <2> QED  BY <2>3, <2>4, <2>5, DeviceTurnKeeps
<1>7. CASE status = "ABSENT"
  <2>1. clones[r.profile] = 0 /\ ~Exists("deviceReceipt", r.profile)
    BY <1>1, <1>2, <1>5, <1>7 DEF DeviceInv, DevicesAreBound, DeviceHolds
  <2>2. /\ policy' = [policy EXCEPT ![r.profile] = r.policy] /\ clones' = [clones EXCEPT ![r.profile] = 1]
        /\ UNCHANGED <<run, file>> /\ 1 \in {0, 1}
    BY <1>4, <1>7, <1>2, <2>1
  <2>3. task'.kind = "DEVICE_READY" /\ task'.p = r /\ task'.outcome = "EXACT" /\ task'.cloned = TRUE
    BY <1>4, <1>7
  <2>4. policy'[r.profile] = r.policy /\ clones'[r.profile] = 1
    BY <1>2, <2>2
  <2>5. PICK x : x = task'
    OBVIOUS
  <2>6. Prepared(x)'
    BY <1>1, <1>3, <2>2, <2>3, <2>4, <2>5 DEF Prepared, DeviceKinds, DeviceHolds, PolicyIsReady, Exists, Value
  <2> QED  BY <1>2, <2>1, <2>2, <2>3, <2>5, <2>6, PolicyChangeKeeps
<1> QED  BY <1>6, <1>7

LEMMA ReadinessStepKeeps == ASSUME DeviceInv, ReadinessStep PROVE DeviceInv'
<1>1. PICK r \in DeviceRequests : r = task.p /\ DeviceHolds(task) /\ PolicyIsReady(task)
  BY DEF ReadinessStep, Doing, DeviceInv, TaskIsPrepared, Prepared, DeviceKinds, DeviceHolds
<1>2. PICK p \in Profiles : p = r.profile
  BY DeviceAssumption
<1>3. PICK ready \in BOOLEAN :
          /\ ready => task.outcome = "EXACT"
          /\ Publish("deviceReceipt", p, [request |-> r, policy |-> task.outcome,
                      outcome |-> IF ready THEN "READY" ELSE "NOT_READY"], Idle)
          /\ UNCHANGED <<policy, clones>>
  BY <1>1, <1>2 DEF ReadinessStep, KeepPolicy
<1>4. PICK v : v = [request |-> r, policy |-> task.outcome, outcome |-> IF ready THEN "READY" ELSE "NOT_READY"]
  OBVIOUS
<1>5. v.request = r /\ v.policy = task.outcome /\ (v.outcome = "READY" => v.policy = "EXACT")
  BY <1>3, <1>4
<1>6. r.import.archive \in Archives
  BY DeviceAssumption, ArchiveAssumption
<1>7. ReceiptIsBacked(p, v)
  BY <1>1, <1>2, <1>5, <1>6 DEF ReceiptIsBacked, DeviceHolds, PolicyIsReady
<1>8. Publish("deviceReceipt", p, v, Idle) /\ <<"deviceReceipt", p>> \in Files
  BY <1>3, <1>4, FilesOfStore
<1> QED  BY <1>3, <1>7, <1>8, IdleIsPrepared, FactPublishKeeps

LEMMA RollbackStepKeeps == ASSUME DeviceInv, RollbackStep PROVE DeviceInv'
<1>1. PICK r \in DeviceRequests : r = task.p /\ DeviceHolds(task) /\ clones[r.profile] = 1
  BY DEF RollbackStep, Doing, DeviceInv, TaskIsPrepared, Prepared, DeviceKinds, DeviceHolds, PolicyIsReady
<1>2. r.profile \in Profiles /\ ~Exists("deviceReceipt", r.profile) /\ DOMAIN clones = Profiles
  BY <1>1, DeviceAssumption DEF DeviceHolds, DeviceInv, DevicesAreBound
<1>3. /\ policy' = [policy EXCEPT ![r.profile] = "ABSENT"] /\ clones' = [clones EXCEPT ![r.profile] = 0]
      /\ task' = Idle /\ UNCHANGED <<run, file>> /\ 0 \in {0, 1}
  BY <1>1, <1>2 DEF RollbackStep
<1>4. PICK x : x = Idle /\ x.kind # "LINKED" /\ Prepared(x)' /\ x = task'
  BY <1>3, IdleIsPrepared
<1>5. PICK n \in {0, 1} : n = 0
  OBVIOUS
<1>6. clones' = [clones EXCEPT ![r.profile] = n] /\ n # 1
  BY <1>3, <1>5
<1>7. PICK p \in Profiles : p = r.profile
  BY <1>2
<1>8. /\ ~Exists("deviceReceipt", p) /\ UNCHANGED <<run, file>>
      /\ policy' = [policy EXCEPT ![p] = "ABSENT"] /\ clones' = [clones EXCEPT ![p] = n]
  BY <1>2, <1>3, <1>6, <1>7
<1> QED  BY <1>4, <1>6, <1>8, PolicyChangeKeeps

LEMMA DeviceInvNext == ASSUME DeviceInv, [DeviceNext]_deviceVars PROVE DeviceInv'
<1>1. CASE UNCHANGED deviceVars
  BY <1>1 DEF deviceVars, archiveVars, DeviceInv, ArchiveShapes, ArchivedIsPackaged, DeletedStaysDeleted, ImportsAreBound,
       DevicesAreBound, ReceiptIsBacked, TaskIsPrepared, Prepared, Requested, DeviceHolds, PolicyIsReady, Exists, Value
<1>2. CASE \E r \in DeviceRequests : DeviceBegins(r)
  BY <1>2, DeviceBeginsKeeps
<1>3. CASE DeviceStep
  BY <1>3, DeviceImportsKeeps, DeviceRefusedKeeps, PolicyStepKeeps, ReadinessStepKeeps, UnlinkKeeps, ImportStepKeeps
    DEF DeviceStep, KeepPolicy
<1>4. CASE RollbackStep
  BY <1>4, RollbackStepKeeps
<1>5. CASE ArchiveNext /\ KeepPolicy
  <2>0. UNCHANGED <<policy, clones>>
    BY <1>5 DEF KeepPolicy
  <2>1. CASE Unlink \/ Remove \/ ImportStep
    BY <2>0, <2>1, UnlinkKeeps, ExportRemoveKeeps, ImportStepKeeps
  <2>2. CASE Stop \/ WritePackage \/ ArchiveRun \/ DeleteEnds \/ \E a \in Archives : Finalize(a)
    BY <2>0, <2>2, ArchiveStepsKeep
  <2>3. CASE \E a \in Archives, t \in Targets, x \in ArchiveOps : Export(t, x, a)
    BY <2>0, <2>3, ExportKeeps
  <2>4. CASE \E t \in Targets, x \in ArchiveOps : DeleteBegins(t, x)
    BY <2>0, <2>4, ExportKeeps
  <2>5. CASE \E q \in Imports : ImportBegins(q)
    BY <2>0, <2>5, ImportBeginsKeeps
  <2> QED  BY <1>5, <2>1, <2>2, <2>3, <2>4, <2>5 DEF ArchiveNext
<1> QED  BY <1>1, <1>2, <1>3, <1>4, <1>5 DEF DeviceNext

LEMMA DeviceInvHolds == DeviceSpec => []DeviceInv
BY DeviceInvInit, DeviceInvNext, PTL DEF DeviceSpec

(* For every archive, target, profile and request, wherever operations are   *)
(* interrupted: what the facts of the archive store say holds (finalize,     *)
(* deleteExport, import in archive.ts), with the device importer at work too.*)
THEOREM ArchiveFactsAreTrue == DeviceSpec => []ArchiveFactsHold
<1>1. DeviceInv => ArchiveFactsHold
  BY DEF DeviceInv, ArchivedIsPackaged, DeletedStaysDeleted, ImportsAreBound, ArchiveFactsHold
<1> QED  BY <1>1, DeviceInvHolds, PTL

(* For every set of profiles and requests: an interrupted and retried device *)
(* import clones one policy, over none, and its receipt is backed            *)
(* (recordOnce, applyImport in portable-device.ts).                          *)
THEOREM DeviceImportsAreExact == DeviceSpec => []DeviceImportIsExact
<1>1. DeviceInv => DeviceImportIsExact
  BY DEF DeviceInv, DevicesAreBound, ReceiptIsBacked, DeviceImportIsExact
<1> QED  BY <1>1, DeviceInvHolds, PTL

-----------------------------------------------------------------------------
(* Workspace manager: every worktree has its maker. A branch left by a      *)
(* disposal is the branch it was asked about until a disposal strays, and   *)
(* only a prepare whose tree a stray disposal took removes what it did not  *)
(* make.                                                                    *)

WorkspaceShapes ==
    /\ DOMAIN preparing = Prepares /\ DOMAIN disposing = Disposals
    /\ \A p \in Prepares : DOMAIN preparing[p] = {"pc", "created"}
    /\ \A p \in Prepares : /\ preparing[p].pc \in {"START", "FREE"} => ~preparing[p].created
                           /\ preparing[p].pc \in {"CLEAN", "CLEARED", "BARE"} => preparing[p].created
    /\ \A d \in Disposals : DOMAIN disposing[d] = {"pc", "of", "removesBranch", "ignored"}
    /\ DOMAIN tree = DOMAIN NoTree
DisposalsAreOfDone ==
    \A d \in Disposals : disposing[d].pc # "START" =>
       /\ disposing[d].of \in Prepares /\ preparing[disposing[d].of].pc = "DONE"
       /\ disposing[d].pc = "REMOVABLE" => ~disposing[d].ignored
Unfinished == {"CREATED", "BROKEN", "CLEAN", "CLEARED", "BARE"}
RemovalsAreSound ==
    \A r \in removals :
       /\ ~r.seenIgnored /\ r.kind \in {"PREPARE", "DISPOSE"}
       /\ r.kind = "PREPARE" => r.from = r.who \/ Strayed
       /\ r.kind = "DISPOSE" => r.who \in Disposals /\ disposing[r.who].pc # "START"
\* The commits only a branch reaches are those of the tree, made since the last push.
BranchesKeepWork ==
    /\ tree.dir => tree.branch
    /\ \A p \in alone : tree.by = p /\ tree.branch /\ tree.commits /\ ~tree.upstream
\* Until a disposal strays, a worktree being made is its maker's, and a branch
\* left by a disposal is the one it was asked about.
TreesAreOwned ==
    /\ \A p \in Prepares : preparing[p].created /\ preparing[p].pc \in Unfinished =>
          tree.branch /\ tree.by = p
    /\ \A d \in Disposals : disposing[d].pc = "REMOVED" =>
          /\ ~tree.dir /\ tree.branch /\ tree.by = disposing[d].of
          /\ \A e \in Disposals : disposing[e].pc = "REMOVED" => e = d
WorkspaceInv ==
    /\ WorkspaceShapes /\ DisposalsAreOfDone /\ RemovalsAreSound /\ BranchesKeepWork
    /\ Strayed \/ TreesAreOwned

USE DEF Unfinished

LEMMA WorkspaceInvInit == WorkspaceInit => WorkspaceInv
<1> SUFFICES ASSUME WorkspaceInit PROVE WorkspaceInv
  OBVIOUS
<1>1. /\ \A p \in Prepares : preparing[p].pc = "START" /\ ~preparing[p].created /\ DOMAIN preparing[p] = {"pc", "created"}
      /\ \A d \in Disposals : disposing[d].pc = "START" /\ DOMAIN disposing[d] = {"pc", "of", "removesBranch", "ignored"}
      /\ ~tree.dir /\ ~tree.branch /\ alone = {} /\ removals = {}
      /\ DOMAIN preparing = Prepares /\ DOMAIN disposing = Disposals /\ tree = NoTree
  BY DEF WorkspaceInit, NoTree
<1> QED  BY <1>1 DEF WorkspaceInv, WorkspaceShapes, DisposalsAreOfDone, RemovalsAreSound, BranchesKeepWork, TreesAreOwned, Unfinished

\* A step that removes nothing and leaves what disposals are about alone.
LEMMA QuietStep ==
  ASSUME WorkspaceInv, WorkspaceShapes', UNCHANGED <<disposing, removals>>, BranchesKeepWork', TreesAreOwned => TreesAreOwned',
         \A p \in Prepares : preparing[p].pc = "DONE" => preparing'[p].pc = "DONE"
  PROVE  WorkspaceInv'
<1>1. Strayed' = Strayed
  BY DEF Strayed, TookAnother
<1>2. DisposalsAreOfDone'
  BY DEF WorkspaceInv, DisposalsAreOfDone
<1>3. RemovalsAreSound'
  BY <1>1 DEF WorkspaceInv, RemovalsAreSound
<1> QED  BY <1>1, <1>2, <1>3 DEF WorkspaceInv

LEMMA PrepareMoves ==
  ASSUME WorkspaceShapes, NEW p \in Prepares, NEW pc, PrepareTo(p, pc)
  PROVE  /\ DOMAIN preparing' = Prepares /\ \A q \in Prepares : DOMAIN preparing'[q] = {"pc", "created"}
         /\ preparing'[p].pc = pc /\ preparing'[p].created = preparing[p].created
         /\ \A q \in Prepares : q # p => preparing'[q] = preparing[q]
BY DEF WorkspaceShapes, PrepareTo

LEMMA DestinationKeeps ==
    ASSUME WorkspaceInv, NEW p \in Prepares, DestinationFree(p)
    PROVE  WorkspaceInv'
<1>1. PICK pc \in {"FAILED", "FREE"} : PrepareTo(p, pc)
  BY DEF DestinationFree
<1>2. WorkspaceShapes' /\ BranchesKeepWork' /\ (TreesAreOwned => TreesAreOwned')
      /\ \A q \in Prepares : preparing[q].pc = "DONE" => preparing'[q].pc = "DONE"
  BY <1>1, PrepareMoves DEF WorkspaceInv, WorkspaceShapes, DestinationFree, BranchesKeepWork, TreesAreOwned
<1> QED  BY <1>2, QuietStep DEF DestinationFree

LEMMA CheckKeeps == ASSUME WorkspaceInv, NEW p \in Prepares, CheckCreated(p) PROVE WorkspaceInv'
<1>1. PICK pc \in {"DONE", "BROKEN"} : PrepareTo(p, pc)
  BY DEF CheckCreated
<1>2. WorkspaceShapes' /\ BranchesKeepWork' /\ (TreesAreOwned => TreesAreOwned')
      /\ \A q \in Prepares : preparing[q].pc = "DONE" => preparing'[q].pc = "DONE"
  BY <1>1, PrepareMoves DEF WorkspaceInv, WorkspaceShapes, CheckCreated, BranchesKeepWork, TreesAreOwned
<1> QED  BY <1>2, QuietStep DEF CheckCreated

LEMMA CreateKeeps == ASSUME WorkspaceInv, NEW p \in Prepares, CreateWorktree(p) PROVE WorkspaceInv'
<1>0. preparing[p].pc = "FREE" /\ UNCHANGED <<disposing, removals>> /\ WorkspaceShapes
  BY DEF CreateWorktree, WorkspaceInv
<1>1. CASE tree.branch /\ PrepareTo(p, "BROKEN") /\ UNCHANGED <<tree, owned>>
  <2>1. WorkspaceShapes' /\ BranchesKeepWork'
        /\ \A q \in Prepares : preparing[q].pc = "DONE" => preparing'[q].pc = "DONE"
    BY <1>0, <1>1, PrepareMoves DEF WorkspaceInv, WorkspaceShapes, BranchesKeepWork, CreateWorktree
  <2>2. ~preparing'[p].created
    BY <1>0, <1>1, PrepareMoves DEF WorkspaceShapes
  <2>3. TreesAreOwned => TreesAreOwned'
    BY <1>0, <1>1, <2>2, PrepareMoves DEF TreesAreOwned
  <2> QED  BY <1>0, <2>1, <2>3, QuietStep
<1>2. CASE ~tree.branch /\ ~tree.dir /\ ~(tree.branch /\ PrepareTo(p, "BROKEN") /\ UNCHANGED <<tree, owned>>)
  <2>1. /\ tree'.branch /\ tree'.by = p /\ alone' = {} /\ DOMAIN tree' = DOMAIN NoTree
        /\ \E pc \in {"CREATED", "BROKEN"} : preparing' = [preparing EXCEPT ![p] = [pc |-> pc, created |-> TRUE]]
    <3>1. alone = {}
      BY <1>2 DEF WorkspaceInv, BranchesKeepWork
    <3> QED  BY <1>2, <3>1 DEF CreateWorktree, NoTree
  <2>2. /\ DOMAIN preparing' = Prepares /\ \A q \in Prepares : DOMAIN preparing'[q] = {"pc", "created"}
        /\ preparing'[p].pc \in {"CREATED", "BROKEN"} /\ \A q \in Prepares : q # p => preparing'[q] = preparing[q]
    BY <1>0, <2>1 DEF WorkspaceShapes
  <2>3. WorkspaceShapes' /\ BranchesKeepWork'
        /\ \A q \in Prepares : preparing[q].pc = "DONE" => preparing'[q].pc = "DONE"
    BY <1>0, <2>1, <2>2 DEF WorkspaceShapes, BranchesKeepWork
  <2>4. TreesAreOwned => TreesAreOwned'
    BY <1>0, <1>2, <2>1, <2>2 DEF TreesAreOwned
  <2> QED  BY <1>0, <2>3, <2>4, QuietStep
<1> QED  BY <1>1, <1>2 DEF CreateWorktree

\* What a removal adds, and what it leaves.
LEMMA TreeRemovalKeeps ==
  ASSUME WorkspaceInv, NEW kind \in {"PREPARE", "DISPOSE"}, NEW who, NEW seen, ~seen, Took(kind, who, seen),
         \A d \in Disposals : /\ disposing'[d].of = disposing[d].of
                              /\ disposing[d].pc # "START" => disposing'[d].pc # "START",
         kind = "DISPOSE" => who \in Disposals /\ disposing[who].pc # "START",
         kind = "PREPARE" => tree.by = who \/ Strayed
  PROVE  RemovalsAreSound' /\ (Strayed => Strayed')
<1>1. removals' = removals \cup {[kind |-> kind, who |-> who, from |-> tree.by, seenIgnored |-> seen]}
  BY DEF Took
<1>2. \A r \in removals : r \in removals' /\ (TookAnother(r) => TookAnother(r)')
  BY <1>1 DEF TookAnother, WorkspaceInv, RemovalsAreSound
<1>3. Strayed => Strayed'
  BY <1>2 DEF Strayed
<1>4. ASSUME NEW r \in removals'
      PROVE  /\ ~r.seenIgnored /\ r.kind \in {"PREPARE", "DISPOSE"}
             /\ r.kind = "PREPARE" => r.from = r.who \/ Strayed'
             /\ r.kind = "DISPOSE" => r.who \in Disposals /\ disposing'[r.who].pc # "START"
  <2>1. CASE r \in removals
    BY <1>3, <2>1 DEF WorkspaceInv, RemovalsAreSound
  <2>2. CASE r = [kind |-> kind, who |-> who, from |-> tree.by, seenIgnored |-> seen]
    BY <1>3, <2>2
  <2> QED  BY <1>1, <1>4, <2>1, <2>2
<1> QED  BY <1>3, <1>4 DEF RemovalsAreSound

\* Until a disposal strays, what an unfinished preparation takes back is its own,
\* and no disposal is between its two removals.
LEMMA TakesItsOwn ==
  ASSUME WorkspaceInv, NEW p \in Prepares, preparing[p].pc \in {"CLEAN", "CLEARED", "BARE"}, TreesAreOwned
  PROVE  /\ tree.by = p /\ tree.branch
         /\ \A q \in Prepares : q # p => ~(preparing[q].created /\ preparing[q].pc \in Unfinished)
         /\ \A d \in Disposals : disposing[d].pc # "REMOVED"
<1>1. /\ tree.by = p /\ tree.branch
      /\ \A q \in Prepares : q # p => ~(preparing[q].created /\ preparing[q].pc \in Unfinished)
  BY DEF TreesAreOwned, Unfinished, WorkspaceInv, WorkspaceShapes
<1>2. \A d \in Disposals : disposing[d].pc # "REMOVED"
  BY <1>1 DEF TreesAreOwned, WorkspaceInv, DisposalsAreOfDone
<1> QED  BY <1>1, <1>2

LEMMA CompensateKeeps ==
    ASSUME WorkspaceInv, NEW p \in Prepares, CompensateFailedPrepare(p)
    PROVE  WorkspaceInv'
<1>1. PICK pc \in {"FAILED", "CLEAN", "BARE"} : PrepareTo(p, pc) /\ (pc # "FAILED" => preparing[p].created)
  BY DEF CompensateFailedPrepare, MayCompensate
<1>2. preparing[p].pc = "BROKEN" /\ UNCHANGED <<tree, disposing, removals, alone>>
  BY DEF CompensateFailedPrepare
<1>3. WorkspaceShapes' /\ BranchesKeepWork' /\ (TreesAreOwned => TreesAreOwned')
      /\ \A q \in Prepares : preparing[q].pc = "DONE" => preparing'[q].pc = "DONE"
  BY <1>1, <1>2, PrepareMoves DEF WorkspaceInv, WorkspaceShapes, BranchesKeepWork, TreesAreOwned, Unfinished
<1> QED  BY <1>2, <1>3, QuietStep

LEMMA FailedTreeKeeps == ASSUME WorkspaceInv, NEW p \in Prepares, RemoveFailedTree(p) PROVE WorkspaceInv'
<1>0. preparing[p].pc = "CLEAN" /\ UNCHANGED <<disposing, alone>> /\ WorkspaceShapes /\ preparing[p].created
  BY DEF RemoveFailedTree, WorkspaceInv, WorkspaceShapes
<1>1. PICK pc \in {"FAILED", "CLEARED"} : PrepareTo(p, pc)
  BY DEF RemoveFailedTree
<1>2. /\ DOMAIN preparing' = Prepares /\ \A q \in Prepares : DOMAIN preparing'[q] = {"pc", "created"}
      /\ preparing'[p].pc = pc /\ preparing'[p].created /\ \A q \in Prepares : q # p => preparing'[q] = preparing[q]
      /\ \A q \in Prepares : preparing[q].pc = "DONE" => preparing'[q].pc = "DONE"
  BY <1>0, <1>1, PrepareMoves
<1>3. CASE UNCHANGED <<tree, removals>>
  <2>1. WorkspaceShapes' /\ BranchesKeepWork'
    BY <1>0, <1>2, <1>3 DEF WorkspaceInv, WorkspaceShapes, BranchesKeepWork
  <2>2. TreesAreOwned => TreesAreOwned'
    BY <1>0, <1>2, <1>3 DEF TreesAreOwned, Unfinished
  <2> QED  BY <1>0, <1>2, <1>3, <2>1, <2>2, QuietStep
<1>4. CASE tree' = BranchOnly /\ Took("PREPARE", p, FALSE) /\ tree.dir
  <2>1. /\ ~tree'.dir /\ tree'.branch /\ tree'.by = tree.by /\ DOMAIN tree' = DOMAIN NoTree
        /\ tree'.commits = tree.commits /\ tree'.upstream = tree.upstream
    BY <1>4 DEF BranchOnly, NoTree
  <2>2. WorkspaceShapes' /\ BranchesKeepWork' /\ DisposalsAreOfDone'
    BY <1>0, <1>2, <2>1 DEF WorkspaceInv, WorkspaceShapes, BranchesKeepWork, DisposalsAreOfDone
  <2>3. TreesAreOwned => TreesAreOwned' /\ tree.by = p
    BY <1>0, <1>2, <2>1, TakesItsOwn DEF TreesAreOwned, Unfinished
  <2>4. RemovalsAreSound' /\ (Strayed => Strayed')
    BY <1>0, <1>4, <2>3, TreeRemovalKeeps DEF WorkspaceInv
  <2> QED  BY <2>2, <2>3, <2>4 DEF WorkspaceInv
<1> QED  BY <1>3, <1>4 DEF RemoveFailedTree, GitRemoves

LEMMA FailedBranchKeeps == ASSUME WorkspaceInv, NEW p \in Prepares, DropFailedBranch(p) PROVE WorkspaceInv'
<1>0. /\ preparing[p].pc \in {"CLEARED", "BARE"} /\ UNCHANGED <<disposing, removals, alone>> /\ WorkspaceShapes
      /\ preparing[p].created
  BY DEF DropFailedBranch, WorkspaceInv, WorkspaceShapes
<1>1. PICK pc \in {"FAILED", "DROPPED"} : PrepareTo(p, pc)
  BY DEF DropFailedBranch
<1>2. /\ DOMAIN preparing' = Prepares /\ \A q \in Prepares : DOMAIN preparing'[q] = {"pc", "created"}
      /\ preparing'[p].pc = pc /\ \A q \in Prepares : q # p => preparing'[q] = preparing[q]
      /\ \A q \in Prepares : preparing[q].pc = "DONE" => preparing'[q].pc = "DONE"
  BY <1>0, <1>1, PrepareMoves
<1>3. WorkspaceShapes' /\ BranchesKeepWork'
  BY <1>0, <1>2 DEF DropFailedBranch, WorkspaceInv, WorkspaceShapes, BranchesKeepWork, NoTree
<1>4. TreesAreOwned => TreesAreOwned'
  BY <1>0, <1>2, TakesItsOwn DEF TreesAreOwned, Unfinished
<1> QED  BY <1>0, <1>2, <1>3, <1>4, QuietStep

LEMMA ForgetFailedKeeps == ASSUME WorkspaceInv, NEW p \in Prepares, ForgetFailed(p) PROVE WorkspaceInv'
<1>1. PrepareTo(p, "FAILED") /\ preparing[p].pc = "DROPPED" /\ UNCHANGED <<tree, disposing, removals, alone>>
  BY DEF ForgetFailed
<1>2. WorkspaceShapes' /\ BranchesKeepWork' /\ (TreesAreOwned => TreesAreOwned')
      /\ \A q \in Prepares : preparing[q].pc = "DONE" => preparing'[q].pc = "DONE"
  BY <1>1, PrepareMoves DEF WorkspaceInv, WorkspaceShapes, BranchesKeepWork, TreesAreOwned, Unfinished
<1> QED  BY <1>1, <1>2, QuietStep

\* A step of one disposal that takes no tree away.
LEMMA DisposalStep ==
  ASSUME WorkspaceInv, NEW d \in Disposals, NEW s, disposing' = [disposing EXCEPT ![d] = s],
         DOMAIN s = {"pc", "of", "removesBranch", "ignored"}, s.pc # "START",
         disposing[d].pc # "START" => s.of = disposing[d].of,
         s.of \in Prepares /\ preparing[s.of].pc = "DONE",
         s.pc = "REMOVABLE" => ~s.ignored,
         UNCHANGED <<preparing, removals>>, DOMAIN tree' = DOMAIN NoTree, BranchesKeepWork', TreesAreOwned => TreesAreOwned'
  PROVE  WorkspaceInv'
<1>1. DOMAIN disposing' = Disposals /\ disposing'[d] = s /\ \A e \in Disposals : e # d => disposing'[e] = disposing[e]
  BY DEF WorkspaceInv, WorkspaceShapes
<1>2. WorkspaceShapes' /\ DisposalsAreOfDone'
  BY <1>1 DEF WorkspaceInv, WorkspaceShapes, DisposalsAreOfDone
<1>3. \A r \in removals : TookAnother(r)' = TookAnother(r)
  BY <1>1 DEF TookAnother, WorkspaceInv, RemovalsAreSound
<1>4. Strayed' = Strayed
  BY <1>3 DEF Strayed
<1>5. RemovalsAreSound'
  BY <1>1, <1>4 DEF WorkspaceInv, RemovalsAreSound
<1> QED  BY <1>2, <1>4, <1>5 DEF WorkspaceInv

LEMMA DisposalMoves ==
  ASSUME WorkspaceShapes, NEW d \in Disposals, NEW pc, DisposeTo(d, pc)
  PROVE  \E s : /\ disposing' = [disposing EXCEPT ![d] = s] /\ DOMAIN s = {"pc", "of", "removesBranch", "ignored"}
                /\ s.pc = pc /\ s.of = disposing[d].of
<1> DEFINE s == [disposing[d] EXCEPT !.pc = pc]
<1>1. disposing' = [disposing EXCEPT ![d] = s]
  BY DEF WorkspaceShapes, DisposeTo
<1>2. DOMAIN s = {"pc", "of", "removesBranch", "ignored"} /\ s.pc = pc /\ s.of = disposing[d].of
  BY DEF WorkspaceShapes
<1> QED  BY <1>1, <1>2

LEMMA DisposalBeginsKeeps ==
    ASSUME WorkspaceInv, NEW d \in Disposals, NEW p \in Prepares, DisposeBegins(d, p)
    PROVE  WorkspaceInv'
<1>1. PICK s : /\ disposing' = [disposing EXCEPT ![d] = s] /\ DOMAIN s = {"pc", "of", "removesBranch", "ignored"}
               /\ s.pc \in {"CHECKED", "BLOCKED"} /\ s.of = p
  <2>1. PICK pc \in {"CHECKED", "BLOCKED"} : disposing' = [disposing EXCEPT ![d].pc = pc, ![d].of = p]
    BY DEF DisposeBegins
  <2> DEFINE s == [[disposing[d] EXCEPT !.pc = pc] EXCEPT !.of = p]
  <2>2. disposing' = [disposing EXCEPT ![d] = s]
    BY <2>1 DEF WorkspaceInv, WorkspaceShapes
  <2>3. DOMAIN s = {"pc", "of", "removesBranch", "ignored"} /\ s.pc = pc /\ s.of = p
    BY DEF WorkspaceInv, WorkspaceShapes
  <2> QED  BY <2>2, <2>3
<1>2. TreesAreOwned => TreesAreOwned'
  BY <1>1 DEF TreesAreOwned, DisposeBegins, WorkspaceInv, WorkspaceShapes
<1>3. BranchesKeepWork' /\ DOMAIN tree' = DOMAIN NoTree
  BY DEF DisposeBegins, WorkspaceInv, WorkspaceShapes, BranchesKeepWork
<1> QED  BY <1>1, <1>2, <1>3, DisposalStep DEF DisposeBegins

LEMMA DisposalInspectKeeps ==
    ASSUME WorkspaceInv, NEW d \in Disposals, InspectForDisposal(d)
    PROVE  WorkspaceInv'
<1>1. PICK s : /\ disposing' = [disposing EXCEPT ![d] = s] /\ DOMAIN s = {"pc", "of", "removesBranch", "ignored"}
               /\ s.pc \in {"REMOVABLE", "BLOCKED"} /\ s.of = disposing[d].of
               /\ s.pc = "REMOVABLE" => ~s.ignored
  <2>1. PICK pc \in {"REMOVABLE", "BLOCKED"} :
          /\ disposing' = [disposing EXCEPT ![d] = [@ EXCEPT !.pc = pc, !.removesBranch = ~tree.commits, !.ignored = tree.ignored]]
          /\ pc = "REMOVABLE" => ~tree.ignored
    BY DEF InspectForDisposal, Removable
  <2> DEFINE s == [disposing[d] EXCEPT !.pc = pc, !.removesBranch = ~tree.commits, !.ignored = tree.ignored]
  <2>2. disposing' = [disposing EXCEPT ![d] = s] /\ DOMAIN s = {"pc", "of", "removesBranch", "ignored"}
        /\ s.pc = pc /\ s.of = disposing[d].of /\ s.ignored = tree.ignored
    BY <2>1 DEF WorkspaceInv, WorkspaceShapes
  <2> QED  BY <2>1, <2>2
<1>2. TreesAreOwned => TreesAreOwned'
  BY <1>1 DEF TreesAreOwned, InspectForDisposal, WorkspaceInv, WorkspaceShapes
<1>3. BranchesKeepWork' /\ DOMAIN tree' = DOMAIN NoTree
  BY DEF InspectForDisposal, WorkspaceInv, WorkspaceShapes, BranchesKeepWork
<1>4. disposing[d].of \in Prepares /\ preparing[disposing[d].of].pc = "DONE" /\ disposing[d].pc = "CHECKED"
  BY DEF InspectForDisposal, WorkspaceInv, DisposalsAreOfDone
<1>5. UNCHANGED <<preparing, removals>>
  BY DEF InspectForDisposal
<1> QED  BY <1>1, <1>2, <1>3, <1>4, <1>5, DisposalStep

LEMMA WorktreeGoneKeeps ==
    ASSUME WorkspaceInv, NEW d \in Disposals, RemoveWorktree(d)
    PROVE  WorkspaceInv'
<1>0. disposing[d].pc = "REMOVABLE" /\ disposing[d].of \in Prepares /\ preparing[disposing[d].of].pc = "DONE"
      /\ ~disposing[d].ignored /\ WorkspaceShapes
  BY DEF RemoveWorktree, WorkspaceInv, DisposalsAreOfDone
<1>1. CASE ~GitRemoves
  <2>1. PICK s : /\ disposing' = [disposing EXCEPT ![d] = s] /\ DOMAIN s = {"pc", "of", "removesBranch", "ignored"}
                 /\ s.pc = "AMBIGUOUS" /\ s.of = disposing[d].of
    BY <1>0, <1>1, DisposalMoves DEF RemoveWorktree
  <2>2. TreesAreOwned => TreesAreOwned'
    BY <1>1, <2>1 DEF TreesAreOwned, RemoveWorktree, WorkspaceInv, WorkspaceShapes
  <2>3. BranchesKeepWork' /\ DOMAIN tree' = DOMAIN NoTree
    BY <1>1 DEF RemoveWorktree, WorkspaceInv, WorkspaceShapes, BranchesKeepWork
  <2> QED  BY <1>0, <1>1, <2>1, <2>2, <2>3, DisposalStep DEF RemoveWorktree
<1>2. CASE GitRemoves
  <2>1. /\ tree' = BranchOnly /\ Took("DISPOSE", d, disposing[d].ignored)
        /\ disposing' = [disposing EXCEPT ![d].pc = "REMOVED"] /\ UNCHANGED preparing /\ tree.dir
    BY <1>0, <1>2 DEF RemoveWorktree, DisposeTo, GitRemoves
  <2>2. /\ ~tree'.dir /\ tree'.branch /\ tree'.by = tree.by /\ DOMAIN tree' = DOMAIN NoTree
        /\ tree'.commits = tree.commits /\ tree'.upstream = tree.upstream /\ UNCHANGED alone
    BY <2>1 DEF BranchOnly, NoTree, RemoveWorktree
  <2>3. /\ DOMAIN disposing' = Disposals /\ disposing'[d].pc = "REMOVED"
        /\ \A e \in Disposals : e # d => disposing'[e] = disposing[e]
        /\ \A e \in Disposals : disposing'[e].of = disposing[e].of /\ disposing'[e].ignored = disposing[e].ignored
                                /\ DOMAIN disposing'[e] = {"pc", "of", "removesBranch", "ignored"}
    BY <1>0, <2>1 DEF WorkspaceShapes
  <2>4. WorkspaceShapes' /\ BranchesKeepWork'
    BY <1>0, <2>1, <2>2, <2>3 DEF WorkspaceInv, WorkspaceShapes, BranchesKeepWork
  <2>5. DisposalsAreOfDone'
    BY <1>0, <2>1, <2>3 DEF WorkspaceInv, DisposalsAreOfDone
  <2>6. RemovalsAreSound' /\ (Strayed => Strayed')
    BY <1>0, <2>1, <2>3, TreeRemovalKeeps
  <2>7. Strayed' \/ TreesAreOwned'
    <3> SUFFICES ASSUME ~Strayed' PROVE TreesAreOwned'
      OBVIOUS
    <3>1. tree.by = disposing[d].of
      <4> DEFINE r == [kind |-> "DISPOSE", who |-> d, from |-> tree.by, seenIgnored |-> disposing[d].ignored]
      <4>1. r \in removals' /\ ~(r.kind = "DISPOSE" /\ r.from # disposing'[r.who].of)
        BY <2>1 DEF Strayed, TookAnother, Took
      <4> QED  BY <2>3, <4>1
    <3>2. TreesAreOwned
      BY <2>6 DEF WorkspaceInv
    <3>3. \A e \in Disposals : disposing[e].pc # "REMOVED"
      BY <2>1, <3>2 DEF TreesAreOwned
    <3>4. \A q \in Prepares : preparing[q].created /\ preparing[q].pc \in Unfinished => tree'.branch /\ tree'.by = q
      BY <2>2, <3>2 DEF TreesAreOwned
    <3> QED  BY <2>1, <2>2, <2>3, <3>1, <3>3, <3>4 DEF TreesAreOwned
  <2> QED  BY <2>4, <2>5, <2>6, <2>7 DEF WorkspaceInv
<1> QED  BY <1>1, <1>2

\* The branch that git deletes has no commit that only it reaches.
LEMMA RemoveBranchKeeps ==
    ASSUME WorkspaceInv, NEW d \in Disposals, RemoveBranch(d)
    PROVE  WorkspaceInv'
<1>0. disposing[d].pc = "REMOVED" /\ disposing[d].of \in Prepares /\ preparing[disposing[d].of].pc = "DONE" /\ WorkspaceShapes
  BY DEF RemoveBranch, WorkspaceInv, DisposalsAreOfDone
<1>1. PICK pc \in {"AMBIGUOUS", "SETTLED", "FAILED"} :
        DisposeTo(d, pc) /\ ((tree' = NoTree /\ BranchDeletes) \/ UNCHANGED tree) /\ UNCHANGED alone
  BY DEF RemoveBranch
<1>2. PICK s : /\ disposing' = [disposing EXCEPT ![d] = s] /\ DOMAIN s = {"pc", "of", "removesBranch", "ignored"}
               /\ s.pc = pc /\ s.of = disposing[d].of
  BY <1>0, <1>1, DisposalMoves
<1>3. BranchesKeepWork' /\ DOMAIN tree' = DOMAIN NoTree
  <2>1. CASE tree' = NoTree /\ BranchDeletes
    BY <1>1, <2>1 DEF WorkspaceInv, BranchesKeepWork, NoTree, BranchDeletes, Merged
  <2>2. CASE UNCHANGED tree
    BY <1>1, <2>2 DEF WorkspaceInv, WorkspaceShapes, BranchesKeepWork
  <2> QED  BY <1>1, <2>1, <2>2
<1>4. TreesAreOwned => TreesAreOwned'
  <2> SUFFICES ASSUME TreesAreOwned PROVE TreesAreOwned'
    OBVIOUS
  <2>1. /\ \A e \in Disposals : disposing'[e].pc # "REMOVED"
        /\ \A q \in Prepares : ~(preparing[q].created /\ preparing[q].pc \in Unfinished)
    BY <1>0, <1>2 DEF TreesAreOwned, WorkspaceShapes, Unfinished
  <2> QED  BY <2>1 DEF TreesAreOwned, RemoveBranch
<1> QED  BY <1>0, <1>2, <1>3, <1>4, DisposalStep DEF RemoveBranch

LEMMA ForgetKeeps == ASSUME WorkspaceInv, NEW d \in Disposals, Forget(d) PROVE WorkspaceInv'
<1>0. /\ disposing[d].pc = "SETTLED" /\ disposing[d].of \in Prepares /\ preparing[disposing[d].of].pc = "DONE"
      /\ UNCHANGED <<tree, preparing, removals, alone>> /\ WorkspaceShapes
  BY DEF Forget, WorkspaceInv, DisposalsAreOfDone
<1>1. PICK pc \in {"APPLIED", "FAILED"} : DisposeTo(d, pc)
  BY DEF Forget
<1>2. PICK s : /\ disposing' = [disposing EXCEPT ![d] = s] /\ DOMAIN s = {"pc", "of", "removesBranch", "ignored"}
               /\ s.pc = pc /\ s.of = disposing[d].of
  BY <1>0, <1>1, DisposalMoves
<1>3. BranchesKeepWork' /\ DOMAIN tree' = DOMAIN NoTree
  BY <1>0 DEF WorkspaceInv, WorkspaceShapes, BranchesKeepWork
<1>4. TreesAreOwned => TreesAreOwned'
  BY <1>0, <1>2 DEF TreesAreOwned, WorkspaceShapes
<1> QED  BY <1>0, <1>2, <1>3, <1>4, DisposalStep

LEMMA AgentKeeps == ASSUME WorkspaceInv, AgentWorks PROVE WorkspaceInv'
<1>1. tree.dir /\ tree.branch /\ tree'.dir = tree.dir /\ tree'.branch = tree.branch /\ tree'.by = tree.by
      /\ DOMAIN tree' = DOMAIN NoTree
  BY DEF AgentWorks, WorkspaceInv, WorkspaceShapes, BranchesKeepWork, NoTree
<1>2. WorkspaceShapes' /\ (TreesAreOwned => TreesAreOwned')
  BY <1>1 DEF AgentWorks, WorkspaceInv, WorkspaceShapes, TreesAreOwned
<1>3. \A p \in alone' : p = tree.by /\ tree'.commits /\ ~tree'.upstream
  <2>1. CASE \E how \in {"dirty", "ignored"} : tree' = [tree EXCEPT ![how] = TRUE] /\ UNCHANGED alone
    BY <2>1 DEF WorkspaceInv, BranchesKeepWork, WorkspaceShapes, NoTree
  <2>2. CASE tree' = [tree EXCEPT !.dirty = FALSE, !.commits = TRUE, !.upstream = FALSE] /\ alone' = alone \cup {tree.by}
    BY <2>2 DEF WorkspaceInv, BranchesKeepWork, WorkspaceShapes, NoTree
  <2>3. CASE alone' = alone \ {tree.by}
    BY <2>3 DEF WorkspaceInv, BranchesKeepWork
  <2> QED  BY <2>1, <2>2, <2>3 DEF AgentWorks
<1> QED  BY <1>1, <1>2, <1>3, QuietStep DEF AgentWorks, BranchesKeepWork

LEMMA WorkspaceInvNext == WorkspaceInv /\ [WorkspaceNext]_workspaceVars => WorkspaceInv'
<1> SUFFICES ASSUME WorkspaceInv, [WorkspaceNext]_workspaceVars PROVE WorkspaceInv'
  OBVIOUS
<1>1. ASSUME NEW p \in Prepares, DestinationFree(p) \/ CreateWorktree(p) \/ CheckCreated(p) \/ CompensateFailedPrepare(p)
                                   \/ RemoveFailedTree(p) \/ DropFailedBranch(p) \/ ForgetFailed(p)
      PROVE  WorkspaceInv'
  BY <1>1, DestinationKeeps, CreateKeeps, CheckKeeps, CompensateKeeps, FailedTreeKeeps, FailedBranchKeeps, ForgetFailedKeeps
<1>2. ASSUME NEW d \in Disposals,
             (\E p \in Prepares : DisposeBegins(d, p)) \/ InspectForDisposal(d) \/ RemoveWorktree(d) \/ RemoveBranch(d) \/ Forget(d)
      PROVE  WorkspaceInv'
  BY <1>2, DisposalBeginsKeeps, DisposalInspectKeeps, WorktreeGoneKeeps, RemoveBranchKeeps, ForgetKeeps
<1>3. CASE UNCHANGED workspaceVars
  <2>1. UNCHANGED <<tree, preparing, disposing, removals, alone>>
    BY <1>3 DEF workspaceVars
  <2> QED  BY <2>1, QuietStep DEF WorkspaceInv, WorkspaceShapes, BranchesKeepWork, TreesAreOwned
<1> QED  BY <1>1, <1>2, <1>3, AgentKeeps DEF WorkspaceNext

(* No work is lost to the manager for any number of concurrent preparations  *)
(* and disposals of one workspace: until a disposal strays, a failed prepare *)
(* takes back its own tree only, no disposal takes an ignored file it had    *)
(* seen, and a branch with a commit that nothing else reaches is kept by     *)
(* whoever removes branches (prepare, #compensateFailedPrepare, inspect,     *)
(* dispose).                                                                 *)
THEOREM WorkStaysKept == WorkspaceSpec => []WorkIsKept
<1>1. WorkspaceInv => WorkIsKept
  BY DEF WorkspaceInv, RemovalsAreSound, BranchesKeepWork, WorkIsKept
<1> QED  BY <1>1, WorkspaceInvInit, WorkspaceInvNext, PTL DEF WorkspaceSpec

-----------------------------------------------------------------------------
(* Package installer: a snapshot is what its name says unless it was        *)
(* damaged after publication, and the name is compared with every read in   *)
(* between.                                                                 *)

Snapshots == [name : Trees, content : Trees, damaged : BOOLEAN]
Installs == {"RESOURCE", "SNAPSHOT", "COLLECT code", "COLLECT json", "COPY code", "COPY json", "PUBLISH"}
Publishing == {"COLLECT code", "COLLECT json", "COPY code", "COPY json", "PUBLISH"}
PackageShapes ==
    /\ snapshots \subseteq Snapshots /\ origin \in Trees
    /\ DOMAIN install = {"pc", "name", "resource", "collected", "copy"}
    /\ install.name \in Trees /\ install.collected \in Trees /\ install.copy \in Trees
SnapshotsAreWhole ==
    /\ \A s \in snapshots : ~s.damaged => s.content = s.name
    /\ Pinned => \A s \in snapshots : s.name = GoodTree
    /\ \A s, other \in snapshots : s.name = other.name => s = other
ActivatedIsOneTree == \A a \in activated : a.content = a.name /\ a.resource = a.name["code"]
InstallIsInOrder ==
    /\ install.pc \in Installs => (Pinned => install.name = GoodTree)
    /\ install.pc \in Publishing => \A s \in snapshots : s.name # install.name
    /\ worker = "RUNNING" => install.pc \in {"POLL", "TERMINATE"}
PackageInv == PackageShapes /\ SnapshotsAreWhole /\ ActivatedIsOneTree /\ InstallIsInOrder

LEMMA TreesOfVersions ==
  /\ EmptyTree \in Trees /\ GoodTree \in Trees
  /\ \A t \in Trees : t["code"] \in Versions /\ t["json"] \in Versions
  /\ \A t \in Trees, f \in TreeFiles, v \in Versions : [t EXCEPT ![f] = v] \in Trees
BY DEF Trees, TreeFiles, Versions, EmptyTree, GoodTree

LEMMA NoInstallFields ==
  /\ DOMAIN NoInstall = {"pc", "name", "resource", "collected", "copy"} /\ NoInstall.pc = "IDLE"
  /\ NoInstall.name = EmptyTree /\ NoInstall.collected = EmptyTree /\ NoInstall.copy = EmptyTree
BY DEF NoInstall

LEMMA PackageInvInit == PackageInit => PackageInv
<1> SUFFICES ASSUME PackageInit PROVE PackageInv
  OBVIOUS
<1>1. PackageShapes
  BY TreesOfVersions, NoInstallFields DEF PackageInit, PackageShapes
<1>2. SnapshotsAreWhole /\ ActivatedIsOneTree /\ InstallIsInOrder
  BY NoInstallFields DEF PackageInit, SnapshotsAreWhole, ActivatedIsOneTree, InstallIsInOrder, Installs, Publishing
<1> QED  BY <1>1, <1>2 DEF PackageInv

\* A step of the inspection that publishes nothing.
LEMMA InspectionKeeps ==
  ASSUME PackageInv, UNCHANGED <<sourceKind, snapshots, activated>>, origin' \in Trees,
         DOMAIN install' = {"pc", "name", "resource", "collected", "copy"},
         install'.name \in Trees, install'.collected \in Trees, install'.copy \in Trees,
         InstallIsInOrder'
  PROVE  PackageInv'
<1>1. PackageShapes'
  BY DEF PackageInv, PackageShapes
<1>2. SnapshotsAreWhole' /\ ActivatedIsOneTree'
  BY DEF PackageInv, SnapshotsAreWhole, ActivatedIsOneTree, Pinned
<1> QED  BY <1>1, <1>2 DEF PackageInv

\* The inspection goes on.
LEMMA InstallMoveKeeps ==
  ASSUME PackageInv, NEW pc, InstallTo(pc), UNCHANGED <<sourceKind, snapshots, activated, origin>>,
         pc \in Installs => install.pc \in Installs,
         pc \in Publishing => \A s \in snapshots : s.name # install.name,
         worker' = "RUNNING" => pc \in {"POLL", "TERMINATE"}
  PROVE  PackageInv'
<1>1. /\ DOMAIN install' = {"pc", "name", "resource", "collected", "copy"} /\ install'.pc = pc
      /\ install'.name = install.name /\ install'.collected = install.collected /\ install'.copy = install.copy
  BY DEF InstallTo, PackageInv, PackageShapes
<1>2. InstallIsInOrder'
  BY <1>1 DEF InstallIsInOrder, PackageInv, Pinned
<1> QED  BY <1>1, <1>2, InspectionKeeps DEF PackageInv, PackageShapes

\* The inspection ends and leaves the snapshots alone.
LEMMA InstallLeaveKeeps ==
  ASSUME PackageInv, Leave, UNCHANGED <<sourceKind, snapshots, activated>>
  PROVE  PackageInv'
<1>1. install' = NoInstall /\ worker' = "NONE" /\ origin' \in Trees
  BY TreesOfVersions DEF Leave, PackageInv, PackageShapes
<1>2. InstallIsInOrder'
  BY <1>1, NoInstallFields DEF InstallIsInOrder, Installs, Publishing
<1> QED  BY <1>1, <1>2, InspectionKeeps, NoInstallFields, TreesOfVersions

LEMMA WorkerKeeps ==
  ASSUME PackageInv, BeginInspect \/ WorkerExits \/ InstallReturns \/ OverLimit \/ TerminateWorker
  PROVE  PackageInv'
<1>1. CASE BeginInspect
  <2>1. \E pc \in {"WALK code", "POLL"} : InstallTo(pc) /\ (worker' = "RUNNING" => pc = "POLL")
    BY <1>1 DEF BeginInspect, PackageInv, InstallIsInOrder, InstallAt
  <2> QED  BY <1>1, <2>1, InstallMoveKeeps DEF BeginInspect, Installs, Publishing
<1>2. CASE WorkerExits
  <2>1. InstallIsInOrder'
    BY <1>2 DEF WorkerExits, PackageInv, InstallIsInOrder, Pinned
  <2> QED  BY <1>2, <2>1, InspectionKeeps DEF WorkerExits, PackageInv, PackageShapes
<1>3. CASE InstallReturns
  BY <1>3, InstallMoveKeeps DEF InstallReturns, InstallEnded, Installs, Publishing
<1>4. CASE OverLimit
  BY <1>4, InstallMoveKeeps DEF OverLimit, Installs, Publishing
<1>5. CASE TerminateWorker
  BY <1>5, InstallLeaveKeeps DEF TerminateWorker
<1> QED  BY <1>1, <1>2, <1>3, <1>4, <1>5

\* A step that changes nothing but the tree of the source.
LEMMA OriginKeeps ==
  ASSUME PackageInv, UNCHANGED <<sourceKind, worker, install, snapshots, activated>>,
         NEW f \in TreeFiles, NEW v \in Versions, origin' = [origin EXCEPT ![f] = v]
  PROVE  PackageInv'
<1>1. InstallIsInOrder'
  BY DEF PackageInv, InstallIsInOrder, Pinned
<1> QED  BY <1>1, InspectionKeeps, TreesOfVersions DEF PackageInv, PackageShapes

LEMMA WalksKeep == ASSUME PackageInv, WalkCode \/ WalkJson \/ ReadResource PROVE PackageInv'
<1>0. origin["code"] \in Versions /\ origin["json"] \in Versions /\ PackageShapes /\ {"code", "json"} \subseteq TreeFiles
  BY TreesOfVersions DEF PackageInv, PackageShapes, TreeFiles
<1>1. CASE WalkCode
  <2>1. /\ install'.pc = "WALK json" /\ install'.name = [install.name EXCEPT !["code"] = origin["code"]]
        /\ DOMAIN install' = DOMAIN install /\ install'.collected = install.collected /\ install'.copy = install.copy
    BY <1>0, <1>1 DEF WalkCode, PackageShapes
  <2>2. InstallIsInOrder'
    BY <1>1, <2>1 DEF WalkCode, InstallIsInOrder, Installs, Publishing, PackageInv, InstallAt
  <2> QED  BY <1>0, <1>1, <2>1, <2>2, TreesOfVersions, InspectionKeeps DEF WalkCode, PackageShapes
<1>2. CASE WalkJson
  <2> DEFINE name == [install.name EXCEPT !["json"] = origin["json"]]
  <2>1. CASE name = EmptyTree \/ (Pinned /\ name # GoodTree)
    BY <1>2, <2>1, InstallLeaveKeeps DEF WalkJson
  <2>2. CASE ~(name = EmptyTree \/ (Pinned /\ name # GoodTree))
    <3>1. /\ install' = [install EXCEPT !.pc = "RESOURCE", !.name = name]
          /\ UNCHANGED <<sourceKind, origin, worker, snapshots, activated>>
          /\ install.pc = "WALK json"
      BY <1>2, <2>2 DEF WalkJson, InstallAt
    <3>2. /\ install'.pc = "RESOURCE" /\ install'.name = name
          /\ DOMAIN install' = DOMAIN install /\ install'.collected = install.collected /\ install'.copy = install.copy
      BY <1>0, <3>1 DEF PackageShapes
    <3>3. InstallIsInOrder'
      BY <2>2, <3>1, <3>2 DEF InstallIsInOrder, Publishing, PackageInv, Pinned
    <3>4. name \in Trees
      BY <1>0, TreesOfVersions DEF PackageShapes
    <3> QED  BY <1>0, <3>1, <3>2, <3>3, <3>4, InspectionKeeps DEF PackageShapes
  <2> QED  BY <2>1, <2>2
<1>3. CASE ReadResource
  <2>1. CASE "absent" \in {origin["json"], origin["code"]}
    BY <1>3, <2>1, InstallLeaveKeeps DEF ReadResource
  <2>2. CASE ~("absent" \in {origin["json"], origin["code"]})
    <3>1. /\ install' = [install EXCEPT !.pc = "SNAPSHOT", !.resource = origin["code"]]
          /\ UNCHANGED <<sourceKind, origin, worker, snapshots, activated>> /\ install.pc = "RESOURCE"
      BY <1>3, <2>2 DEF ReadResource, InstallAt
    <3>2. /\ install'.pc = "SNAPSHOT" /\ install'.name = install.name
          /\ DOMAIN install' = DOMAIN install /\ install'.collected = install.collected /\ install'.copy = install.copy
      BY <1>0, <3>1 DEF PackageShapes
    <3>3. InstallIsInOrder'
      BY <3>1, <3>2 DEF InstallIsInOrder, Installs, Publishing, PackageInv, Pinned
    <3> QED  BY <1>0, <3>1, <3>2, <3>3, InspectionKeeps DEF PackageShapes
  <2> QED  BY <2>1, <2>2
<1> QED  BY <1>1, <1>2, <1>3

LEMMA FindKeeps == ASSUME PackageInv, FindSnapshot PROVE PackageInv'
<1>1. CASE Leave
  BY <1>1, InstallLeaveKeeps DEF FindSnapshot
<1>2. CASE ~Leave
  <2>1. /\ InstallTo("COLLECT code") /\ UNCHANGED <<origin, worker>> /\ \A s \in snapshots : s.name # install.name
        /\ install.pc = "SNAPSHOT"
    BY <1>2 DEF FindSnapshot, InstallAt
  <2>2. worker # "RUNNING"
    BY <2>1 DEF PackageInv, InstallIsInOrder
  <2> QED  BY <2>1, <2>2, InstallMoveKeeps DEF FindSnapshot, Installs
<1> QED  BY <1>1, <1>2

\* A file is read while a snapshot is made.
LEMMA CopyStepKeeps ==
  ASSUME PackageInv, install.pc \in Publishing, NEW pc \in Publishing, install'.pc = pc,
         DOMAIN install' = DOMAIN install, install'.name = install.name,
         install'.collected \in Trees, install'.copy \in Trees,
         UNCHANGED <<sourceKind, snapshots, activated, origin, worker>>
  PROVE  PackageInv'
<1>1. InstallIsInOrder'
  BY DEF PackageInv, InstallIsInOrder, Publishing, Installs, Pinned
<1> QED  BY <1>1, InspectionKeeps DEF PackageInv, PackageShapes

LEMMA CopiesKeep ==
  ASSUME PackageInv, NEW f \in TreeFiles, NEW pc \in Publishing, CollectEntry(f, pc) \/ CopyEntry(f, pc)
  PROVE  PackageInv'
<1>0. origin[f] \in Versions /\ PackageShapes
  BY TreesOfVersions DEF PackageInv, PackageShapes, TreeFiles
<1>1. CASE CollectEntry(f, pc)
  <2>1. PICK to \in {"COLLECT json", "COPY code"} : install' = [install EXCEPT !.pc = to, !.collected[f] = origin[f]]
    BY <1>1 DEF CollectEntry
  <2>2. /\ install'.pc = to /\ install'.name = install.name /\ DOMAIN install' = DOMAIN install
        /\ install'.collected = [install.collected EXCEPT ![f] = origin[f]] /\ install'.copy = install.copy
    BY <1>0, <2>1 DEF PackageShapes
  <2> QED  BY <1>0, <1>1, <2>2, CopyStepKeeps, TreesOfVersions DEF CollectEntry, InstallAt, Publishing, PackageShapes
<1>2. CASE CopyEntry(f, pc) /\ Leave
  BY <1>2, InstallLeaveKeeps DEF CopyEntry
<1>3. CASE CopyEntry(f, pc) /\ ~Leave
  <2>1. PICK to \in {"COPY json", "PUBLISH"} : install' = [install EXCEPT !.pc = to, !.copy[f] = origin[f]]
    BY <1>3 DEF CopyEntry
  <2>2. /\ install'.pc = to /\ install'.name = install.name /\ DOMAIN install' = DOMAIN install
        /\ install'.copy = [install.copy EXCEPT ![f] = origin[f]] /\ install'.collected = install.collected
    BY <1>0, <2>1 DEF PackageShapes
  <2>3. UNCHANGED <<sourceKind, snapshots, activated, origin, worker>> /\ install.pc \in Publishing
    BY <1>3 DEF CopyEntry, InstallAt
  <2>4. install'.copy \in Trees /\ install'.collected \in Trees
    <3>1. install.copy \in Trees /\ install.collected \in Trees
      BY <1>0 DEF PackageShapes
    <3>2. [install.copy EXCEPT ![f] = origin[f]] \in Trees
      BY <1>0, <3>1, TreesOfVersions
    <3> QED  BY <2>2, <3>1, <3>2
  <2>5. to \in Publishing
    BY DEF Publishing
  <2> QED  BY <2>2, <2>3, <2>4, <2>5, CopyStepKeeps
<1> QED  BY <1>1, <1>2, <1>3

LEMMA SnapshotPublishKeeps == ASSUME PackageInv, PublishSnapshot PROVE PackageInv'
<1>0. install.pc = "PUBLISH" /\ Leave /\ UNCHANGED <<sourceKind, activated>>
  BY DEF PublishSnapshot, InstallAt
<1>1. CASE ~Preserved
  BY <1>0, <1>1, InstallLeaveKeeps DEF PublishSnapshot
<1>2. CASE Preserved
  <2> DEFINE made == [name |-> install.name, content |-> install.copy, damaged |-> FALSE]
  <2>1. snapshots' = snapshots \cup {made}
    BY <1>2 DEF PublishSnapshot
  <2>2. /\ made.name = install.name /\ made.content = made.name /\ made \in Snapshots
        /\ Pinned => made.name = GoodTree
        /\ \A s \in snapshots : s.name # made.name
    BY <1>0, <1>2 DEF Preserved, PackageInv, PackageShapes, InstallIsInOrder, Installs, Publishing, Snapshots
  <2>3. SnapshotsAreWhole'
    <3> HIDE DEF made
    <3> QED  BY <1>0, <2>1, <2>2 DEF PackageInv, SnapshotsAreWhole, Pinned
  <2>4. PackageShapes' /\ InstallIsInOrder'
    BY <1>0, <2>1, <2>2, NoInstallFields, TreesOfVersions
       DEF PackageInv, PackageShapes, InstallIsInOrder, Leave, Installs, Publishing
  <2> QED  BY <1>0, <2>3, <2>4 DEF PackageInv, ActivatedIsOneTree
<1> QED  BY <1>1, <1>2

LEMMA ActivateKeeps == ASSUME PackageInv, NEW q \in qualified, ActivatePackage(q) PROVE PackageInv'
<1>1. PICK s \in snapshots :
         /\ s.content = q.name /\ s.content["code"] = q.resource
         /\ activated' = activated \cup {[name |-> q.name, resource |-> q.resource, content |-> s.content]}
  BY DEF ActivatePackage, Verified
<1>2. ActivatedIsOneTree'
  BY <1>1 DEF PackageInv, ActivatedIsOneTree
<1>3. PackageShapes' /\ SnapshotsAreWhole' /\ InstallIsInOrder'
  BY DEF ActivatePackage, PackageInv, PackageShapes, SnapshotsAreWhole, InstallIsInOrder, Pinned
<1> QED  BY <1>2, <1>3 DEF PackageInv

LEMMA DamageKeeps == ASSUME PackageInv, NEW s \in snapshots, DamageSnapshot(s) PROVE PackageInv'
<1> DEFINE hurt == [s EXCEPT !.damaged = TRUE, !.content["code"] = "absent"]
<1>1. snapshots' = (snapshots \ {s}) \cup {hurt} /\ UNCHANGED <<sourceKind, origin, worker, install, activated>>
  BY DEF DamageSnapshot
<1>2. s \in Snapshots
  BY DEF PackageInv, PackageShapes
<1>3. hurt.name = s.name /\ hurt.damaged /\ hurt.content = [s.content EXCEPT !["code"] = "absent"] /\ hurt \in Snapshots
  <2>1. [s.content EXCEPT !["code"] = "absent"] \in Trees
    BY <1>2, TreesOfVersions DEF Snapshots, TreeFiles, Versions
  <2> QED  BY <1>2, <2>1 DEF Snapshots
<1>4. SnapshotsAreWhole'
  <2> HIDE DEF hurt
  <2> QED  BY <1>1, <1>3 DEF PackageInv, SnapshotsAreWhole, Pinned
<1>5. PackageShapes' /\ InstallIsInOrder'
  <2> HIDE DEF hurt
  <2> QED  BY <1>1, <1>3 DEF PackageInv, PackageShapes, InstallIsInOrder, Pinned
<1> QED  BY <1>1, <1>4, <1>5 DEF PackageInv, ActivatedIsOneTree

LEMMA PackageInvNext == PackageInv /\ [PackageNext]_packageVars => PackageInv'
<1> SUFFICES ASSUME PackageInv, [PackageNext]_packageVars PROVE PackageInv'
  OBVIOUS
<1>1. CASE BeginInspect \/ WorkerExits \/ InstallReturns \/ OverLimit \/ TerminateWorker
  BY <1>1, WorkerKeeps
<1>2. CASE WalkCode \/ WalkJson \/ ReadResource \/ FindSnapshot \/ PublishSnapshot
  BY <1>2, WalksKeep, FindKeeps, SnapshotPublishKeeps
<1>3. CASE InspectFails
  BY <1>3, InstallLeaveKeeps DEF InspectFails
<1>4. CASE \/ CollectEntry("code", "COLLECT code") \/ CollectEntry("json", "COLLECT json")
           \/ CopyEntry("code", "COPY code") \/ CopyEntry("json", "COPY json")
  BY <1>4, CopiesKeep DEF TreeFiles, Publishing
<1>5. ASSUME NEW f \in TreeFiles, WorkerWrites(f) \/ \E v \in Versions : EditOrigin(f, v) PROVE PackageInv'
  BY <1>5, OriginKeeps DEF WorkerWrites, EditOrigin, Versions
<1>6. ASSUME NEW q \in qualified, ActivatePackage(q) PROVE PackageInv'
  BY <1>6, ActivateKeeps
<1>7. ASSUME NEW s \in snapshots, DamageSnapshot(s) PROVE PackageInv'
  BY <1>7, DamageKeeps
<1>8. CASE UNCHANGED packageVars
  <2>1. InstallIsInOrder'
    BY <1>8 DEF packageVars, PackageInv, InstallIsInOrder, Pinned
  <2> QED  BY <1>8, <2>1, InspectionKeeps DEF packageVars, PackageInv, PackageShapes
<1> QED  BY <1>1, <1>2, <1>3, <1>4, <1>5, <1>6, <1>7, <1>8 DEF PackageNext

(* What a session activates is one whole tree of the name it was qualified   *)
(* under, whoever wrote to the source or the snapshots meanwhile (inspect,   *)
(* publishManagedPackageSnapshot, prepareQualifiedPiPluginActivation).       *)
THEOREM ActivatedTreesAreOne == PackageSpec => []OneTreeIsActivated
<1>1. PackageInv => OneTreeIsActivated
  BY DEF PackageInv, SnapshotsAreWhole, ActivatedIsOneTree, InstallIsInOrder, OneTreeIsActivated
<1> QED  BY <1>1, PackageInvInit, PackageInvNext, PTL DEF PackageSpec

-----------------------------------------------------------------------------
(* Plugin registry: the command at work knows what it has checked of its    *)
(* plugin, and a session that found no new journal entry still reads what   *)
(* it read.                                                                 *)

CommandPoints == {"NONE", "INSPECT", "PUT", "PUBLISHED", "INSTALL", "DISABLE", "REMOVE",
                  "PLAN", "DELETE", "DELETING", "UNBIND"}
CommandStates == [pc : CommandPoints, plugin : Plugins \cup {"NONE"}, created : BOOLEAN]
LaunchPoints == {"START", "LIST", "INVENTORY", "VERIFY", "NORMAL", "SAFE", "FALLBACK"}
LaunchStates == [pc : LaunchPoints, enabled : SUBSET Plugins, quarantine : BOOLEAN, since : Nat]
PluginShapes ==
    /\ DOMAIN registered = Plugins /\ DOMAIN snapshot = Plugins /\ DOMAIN binding = Plugins
    /\ \A p \in Plugins : binding[p] \in {"NONE", "LINKED", "OK"}
    /\ command \in CommandStates
    /\ ~CommandAt("NONE") => Subject \in Plugins
    /\ launch \in LaunchStates
    /\ entries \in Nat /\ launch.since <= entries
PluginsAreBacked == \A p \in Plugins : Unbacked(p) => p \in disowned
Unrecorded(p) == registered[p] = "NONE" \/ p \in disowned
CommandIsInOrder ==
    /\ CommandAt("PUT") \/ CommandAt("PUBLISHED") \/ CommandAt("INSTALL") => snapshot[Subject] = "WHOLE"
    /\ CommandAt("INSTALL") => binding[Subject] # "NONE"
    /\ ~CommandAt("NONE") /\ command.created => Unrecorded(Subject)
    /\ command.pc \in {"PUBLISHED", "PLAN", "DELETE", "DELETING", "UNBIND"} => Unrecorded(Subject)
    /\ CommandAt("PUBLISHED") => binding[Subject] # "NONE"
Excused == \E p \in launch.enabled : p \in outdated \cup disowned \/ binding[p] = "LINKED"
LaunchReadsThis ==
    entries = launch.since =>
       /\ launch.pc = "FALLBACK" => Excused /\ launch.enabled \subseteq EnabledNow
       /\ launch.pc = "LIST" => ~Quarantine
       /\ launch.pc = "INVENTORY" => launch.enabled = EnabledNow /\ ~launch.quarantine /\ ~Quarantine
       /\ launch.pc = "VERIFY" => launch.enabled \subseteq EnabledNow
PluginInv == PluginShapes /\ PluginsAreBacked /\ CommandIsInOrder /\ LaunchReadsThis

LEMMA CommandFields ==
  ASSUME NEW c \in CommandStates, NEW pc \in CommandPoints, NEW d, d = [c EXCEPT !.pc = pc]
  PROVE  d \in CommandStates /\ d.pc = pc /\ d.plugin = c.plugin /\ d.created = c.created
BY DEF CommandStates
LEMMA LaunchFields ==
  ASSUME NEW c \in LaunchStates, NEW pc \in LaunchPoints, NEW d, d = [c EXCEPT !.pc = pc]
  PROVE  d \in LaunchStates /\ d.pc = pc /\ d.enabled = c.enabled /\ d.since = c.since
BY DEF LaunchStates
LEMMA LaunchVerifies ==
  ASSUME NEW c \in LaunchStates, NEW e \in SUBSET Plugins, NEW d, d = [c EXCEPT !.enabled = e]
  PROVE  d \in LaunchStates /\ d.pc = c.pc /\ d.enabled = e /\ d.since = c.since
BY DEF LaunchStates
LEMMA SinceIsNat ==
    ASSUME PluginShapes
    PROVE  /\ launch \in LaunchStates /\ launch.enabled \subseteq Plugins
           /\ launch.since \in Nat /\ launch.since <= entries /\ entries \in Nat
BY DEF LaunchStates, PluginShapes
LEMMA FreshStates ==
  /\ NoCommand \in CommandStates /\ NoCommand.pc = "NONE"
  /\ NoLaunch \in LaunchStates /\ NoLaunch.pc = "START" /\ NoLaunch.since = 0
BY DEF NoCommand, NoLaunch, CommandStates, LaunchStates, CommandPoints, LaunchPoints
USE DEF CommandPoints, LaunchPoints

LEMMA PluginInvInit == PluginInit => PluginInv
<1> SUFFICES ASSUME PluginInit PROVE PluginInv
  OBVIOUS
<1>1. PluginShapes
  BY FreshStates DEF PluginInit, PluginShapes, CommandAt
<1>2. PluginsAreBacked /\ CommandIsInOrder /\ LaunchReadsThis
  BY FreshStates DEF PluginInit, PluginsAreBacked, Unbacked, CommandIsInOrder, LaunchReadsThis, CommandAt
<1> QED  BY <1>1, <1>2 DEF PluginInv

\* A step of the command that leaves the journal alone.
LEMMA FilesKeep ==
  ASSUME PluginInv, UNCHANGED <<registered, entries, launch, assurance>>,
         command' \in CommandStates,
         DOMAIN snapshot' = Plugins, DOMAIN binding' = Plugins, \A p \in Plugins : binding'[p] \in {"NONE", "LINKED", "OK"},
         \A p \in Plugins : registered[p] = "ENABLED" => p \in disowned \/ binding'[p] = binding[p],
         (~CommandAt("NONE") => Subject \in Plugins)', CommandIsInOrder', PluginsAreBacked'
  PROVE  PluginInv'
<1>1. PluginShapes'
  BY DEF PluginInv, PluginShapes
<1>2. UNCHANGED <<outdated, disowned>> /\ EnabledNow' = EnabledNow /\ Quarantine' = Quarantine
  BY DEF assurance, EnabledNow, Quarantine
<1>3. Excused /\ launch.enabled \subseteq EnabledNow => Excused'
  <2> SUFFICES ASSUME Excused, launch.enabled \subseteq EnabledNow PROVE Excused'
    OBVIOUS
  <2>1. PICK p \in launch.enabled : p \in outdated \cup disowned \/ binding[p] = "LINKED"
    BY DEF Excused
  <2>2. p \in Plugins /\ registered[p] = "ENABLED"
    BY <2>1 DEF EnabledNow
  <2> QED  BY <1>2, <2>1, <2>2 DEF Excused
<1>4. LaunchReadsThis'
  BY <1>2, <1>3 DEF PluginInv, LaunchReadsThis
<1> QED  BY <1>1, <1>4 DEF PluginInv

\* The command ends, or goes on with the same plugin.
LEMMA CommandMoves ==
  ASSUME PluginShapes, ~CommandAt("NONE"), NEW pc \in CommandPoints, CommandTo(pc)
  PROVE  /\ command' \in CommandStates
         /\ (~CommandAt("NONE") => Subject \in Plugins)'
         /\ command'.pc = pc
         /\ pc # "NONE" => command'.plugin = Subject /\ command'.created = command.created
<1>1. CASE pc = "NONE"
  BY <1>1, FreshStates DEF CommandTo, CommandAt, Subject
<1>2. CASE pc # "NONE"
  <2>1. command' = [command EXCEPT !.pc = pc] /\ command \in CommandStates
    BY <1>2 DEF CommandTo, PluginShapes
  <2>2. command' \in CommandStates /\ command'.pc = pc /\ command'.plugin = command.plugin
        /\ command'.created = command.created
    BY <2>1, CommandFields
  <2> QED  BY <1>2, <2>2 DEF CommandAt, Subject, PluginShapes
<1> QED  BY <1>1, <1>2

LEMMA CommandBeginsKeeps ==
  ASSUME PluginInv, NEW p \in Plugins, NEW pc \in {"INSPECT", "DISABLE", "REMOVE"}, CommandBegins(p, pc)
  PROVE  PluginInv'
<1>1. /\ command' = [pc |-> pc, plugin |-> p, created |-> FALSE]
      /\ UNCHANGED <<registered, entries, snapshot, binding, launch, assurance, outdated, disowned>>
  BY DEF CommandBegins, assurance
<1>2. CommandIsInOrder' /\ PluginsAreBacked'
  BY <1>1 DEF CommandIsInOrder, CommandAt, PluginInv, PluginsAreBacked, Unbacked
<1>3. command' \in CommandStates /\ (~CommandAt("NONE") => Subject \in Plugins)'
  BY <1>1 DEF CommandStates, Subject
<1> QED  BY <1>1, <1>2, <1>3, FilesKeep DEF PluginInv, PluginShapes

LEMMA CommandInspectKeeps == ASSUME PluginInv, Inspect PROVE PluginInv'
<1> USE DEF Inspect, assurance
<1>0. ~CommandAt("NONE") /\ Subject \in Plugins /\ PluginShapes
  BY DEF CommandAt, PluginInv, PluginShapes
<1>1. PICK pc \in {"NONE", "PUT"} : CommandTo(pc) /\ (pc = "PUT" => snapshot' = [snapshot EXCEPT ![Subject] = "WHOLE"])
                                    /\ (pc = "NONE" => UNCHANGED snapshot)
  OBVIOUS
<1>2. DOMAIN snapshot' = Plugins /\ \A p \in Plugins : snapshot'[p] = snapshot[p] \/ (p = Subject /\ snapshot'[p] = "WHOLE")
  BY <1>0, <1>1 DEF PluginShapes
<1>3. pc = "PUT" => snapshot'[Subject] = "WHOLE"
  BY <1>0, <1>1 DEF PluginShapes
<1>4. PluginsAreBacked'
  BY <1>2 DEF PluginInv, PluginsAreBacked, Unbacked
<1>5. CommandIsInOrder'
  BY <1>0, <1>1, <1>3, CommandMoves DEF CommandIsInOrder, CommandAt, Subject, PluginInv, Unrecorded
<1> QED  BY <1>0, <1>1, <1>2, <1>4, <1>5, CommandMoves, FilesKeep DEF PluginShapes

LEMMA PutBindingKeeps == ASSUME PluginInv, PutBinding PROVE PluginInv'
<1> USE DEF PutBinding, assurance
<1>0. CommandAt("PUT") /\ Subject \in Plugins /\ PluginShapes /\ snapshot[Subject] = "WHOLE" /\ ~CommandAt("NONE")
  BY DEF CommandAt, PluginInv, PluginShapes, CommandIsInOrder
<1>1. CASE \/ binding[Subject] = "OK" /\ CommandTo("INSTALL") /\ UNCHANGED binding
           \/ binding[Subject] = "LINKED" /\ CommandTo("NONE") /\ UNCHANGED binding
  <2>1. PICK pc \in {"INSTALL", "NONE"} : CommandTo(pc) /\ (pc = "INSTALL" => binding[Subject] = "OK")
    BY <1>1
  <2>2. CommandIsInOrder'
    BY <1>0, <1>1, <2>1, CommandMoves DEF CommandIsInOrder, CommandAt, Subject, PluginInv, Unrecorded
  <2>3. PluginsAreBacked'
    BY <1>1 DEF PluginInv, PluginsAreBacked, Unbacked
  <2> QED  BY <1>0, <1>1, <2>1, <2>2, <2>3, CommandMoves, FilesKeep DEF PluginShapes
<1>2. CASE /\ binding[Subject] = "NONE"
           /\ binding' = [binding EXCEPT ![Subject] = "LINKED"]
           /\ command' = [command EXCEPT !.pc = "PUBLISHED", !.created = TRUE]
  <2>1. Unrecorded(Subject)
    BY <1>0, <1>2 DEF PluginInv, PluginsAreBacked, Unbacked, Unrecorded
  <2>2. /\ command' \in CommandStates
        /\ command'.pc = "PUBLISHED" /\ command'.plugin = Subject
    BY <1>0, <1>2 DEF PluginShapes, Subject, CommandStates, CommandPoints
  <2>3. DOMAIN binding' = Plugins /\ binding'[Subject] = "LINKED"
        /\ \A p \in Plugins : p # Subject => binding'[p] = binding[p]
    BY <1>0, <1>2 DEF PluginShapes
  <2>4. CommandIsInOrder'
    BY <1>0, <2>1, <2>2, <2>3 DEF CommandIsInOrder, CommandAt, Subject, Unrecorded
  <2>5. PluginsAreBacked'
    BY <2>3 DEF PluginInv, PluginsAreBacked, Unbacked
  <2>6. (~CommandAt("NONE") => Subject \in Plugins)'
    BY <1>0, <2>2 DEF Subject
  <2> QED  BY <1>0, <2>1, <2>2, <2>3, <2>4, <2>5, <2>6, FilesKeep DEF PluginShapes, Unrecorded
<1> QED  BY <1>1, <1>2

LEMMA DropTemporaryKeeps == ASSUME PluginInv, DropTemporary PROVE PluginInv'
<1> USE DEF DropTemporary, assurance
<1>0. CommandAt("PUBLISHED") /\ Subject \in Plugins /\ PluginShapes /\ snapshot[Subject] = "WHOLE"
      /\ Unrecorded(Subject) /\ ~CommandAt("NONE") /\ binding[Subject] # "NONE"
  BY DEF CommandAt, PluginInv, PluginShapes, CommandIsInOrder
<1>1. DOMAIN binding' = Plugins /\ binding'[Subject] # "NONE" /\ \A p \in Plugins : p # Subject => binding'[p] = binding[p]
  BY <1>0 DEF PluginShapes
<1>2. PluginsAreBacked'
  BY <1>1 DEF PluginInv, PluginsAreBacked, Unbacked
<1>3. CommandIsInOrder'
  BY <1>0, <1>1, CommandMoves DEF CommandIsInOrder, CommandAt, Subject, Unrecorded
<1> QED  BY <1>0, <1>1, <1>2, <1>3, CommandMoves, FilesKeep DEF PluginShapes, Unrecorded

\* A step that adds an entry.
LEMMA EntryKeeps ==
  ASSUME PluginInv, NEW p \in Plugins, NEW state, Entry(p, state),
         \A q \in disowned : q # p => q \in disowned',
         state # "NONE" => p \in disowned' \/ (binding[p] # "NONE" /\ snapshot[p] = "WHOLE"),
         command' \in CommandStates,
         command'.pc = "NONE" \/ (command'.pc = "PLAN" /\ command'.plugin = p /\ (state = "NONE" \/ p \in disowned')),
         UNCHANGED <<snapshot, binding, launch>>
  PROVE  PluginInv'
<1>1. entries' = entries + 1 /\ entries \in Nat /\ launch.since \in Nat /\ launch.since <= entries
      /\ DOMAIN registered' = Plugins /\ registered'[p] = state
      /\ \A q \in Plugins : q # p => registered'[q] = registered[q]
  BY SinceIsNat DEF PluginInv, PluginShapes, Entry
<1>2. PluginShapes'
  BY <1>1 DEF PluginInv, PluginShapes, CommandAt, Subject
<1>3. PluginsAreBacked'
  BY <1>1 DEF PluginInv, PluginsAreBacked, Unbacked
<1>4. CommandIsInOrder'
  BY <1>1 DEF CommandIsInOrder, CommandAt, Subject, Unrecorded
<1>5. LaunchReadsThis'
  BY <1>1 DEF LaunchReadsThis
<1> QED  BY <1>2, <1>3, <1>4, <1>5 DEF PluginInv

LEMMA AtInstall ==
  ASSUME PluginInv, CommandAt("INSTALL")
  PROVE  /\ ~CommandAt("NONE") /\ Subject \in Plugins /\ PluginShapes
         /\ binding[Subject] # "NONE" /\ snapshot[Subject] = "WHOLE"
         /\ command.created => Unrecorded(Subject)
BY DEF CommandAt, PluginInv, PluginShapes, CommandIsInOrder

LEMMA InstallCommitKeeps == ASSUME PluginInv, InstallCommits PROVE PluginInv'
<1>1. CommandTo("NONE") /\ CommandAt("INSTALL") /\ disowned' = disowned \ {Subject} /\ UNCHANGED <<snapshot, binding, launch>>
  BY DEF InstallCommits
<1>2. PICK state : Entry(Subject, state)
  BY DEF InstallCommits, RecordInstall
<1> QED  BY <1>1, <1>2, AtInstall, EntryKeeps, CommandMoves

\* A step of the command that changes nothing but where it stands.
LEMMA CommandMoveKeeps ==
  ASSUME PluginInv, ~CommandAt("NONE"), NEW pc \in CommandPoints, CommandTo(pc), CommandIsInOrder',
         UNCHANGED <<registered, entries, snapshot, binding, launch, assurance>>
  PROVE  PluginInv'
<1>1. PluginsAreBacked'
  BY DEF PluginInv, PluginsAreBacked, Unbacked, assurance
<1> QED  BY <1>1, CommandMoves, FilesKeep DEF PluginInv, PluginShapes

LEMMA InstallFailsKeeps == ASSUME PluginInv, InstallFails PROVE PluginInv'
<1>1. PICK pc \in {"PLAN", "NONE"} : CommandTo(pc) /\ (pc = "PLAN" => command.created)
  BY DEF InstallFails, TakesBack
<1>2. CommandAt("INSTALL") /\ UNCHANGED <<snapshot, binding, launch>>
  BY DEF InstallFails
<1>3. CASE UNCHANGED <<registered, entries, upsets, assurance>>
  <2>1. CommandIsInOrder'
    BY <1>1, <1>2, <1>3, AtInstall, CommandMoves DEF CommandIsInOrder, CommandAt, Subject, Unrecorded, assurance
  <2> QED  BY <1>1, <1>2, <1>3, <2>1, AtInstall, CommandMoveKeeps
<1>4. CASE RecordInstall /\ disowned' = IF command.created THEN disowned \cup {Subject} ELSE disowned
  <2>1. PICK state : Entry(Subject, state)
    BY <1>4 DEF RecordInstall
  <2>2. command' \in CommandStates /\ command'.pc = pc /\ (pc = "PLAN" => command'.plugin = Subject)
    BY <1>1, <1>2, AtInstall, CommandMoves
  <2> QED  BY <1>1, <1>2, <1>4, <2>1, <2>2, AtInstall, EntryKeeps
<1> QED  BY <1>3, <1>4 DEF InstallFails

LEMMA DisableKeeps == ASSUME PluginInv, DisablePlugin PROVE PluginInv'
<1>1. ~CommandAt("NONE") /\ Subject \in Plugins /\ PluginShapes /\ CommandTo("NONE") /\ UNCHANGED <<assurance, disowned>>
  BY DEF DisablePlugin, CommandAt, PluginInv, PluginShapes, assurance
<1>2. CASE registered[Subject] = "NONE"
  <2>1. CommandIsInOrder'
    BY <1>1, CommandMoves DEF CommandIsInOrder, CommandAt
  <2> QED  BY <1>1, <1>2, <2>1, CommandMoveKeeps DEF DisablePlugin
<1>3. CASE registered[Subject] # "NONE"
  <2>1. Subject \in disowned \/ (binding[Subject] # "NONE" /\ snapshot[Subject] = "WHOLE")
    BY <1>1, <1>3 DEF PluginInv, PluginsAreBacked, Unbacked
  <2>2. Entry(Subject, "DISABLED")
    BY <1>3 DEF DisablePlugin
  <2> QED  BY <1>1, <2>1, <2>2, EntryKeeps, CommandMoves DEF DisablePlugin
<1> QED  BY <1>2, <1>3

LEMMA RemoveRecordKeeps == ASSUME PluginInv, RemoveRecord PROVE PluginInv'
<1>1. ~CommandAt("NONE") /\ Subject \in Plugins /\ PluginShapes
  BY DEF RemoveRecord, CommandAt, PluginInv, PluginShapes
<1>2. command'.pc = "PLAN" /\ command'.plugin = Subject
      /\ command' \in CommandStates
  BY <1>1, CommandMoves DEF RemoveRecord
<1> QED  BY <1>1, <1>2, EntryKeeps DEF RemoveRecord

LEMMA PlanKeeps == ASSUME PluginInv, PlanRemoval PROVE PluginInv'
<1>1. PICK pc \in {"NONE", "UNBIND", "DELETE"} : CommandTo(pc)
  BY DEF PlanRemoval
<1>2. ~CommandAt("NONE") /\ Subject \in Plugins /\ PluginShapes /\ Unrecorded(Subject)
  BY DEF PlanRemoval, CommandAt, PluginInv, PluginShapes, CommandIsInOrder
<1>3. CommandIsInOrder'
  BY <1>1, <1>2, CommandMoves DEF PlanRemoval, CommandIsInOrder, CommandAt, Subject, Unrecorded, assurance
<1> QED  BY <1>1, <1>2, <1>3, CommandMoveKeeps DEF PlanRemoval

\* A step of a removal that takes a file of an unregistered plugin away.
LEMMA PluginRemovalKeeps ==
  ASSUME PluginInv, command.pc \in {"DELETE", "DELETING", "UNBIND"},
         NEW pc \in {"DELETING", "UNBIND", "NONE"}, CommandTo(pc),
         DOMAIN snapshot' = Plugins, DOMAIN binding' = Plugins, \A p \in Plugins : binding'[p] \in {"NONE", "LINKED", "OK"},
         \A p \in Plugins : p # Subject => snapshot'[p] = snapshot[p] /\ binding'[p] = binding[p],
         UNCHANGED <<registered, entries, launch, assurance>>
  PROVE  PluginInv'
<1>1. ~CommandAt("NONE") /\ Subject \in Plugins /\ PluginShapes /\ Unrecorded(Subject)
  BY DEF CommandAt, PluginInv, PluginShapes, CommandIsInOrder
<1>2. PluginsAreBacked'
  BY <1>1 DEF PluginInv, PluginsAreBacked, Unbacked, Unrecorded, assurance
<1>3. CommandIsInOrder'
  BY <1>1, CommandMoves DEF CommandIsInOrder, CommandAt, Subject, Unrecorded, assurance
<1> QED  BY <1>1, <1>2, <1>3, CommandMoves, FilesKeep DEF Unrecorded

LEMMA DeletesKeep == ASSUME PluginInv, DeleteSnapshot \/ DeleteBinding PROVE PluginInv'
<1>1. /\ DOMAIN snapshot' = Plugins /\ DOMAIN binding' = Plugins /\ command.pc \in {"DELETE", "DELETING", "UNBIND"}
      /\ \A p \in Plugins : binding'[p] \in {"NONE", "LINKED", "OK"}
      /\ \A p \in Plugins : p # Subject => snapshot'[p] = snapshot[p] /\ binding'[p] = binding[p]
  BY DEF DeleteSnapshot, DeleteBinding, PluginInv, PluginShapes, CommandAt
<1>2. PICK pc \in {"DELETING", "UNBIND", "NONE"} : CommandTo(pc)
  BY DEF DeleteSnapshot, DeleteBinding
<1> QED  BY <1>1, <1>2, PluginRemovalKeeps DEF DeleteSnapshot, DeleteBinding

LEMMA KilledKeeps == ASSUME PluginInv, CommandKilled PROVE PluginInv'
<1>1. CommandIsInOrder'
  BY CommandMoves DEF PluginInv, CommandKilled, CommandIsInOrder, CommandAt
<1> QED  BY <1>1, CommandMoveKeeps DEF CommandKilled

\* A change of the runtime can only excuse more.
LEMMA RuntimeKeeps == ASSUME PluginInv, RuntimeChanges PROVE PluginInv'
<1>1. outdated \subseteq outdated' /\ UNCHANGED <<registered, entries, snapshot, binding, command, launch, disowned>>
  BY DEF RuntimeChanges
<1>2. PluginShapes' /\ PluginsAreBacked' /\ CommandIsInOrder'
  BY <1>1 DEF PluginInv, PluginShapes, PluginsAreBacked, Unbacked, CommandIsInOrder, CommandAt, Subject, Unrecorded
<1>3. LaunchReadsThis'
  BY <1>1 DEF PluginInv, LaunchReadsThis, Excused, EnabledNow, Quarantine
<1> QED  BY <1>2, <1>3 DEF PluginInv

\* A step of the session being started.
LEMMA LaunchKeeps ==
  ASSUME PluginInv, LaunchReadsThis', UNCHANGED <<registered, entries, snapshot, binding, command, assurance>>,
         launch' \in LaunchStates,
         launch'.since \in {launch.since, entries}
  PROVE  PluginInv'
<1>1. PluginShapes'
  BY DEF PluginInv, PluginShapes, CommandAt, Subject
<1>2. PluginsAreBacked' /\ CommandIsInOrder'
  BY DEF PluginInv, PluginsAreBacked, Unbacked, CommandIsInOrder, CommandAt, Subject, Unrecorded, assurance
<1> QED  BY <1>1, <1>2 DEF PluginInv

LEMMA ReadsKeep == ASSUME PluginInv, ReadStartup \/ ReadList \/ ReadInventory PROVE PluginInv'
<1>0. PluginShapes /\ LaunchReadsThis /\ EnabledNow \subseteq Plugins /\ Quarantine \in BOOLEAN
  BY DEF PluginInv, EnabledNow, Quarantine
<1>1. CASE ReadStartup
  <2>1. launch' = [pc |-> IF Quarantine THEN "SAFE" ELSE "LIST", enabled |-> {}, quarantine |-> FALSE, since |-> entries]
    BY <1>1 DEF ReadStartup, NoLaunch
  <2>2. launch'.pc = (IF Quarantine THEN "SAFE" ELSE "LIST") /\ launch'.since = entries /\ launch' \in LaunchStates
    BY <1>0, <2>1 DEF LaunchStates, PluginShapes
  <2>3. Quarantine' = Quarantine
    BY <1>1 DEF ReadStartup, Quarantine
  <2>4. LaunchReadsThis'
    BY <1>1, <2>2, <2>3 DEF ReadStartup, LaunchReadsThis
  <2> QED  BY <1>1, <2>2, <2>4, LaunchKeeps DEF ReadStartup
<1>2. CASE ReadList
  <2>1. launch' = [pc |-> "INVENTORY", enabled |-> EnabledNow, quarantine |-> Quarantine, since |-> launch.since]
    BY <1>0, <1>2 DEF ReadList, PluginShapes, LaunchStates
  <2>2. LaunchReadsThis'
    BY <1>0, <1>2, <2>1 DEF ReadList, LaunchReadsThis, Quarantine, EnabledNow
  <2>3. launch'.since = launch.since /\ launch' \in LaunchStates
    BY <1>0, <2>1, SinceIsNat DEF LaunchStates
  <2> QED  BY <1>2, <2>2, <2>3, LaunchKeeps DEF ReadList
<1>3. CASE ReadInventory
  <2>1. PICK pc \in {"FALLBACK", "VERIFY"} : launch' = [launch EXCEPT !.pc = pc]
           /\ (entries = launch.since => pc = "VERIFY" /\ launch.enabled = EnabledNow)
    BY <1>0, <1>3 DEF ReadInventory, LaunchTo, LaunchReadsThis
  <2>2. launch'.pc = pc /\ launch'.enabled = launch.enabled /\ launch'.since = launch.since
        /\ launch' \in LaunchStates
    BY <1>0, <2>1, SinceIsNat, LaunchFields
  <2>3. LaunchReadsThis'
    BY <1>3, <2>1, <2>2 DEF ReadInventory, LaunchReadsThis, EnabledNow
  <2> QED  BY <1>3, <2>2, <2>3, LaunchKeeps DEF ReadInventory
<1> QED  BY <1>1, <1>2, <1>3

LEMMA VerifyKeeps == ASSUME PluginInv, VerifyActivation PROVE PluginInv'
<1>0. PluginShapes /\ LaunchReadsThis /\ launch.pc = "VERIFY"
  BY DEF PluginInv, VerifyActivation
<1>1. CASE launch.enabled = {}
  <2>1. launch' = [launch EXCEPT !.pc = "NORMAL"]
    BY <1>1 DEF VerifyActivation, LaunchTo
  <2>2. launch'.pc = "NORMAL" /\ launch'.since = launch.since
        /\ launch' \in LaunchStates
    BY <1>0, <2>1, SinceIsNat, LaunchFields
  <2>3. LaunchReadsThis'
    BY <2>2 DEF LaunchReadsThis
  <2> QED  BY <2>2, <2>3, LaunchKeeps DEF VerifyActivation
<1>2. CASE launch.enabled # {}
  <2>1. PICK p \in launch.enabled :
           IF CompatibilityHolds(p) /\ binding[p] = "OK" /\ snapshot[p] = "WHOLE"
             THEN launch' = [launch EXCEPT !.enabled = @ \ {p}] ELSE LaunchTo("FALLBACK")
    BY <1>2 DEF VerifyActivation
  <2>2. CASE CompatibilityHolds(p) /\ binding[p] = "OK" /\ snapshot[p] = "WHOLE"
    <3>1. launch'.pc = "VERIFY" /\ launch'.since = launch.since /\ launch'.enabled \subseteq launch.enabled
          /\ launch' \in LaunchStates
      BY <1>0, <2>1, <2>2, SinceIsNat, LaunchFields, LaunchVerifies, launch.enabled \ {p} \in SUBSET Plugins
    <3>2. LaunchReadsThis'
      BY <1>0, <3>1 DEF LaunchReadsThis, VerifyActivation, EnabledNow
    <3> QED  BY <3>1, <3>2, LaunchKeeps DEF VerifyActivation
  <2>3. CASE ~(CompatibilityHolds(p) /\ binding[p] = "OK" /\ snapshot[p] = "WHOLE")
    <3>1. launch'.pc = "FALLBACK" /\ launch'.since = launch.since /\ launch'.enabled = launch.enabled
          /\ launch' \in LaunchStates
      BY <1>0, <2>1, <2>3, SinceIsNat, LaunchFields DEF LaunchTo
    <3>2. UNCHANGED <<registered, entries, binding, outdated, disowned>> /\ EnabledNow' = EnabledNow
      BY DEF VerifyActivation, assurance, EnabledNow
    <3>3. ASSUME entries = launch.since PROVE launch.enabled \subseteq EnabledNow /\ Excused'
      <4>1. launch.enabled \subseteq EnabledNow
        BY <1>0, <3>3 DEF LaunchReadsThis
      <4>2. p \in Plugins /\ registered[p] # "NONE"
        BY <4>1 DEF EnabledNow
      <4>3. p \in outdated \cup disowned \/ binding[p] = "LINKED"
        BY <2>3, <4>2 DEF CompatibilityHolds, PluginInv, PluginsAreBacked, Unbacked, PluginShapes
      <4> QED  BY <3>1, <3>2, <4>1, <4>3 DEF Excused
    <3>4. LaunchReadsThis'
      BY <3>1, <3>2, <3>3 DEF LaunchReadsThis
    <3> QED  BY <3>1, <3>4, LaunchKeeps DEF VerifyActivation
  <2> QED  BY <2>2, <2>3
<1> QED  BY <1>1, <1>2

LEMMA PluginInvNext == PluginInv /\ [PluginNext]_pluginVars => PluginInv'
<1> SUFFICES ASSUME PluginInv, [PluginNext]_pluginVars PROVE PluginInv'
  OBVIOUS
<1>1. CASE \E p \in Plugins, pc \in {"INSPECT", "DISABLE", "REMOVE"} : CommandBegins(p, pc)
  BY <1>1, CommandBeginsKeeps
<1>2. CASE Inspect \/ PutBinding \/ DropTemporary \/ InstallCommits \/ InstallFails
  BY <1>2, CommandInspectKeeps, PutBindingKeeps, DropTemporaryKeeps, InstallCommitKeeps, InstallFailsKeeps
<1>3. CASE DisablePlugin \/ RemoveRecord \/ PlanRemoval \/ DeleteSnapshot \/ DeleteBinding \/ CommandKilled
  BY <1>3, DisableKeeps, RemoveRecordKeeps, PlanKeeps, DeletesKeep, KilledKeeps
<1>4. CASE ReadStartup \/ ReadList \/ ReadInventory \/ VerifyActivation \/ RuntimeChanges
  BY <1>4, ReadsKeep, VerifyKeeps, RuntimeKeeps
<1>5. CASE UNCHANGED pluginVars
  BY <1>5 DEF pluginVars, PluginInv, PluginShapes, PluginsAreBacked, CommandIsInOrder, LaunchReadsThis,
              CommandAt, Subject, Quarantine, EnabledNow, assurance, Unbacked, Unrecorded, Excused
<1> QED  BY <1>1, <1>2, <1>3, <1>4, <1>5 DEF PluginNext

(* However often commands fail or die half-way, a registered plugin has its  *)
(* binding and a whole snapshot unless an install that reported failure      *)
(* registered it, and a session falls back only where the journal has grown  *)
(* since it looked, or for a plugin whose qualification does not hold any    *)
(* more, which such an install registered, or whose binding kept its second  *)
(* link (pluginCommand, quickSessionCommand).                                *)
THEOREM RegisteredPluginsAreBacked == PluginSpec => []RegisteredIsBacked
<1>1. PluginInv => RegisteredIsBacked
  BY SinceIsNat DEF PluginInv, PluginsAreBacked, LaunchReadsThis, Excused, RegisteredIsBacked
<1> QED  BY <1>1, PluginInvInit, PluginInvNext, PTL DEF PluginSpec
-----------------------------------------------------------------------------
(* Updater: what each step of apply, rollback and qualify may find on the    *)
(* disk, whatever mishaps came before, and what it leaves for reconcile.     *)

Releasing == {"TARGET", "PROBE"}
Activating == {"MIGRATED", "INTENT", "PUBLISHED", "ACTIVATED"}
Undoing == {"RESTORE", "RESTORED", "UNMIGRATE", "DISCARD", "FAIL"}
Working == {"STAGED", "COMMITTED"} \cup Releasing \cup Activating \cup Undoing
Settled == {"RECOVERED", "ABORTED", "START"}
Points == {"IDLE", "RECONCILE"} \cup Settled \cup Working \cup Qualifying

AnyRelease == Releases \cup {NoRelease}
Runs == Nat \cup {Absent}
Entries == [op : {q.op : q \in UpdateRequests} \cup {"RECONCILE"},
            action : {q.action : q \in UpdateRequests} \cup {"APPLY", "QUALIFY"},
            release : Releases, run : Runs,
            outcome : {"APPLIED", "FAILED", "BLOCKED", "NOOP"}, prev : AnyRelease]
UpdaterTypes ==
    /\ current \in Releases /\ current \in tenants
    /\ intent \in {Nil} \cup [op : {"ACTIVATE"}, release : Releases, prev : Releases]
    /\ migration \in {Nil} \cup [op : {"MIGRATE"}, release : Releases, prev : Releases]
    /\ qual \in {Nil} \cup UpdateRequests
    /\ mutable \in {"WHOLE", "TORN", "LOST"}
    /\ installed \in [Releases -> Runs] /\ root \in Nat /\ remnants \subseteq Releases
    /\ journal \in Seq(Entries)
    /\ DOMAIN work = {"pc", "q", "release", "prev"} /\ work.pc \in Points
    /\ work.release \in AnyRelease /\ work.prev \in AnyRelease
    /\ IF work.pc = "IDLE" THEN work = Rest ELSE work.q \in UpdateRequests
    /\ work.pc \in {"RECOVERED", "ABORTED"} => work.release \in Releases
    /\ work.pc \in Working => work.prev \in Releases
(* What is current, or may have to be again, is on the disk, and all of it.  *)
IsThere(r) == installed[r] # Absent /\ r \notin remnants
ReleasesAreThere ==
    /\ IsThere(current)
    /\ work.pc \in {"STAGED", "TARGET", "PROBE", "MIGRATED", "INTENT"} => IsThere(work.q.release)
    /\ work.pc \in {"STAGED", "TARGET", "PROBE", "RESTORE"} \cup Activating => IsThere(work.prev)
(* Torn state has a migration, and so have the steps of an apply that may     *)
(* still have to take it back.                                               *)
StateIsMendable ==
    /\ mutable = "TORN" => Pending
    /\ work.pc \in Activating \cup {"RESTORE", "RESTORED", "UNMIGRATE"} /\ Apply => Pending
    /\ work.pc = "UNMIGRATE" => Apply
    /\ work.pc \in Releasing => ~Apply
    /\ work.pc = "STAGED" => Apply
(* The intent and the migration are those of the step under way, and only    *)
(* the steps of an activation leave one behind.                              *)
IntentIsOfStep ==
    /\ intent # Nil /\ intent.release # intent.prev => current \in {intent.release, intent.prev}
    /\ intent # Nil /\ Pending => intent.release = migration.release
    /\ qual # Nil => intent = Nil /\ ~Pending
    /\ work.pc \in Settled \cup Releasing \cup {"STAGED", "COMMITTED"} => intent = Nil /\ ~Pending
    /\ work.pc \in {"MIGRATED", "ACTIVATED"} => intent = Nil
    /\ work.pc \in Activating /\ ~Apply => ~Pending
    /\ work.pc = "MIGRATED" /\ Apply => migration.release = work.q.release
    /\ work.pc \in {"STAGED", "MIGRATED"} /\ Apply => current = work.prev
    /\ work.pc \in {"PROBE", "MIGRATED"} /\ ~Apply => current = work.q.release
    /\ work.pc = "INTENT" => intent # Nil /\ intent.release = work.q.release
    /\ work.pc \in {"INTENT", "PUBLISHED", "RESTORE"} /\ intent # Nil =>
          intent.prev = (IF Apply THEN work.prev ELSE intent.release)
    /\ work.pc = "RECOVERED" => work.release = current
(* A qualification has no receipt but its own, and the root is at the hosted *)
(* run of the last one that settled.                                         *)
QualificationIsOfCurrent ==
    /\ qual # Nil => /\ work.pc \in {"IDLE", "RECONCILE"} \cup Qualifying /\ current = qual.release
                     /\ \A e \in Receipts : e.op = qual.op =>
                           e.outcome = "APPLIED" /\ e.action = "QUALIFY" /\ e.run = qual.run
    /\ work.pc \in Qualifying => qual # Nil
    /\ work.pc \in Qualifying \ {"PROMOTE_ROOT"} => root = qual.run
    /\ work.pc = "FINALIZE" => \E e \in Receipts : e.op = qual.op
    /\ root # 0 /\ qual = Nil => \E e \in AppliedBy("QUALIFY") : e.run = root
OneReceiptEach ==
    \A i, j \in DOMAIN journal :
       i < j /\ journal[i].op = journal[j].op /\ journal[i].op # "RECONCILE" =>
          /\ journal[i].action = "QUALIFY" /\ journal[i].outcome = "APPLIED"
          /\ journal[j].outcome = "FAILED"
(* An operation at work has no receipt yet, and APPLIED names a release that  *)
(* was current with the run it had then.                                     *)
ReceiptsAreTrue ==
    /\ OneReceiptEach
    /\ work.pc \in Working => ~Replayed
    /\ \A e \in Receipts : e.outcome = "APPLIED" =>
          e.run # Absent /\ (e.action \in {"APPLY", "QUALIFY"} => e.release \in tenants)
    /\ work.pc \in {"PUBLISHED", "ACTIVATED", "COMMITTED", "TARGET"} => work.q.release \in tenants
(* Until a call of the adapter fails, an operation never has to undo anything *)
(* that reconcile would have to know of, and state is torn only by reconcile. *)
NothingIsStuck ==
    /\ work.pc \in Activating => mutable # "TORN"
    /\ Pending /\ installed[migration.release] = Absent => migration.release \in remnants
    /\ ~erred => /\ mutable # "LOST"
                 /\ mutable = "TORN" => current # migration.release
                 /\ Pending => installed[migration.release] # Absent
                 /\ intent # Nil => current \in {intent.release, intent.prev}
                 /\ work.pc \in Undoing => intent = Nil /\ ~Pending
UpdateInv ==
    /\ NothingIsStuck /\ UpdaterTypes /\ ReleasesAreThere /\ StateIsMendable /\ IntentIsOfStep
    /\ QualificationIsOfCurrent /\ ReceiptsAreTrue

(* A step to b of the operation under way, which writes no receipt.          *)
MovesTo(b) ==
    /\ DOMAIN work' = {"pc", "q", "release", "prev"} /\ work'.pc = b
    /\ work'.q = work.q /\ work'.release \in AnyRelease /\ work'.prev = work.prev
    /\ journal' = journal /\ Receipts' = Receipts

LEMMA RequestsAre ==
    ASSUME NEW q \in UpdateRequests
    PROVE  q.release \in Releases /\ q.run \in Nat /\ q.op # "NIL" /\ q.op # "RECONCILE" /\ q # Nil
BY UpdaterAssumption DEF Nil

LEMMA UpdateInvInit == UpdaterInit => UpdateInv
<1> SUFFICES ASSUME UpdaterInit PROVE UpdateInv
  OBVIOUS
<1>1. /\ DOMAIN journal = {} /\ journal \in Seq(Entries) /\ Receipts = {} /\ ~Pending
      /\ installed \in [Releases -> Runs] /\ current \in Releases /\ installed[current] = 0
      /\ work.pc = "IDLE"
  BY UpdaterAssumption DEF UpdaterInit, Receipts, Pending, Runs, Absent, Rest
<1>2. UpdaterTypes
  BY <1>1 DEF UpdaterInit, UpdaterTypes, Rest, Points, AnyRelease, Settled, Working, Releasing, Activating, Undoing
<1>3. ReleasesAreThere /\ StateIsMendable
  BY <1>1 DEF UpdaterInit, ReleasesAreThere, IsThere, StateIsMendable, Absent, Activating, Releasing
<1>4. IntentIsOfStep /\ QualificationIsOfCurrent
  BY <1>1 DEF UpdaterInit, IntentIsOfStep, QualificationIsOfCurrent, Settled, Releasing, Activating, Qualifying
<1>5. ReceiptsAreTrue
  BY <1>1 DEF UpdaterInit, ReceiptsAreTrue, OneReceiptEach, Working, Releasing, Activating, Undoing
<1>6. NothingIsStuck
  BY <1>1 DEF UpdaterInit, NothingIsStuck, Activating, Undoing
<1> QED  BY <1>2, <1>3, <1>4, <1>5, <1>6 DEF UpdateInv

LEMMA ToEffect == ASSUME UpdateInv, NEW b, To(b) PROVE MovesTo(b) /\ erred' = erred
BY DEF To, UpdateInv, UpdaterTypes, Receipts, MovesTo, past

LEMMA ErrsEffect == ASSUME UpdateInv, NEW b, Errs(b) PROVE MovesTo(b) /\ erred' = TRUE /\ UNCHANGED diskVars
BY DEF Errs, Failure, UpdateInv, UpdaterTypes, Receipts, MovesTo

HIDE DEF CommandPoints, LaunchPoints
USE DEF Points, Settled, Working, Releasing, Activating, Undoing, Qualifying

LEMMA ActivatingKeeps == ASSUME UpdateInv, 
           \/ Migrate \/ WriteIntent \/ PublishActive \/ ClearIntent \/ CommitMigration
           \/ RestoreTarget \/ ProbeTarget
    PROVE UpdateInv'
<1>0. /\ UNCHANGED <<qual, installed, remnants, root, erred>> /\ work.q \in UpdateRequests
      /\ \/ /\ work.pc = "STAGED" /\ MovesTo("MIGRATED") /\ UNCHANGED <<current, tenants, intent, mutable>>
            /\ migration' = [op |-> "MIGRATE", release |-> work.q.release, prev |-> current]
         \/ /\ work.pc = "MIGRATED" /\ MovesTo("INTENT") /\ UNCHANGED <<current, tenants, migration, mutable>>
            /\ intent' = [op |-> "ACTIVATE", release |-> work.q.release, prev |-> current]
         \/ /\ \/ work.pc = "INTENT" /\ MovesTo("PUBLISHED")
               \/ work.pc = "TARGET" /\ MovesTo("PROBE")
            /\ current' = work.q.release /\ tenants' = tenants \cup {work.q.release}
            /\ UNCHANGED <<intent, migration, mutable>>
         \/ /\ \/ work.pc = "PUBLISHED" /\ MovesTo("ACTIVATED")
               \/ work.pc = "PROBE" /\ MovesTo("MIGRATED")
            /\ intent' = Nil /\ UNCHANGED <<current, tenants, migration, mutable>>
         \/ /\ work.pc = "ACTIVATED" /\ Apply /\ MovesTo("COMMITTED") /\ UNCHANGED <<current, tenants, intent>>
            /\ migration' = Nil /\ mutable' = IF mutable = "TORN" THEN "LOST" ELSE mutable
  BY ToEffect DEF Migrate, WriteIntent, PublishActive, ClearIntent, CommitMigration, RestoreTarget, ProbeTarget,
     At, Apply, SetMigration, SetIntent, PointTo, Commit, UpdateInv, UpdaterTypes
<1>1. UpdaterTypes'
  BY <1>0, RequestsAre DEF MovesTo, UpdateInv, UpdaterTypes, Runs, Absent
<1>2. ReleasesAreThere'
  BY <1>0, RequestsAre DEF MovesTo, UpdateInv, UpdaterTypes, ReleasesAreThere, IsThere, IntentIsOfStep, StateIsMendable,
           Absent
<1>3. StateIsMendable'
  BY <1>0 DEF MovesTo, UpdateInv, UpdaterTypes, StateIsMendable, Pending, Nil, Apply
<1>4. IntentIsOfStep'
  BY <1>0, RequestsAre DEF MovesTo, UpdateInv, UpdaterTypes, IntentIsOfStep, StateIsMendable,
           QualificationIsOfCurrent, Pending, Nil, Apply
<1>5. QualificationIsOfCurrent'
  BY <1>0, RequestsAre DEF MovesTo, UpdateInv, UpdaterTypes, QualificationIsOfCurrent, AppliedBy, Nil
<1>6. ReceiptsAreTrue'
  BY <1>0 DEF MovesTo, UpdateInv, UpdaterTypes, ReceiptsAreTrue, OneReceiptEach, Replayed
<1>7. NothingIsStuck'
  BY <1>0, RequestsAre DEF MovesTo, UpdateInv, UpdaterTypes, NothingIsStuck, IntentIsOfStep, StateIsMendable,
           ReleasesAreThere, IsThere, QualificationIsOfCurrent, Pending, Nil, Apply, Absent
<1> QED  BY <1>1, <1>2, <1>3, <1>4, <1>5, <1>6, <1>7 DEF UpdateInv

LEMMA UndoingKeeps == ASSUME UpdateInv, Restore \/ Restored \/ Unmigrate \/ Discard PROVE UpdateInv'
<1>0. /\ UNCHANGED <<qual, root, erred>> /\ work.q \in UpdateRequests
      /\ \/ /\ work.pc = "RESTORE" /\ MovesTo("RESTORED")
            /\ current' = work.prev /\ tenants' = tenants \cup {work.prev}
            /\ UNCHANGED <<intent, migration, mutable, installed, remnants>>
         \/ /\ work.pc = "RESTORED" /\ MovesTo(IF Apply THEN "UNMIGRATE" ELSE "FAIL")
            /\ intent' = Nil /\ UNCHANGED <<current, tenants, migration, mutable, installed, remnants>>
         \/ /\ work.pc = "UNMIGRATE" /\ (MovesTo("UNMIGRATE") \/ MovesTo("DISCARD"))
            /\ mutable' \in {mutable, "TORN"} /\ UNCHANGED <<current, tenants, intent, migration, installed, remnants>>
         \/ /\ work.pc = "UNMIGRATE" /\ MovesTo("DISCARD")
            /\ mutable' \in {"WHOLE", "LOST"} /\ migration' = Nil
            /\ UNCHANGED <<current, tenants, intent, installed, remnants>>
         \/ /\ work.pc = "DISCARD" /\ MovesTo("FAIL") /\ UNCHANGED <<current, tenants, intent, migration, mutable>>
            /\ \/ UNCHANGED <<installed, remnants>>
               \/ /\ current # work.q.release /\ remnants' = remnants \cup {work.q.release}
                  /\ \E left \in {installed[work.q.release], Absent} :
                        installed' = [installed EXCEPT ![work.q.release] = left]
  <2>1. UpdaterTypes /\ (work.q \in UpdateRequests \/ work.pc = "IDLE")
    BY DEF UpdateInv, UpdaterTypes
  <2>2. CASE Restore \/ Restored
    BY <2>1, <2>2, ToEffect DEF Restore, Restored, At, Apply, SetIntent, PointTo
  <2>3. CASE Unmigrate
    BY <2>1, <2>3, ToEffect DEF Unmigrate, At, Tear, Mend, diskVars, UpdaterTypes
  <2>4. CASE Discard
    BY <2>1, <2>4, ToEffect DEF Discard, MayDiscard, At, diskVars
  <2> QED  BY <2>2, <2>3, <2>4
<1>1. UpdaterTypes'
  BY <1>0, RequestsAre DEF MovesTo, UpdateInv, UpdaterTypes, Runs, Absent
<1>2. ReleasesAreThere'
  BY <1>0, RequestsAre DEF MovesTo, UpdateInv, UpdaterTypes, ReleasesAreThere, IsThere, IntentIsOfStep, StateIsMendable,
           Absent
<1>3. StateIsMendable'
  BY <1>0 DEF MovesTo, UpdateInv, UpdaterTypes, StateIsMendable, Pending, Nil, Apply
<1>4. IntentIsOfStep'
  BY <1>0, RequestsAre DEF MovesTo, UpdateInv, UpdaterTypes, IntentIsOfStep, StateIsMendable,
           QualificationIsOfCurrent, Pending, Nil, Apply
<1>5. QualificationIsOfCurrent'
  BY <1>0, RequestsAre DEF MovesTo, UpdateInv, UpdaterTypes, QualificationIsOfCurrent, AppliedBy, Nil
<1>6. ReceiptsAreTrue'
  BY <1>0 DEF MovesTo, UpdateInv, UpdaterTypes, ReceiptsAreTrue, OneReceiptEach, Replayed
<1>7. NothingIsStuck'
  BY <1>0, RequestsAre DEF MovesTo, UpdateInv, UpdaterTypes, NothingIsStuck, IntentIsOfStep, StateIsMendable,
           ReleasesAreThere, IsThere, QualificationIsOfCurrent, Pending, Nil, Apply, Absent
<1> QED  BY <1>1, <1>2, <1>3, <1>4, <1>5, <1>6, <1>7 DEF UpdateInv

LEMMA QualifyingKeeps == ASSUME UpdateInv, 
           \/ PromoteRoot \/ PromoteInstalled \/ FinalizeQualification
           \/ WriteQualificationIntent \/ RedoQualification
    PROVE UpdateInv'
<1>0. /\ UNCHANGED <<current, tenants, intent, migration, mutable, remnants, erred>> /\ work.q \in UpdateRequests
      /\ \/ work.pc = "PROMOTE_ROOT" /\ MovesTo("PROMOTE_INSTALLED") /\ root' = qual.run
            /\ UNCHANGED <<qual, installed>>
         \/ /\ work.pc = "PROMOTE_INSTALLED" /\ MovesTo("QUALIFIED") /\ UNCHANGED <<qual, root>>
            /\ installed' = [installed EXCEPT ![qual.release] = qual.run]
         \/ /\ work.pc = "FINALIZE" /\ MovesTo("START") /\ UNCHANGED <<installed, root>>
            /\ qual' = Nil
         \/ /\ work.pc = "START" /\ ~Replayed /\ current = work.q.release /\ MovesTo("PROMOTE_ROOT")
            /\ UNCHANGED <<installed, root>> /\ qual' = work.q
         \/ /\ work.pc = "RECONCILE" /\ qual # Nil /\ MovesTo("PROMOTE_ROOT")
            /\ UNCHANGED <<installed, root, qual>>
  <2>1. work.q \in UpdateRequests \/ work.pc = "IDLE"
    BY DEF UpdateInv, UpdaterTypes
  <2>2. CASE PromoteRoot \/ PromoteInstalled \/ FinalizeQualification \/ RedoQualification
    BY <2>1, <2>2, ToEffect DEF PromoteRoot, PromoteInstalled, FinalizeQualification, RedoQualification,
       At, SetQual, SetInstalled, diskVars
  <2>3. CASE WriteQualificationIntent
    <3>1. /\ DOMAIN work = {"pc", "q", "release", "prev"} /\ current \in AnyRelease
      BY DEF UpdateInv, UpdaterTypes, AnyRelease
    <3>2. MovesTo("PROMOTE_ROOT") /\ erred' = erred
      BY <2>3, <3>1 DEF WriteQualificationIntent, MovesTo, Receipts, past
    <3> QED  BY <2>1, <2>3, <3>2 DEF WriteQualificationIntent, At, Starts, SetQual
  <2> QED  BY <2>2, <2>3
<1>1. UpdaterTypes'
  BY <1>0, RequestsAre DEF MovesTo, UpdateInv, UpdaterTypes, Runs, Absent, QualificationIsOfCurrent
<1>2. ReleasesAreThere'
  BY <1>0, RequestsAre DEF MovesTo, UpdateInv, UpdaterTypes, ReleasesAreThere, IsThere, IntentIsOfStep, StateIsMendable,
           Absent, QualificationIsOfCurrent
<1>3. StateIsMendable'
  BY <1>0 DEF MovesTo, UpdateInv, UpdaterTypes, StateIsMendable, Pending, Nil, Apply
<1>4. IntentIsOfStep'
  BY <1>0, RequestsAre DEF MovesTo, UpdateInv, UpdaterTypes, IntentIsOfStep, StateIsMendable,
           QualificationIsOfCurrent, Pending, Nil, Apply
<1>5. QualificationIsOfCurrent'
  BY <1>0, RequestsAre DEF MovesTo, UpdateInv, UpdaterTypes, QualificationIsOfCurrent, AppliedBy, Replayed, Nil
<1>6. ReceiptsAreTrue'
  BY <1>0 DEF MovesTo, UpdateInv, UpdaterTypes, ReceiptsAreTrue, OneReceiptEach, Replayed, QualificationIsOfCurrent
<1>7. NothingIsStuck'
  BY <1>0, RequestsAre DEF MovesTo, UpdateInv, UpdaterTypes, NothingIsStuck, IntentIsOfStep, StateIsMendable,
           ReleasesAreThere, IsThere, QualificationIsOfCurrent, Pending, Nil, Apply, Absent
<1> QED  BY <1>1, <1>2, <1>3, <1>4, <1>5, <1>6, <1>7 DEF UpdateInv

LEMMA LookingKeeps == ASSUME UpdateInv, NothingPending \/ CheckFails PROVE UpdateInv'
<1>0. /\ UNCHANGED <<current, tenants, intent, migration, mutable, qual, installed, remnants, root, erred>>
      /\ \/ /\ work.pc = "RECONCILE" /\ qual = Nil /\ intent = Nil /\ ~Pending /\ MovesTo("START")
         \/ work.pc = "STAGED" /\ MovesTo("DISCARD")
         \/ work.pc = "PROBE" /\ MovesTo("RESTORE")
  BY ToEffect DEF NothingPending, CheckFails, At, diskVars
<1>1. UpdaterTypes'
  BY <1>0, RequestsAre DEF MovesTo, UpdateInv, UpdaterTypes, Runs, Absent
<1>2. ReleasesAreThere'
  BY <1>0, RequestsAre DEF MovesTo, UpdateInv, UpdaterTypes, ReleasesAreThere, IsThere, IntentIsOfStep, StateIsMendable,
           Absent
<1>3. StateIsMendable'
  BY <1>0 DEF MovesTo, UpdateInv, UpdaterTypes, StateIsMendable, Pending, Nil, Apply
<1>4. IntentIsOfStep'
  BY <1>0, RequestsAre DEF MovesTo, UpdateInv, UpdaterTypes, IntentIsOfStep, StateIsMendable,
           QualificationIsOfCurrent, Pending, Nil, Apply
<1>5. QualificationIsOfCurrent'
  BY <1>0, RequestsAre DEF MovesTo, UpdateInv, UpdaterTypes, QualificationIsOfCurrent, AppliedBy, Nil
<1>6. ReceiptsAreTrue'
  BY <1>0 DEF MovesTo, UpdateInv, UpdaterTypes, ReceiptsAreTrue, OneReceiptEach, Replayed
<1>7. NothingIsStuck'
  BY <1>0, RequestsAre DEF MovesTo, UpdateInv, UpdaterTypes, NothingIsStuck, IntentIsOfStep, StateIsMendable,
           ReleasesAreThere, IsThere, QualificationIsOfCurrent, Pending, Nil, Apply, Absent
<1> QED  BY <1>1, <1>2, <1>3, <1>4, <1>5, <1>6, <1>7 DEF UpdateInv

LEMMA FailsKeeps == ASSUME UpdateInv, AdapterFails \/ OwnFails PROVE UpdateInv'
<1>0. /\ UNCHANGED diskVars /\ erred' = TRUE
      /\ \/ work.pc \in Activating /\ MovesTo("RESTORE")
         \/ work.pc = "MIGRATED" /\ MovesTo("DISCARD")
         \/ work.pc \in {"RESTORE", "RESTORED"} /\ MovesTo(IF Apply THEN "UNMIGRATE" ELSE "FAIL")
         \/ work.pc = "UNMIGRATE" /\ MovesTo("DISCARD")
         \/ work.pc \in {"DISCARD", "TARGET", "PROBE"} /\ MovesTo("FAIL")
         \/ work.pc \in Qualifying /\ MovesTo("PROMOTE_ROOT")
  <2>1. CASE AdapterFails
    BY <2>1, ErrsEffect DEF AdapterFails, At
  <2>2. CASE OwnFails
    BY <2>2 DEF OwnFails, Failure, MovesTo, Receipts, AnyRelease, UpdateInv, UpdaterTypes
  <2> QED  BY <2>1, <2>2
<1>1. UpdaterTypes'
  BY <1>0 DEF MovesTo, UpdateInv, UpdaterTypes, diskVars
<1>2. ReleasesAreThere' /\ StateIsMendable'
  BY <1>0 DEF MovesTo, UpdateInv, UpdaterTypes, ReleasesAreThere, IsThere, StateIsMendable, Pending, Apply, diskVars
<1>3. IntentIsOfStep'
  BY <1>0 DEF MovesTo, UpdateInv, UpdaterTypes, IntentIsOfStep, Pending, Nil, Apply, diskVars
<1>4. QualificationIsOfCurrent'
  BY <1>0 DEF MovesTo, UpdateInv, QualificationIsOfCurrent, AppliedBy, diskVars
<1>5. ReceiptsAreTrue'
  BY <1>0 DEF MovesTo, UpdateInv, UpdaterTypes, ReceiptsAreTrue, OneReceiptEach, Replayed, diskVars
<1>6. NothingIsStuck'
  BY <1>0 DEF MovesTo, UpdateInv, UpdaterTypes, NothingIsStuck, IntentIsOfStep, StateIsMendable,
           Pending, Nil, Apply, diskVars
<1> QED  BY <1>1, <1>2, <1>3, <1>4, <1>5, <1>6 DEF UpdateInv

LEMMA SettlesEffect ==
    ASSUME UpdateInv, NEW b, NEW x, x.release \in Releases, x.prev \in Releases, Settles(b, x)
    PROVE  /\ DOMAIN work' = {"pc", "q", "release", "prev"} /\ work'.pc = b
           /\ work'.q = work.q /\ work'.release = x.release /\ work'.prev = x.prev
           /\ journal' = journal /\ Receipts' = Receipts /\ erred' = erred
BY DEF Settles, UpdateInv, UpdaterTypes, Receipts, past

LEMMA ForwardKeeps == ASSUME UpdateInv, ReconcileForward PROVE UpdateInv'
<1>0. /\ work.pc = "RECONCILE" /\ qual = Nil /\ work'.q = work.q
      /\ DOMAIN work' = {"pc", "q", "release", "prev"} /\ journal' = journal /\ Receipts' = Receipts
      /\ UNCHANGED <<current, qual, installed, remnants, root, tenants, erred>>
      /\ \/ work'.pc = "RECONCILE" /\ Commit /\ UNCHANGED intent /\ work'.prev = work.prev
            /\ work'.release \in AnyRelease /\ Finishes(current)
         \/ /\ work'.pc = "RECOVERED" /\ intent' = Nil /\ ~Pending /\ ~Pending' /\ UNCHANGED mutable
            /\ work'.release = current /\ work'.prev \in Releases
         \/ /\ work'.pc = "RECOVERED" /\ intent = Nil /\ intent' = Nil /\ ~Pending' /\ Commit /\ Finishes(current)
            /\ work'.release = current /\ work'.prev \in Releases
  <2>1. CASE intent # Nil /\ current = intent.release /\ Finishes(current) /\ Commit /\ To("RECONCILE")
    BY <2>1, ToEffect DEF MovesTo, ReconcileForward, At, Commit
  <2>2. CASE intent # Nil /\ current = intent.release /\ ~Finishes(current) /\ SetIntent(Nil) /\ Settles("RECOVERED", intent)
    <3>1. intent.release \in Releases /\ intent.prev \in Releases /\ ~Pending
      BY <2>2 DEF UpdateInv, UpdaterTypes, IntentIsOfStep, Finishes
    <3> QED  BY <2>2, <3>1, SettlesEffect DEF ReconcileForward, At, SetIntent, Pending
  <2>3. CASE intent = Nil /\ Finishes(current) /\ Commit /\ Settles("RECOVERED", migration)
    <3>1. migration.release \in Releases /\ migration.prev \in Releases /\ migration.release = current
      BY <2>3 DEF UpdateInv, UpdaterTypes, Finishes, Pending
    <3> QED  BY <2>3, <3>1, SettlesEffect DEF ReconcileForward, At, Commit, Pending
  <2> QED  BY <2>1, <2>2, <2>3 DEF ReconcileForward
<1>1. UpdaterTypes'
  <2>1. /\ work.q \in UpdateRequests /\ work.release \in AnyRelease /\ work.prev \in AnyRelease
        /\ Releases \subseteq AnyRelease
    BY <1>0 DEF UpdateInv, UpdaterTypes, AnyRelease
  <2>2. /\ work'.release \in AnyRelease /\ work'.prev \in AnyRelease
        /\ work'.pc \in {"RECONCILE", "RECOVERED"} /\ (work'.pc = "RECOVERED" => work'.release \in Releases)
    BY <1>0, <2>1 DEF UpdateInv, UpdaterTypes
  <2>3. intent' \in {intent, Nil} /\ migration' \in {migration, Nil} /\ mutable' \in {"WHOLE", "TORN", "LOST"}
    BY <1>0 DEF UpdateInv, UpdaterTypes, Commit, Pending
  <2> QED  BY <1>0, <2>1, <2>2, <2>3 DEF UpdateInv, UpdaterTypes
<1>2. ReleasesAreThere' /\ StateIsMendable'
  BY <1>0 DEF UpdateInv, UpdaterTypes, ReleasesAreThere, IsThere, StateIsMendable, Commit, Pending, Apply
<1>3. IntentIsOfStep'
  BY <1>0 DEF UpdateInv, IntentIsOfStep, Commit, Pending
<1>4. QualificationIsOfCurrent'
  BY <1>0 DEF UpdateInv, QualificationIsOfCurrent, AppliedBy
<1>5. ReceiptsAreTrue'
  BY <1>0 DEF UpdateInv, ReceiptsAreTrue, OneReceiptEach
<1>6. NothingIsStuck'
  BY <1>0 DEF Commit, Finishes, UpdateInv, UpdaterTypes, NothingIsStuck, IntentIsOfStep, StateIsMendable,
           Pending, Nil, Apply, diskVars
<1> QED  BY <1>1, <1>2, <1>3, <1>4, <1>5, <1>6 DEF UpdateInv

LEMMA BackKeeps == ASSUME UpdateInv, ReconcileBack PROVE UpdateInv'
<1>0. /\ work.pc = "RECONCILE" /\ qual = Nil /\ work'.q = work.q
      /\ DOMAIN work' = {"pc", "q", "release", "prev"} /\ journal' = journal /\ Receipts' = Receipts
      /\ UNCHANGED <<current, qual, installed, remnants, root, tenants, erred>>
      /\ work'.prev \in AnyRelease /\ GoesBack
      /\ \/ work'.pc = "RECONCILE" /\ work'.release \in AnyRelease
         \/ work'.pc = "ABORTED" /\ work'.release \in Releases /\ intent' = Nil /\ ~Pending'
      /\ \/ UNCHANGED <<intent, migration>> /\ Pending /\ mutable' = "TORN"
         \/ UNCHANGED intent /\ Mend /\ mutable # "WHOLE"
         \/ intent' = Nil /\ UNCHANGED <<migration, mutable>>
  <2>1. CASE Pending /\ Tear /\ To("RECONCILE")
    BY <2>1, ToEffect DEF MovesTo, ReconcileBack, At, Tear, UpdateInv, UpdaterTypes
  <2>2. CASE Pending /\ mutable # "WHOLE" /\ Mend /\ intent = Nil /\ Settles("ABORTED", migration)
    <3>1. migration.release \in Releases /\ migration.prev \in Releases
      BY <2>2 DEF UpdateInv, UpdaterTypes, Pending
    <3> QED  BY <2>2, <3>1, SettlesEffect DEF ReconcileBack, At, Mend, Pending, AnyRelease
  <2>3. CASE Pending /\ mutable # "WHOLE" /\ Mend /\ intent # Nil /\ To("RECONCILE")
    BY <2>3, ToEffect DEF MovesTo, ReconcileBack, At, Mend, UpdateInv, UpdaterTypes
  <2>4. CASE ~Pending /\ SetIntent(Nil) /\ Settles("ABORTED", intent)
    <3>1. intent.release \in Releases /\ intent.prev \in Releases
      BY <2>4 DEF UpdateInv, UpdaterTypes, ReconcileBack, GoesBack
    <3> QED  BY <2>4, <3>1, SettlesEffect DEF ReconcileBack, At, SetIntent, Pending, AnyRelease
  <2> QED  BY <2>1, <2>2, <2>3, <2>4 DEF ReconcileBack
<1>1. UpdaterTypes'
  <2>1. work.q \in UpdateRequests /\ work.release \in AnyRelease /\ Releases \subseteq AnyRelease
    BY <1>0 DEF UpdateInv, UpdaterTypes, AnyRelease
  <2>2. /\ work'.release \in AnyRelease
        /\ work'.pc \in {"RECONCILE", "ABORTED"} /\ (work'.pc = "ABORTED" => work'.release \in Releases)
    BY <1>0, <2>1
  <2>3. intent' \in {intent, Nil} /\ migration' \in {migration, Nil} /\ mutable' \in {"WHOLE", "TORN", "LOST"}
    BY <1>0 DEF UpdateInv, UpdaterTypes, Mend
  <2> QED  BY <1>0, <2>1, <2>2, <2>3 DEF UpdateInv, UpdaterTypes
<1>2. ReleasesAreThere' /\ StateIsMendable'
  BY <1>0 DEF UpdateInv, UpdaterTypes, ReleasesAreThere, IsThere, StateIsMendable, Mend, Pending, Apply
<1>3. IntentIsOfStep'
  BY <1>0 DEF UpdateInv, IntentIsOfStep, Mend, Pending
<1>4. QualificationIsOfCurrent'
  BY <1>0 DEF UpdateInv, QualificationIsOfCurrent, AppliedBy
<1>5. ReceiptsAreTrue'
  BY <1>0 DEF UpdateInv, ReceiptsAreTrue, OneReceiptEach
<1>6. NothingIsStuck'
  BY <1>0 DEF Mend, GoesBack, UpdateInv, UpdaterTypes, NothingIsStuck, IntentIsOfStep, StateIsMendable,
           Pending, Nil, Apply, diskVars
<1> QED  BY <1>1, <1>2, <1>3, <1>4, <1>5, <1>6 DEF UpdateInv

LEMMA BeginRestKeeps ==
    ASSUME UpdateInv, UNCHANGED <<diskVars, journal, erred>>,
           \/ work' = Rest
           \/ \E q \in UpdateRequests : work' = [Rest EXCEPT !.pc = "RECONCILE", !.q = q]
    PROVE  UpdateInv'
<1>0. /\ DOMAIN work' = {"pc", "q", "release", "prev"} /\ Receipts' = Receipts
      /\ work'.release \in AnyRelease /\ work'.prev \in AnyRelease
      /\ \/ work'.pc = "IDLE" /\ work' = Rest
         \/ work'.pc = "RECONCILE" /\ work'.q \in UpdateRequests
  <2>1. CASE work' = Rest
    BY <2>1 DEF Rest, AnyRelease, Receipts
  <2>2. CASE \E q \in UpdateRequests : work' = [Rest EXCEPT !.pc = "RECONCILE", !.q = q]
    <3>1. PICK q \in UpdateRequests : work' = [Rest EXCEPT !.pc = "RECONCILE", !.q = q]
      BY <2>2
    <3>2. /\ DOMAIN work' = {"pc", "q", "release", "prev"} /\ work'.pc = "RECONCILE" /\ work'.q = q
          /\ work'.release = NoRelease /\ work'.prev = NoRelease
      BY <3>1 DEF Rest
    <3>3. Receipts' = Receipts
      BY DEF Receipts
    <3>4. NoRelease \in AnyRelease
      BY DEF AnyRelease
    <3> QED  BY <3>2, <3>3, <3>4
  <2> QED  BY <2>1, <2>2
<1>1. UpdaterTypes'
  BY <1>0 DEF UpdateInv, UpdaterTypes, diskVars
<1>2. ReleasesAreThere' /\ StateIsMendable'
  BY <1>0 DEF UpdateInv, ReleasesAreThere, IsThere, StateIsMendable, Pending, diskVars
<1>3. IntentIsOfStep'
  BY <1>0 DEF UpdateInv, IntentIsOfStep, Pending, diskVars
<1>4. QualificationIsOfCurrent'
  BY <1>0 DEF UpdateInv, QualificationIsOfCurrent, AppliedBy, diskVars
<1>5. ReceiptsAreTrue'
  BY <1>0 DEF UpdateInv, ReceiptsAreTrue, OneReceiptEach, diskVars
<1>6. NothingIsStuck'
  BY <1>0 DEF UpdateInv, UpdaterTypes, NothingIsStuck, IntentIsOfStep, StateIsMendable,
           Pending, Nil, Apply, diskVars
<1> QED  BY <1>1, <1>2, <1>3, <1>4, <1>5, <1>6 DEF UpdateInv

\* A receipt is appended; the operation goes on to pc or is over.
LEMMA RecordEffect ==
    ASSUME UpdateInv, NEW e \in Entries, journal' = Append(journal, e),
           e.op = "RECONCILE" \/ \A x \in Receipts : x.op = e.op =>
              x.action = "QUALIFY" /\ x.outcome = "APPLIED" /\ e.outcome = "FAILED"
    PROVE  /\ journal' \in Seq(Entries) /\ Receipts' = Receipts \cup {e}
           /\ OneReceiptEach'
<1>1. journal \in Seq(Entries)
  BY DEF UpdateInv, UpdaterTypes
<1>2. /\ journal' \in Seq(Entries) /\ DOMAIN journal = 1 .. Len(journal) /\ DOMAIN journal' = 1 .. Len(journal) + 1
      /\ Len(journal) \in Nat /\ journal'[Len(journal) + 1] = e
      /\ \A i \in 1 .. Len(journal) : journal'[i] = journal[i]
  BY <1>1
<1>3. Receipts' = Receipts \cup {e}
  BY <1>2 DEF Receipts
<1>4. \A i \in 1 .. Len(journal) : journal[i] \in Receipts
  BY <1>2 DEF Receipts
<1>5. ASSUME NEW i \in DOMAIN journal', NEW j \in DOMAIN journal', i < j,
             journal'[i].op = journal'[j].op, journal'[i].op # "RECONCILE"
      PROVE  /\ journal'[i].action = "QUALIFY" /\ journal'[i].outcome = "APPLIED"
             /\ journal'[j].outcome = "FAILED"
  <2>1. i \in 1 .. Len(journal) /\ journal'[i] = journal[i] /\ journal[i] \in Receipts
    BY <1>2, <1>4, <1>5
  <2>2. CASE j \in 1 .. Len(journal)
    BY <1>2, <1>5, <2>1, <2>2 DEF UpdateInv, ReceiptsAreTrue, OneReceiptEach
  <2>3. CASE j = Len(journal) + 1
    BY <1>2, <1>5, <2>1, <2>3
  <2> QED  BY <1>2, <2>2, <2>3
<1> QED  BY <1>2, <1>3, <1>5 DEF OneReceiptEach

LEMMA AnswerKeeps ==
    ASSUME UpdateInv, NEW o \in {"APPLIED", "FAILED", "BLOCKED", "NOOP"}, Answer(o),
           work.pc \in {"START", "FAIL", "COMMITTED", "ACTIVATED"}, ~Replayed,
           o = "APPLIED" => /\ intent = Nil /\ ~Pending /\ installed[current] # Absent
                            /\ work.q.release \in tenants
    PROVE  UpdateInv'
<1> DEFINE e == [op |-> work.q.op, action |-> work.q.action, release |-> work.q.release,
                 run |-> work.q.run, outcome |-> o, prev |-> work.prev]
<1>1. work.q \in UpdateRequests /\ work.prev \in AnyRelease
  BY DEF UpdateInv, UpdaterTypes
<1>2. work.q.release \in Releases /\ work.q.run \in Nat /\ work.q.op # "RECONCILE"
  BY <1>1, RequestsAre
<1>3. e \in Entries
  BY <1>1, <1>2 DEF Entries, Runs
<1>4. journal' = Append(journal, e) /\ work' = Rest /\ UNCHANGED <<diskVars, erred>>
  BY DEF Answer, Record, past
<1>5. \A x \in Receipts : x.op # e.op
  BY DEF Replayed
<1>6. /\ journal' \in Seq(Entries) /\ Receipts' = Receipts \cup {e}
      /\ OneReceiptEach'
  BY <1>3, <1>4, <1>5, RecordEffect DEF OneReceiptEach
<1>7. /\ DOMAIN work' = {"pc", "q", "release", "prev"} /\ work'.pc = "IDLE"
      /\ work'.release \in AnyRelease /\ work'.prev \in AnyRelease /\ work' = Rest
  BY <1>4 DEF Rest, AnyRelease
<1>8. /\ e.op = work.q.op /\ e.action = work.q.action /\ e.release = work.q.release
      /\ e.run = work.q.run /\ e.outcome = o
  OBVIOUS
<1>9. qual = Nil
  BY DEF UpdateInv, QualificationIsOfCurrent
<1> HIDE DEF e
<1>a. UpdaterTypes'
  BY <1>4, <1>6, <1>7 DEF UpdateInv, UpdaterTypes, diskVars
<1>b. ReleasesAreThere' /\ StateIsMendable'
  BY <1>4, <1>7 DEF UpdateInv, ReleasesAreThere, IsThere, StateIsMendable, Pending, diskVars
<1>c. IntentIsOfStep'
  BY <1>4, <1>7 DEF UpdateInv, IntentIsOfStep, Pending, diskVars
<1>d. QualificationIsOfCurrent'
  BY <1>4, <1>6, <1>7, <1>9 DEF UpdateInv, QualificationIsOfCurrent, AppliedBy, diskVars
<1>e. ReceiptsAreTrue'
  <2>1. \A x \in Receipts' : x.outcome = "APPLIED" =>
           x.run # Absent /\ (x.action \in {"APPLY", "QUALIFY"} => x.release \in tenants')
    BY <1>2, <1>4, <1>6, <1>8 DEF UpdateInv, ReceiptsAreTrue, OneReceiptEach, Absent, diskVars
  <2> QED  BY <1>6, <1>7, <2>1 DEF ReceiptsAreTrue, OneReceiptEach
<1>f. NothingIsStuck'
  BY <1>4, <1>7 DEF UpdateInv, NothingIsStuck, Pending, diskVars
<1> QED  BY <1>a, <1>b, <1>c, <1>d, <1>e, <1>f DEF UpdateInv

LEMMA RefusedKeeps ==
    ASSUME UpdateInv, ApplyRefused \/ ApplyActive \/ QualifyAnswers
    PROVE  UpdateInv'
<1>1. PICK o \in {"FAILED", "BLOCKED", "NOOP"} : Answer(o) /\ work.pc = "START" /\ ~Replayed
  BY DEF ApplyRefused, ApplyActive, QualifyAnswers, Starts, At
<1> QED  BY <1>1, AnswerKeeps

LEMMA AppliedKeeps == ASSUME UpdateInv, Applied \/ Fails PROVE UpdateInv'
<1>1. ~Replayed /\ installed[current] # Absent
  BY DEF UpdateInv, ReceiptsAreTrue, OneReceiptEach, ReleasesAreThere, IsThere, Applied, Fails, At
<1>2. CASE Fails
  BY <1>1, <1>2, AnswerKeeps DEF Fails, At
<1>3. CASE Applied
  <2>1. /\ Answer("APPLIED") /\ work.pc \in {"COMMITTED", "ACTIVATED"}
        /\ intent = Nil /\ ~Pending /\ work.q.release \in tenants
    BY <1>3 DEF Applied, At, Apply, UpdateInv, IntentIsOfStep, ReceiptsAreTrue, OneReceiptEach
  <2> QED  BY <1>1, <2>1, AnswerKeeps
<1> QED  BY <1>2, <1>3

LEMMA StageKeeps == ASSUME UpdateInv, Stage PROVE UpdateInv'
<1>0. work.pc = "START" /\ ~Replayed /\ Apply /\ work.q \in UpdateRequests
  BY DEF Stage, Starts, At, Apply, UpdateInv, UpdaterTypes
<1>1. CASE Answer("FAILED")
  BY <1>0, <1>1, AnswerKeeps
<1>2. CASE /\ SetInstalled(work.q.release, work.q.run) /\ current # work.q.release
           /\ work.q.release \notin remnants
           /\ work' = [work EXCEPT !.pc = "STAGED", !.prev = current] /\ UNCHANGED <<journal, past>>
  <2>1. /\ DOMAIN work' = {"pc", "q", "release", "prev"} /\ work'.pc = "STAGED" /\ work'.q = work.q
        /\ work'.release = work.release /\ work'.prev = current /\ journal' = journal
        /\ current \in Releases /\ Receipts' = Receipts
    BY <1>2 DEF UpdateInv, UpdaterTypes, Receipts
  <2>2. /\ current' = current /\ UNCHANGED <<intent, qual, migration, mutable, remnants, root, tenants, erred>>
        /\ installed \in [Releases -> Runs] /\ installed' = [installed EXCEPT ![work.q.release] = work.q.run]
    BY <1>2 DEF SetInstalled, UpdateInv, UpdaterTypes, past
  <2>3. /\ work.q.release \in Releases /\ work.q.run \in Nat /\ work.q.run \in Runs
        /\ installed' \in [Releases -> Runs]
        /\ installed'[work.q.release] # Absent /\ installed'[current] # Absent
        /\ work.q.release \notin remnants /\ current \notin remnants
        /\ \A r \in Releases : installed[r] # Absent => installed'[r] # Absent
    BY <1>0, <1>2, <2>1, <2>2, RequestsAre DEF Runs, Absent, UpdateInv, ReleasesAreThere, IsThere
  <2>4. qual = Nil
    BY <1>0 DEF UpdateInv, QualificationIsOfCurrent
  <2>5. UpdaterTypes'
    <3>1. work'.prev \in AnyRelease /\ work.release \in AnyRelease
      BY <2>1 DEF AnyRelease, UpdateInv, UpdaterTypes
    <3> QED  BY <1>0, <2>1, <2>2, <2>3, <3>1 DEF UpdateInv, UpdaterTypes
  <2>6. ReleasesAreThere' /\ StateIsMendable'
    BY <1>0, <2>1, <2>2, <2>3 DEF UpdateInv, ReleasesAreThere, IsThere, StateIsMendable, Pending, Apply
  <2>7. IntentIsOfStep'
    BY <1>0, <2>1, <2>2 DEF UpdateInv, IntentIsOfStep, Pending, Apply
  <2>8. QualificationIsOfCurrent'
    BY <1>0, <2>1, <2>2, <2>4 DEF UpdateInv, QualificationIsOfCurrent, AppliedBy
  <2>9. ReceiptsAreTrue'
    BY <1>0, <2>1, <2>2 DEF UpdateInv, ReceiptsAreTrue, OneReceiptEach, Replayed
  <2>a. NothingIsStuck'
    <3>1. intent = Nil /\ ~Pending
      BY <1>0 DEF UpdateInv, IntentIsOfStep
    <3> QED  BY <2>1, <2>2, <3>1 DEF UpdateInv, NothingIsStuck, Pending
  <2> QED  BY <2>5, <2>6, <2>7, <2>8, <2>9, <2>a DEF UpdateInv
<1> QED  BY <1>1, <1>2 DEF Stage

\* The latest of some journal entries is one of them.
LEMMA LastIsOne ==
    ASSUME UpdateInv, NEW S, S \subseteq DOMAIN journal, S # {}
    PROVE  Last(S) \in S
<1>1. Len(journal) \in Nat /\ DOMAIN journal = 1 .. Len(journal)
  BY DEF UpdateInv, UpdaterTypes
<1> DEFINE D == {Len(journal) - i : i \in S}
<1>2. D \subseteq Nat /\ D # {}
  BY <1>1
<1>3. PICK d \in D : \A n \in D : ~(<<n, d>> \in OpToRel(<, Nat))
  <2> HIDE DEF D
  <2> QED  BY <1>2, WFMin, NatLessThanWellFounded
<1>4. PICK i \in S : d = Len(journal) - i
  OBVIOUS
<1>5. \A j \in S : j =< i
  <2> SUFFICES ASSUME NEW j \in S, ~(j =< i) PROVE FALSE
    OBVIOUS
  <2>1. i \in 1 .. Len(journal) /\ j \in 1 .. Len(journal)
    BY <1>1
  <2>2. Len(journal) - j \in D /\ Len(journal) - j \in Nat /\ d \in Nat /\ Len(journal) - j < d
    BY <1>1, <1>4, <2>1
  <2> HIDE DEF D
  <2>3. <<Len(journal) - j, d>> \in OpToRel(<, Nat)
    BY <2>2 DEF OpToRel
  <2> QED  BY <1>3, <2>2, <2>3
<1> QED  BY <1>5 DEF Last

LEMMA RollbackKeeps == ASSUME UpdateInv, RollbackBegins PROVE UpdateInv'
<1>0. work.pc = "START" /\ ~Replayed /\ ~Apply /\ work.q \in UpdateRequests
  BY DEF RollbackBegins, Starts, At, Apply, UpdateInv, UpdaterTypes
<1>1. CASE \E o \in {"NOOP", "BLOCKED", "FAILED"} : Answer(o)
  BY <1>0, <1>1, AnswerKeeps
<1>2. CASE /\ Expected(work.q.release) # {}
           /\ journal[Last(Expected(work.q.release))].run = installed[work.q.release]
           /\ work' = [work EXCEPT !.pc = "TARGET", !.prev = current]
           /\ work.q.release \notin remnants /\ UNCHANGED <<diskVars, journal, past>>
  <2>1. /\ DOMAIN work' = {"pc", "q", "release", "prev"} /\ work'.pc = "TARGET" /\ work'.q = work.q
        /\ work'.release = work.release /\ work'.prev = current /\ journal' = journal
        /\ current \in Releases /\ Receipts' = Receipts
    BY <1>2 DEF UpdateInv, UpdaterTypes, Receipts
  <2>2. installed[work.q.release] # Absent /\ work.q.release \in tenants
    <3>1. Expected(work.q.release) \subseteq DOMAIN journal
      BY DEF Expected, History, QualifiedBefore
    <3>2. PICK i \in Expected(work.q.release) : journal[i].run = installed[work.q.release]
      BY <1>2, <3>1, LastIsOne
    <3>3. /\ journal[i] \in Receipts /\ journal[i].outcome = "APPLIED"
          /\ journal[i].action \in {"APPLY", "QUALIFY"} /\ journal[i].release = work.q.release
      BY <3>1, <3>2 DEF Expected, History, QualifiedBefore, Receipts
    <3> QED  BY <3>2, <3>3 DEF UpdateInv, ReceiptsAreTrue, OneReceiptEach
  <2>3. UNCHANGED <<current, intent, qual, migration, mutable, installed, remnants, root, tenants, erred>>
    BY <1>2 DEF diskVars, past
  <2>4. UpdaterTypes'
    <3>1. work'.prev \in AnyRelease /\ work.release \in AnyRelease
      BY <2>1 DEF AnyRelease, UpdateInv, UpdaterTypes
    <3> QED  BY <1>0, <2>1, <2>3, <3>1 DEF UpdateInv, UpdaterTypes
  <2>5. ReleasesAreThere' /\ StateIsMendable'
    BY <1>0, <1>2, <2>1, <2>2, <2>3 DEF UpdateInv, ReleasesAreThere, IsThere, StateIsMendable, Pending, Apply
  <2>6. IntentIsOfStep'
    BY <1>0, <2>1, <2>3 DEF UpdateInv, IntentIsOfStep, Pending, Apply
  <2>7. QualificationIsOfCurrent'
    BY <1>0, <2>1, <2>3 DEF UpdateInv, QualificationIsOfCurrent, AppliedBy
  <2>8. ReceiptsAreTrue'
    BY <1>0, <2>1, <2>2, <2>3 DEF UpdateInv, ReceiptsAreTrue, OneReceiptEach, Replayed
  <2>9. NothingIsStuck'
    BY <1>0, <2>1, <2>3 DEF UpdateInv, NothingIsStuck, Pending
  <2> QED  BY <2>4, <2>5, <2>6, <2>7, <2>8, <2>9 DEF UpdateInv
<1>3. (\E o \in {"NOOP", "BLOCKED", "FAILED"} : Answer(o))
      \/ /\ Expected(work.q.release) # {}
         /\ journal[Last(Expected(work.q.release))].run = installed[work.q.release]
         /\ work' = [work EXCEPT !.pc = "TARGET", !.prev = current]
         /\ work.q.release \notin remnants /\ UNCHANGED <<diskVars, journal, past>>
  BY DEF RollbackBegins
<1> QED  BY <1>1, <1>2, <1>3

LEMMA ReceiptKeeps == ASSUME UpdateInv, ReconcileReceipt PROVE UpdateInv'
<1>0. /\ work.pc \in {"RECOVERED", "ABORTED"} /\ UNCHANGED diskVars /\ work.q \in UpdateRequests
      /\ work.release \in Releases /\ work.prev \in AnyRelease /\ work.release \in AnyRelease
      /\ installed \in [Releases -> Runs] /\ current \in Releases /\ current \in tenants
      /\ installed[current] # Absent /\ (work.pc = "RECOVERED" => work.release = current)
  BY DEF ReconcileReceipt, UpdateInv, UpdaterTypes, ReleasesAreThere, IsThere, IntentIsOfStep
<1>d. UNCHANGED <<current, intent, qual, migration, mutable, installed, remnants, root, tenants, erred>>
  BY <1>0 DEF diskVars, ReconcileReceipt, past
<1>s. qual = Nil /\ intent = Nil /\ ~Pending
  BY <1>0 DEF UpdateInv, IntentIsOfStep, QualificationIsOfCurrent
<1>1. /\ DOMAIN work' = {"pc", "q", "release", "prev"} /\ work'.pc = "START" /\ work'.q = work.q
      /\ work'.release \in AnyRelease /\ work'.prev = work.prev
      /\ \/ journal' = journal
         \/ \E e \in Entries : /\ journal' = Append(journal, e) /\ e.op = "RECONCILE" /\ e.action = "APPLY"
                               /\ e.outcome = "APPLIED" => e.run # Absent /\ e.release \in tenants
  <2>1. CASE To("START")
    BY <2>1, ToEffect DEF MovesTo
  <2>2. CASE Record("RECONCILE", "APPLY", work.release, installed[work.release],
                    ReconcileOutcome(work.pc), work.prev, "START")
    <3> DEFINE e == [op |-> "RECONCILE", action |-> "APPLY", release |-> work.release,
                     run |-> installed[work.release], outcome |-> ReconcileOutcome(work.pc), prev |-> work.prev]
    <3>1. /\ ReconcileOutcome(work.pc) \in {"APPLIED", "FAILED"} /\ installed[work.release] \in Runs
          /\ ReconcileOutcome(work.pc) = "APPLIED" => installed[work.release] # Absent /\ work.release \in tenants
      BY <1>0 DEF ReconcileOutcome
    <3>2. e \in Entries
      BY <1>0, <3>1 DEF Entries
    <3>3. journal' = Append(journal, e) /\ work' = [work EXCEPT !.pc = "START"]
      BY <2>2 DEF Record
    <3>4. /\ DOMAIN work' = {"pc", "q", "release", "prev"} /\ work'.pc = "START" /\ work'.q = work.q
          /\ work'.release = work.release /\ work'.prev = work.prev
      BY <3>3 DEF UpdateInv, UpdaterTypes
    <3>5. /\ e.op = "RECONCILE" /\ e.action = "APPLY" /\ e.outcome = ReconcileOutcome(work.pc)
          /\ e.run = installed[work.release] /\ e.release = work.release
      OBVIOUS
    <3> HIDE DEF e
    <3> QED  BY <1>0, <3>1, <3>2, <3>3, <3>4, <3>5
  <2> QED  BY <2>1, <2>2 DEF ReconcileReceipt
<1>2. /\ journal' \in Seq(Entries) /\ Receipts \subseteq Receipts' /\ OneReceiptEach'
      /\ \A x \in Receipts' \ Receipts : /\ x.op = "RECONCILE" /\ x.action = "APPLY"
                                         /\ x.outcome = "APPLIED" => x.run # Absent /\ x.release \in tenants
  <2>1. CASE journal' = journal
    BY <2>1 DEF UpdateInv, UpdaterTypes, ReceiptsAreTrue, OneReceiptEach, Receipts
  <2>2. CASE \E e \in Entries : /\ journal' = Append(journal, e) /\ e.op = "RECONCILE" /\ e.action = "APPLY"
                                /\ e.outcome = "APPLIED" => e.run # Absent /\ e.release \in tenants
    <3>1. PICK e \in Entries : /\ journal' = Append(journal, e) /\ e.op = "RECONCILE" /\ e.action = "APPLY"
                               /\ e.outcome = "APPLIED" => e.run # Absent /\ e.release \in tenants
      BY <2>2
    <3>2. journal' \in Seq(Entries) /\ Receipts' = Receipts \cup {e} /\ OneReceiptEach'
      BY <3>1, RecordEffect DEF OneReceiptEach
    <3> QED  BY <3>1, <3>2
  <2> QED  BY <1>1, <2>1, <2>2
<1>3. UpdaterTypes'
  BY <1>0, <1>d, <1>1, <1>2 DEF UpdateInv, UpdaterTypes
<1>4. ReleasesAreThere' /\ StateIsMendable'
  BY <1>d, <1>1 DEF UpdateInv, ReleasesAreThere, IsThere, StateIsMendable, Pending
<1>5. IntentIsOfStep'
  BY <1>d, <1>s, <1>1 DEF IntentIsOfStep, Pending
<1>6. QualificationIsOfCurrent'
  BY <1>0, <1>d, <1>s, <1>1, <1>2 DEF UpdateInv, QualificationIsOfCurrent, AppliedBy
<1>7. ReceiptsAreTrue'
  BY <1>d, <1>1, <1>2 DEF UpdateInv, ReceiptsAreTrue, OneReceiptEach
<1>8. NothingIsStuck'
  BY <1>d, <1>s, <1>1 DEF UpdateInv, NothingIsStuck, Pending
<1> QED  BY <1>3, <1>4, <1>5, <1>6, <1>7, <1>8 DEF UpdateInv

LEMMA QualifiedKeeps == ASSUME UpdateInv, Qualified PROVE UpdateInv'
<1>0. /\ work.pc = "QUALIFIED" /\ UNCHANGED diskVars /\ qual # Nil /\ qual \in UpdateRequests
      /\ work.q \in UpdateRequests /\ work.release \in AnyRelease /\ work.prev \in AnyRelease
      /\ current = qual.release /\ current \in tenants /\ root = qual.run
  BY DEF Qualified, At, UpdateInv, UpdaterTypes, QualificationIsOfCurrent
<1>d. UNCHANGED <<current, intent, qual, migration, mutable, installed, remnants, root, tenants, erred>>
  BY <1>0 DEF diskVars, Qualified, past
<1>q. qual.release \in Releases /\ qual.run \in Nat /\ qual.op # "RECONCILE"
  BY <1>0, RequestsAre
<1>1. CASE (\E e \in Receipts : e.op = qual.op) /\ To("FINALIZE")
  <2>1. MovesTo("FINALIZE")
    BY <1>1, ToEffect
  <2>2. UpdaterTypes'
    BY <1>0, <1>d, <2>1 DEF MovesTo, UpdateInv, UpdaterTypes
  <2>3. ReleasesAreThere' /\ StateIsMendable' /\ IntentIsOfStep' /\ NothingIsStuck'
    BY <1>0, <1>d, <2>1 DEF MovesTo, UpdateInv, ReleasesAreThere, IsThere, StateIsMendable, IntentIsOfStep, NothingIsStuck, Pending
  <2>4. QualificationIsOfCurrent' /\ ReceiptsAreTrue'
    BY <1>0, <1>1, <1>d, <2>1 DEF MovesTo, UpdateInv, QualificationIsOfCurrent, ReceiptsAreTrue, OneReceiptEach, AppliedBy
  <2> QED  BY <2>2, <2>3, <2>4 DEF UpdateInv
<1>2. CASE /\ ~ \E e \in Receipts : e.op = qual.op
           /\ Record(qual.op, "QUALIFY", qual.release, qual.run, "APPLIED", NoRelease, "FINALIZE")
  <2> DEFINE e == [op |-> qual.op, action |-> "QUALIFY", release |-> qual.release, run |-> qual.run,
                   outcome |-> "APPLIED", prev |-> NoRelease]
  <2>1. e \in Entries
    BY <1>0, <1>q DEF Entries, Runs, AnyRelease
  <2>2. journal' = Append(journal, e) /\ work' = [work EXCEPT !.pc = "FINALIZE"]
    BY <1>2 DEF Record
  <2>3. journal' \in Seq(Entries) /\ Receipts' = Receipts \cup {e} /\ OneReceiptEach'
    BY <1>2, <2>1, <2>2, RecordEffect DEF OneReceiptEach
  <2>4. /\ DOMAIN work' = {"pc", "q", "release", "prev"} /\ work'.pc = "FINALIZE" /\ work'.q = work.q
        /\ work'.release = work.release /\ work'.prev = work.prev
    BY <2>2 DEF UpdateInv, UpdaterTypes
  <2>5. /\ e.op = qual.op /\ e.action = "QUALIFY" /\ e.release = qual.release /\ e.run = qual.run
        /\ e.outcome = "APPLIED"
    OBVIOUS
  <2> HIDE DEF e
  <2>6. UpdaterTypes'
    BY <1>0, <1>d, <2>3, <2>4 DEF UpdateInv, UpdaterTypes
  <2>7. ReleasesAreThere' /\ StateIsMendable' /\ IntentIsOfStep' /\ NothingIsStuck'
    BY <1>0, <1>d, <2>4 DEF UpdateInv, ReleasesAreThere, IsThere, StateIsMendable, IntentIsOfStep, NothingIsStuck, Pending
  <2>8. QualificationIsOfCurrent'
    BY <1>0, <1>2, <1>d, <2>3, <2>4, <2>5 DEF UpdateInv, QualificationIsOfCurrent, AppliedBy
  <2>9. ReceiptsAreTrue'
    BY <1>0, <1>d, <1>q, <2>3, <2>4, <2>5 DEF UpdateInv, ReceiptsAreTrue, OneReceiptEach, Absent
  <2> QED  BY <2>6, <2>7, <2>8, <2>9 DEF UpdateInv
<1> QED  BY <1>1, <1>2 DEF Qualified

\* The qualification of the receipt that says APPLIED, whose cleanup failed.
LEMMA CleanupKeeps == ASSUME UpdateInv, CleanupFails PROVE UpdateInv'
<1> DEFINE e == [op |-> qual.op, action |-> "QUALIFY", release |-> qual.release, run |-> qual.run,
                 outcome |-> "FAILED", prev |-> NoRelease]
<1>0. /\ work.pc = "FINALIZE" /\ qual \in UpdateRequests /\ qual # Nil
      /\ root = qual.run /\ current = qual.release /\ intent = Nil /\ ~Pending
      /\ \A x \in Receipts : x.op = qual.op =>
            x.outcome = "APPLIED" /\ x.action = "QUALIFY" /\ x.run = qual.run
      /\ \E x \in Receipts : x.op = qual.op
  BY DEF CleanupFails, At, Own, UpdateInv, UpdaterTypes, QualificationIsOfCurrent, IntentIsOfStep
<1>1. /\ journal' = Append(journal, e) /\ work' = Rest /\ qual' = Nil /\ erred' = TRUE
      /\ UNCHANGED <<current, intent, migration, mutable, installed, remnants, root, tenants>>
  BY DEF CleanupFails, Record, SetQual, Failure
<1>2. e \in Entries
  <2>1. qual.release \in Releases /\ qual.run \in Nat
    BY <1>0, RequestsAre
  <2> QED  BY <1>0, <2>1 DEF Entries, Runs, AnyRelease
<1>3. e.op = qual.op /\ e.outcome = "FAILED"
  OBVIOUS
<1> HIDE DEF e
<1>4. /\ journal' \in Seq(Entries) /\ Receipts' = Receipts \cup {e}
      /\ OneReceiptEach'
  BY <1>0, <1>1, <1>2, <1>3, RecordEffect DEF OneReceiptEach
<1>5. /\ DOMAIN work' = {"pc", "q", "release", "prev"} /\ work'.pc = "IDLE"
      /\ work'.release \in AnyRelease /\ work'.prev \in AnyRelease /\ work' = Rest
  BY <1>1 DEF Rest, AnyRelease
<1>6. UpdaterTypes'
  BY <1>1, <1>4, <1>5 DEF UpdateInv, UpdaterTypes
<1>7. ReleasesAreThere' /\ StateIsMendable' /\ IntentIsOfStep' /\ NothingIsStuck'
  BY <1>0, <1>1, <1>5 DEF UpdateInv, ReleasesAreThere, IsThere, StateIsMendable, IntentIsOfStep, NothingIsStuck, Pending
<1>8. QualificationIsOfCurrent' /\ ReceiptsAreTrue'
  BY <1>0, <1>1, <1>3, <1>4, <1>5 DEF UpdateInv, QualificationIsOfCurrent, ReceiptsAreTrue, OneReceiptEach, AppliedBy
<1> QED  BY <1>6, <1>7, <1>8 DEF UpdateInv

LEMMA UpdateInvNext == UpdateInv /\ [UpdaterNext]_updaterVars => UpdateInv'
<1> SUFFICES ASSUME UpdateInv, [UpdaterNext]_updaterVars PROVE UpdateInv'
  OBVIOUS
<1>1. CASE (\E q \in UpdateRequests : Begin(q)) \/ Replay \/ ReconcileThrows \/ Crash
  <2>1. CASE \E q \in UpdateRequests : Begin(q)
    BY <2>1, BeginRestKeeps DEF Begin, past
  <2>2. CASE Replay \/ ReconcileThrows \/ Crash
    BY <2>2, BeginRestKeeps DEF Replay, ReconcileThrows, Crash, past
  <2> QED  BY <1>1, <2>1, <2>2
<1>2. CASE ReconcileForward \/ ReconcileBack \/ RedoQualification \/ NothingPending \/ ReconcileReceipt
  BY <1>2, ForwardKeeps, BackKeeps, QualifyingKeeps, LookingKeeps, ReceiptKeeps
<1>3. CASE \/ ApplyRefused \/ ApplyActive \/ Stage \/ Migrate
           \/ WriteIntent \/ PublishActive \/ ClearIntent \/ CommitMigration \/ Applied
  BY <1>3, RefusedKeeps, StageKeeps, ActivatingKeeps, AppliedKeeps
<1>4. CASE Restore \/ Restored \/ Unmigrate \/ Discard \/ Fails \/ CheckFails \/ AdapterFails \/ OwnFails
  BY <1>4, UndoingKeeps, AppliedKeeps, LookingKeeps, FailsKeeps
<1>5. CASE RollbackBegins \/ RestoreTarget \/ ProbeTarget
  BY <1>5, RollbackKeeps, ActivatingKeeps
<1>6. CASE \/ QualifyAnswers \/ WriteQualificationIntent \/ PromoteRoot \/ PromoteInstalled
           \/ Qualified \/ FinalizeQualification \/ CleanupFails
  BY <1>6, RefusedKeeps, QualifyingKeeps, QualifiedKeeps, CleanupKeeps
<1>7. CASE UNCHANGED updaterVars
  <2>1. UNCHANGED <<current, intent, qual, migration, mutable, installed, remnants, root, tenants, journal, work, erred>>
    BY <1>7 DEF updaterVars, diskVars, past
  <2>2. Receipts' = Receipts
    BY <2>1 DEF Receipts
  <2> QED  BY <2>1, <2>2 DEF UpdateInv, UpdaterTypes, ReleasesAreThere, IsThere, StateIsMendable, IntentIsOfStep,
             QualificationIsOfCurrent, ReceiptsAreTrue, OneReceiptEach, NothingIsStuck, Pending, Apply, AppliedBy, Replayed
<1> QED  BY <1>1, <1>2, <1>3, <1>4, <1>5, <1>6, <1>7 DEF UpdaterNext

(* However many crashes interrupt updates, rollbacks and qualifications,      *)
(* reconcile can settle what they leave and the mutable state is not lost, as *)
(* long as the state directory is flat and no call of the adapter has failed; *)
(* after a failed call only the intent of a rollback and a migration whose    *)
(* candidate was discarded can be beyond it.  The journal says what happened  *)
(* in every case (reconcile, apply, rollback, finalizeQualification).         *)
THEOREM UpdatesAreSound == UpdaterSpec => []UpdateIsSound
<1>1. UpdateInv => UpdateIsSound
  <2> SUFFICES ASSUME UpdateInv PROVE UpdateIsSound
    OBVIOUS
  <2>1. UpdateIsRecoverable
    <3>1. qual # Nil => current = qual.release
      BY DEF UpdateInv, QualificationIsOfCurrent
    <3>2. IntentDisagrees => erred /\ intent.release = intent.prev
      BY DEF UpdateInv, IntentIsOfStep, NothingIsStuck, IntentDisagrees
    <3>3. NoCandidate => erred /\ migration.release \in remnants
      BY DEF UpdateInv, NothingIsStuck, NoCandidate
    <3>4. Irreconcilable /\ ~nested => IntentDisagrees \/ NoCandidate
      BY <3>1 DEF Irreconcilable
    <3>5. (mutable = "TORN" => Pending) /\ (~erred => mutable # "LOST")
      BY DEF UpdateInv, StateIsMendable, NothingIsStuck
    <3>6. installed[current] # Absent /\ current \notin remnants
      BY DEF UpdateInv, ReleasesAreThere, IsThere
    <3>7. qual # Nil => \A e \in Receipts : e.op = qual.op => e.outcome = "APPLIED"
      BY DEF UpdateInv, QualificationIsOfCurrent
    <3> QED  BY <3>2, <3>3, <3>4, <3>5, <3>6, <3>7 DEF UpdateIsRecoverable
  <2>2. JournalIsTrue
    <3>1. \A e \in AppliedBy("APPLY") : e.release \in tenants
      BY DEF UpdateInv, ReceiptsAreTrue, OneReceiptEach, AppliedBy
    <3> QED  BY <3>1 DEF UpdateInv, JournalIsTrue, ReceiptsAreTrue, OneReceiptEach, QualificationIsOfCurrent, At
  <2> QED  BY <2>1, <2>2 DEF UpdateIsSound
<1> QED  BY <1>1, UpdateInvInit, UpdateInvNext, PTL DEF UpdaterSpec

=============================================================================

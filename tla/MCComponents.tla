---------------------------- MODULE MCComponents ----------------------------
(***************************************************************************)
(* The components that share no state with one another, side by side: a    *)
(* behaviour is one of the component in focus, the others stay as they     *)
(* start.                                                                  *)
(***************************************************************************)
EXTENDS TreeScan, ProcessDrivers, DeviceImport, EvidenceStore, ManagedChange,
        MCUpdater, GitWorkspaces, PluginRegistry, PilotCapture, PilotTask, EngineHost,
        PackageInstall, Adequacy, PilotEvaluation, PilotArchive, CommandVerifier, PilotDraft

VARIABLE focus

allVars == <<scanVars, linuxVars, jobVars, deviceVars, evidenceVars, changeVars,
             updaterVars, workspaceVars, pluginVars, captureVars,
             taskVars, engineVars, packageVars, adequacyVars,
             evaluationVars, pilotArchiveVars, commandVars, draftVars,
             focus>>

MCCauses == [c \in {"timer", "user"} |-> IF c = "timer" THEN "TIMEOUT" ELSE "CANCEL"]
MCJobCauses == [c \in {"user", "policy"} |-> IF c = "user" THEN "CANCEL" ELSE "TIMEOUT"]

Import(op) == [op |-> op, archive |-> "a1", content |-> ContentOf("a1")]
Altered == [op |-> "i2", archive |-> "a1", content |-> [archive |-> "a1", content |-> "altered"]]
MCImports == {Import("i1"), Import("i2"), Altered}
MCDeviceRequests ==
    {[op |-> "i1", profile |-> "p1", policy |-> "pol1", import |-> Import("i1")],
     [op |-> "i2", profile |-> "p1", policy |-> "pol2", import |-> Import("i1")]}

Captured(op, kind, fact, needs) == [op |-> op, kind |-> kind, fact |-> fact, needs |-> needs]
MCOperations == {Captured("m1", "MANAGED", "task1", "NONE"), Captured("q1", "QUICK", "task2", "NONE"),
                 Captured("q2", "QUICK", "task2", "NONE"), Captured("raw", "QUICK", "comparator", "task1"),
                 Captured("ci", "FACT", "ci", "NONE")}

MCDuties == {[t \in Tasks |-> IF t = "t1" THEN "QUICK" ELSE "RAW"], [t \in Tasks |-> "CHANGE"]}

Request(op, kind, payload) == [op |-> op, kind |-> kind, payload |-> payload]
MCEngineRequests ==
    {Request("a", "START", "p"), Request("s1", "SEND", "p"), Request("s1", "SEND", "other"),
     Request("s2", "SEND", "p"), Request("i", "RECORD", "interrupt"), Request("c", "RECORD", "close")}

MCPlanChecks == [c \in {"unit", "lint"} |-> c = "unit"]
MCPlanSteps ==
    [s \in {"gate", "review"} |-> [kind |-> IF s = "gate" THEN "human_gate" ELSE "review", required |-> TRUE]]

FrozenTask(mode, expects) == [mode |-> mode, expects |-> expects]
MCFrozenTasks ==
    [t \in {"q1", "m1", "m2", "m3", "m4"} |->
       CASE t = "q1" -> FrozenTask("QUICK", "PASS") [] t = "m3" -> FrozenTask("MANAGED", "BLOCKED")
         [] OTHER -> FrozenTask("MANAGED", "READY")]
MCInterrupts ==
    [k \in {"k1", "k2", "k3"} |-> CASE k = "k1" -> "m1" [] k = "k2" -> "m2" [] OTHER -> "m3"]
MCPlannedTasks == [t \in {"q1", "m1", "m2"} |-> IF t = "q1" THEN "QUICK" ELSE "MANAGED"]
MCPlannedInterrupts == [k \in {"k1"} |-> "m2"]
MCWriterFacts == [w \in {"v1", "v2", "v3"} |-> IF w = "v3" THEN "other" ELSE "facts"]

Components == {"scan", "linux", "windows", "device", "evidence", "change", "update",
               "workspace", "plugin", "capture", "task", "engine",
               "install", "adequacy", "evaluation", "sealing",
               "command", "draft"}
MCInit ==
    /\ focus \in Components
    /\ ScanInit
    /\ LinuxInit
    /\ JobInit
    /\ DeviceInit
    /\ focus # "device" => policy = [p \in Profiles |-> "ABSENT"]
    /\ EvidenceInit
    /\ ChangeInit
    /\ UpdaterInit
    /\ focus # "update" => nested = FALSE
    /\ WorkspaceInit
    /\ PluginInit
    /\ CaptureInit
    /\ TaskInit
    /\ focus # "task" => duty = CHOOSE d \in Duties : TRUE
    /\ EngineInit
    /\ PackageInit
    /\ focus # "install" => sourceKind = CHOOSE k \in SourceKinds : TRUE
    /\ AdequacyInit
    /\ EvaluationInit
    /\ PilotArchiveInit
    /\ CommandInit
    /\ DraftInit

MCNext ==
    /\ UNCHANGED focus
    /\ \/ /\ focus = "scan" /\ ScanNext
          /\ UNCHANGED <<linuxVars, jobVars, deviceVars, evidenceVars, changeVars,
                         updaterVars, workspaceVars,
                         pluginVars, captureVars, taskVars,
                         engineVars, packageVars,
                         adequacyVars, evaluationVars,
                         pilotArchiveVars, commandVars,
                         draftVars>>
       \/ /\ focus = "linux" /\ LinuxNext
          /\ UNCHANGED <<scanVars, jobVars, deviceVars, evidenceVars, changeVars,
                         updaterVars, workspaceVars,
                         pluginVars, captureVars, taskVars,
                         engineVars, packageVars,
                         adequacyVars, evaluationVars,
                         pilotArchiveVars, commandVars,
                         draftVars>>
       \/ /\ focus = "windows" /\ JobNext
          /\ UNCHANGED <<scanVars, linuxVars, deviceVars, evidenceVars, changeVars,
                         updaterVars, workspaceVars,
                         pluginVars, captureVars, taskVars,
                         engineVars, packageVars,
                         adequacyVars, evaluationVars,
                         pilotArchiveVars, commandVars,
                         draftVars>>
       \/ /\ focus = "device" /\ DeviceNext
          /\ UNCHANGED <<scanVars, linuxVars, jobVars, evidenceVars, changeVars,
                         updaterVars, workspaceVars,
                         pluginVars, captureVars, taskVars,
                         engineVars, packageVars,
                         adequacyVars, evaluationVars,
                         pilotArchiveVars, commandVars,
                         draftVars>>
       \/ /\ focus = "evidence" /\ EvidenceNext
          /\ UNCHANGED <<scanVars, linuxVars, jobVars, deviceVars, changeVars,
                         updaterVars, workspaceVars,
                         pluginVars, captureVars, taskVars,
                         engineVars, packageVars,
                         adequacyVars, evaluationVars,
                         pilotArchiveVars, commandVars,
                         draftVars>>
       \/ /\ focus = "change" /\ ChangeNext
          /\ UNCHANGED <<scanVars, linuxVars, jobVars, deviceVars, evidenceVars,
                         updaterVars, workspaceVars,
                         pluginVars, captureVars, taskVars,
                         engineVars, packageVars,
                         adequacyVars, evaluationVars,
                         pilotArchiveVars, commandVars,
                         draftVars>>
       \/ /\ focus = "update" /\ UpdaterNext
          /\ UNCHANGED <<scanVars, linuxVars, jobVars, deviceVars, evidenceVars,
                         changeVars, workspaceVars,
                         pluginVars, captureVars, taskVars,
                         engineVars, packageVars,
                         adequacyVars, evaluationVars,
                         pilotArchiveVars, commandVars,
                         draftVars>>
       \/ /\ focus = "workspace" /\ WorkspaceNext
          /\ UNCHANGED <<scanVars, linuxVars, jobVars, deviceVars, evidenceVars,
                         changeVars, updaterVars, pluginVars,
                         captureVars, taskVars, engineVars,
                         packageVars, adequacyVars,
                         evaluationVars, pilotArchiveVars,
                         commandVars, draftVars>>
       \/ /\ focus = "plugin" /\ PluginNext
          /\ UNCHANGED <<scanVars, linuxVars, jobVars, deviceVars, evidenceVars,
                         changeVars, updaterVars,
                         workspaceVars, captureVars,
                         taskVars, engineVars, packageVars,
                         adequacyVars, evaluationVars,
                         pilotArchiveVars, commandVars,
                         draftVars>>
       \/ /\ focus = "capture" /\ CaptureNext
          /\ UNCHANGED <<scanVars, linuxVars, jobVars, deviceVars, evidenceVars,
                         changeVars, updaterVars,
                         workspaceVars, pluginVars, taskVars,
                         engineVars, packageVars,
                         adequacyVars, evaluationVars,
                         pilotArchiveVars, commandVars,
                         draftVars>>
       \/ /\ focus = "task" /\ TaskNext
          /\ UNCHANGED <<scanVars, linuxVars, jobVars, deviceVars, evidenceVars,
                         changeVars, updaterVars,
                         workspaceVars, pluginVars,
                         captureVars, engineVars,
                         packageVars, adequacyVars,
                         evaluationVars, pilotArchiveVars,
                         commandVars, draftVars>>
       \/ /\ focus = "engine" /\ EngineNext
          /\ UNCHANGED <<scanVars, linuxVars, jobVars, deviceVars, evidenceVars,
                         changeVars, updaterVars,
                         workspaceVars, pluginVars,
                         captureVars, taskVars, packageVars,
                         adequacyVars, evaluationVars,
                         pilotArchiveVars, commandVars,
                         draftVars>>
       \/ /\ focus = "install" /\ PackageNext
          /\ UNCHANGED <<scanVars, linuxVars, jobVars, deviceVars, evidenceVars,
                         changeVars, updaterVars,
                         workspaceVars, pluginVars,
                         captureVars, taskVars, engineVars,
                         adequacyVars, evaluationVars,
                         pilotArchiveVars, commandVars,
                         draftVars>>
       \/ /\ focus = "adequacy" /\ AdequacyNext
          /\ UNCHANGED <<scanVars, linuxVars, jobVars, deviceVars, evidenceVars,
                         changeVars, updaterVars,
                         workspaceVars, pluginVars,
                         captureVars, taskVars, engineVars,
                         packageVars, evaluationVars,
                         pilotArchiveVars, commandVars,
                         draftVars>>
       \/ /\ focus = "evaluation" /\ EvaluationNext
          /\ UNCHANGED <<scanVars, linuxVars, jobVars, deviceVars, evidenceVars,
                         changeVars, updaterVars,
                         workspaceVars, pluginVars,
                         captureVars, taskVars, engineVars,
                         packageVars, adequacyVars,
                         pilotArchiveVars, commandVars,
                         draftVars>>
       \/ /\ focus = "sealing" /\ PilotArchiveNext
          /\ UNCHANGED <<scanVars, linuxVars, jobVars, deviceVars, evidenceVars,
                         changeVars, updaterVars,
                         workspaceVars, pluginVars,
                         captureVars, taskVars, engineVars,
                         packageVars, adequacyVars,
                         evaluationVars, commandVars,
                         draftVars>>
       \/ /\ focus = "command" /\ CommandNext
          /\ UNCHANGED <<scanVars, linuxVars, jobVars, deviceVars, evidenceVars,
                         changeVars, updaterVars,
                         workspaceVars, pluginVars,
                         captureVars, taskVars, engineVars,
                         packageVars, adequacyVars,
                         evaluationVars, pilotArchiveVars,
                         draftVars>>
       \/ /\ focus = "draft" /\ DraftNext
          /\ UNCHANGED <<scanVars, linuxVars, jobVars, deviceVars, evidenceVars,
                         changeVars, updaterVars,
                         workspaceVars, pluginVars,
                         captureVars, taskVars, engineVars,
                         packageVars, adequacyVars,
                         evaluationVars, pilotArchiveVars,
                         commandVars>>
MCSpec == MCInit /\ [][MCNext]_allVars

=============================================================================

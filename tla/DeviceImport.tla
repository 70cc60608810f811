---------------------------- MODULE DeviceImport ----------------------------
(***************************************************************************)
(* The portable device importer (packages/evidence/src/portable-device.ts):*)
(* under the device lock it fixes what an operation asks for in an intent, *)
(* imports the archive, reconciles or clones the project policy, asks the  *)
(* doctor and the login check, and publishes one receipt per profile.      *)
(*                                                                         *)
(* Its own files are read after an interrupted publication with both links *)
(* in place; the archive store's are not (RunArchive.Exact).               *)
(***************************************************************************)
EXTENDS RunArchive

CONSTANT DeviceRequests   \* [op, profile, policy, import]

ASSUME DeviceAssumption ==
    \A r \in DeviceRequests : r.profile \in Profiles /\ r.policy # "ABSENT" /\ r.import \in Imports

VARIABLES policy,   \* [Profiles -> "ABSENT" or the policy found on the device]
          clones    \* [Profiles -> Int] clones of the policy less rollbacks

deviceVars == <<archiveVars, policy, clones>>

DeviceInit ==
    /\ ArchiveInit
    /\ policy \in [Profiles -> {"ABSENT"} \cup {r.policy : r \in DeviceRequests}]
    /\ clones = [p \in Profiles |-> 0]

DeviceFacts(kind) == {p \in Profiles : Exists(kind, p)}
(* What the operation or the profile is bound to already is what is asked.   *)
BoundTo(kind, r) ==
    \A p \in DeviceFacts(kind) :
        p = r.profile \/ Value(kind, p).request.op = r.op => Value(kind, p).request = r

DeviceTurn(next) == task' = next /\ UNCHANGED <<run, file, stops, policy, clones>>
KeepPolicy == UNCHANGED <<policy, clones>>

(* recordOnce: a receipt with its intent is replayed, an intent is taken up, *)
(* otherwise the intent is written first.                                    *)
DeviceBegins(r) ==
    /\ Doing("IDLE")
    /\ BoundTo("deviceReceipt", r) /\ BoundTo("deviceIntent", r)
    /\ ~Exists("deviceReceipt", r.profile)
    /\ \/ Exists("deviceIntent", r.profile) /\ DeviceTurn([kind |-> "DEVICE_IMPORT", p |-> r])
       \/ /\ Publish("deviceIntent", r.profile, [request |-> r], [kind |-> "DEVICE_IMPORT", p |-> r])
          /\ KeepPolicy

DeviceImports ==
    /\ Doing("DEVICE_IMPORT") /\ MayImport(task.p.import)
    /\ DeviceTurn(Importing(task.p.import, [kind |-> "DEVICE_POLICY", p |-> task.p]))
(* The archive store refuses the import, or its projection.                  *)
DeviceRefused ==
    /\ \/ Doing("DEVICE_IMPORT") /\ ~MayImport(task.p.import)
       \/ Doing("DEVICE_POLICY") /\ ~Projects(task.p.import)
    /\ DeviceTurn(Idle)

\* Mutant: the intent alone says the policy was cloned.
ReconciledStatus_TrustsIntent(r, status) ==
    status = IF policy[r.profile] = r.policy THEN "ABSENT" ELSE "NOT_PROVEN"
(* reconcile tells what is on the device, or that it cannot tell.            *)
ReconciledStatus(r, status) ==
    \/ status = CASE policy[r.profile] = "ABSENT" -> "ABSENT"
                  [] policy[r.profile] = r.policy -> "EXACT"
                  [] OTHER -> "CONFLICT"
    \/ status = "NOT_PROVEN"

(* The policy of the profile is cloned only where reconcile found none.      *)
PolicyStep ==
    /\ Doing("DEVICE_POLICY") /\ Projects(task.p.import)
    /\ \E status \in {"ABSENT", "EXACT", "CONFLICT", "NOT_PROVEN"} :
          /\ ReconciledStatus(task.p, status)
          /\ \/ /\ status # "ABSENT"
                /\ DeviceTurn([kind |-> "DEVICE_READY", p |-> task.p,
                               outcome |-> status, cloned |-> FALSE])
             \/ /\ status = "ABSENT"
                /\ policy' = [policy EXCEPT ![task.p.profile] = task.p.policy]
                /\ clones' = [clones EXCEPT ![task.p.profile] = @ + 1]
                /\ task' = [kind |-> "DEVICE_READY", p |-> task.p,
                            outcome |-> "EXACT", cloned |-> TRUE]
                /\ UNCHANGED <<run, file, stops>>

(* The doctor and the login check are asked only about a policy in place.    *)
ReadinessStep ==
    /\ Doing("DEVICE_READY")
    /\ \E ready \in BOOLEAN :
          /\ ready => task.outcome = "EXACT"
          /\ Publish("deviceReceipt", task.p.profile,
                     [request |-> task.p, policy |-> task.outcome,
                      outcome |-> IF ready THEN "READY" ELSE "NOT_READY"], Idle)
    /\ KeepPolicy
(* The doctor or the login check fails: the policy just cloned goes again.   *)
RollbackStep ==
    /\ Doing("DEVICE_READY") /\ task.cloned /\ stops < MaxStops
    /\ policy' = [policy EXCEPT ![task.p.profile] = "ABSENT"]
    /\ clones' = [clones EXCEPT ![task.p.profile] = @ - 1]
    /\ task' = Idle /\ stops' = stops + 1
    /\ UNCHANGED <<run, file>>

DeviceStep ==
    \/ DeviceImports \/ DeviceRefused \/ PolicyStep \/ ReadinessStep
    \/ (Unlink \/ ImportStep) /\ KeepPolicy
DeviceNext ==
    \/ \E r \in DeviceRequests : DeviceBegins(r)
    \/ DeviceStep \/ RollbackStep
    \/ ArchiveNext /\ KeepPolicy
DeviceSpec == DeviceInit /\ [][DeviceNext]_deviceVars

-----------------------------------------------------------------------------
(* An operation interrupted anywhere and retried clones the policy of its    *)
(* profile once, and never over another policy; a receipt has its intent and *)
(* its archive, and is READY only for a policy that is in place              *)
(* (recordOnce, applyImport).                                                *)
DeviceImportIsExact ==
    \A p \in Profiles :
        /\ clones[p] \in {0, 1}
        /\ Exists("deviceReceipt", p) =>
              LET fact == Value("deviceReceipt", p)
                  q == fact.request.import
              IN  /\ Exists("deviceIntent", p) /\ Value("deviceIntent", p).request = fact.request
                  /\ Exists("import", q.archive) /\ Value("import", q.archive) = q.content
                  /\ fact.policy = "EXACT" => policy[p] = fact.request.policy
                  /\ fact.outcome = "READY" => fact.policy = "EXACT"

-----------------------------------------------------------------------------
(* The importer alone, retried whenever it stopped.                          *)

RetryNext ==
    \/ \E r \in DeviceRequests : DeviceBegins(r)
    \/ DeviceStep \/ RollbackStep
    \/ Stop /\ KeepPolicy
RetrySpec ==
    /\ DeviceInit /\ [][RetryNext]_deviceVars
    /\ WF_deviceVars(DeviceStep)
    /\ \A r \in DeviceRequests : WF_deviceVars(DeviceBegins(r))

(* An interrupted import resumes without manual state editing, at every      *)
(* boundary of an atomic write: once the device intent is durable, the       *)
(* retried operation ends with its receipt.                                  *)
InterruptedImportResumes ==
    \A r \in DeviceRequests :
        Exists("deviceIntent", r.profile) ~> Exists("deviceReceipt", r.profile)
=============================================================================

--------------------------- MODULE DriverContract ---------------------------
(***************************************************************************)
(* What a process driver promises the managed process host                 *)
(* (packages/execution/src/process-platform.ts, relied upon by #finalize   *)
(* and cancel of managed-process-host.ts): it settles once; a session      *)
(* settles TERMINAL only over an empty tree; of the two causes of a        *)
(* termination at most one is ever acknowledged, and the settlement        *)
(* reports it.                                                             *)
(***************************************************************************)
CONSTANT Causes        \* "CANCEL", "TIMEOUT"

VARIABLES tree,        \* "NONE", "LIVE" or "EMPTY"
          report,      \* what start() and the settlement have answered
          acknowledged,\* the causes callers were told are acknowledged
          cause        \* the terminationCause of the settlement

contractVars == <<tree, report, acknowledged, cause>>

ContractInit ==
    /\ tree = "NONE" /\ report = "NONE"
    /\ acknowledged = {} /\ cause = "NONE"

TreeStarts == tree = "NONE" /\ tree' = "LIVE" /\ UNCHANGED <<report, acknowledged, cause>>
TreeEnds == tree = "LIVE" /\ tree' = "EMPTY" /\ UNCHANGED <<report, acknowledged, cause>>

StartAnswers ==
    /\ report = "NONE"
    /\ \/ tree # "NONE" /\ report' = "OPEN"
       \/ report' = "REJECTED"
    /\ UNCHANGED <<tree, acknowledged, cause>>

Acknowledge(c) ==
    /\ report # "NONE" /\ acknowledged \subseteq {c}
    /\ report = "TERMINAL" => cause = c
    /\ acknowledged' = {c}
    /\ UNCHANGED <<tree, report, cause>>

SettleTerminal(c) ==
    /\ report = "OPEN" /\ tree = "EMPTY"
    /\ acknowledged \subseteq {c}
    /\ report' = "TERMINAL" /\ cause' = c
    /\ UNCHANGED <<tree, acknowledged>>
SettleUnreconciled ==
    /\ report = "OPEN"
    /\ report' = "UNRECONCILED"
    /\ UNCHANGED <<tree, acknowledged, cause>>

ContractNext ==
    \/ TreeStarts \/ TreeEnds \/ StartAnswers \/ SettleUnreconciled
    \/ \E c \in Causes \cup {"NONE"} : SettleTerminal(c)
    \/ \E c \in Causes : Acknowledge(c)
ContractSpec == ContractInit /\ [][ContractNext]_contractVars
=============================================================================

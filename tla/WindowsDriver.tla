--------------------------- MODULE WindowsDriver ---------------------------
(***************************************************************************)
(* The Windows process-tree driver (packages/execution/src/windows-job-    *)
(* driver.ts) and its helper (windows-job-helper-source.ts).  The tree is  *)
(* a Job Object that kills its members when the helper's handle closes.    *)
(* The helper owns the timer, and the first cause it applies is the only   *)
(* one: later controls stay in its queue.                                  *)
(***************************************************************************)
EXTENDS Integers, Sequences

CONSTANTS JobCalls,    \* cancel() calls
          JobCauseOf   \* [JobCalls -> {"CANCEL", "TIMEOUT"}]

JobCauses == {"CANCEL", "TIMEOUT"}

ASSUME WindowsAssumption == JobCauseOf \in [JobCalls -> JobCauses]

VARIABLES job,         \* "NONE", "LIVE" or "EMPTY"
          jobDrained,  \* the target's exit and the end of its streams were seen
          host,        \* the helper process
          wdriver,     \* the driver's session object
          wstage,      \* [JobCalls -> how far the call is]
          wcontrols,   \* lines on their way to the helper
          wevents      \* lines on their way to the driver

jobVars == <<job, jobDrained, host, wdriver, wstage, wcontrols, wevents>>
WEv(type, c) == [type |-> type, cause |-> c]
Emit(more) == wevents' = wevents \o more

JobInit ==
    /\ job = "NONE" /\ jobDrained = FALSE
    /\ host = [up |-> TRUE, code |-> -1, cause |-> "NONE", closed |-> FALSE, told |-> "NONE"]
    /\ wdriver = [ready |-> FALSE, failed |-> FALSE, stdin |-> TRUE, start |-> "PENDING",
                  last |-> "NONE", cause |-> "NONE", terminal |-> FALSE, settled |-> "NO"]
    /\ wstage = [c \in JobCalls |-> "IDLE"]
    /\ wcontrols = <<>> /\ wevents = <<>>

-----------------------------------------------------------------------------
(* The job and the helper                                                    *)

JobEnds ==
    /\ job = "LIVE" /\ job' = "EMPTY"
    /\ UNCHANGED <<jobDrained, host, wdriver, wstage, wcontrols, wevents>>
JobDrains ==
    /\ job # "NONE" /\ ~jobDrained /\ jobDrained' = TRUE
    /\ UNCHANGED <<job, host, wdriver, wstage, wcontrols, wevents>>

HelperExits(code) ==
    /\ host' = [host EXCEPT !.up = FALSE, !.code = code]
    /\ job' = IF job = "LIVE" THEN "EMPTY" ELSE job
(* Killed, or an exception: the error line is sent if there is one.          *)
HelperEnds ==
    /\ host.up /\ HelperExits(70)
    /\ Emit(<<>>) \/ Emit(<<WEv("error", "NONE")>>)
    /\ UNCHANGED <<jobDrained, wdriver, wstage, wcontrols>>

RunTarget ==
    /\ host.up /\ job = "NONE"
    /\ job' = "LIVE" /\ Emit(<<WEv("ready", "NONE")>>)
    /\ UNCHANGED <<jobDrained, host, wdriver, wstage, wcontrols>>
ReadInput ==
    /\ host.up /\ ~wdriver.stdin /\ ~host.closed
    /\ host' = [host EXCEPT !.closed = TRUE]
    /\ UNCHANGED <<job, jobDrained, wdriver, wstage, wcontrols, wevents>>

(* The end of one turn of the loop.                                          *)
Turn(h, live, said) ==
    LET now == <<live, h.cause, jobDrained>>
        state == IF now # h.told THEN <<WEv("state", h.cause)>> ELSE <<>>
    IN  IF ~live /\ jobDrained
        THEN /\ host' = [h EXCEPT !.up = FALSE, !.code = 0]
             /\ Emit(said \o state \o <<WEv("terminal", h.cause)>>)
        ELSE host' = [h EXCEPT !.told = now] /\ Emit(said \o state)

(* One turn: at most one cause is applied; terminating an empty job succeeds *)
(* as well.  Its members may take a while to go.                             *)
Loop ==
    /\ host.up /\ job # "NONE"
    /\ job' \in (IF job = "LIVE" THEN {"LIVE", "EMPTY"} ELSE {job})
    /\ LET live == job' = "LIVE" IN
       \/ /\ host.cause = "NONE" /\ wcontrols # <<>>
          /\ wcontrols' = Tail(wcontrols)
          /\ Turn([host EXCEPT !.cause = Head(wcontrols)], live, <<WEv("ack", Head(wcontrols))>>)
       \/ /\ host.cause = "NONE" /\ wcontrols = <<>> /\ host.closed /\ job = "LIVE"
          /\ Turn([host EXCEPT !.cause = "CANCEL"], live, <<>>) /\ UNCHANGED wcontrols
       \/ /\ host.cause = "NONE" /\ wcontrols = <<>> /\ ~host.closed /\ job = "LIVE"  \* the time is up
          /\ Turn([host EXCEPT !.cause = "TIMEOUT"], live, <<WEv("ack", "TIMEOUT")>>) /\ UNCHANGED wcontrols
       \/ /\ host.cause = "NONE" => wcontrols = <<>> /\ ~(host.closed /\ job = "LIVE")
          /\ Turn(host, live, <<>>) /\ UNCHANGED wcontrols
    /\ UNCHANGED <<jobDrained, wdriver, wstage>>

-----------------------------------------------------------------------------
(* The driver                                                                *)

JobSettled == wdriver.settled # "NO"
WFail(d) == [d EXCEPT !.failed = TRUE, !.stdin = FALSE,
                      !.start = IF ~d.ready /\ @ = "PENDING" THEN "REJECTING" ELSE @]
WResolve(c) == [k \in JobCalls |-> IF wstage[k] # "WAIT" THEN wstage[k]
                                   ELSE IF JobCauseOf[k] = c THEN "ACKNOWLEDGED" ELSE "NOT_PROVEN"]

(* A failed session ignores every line.                                      *)
JobReceives ==
    /\ wevents # <<>> /\ ~JobSettled
    /\ wevents' = Tail(wevents)
    /\ LET e == Head(wevents) IN
       \/ wdriver.failed /\ UNCHANGED <<wdriver, wstage>>
       \/ /\ ~wdriver.failed
          /\ \/ e.type = "ready" /\ wdriver.ready
             \/ e.type = "state" /\ ~wdriver.ready
             \/ e.type = "terminal" /\ (~wdriver.ready \/ wdriver.terminal)
             \/ e.type = "error"
          /\ wdriver' = WFail(wdriver) /\ wstage' = WResolve("NONE")
       \/ /\ ~wdriver.failed /\ e.type = "ready" /\ ~wdriver.ready
          /\ wdriver' = [wdriver EXCEPT !.ready = TRUE, !.start = IF @ = "PENDING" THEN "RESOLVED" ELSE @]
          /\ UNCHANGED wstage
       \/ ~wdriver.failed /\ e.type = "state" /\ wdriver.ready /\ UNCHANGED <<wdriver, wstage>>
       \/ /\ ~wdriver.failed /\ e.type = "ack"
          /\ wdriver' = [wdriver EXCEPT !.last = e.cause] /\ wstage' = WResolve(e.cause)
       \/ /\ ~wdriver.failed /\ e.type = "terminal" /\ wdriver.ready /\ ~wdriver.terminal
          /\ wdriver' = [wdriver EXCEPT !.terminal = TRUE, !.cause = e.cause]
          /\ UNCHANGED wstage
    /\ UNCHANGED <<job, jobDrained, host, wcontrols>>

(* launch gives up: the helper is killed, its settlement awaited.            *)
LaunchTimesOut ==
    /\ wdriver.start = "PENDING"
    /\ wdriver' = [wdriver EXCEPT !.start = "REJECTING", !.stdin = FALSE]
    /\ IF host.up THEN HelperExits(70) ELSE UNCHANGED <<host, job>>
    /\ UNCHANGED <<jobDrained, wstage, wcontrols, wevents>>
LaunchRejects ==
    /\ wdriver.start = "REJECTING" /\ JobSettled
    /\ wdriver' = [wdriver EXCEPT !.start = "REJECTED"]
    /\ UNCHANGED <<job, jobDrained, host, wstage, wcontrols, wevents>>

\* Mutant: any acknowledged cause answers every caller.
CancelJob_AsksAgain(c) ==
    /\ wstage[c] = "IDLE" /\ wdriver.start = "RESOLVED"
    /\ wstage' = [wstage EXCEPT ![c] = IF wdriver.last # "NONE" THEN "ACKNOWLEDGED" ELSE "WAIT"]
    /\ wcontrols' = IF wdriver.last # "NONE" THEN wcontrols ELSE Append(wcontrols, JobCauseOf[c])
    /\ UNCHANGED <<job, jobDrained, host, wdriver, wevents>>
CancelJob(c) ==
    /\ wstage[c] = "IDLE" /\ wdriver.start = "RESOLVED"
    /\ LET over == wdriver.failed \/ wdriver.terminal \/ JobSettled
           writable == wdriver.stdin /\ host.up
       IN  \/ /\ over \/ (wdriver.last = "NONE" /\ ~writable)
              /\ wstage' = [wstage EXCEPT ![c] = "NOT_PROVEN"] /\ UNCHANGED wcontrols
           \/ /\ ~over /\ wdriver.last # "NONE"
              /\ wstage' = [wstage EXCEPT ![c] = IF wdriver.last = JobCauseOf[c] THEN "ACKNOWLEDGED" ELSE "NOT_PROVEN"]
              /\ UNCHANGED wcontrols
           \/ /\ ~over /\ wdriver.last = "NONE" /\ writable
              /\ wstage' = [wstage EXCEPT ![c] = "WAIT"]
              /\ wcontrols' = Append(wcontrols, JobCauseOf[c])
    /\ UNCHANGED <<job, jobDrained, host, wdriver, wevents>>
(* The waiter stays registered; its answer is no longer read.                *)
CancelTimesOut(c) ==
    /\ wstage[c] = "WAIT"
    /\ wstage' = [wstage EXCEPT ![c] = "NOT_PROVEN"]
    /\ UNCHANGED <<job, jobDrained, host, wdriver, wcontrols, wevents>>

JobClose ==
    /\ ~host.up /\ wevents = <<>> /\ ~JobSettled
    /\ wdriver' = [wdriver EXCEPT
          !.settled = IF wdriver.terminal /\ host.code = 0 /\ ~wdriver.failed THEN "TERMINAL" ELSE "UNRECONCILED",
          !.start = IF @ = "PENDING" THEN "REJECTING" ELSE @]
    /\ wstage' = WResolve("NONE")
    /\ UNCHANGED <<job, jobDrained, host, wcontrols, wevents>>

JobNext ==
    \/ JobEnds \/ JobDrains \/ HelperEnds \/ RunTarget \/ ReadInput \/ Loop
    \/ JobReceives \/ LaunchTimesOut \/ LaunchRejects \/ JobClose
    \/ \E c \in JobCalls : CancelJob(c) \/ CancelTimesOut(c)
JobSpec == JobInit /\ [][JobNext]_jobVars

-----------------------------------------------------------------------------
JobReport == IF wdriver.start \in {"PENDING", "REJECTING"} THEN "NONE"
             ELSE IF wdriver.start = "REJECTED" THEN "REJECTED"
             ELSE IF JobSettled THEN wdriver.settled ELSE "OPEN"

Promise == INSTANCE DriverContract WITH
                Causes <- JobCauses, tree <- job, report <- JobReport,
                acknowledged <- {JobCauseOf[c] : c \in {k \in JobCalls : wstage[k] = "ACKNOWLEDGED"}},
                cause <- IF JobReport = "TERMINAL" THEN wdriver.cause ELSE "NONE"

(* The Windows driver implements the same contract, with the timer on the    *)
(* helper's side and a job that cannot outlive it.                           *)
WindowsKeepsContract == Promise!ContractSpec
=============================================================================

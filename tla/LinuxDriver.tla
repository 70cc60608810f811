---------------------------- MODULE LinuxDriver ----------------------------
(***************************************************************************)
(* The Linux process-tree driver (packages/execution/src/posix-process-    *)
(* group-driver.ts) and its helper (posix-process-group-helper-source.ts): *)
(* two processes joined by a line of controls one way and a line of events *)
(* the other, over a tree that ends whenever it likes.                     *)
(*                                                                         *)
(* A scan is one step here and tells the truth (module TreeScan says when  *)
(* it does).  Output is left out; the state event keeps only its order.    *)
(***************************************************************************)
EXTENDS Integers, Sequences

CONSTANTS Calls,       \* requests for termination; the driver's own timer is one
          Timer,       \* \in Calls
          CauseOf      \* [Calls -> {"CANCEL", "TIMEOUT"}]

Causes == {"CANCEL", "TIMEOUT"}

ASSUME LinuxAssumption ==
    CauseOf \in [Calls -> Causes] /\ Timer \in Calls /\ CauseOf[Timer] = "TIMEOUT"

VARIABLES ltree,       \* "NONE", "LIVE" or "EMPTY"
          drained,     \* the target's exit and the end of its streams were seen
          helper,      \* the helper process
          driver,      \* the driver's session object
          stage,       \* [Calls -> how far the request for termination is]
          controls,    \* lines on their way to the helper
          events       \* lines on their way to the driver

linuxVars == <<ltree, drained, helper, driver, stage, controls, events>>

LinuxInit ==
    /\ ltree = "NONE" /\ drained = FALSE
    /\ helper = [up |-> TRUE, code |-> -1, spawned |-> FALSE, pc |-> "POLL", cause |-> "NONE",
                 acked |-> FALSE, pending |-> FALSE, fatal |-> FALSE, closed |-> FALSE,
                 scans |-> 0, told |-> "NONE"]
    /\ driver = [ready |-> "NO", failed |-> FALSE, stdin |-> TRUE, start |-> "PENDING",
                 acked |-> FALSE, cause |-> "NONE", terminal |-> FALSE, settled |-> "NO"]
    /\ stage = [c \in Calls |-> "IDLE"]
    /\ controls = <<>> /\ events = <<>>

-----------------------------------------------------------------------------
(* The tree and the death of the helper                                      *)

TargetEnds ==
    /\ ltree = "LIVE" /\ ltree' = "EMPTY"
    /\ UNCHANGED <<drained, helper, driver, stage, controls, events>>
(* The target may exit, its streams closed, and leave descendants running.   *)
TargetDrains ==
    /\ ltree # "NONE" /\ helper.up /\ ~drained /\ drained' = TRUE
    /\ UNCHANGED <<ltree, helper, driver, stage, controls, events>>
HelperDies ==
    /\ helper.up /\ helper' = [helper EXCEPT !.up = FALSE, !.code = 70]
    /\ UNCHANGED <<ltree, drained, driver, stage, controls, events>>

-----------------------------------------------------------------------------
(* The helper                                                                *)

Ev(type, c) == [type |-> type, cause |-> c]
Say(more) == events' = events \o more
Failing == IF helper.fatal THEN <<>> ELSE <<Ev("error", "NONE")>>

StartTarget ==
    /\ helper.up /\ ~helper.spawned /\ ~helper.fatal
    /\ \/ /\ ltree' = "LIVE" /\ helper' = [helper EXCEPT !.spawned = TRUE]
          /\ Say(<<Ev("ready", "NONE")>>)
       \/ /\ helper' = [helper EXCEPT !.fatal = TRUE]
          /\ Say(Failing) /\ UNCHANGED ltree
    /\ UNCHANGED <<drained, driver, stage, controls>>

(* requestTermination of the helper                                          *)
HelperReceives ==
    /\ helper.up /\ helper.spawned /\ controls # <<>>
    /\ controls' = Tail(controls)
    /\ LET c == Head(controls) IN
       \/ helper.fatal /\ UNCHANGED <<helper, events>>
       \/ /\ ~helper.fatal /\ helper.cause \notin {"NONE", c}
          /\ helper' = [helper EXCEPT !.fatal = TRUE] /\ Say(Failing)
       \/ /\ ~helper.fatal /\ helper.cause \in {"NONE", c} /\ helper.acked
          /\ Say(<<Ev("ack", c)>>) /\ UNCHANGED helper
       \/ /\ ~helper.fatal /\ helper.cause = c /\ ~helper.acked
          /\ UNCHANGED <<helper, events>>
       \/ /\ ~helper.fatal /\ helper.cause = "NONE" /\ ~helper.acked
          /\ helper' = [helper EXCEPT !.cause = c, !.scans = 0] /\ UNCHANGED events
    /\ UNCHANGED <<ltree, drained, driver, stage>>

(* A destroyed pipe may take the lines still in it along.                    *)
InputCloses ==
    /\ helper.up /\ ~driver.stdin /\ ~helper.closed
    /\ helper' = [helper EXCEPT !.closed = TRUE]
    /\ controls' = <<>>
    /\ UNCHANGED <<ltree, drained, driver, stage, events>>

Scanned(n) == IF ltree = "LIVE" THEN 0 ELSE IF n < 2 THEN n + 1 ELSE 2

\* Mutant: the exit of the target ends the tree.
Finished_LeaderExited(h) == drained
(* The helper may report the end of the tree.                                *)
Finished(h) == drained /\ h.scans = 2

(* The rest of poll() after the last scan: h is the helper by then, said the *)
(* events sent before.                                                       *)
PollEnd(h, said) ==
    LET missed == h.pending /\ ~h.acked /\ h.scans = 2
        k == [h EXCEPT !.pc = "POLL", !.cause = IF missed THEN "NONE" ELSE @]
        now == <<k.scans = 2, drained, k.cause>>
        state == IF ~k.fatal /\ now # k.told THEN <<Ev("state", "NONE")>> ELSE <<>>
        sent == said \o (IF missed THEN <<Ev("notApplied", "NONE")>> ELSE <<>>) \o state
        last == [k EXCEPT !.told = IF k.fatal THEN @ ELSE now]
    IN  IF ~Finished(k) THEN helper' = last /\ Say(sent)
        ELSE IF k.fatal \/ k.closed
        THEN helper' = [last EXCEPT !.up = FALSE, !.code = 70] /\ Say(sent)
        ELSE helper' = [last EXCEPT !.up = FALSE, !.code = 0] /\ Say(sent \o <<Ev("terminal", "NONE")>>)

PollWaits ==
    /\ helper.up /\ ~helper.spawned /\ (helper.fatal \/ helper.closed)
    /\ helper' = [helper EXCEPT !.up = FALSE, !.code = 70]
    /\ UNCHANGED <<ltree, drained, driver, stage, controls, events>>
(* The scan; the signals are sent in a later step, when there is a reason.   *)
PollScan ==
    /\ helper.up /\ helper.spawned /\ helper.pc = "POLL"
    /\ LET h == [helper EXCEPT !.scans = Scanned(@), !.pending = helper.cause # "NONE" /\ ~helper.acked]
       IN  IF ltree = "LIVE" /\ (h.fatal \/ h.closed \/ h.pending \/ h.acked)
           THEN helper' = [h EXCEPT !.pc = "KILL"] /\ UNCHANGED events
           ELSE PollEnd(h, <<>>)
    /\ UNCHANGED <<ltree, drained, driver, stage, controls>>
PollKill ==
    /\ helper.up /\ helper.pc = "KILL"
    /\ LET hit == ltree = "LIVE"
           acks == helper.pending /\ hit
           h == [helper EXCEPT !.acked = @ \/ acks, !.scans = IF acks THEN 0 ELSE @]
       IN  /\ ltree' \in (IF hit THEN {"LIVE", "EMPTY"} ELSE {ltree})
           /\ PollEnd([h EXCEPT !.scans = IF ltree' = "LIVE" THEN 0 ELSE IF @ < 2 THEN @ + 1 ELSE 2],
                      IF acks THEN <<Ev("ack", h.cause)>> ELSE <<>>)
    /\ UNCHANGED <<drained, driver, stage, controls>>
(* The scan or a signal fails.                                               *)
PollFails ==
    /\ helper.up /\ helper.spawned
    /\ helper' = [helper EXCEPT !.pc = "POLL", !.fatal = TRUE]
    /\ Say(Failing)
    /\ UNCHANGED <<ltree, drained, driver, stage, controls>>
(* poll's timer is unref'd: with its input closed and the target gone there  *)
(* is nothing left to keep the helper's event loop alive.                    *)
PollStarves ==
    /\ helper.up /\ helper.spawned /\ helper.closed /\ drained /\ helper.pc = "POLL"
    /\ helper' = [helper EXCEPT !.up = FALSE, !.code = 0]
    /\ UNCHANGED <<ltree, drained, driver, stage, controls, events>>

-----------------------------------------------------------------------------
(* The driver                                                                *)

Settled == driver.settled # "NO"
Fail(d) == [d EXCEPT !.failed = TRUE, !.stdin = FALSE,
                     !.start = IF d.ready # "YES" /\ @ = "PENDING" THEN "REJECTING" ELSE @]
Resolve(answer) == [c \in Calls |-> IF stage[c] = "WAIT" THEN answer[CauseOf[c]] ELSE stage[c]]
Unanswered == [c \in Causes |-> "NOT_PROVEN"]

ReadyEvent(d) == IF d.ready # "NO" THEN Fail(d) ELSE [d EXCEPT !.ready = "READING"]
StateEvent(d) == IF d.ready # "YES" THEN Fail(d) ELSE d

(* handleEvent: one line.                                                    *)
DriverReceives ==
    /\ events # <<>> /\ ~Settled
    /\ events' = Tail(events)
    /\ LET e == Head(events) IN
       \/ e.type = "ready" /\ driver' = ReadyEvent(driver) /\ UNCHANGED stage
       \/ /\ e.type = "state" /\ driver' = StateEvent(driver)
          /\ stage' = IF driver.ready # "YES" THEN Resolve(Unanswered) ELSE stage
       \/ e.type = "terminal" /\ driver' = [driver EXCEPT !.terminal = TRUE] /\ UNCHANGED stage
       \/ /\ e.type = "ack"
          /\ driver' = [driver EXCEPT !.cause = e.cause, !.acked = TRUE]
          /\ stage' = Resolve([c \in Causes |-> IF c = e.cause THEN "ACKNOWLEDGED" ELSE "NOT_PROVEN"])
       \/ e.type = "notApplied" /\ stage' = Resolve(Unanswered) /\ UNCHANGED driver
       \/ e.type = "error" /\ driver' = Fail(driver) /\ stage' = Resolve(Unanswered)
    /\ UNCHANGED <<ltree, drained, helper, controls>>

(* /proc is read between the ready line and the session being ready.         *)
EstablishIdentity ==
    /\ driver.ready = "READING" /\ ~Settled
    /\ \/ driver' = [driver EXCEPT !.ready = "YES",
                         !.start = IF @ = "PENDING" THEN "RESOLVED" ELSE @]
       \/ ~helper.up /\ driver' = Fail([driver EXCEPT !.ready = "NO"])
    /\ UNCHANGED <<ltree, drained, helper, stage, controls, events>>

(* launch gives up waiting for the session to be ready.                      *)
StartTimesOut ==
    /\ driver.start = "PENDING" /\ driver.ready # "YES"
    /\ driver' = [driver EXCEPT !.start = "REJECTING", !.stdin = FALSE]
    /\ UNCHANGED <<ltree, drained, helper, stage, controls, events>>
StartRejects ==
    /\ driver.start = "REJECTING" /\ Settled
    /\ driver' = [driver EXCEPT !.start = "REJECTED"]
    /\ UNCHANGED <<ltree, drained, helper, stage, controls, events>>

(* cancel() by a caller, or the timer's requestTermination.                  *)
Termination(c) ==
    /\ stage[c] = "IDLE"
    /\ IF c = Timer THEN driver.ready = "YES" /\ ~Settled ELSE driver.start = "RESOLVED"
    /\ \/ /\ c # Timer /\ driver.acked
          /\ stage' = [stage EXCEPT ![c] = IF driver.cause = CauseOf[c] THEN "ACKNOWLEDGED" ELSE "NOT_PROVEN"]
          /\ UNCHANGED <<driver, controls>>
       \/ /\ c = Timer \/ ~driver.acked
          /\ Settled \/ driver.failed \/ ~helper.up
          /\ stage' = [stage EXCEPT ![c] = "NOT_PROVEN"]
          /\ UNCHANGED <<driver, controls>>
       \/ /\ c = Timer \/ ~driver.acked          \* the line cannot be written
          /\ ~Settled /\ (~helper.up \/ ~driver.stdin)
          /\ stage' = [Resolve(Unanswered) EXCEPT ![c] = "NOT_PROVEN"]
          /\ driver' = Fail(driver) /\ UNCHANGED controls
       \/ /\ c = Timer \/ ~driver.acked
          /\ ~Settled /\ helper.up /\ driver.stdin
          /\ stage' = [stage EXCEPT ![c] = "WAIT"]
          /\ controls' = Append(controls, CauseOf[c])
          /\ UNCHANGED driver
    /\ UNCHANGED <<ltree, drained, helper, events>>
AckTimesOut(c) ==
    /\ stage[c] = "WAIT"
    /\ stage' = Resolve(Unanswered)
    /\ driver' = Fail(driver)
    /\ UNCHANGED <<ltree, drained, helper, controls, events>>

(* The settlement is TERMINAL.                                               *)
CanBeTerminal(d) == d.terminal /\ helper.code = 0 /\ ~d.failed

(* The helper is gone and its pipes are read to the end; the group check     *)
(* that follows can only make the settlement worse.  A waiter resolved here  *)
(* fails the protocol after the settlement.                                  *)
Close ==
    /\ ~helper.up /\ events = <<>> /\ ~Settled /\ driver.ready # "READING"
    /\ \E verdict \in {"UNRECONCILED"} \cup (IF CanBeTerminal(driver) THEN {"TERMINAL"} ELSE {}) :
          driver' = [driver EXCEPT !.settled = verdict,
                       !.start = IF @ = "PENDING" THEN "REJECTING" ELSE @]
    /\ stage' = Resolve(Unanswered)
    /\ UNCHANGED <<ltree, drained, helper, controls, events>>

LinuxNext ==
    \/ TargetEnds \/ TargetDrains \/ HelperDies
    \/ StartTarget \/ HelperReceives \/ InputCloses
    \/ PollWaits \/ PollScan \/ PollKill \/ PollFails \/ PollStarves
    \/ DriverReceives \/ EstablishIdentity \/ StartTimesOut \/ StartRejects \/ Close
    \/ \E c \in Calls : Termination(c) \/ AckTimesOut(c)
LinuxSpec == LinuxInit /\ [][LinuxNext]_linuxVars

-----------------------------------------------------------------------------
(* What the host sees of it.                                                 *)
LinuxReport == IF driver.start \in {"PENDING", "REJECTING"} THEN "NONE"
               ELSE IF driver.start = "REJECTED" THEN "REJECTED"
               ELSE IF Settled THEN driver.settled ELSE "OPEN"
LinuxAcknowledged == {CauseOf[c] : c \in {k \in Calls \ {Timer} : stage[k] = "ACKNOWLEDGED"}}

Contract == INSTANCE DriverContract WITH
                tree <- ltree, report <- LinuxReport, acknowledged <- LinuxAcknowledged,
                cause <- IF LinuxReport = "TERMINAL" THEN driver.cause ELSE "NONE"

(* The Linux driver implements the driver contract: whatever the helper, the *)
(* tree, the timer and the callers do, and in whatever order lines arrive, a *)
(* TERMINAL settlement means an empty tree, and an acknowledged cause is the *)
(* only one and the one that is reported.                                    *)
LinuxKeepsContract == Contract!ContractSpec
=============================================================================

---------------------------- MODULE ProcessProofs ----------------------------
(***************************************************************************)
(* What becomes of a command: the receipt of a verification command is     *)
(* about the whole command, for any limit, any amount of output and any    *)
(* order of exit, output and timer; both process-tree drivers keep the     *)
(* contract the process host relies on, for any number of callers; and the *)
(* scan by which the Linux helper takes a tree for empty is wrong only     *)
(* when a process left each of its lists between two reads.                *)
(*                                                                         *)
(* The receipt compares what was kept with what was written when nothing   *)
(* can be written any more.  Two facts carry that back through the run:    *)
(* of each pipe, what was kept and what is still in it is all that was     *)
(* written unless the pipe is marked as cut; and once the verifier is done *)
(* nobody holds a pipe, and the pipes are empty.                           *)
(*                                                                         *)
(* A driver knows of the tree and of the cause only what the helper wrote. *)
(* Its invariant is therefore about the lines on their way: each was true  *)
(* when it was sent and stays true, because a tree that is empty stays so  *)
(* and a helper that has acknowledged a cause never takes another.         *)
(***************************************************************************)
EXTENDS CommandVerifier, TreeScan, ProcessDrivers, SequenceTheorems, TLAPS

CommandTypes ==
    /\ verifier \in [pc : {"FINGERPRINT", "SPAWN", "THROWN", "WAIT", "DONE"}, timedOut : BOOLEAN, blocked : BOOLEAN]
    /\ child \in {"NONE", "RUNNING", "ZERO", "NONZERO", "SIGNALLED"}
    /\ heirs \subseteq Pipes /\ cut \subseteq Pipes
    /\ wrote \in [Pipes -> Nat] /\ unread \in [Pipes -> Nat] /\ kept \in [Pipes -> Nat]
Unborn ==
    /\ verifier.pc \in {"FINGERPRINT", "SPAWN", "THROWN"} => child = "NONE"
    /\ verifier.pc = "WAIT" => child # "NONE"
    /\ child = "NONE" => heirs = {} /\ \A s \in Pipes : wrote[s] = 0
KeptWithinLimit == kept["stdout"] + kept["stderr"] <= OutputLimit
BytesAreAccounted ==
    \A s \in Pipes : /\ kept[s] + unread[s] <= wrote[s]
                     /\ s \in cut <=> kept[s] + unread[s] < wrote[s]
DoneIsOver ==
    verifier.pc = "DONE" => child # "RUNNING" /\ heirs = {} /\ \A s \in Pipes : unread[s] = 0
ReceiptIsOf ==
    receipt # NoReceipt =>
       /\ verifier.pc = "DONE"
       /\ receipt.outcome = "PASS" => child = "ZERO" /\ ~receipt.timedOut
       /\ receipt.outcome = "FAIL" => child \in {"NONZERO", "SIGNALLED"} \/ receipt.timedOut
       /\ receipt.cut = cut /\ \A s \in Pipes : receipt.kept[s] = kept[s]
CommandInv == CommandTypes /\ Unborn /\ KeptWithinLimit /\ BytesAreAccounted /\ DoneIsOver /\ ReceiptIsOf

LEMMA TwoPipes == "stdout" \in Pipes /\ "stderr" \in Pipes /\ \A s \in Pipes : s = "stdout" \/ s = "stderr"
  BY DEF Pipes

LEMMA CommandInvInit == CommandInit => CommandInv
  BY CommandAssumption, TwoPipes
  DEF CommandInit, CommandInv, CommandTypes, Unborn, KeptWithinLimit, BytesAreAccounted, DoneIsOver, ReceiptIsOf,
      CommandAssumption

LEMMA CommandInvImplies == CommandInv => VerdictIsTheCommand
<1> SUFFICES ASSUME CommandInv, receipt # NoReceipt
             PROVE  /\ receipt.outcome = "PASS" => child = "ZERO" /\ ~receipt.timedOut
                    /\ receipt.outcome = "FAIL" => child \in {"NONZERO", "SIGNALLED"} \/ receipt.timedOut
                    /\ receipt.kept["stdout"] + receipt.kept["stderr"] <= OutputLimit
                    /\ \A s \in Pipes : s \in receipt.cut <=> receipt.kept[s] < wrote[s]
  BY DEF VerdictIsTheCommand
<1>1. /\ verifier.pc = "DONE" /\ receipt.cut = cut /\ \A s \in Pipes : receipt.kept[s] = kept[s]
      /\ receipt.outcome = "PASS" => child = "ZERO" /\ ~receipt.timedOut
      /\ receipt.outcome = "FAIL" => child \in {"NONZERO", "SIGNALLED"} \/ receipt.timedOut
  BY DEF CommandInv, ReceiptIsOf
<1>2. receipt.kept["stdout"] + receipt.kept["stderr"] <= OutputLimit
  BY <1>1, TwoPipes DEF CommandInv, KeptWithinLimit
<1>3. ASSUME NEW s \in Pipes PROVE s \in receipt.cut <=> receipt.kept[s] < wrote[s]
  <2>1. unread[s] = 0 /\ kept[s] \in Nat /\ (s \in cut <=> kept[s] + unread[s] < wrote[s])
    BY <1>1 DEF CommandInv, CommandTypes, DoneIsOver, BytesAreAccounted
  <2> QED  BY <1>1, <2>1
<1> QED  BY <1>1, <1>2, <1>3

-----------------------------------------------------------------------------
LEMMA FingerprintKeeps == ASSUME CommandInv, Fingerprint PROVE CommandInv'
<1>1. PICK pc \in {"SPAWN", "THROWN"} : verifier' = [verifier EXCEPT !.pc = pc]
  BY DEF Fingerprint
<1>2. /\ verifier.pc = "FINGERPRINT" /\ verifier'.pc = pc
      /\ verifier' \in [pc : {"FINGERPRINT", "SPAWN", "THROWN", "WAIT", "DONE"}, timedOut : BOOLEAN, blocked : BOOLEAN]
  BY <1>1 DEF Fingerprint, VerifierAt, CommandInv, CommandTypes
<1> QED  BY <1>1, <1>2 DEF Fingerprint, CommandInv, CommandTypes, Unborn, KeptWithinLimit, BytesAreAccounted,
                           DoneIsOver, ReceiptIsOf

LEMMA SpawnKeeps == ASSUME CommandInv, Spawn PROVE CommandInv'
<1>1. /\ verifier.pc = "SPAWN" /\ child = "NONE" /\ heirs = {} /\ receipt = NoReceipt
      /\ \A s \in Pipes : wrote[s] = 0
      /\ UNCHANGED <<heirs, wrote, unread, kept, cut>>
  BY DEF Spawn, VerifierAt, CommandInv, Unborn, ReceiptIsOf
<1>2. \A s \in Pipes : unread[s] = 0 /\ kept[s] = 0 /\ s \notin cut
  BY <1>1 DEF CommandInv, CommandTypes, BytesAreAccounted
<1>3. KeptWithinLimit' /\ BytesAreAccounted'
  BY <1>1 DEF CommandInv, KeptWithinLimit, BytesAreAccounted
<1>4. CASE child' \in {"RUNNING", "NONZERO"} /\ verifier'.pc = "WAIT" /\ UNCHANGED receipt
           /\ verifier' \in [pc : {"FINGERPRINT", "SPAWN", "THROWN", "WAIT", "DONE"},
                             timedOut : BOOLEAN, blocked : BOOLEAN]
  BY <1>1, <1>3, <1>4 DEF CommandInv, CommandTypes, Unborn, DoneIsOver, ReceiptIsOf
<1>5. CASE verifier' = [verifier EXCEPT !.pc = "DONE", !.blocked = TRUE] /\ UNCHANGED child
           /\ receipt' = [NoReceipt EXCEPT !.outcome = "BLOCKED", !.exit = 127]
  <2>1. /\ verifier' \in [pc : {"FINGERPRINT", "SPAWN", "THROWN", "WAIT", "DONE"},
                          timedOut : BOOLEAN, blocked : BOOLEAN]
        /\ verifier'.pc = "DONE"
    BY <1>5 DEF CommandInv, CommandTypes
  <2>2. receipt'.outcome = "BLOCKED" /\ receipt'.cut = {} /\ \A s \in Pipes : receipt'.kept[s] = 0
    BY <1>5 DEF NoReceipt
  <2>3. cut = {}
    BY <1>2 DEF CommandInv, CommandTypes
  <2>4. CommandTypes' /\ Unborn' /\ DoneIsOver'
    BY <1>1, <1>2, <1>5, <2>1 DEF CommandInv, CommandTypes, Unborn, DoneIsOver
  <2>5. ReceiptIsOf'
    BY <1>1, <1>2, <2>1, <2>2, <2>3 DEF ReceiptIsOf
  <2> QED  BY <1>3, <2>4, <2>5 DEF CommandInv
<1>6. /\ [verifier EXCEPT !.pc = "WAIT"] \in [pc : {"FINGERPRINT", "SPAWN", "THROWN", "WAIT", "DONE"},
                                              timedOut : BOOLEAN, blocked : BOOLEAN]
      /\ [verifier EXCEPT !.pc = "WAIT", !.blocked = TRUE] \in
            [pc : {"FINGERPRINT", "SPAWN", "THROWN", "WAIT", "DONE"}, timedOut : BOOLEAN, blocked : BOOLEAN]
      /\ [verifier EXCEPT !.pc = "WAIT"].pc = "WAIT" /\ [verifier EXCEPT !.pc = "WAIT", !.blocked = TRUE].pc = "WAIT"
  BY DEF CommandInv, CommandTypes
<1> QED  BY <1>4, <1>5, <1>6 DEF Spawn

LEMMA WriteKeeps == ASSUME CommandInv, NEW s \in Pipes, Write(s) PROVE CommandInv'
<1>1. /\ Holds(s) /\ UNCHANGED <<verifier, child, heirs, kept, cut, receipt>>
      /\ wrote' = [wrote EXCEPT ![s] = wrote[s] + 1] /\ unread' = [unread EXCEPT ![s] = unread[s] + 1]
  BY DEF Write
<1>2. child # "NONE" /\ verifier.pc # "DONE"
  BY <1>1 DEF Holds, CommandInv, Unborn, DoneIsOver
<1>3. CommandTypes' /\ KeptWithinLimit' /\ Unborn' /\ DoneIsOver' /\ ReceiptIsOf'
  BY <1>1, <1>2 DEF CommandInv, CommandTypes, KeptWithinLimit, Unborn, DoneIsOver, ReceiptIsOf
<1>4. BytesAreAccounted'
  BY <1>1 DEF CommandInv, CommandTypes, BytesAreAccounted
<1> QED  BY <1>3, <1>4 DEF CommandInv

LEMMA EndsKeeps == ASSUME CommandInv, CommandEnds PROVE CommandInv'
<1>1. /\ child = "RUNNING" /\ child' \in {"ZERO", "NONZERO", "SIGNALLED"} /\ heirs' \subseteq Pipes
      /\ verifier.pc # "DONE" /\ UNCHANGED <<verifier, wrote, unread, kept, cut, receipt>>
  BY DEF CommandEnds, CommandInv, DoneIsOver
<1> QED  BY <1>1 DEF CommandInv, CommandTypes, Unborn, KeptWithinLimit, BytesAreAccounted, DoneIsOver, ReceiptIsOf

LEMMA LetsGoKeeps == ASSUME CommandInv, NEW s \in Pipes, HeirLetsGo(s) PROVE CommandInv'
<1>1. heirs' \subseteq heirs /\ UNCHANGED <<verifier, child, wrote, unread, kept, cut, receipt>>
  BY DEF HeirLetsGo
<1> QED  BY <1>1 DEF CommandInv, CommandTypes, Unborn, KeptWithinLimit, BytesAreAccounted, DoneIsOver, ReceiptIsOf

(* What a chunk adds is no more than the chunk and than the limit leaves.    *)
LEMMA CaptureKeeps == ASSUME CommandInv, NEW s \in Pipes, Capture(s) PROVE CommandInv'
<1>1. PICK n \in 1..unread[s] :
         /\ unread' = [unread EXCEPT ![s] = unread[s] - n]
         /\ kept' = [kept EXCEPT ![s] = kept[s] + Retained(s, n)]
         /\ cut' = IF Retained(s, n) < n THEN cut \cup {s} ELSE cut
  BY DEF Capture
<1>2. verifier.pc = "WAIT" /\ UNCHANGED <<verifier, child, heirs, wrote, receipt>>
  BY DEF Capture, Waiting, VerifierAt
<1>3. /\ unread[s] \in Nat /\ n \in Nat /\ n <= unread[s] /\ kept["stdout"] \in Nat /\ kept["stderr"] \in Nat
      /\ kept["stdout"] + kept["stderr"] <= OutputLimit
  BY TwoPipes DEF CommandInv, CommandTypes, KeptWithinLimit
<1> DEFINE k == Retained(s, n)
<1>4. k \in Nat /\ k <= n /\ kept["stdout"] + kept["stderr"] + k <= OutputLimit
  BY <1>3, CommandAssumption DEF Retained, Smaller, CommandAssumption
<1> HIDE DEF k
<1>5. CommandTypes'
  BY <1>1, <1>2, <1>3, <1>4 DEF k, CommandInv, CommandTypes
<1>6. KeptWithinLimit'
  BY <1>1, <1>3, <1>4, TwoPipes DEF k, CommandInv, CommandTypes, KeptWithinLimit
<1>7. BytesAreAccounted'
  <2> SUFFICES ASSUME NEW x \in Pipes
               PROVE  /\ kept'[x] + unread'[x] <= wrote[x]
                      /\ x \in cut' <=> kept'[x] + unread'[x] < wrote[x]
    BY <1>2 DEF BytesAreAccounted
  <2>1. /\ kept[x] \in Nat /\ unread[x] \in Nat /\ wrote[x] \in Nat /\ kept[x] + unread[x] <= wrote[x]
        /\ x \in cut <=> kept[x] + unread[x] < wrote[x]
    BY DEF CommandInv, CommandTypes, BytesAreAccounted
  <2>2. CASE x # s
    <3>1. kept'[x] = kept[x] /\ unread'[x] = unread[x] /\ (x \in cut' <=> x \in cut)
      BY <1>1, <2>2 DEF CommandInv, CommandTypes
    <3> QED  BY <2>1, <3>1
  <2>3. CASE x = s
    <3>1. kept'[x] = kept[x] + k /\ unread'[x] = unread[x] - n
      BY <1>1, <2>3 DEF k, CommandInv, CommandTypes
    <3>2. x \in cut' <=> x \in cut \/ k < n
      BY <1>1, <2>3 DEF k
    <3> QED  BY <1>3, <1>4, <2>1, <2>3, <3>1, <3>2
  <2> QED  BY <2>2, <2>3
<1>8. Unborn' /\ DoneIsOver' /\ ReceiptIsOf'
  BY <1>2 DEF CommandInv, Unborn, DoneIsOver, ReceiptIsOf
<1> QED  BY <1>5, <1>6, <1>7, <1>8 DEF CommandInv

LEMMA TimeKeeps == ASSUME CommandInv, TimeIsUp PROVE CommandInv'
<1>1. verifier.pc = "WAIT" /\ child # "NONE" /\ UNCHANGED <<wrote, unread, kept, cut, receipt>>
  BY DEF TimeIsUp, Waiting, VerifierAt, CommandInv, Unborn
<1>2. /\ verifier' \in [pc : {"FINGERPRINT", "SPAWN", "THROWN", "WAIT", "DONE"}, timedOut : BOOLEAN, blocked : BOOLEAN]
      /\ verifier'.pc = "WAIT"
  BY <1>1 DEF TimeIsUp, CommandInv, CommandTypes
<1>3. child' \in {"RUNNING", "ZERO", "NONZERO", "SIGNALLED"} /\ heirs' \subseteq Pipes
  BY <1>1 DEF TimeIsUp, CommandInv, CommandTypes
<1>4. CommandTypes' /\ Unborn' /\ DoneIsOver'
  BY <1>1, <1>2, <1>3 DEF CommandInv, CommandTypes, Unborn, DoneIsOver
<1> QED  BY <1>1, <1>4 DEF CommandInv, KeptWithinLimit, BytesAreAccounted, ReceiptIsOf

LEMMA SettleKeeps == ASSUME CommandInv, Settle PROVE CommandInv'
<1>1. /\ verifier.pc = "WAIT" /\ child \in {"ZERO", "NONZERO", "SIGNALLED"} /\ verifier' = [verifier EXCEPT !.pc = "DONE"]
      /\ UNCHANGED <<child, heirs, wrote, unread, kept, cut>>
  BY DEF Settle, Waiting, VerifierAt, Closed, CommandInv, CommandTypes, Unborn
<1>2. heirs = {} /\ \A s \in Pipes : unread[s] = 0
  BY DEF Settle, Closed, Holds, CommandInv, CommandTypes
<1>3. /\ verifier' \in [pc : {"FINGERPRINT", "SPAWN", "THROWN", "WAIT", "DONE"}, timedOut : BOOLEAN, blocked : BOOLEAN]
      /\ verifier'.pc = "DONE"
  BY <1>1 DEF CommandInv, CommandTypes
<1>4. /\ receipt'.outcome = OutcomeOf(ExitCode) /\ receipt'.timedOut = verifier.timedOut
      /\ receipt'.kept = kept /\ receipt'.cut = cut
  BY DEF Settle
<1>5. /\ receipt'.outcome = "PASS" => child = "ZERO" /\ ~verifier.timedOut
      /\ receipt'.outcome = "FAIL" => child \in {"NONZERO", "SIGNALLED"} \/ verifier.timedOut
  BY <1>1, <1>4 DEF OutcomeOf, ExitCode
<1>6. ReceiptIsOf'
  BY <1>1, <1>3, <1>4, <1>5 DEF ReceiptIsOf
<1>7. CommandTypes' /\ Unborn' /\ DoneIsOver'
  BY <1>1, <1>2, <1>3 DEF CommandInv, CommandTypes, Unborn, DoneIsOver
<1> QED  BY <1>1, <1>6, <1>7 DEF CommandInv, KeptWithinLimit, BytesAreAccounted

LEMMA CommandInvNext == CommandInv /\ [CommandNext]_commandVars => CommandInv'
<1> SUFFICES ASSUME CommandInv, [CommandNext]_commandVars PROVE CommandInv'
  OBVIOUS
<1>1. CASE UNCHANGED commandVars
  BY <1>1 DEF commandVars, CommandInv, CommandTypes, Unborn, KeptWithinLimit, BytesAreAccounted, DoneIsOver, ReceiptIsOf
<1>2. CASE Fingerprint \/ Spawn \/ CommandEnds \/ TimeIsUp \/ Settle
  BY <1>2, FingerprintKeeps, SpawnKeeps, EndsKeeps, TimeKeeps, SettleKeeps
<1>3. ASSUME NEW s \in Pipes, Write(s) \/ HeirLetsGo(s) \/ Capture(s) PROVE CommandInv'
  BY <1>3, WriteKeeps, LetsGoKeeps, CaptureKeeps
<1> QED  BY <1>1, <1>2, <1>3 DEF CommandNext

(* The receipt of a verification command speaks for the whole command: PASS  *)
(* only if it ended by itself, with zero and in time, and a stream that is   *)
(* not called truncated has every byte that was ever written to it           *)
(* (runBoundedProcess).                                                      *)
THEOREM VerdictsAreTheCommand == CommandSpec => []VerdictIsTheCommand
<1>1. CommandInit => CommandInv
  BY CommandInvInit
<1>2. CommandInv /\ [CommandNext]_commandVars => CommandInv'
  BY CommandInvNext
<1>3. CommandInv => VerdictIsTheCommand
  BY CommandInvImplies
<1> QED  BY <1>1, <1>2, <1>3, PTL DEF CommandSpec

-----------------------------------------------------------------------------
(* Both drivers                                                              *)

Trees == {"NONE", "LIVE", "EMPTY"}
Stages == {"IDLE", "WAIT", "ACKNOWLEDGED", "NOT_PROVEN"}

(* The Linux driver                                                          *)

Told == BOOLEAN \X BOOLEAN \X (Causes \cup {"NONE"})
HelperRecords ==
    [up : BOOLEAN, code : Int, spawned : BOOLEAN, pc : {"POLL", "KILL"}, cause : Causes \cup {"NONE"},
     acked : BOOLEAN, pending : BOOLEAN, fatal : BOOLEAN, closed : BOOLEAN, scans : 0..2,
     told : {"NONE"} \cup Told]
DriverRecords ==
    [ready : {"NO", "READING", "YES"}, failed : BOOLEAN, stdin : BOOLEAN,
     start : {"PENDING", "RESOLVED", "REJECTING", "REJECTED"}, acked : BOOLEAN,
     cause : Causes \cup {"NONE"}, terminal : BOOLEAN, settled : {"NO", "UNRECONCILED", "TERMINAL"}]
EventTypes == {"ready", "state", "terminal", "ack", "notApplied", "error"}
(* A line is true when it is sent and stays so.                              *)
TrueLines ==
    {e \in [type : EventTypes, cause : Causes \cup {"NONE"}] :
        /\ e.type = "ack" => helper.acked /\ e.cause = helper.cause
        /\ e.type = "terminal" => ltree = "EMPTY"
        /\ e.type = "ready" => ltree # "NONE"}

HelperTypes == ltree \in Trees /\ drained \in BOOLEAN /\ helper \in HelperRecords
HelperSound ==
    /\ helper.spawned <=> ltree # "NONE"
    /\ helper.pc = "KILL" => helper.spawned /\ (helper.pending => helper.cause # "NONE")
    /\ helper.scans > 0 => ltree = "EMPTY"
    /\ helper.acked => helper.cause # "NONE"
DriverTypes ==
    /\ driver \in DriverRecords
    /\ stage \in [Calls -> Stages]
    /\ controls \in Seq(Causes)
DriverSound ==
    /\ driver.ready # "NO" => ltree # "NONE"
    /\ driver.terminal => ltree = "EMPTY"
    /\ driver.acked => helper.acked /\ driver.cause = helper.cause
CallsSound ==
    \A c \in Calls : /\ stage[c] = "ACKNOWLEDGED" => driver.acked /\ driver.cause = CauseOf[c]
                     /\ c # Timer /\ stage[c] # "IDLE" => driver.start = "RESOLVED"
LinesSound == events \in Seq(TrueLines)
LinuxInv == HelperTypes /\ HelperSound /\ DriverTypes /\ DriverSound /\ CallsSound /\ LinesSound

(* What the helper does never takes back what it has said.                   *)
Onward ==
    /\ ltree = "EMPTY" => ltree' = "EMPTY"
    /\ ltree # "NONE" => ltree' # "NONE"
    /\ helper.acked => helper'.acked /\ helper'.cause = helper.cause
    /\ UNCHANGED <<driver, stage>>

LEMMA LinesGrow ==
  ASSUME LinuxInv, HelperTypes', HelperSound', Onward, controls' \in Seq(Causes),
         \E more \in Seq(TrueLines') : events' = events \o more
  PROVE  LinuxInv'
<1>1. TrueLines \subseteq TrueLines'
  BY DEF TrueLines, Onward, LinuxInv, HelperTypes
<1>2. PICK more \in Seq(TrueLines') : events' = events \o more
  OBVIOUS
<1>3. events \in Seq(TrueLines')
  BY <1>1, SeqMonotonic DEF LinuxInv, LinesSound
<1>4. LinesSound'
  BY <1>2, <1>3, ConcatProperties DEF LinesSound
<1>5. DriverTypes' /\ DriverSound' /\ CallsSound'
  BY DEF LinuxInv, DriverTypes, DriverSound, CallsSound, Onward, HelperTypes
<1> QED
  BY <1>4, <1>5 DEF LinuxInv

(* No line at all is a line of any set.                                      *)
LEMMA NoLine == ASSUME NEW G, events \in Seq(G), events' = events PROVE \E more \in Seq(G) : events' = events \o more
<1>1. << >> \in Seq(G) /\ events \o << >> = events
  BY EmptySeq, ConcatEmptySeq
<1> QED
  BY <1>1

LEMMA QuietStep ==
  ASSUME LinuxInv, HelperTypes', HelperSound', Onward, controls' \in Seq(Causes), events' = events
  PROVE  LinuxInv'
<1>1. TrueLines \subseteq TrueLines'
  BY DEF TrueLines, Onward, LinuxInv, HelperTypes
<1>2. events \in Seq(TrueLines')
  BY <1>1, SeqMonotonic DEF LinuxInv, LinesSound
<1> QED
  BY <1>2, NoLine, LinesGrow

LEMMA LinuxInvInit == LinuxInit => LinuxInv
<1> SUFFICES ASSUME LinuxInit PROVE LinuxInv
  OBVIOUS
<1>1. HelperTypes /\ HelperSound
  <2>1. helper \in HelperRecords
    BY DEF LinuxInit, HelperRecords
  <2> QED
    <3>1. ~helper.spawned /\ helper.pc = "POLL" /\ helper.scans = 0 /\ ~helper.acked
      BY DEF LinuxInit
    <3>2. ltree = "NONE" /\ drained = FALSE
      BY DEF LinuxInit
    <3> QED
      <4>1. HelperTypes
        BY <2>1, <3>2 DEF HelperTypes, Trees
      <4>2. HelperSound
        BY <3>1, <3>2 DEF HelperSound
      <4> QED
        BY <4>1, <4>2
<1>2. DriverTypes /\ DriverSound /\ CallsSound
  BY EmptySeq DEF LinuxInit, DriverTypes, DriverSound, CallsSound, DriverRecords, Stages
<1>3. LinesSound
  BY EmptySeq DEF LinuxInit, LinesSound
<1> QED
  BY <1>1, <1>2, <1>3 DEF LinuxInv

LEMMA TreeMoves ==
  ASSUME LinuxInv, TargetEnds \/ TargetDrains \/ HelperDies \/ PollWaits \/ PollStarves
  PROVE  LinuxInv'
<1>1. HelperTypes' /\ HelperSound'
  <2>1. CASE TargetEnds \/ TargetDrains
    BY <2>1 DEF LinuxInv, HelperTypes, HelperSound, HelperRecords, Trees, TargetEnds, TargetDrains
  <2>2. CASE HelperDies \/ PollWaits \/ PollStarves
    <3>1. PICK n \in {0, 70} : helper' = [helper EXCEPT !.up = FALSE, !.code = n]
      BY <2>2 DEF HelperDies, PollWaits, PollStarves
    <3>2. helper' \in HelperRecords
      <4>1. n \in Int /\ helper \in HelperRecords
        BY DEF LinuxInv, HelperTypes
      <4>2. [helper EXCEPT !.up = FALSE] \in HelperRecords
        BY <4>1 DEF HelperRecords
      <4>3. helper' = [[helper EXCEPT !.up = FALSE] EXCEPT !.code = n]
        BY <3>1
      <4> QED
        BY <4>1, <4>2, <4>3 DEF HelperRecords
    <3>3. /\ helper'.spawned = helper.spawned /\ helper'.pc = helper.pc /\ helper'.pending = helper.pending
          /\ helper'.cause = helper.cause /\ helper'.scans = helper.scans /\ helper'.acked = helper.acked
      BY <3>1 DEF LinuxInv, HelperTypes, HelperRecords
    <3> QED
      BY <2>2, <3>2, <3>3 DEF LinuxInv, HelperTypes, HelperSound, HelperDies, PollWaits, PollStarves
  <2> QED
    BY <2>1, <2>2
<1>2. Onward /\ controls' = controls /\ events' = events
  BY DEF LinuxInv, HelperTypes, HelperSound, HelperRecords, Trees, TargetEnds, TargetDrains, HelperDies, PollWaits,
         PollStarves, Onward
<1> QED
  BY <1>1, <1>2, QuietStep DEF LinuxInv, DriverTypes

LEMMA InputClosesKeeps == ASSUME LinuxInv, InputCloses PROVE LinuxInv'
<1>1. HelperTypes' /\ HelperSound' /\ Onward /\ events' = events
  BY DEF LinuxInv, HelperTypes, HelperSound, HelperRecords, InputCloses, Onward
<1>2. controls' \in Seq(Causes)
  BY EmptySeq DEF InputCloses
<1> QED
  BY <1>1, <1>2, QuietStep

(* The lines a helper may say at any time.                                   *)
LEMMA HarmlessLines ==
  ASSUME NEW type \in {"state", "error", "notApplied"}
  PROVE  Ev(type, "NONE") \in TrueLines'
  BY DEF Ev, TrueLines, EventTypes

LEMMA FailingIsTrue == Failing \in Seq(TrueLines')
<1>1. << >> \in Seq(TrueLines') /\ <<Ev("error", "NONE")>> \in Seq(TrueLines')
  BY EmptySeq, HarmlessLines
<1> QED
  BY <1>1 DEF Failing

LEMMA StartTargetKeeps == ASSUME LinuxInv, StartTarget PROVE LinuxInv'
<1>1. CASE ltree' = "LIVE" /\ helper' = [helper EXCEPT !.spawned = TRUE] /\ Say(<<Ev("ready", "NONE")>>)
  <2>1. HelperTypes' /\ HelperSound' /\ Onward
    BY <1>1 DEF LinuxInv, HelperTypes, HelperSound, HelperRecords, StartTarget, Onward, Trees
  <2>2. <<Ev("ready", "NONE")>> \in Seq(TrueLines')
    BY <1>1 DEF Ev, TrueLines, EventTypes
  <2> QED
    BY <1>1, <2>1, <2>2, LinesGrow DEF Say, StartTarget, LinuxInv, DriverTypes
<1>2. CASE helper' = [helper EXCEPT !.fatal = TRUE] /\ Say(Failing) /\ UNCHANGED ltree
  <2>1. HelperTypes' /\ HelperSound' /\ Onward
    BY <1>2 DEF LinuxInv, HelperTypes, HelperSound, HelperRecords, StartTarget, Onward, Trees
  <2> QED
    BY <1>2, <2>1, FailingIsTrue, LinesGrow DEF Say, StartTarget, LinuxInv, DriverTypes
<1> QED
  BY <1>1, <1>2 DEF StartTarget

LEMMA HelperReceivesKeeps == ASSUME LinuxInv, HelperReceives PROVE LinuxInv'
<1> DEFINE c == Head(controls)
<1>1. c \in Causes /\ controls' \in Seq(Causes)
  BY HeadTailProperties DEF HelperReceives, LinuxInv, DriverTypes
<1>2. CASE UNCHANGED <<helper, events>>
  <2>1. HelperTypes' /\ HelperSound' /\ Onward
    BY <1>2 DEF LinuxInv, HelperTypes, HelperSound, HelperReceives, Onward
  <2> QED
    BY <1>1, <1>2, <2>1, QuietStep
<1>3. CASE helper' = [helper EXCEPT !.fatal = TRUE] /\ Say(Failing)
  <2>1. HelperTypes' /\ HelperSound' /\ Onward
    BY <1>3 DEF LinuxInv, HelperTypes, HelperSound, HelperRecords, HelperReceives, Onward
  <2> QED
    BY <1>1, <1>3, <2>1, FailingIsTrue, LinesGrow DEF Say
<1>4. CASE helper.cause \in {"NONE", c} /\ helper.acked /\ Say(<<Ev("ack", c)>>) /\ UNCHANGED helper
  <2>1. HelperTypes' /\ HelperSound' /\ Onward
    BY <1>4 DEF LinuxInv, HelperTypes, HelperSound, HelperReceives, Onward
  <2>2. Ev("ack", c) \in TrueLines'
    BY <1>1, <1>4 DEF LinuxInv, HelperSound, Ev, TrueLines, EventTypes
  <2>3. <<Ev("ack", c)>> \in Seq(TrueLines')
    BY <2>2
  <2> QED
    BY <1>1, <1>4, <2>1, <2>3, LinesGrow DEF Say
<1>5. CASE helper.cause = "NONE" /\ ~helper.acked /\ helper' = [helper EXCEPT !.cause = c, !.scans = 0] /\ UNCHANGED events
  <2> HIDE DEF c
  <2>1. HelperTypes' /\ HelperSound' /\ Onward
    <3>1. helper' \in HelperRecords
      <4>1. c \in Causes \cup {"NONE"} /\ 0 \in 0..2 /\ helper \in HelperRecords
        BY <1>1 DEF LinuxInv, HelperTypes
      <4>2. [helper EXCEPT !.cause = c] \in HelperRecords
        BY <4>1 DEF HelperRecords
      <4>3. helper' = [[helper EXCEPT !.cause = c] EXCEPT !.scans = 0]
        BY <1>5
      <4> QED
        BY <4>1, <4>2, <4>3 DEF HelperRecords
    <3>2. /\ helper'.spawned = helper.spawned /\ helper'.pc = helper.pc /\ helper'.pending = helper.pending
          /\ helper'.cause = c /\ helper'.scans = 0 /\ helper'.acked = helper.acked
      BY <1>5 DEF LinuxInv, HelperTypes, HelperRecords
    <3>3. c # "NONE"
      BY <1>1 DEF Causes
    <3> QED
      BY <1>5, <3>1, <3>2, <3>3 DEF LinuxInv, HelperTypes, HelperSound, HelperReceives, Onward
  <2> QED
    BY <1>1, <1>5, <2>1, QuietStep
<1> QED
  BY <1>2, <1>3, <1>4, <1>5 DEF HelperReceives

LEMMA PollFailsKeeps == ASSUME LinuxInv, PollFails PROVE LinuxInv'
<1>1. HelperTypes' /\ HelperSound' /\ Onward
  BY DEF LinuxInv, HelperTypes, HelperSound, HelperRecords, PollFails, Onward
<1> QED
  BY <1>1, FailingIsTrue, LinesGrow DEF PollFails, Say, LinuxInv, DriverTypes
-----------------------------------------------------------------------------
(* The end of a poll: any set of lines G that holds what may be said now.    *)
LEMMA PollEndEffect ==
  ASSUME NEW h \in HelperRecords, NEW G, NEW said \in Seq(G), drained \in BOOLEAN,
         Ev("state", "NONE") \in G, Ev("notApplied", "NONE") \in G,
         h.scans = 2 => Ev("terminal", "NONE") \in G,
         PollEnd(h, said)
  PROVE  /\ helper' \in HelperRecords
         /\ helper'.spawned = h.spawned /\ helper'.pc = "POLL" /\ helper'.scans = h.scans
         /\ helper'.acked = h.acked /\ (h.acked => helper'.cause = h.cause)
         /\ \E more \in Seq(G) : events' = events \o more
<1> DEFINE missed == h.pending /\ ~h.acked /\ h.scans = 2
           k == [h EXCEPT !.pc = "POLL", !.cause = IF missed THEN "NONE" ELSE @]
           now == <<k.scans = 2, drained, k.cause>>
           state == IF ~k.fatal /\ now # k.told THEN <<Ev("state", "NONE")>> ELSE << >>
           sent == said \o (IF missed THEN <<Ev("notApplied", "NONE")>> ELSE << >>) \o state
           last == [k EXCEPT !.told = IF k.fatal THEN @ ELSE now]
           done == sent \o <<Ev("terminal", "NONE")>>
<1>1. /\ ~Finished(k) => helper' = last /\ Say(sent)
      /\ Finished(k) /\ (k.fatal \/ k.closed) => helper' = [last EXCEPT !.up = FALSE, !.code = 70] /\ Say(sent)
      /\ Finished(k) /\ ~(k.fatal \/ k.closed) => helper' = [last EXCEPT !.up = FALSE, !.code = 0] /\ Say(done)
  BY Zenon DEF PollEnd
<1>2. k \in HelperRecords
  BY DEF HelperRecords
<1>3. /\ k.pc = "POLL" /\ k.spawned = h.spawned /\ k.scans = h.scans /\ k.acked = h.acked
      /\ h.acked => k.cause = h.cause
  BY DEF HelperRecords
<1>4. state \in Seq(G)
  BY EmptySeq
<1>5. (IF missed THEN <<Ev("notApplied", "NONE")>> ELSE << >>) \in Seq(G)
  BY EmptySeq
<1> HIDE DEF k, state, missed
<1>6. now \in Told
  BY <1>2 DEF HelperRecords, Told
<1>7. last \in HelperRecords
  <2> HIDE DEF now
  <2> QED
    BY <1>2, <1>6 DEF HelperRecords
<1>8. /\ last.pc = "POLL" /\ last.spawned = h.spawned /\ last.scans = h.scans /\ last.acked = h.acked
      /\ h.acked => last.cause = h.cause
  BY <1>2, <1>3 DEF HelperRecords
<1>9. sent \in Seq(G)
  BY <1>4, <1>5, ConcatProperties
<1>10. h.scans = 2 => done \in Seq(G)
  <2> HIDE DEF sent
  <2>1. h.scans = 2 => <<Ev("terminal", "NONE")>> \in Seq(G)
    OBVIOUS
  <2> QED
    BY <1>9, <2>1, ConcatProperties
<1>11. Finished(k) => h.scans = 2
  BY <1>3 DEF Finished
<1> HIDE DEF last, sent, done
<1>12. PICK n \in {0, 70} : helper' = last \/ helper' = [last EXCEPT !.up = FALSE, !.code = n]
  BY <1>1
<1>13. helper' \in HelperRecords
  <2>1. CASE helper' = last
    BY <2>1, <1>7
  <2>2. CASE helper' = [last EXCEPT !.up = FALSE, !.code = n]
    <3>1. n \in Int
      OBVIOUS
    <3>2. [last EXCEPT !.up = FALSE] \in HelperRecords
      BY <1>7 DEF HelperRecords
    <3>3. helper' = [[last EXCEPT !.up = FALSE] EXCEPT !.code = n]
      BY <2>2
    <3> QED
      BY <3>1, <3>2, <3>3 DEF HelperRecords
  <2> QED
    BY <1>12, <2>1, <2>2
<1>14. /\ helper'.pc = last.pc /\ helper'.spawned = last.spawned /\ helper'.scans = last.scans
       /\ helper'.acked = last.acked /\ helper'.cause = last.cause
  BY <1>7, <1>12 DEF HelperRecords
<1>15. \E more \in Seq(G) : events' = events \o more
  BY <1>1, <1>9, <1>10, <1>11 DEF Say
<1> QED
  BY <1>8, <1>13, <1>14, <1>15

LEMMA PollEndKeeps ==
  ASSUME LinuxInv, NEW h \in HelperRecords, NEW said \in Seq(TrueLines'), PollEnd(h, said),
         ltree' \in Trees, h.spawned <=> ltree' # "NONE", h.scans > 0 => ltree' = "EMPTY",
         h.acked => h.cause # "NONE", helper.acked => h.acked /\ h.cause = helper.cause,
         ltree = "EMPTY" => ltree' = "EMPTY", ltree # "NONE" => ltree' # "NONE",
         UNCHANGED <<drained, driver, stage, controls>>
  PROVE  LinuxInv'
<1> DEFINE G == TrueLines'
<1>1. drained \in BOOLEAN /\ controls' \in Seq(Causes) /\ drained' \in BOOLEAN
  BY DEF LinuxInv, HelperTypes, DriverTypes
<1>2. Ev("state", "NONE") \in G /\ Ev("notApplied", "NONE") \in G
  BY HarmlessLines
<1>3. h.scans = 2 => Ev("terminal", "NONE") \in G
  BY DEF HelperRecords, Ev, TrueLines, EventTypes
<1> HIDE DEF G
<1>4. /\ helper' \in HelperRecords
      /\ helper'.spawned = h.spawned /\ helper'.pc = "POLL" /\ helper'.scans = h.scans
      /\ helper'.acked = h.acked /\ (h.acked => helper'.cause = h.cause)
      /\ \E more \in Seq(G) : events' = events \o more
  <2>1. said \in Seq(G)
    BY DEF G
  <2> QED
    BY <1>1, <1>2, <1>3, <2>1, PollEndEffect
<1>5. HelperTypes' /\ HelperSound' /\ Onward
  BY <1>1, <1>4 DEF HelperTypes, HelperSound, Onward
<1> QED
  BY <1>1, <1>4, <1>5, LinesGrow DEF G

LEMMA PollScanKeeps == ASSUME LinuxInv, PollScan PROVE LinuxInv'
<1> DEFINE h == [helper EXCEPT !.scans = Scanned(@), !.pending = helper.cause # "NONE" /\ ~helper.acked]
<1>1. helper \in HelperRecords /\ Scanned(helper.scans) \in 0..2
  BY DEF LinuxInv, HelperTypes, HelperRecords, Scanned
<1>2. Scanned(helper.scans) > 0 => ltree # "LIVE"
  BY DEF Scanned
<1>3. h \in HelperRecords
  BY <1>1 DEF HelperRecords
<1>4. /\ h.scans = Scanned(helper.scans) /\ h.spawned = helper.spawned /\ h.acked = helper.acked
      /\ h.cause = helper.cause /\ (h.pending => helper.cause # "NONE")
  BY <1>1 DEF HelperRecords
<1>5. ltree # "NONE" /\ ltree \in Trees /\ (h.scans > 0 => ltree = "EMPTY")
  BY <1>2, <1>4 DEF PollScan, LinuxInv, HelperTypes, HelperSound, Trees
<1>6. \/ helper' = [h EXCEPT !.pc = "KILL"] /\ UNCHANGED events
      \/ PollEnd(h, << >>)
  BY Zenon DEF PollScan
<1> HIDE DEF h
<1>7. CASE helper' = [h EXCEPT !.pc = "KILL"] /\ UNCHANGED events
  <2>1. /\ helper' \in HelperRecords /\ helper'.scans = h.scans /\ helper'.spawned = h.spawned
        /\ helper'.acked = h.acked /\ helper'.cause = h.cause /\ helper'.pending = h.pending
    BY <1>3, <1>7 DEF HelperRecords
  <2>2. HelperTypes' /\ HelperSound' /\ Onward
    BY <1>4, <1>5, <2>1 DEF PollScan, LinuxInv, HelperTypes, HelperSound, Onward
  <2> QED
    BY <1>7, <2>2, QuietStep DEF PollScan, LinuxInv, DriverTypes
<1>8. CASE PollEnd(h, << >>)
  <2>1. /\ ltree' = ltree /\ UNCHANGED <<drained, driver, stage, controls>>
        /\ << >> \in Seq(TrueLines') /\ h.spawned /\ (h.acked => h.cause # "NONE")
    BY <1>4, EmptySeq DEF PollScan, LinuxInv, HelperSound
  <2> QED
    BY <1>3, <1>4, <1>5, <1>8, <2>1, PollEndKeeps
<1> QED
  BY <1>6, <1>7, <1>8

LEMMA PollKillKeeps == ASSUME LinuxInv, PollKill PROVE LinuxInv'
<1> DEFINE hit == ltree = "LIVE"
           acks == helper.pending /\ hit
           h == [helper EXCEPT !.acked = @ \/ acks, !.scans = IF acks THEN 0 ELSE @]
           n == IF ltree' = "LIVE" THEN 0 ELSE IF h.scans < 2 THEN h.scans + 1 ELSE 2
           k == [h EXCEPT !.scans = IF ltree' = "LIVE" THEN 0 ELSE IF @ < 2 THEN @ + 1 ELSE 2]
           said == IF acks THEN <<Ev("ack", h.cause)>> ELSE << >>
<1>1. /\ helper \in HelperRecords /\ helper.spawned /\ ltree # "NONE" /\ ltree \in Trees
      /\ helper.acked => helper.cause # "NONE"
      /\ helper.pending => helper.cause # "NONE"
  BY DEF PollKill, LinuxInv, HelperTypes, HelperSound
<1>2. ltree' \in (IF hit THEN {"LIVE", "EMPTY"} ELSE {ltree}) /\ PollEnd(k, said)
  BY Zenon DEF PollKill
<1>3. h \in HelperRecords
  <2>1. [helper EXCEPT !.acked = @ \/ acks] \in HelperRecords
    BY <1>1 DEF HelperRecords
  <2>2. h = [[helper EXCEPT !.acked = @ \/ acks] EXCEPT !.scans = IF acks THEN 0 ELSE helper.scans]
    BY <1>1 DEF HelperRecords
  <2>3. (IF acks THEN 0 ELSE helper.scans) \in 0..2
    BY <1>1 DEF HelperRecords
  <2> QED
    BY <2>1, <2>2, <2>3 DEF HelperRecords
<1>4. h.spawned = helper.spawned /\ (h.acked <=> helper.acked \/ acks) /\ h.cause = helper.cause
  BY <1>1 DEF HelperRecords
<1>5. n \in 0..2 /\ (n > 0 => ltree' # "LIVE")
  <2> HIDE DEF h
  <2> QED
    BY <1>3 DEF HelperRecords
<1>6. k = [h EXCEPT !.scans = n]
  OBVIOUS
<1> HIDE DEF k, n, h
<1>7. k \in HelperRecords /\ k.scans = n /\ k.spawned = h.spawned /\ k.acked = h.acked /\ k.cause = h.cause
  BY <1>3, <1>5, <1>6 DEF HelperRecords
<1>8. /\ ltree' \in Trees /\ ltree' # "NONE" /\ (ltree = "EMPTY" => ltree' = "EMPTY")
      /\ (k.scans > 0 => ltree' = "EMPTY")
  BY <1>1, <1>2, <1>5, <1>7 DEF Trees
<1>9. said \in Seq(TrueLines')
  <2>1. CASE acks
    <3>1. helper'.acked /\ helper'.cause = h.cause
      <4> DEFINE U == {Ev("state", "NONE"), Ev("notApplied", "NONE"), Ev("terminal", "NONE"), Ev("ack", h.cause)}
      <4>1. said \in Seq(U) /\ drained \in BOOLEAN
        BY <2>1 DEF LinuxInv, HelperTypes
      <4>2. Ev("state", "NONE") \in U /\ Ev("notApplied", "NONE") \in U /\ Ev("terminal", "NONE") \in U
        OBVIOUS
      <4> HIDE DEF U, said
      <4>3. helper'.acked = k.acked /\ (k.acked => helper'.cause = k.cause)
        BY <1>2, <1>7, <4>1, <4>2, PollEndEffect
      <4> QED
        BY <1>4, <1>7, <2>1, <4>3
    <3>2. h.cause \in Causes
      BY <1>1, <1>3, <1>4, <2>1 DEF HelperRecords
    <3>3. Ev("ack", h.cause) \in TrueLines'
      BY <3>1, <3>2 DEF Ev, TrueLines, EventTypes
    <3> QED
      BY <2>1, <3>3
  <2>2. CASE ~acks
    BY <2>2, EmptySeq
  <2> QED
    BY <2>1, <2>2
<1>10. /\ k.spawned /\ (k.acked => k.cause # "NONE") /\ (helper.acked => k.acked /\ k.cause = helper.cause)
       /\ UNCHANGED <<drained, driver, stage, controls>>
  BY <1>1, <1>4, <1>7 DEF PollKill
<1> HIDE DEF said
<1> QED
  BY <1>2, <1>7, <1>8, <1>9, <1>10, PollEndKeeps
-----------------------------------------------------------------------------
(* The driver's side.                                                        *)
(* What every step of the driver keeps to: it learns of an acknowledgement   *)
(* from a true line, and takes none back.                                    *)
DriverGoes ==
    /\ UNCHANGED <<ltree, drained, helper>>
    /\ driver' \in DriverRecords /\ stage' \in [Calls -> Stages] /\ controls' \in Seq(Causes)
    /\ events' = events \/ (events # << >> /\ events' = Tail(events))
    /\ driver'.ready # "NO" => ltree # "NONE"
    /\ driver'.terminal => ltree = "EMPTY"
    /\ driver'.acked => helper.acked /\ driver'.cause = helper.cause
    /\ driver.acked => driver'.acked /\ driver'.cause = driver.cause
    /\ driver.start = "RESOLVED" => driver'.start = "RESOLVED"
    /\ \A c \in Calls :
          /\ stage[c] = "ACKNOWLEDGED" => stage'[c] = "ACKNOWLEDGED"
          /\ stage'[c] = "ACKNOWLEDGED" => stage[c] = "ACKNOWLEDGED" \/ (driver'.acked /\ driver'.cause = CauseOf[c])
          /\ stage'[c] # "IDLE" => stage[c] # "IDLE" \/ c = Timer \/ driver'.start = "RESOLVED"

LEMMA DriverGoesKeeps == ASSUME LinuxInv, DriverGoes PROVE LinuxInv'
<1>1. HelperTypes' /\ HelperSound'
  BY DEF LinuxInv, HelperTypes, HelperSound, DriverGoes
<1>2. DriverTypes' /\ DriverSound'
  BY DEF DriverTypes, DriverSound, DriverGoes, Stages
<1>3. CallsSound'
  BY DEF LinuxInv, CallsSound, DriverGoes
<1>4. TrueLines' = TrueLines
  BY DEF TrueLines, DriverGoes
<1>5. LinesSound'
  <2>1. events \in Seq(TrueLines)
    BY DEF LinuxInv, LinesSound
  <2>2. events' \in Seq(TrueLines)
    BY <2>1, HeadTailProperties DEF DriverGoes
  <2> QED
    BY <1>4, <2>2 DEF LinesSound
<1> QED
  BY <1>1, <1>2, <1>3, <1>5 DEF LinuxInv

LEMMA ResolveEffect ==
  ASSUME stage \in [Calls -> Stages], NEW answer \in [Causes -> {"ACKNOWLEDGED", "NOT_PROVEN"}]
  PROVE  /\ Resolve(answer) \in [Calls -> Stages]
         /\ \A c \in Calls :
               /\ stage[c] = "ACKNOWLEDGED" => Resolve(answer)[c] = "ACKNOWLEDGED"
               /\ Resolve(answer)[c] = "ACKNOWLEDGED" =>
                     stage[c] = "ACKNOWLEDGED" \/ answer[CauseOf[c]] = "ACKNOWLEDGED"
               /\ Resolve(answer)[c] # "IDLE" => stage[c] # "IDLE"
<1>1. \A c \in Calls : CauseOf[c] \in Causes
  BY LinuxAssumption DEF LinuxAssumption
<1> QED
  BY <1>1 DEF Resolve, Stages

LEMMA UnansweredEffect ==
  ASSUME stage \in [Calls -> Stages]
  PROVE  /\ Resolve(Unanswered) \in [Calls -> Stages]
         /\ \A c \in Calls :
               /\ stage[c] = "ACKNOWLEDGED" <=> Resolve(Unanswered)[c] = "ACKNOWLEDGED"
               /\ Resolve(Unanswered)[c] # "IDLE" => stage[c] # "IDLE"
<1>1. \A c \in Calls : CauseOf[c] \in Causes
  BY LinuxAssumption DEF LinuxAssumption
<1> QED
  BY <1>1 DEF Resolve, Unanswered, Stages

LEMMA FailEffect ==
  ASSUME NEW d \in DriverRecords
  PROVE  /\ Fail(d) \in DriverRecords
         /\ Fail(d).ready = d.ready /\ Fail(d).acked = d.acked /\ Fail(d).cause = d.cause
         /\ Fail(d).terminal = d.terminal /\ Fail(d).settled = d.settled
         /\ Fail(d).start = d.start \/ (d.start = "PENDING" /\ Fail(d).start = "REJECTING")
  BY DEF Fail, DriverRecords

(* Nothing the host sees of the session moves but an acknowledgement.        *)
SessionStays ==
    /\ driver'.settled = driver.settled
    /\ driver'.start = driver.start \/ (driver.start = "PENDING" /\ driver'.start = "REJECTING")
    /\ driver.settled # "NO" => driver'.cause = driver.cause

LEMMA DriverFails ==
  ASSUME LinuxInv, UNCHANGED <<ltree, drained, helper>>, driver' = Fail(driver), stage' = Resolve(Unanswered),
         controls' = controls, events' = events \/ (events # << >> /\ events' = Tail(events))
  PROVE  DriverGoes /\ SessionStays
<1>1. driver \in DriverRecords /\ stage \in [Calls -> Stages] /\ controls \in Seq(Causes) /\ DriverSound
  BY DEF LinuxInv, DriverTypes, Stages
<1>2. /\ driver' \in DriverRecords
      /\ driver'.ready = driver.ready /\ driver'.acked = driver.acked /\ driver'.cause = driver.cause
      /\ driver'.terminal = driver.terminal /\ driver'.settled = driver.settled
      /\ driver'.start = driver.start \/ (driver.start = "PENDING" /\ driver'.start = "REJECTING")
  BY <1>1, FailEffect
<1>3. /\ stage' \in [Calls -> Stages]
      /\ \A c \in Calls : /\ stage[c] = "ACKNOWLEDGED" <=> stage'[c] = "ACKNOWLEDGED"
                          /\ stage'[c] # "IDLE" => stage[c] # "IDLE"
  BY <1>1, UnansweredEffect
<1> QED
  BY <1>1, <1>2, <1>3 DEF DriverGoes, SessionStays, DriverSound

LEMMA DriverReceivesGoes == ASSUME LinuxInv, DriverReceives PROVE DriverGoes /\ SessionStays
<1> DEFINE e == Head(events)
<1>1. driver \in DriverRecords /\ stage \in [Calls -> Stages] /\ controls \in Seq(Causes) /\ DriverSound
  BY DEF LinuxInv, DriverTypes, Stages
<1>2. e \in TrueLines
  BY HeadTailProperties DEF DriverReceives, LinuxInv, LinesSound
<1>3. /\ UNCHANGED <<ltree, drained, helper, controls>> /\ events # << >> /\ events' = Tail(events)
      /\ driver.settled = "NO"
  BY DEF DriverReceives, Settled
<1>4. \/ e.type = "ready" /\ driver' = ReadyEvent(driver) /\ UNCHANGED stage
      \/ /\ e.type = "state" /\ driver' = StateEvent(driver)
         /\ stage' = IF driver.ready # "YES" THEN Resolve(Unanswered) ELSE stage
      \/ e.type = "terminal" /\ driver' = [driver EXCEPT !.terminal = TRUE] /\ UNCHANGED stage
      \/ /\ e.type = "ack"
         /\ driver' = [driver EXCEPT !.cause = e.cause, !.acked = TRUE]
         /\ stage' = Resolve([c \in Causes |-> IF c = e.cause THEN "ACKNOWLEDGED" ELSE "NOT_PROVEN"])
      \/ e.type = "notApplied" /\ stage' = Resolve(Unanswered) /\ UNCHANGED driver
      \/ e.type = "error" /\ driver' = Fail(driver) /\ stage' = Resolve(Unanswered)
  BY Zenon DEF DriverReceives
<1> HIDE DEF e
<1>5. /\ e.type = "ready" => ltree # "NONE"
      /\ e.type = "terminal" => ltree = "EMPTY"
      /\ e.type = "ack" => helper.acked /\ e.cause = helper.cause /\ e.cause \in Causes \cup {"NONE"}
  BY <1>2 DEF TrueLines
<1>6. CASE driver' = Fail(driver) /\ stage' = Resolve(Unanswered)
  BY <1>3, <1>6, DriverFails
<1>7. CASE e.type = "ready" /\ driver' = ReadyEvent(driver) /\ UNCHANGED stage
  <2>1. /\ driver' \in DriverRecords
        /\ driver'.acked = driver.acked /\ driver'.cause = driver.cause
        /\ driver'.terminal = driver.terminal /\ driver'.settled = driver.settled
        /\ driver'.start = driver.start \/ (driver.start = "PENDING" /\ driver'.start = "REJECTING")
    <3>1. CASE driver.ready # "NO"
      BY <1>1, <1>7, <3>1, FailEffect DEF ReadyEvent
    <3>2. CASE driver.ready = "NO"
      BY <1>1, <1>7, <3>2 DEF ReadyEvent, DriverRecords
    <3> QED
      BY <3>1, <3>2
  <2> QED
    BY <1>1, <1>3, <1>5, <1>7, <2>1 DEF DriverGoes, SessionStays, DriverSound, LinuxInv, CallsSound
<1>8. CASE /\ e.type = "state" /\ driver' = StateEvent(driver)
           /\ stage' = IF driver.ready # "YES" THEN Resolve(Unanswered) ELSE stage
  <2>1. CASE driver.ready # "YES"
    BY <1>3, <1>8, <2>1, DriverFails DEF StateEvent
  <2>2. CASE driver.ready = "YES"
    <3>1. driver' = driver /\ stage' = stage
      BY <1>8, <2>2 DEF StateEvent
    <3> QED
      BY <1>1, <1>3, <3>1 DEF DriverGoes, SessionStays, DriverSound
  <2> QED
    BY <2>1, <2>2
<1>9. CASE e.type = "terminal" /\ driver' = [driver EXCEPT !.terminal = TRUE] /\ UNCHANGED stage
  <2>1. /\ driver' \in DriverRecords
        /\ driver'.ready = driver.ready /\ driver'.acked = driver.acked /\ driver'.cause = driver.cause
        /\ driver'.settled = driver.settled /\ driver'.start = driver.start
    BY <1>1, <1>9 DEF DriverRecords
  <2> QED
    BY <1>1, <1>3, <1>5, <1>9, <2>1 DEF DriverGoes, SessionStays, DriverSound
<1>10. CASE /\ e.type = "ack"
            /\ driver' = [driver EXCEPT !.cause = e.cause, !.acked = TRUE]
            /\ stage' = Resolve([c \in Causes |-> IF c = e.cause THEN "ACKNOWLEDGED" ELSE "NOT_PROVEN"])
  <2> DEFINE answer == [c \in Causes |-> IF c = e.cause THEN "ACKNOWLEDGED" ELSE "NOT_PROVEN"]
  <2>1. /\ driver' \in DriverRecords
        /\ driver'.ready = driver.ready /\ driver'.acked /\ driver'.cause = e.cause
        /\ driver'.terminal = driver.terminal /\ driver'.settled = driver.settled /\ driver'.start = driver.start
    BY <1>1, <1>5, <1>10 DEF DriverRecords
  <2>2. answer \in [Causes -> {"ACKNOWLEDGED", "NOT_PROVEN"}]
    OBVIOUS
  <2>3. \A c \in Calls : answer[CauseOf[c]] = "ACKNOWLEDGED" => CauseOf[c] = e.cause
    BY LinuxAssumption DEF LinuxAssumption
  <2>4. stage' = Resolve(answer)
    BY <1>10
  <2> HIDE DEF answer
  <2>5. /\ stage' \in [Calls -> Stages]
        /\ \A c \in Calls :
               /\ stage[c] = "ACKNOWLEDGED" => stage'[c] = "ACKNOWLEDGED"
               /\ stage'[c] = "ACKNOWLEDGED" => stage[c] = "ACKNOWLEDGED" \/ answer[CauseOf[c]] = "ACKNOWLEDGED"
               /\ stage'[c] # "IDLE" => stage[c] # "IDLE"
    BY <1>1, <2>2, <2>4, ResolveEffect
  <2> QED
    BY <1>1, <1>3, <1>5, <1>10, <2>1, <2>3, <2>5 DEF DriverGoes, SessionStays, DriverSound
<1>11. CASE e.type = "notApplied" /\ stage' = Resolve(Unanswered) /\ UNCHANGED driver
  <2>1. /\ stage' \in [Calls -> Stages]
        /\ \A c \in Calls : /\ stage[c] = "ACKNOWLEDGED" <=> stage'[c] = "ACKNOWLEDGED"
                            /\ stage'[c] # "IDLE" => stage[c] # "IDLE"
    BY <1>1, <1>11, UnansweredEffect
  <2> QED
    BY <1>1, <1>3, <1>11, <2>1 DEF DriverGoes, SessionStays, DriverSound
<1> QED
  BY <1>4, <1>6, <1>7, <1>8, <1>9, <1>10, <1>11

LEMMA TerminationGoes == ASSUME LinuxInv, NEW c \in Calls, Termination(c) PROVE DriverGoes /\ SessionStays
<1>1. /\ driver \in DriverRecords /\ stage \in [Calls -> Stages] /\ controls \in Seq(Causes) /\ DriverSound
      /\ stage[c] = "IDLE" /\ (c # Timer => driver.start = "RESOLVED") /\ CauseOf[c] \in Causes
  BY LinuxAssumption DEF LinuxInv, DriverTypes, Stages, Termination, LinuxAssumption
<1>2. UNCHANGED <<ltree, drained, helper, events>>
  BY DEF Termination
<1>3. CASE /\ c # Timer /\ driver.acked
           /\ stage' = [stage EXCEPT ![c] = IF driver.cause = CauseOf[c] THEN "ACKNOWLEDGED" ELSE "NOT_PROVEN"]
           /\ UNCHANGED <<driver, controls>>
  BY <1>1, <1>2, <1>3 DEF DriverGoes, SessionStays, DriverSound, Stages
<1>4. CASE stage' = [stage EXCEPT ![c] = "NOT_PROVEN"] /\ UNCHANGED <<driver, controls>>
  BY <1>1, <1>2, <1>4 DEF DriverGoes, SessionStays, DriverSound, Stages
<1>5. CASE /\ stage' = [Resolve(Unanswered) EXCEPT ![c] = "NOT_PROVEN"]
           /\ driver' = Fail(driver) /\ UNCHANGED controls
  <2>1. /\ driver' \in DriverRecords
        /\ driver'.ready = driver.ready /\ driver'.acked = driver.acked /\ driver'.cause = driver.cause
        /\ driver'.terminal = driver.terminal /\ driver'.settled = driver.settled
        /\ driver'.start = driver.start \/ (driver.start = "PENDING" /\ driver'.start = "REJECTING")
    BY <1>1, <1>5, FailEffect
  <2> DEFINE r == Resolve(Unanswered)
  <2>2. /\ r \in [Calls -> Stages]
        /\ \A k \in Calls : /\ stage[k] = "ACKNOWLEDGED" <=> r[k] = "ACKNOWLEDGED"
                            /\ r[k] # "IDLE" => stage[k] # "IDLE"
    BY <1>1, UnansweredEffect
  <2>3. stage' = [r EXCEPT ![c] = "NOT_PROVEN"]
    BY <1>5
  <2> HIDE DEF r
  <2>4. /\ stage' \in [Calls -> Stages]
        /\ \A k \in Calls : /\ stage[k] = "ACKNOWLEDGED" <=> stage'[k] = "ACKNOWLEDGED"
                            /\ stage'[k] # "IDLE" => stage[k] # "IDLE" \/ k = c
    BY <1>1, <2>2, <2>3 DEF Stages
  <2> QED
    BY <1>1, <1>2, <1>5, <2>1, <2>4 DEF DriverGoes, SessionStays, DriverSound
<1>6. CASE /\ stage' = [stage EXCEPT ![c] = "WAIT"]
           /\ controls' = Append(controls, CauseOf[c]) /\ UNCHANGED driver
  <2>1. controls' \in Seq(Causes)
    BY <1>1, <1>6, AppendProperties
  <2> QED
    BY <1>1, <1>2, <1>6, <2>1 DEF DriverGoes, SessionStays, DriverSound, Stages
<1> QED
  BY <1>3, <1>4, <1>5, <1>6 DEF Termination

LEMMA AckTimesOutGoes == ASSUME LinuxInv, NEW c \in Calls, AckTimesOut(c) PROVE DriverGoes /\ SessionStays
  BY DriverFails DEF AckTimesOut

LEMMA StartTimesOutGoes == ASSUME LinuxInv, StartTimesOut PROVE DriverGoes /\ SessionStays
<1>1. driver \in DriverRecords /\ stage \in [Calls -> Stages] /\ controls \in Seq(Causes) /\ DriverSound
  BY DEF LinuxInv, DriverTypes, Stages
<1>2. /\ driver' \in DriverRecords
      /\ driver'.ready = driver.ready /\ driver'.acked = driver.acked /\ driver'.cause = driver.cause
      /\ driver'.terminal = driver.terminal /\ driver'.settled = driver.settled
      /\ driver.start = "PENDING" /\ driver'.start = "REJECTING"
  BY <1>1 DEF StartTimesOut, DriverRecords
<1> QED
  BY <1>1, <1>2 DEF DriverGoes, SessionStays, DriverSound, StartTimesOut

LEMMA EstablishIdentityGoes ==
  ASSUME LinuxInv, EstablishIdentity
  PROVE  /\ DriverGoes /\ driver.settled = "NO" /\ driver'.settled = "NO" /\ ltree # "NONE"
         /\ stage' = stage
         /\ driver'.start = driver.start \/ (driver.start = "PENDING" /\ driver'.start \in {"REJECTING", "RESOLVED"})
<1>1. /\ driver \in DriverRecords /\ stage \in [Calls -> Stages] /\ controls \in Seq(Causes) /\ DriverSound
      /\ driver.ready = "READING" /\ driver.settled = "NO" /\ ltree # "NONE"
      /\ UNCHANGED <<ltree, drained, helper, stage, controls, events>>
  BY DEF LinuxInv, DriverTypes, Stages, DriverSound, EstablishIdentity, Settled
<1>2. /\ driver' \in DriverRecords
      /\ driver'.acked = driver.acked /\ driver'.cause = driver.cause
      /\ driver'.terminal = driver.terminal /\ driver'.settled = driver.settled
      /\ driver'.start = driver.start \/ (driver.start = "PENDING" /\ driver'.start \in {"REJECTING", "RESOLVED"})
  <2>1. CASE driver' = [driver EXCEPT !.ready = "YES", !.start = IF @ = "PENDING" THEN "RESOLVED" ELSE @]
    BY <1>1, <2>1 DEF DriverRecords
  <2>2. CASE driver' = Fail([driver EXCEPT !.ready = "NO"])
    <3> DEFINE d == [driver EXCEPT !.ready = "NO"]
    <3>1. /\ d \in DriverRecords /\ d.acked = driver.acked /\ d.cause = driver.cause
          /\ d.terminal = driver.terminal /\ d.settled = driver.settled /\ d.start = driver.start
      BY <1>1 DEF DriverRecords
    <3> HIDE DEF d
    <3> QED
      BY <2>2, <3>1, FailEffect DEF d
  <2> QED
    BY <2>1, <2>2 DEF EstablishIdentity
<1> QED
  BY <1>1, <1>2 DEF DriverGoes, DriverSound

LEMMA StartRejectsGoes ==
  ASSUME LinuxInv, StartRejects
  PROVE  /\ DriverGoes /\ driver'.settled = driver.settled /\ stage' = stage
         /\ driver.start = "REJECTING" /\ driver'.start = "REJECTED"
<1>1. driver \in DriverRecords /\ stage \in [Calls -> Stages] /\ controls \in Seq(Causes) /\ DriverSound
  BY DEF LinuxInv, DriverTypes, Stages
<1>2. /\ driver' \in DriverRecords
      /\ driver'.ready = driver.ready /\ driver'.acked = driver.acked /\ driver'.cause = driver.cause
      /\ driver'.terminal = driver.terminal /\ driver'.settled = driver.settled
      /\ driver.start = "REJECTING" /\ driver'.start = "REJECTED"
  BY <1>1 DEF StartRejects, DriverRecords
<1> QED
  BY <1>1, <1>2 DEF DriverGoes, DriverSound, StartRejects

LEMMA CloseGoes ==
  ASSUME LinuxInv, Close
  PROVE  /\ DriverGoes /\ driver.settled = "NO" /\ driver'.cause = driver.cause
         /\ \A c \in Calls : stage[c] = "ACKNOWLEDGED" <=> stage'[c] = "ACKNOWLEDGED"
         /\ driver'.settled \in {"UNRECONCILED", "TERMINAL"}
         /\ driver'.settled = "TERMINAL" => ltree = "EMPTY"
         /\ driver'.start = driver.start \/ (driver.start = "PENDING" /\ driver'.start = "REJECTING")
<1>1. /\ driver \in DriverRecords /\ stage \in [Calls -> Stages] /\ controls \in Seq(Causes) /\ DriverSound
      /\ UNCHANGED <<ltree, drained, helper, controls, events>> /\ driver.settled = "NO"
  BY DEF LinuxInv, DriverTypes, Stages, Close, Settled
<1>2. PICK verdict \in {"UNRECONCILED"} \cup (IF CanBeTerminal(driver) THEN {"TERMINAL"} ELSE {}) :
          driver' = [driver EXCEPT !.settled = verdict, !.start = IF @ = "PENDING" THEN "REJECTING" ELSE @]
  BY DEF Close
<1>3. verdict \in {"UNRECONCILED", "TERMINAL"} /\ (verdict = "TERMINAL" => driver.terminal)
  BY DEF CanBeTerminal
<1>4. /\ driver' \in DriverRecords
      /\ driver'.ready = driver.ready /\ driver'.acked = driver.acked /\ driver'.cause = driver.cause
      /\ driver'.terminal = driver.terminal /\ driver'.settled = verdict
      /\ driver'.start = driver.start \/ (driver.start = "PENDING" /\ driver'.start = "REJECTING")
  BY <1>1, <1>2, <1>3 DEF DriverRecords
<1>5. /\ stage' \in [Calls -> Stages]
      /\ \A c \in Calls : /\ stage[c] = "ACKNOWLEDGED" <=> stage'[c] = "ACKNOWLEDGED"
                          /\ stage'[c] # "IDLE" => stage[c] # "IDLE"
  BY <1>1, UnansweredEffect DEF Close
<1> QED
  BY <1>1, <1>3, <1>4, <1>5 DEF DriverGoes, DriverSound

LEMMA LinuxInvNext == LinuxInv /\ [LinuxNext]_linuxVars => LinuxInv'
<1> SUFFICES ASSUME LinuxInv, [LinuxNext]_linuxVars PROVE LinuxInv'
  OBVIOUS
<1>1. CASE UNCHANGED linuxVars
  <2>1. HelperTypes' /\ HelperSound' /\ Onward /\ controls' \in Seq(Causes) /\ events' = events
    BY <1>1 DEF linuxVars, LinuxInv, HelperTypes, HelperSound, DriverTypes, Onward
  <2> QED
    BY <2>1, QuietStep
<1>2. CASE LinuxNext
  BY <1>2, TreeMoves, InputClosesKeeps, StartTargetKeeps, HelperReceivesKeeps, PollFailsKeeps, PollScanKeeps,
     PollKillKeeps, DriverGoesKeeps, DriverReceivesGoes, TerminationGoes, AckTimesOutGoes, StartTimesOutGoes,
     EstablishIdentityGoes, StartRejectsGoes, CloseGoes DEF LinuxNext
<1> QED
  BY <1>1, <1>2
-----------------------------------------------------------------------------
(* The refinement: the contract's acknowledgements are the callers' own.     *)
LEMMA AcknowledgedBy ==
  \A x : x \in LinuxAcknowledged <=> \E c \in Calls : c # Timer /\ stage[c] = "ACKNOWLEDGED" /\ x = CauseOf[c]
  BY DEF LinuxAcknowledged
LEMMA AcknowledgedNext ==
  \A x : x \in LinuxAcknowledged' <=> \E c \in Calls : c # Timer /\ stage'[c] = "ACKNOWLEDGED" /\ x = CauseOf[c]
  BY DEF LinuxAcknowledged

LinuxCause == IF LinuxReport = "TERMINAL" THEN driver.cause ELSE "NONE"

LEMMA AcknowledgedIsTheCause ==
  ASSUME LinuxInv, NEW x \in LinuxAcknowledged
  PROVE  x = driver.cause /\ x \in Causes /\ driver.start = "RESOLVED"
<1>1. PICK c \in Calls : c # Timer /\ stage[c] = "ACKNOWLEDGED" /\ x = CauseOf[c]
  BY AcknowledgedBy
<1> QED
  BY <1>1, LinuxAssumption DEF LinuxInv, CallsSound, LinuxAssumption

LEMMA ReportStays ==
  ASSUME LinuxInv, SessionStays
  PROVE  LinuxReport' = LinuxReport /\ LinuxCause' = LinuxCause
<1>1. driver \in DriverRecords
  BY DEF LinuxInv, DriverTypes
<1>2. LinuxReport' = LinuxReport
  BY <1>1 DEF SessionStays, LinuxReport, Settled, DriverRecords
<1>3. LinuxReport = "TERMINAL" => driver.settled # "NO"
  BY <1>1 DEF LinuxReport, Settled, DriverRecords
<1> QED
  BY <1>2, <1>3 DEF LinuxCause, SessionStays

LEMMA AcknowledgeStep ==
  ASSUME LinuxInv, LinuxInv', DriverGoes, SessionStays
  PROVE  [Contract!ContractNext]_(Contract!contractVars)
<1>1. ltree' = ltree /\ LinuxReport' = LinuxReport /\ LinuxCause' = LinuxCause
  BY ReportStays DEF DriverGoes
<1>2. LinuxAcknowledged \subseteq LinuxAcknowledged'
  BY AcknowledgedBy, AcknowledgedNext DEF DriverGoes
<1>3. CASE LinuxAcknowledged' = LinuxAcknowledged
  BY <1>1, <1>3 DEF Contract!contractVars, LinuxCause
<1>4. CASE LinuxAcknowledged' # LinuxAcknowledged
  <2>1. PICK x \in LinuxAcknowledged' : x \notin LinuxAcknowledged
    BY <1>2, <1>4
  <2>2. \A y \in LinuxAcknowledged' : y = driver'.cause /\ y \in Causes /\ driver'.start = "RESOLVED"
    <3> SUFFICES ASSUME NEW y \in LinuxAcknowledged'
                 PROVE  y = driver'.cause /\ y \in Causes /\ driver'.start = "RESOLVED"
      OBVIOUS
    <3>1. PICK c \in Calls : c # Timer /\ stage'[c] = "ACKNOWLEDGED" /\ y = CauseOf[c]
      BY AcknowledgedNext
    <3> QED
      BY <3>1, LinuxAssumption DEF LinuxInv, CallsSound, LinuxAssumption
  <2>3. x = driver'.cause /\ x \in Causes /\ driver'.start = "RESOLVED"
    BY <2>1, <2>2
  <2>4. LinuxAcknowledged' = {x} /\ LinuxAcknowledged \subseteq {x}
    BY <1>2, <2>1, <2>2, <2>3
  <2>5. LinuxReport # "NONE" /\ (LinuxReport = "TERMINAL" => LinuxCause = x)
    <3>1. driver' \in DriverRecords
      BY DEF LinuxInv, DriverTypes
    <3>2. LinuxReport' # "NONE" /\ (LinuxReport' = "TERMINAL" => LinuxCause' = x)
      BY <2>3, <3>1 DEF LinuxReport, LinuxCause, Settled, DriverRecords
    <3> QED
      BY <1>1, <3>2
  <2>6. Contract!Acknowledge(x)
    BY <1>1, <2>4, <2>5 DEF Contract!Acknowledge, LinuxCause
  <2> QED
    BY <2>3, <2>6 DEF Contract!ContractNext
<1> QED
  BY <1>3, <1>4

(* The helper and the tree only move the tree.                               *)
LEMMA HelperStep ==
  ASSUME LinuxInv, driver' = driver, stage' = stage,
         \/ ltree' = ltree
         \/ ltree = "NONE" /\ ltree' = "LIVE"
         \/ ltree = "LIVE" /\ ltree' = "EMPTY"
  PROVE  [Contract!ContractNext]_(Contract!contractVars)
<1>1. LinuxReport' = LinuxReport /\ LinuxAcknowledged' = LinuxAcknowledged /\ LinuxCause' = LinuxCause
  BY DEF LinuxReport, LinuxAcknowledged, LinuxCause, Settled
<1>2. CASE ltree' = ltree
  BY <1>1, <1>2 DEF Contract!contractVars, LinuxCause
<1>3. CASE ltree = "NONE" /\ ltree' = "LIVE"
  BY <1>1, <1>3 DEF Contract!ContractNext, Contract!TreeStarts, LinuxCause
<1>4. CASE ltree = "LIVE" /\ ltree' = "EMPTY"
  BY <1>1, <1>4 DEF Contract!ContractNext, Contract!TreeEnds, LinuxCause
<1> QED
  BY <1>2, <1>3, <1>4

LEMMA HelperMapped ==
  ASSUME LinuxInv,
         \/ TargetEnds \/ TargetDrains \/ HelperDies \/ StartTarget \/ HelperReceives \/ InputCloses
         \/ PollWaits \/ PollScan \/ PollKill \/ PollFails \/ PollStarves
  PROVE  [Contract!ContractNext]_(Contract!contractVars)
<1>1. driver' = driver /\ stage' = stage
  BY DEF TargetEnds, TargetDrains, HelperDies, StartTarget, HelperReceives, InputCloses, PollWaits, PollScan,
         PollKill, PollFails, PollStarves
<1>2. \/ ltree' = ltree
      \/ ltree = "NONE" /\ ltree' = "LIVE"
      \/ ltree = "LIVE" /\ ltree' = "EMPTY"
  <2>1. CASE TargetDrains \/ HelperDies \/ HelperReceives \/ InputCloses \/ PollWaits \/ PollScan \/ PollFails \/ PollStarves
    BY <2>1 DEF TargetDrains, HelperDies, HelperReceives, InputCloses, PollWaits, PollScan, PollFails, PollStarves
  <2>2. CASE TargetEnds
    BY <2>2 DEF TargetEnds
  <2>3. CASE StartTarget
    BY <2>3 DEF StartTarget, LinuxInv, HelperSound
  <2>4. CASE PollKill
    BY <2>4 DEF PollKill
  <2> QED
    BY <2>1, <2>2, <2>3, <2>4
<1> QED
  BY <1>1, <1>2, HelperStep

LEMMA EstablishMapped ==
  ASSUME LinuxInv, LinuxInv', EstablishIdentity
  PROVE  [Contract!ContractNext]_(Contract!contractVars)
<1>1. /\ DriverGoes /\ driver.settled = "NO" /\ driver'.settled = "NO" /\ ltree # "NONE" /\ stage' = stage
      /\ driver'.start = driver.start \/ (driver.start = "PENDING" /\ driver'.start \in {"REJECTING", "RESOLVED"})
  BY EstablishIdentityGoes
<1>2. CASE driver.start = "PENDING" /\ driver'.start = "RESOLVED"
  <2>1. LinuxReport = "NONE" /\ LinuxReport' = "OPEN"
    BY <1>1, <1>2 DEF LinuxReport, Settled
  <2>2. LinuxCause' = "NONE" /\ LinuxCause = "NONE" /\ LinuxAcknowledged' = LinuxAcknowledged /\ ltree' = ltree
    BY <1>1, <2>1 DEF LinuxCause, LinuxAcknowledged, DriverGoes
  <2>3. Contract!StartAnswers
    BY <1>1, <2>1, <2>2 DEF Contract!StartAnswers, LinuxCause
  <2> QED
    BY <2>3 DEF Contract!ContractNext
<1>3. CASE driver'.start = driver.start \/ (driver.start = "PENDING" /\ driver'.start = "REJECTING")
  <2>1. SessionStays
    BY <1>1, <1>3 DEF SessionStays
  <2> QED
    BY <1>1, <2>1, AcknowledgeStep
<1> QED
  BY <1>1, <1>2, <1>3

LEMMA RejectMapped ==
  ASSUME LinuxInv, StartRejects
  PROVE  [Contract!ContractNext]_(Contract!contractVars)
<1>1. /\ DriverGoes /\ stage' = stage /\ driver.start = "REJECTING" /\ driver'.start = "REJECTED"
  BY StartRejectsGoes
<1>2. LinuxReport = "NONE" /\ LinuxReport' = "REJECTED"
  BY <1>1 DEF LinuxReport
<1>3. LinuxCause' = "NONE" /\ LinuxCause = "NONE" /\ LinuxAcknowledged' = LinuxAcknowledged /\ ltree' = ltree
  BY <1>1, <1>2 DEF LinuxCause, LinuxAcknowledged, DriverGoes
<1>4. Contract!StartAnswers
  BY <1>2, <1>3 DEF Contract!StartAnswers, LinuxCause
<1> QED
  BY <1>4 DEF Contract!ContractNext

LEMMA CloseMapped ==
  ASSUME LinuxInv, Close
  PROVE  [Contract!ContractNext]_(Contract!contractVars)
<1>1. /\ DriverGoes /\ driver.settled = "NO" /\ driver'.cause = driver.cause
      /\ \A c \in Calls : stage[c] = "ACKNOWLEDGED" <=> stage'[c] = "ACKNOWLEDGED"
      /\ driver'.settled \in {"UNRECONCILED", "TERMINAL"}
      /\ driver'.settled = "TERMINAL" => ltree = "EMPTY"
      /\ driver'.start = driver.start \/ (driver.start = "PENDING" /\ driver'.start = "REJECTING")
  BY CloseGoes
<1>2. driver \in DriverRecords /\ driver.cause \in Causes \cup {"NONE"} /\ ltree' = ltree
  BY <1>1 DEF LinuxInv, DriverTypes, DriverRecords, DriverGoes
<1>3. LinuxAcknowledged' = LinuxAcknowledged
  BY <1>1, AcknowledgedBy, AcknowledgedNext
<1>4. LinuxReport # "TERMINAL" /\ LinuxCause = "NONE"
  BY <1>1 DEF LinuxReport, LinuxCause, Settled
<1>5. CASE driver.start # "RESOLVED"
  <2>1. LinuxReport' = LinuxReport
    BY <1>1, <1>2, <1>5 DEF LinuxReport, DriverRecords
  <2>2. LinuxCause' = LinuxCause
    BY <1>4, <2>1 DEF LinuxCause
  <2> QED
    BY <1>2, <1>3, <2>1, <2>2 DEF Contract!contractVars, LinuxCause
<1>6. CASE driver.start = "RESOLVED" /\ driver'.settled = "UNRECONCILED"
  <2>1. LinuxReport = "OPEN" /\ LinuxReport' = "UNRECONCILED"
    BY <1>1, <1>6 DEF LinuxReport, Settled
  <2>2. LinuxCause' = LinuxCause
    BY <2>1 DEF LinuxCause
  <2>3. Contract!SettleUnreconciled
    BY <1>2, <1>3, <2>1, <2>2 DEF Contract!SettleUnreconciled, LinuxCause
  <2> QED
    BY <2>3 DEF Contract!ContractNext
<1>7. CASE driver.start = "RESOLVED" /\ driver'.settled = "TERMINAL"
  <2>1. LinuxReport = "OPEN" /\ LinuxReport' = "TERMINAL"
    BY <1>1, <1>7 DEF LinuxReport, Settled
  <2>2. LinuxCause' = driver.cause
    BY <1>1, <2>1 DEF LinuxCause
  <2>3. LinuxAcknowledged \subseteq {driver.cause}
    BY AcknowledgedIsTheCause
  <2>4. Contract!SettleTerminal(driver.cause)
    BY <1>1, <1>2, <1>3, <1>7, <2>1, <2>2, <2>3 DEF Contract!SettleTerminal, LinuxCause
  <2> QED
    BY <1>2, <2>4 DEF Contract!ContractNext
<1> QED
  BY <1>1, <1>5, <1>6, <1>7

LEMMA LinuxSimulates ==
  ASSUME LinuxInv, LinuxInv', [LinuxNext]_linuxVars
  PROVE  [Contract!ContractNext]_(Contract!contractVars)
<1>1. CASE UNCHANGED linuxVars
  BY <1>1, HelperStep DEF linuxVars
<1>2. CASE LinuxNext
  BY <1>2, HelperMapped, AcknowledgeStep, DriverReceivesGoes, TerminationGoes, AckTimesOutGoes, StartTimesOutGoes,
     EstablishMapped, RejectMapped, CloseMapped DEF LinuxNext
<1> QED
  BY <1>1, <1>2

LEMMA LinuxInitMapped == LinuxInit => Contract!ContractInit
<1> SUFFICES ASSUME LinuxInit PROVE Contract!ContractInit
  OBVIOUS
<1>1. LinuxReport = "NONE" /\ ltree = "NONE" /\ LinuxCause = "NONE"
  BY DEF LinuxInit, LinuxReport, LinuxCause
<1>2. \A c \in Calls : stage[c] = "IDLE"
  BY DEF LinuxInit
<1>3. LinuxAcknowledged = {}
  BY <1>2 DEF LinuxAcknowledged
<1> QED
  BY <1>1, <1>3 DEF Contract!ContractInit, LinuxCause

(* The Linux driver settles a tree as TERMINAL only when it is empty, tells  *)
(* its callers of one cause at most, and of the one it reports.              *)
THEOREM LinuxImplements == LinuxSpec => LinuxKeepsContract
<1>1. LinuxInit => LinuxInv
  BY LinuxInvInit
<1>2. LinuxInv /\ [LinuxNext]_linuxVars => LinuxInv'
  BY LinuxInvNext
<1>3. LinuxInit => Contract!ContractInit
  BY LinuxInitMapped
<1>4. LinuxInv /\ LinuxInv' /\ [LinuxNext]_linuxVars => [Contract!ContractNext]_(Contract!contractVars)
  BY LinuxSimulates
<1> QED
  BY <1>1, <1>2, <1>3, <1>4, PTL DEF LinuxSpec, LinuxKeepsContract, Contract!ContractSpec

-----------------------------------------------------------------------------
(* The Windows driver                                                        *)

JobTold == BOOLEAN \X (JobCauses \cup {"NONE"}) \X BOOLEAN
HostRecords ==
    [up : BOOLEAN, code : Int, cause : JobCauses \cup {"NONE"}, closed : BOOLEAN, told : {"NONE"} \cup JobTold]
SessionRecords ==
    [ready : BOOLEAN, failed : BOOLEAN, stdin : BOOLEAN, start : {"PENDING", "RESOLVED", "REJECTING", "REJECTED"},
     last : JobCauses \cup {"NONE"}, cause : JobCauses \cup {"NONE"}, terminal : BOOLEAN,
     settled : {"NO", "UNRECONCILED", "TERMINAL"}]
JobLines ==
    {e \in [type : {"ready", "state", "terminal", "ack", "error"}, cause : JobCauses \cup {"NONE"}] :
        /\ e.type = "ack" => e.cause # "NONE" /\ e.cause = host.cause
        /\ e.type = "terminal" => job = "EMPTY" /\ ~host.up /\ e.cause = host.cause
        /\ e.type = "ready" => job # "NONE"}

JobTypes ==
    /\ job \in Trees /\ jobDrained \in BOOLEAN /\ host \in HostRecords
    /\ wdriver \in SessionRecords /\ wstage \in [JobCalls -> Stages] /\ wcontrols \in Seq(JobCauses)
SessionSound ==
    /\ wdriver.ready => job # "NONE"
    /\ wdriver.last # "NONE" => wdriver.last = host.cause
    /\ wdriver.terminal => job = "EMPTY" /\ ~host.up /\ wdriver.cause = host.cause
    /\ wdriver.settled = "TERMINAL" => wdriver.terminal
    /\ \A c \in JobCalls : /\ wstage[c] = "ACKNOWLEDGED" => wdriver.last = JobCauseOf[c]
                           /\ wstage[c] # "IDLE" => wdriver.start = "RESOLVED"
JobLinesSound == wevents \in Seq(JobLines)
JobInv == JobTypes /\ SessionSound /\ JobLinesSound

(* The helper's first cause is its only one, and once gone it stays as it was. *)
JobOnward ==
    /\ job = "EMPTY" => job' = "EMPTY"
    /\ job # "NONE" => job' # "NONE"
    /\ host.cause # "NONE" => host'.cause = host.cause
    /\ ~host.up => host' = host

LEMMA JobLinesStay == ASSUME JobTypes, JobOnward PROVE JobLines \subseteq JobLines'
  BY DEF JobLines, JobOnward, JobTypes, HostRecords

(* A step of the helper or the tree.                                         *)
LEMMA HelperGoes ==
  ASSUME JobInv, JobTypes', JobOnward, \E more \in Seq(JobLines') : wevents' = wevents \o more,
         /\ wdriver'.ready = wdriver.ready /\ wdriver'.last = wdriver.last
         /\ wdriver'.terminal = wdriver.terminal /\ wdriver'.cause = wdriver.cause
         /\ wdriver'.settled = wdriver.settled
         /\ wdriver.start = "RESOLVED" => wdriver'.start = "RESOLVED"
         /\ wstage' = wstage
  PROVE  JobInv'
<1>1. wevents \in Seq(JobLines')
  BY JobLinesStay, SeqMonotonic DEF JobInv, JobLinesSound
<1>2. PICK more \in Seq(JobLines') : wevents' = wevents \o more
  OBVIOUS
<1>3. JobLinesSound'
  BY <1>1, <1>2, ConcatProperties DEF JobLinesSound
<1>4. SessionSound'
  BY DEF JobInv, SessionSound, JobOnward
<1> QED
  BY <1>3, <1>4 DEF JobInv

LEMMA SaysNothing == ASSUME JobInv, JobTypes, JobOnward, wevents' = wevents PROVE \E more \in Seq(JobLines') : wevents' = wevents \o more
<1>1. wevents \in Seq(JobLines')
  BY JobLinesStay, SeqMonotonic DEF JobInv, JobLinesSound
<1>2. << >> \in Seq(JobLines') /\ wevents \o << >> = wevents
  BY <1>1, EmptySeq, ConcatEmptySeq
<1> QED
  BY <1>2

LEMMA JobInvInit == JobInit => JobInv
<1> SUFFICES ASSUME JobInit PROVE JobInv
  OBVIOUS
<1>1. host \in HostRecords /\ wdriver \in SessionRecords
  BY DEF JobInit, HostRecords, SessionRecords
<1>2. job = "NONE" /\ jobDrained = FALSE /\ wcontrols = << >> /\ wevents = << >> /\ wstage = [c \in JobCalls |-> "IDLE"]
  BY DEF JobInit
<1>3. ~wdriver.ready /\ wdriver.last = "NONE" /\ ~wdriver.terminal /\ wdriver.settled = "NO"
  BY DEF JobInit
<1>4. JobTypes
  BY <1>1, <1>2, EmptySeq DEF JobTypes, Trees, Stages
<1>5. SessionSound
  BY <1>2, <1>3 DEF SessionSound
<1> QED
  BY <1>2, <1>4, <1>5, EmptySeq DEF JobInv, JobLinesSound

LEMMA UpdatedHost ==
  ASSUME NEW h \in HostRecords, NEW n \in {0, 70}
  PROVE  /\ [[h EXCEPT !.up = FALSE] EXCEPT !.code = n] \in HostRecords
         /\ [[h EXCEPT !.up = FALSE] EXCEPT !.code = n].cause = h.cause
<1> DEFINE k == [h EXCEPT !.up = FALSE]
<1>1. k \in HostRecords /\ k.cause = h.cause
  BY DEF HostRecords
<1>2. n \in Int
  OBVIOUS
<1> HIDE DEF k
<1>3. [k EXCEPT !.code = n] \in HostRecords
  BY <1>1, <1>2 DEF HostRecords
<1>4. [k EXCEPT !.code = n].cause = k.cause
  BY <1>1 DEF HostRecords
<1> QED
  BY <1>1, <1>3, <1>4 DEF k

(* The helper is gone, and the job with it.                                  *)
LEMMA ExitEffect ==
  ASSUME host \in HostRecords, job \in Trees, host.up, HelperExits(70)
  PROVE  /\ host' \in HostRecords /\ host'.cause = host.cause /\ job' \in Trees /\ JobOnward
         /\ job' = job \/ (job = "LIVE" /\ job' = "EMPTY")
<1>1. [host EXCEPT !.up = FALSE] \in HostRecords
  BY DEF HostRecords
<1>2. host' = [[host EXCEPT !.up = FALSE] EXCEPT !.code = 70]
  BY DEF HelperExits
<1>3. host' \in HostRecords /\ host'.cause = host.cause
  BY <1>1, <1>2, UpdatedHost
<1> QED
  BY <1>3 DEF HelperExits, Trees, JobOnward

LEMMA HelperEndsKeeps == ASSUME JobInv, HelperEnds PROVE JobInv'
<1>1. /\ host' \in HostRecords /\ host'.cause = host.cause /\ job' \in Trees /\ JobOnward
  BY ExitEffect DEF JobInv, JobTypes, HelperEnds
<1>2. JobTypes'
  BY <1>1 DEF JobInv, JobTypes, HelperEnds
<1>3. << >> \in Seq(JobLines') /\ <<WEv("error", "NONE")>> \in Seq(JobLines')
  BY EmptySeq DEF JobLines, WEv
<1> QED
  BY <1>1, <1>2, <1>3, HelperGoes DEF HelperEnds, Emit

LEMMA RunTargetKeeps == ASSUME JobInv, RunTarget PROVE JobInv'
<1>1. JobTypes' /\ JobOnward
  BY DEF JobInv, JobTypes, RunTarget, Trees, JobOnward
<1>2. <<WEv("ready", "NONE")>> \in Seq(JobLines')
  BY DEF JobLines, WEv, RunTarget
<1> QED
  BY <1>1, <1>2, HelperGoes DEF RunTarget, Emit

LEMMA QuietJobKeeps == ASSUME JobInv, JobEnds \/ JobDrains \/ ReadInput PROVE JobInv'
<1>1. JobTypes' /\ JobOnward
  <2>1. CASE JobEnds \/ JobDrains
    BY <2>1 DEF JobInv, JobTypes, JobEnds, JobDrains, Trees, JobOnward
  <2>2. CASE ReadInput
    BY <2>2 DEF JobInv, JobTypes, HostRecords, ReadInput, JobOnward
  <2> QED
    BY <2>1, <2>2
<1>2. wevents' = wevents /\ wdriver' = wdriver /\ wstage' = wstage
  BY DEF JobEnds, JobDrains, ReadInput
<1> QED
  BY <1>1, <1>2, SaysNothing, HelperGoes DEF JobInv

(* The launch gives up while nothing is resolved yet.                        *)
LEMMA LaunchTimesOutKeeps ==
  ASSUME JobInv, LaunchTimesOut
  PROVE  /\ JobInv' /\ wstage' = wstage
         /\ wdriver.start = "PENDING" /\ wdriver'.start = "REJECTING"
         /\ job' = job \/ (job = "LIVE" /\ job' = "EMPTY")
<1>1. host \in HostRecords /\ job \in Trees /\ wdriver \in SessionRecords
  BY DEF JobInv, JobTypes
<1>2. /\ host' \in HostRecords /\ job' \in Trees /\ JobOnward
      /\ job' = job \/ (job = "LIVE" /\ job' = "EMPTY")
  <2>1. CASE host.up
    BY <1>1, <2>1, ExitEffect DEF LaunchTimesOut
  <2>2. CASE ~host.up
    BY <1>1, <2>2 DEF LaunchTimesOut, JobOnward
  <2> QED
    BY <2>1, <2>2
<1>3. /\ wdriver' \in SessionRecords /\ wdriver.start = "PENDING" /\ wdriver'.start = "REJECTING"
      /\ wdriver'.ready = wdriver.ready /\ wdriver'.last = wdriver.last
      /\ wdriver'.terminal = wdriver.terminal /\ wdriver'.cause = wdriver.cause
      /\ wdriver'.settled = wdriver.settled
  BY <1>1 DEF LaunchTimesOut, SessionRecords
<1>4. JobTypes' /\ wstage' = wstage /\ wevents' = wevents
  BY <1>2, <1>3 DEF JobInv, JobTypes, LaunchTimesOut
<1> QED
  BY <1>2, <1>3, <1>4, SaysNothing, HelperGoes DEF JobInv

(* One turn of the loop ends: h is the helper by then, G the true lines.     *)
LEMMA TurnMoves ==
  ASSUME NEW h \in HostRecords, NEW live \in BOOLEAN, NEW said, jobDrained \in BOOLEAN, Turn(h, live, said)
  PROVE  host' \in HostRecords /\ host'.cause = h.cause
<1> DEFINE now == <<live, h.cause, jobDrained>>
<1>1. now \in JobTold
  BY DEF JobTold, HostRecords
<1>2. host' = [h EXCEPT !.up = FALSE, !.code = 0] \/ host' = [h EXCEPT !.told = now]
  BY Zenon DEF Turn
<1> HIDE DEF now
<1>3. CASE host' = [h EXCEPT !.up = FALSE, !.code = 0]
  <2>1. [h EXCEPT !.up = FALSE] \in HostRecords
    BY DEF HostRecords
  <2>2. host' = [[h EXCEPT !.up = FALSE] EXCEPT !.code = 0]
    BY <1>3
  <2> QED
    BY <2>2, UpdatedHost
<1>4. CASE host' = [h EXCEPT !.told = now]
  BY <1>1, <1>4 DEF HostRecords
<1> QED
  BY <1>2, <1>3, <1>4

LEMMA TurnSays ==
  ASSUME NEW h \in HostRecords, NEW live \in BOOLEAN, NEW G, NEW said \in Seq(G), jobDrained \in BOOLEAN,
         WEv("state", h.cause) \in G, ~live /\ ~host'.up => WEv("terminal", h.cause) \in G,
         Turn(h, live, said)
  PROVE  \E more \in Seq(G) : wevents' = wevents \o more
<1> DEFINE now == <<live, h.cause, jobDrained>>
           state == IF now # h.told THEN <<WEv("state", h.cause)>> ELSE << >>
           sent == said \o state
           last == sent \o <<WEv("terminal", h.cause)>>
<1>1. \/ ~live /\ host' = [h EXCEPT !.up = FALSE, !.code = 0] /\ Emit(last)
      \/ Emit(sent)
  BY Zenon DEF Turn
<1>2. state \in Seq(G)
  BY EmptySeq
<1> HIDE DEF state
<1>3. sent \in Seq(G)
  BY <1>2, ConcatProperties
<1> HIDE DEF sent
<1>4. CASE ~live /\ host' = [h EXCEPT !.up = FALSE, !.code = 0] /\ Emit(last)
  <2>1. ~host'.up
    BY <1>4 DEF HostRecords
  <2>2. <<WEv("terminal", h.cause)>> \in Seq(G)
    BY <1>4, <2>1
  <2>3. last \in Seq(G)
    BY <1>3, <2>2, ConcatProperties
  <2> HIDE DEF last
  <2> QED
    BY <1>4, <2>3 DEF Emit
<1>5. CASE Emit(sent)
  BY <1>3, <1>5 DEF Emit
<1> QED
  BY <1>1, <1>4, <1>5

LEMMA LoopKeeps == ASSUME JobInv, Loop PROVE JobInv'
<1>1. /\ job \in Trees /\ job # "NONE" /\ host \in HostRecords /\ host.up /\ jobDrained \in BOOLEAN
      /\ job' \in (IF job = "LIVE" THEN {"LIVE", "EMPTY"} ELSE {job})
      /\ UNCHANGED <<jobDrained, wdriver, wstage>>
  BY DEF JobInv, JobTypes, Loop
<1>2. job' \in {"LIVE", "EMPTY"} /\ (job = "EMPTY" => job' = "EMPTY")
  BY <1>1 DEF Trees
<1>3. PICK h \in HostRecords : \E said \in {<< >>, <<WEv("ack", h.cause)>>} :
        /\ Turn(h, job' = "LIVE", said)
        /\ host.cause # "NONE" => h.cause = host.cause
        /\ said # << >> => h.cause # "NONE"
  <2>1. /\ wcontrols # << >> => Head(wcontrols) \in JobCauses
        /\ \A c \in JobCauses : c # "NONE"
    BY HeadTailProperties DEF JobInv, JobTypes, JobCauses
  <2>2. \A c \in JobCauses : [host EXCEPT !.cause = c] \in HostRecords /\ [host EXCEPT !.cause = c].cause = c
    BY <1>1 DEF HostRecords
  <2>3. "CANCEL" \in JobCauses /\ "TIMEOUT" \in JobCauses
    BY DEF JobCauses
  <2>4. CASE /\ host.cause = "NONE" /\ wcontrols # << >>
             /\ Turn([host EXCEPT !.cause = Head(wcontrols)], job' = "LIVE", <<WEv("ack", Head(wcontrols))>>)
    <3>1. PICK c \in JobCauses : c = Head(wcontrols)
      BY <2>1, <2>4
    <3>2. Turn([host EXCEPT !.cause = c], job' = "LIVE", <<WEv("ack", c)>>)
      BY <2>4, <3>1
    <3>3. PICK k \in HostRecords : k = [host EXCEPT !.cause = c]
      BY <2>2
    <3>4. k.cause = c /\ c # "NONE"
      BY <2>1, <2>2, <3>3
    <3> QED
      BY <2>4, <3>2, <3>3, <3>4
  <2>5. CASE host.cause = "NONE" /\ Turn([host EXCEPT !.cause = "CANCEL"], job' = "LIVE", << >>)
    BY <2>2, <2>3, <2>5
  <2>6. CASE host.cause = "NONE" /\ Turn([host EXCEPT !.cause = "TIMEOUT"], job' = "LIVE", <<WEv("ack", "TIMEOUT")>>)
    <3>1. PICK k \in HostRecords : k = [host EXCEPT !.cause = "TIMEOUT"] /\ k.cause = "TIMEOUT"
      BY <2>2, <2>3
    <3> QED
      BY <2>6, <3>1
  <2>7. CASE Turn(host, job' = "LIVE", << >>)
    BY <1>1, <2>7
  <2> QED
    BY <2>4, <2>5, <2>6, <2>7, Zenon DEF Loop
<1>33. PICK said \in {<< >>, <<WEv("ack", h.cause)>>} :
        /\ Turn(h, job' = "LIVE", said)
        /\ said # << >> => h.cause # "NONE"
  BY <1>3
<1>34. PICK live \in BOOLEAN : live = (job' = "LIVE")
  OBVIOUS
<1>35. Turn(h, live, said)
  BY <1>33, <1>34
<1>4. wcontrols' \in Seq(JobCauses)
  BY HeadTailProperties DEF JobInv, JobTypes, Loop
<1>5. host' \in HostRecords /\ host'.cause = h.cause
  BY <1>1, <1>35, TurnMoves
<1>6. JobTypes' /\ JobOnward
  BY <1>1, <1>2, <1>3, <1>4, <1>5 DEF JobInv, JobTypes, Trees, JobOnward
<1> DEFINE G == JobLines'
<1>7. WEv("state", h.cause) \in G /\ (job' # "LIVE" /\ ~host'.up => WEv("terminal", h.cause) \in G)
  BY <1>2, <1>5 DEF JobLines, WEv, HostRecords
<1>8. said \in Seq(G)
  <2>1. CASE said = << >>
    BY <2>1, EmptySeq
  <2>2. CASE said # << >> /\ said = <<WEv("ack", h.cause)>>
    <3>1. WEv("ack", h.cause) \in G
      BY <1>33, <1>5, <2>2 DEF JobLines, WEv, HostRecords
    <3> QED
      BY <2>2, <3>1
  <2> QED
    BY <2>1, <2>2
<1> HIDE DEF G
<1>9. \E more \in Seq(G) : wevents' = wevents \o more
  BY <1>1, <1>34, <1>35, <1>7, <1>8, TurnSays
<1> QED
  BY <1>1, <1>6, <1>9, HelperGoes DEF G

(* What every step of the session keeps to.                                  *)
SessionGoes ==
    /\ UNCHANGED <<job, jobDrained, host>>
    /\ wdriver' \in SessionRecords /\ wstage' \in [JobCalls -> Stages] /\ wcontrols' \in Seq(JobCauses)
    /\ wevents' = wevents \/ (wevents # << >> /\ wevents' = Tail(wevents))
    /\ wdriver'.ready => job # "NONE"
    /\ wdriver'.last # "NONE" => wdriver'.last = host.cause
    /\ wdriver.last # "NONE" => wdriver'.last = wdriver.last
    /\ wdriver'.terminal => job = "EMPTY" /\ ~host.up /\ wdriver'.cause = host.cause
    /\ wdriver'.settled = "TERMINAL" => wdriver'.terminal
    /\ wdriver.start = "RESOLVED" => wdriver'.start = "RESOLVED"
    /\ \A c \in JobCalls :
          /\ wstage[c] = "ACKNOWLEDGED" => wstage'[c] = "ACKNOWLEDGED"
          /\ wstage'[c] = "ACKNOWLEDGED" => wstage[c] = "ACKNOWLEDGED" \/ wdriver'.last = JobCauseOf[c]
          /\ wstage'[c] # "IDLE" => wstage[c] # "IDLE" \/ wdriver'.start = "RESOLVED"

LEMMA CausesAreNamed == \A c \in JobCalls : JobCauseOf[c] \in JobCauses /\ JobCauseOf[c] # "NONE"
  BY WindowsAssumption DEF WindowsAssumption, JobCauses

LEMMA SessionGoesKeeps == ASSUME JobInv, SessionGoes PROVE JobInv'
<1>1. JobTypes'
  BY DEF JobInv, JobTypes, SessionGoes
<1>2. SessionSound'
  BY CausesAreNamed DEF JobInv, SessionSound, SessionGoes
<1>3. JobLines' = JobLines
  BY DEF JobLines, SessionGoes
<1>4. wevents' \in Seq(JobLines)
  BY HeadTailProperties DEF JobInv, JobLinesSound, SessionGoes
<1> QED
  BY <1>1, <1>2, <1>3, <1>4 DEF JobInv, JobLinesSound

WResolveSays(c) ==
    /\ WResolve(c) \in [JobCalls -> Stages]
    /\ \A k \in JobCalls :
          /\ wstage[k] = "ACKNOWLEDGED" => WResolve(c)[k] = "ACKNOWLEDGED"
          /\ WResolve(c)[k] = "ACKNOWLEDGED" => wstage[k] = "ACKNOWLEDGED" \/ c = JobCauseOf[k]
          /\ WResolve(c)[k] # "IDLE" => wstage[k] # "IDLE"
LEMMA WResolveEffect == ASSUME wstage \in [JobCalls -> Stages], NEW c PROVE WResolveSays(c)
  BY DEF WResolve, Stages, WResolveSays

(* What the host sees of the session does not move, acknowledgements apart.  *)
JobSessionStays ==
    /\ wdriver'.settled = wdriver.settled
    /\ wdriver'.start = wdriver.start \/ (wdriver.start = "PENDING" /\ wdriver'.start = "REJECTING")
    /\ wdriver.settled # "NO" => wdriver'.cause = wdriver.cause

JobGiven == /\ wdriver \in SessionRecords /\ wstage \in [JobCalls -> Stages] /\ wcontrols \in Seq(JobCauses) /\ SessionSound
LEMMA JobGivens == JobInv => JobGiven
  BY DEF JobInv, JobTypes, JobGiven

LEMMA JobReceivesGoes ==
  ASSUME JobInv, JobReceives
  PROVE  /\ SessionGoes
         /\ \/ JobSessionStays
            \/ /\ wdriver.start = "PENDING" /\ wdriver'.start = "RESOLVED" /\ job # "NONE" /\ wstage' = wstage
               /\ wdriver.settled = "NO" /\ wdriver'.settled = "NO"
<1> DEFINE e == Head(wevents)
<1>1. JobGiven
  BY JobGivens
<1>2. e \in JobLines
  BY HeadTailProperties DEF JobReceives, JobInv, JobLinesSound
<1>3. /\ UNCHANGED <<job, jobDrained, host, wcontrols>> /\ wevents # << >> /\ wevents' = Tail(wevents)
      /\ wdriver.settled = "NO"
  BY DEF JobReceives, JobSettled
<1>4. \/ UNCHANGED <<wdriver, wstage>>
      \/ wdriver' = WFail(wdriver) /\ wstage' = WResolve("NONE")
      \/ /\ e.type = "ready" /\ UNCHANGED wstage
         /\ wdriver' = [wdriver EXCEPT !.ready = TRUE, !.start = IF @ = "PENDING" THEN "RESOLVED" ELSE @]
      \/ e.type = "ack" /\ wdriver' = [wdriver EXCEPT !.last = e.cause] /\ wstage' = WResolve(e.cause)
      \/ /\ e.type = "terminal" /\ wdriver' = [wdriver EXCEPT !.terminal = TRUE, !.cause = e.cause]
         /\ UNCHANGED wstage
  BY Zenon DEF JobReceives
<1> HIDE DEF e
<1>5. /\ e.cause \in JobCauses \cup {"NONE"}
      /\ e.type = "ready" => job # "NONE"
      /\ e.type = "terminal" => job = "EMPTY" /\ ~host.up /\ e.cause = host.cause
      /\ e.type = "ack" => e.cause # "NONE" /\ e.cause = host.cause
  BY <1>2 DEF JobLines
<1>6. CASE UNCHANGED <<wdriver, wstage>>
  BY <1>1, <1>3, <1>6 DEF JobGiven, SessionGoes, JobSessionStays, SessionSound
<1>7. CASE wdriver' = WFail(wdriver) /\ wstage' = WResolve("NONE")
  <2>1. /\ wdriver' \in SessionRecords
        /\ wdriver'.ready = wdriver.ready /\ wdriver'.last = wdriver.last /\ wdriver'.cause = wdriver.cause
        /\ wdriver'.terminal = wdriver.terminal /\ wdriver'.settled = wdriver.settled
        /\ wdriver'.start = wdriver.start \/ (wdriver.start = "PENDING" /\ wdriver'.start = "REJECTING")
    BY <1>1, <1>7 DEF JobGiven, WFail, SessionRecords
  <2>2. WResolveSays("NONE")
    BY <1>1, WResolveEffect DEF JobGiven
  <2> QED
    BY <1>1, <1>3, <1>7, <2>1, <2>2, CausesAreNamed
    DEF JobGiven, SessionGoes, JobSessionStays, SessionSound, WResolveSays
<1>8. CASE /\ e.type = "ready" /\ UNCHANGED wstage
           /\ wdriver' = [wdriver EXCEPT !.ready = TRUE, !.start = IF @ = "PENDING" THEN "RESOLVED" ELSE @]
  <2>1. /\ wdriver' \in SessionRecords
        /\ wdriver'.last = wdriver.last /\ wdriver'.cause = wdriver.cause
        /\ wdriver'.terminal = wdriver.terminal /\ wdriver'.settled = wdriver.settled
        /\ wdriver'.start = wdriver.start \/ (wdriver.start = "PENDING" /\ wdriver'.start = "RESOLVED")
    BY <1>1, <1>8 DEF JobGiven, SessionRecords
  <2> QED
    BY <1>1, <1>3, <1>5, <1>8, <2>1 DEF JobGiven, SessionGoes, JobSessionStays, SessionSound
<1>9. CASE e.type = "ack" /\ wdriver' = [wdriver EXCEPT !.last = e.cause] /\ wstage' = WResolve(e.cause)
  <2>1. /\ wdriver' \in SessionRecords
        /\ wdriver'.ready = wdriver.ready /\ wdriver'.last = e.cause /\ wdriver'.cause = wdriver.cause
        /\ wdriver'.terminal = wdriver.terminal /\ wdriver'.settled = wdriver.settled
        /\ wdriver'.start = wdriver.start
    BY <1>1, <1>5, <1>9 DEF JobGiven, SessionRecords
  <2>2. WResolveSays(e.cause)
    BY <1>1, WResolveEffect DEF JobGiven
  <2> QED
    BY <1>1, <1>3, <1>5, <1>9, <2>1, <2>2 DEF JobGiven, SessionGoes, JobSessionStays, SessionSound, WResolveSays
<1>10. CASE /\ e.type = "terminal" /\ wdriver' = [wdriver EXCEPT !.terminal = TRUE, !.cause = e.cause]
            /\ UNCHANGED wstage
  <2>1. /\ wdriver' \in SessionRecords
        /\ wdriver'.ready = wdriver.ready /\ wdriver'.last = wdriver.last /\ wdriver'.cause = e.cause
        /\ wdriver'.settled = wdriver.settled /\ wdriver'.start = wdriver.start
    BY <1>1, <1>5, <1>10 DEF JobGiven, SessionRecords
  <2> QED
    BY <1>1, <1>3, <1>5, <1>10, <2>1 DEF JobGiven, SessionGoes, JobSessionStays, SessionSound
<1> QED
  BY <1>4, <1>6, <1>7, <1>8, <1>9, <1>10

LEMMA CancelGoes ==
  ASSUME JobInv, NEW c \in JobCalls, CancelJob(c) \/ CancelTimesOut(c)
  PROVE  SessionGoes /\ JobSessionStays
<1>1. /\ JobGiven /\ wstage[c] \in {"IDLE", "WAIT"} /\ JobCauseOf[c] \in JobCauses
      /\ wdriver.start = "RESOLVED"
      /\ UNCHANGED <<job, jobDrained, host, wdriver, wevents>>
  BY JobGivens, CausesAreNamed DEF CancelJob, CancelTimesOut, JobGiven, SessionSound
<1>2. \/ /\ wstage' = [wstage EXCEPT ![c] = "NOT_PROVEN"] /\ UNCHANGED wcontrols
      \/ /\ wstage' = [wstage EXCEPT ![c] = IF wdriver.last = JobCauseOf[c] THEN "ACKNOWLEDGED" ELSE "NOT_PROVEN"]
         /\ UNCHANGED wcontrols
      \/ /\ wstage' = [wstage EXCEPT ![c] = "WAIT"] /\ wcontrols' = Append(wcontrols, JobCauseOf[c])
  BY Zenon DEF CancelJob, CancelTimesOut
<1>3. wcontrols' \in Seq(JobCauses)
  BY <1>1, <1>2, AppendProperties DEF JobGiven
<1> QED
  BY <1>1, <1>2, <1>3 DEF JobGiven, SessionGoes, JobSessionStays, SessionSound, Stages

LEMMA LaunchRejectsGoes ==
  ASSUME JobInv, LaunchRejects
  PROVE  SessionGoes /\ wstage' = wstage /\ wdriver.start = "REJECTING" /\ wdriver'.start = "REJECTED"
<1>1. JobGiven
  BY JobGivens
<1>2. /\ wdriver' \in SessionRecords
      /\ wdriver'.ready = wdriver.ready /\ wdriver'.last = wdriver.last /\ wdriver'.cause = wdriver.cause
      /\ wdriver'.terminal = wdriver.terminal /\ wdriver'.settled = wdriver.settled
      /\ wdriver.start = "REJECTING" /\ wdriver'.start = "REJECTED"
  BY <1>1 DEF LaunchRejects, SessionRecords, JobGiven
<1> QED
  BY <1>1, <1>2 DEF LaunchRejects, JobGiven, SessionGoes, SessionSound

LEMMA JobCloseGoes ==
  ASSUME JobInv, JobClose
  PROVE  /\ SessionGoes /\ wdriver.settled = "NO" /\ wdriver'.cause = wdriver.cause
         /\ \A c \in JobCalls : wstage[c] = "ACKNOWLEDGED" <=> wstage'[c] = "ACKNOWLEDGED"
         /\ wdriver'.settled \in {"UNRECONCILED", "TERMINAL"}
         /\ wdriver'.settled = "TERMINAL" => wdriver.terminal
         /\ wdriver'.start = wdriver.start \/ (wdriver.start = "PENDING" /\ wdriver'.start = "REJECTING")
<1>1. JobGiven /\ wdriver.settled = "NO" /\ UNCHANGED <<job, jobDrained, host, wcontrols, wevents>>
  BY JobGivens DEF JobClose, JobSettled
<1>2. WResolveSays("NONE")
  BY <1>1, WResolveEffect DEF JobGiven
<1>3. PICK verdict \in {"UNRECONCILED", "TERMINAL"} :
        /\ wdriver' = [wdriver EXCEPT !.settled = verdict, !.start = IF @ = "PENDING" THEN "REJECTING" ELSE @]
        /\ verdict = "TERMINAL" => wdriver.terminal
  BY DEF JobClose
<1>4. /\ wdriver' \in SessionRecords
      /\ wdriver'.ready = wdriver.ready /\ wdriver'.last = wdriver.last /\ wdriver'.cause = wdriver.cause
      /\ wdriver'.terminal = wdriver.terminal /\ wdriver'.settled = verdict
      /\ wdriver'.start = wdriver.start \/ (wdriver.start = "PENDING" /\ wdriver'.start = "REJECTING")
  BY <1>1, <1>3 DEF JobGiven, SessionRecords
<1>5. /\ wstage' \in [JobCalls -> Stages]
      /\ \A c \in JobCalls : /\ wstage[c] = "ACKNOWLEDGED" <=> wstage'[c] = "ACKNOWLEDGED"
                             /\ wstage'[c] # "IDLE" => wstage[c] # "IDLE"
  BY <1>2, CausesAreNamed DEF JobClose, WResolveSays
<1> QED
  BY <1>1, <1>3, <1>4, <1>5 DEF JobGiven, SessionGoes, SessionSound

LEMMA JobInvNext == JobInv /\ [JobNext]_jobVars => JobInv'
<1> SUFFICES ASSUME JobInv, [JobNext]_jobVars PROVE JobInv'
  OBVIOUS
<1>1. CASE UNCHANGED jobVars
  <2>1. JobTypes' /\ JobOnward
    BY <1>1 DEF jobVars, JobInv, JobTypes, JobOnward
  <2> QED
    BY <1>1, <2>1, SaysNothing, HelperGoes DEF jobVars, JobInv
<1>2. CASE JobNext
  BY <1>2, HelperEndsKeeps, RunTargetKeeps, QuietJobKeeps, LaunchTimesOutKeeps, LoopKeeps, SessionGoesKeeps,
     JobReceivesGoes, CancelGoes, LaunchRejectsGoes, JobCloseGoes DEF JobNext
<1> QED
  BY <1>1, <1>2
-----------------------------------------------------------------------------
(* The refinement.                                                           *)
JobAcknowledged == {JobCauseOf[c] : c \in {k \in JobCalls : wstage[k] = "ACKNOWLEDGED"}}
JobCause == IF JobReport = "TERMINAL" THEN wdriver.cause ELSE "NONE"

LEMMA JobAcknowledgedBy ==
  /\ \A x : x \in JobAcknowledged <=> \E c \in JobCalls : wstage[c] = "ACKNOWLEDGED" /\ x = JobCauseOf[c]
  /\ \A x : x \in JobAcknowledged' <=> \E c \in JobCalls : wstage'[c] = "ACKNOWLEDGED" /\ x = JobCauseOf[c]
  BY DEF JobAcknowledged

LEMMA JobReportStays ==
  ASSUME JobInv, JobSessionStays
  PROVE  JobReport' = JobReport /\ JobCause' = JobCause
<1>1. wdriver \in SessionRecords
  BY DEF JobInv, JobTypes
<1>2. JobReport' = JobReport
  BY <1>1 DEF JobSessionStays, JobReport, JobSettled, SessionRecords
<1>3. JobReport = "TERMINAL" => wdriver.settled # "NO"
  BY <1>1 DEF JobReport, JobSettled, SessionRecords
<1> QED
  BY <1>2, <1>3 DEF JobCause, JobSessionStays

LEMMA JobAcknowledgeStep ==
  ASSUME JobInv, JobInv', SessionGoes, JobSessionStays
  PROVE  [Promise!ContractNext]_(Promise!contractVars)
<1>1. job' = job /\ host' = host /\ JobReport' = JobReport /\ JobCause' = JobCause
  BY JobReportStays DEF SessionGoes
<1>2. JobAcknowledged \subseteq JobAcknowledged'
  BY JobAcknowledgedBy DEF SessionGoes
<1>3. CASE JobAcknowledged' = JobAcknowledged
  BY <1>1, <1>3 DEF Promise!contractVars, JobCause, JobAcknowledged
<1>4. CASE JobAcknowledged' # JobAcknowledged
  <2>1. PICK x \in JobAcknowledged' : x \notin JobAcknowledged
    BY <1>2, <1>4
  <2>2. \A y \in JobAcknowledged' : y = host.cause /\ y \in JobCauses /\ wdriver'.start = "RESOLVED"
    <3> SUFFICES ASSUME NEW y \in JobAcknowledged'
                 PROVE  y = host.cause /\ y \in JobCauses /\ wdriver'.start = "RESOLVED"
      OBVIOUS
    <3>1. PICK c \in JobCalls : wstage'[c] = "ACKNOWLEDGED" /\ y = JobCauseOf[c]
      BY JobAcknowledgedBy
    <3> QED
      BY <1>1, <3>1, CausesAreNamed DEF JobInv, SessionSound
  <2>3. x = host.cause /\ x \in JobCauses /\ wdriver'.start = "RESOLVED"
    BY <2>1, <2>2
  <2>4. JobAcknowledged' = {x} /\ JobAcknowledged \subseteq {x}
    BY <1>2, <2>1, <2>2, <2>3
  <2>5. JobReport # "NONE" /\ (JobReport = "TERMINAL" => JobCause = x)
    <3>1. JobReport' # "NONE"
      BY <2>3 DEF JobReport, JobSettled, JobInv, JobTypes, SessionRecords
    <3>2. PICK c \in JobCalls : wstage'[c] = "ACKNOWLEDGED" /\ wstage[c] # "ACKNOWLEDGED"
      BY <2>1, JobAcknowledgedBy
    <3>3. JobReport' = "TERMINAL" => wdriver'.settled = "TERMINAL"
      BY <2>3 DEF JobReport, JobSettled
    <3>4. wdriver'.settled = "TERMINAL" => wdriver'.terminal
      BY DEF JobInv, SessionSound
    <3> QED
      BY <1>1, <2>3, <3>1, <3>3, <3>4 DEF JobInv, SessionSound, JobCause
  <2>6. Promise!Acknowledge(x)
    BY <1>1, <2>4, <2>5 DEF Promise!Acknowledge, JobCause, JobAcknowledged
  <2> QED
    BY <2>3, <2>6 DEF Promise!ContractNext
<1> QED
  BY <1>3, <1>4

LEMMA JobHelperStep ==
  ASSUME JobInv, JobSessionStays, wstage' = wstage,
         \/ job' = job
         \/ job = "NONE" /\ job' = "LIVE"
         \/ job = "LIVE" /\ job' = "EMPTY"
  PROVE  [Promise!ContractNext]_(Promise!contractVars)
<1>1. JobReport' = JobReport /\ JobAcknowledged' = JobAcknowledged /\ JobCause' = JobCause
  BY JobReportStays DEF JobAcknowledged
<1>2. CASE job' = job
  BY <1>1, <1>2 DEF Promise!contractVars, JobCause, JobAcknowledged
<1>3. CASE job = "NONE" /\ job' = "LIVE"
  BY <1>1, <1>3 DEF Promise!ContractNext, Promise!TreeStarts, JobCause, JobAcknowledged
<1>4. CASE job = "LIVE" /\ job' = "EMPTY"
  BY <1>1, <1>4 DEF Promise!ContractNext, Promise!TreeEnds, JobCause, JobAcknowledged
<1> QED
  BY <1>2, <1>3, <1>4

LEMMA JobHelperMapped ==
  ASSUME JobInv, JobEnds \/ JobDrains \/ HelperEnds \/ RunTarget \/ ReadInput \/ Loop \/ LaunchTimesOut
  PROVE  [Promise!ContractNext]_(Promise!contractVars)
<1>1. CASE LaunchTimesOut
  <2>1. wdriver \in SessionRecords
    BY DEF JobInv, JobTypes
  <2>2. wdriver'.settled = wdriver.settled /\ wdriver'.cause = wdriver.cause
    BY <1>1, <2>1 DEF LaunchTimesOut, SessionRecords
  <2>3. JobSessionStays
    BY <1>1, <2>2, LaunchTimesOutKeeps DEF JobSessionStays
  <2> QED
    BY <1>1, <2>3, LaunchTimesOutKeeps, JobHelperStep
<1>2. CASE JobEnds \/ JobDrains \/ HelperEnds \/ RunTarget \/ ReadInput \/ Loop
  <2>1. wdriver' = wdriver /\ wstage' = wstage
    BY <1>2 DEF JobEnds, JobDrains, HelperEnds, RunTarget, ReadInput, Loop
  <2>2. \/ job' = job
        \/ job = "NONE" /\ job' = "LIVE"
        \/ job = "LIVE" /\ job' = "EMPTY"
    BY <1>2 DEF JobEnds, JobDrains, HelperEnds, RunTarget, ReadInput, Loop, HelperExits
  <2> QED
    BY <2>1, <2>2, JobHelperStep DEF JobSessionStays
<1> QED
  BY <1>1, <1>2

LEMMA JobReceivesMapped ==
  ASSUME JobInv, JobInv', JobReceives
  PROVE  [Promise!ContractNext]_(Promise!contractVars)
<1>1. CASE JobSessionStays
  BY <1>1, JobReceivesGoes, JobAcknowledgeStep
<1>2. CASE /\ SessionGoes /\ wdriver.start = "PENDING" /\ wdriver'.start = "RESOLVED" /\ job # "NONE"
           /\ wstage' = wstage /\ wdriver.settled = "NO" /\ wdriver'.settled = "NO"
  <2>1. JobReport = "NONE" /\ JobReport' = "OPEN"
    BY <1>2 DEF JobReport, JobSettled
  <2>2. JobCause = "NONE" /\ JobCause' = "NONE" /\ JobAcknowledged' = JobAcknowledged /\ job' = job
    BY <1>2, <2>1 DEF JobCause, JobAcknowledged, SessionGoes
  <2>3. Promise!StartAnswers
    BY <1>2, <2>1, <2>2 DEF Promise!StartAnswers, JobCause, JobAcknowledged
  <2> QED
    BY <2>3 DEF Promise!ContractNext
<1> QED
  BY <1>1, <1>2, JobReceivesGoes

LEMMA JobRejectMapped ==
  ASSUME JobInv, LaunchRejects
  PROVE  [Promise!ContractNext]_(Promise!contractVars)
<1>1. SessionGoes /\ wstage' = wstage /\ wdriver.start = "REJECTING" /\ wdriver'.start = "REJECTED"
  BY LaunchRejectsGoes
<1>2. JobReport = "NONE" /\ JobReport' = "REJECTED"
  BY <1>1 DEF JobReport
<1>3. JobCause = "NONE" /\ JobCause' = "NONE" /\ JobAcknowledged' = JobAcknowledged /\ job' = job
  BY <1>1, <1>2 DEF JobCause, JobAcknowledged, SessionGoes
<1>4. Promise!StartAnswers
  BY <1>2, <1>3 DEF Promise!StartAnswers, JobCause, JobAcknowledged
<1> QED
  BY <1>4 DEF Promise!ContractNext

LEMMA JobCloseMapped ==
  ASSUME JobInv, JobClose
  PROVE  [Promise!ContractNext]_(Promise!contractVars)
<1>1. /\ SessionGoes /\ wdriver.settled = "NO" /\ wdriver'.cause = wdriver.cause
      /\ \A c \in JobCalls : wstage[c] = "ACKNOWLEDGED" <=> wstage'[c] = "ACKNOWLEDGED"
      /\ wdriver'.settled \in {"UNRECONCILED", "TERMINAL"}
      /\ wdriver'.settled = "TERMINAL" => wdriver.terminal
      /\ wdriver'.start = wdriver.start \/ (wdriver.start = "PENDING" /\ wdriver'.start = "REJECTING")
  BY JobCloseGoes
<1>2. wdriver \in SessionRecords /\ wdriver.cause \in JobCauses \cup {"NONE"} /\ job' = job
  BY <1>1 DEF JobInv, JobTypes, SessionRecords, SessionGoes
<1>3. JobAcknowledged' = JobAcknowledged
  BY <1>1, JobAcknowledgedBy
<1>4. JobReport # "TERMINAL" /\ JobCause = "NONE"
  BY <1>1 DEF JobReport, JobCause, JobSettled
<1>5. CASE wdriver.start # "RESOLVED"
  <2>1. JobReport' = JobReport
    BY <1>1, <1>2, <1>5 DEF JobReport, SessionRecords
  <2>2. JobCause' = JobCause
    BY <1>4, <2>1 DEF JobCause
  <2> QED
    BY <1>2, <1>3, <2>1, <2>2 DEF Promise!contractVars, JobCause, JobAcknowledged
<1>6. CASE wdriver.start = "RESOLVED" /\ wdriver'.settled = "UNRECONCILED"
  <2>1. JobReport = "OPEN" /\ JobReport' = "UNRECONCILED"
    BY <1>1, <1>6 DEF JobReport, JobSettled
  <2>2. JobCause' = JobCause
    BY <2>1 DEF JobCause
  <2>3. Promise!SettleUnreconciled
    BY <1>2, <1>3, <2>1, <2>2 DEF Promise!SettleUnreconciled, JobCause, JobAcknowledged
  <2> QED
    BY <2>3 DEF Promise!ContractNext
<1>7. CASE wdriver.start = "RESOLVED" /\ wdriver'.settled = "TERMINAL"
  <2>1. JobReport = "OPEN" /\ JobReport' = "TERMINAL"
    BY <1>1, <1>7 DEF JobReport, JobSettled
  <2>2. JobCause' = wdriver.cause
    BY <1>1, <2>1 DEF JobCause
  <2>3. JobAcknowledged \subseteq {wdriver.cause} /\ job = "EMPTY"
    BY <1>1, <1>7, JobAcknowledgedBy, CausesAreNamed DEF JobInv, SessionSound
  <2>4. Promise!SettleTerminal(wdriver.cause)
    BY <1>2, <1>3, <2>1, <2>2, <2>3 DEF Promise!SettleTerminal, JobCause, JobAcknowledged
  <2> QED
    BY <1>2, <2>4 DEF Promise!ContractNext
<1> QED
  BY <1>1, <1>5, <1>6, <1>7

LEMMA WindowsSimulates ==
  ASSUME JobInv, JobInv', [JobNext]_jobVars
  PROVE  [Promise!ContractNext]_(Promise!contractVars)
<1>1. CASE UNCHANGED jobVars
  BY <1>1, JobHelperStep DEF jobVars, JobSessionStays
<1>2. CASE JobNext
  BY <1>2, JobHelperMapped, JobAcknowledgeStep, CancelGoes, JobReceivesMapped, JobRejectMapped, JobCloseMapped
  DEF JobNext
<1> QED
  BY <1>1, <1>2

LEMMA JobInitMapped == JobInit => Promise!ContractInit
<1> SUFFICES ASSUME JobInit PROVE Promise!ContractInit
  OBVIOUS
<1>1. JobReport = "NONE" /\ job = "NONE" /\ JobCause = "NONE"
  BY DEF JobInit, JobReport, JobCause
<1>2. \A c \in JobCalls : wstage[c] = "IDLE"
  BY DEF JobInit
<1>3. JobAcknowledged = {}
  BY <1>2 DEF JobAcknowledged
<1> QED
  BY <1>1, <1>3 DEF Promise!ContractInit, JobCause, JobAcknowledged

(* So does the Windows driver, whose timer and job belong to the helper.     *)
THEOREM WindowsImplements == JobSpec => WindowsKeepsContract
<1>1. JobInit => JobInv
  BY JobInvInit
<1>2. JobInv /\ [JobNext]_jobVars => JobInv'
  BY JobInvNext
<1>3. JobInit => Promise!ContractInit
  BY JobInitMapped
<1>4. JobInv /\ JobInv' /\ [JobNext]_jobVars => [Promise!ContractNext]_(Promise!contractVars)
  BY WindowsSimulates
<1> QED
  BY <1>1, <1>2, <1>3, <1>4, PTL DEF JobSpec, WindowsKeepsContract, Promise!ContractSpec

(* Whichever driver the host is given, the contract holds.                   *)
THEOREM DriversKeepTheContract == LinuxSpec /\ JobSpec => DriversKeepContract
  BY LinuxImplements, WindowsImplements DEF DriversKeepContract

-----------------------------------------------------------------------------
(* The scan of the process tree.  A living tree always has a living child    *)
(* of the helper, so a list of its children that yields nothing was dodged.  *)

ScanShapes ==
    /\ DOMAIN life = Procs /\ DOMAIN parent = Procs
    /\ pass \in {"BEFORE", "WALK", "AFTER", "DONE"}
    /\ listed \subseteq Procs /\ (reading = Nobody => listed = {})
    /\ walk \subseteq Procs \cup {Helper} /\ (pass = "DONE" => reading = Nobody)
    /\ empties \in {0, 1, 2} /\ dodges \in 0 .. Lists
    /\ found \in BOOLEAN
(* The helper adopts orphans, so that what lives hangs from it: stated of    *)
(* sets, a cycle would be one without a member whose parent is outside.      *)
Rooted ==
    /\ \A q \in Alive : parent[q] \in Alive \cup {Helper}
    /\ \A S \in SUBSET Alive : S # {} => \E q \in S : parent[q] \notin S
(* Lists of the scan under way that are read to their end.                   *)
ListsRead == CASE pass = "BEFORE" -> 0 [] pass = "WALK" -> 1 [] pass = "AFTER" -> 2 [] OTHER -> 3
(* A scan that has found nothing walks from the helper and no further.       *)
WalkIsShort ==
    ~found =>
       /\ pass = "WALK" => \/ reading = Nobody /\ walk = {Helper}
                           \/ reading = Helper /\ walk = {}
       /\ pass \in {"BEFORE", "AFTER"} => reading \in {Nobody, Helper}
(* Every list read to its end cost an exit; the one at work has cost one, or *)
(* holds a process that is still there.                                      *)
ListsAreDodged ==
    /\ empties = 2 /\ Alive # {} => dodges = Lists
    /\ empties < 2 /\ ~found /\ Alive # {} =>
          /\ dodges >= 3 * empties + ListsRead
          /\ reading # Nobody => \/ dodges >= 3 * empties + ListsRead + 1
                                 \/ \E q \in listed : q \in Alive /\ parent[q] = Helper
ScanInv == ScanShapes /\ Rooted /\ WalkIsShort /\ ListsAreDodged

LEMMA ScanNames == Helper \notin Procs /\ Nobody \notin Procs /\ Helper # Nobody /\ Lists = 6
BY ScanAssumption DEF Procs, Helper, Nobody, Lists

LEMMA ScanInvInit == ScanInit => ScanInv
<1> SUFFICES ASSUME ScanInit PROVE ScanInv
  OBVIOUS
<1>1. ScanShapes /\ WalkIsShort
  <2>1. DOMAIN life = Procs /\ DOMAIN parent = Procs /\ 0 \in 0 .. Lists
    BY DEF ScanInit, Lists
  <2> QED  BY <2>1 DEF ScanInit, ScanShapes, WalkIsShort
<1>2. ListsAreDodged
  BY DEF ScanInit, ListsAreDodged, ListsRead
<1>3. /\ \A q \in Procs : parent[q] = Helper
      /\ Alive \subseteq Procs
  BY DEF ScanInit, Alive
<1>4. Rooted
  BY <1>3, ScanNames DEF Rooted
<1> QED  BY <1>1, <1>2, <1>4 DEF ScanInv

\* A living tree has a living child of the helper.
LEMMA HelperHasChild == ASSUME ScanInv, Alive # {} PROVE ChildrenOf(Helper) # {} /\ ChildrenOf(Helper) \subseteq Alive
<1>1. PICK q \in Alive : parent[q] \notin Alive
  BY DEF ScanInv, Rooted
<1>2. parent[q] = Helper
  BY <1>1 DEF ScanInv, Rooted
<1> QED  BY <1>1, <1>2 DEF ChildrenOf

LEMMA ScanForkKeeps == ASSUME ScanInv, NEW q \in Procs, Fork(q) PROVE ScanInv'
<1>1. PICK c \in Procs : /\ life[c] # "LIVE" /\ ~Held(c)
                         /\ life' = [life EXCEPT ![c] = "LIVE"]
                         /\ parent' = [parent EXCEPT ![c] = q]
  BY DEF Fork
<1>2. UNCHANGED <<dodges, pass, listed, reading, walk, found, empties>> /\ q \in Alive
  BY DEF Fork, Alive
<1>3. /\ DOMAIN life' = Procs /\ DOMAIN parent' = Procs /\ life'[c] = "LIVE" /\ parent'[c] = q
      /\ \A o \in Procs : o # c => life'[o] = life[o] /\ parent'[o] = parent[o]
  BY <1>1 DEF ScanInv, ScanShapes
<1>4. Alive' = Alive \cup {c} /\ c \notin Alive /\ Alive \subseteq Procs
  BY <1>1, <1>3 DEF Alive
<1>5. ScanShapes' /\ WalkIsShort'
  BY <1>2, <1>3 DEF ScanInv, ScanShapes, WalkIsShort
<1>6. Rooted'
  <2>1. \A x \in Alive' : parent'[x] \in Alive' \cup {Helper}
    BY <1>2, <1>3, <1>4 DEF ScanInv, Rooted
  <2>2. ASSUME NEW S \in SUBSET Alive', S # {} PROVE \E x \in S : parent'[x] \notin S
    <3>1. CASE S = {c}
      BY <3>1, <1>2, <1>3, <1>4
    <3>2. CASE S # {c}
      <4>1. PICK x \in S \ {c} : parent[x] \notin S \ {c}
        BY <1>4, <2>2, <3>2 DEF ScanInv, Rooted
      <4>2. x \in Alive /\ parent[x] \in Alive \cup {Helper} /\ parent'[x] = parent[x]
        BY <1>3, <1>4, <4>1 DEF ScanInv, Rooted
      <4>3. parent[x] # c
        BY <1>1, <1>4, <4>2, ScanNames
      <4> QED  BY <4>1, <4>2, <4>3
    <3> QED  BY <3>1, <3>2
  <2> QED  BY <2>1, <2>2 DEF Rooted
<1>7. ListsAreDodged'
  <2>1. ListsRead' = ListsRead
    BY <1>2 DEF ListsRead
  <2>2. \A x \in Alive : parent'[x] = parent[x] /\ x \in Alive'
    BY <1>3, <1>4
  <2>3. Alive # {}
    BY <1>2
  <2> QED  BY <1>2, <2>1, <2>2, <2>3 DEF ScanInv, ListsAreDodged
<1> QED  BY <1>5, <1>6, <1>7 DEF ScanInv

LEMMA ScanExitKeeps == ASSUME ScanInv, NEW q \in Procs, NEW how \in {"ZOMBIE", "GONE"}, Exit(q, how) PROVE ScanInv'
<1>1. /\ life' = [life EXCEPT ![q] = how]
      /\ parent' = [c \in Procs |-> IF c = q \/ parent[c] = q THEN Helper ELSE parent[c]]
      /\ dodges' = (IF q \in listed /\ dodges < Lists THEN dodges + 1 ELSE dodges)
      /\ UNCHANGED <<pass, listed, reading, walk, found, empties>> /\ q \in Alive
  BY DEF Exit, Alive
<1>2. DOMAIN life' = Procs /\ life'[q] = how /\ \A o \in Procs : o # q => life'[o] = life[o]
  BY <1>1 DEF ScanInv, ScanShapes
<1>3. Alive' = Alive \ {q} /\ Alive \subseteq Procs
  BY <1>2 DEF Alive
<1>4. ScanShapes' /\ WalkIsShort'
  BY <1>1, <1>2, ScanNames DEF ScanInv, ScanShapes, WalkIsShort
<1>5. \A x \in Procs : parent'[x] = IF x = q \/ parent[x] = q THEN Helper ELSE parent[x]
  BY <1>1
<1>6. Rooted'
  <2>1. \A x \in Alive' : parent'[x] \in Alive' \cup {Helper}
    BY <1>3, <1>5 DEF ScanInv, Rooted
  <2>2. ASSUME NEW S \in SUBSET Alive', S # {} PROVE \E x \in S : parent'[x] \notin S
    <3>1. PICK x \in S : parent[x] \notin S
      BY <1>3, <2>2 DEF ScanInv, Rooted
    <3>2. parent'[x] \in {parent[x], Helper} /\ Helper \notin S
      BY <1>3, <1>5, <3>1, ScanNames
    <3> QED  BY <3>1, <3>2
  <2> QED  BY <2>1, <2>2 DEF Rooted
<1>7. ListsAreDodged'
  <2>1. ListsRead' = ListsRead /\ ListsRead \in {0, 1, 2, 3}
    BY <1>1 DEF ListsRead
  <2>2. /\ dodges \in 0 .. 6 /\ dodges' \in 0 .. 6 /\ dodges' >= dodges /\ empties \in {0, 1, 2}
        /\ q \in listed => dodges' >= dodges + 1 \/ dodges' = 6
    BY <1>1, ScanNames DEF ScanInv, ScanShapes
  <2>3. empties = 2 => dodges = 6
    BY <1>1, ScanNames DEF ScanInv, ListsAreDodged
  <2>4. ASSUME empties < 2, ~found
        PROVE  /\ dodges' >= 3 * empties + ListsRead
               /\ reading # Nobody => \/ dodges' >= 3 * empties + ListsRead + 1
                                      \/ \E x \in listed : x \in Alive' /\ parent'[x] = Helper
    <3>1. /\ dodges >= 3 * empties + ListsRead
          /\ reading # Nobody => \/ dodges >= 3 * empties + ListsRead + 1
                                 \/ \E x \in listed : x \in Alive /\ parent[x] = Helper
      BY <1>1, <2>4 DEF ScanInv, ListsAreDodged
    <3>2. dodges' >= 3 * empties + ListsRead
      BY <2>1, <2>2, <3>1
    <3>3. CASE reading # Nobody /\ q \in listed
      <4>1. ListsRead # 3
        BY <2>4, <3>3 DEF ScanInv, ListsRead, ScanShapes
      <4>2. 3 * empties + ListsRead + 1 <= 6
        BY <2>1, <2>2, <2>4, <4>1
      <4>3. 3 * empties + ListsRead \in Nat
        BY <2>1, <2>2
      <4>4. dodges' >= 3 * empties + ListsRead + 1
        BY <2>2, <3>1, <3>3, <4>2, <4>3
      <4> QED  BY <3>2, <4>4
    <3>4. CASE reading # Nobody /\ q \notin listed
      <4>1. \A x \in listed : x \in Alive /\ parent[x] = Helper => x \in Alive' /\ parent'[x] = Helper
        BY <1>3, <1>5, <3>4
      <4>2. 3 * empties + ListsRead \in Nat
        BY <2>1, <2>2
      <4> QED  BY <2>2, <3>1, <3>2, <3>4, <4>1, <4>2
    <3> QED  BY <3>2, <3>3, <3>4
  <2>5. empties = 2 => dodges' = 6
    BY <2>2, <2>3
  <2> QED  BY <1>1, <2>1, <2>4, <2>5, ScanNames DEF ListsAreDodged
<1> QED  BY <1>4, <1>6, <1>7 DEF ScanInv

\* What the scan's own steps leave of the tree.
LEMMA ScanReads == ASSUME ScanInv, UNCHANGED <<life, parent>> PROVE Rooted' /\ Alive' = Alive
BY DEF ScanInv, Rooted, Alive

LEMMA ScanListKeeps == ASSUME ScanInv, ListDirect \/ ListWalk PROVE ScanInv'
<1>1. UNCHANGED <<life, parent, pass, found, empties>> /\ reading = Nobody
  BY DEF ListDirect, ListWalk, treeVars
<1>2. Rooted' /\ Alive' = Alive /\ ListsRead' = ListsRead /\ ListsRead \in {0, 1, 2, 3}
  BY <1>1, ScanReads DEF ListsRead
<1>3. ~found => reading' = Helper /\ listed' = ChildrenOf(Helper) /\ (pass = "WALK" => walk' = {}) /\ pass # "DONE"
  BY ScanNames DEF ScanInv, WalkIsShort, ListDirect, ListWalk
<1>4. reading' # Nobody /\ listed' \subseteq Procs
  <2>1. CASE ListDirect
    BY <2>1, ScanNames DEF ListDirect, ChildrenOf, Alive
  <2>2. CASE ListWalk
    <3>1. PICK q \in walk : reading' = q /\ listed' = ChildrenOf(q)
      BY <2>2 DEF ListWalk
    <3> QED  BY <3>1, ScanNames DEF ChildrenOf, Alive, ScanInv, ScanShapes
  <2> QED  BY <2>1, <2>2
<1>5. ScanShapes'
  BY <1>1, <1>4, ScanNames DEF ScanInv, ScanShapes, ListDirect, ListWalk, treeVars
<1>6. WalkIsShort'
  BY <1>1, <1>3 DEF WalkIsShort
<1>7. ListsAreDodged'
  <2>1. (dodges' = dodges) \/ (empties = 0 /\ pass = "BEFORE" /\ dodges' = 0)
    BY DEF ListDirect, ListWalk, treeVars
  <2>2. pass = "BEFORE" => ListsRead = 0
    BY DEF ListsRead
  <2>3. empties \in {0, 1, 2} /\ dodges \in 0 .. 6 /\ dodges' \in 0 .. 6
    BY <2>1, ScanNames DEF ScanInv, ScanShapes
  <2>4. ASSUME empties < 2, ~found, Alive # {}
        PROVE  /\ dodges' >= 3 * empties + ListsRead
               /\ \E q \in listed' : q \in Alive' /\ parent'[q] = Helper
    <3>1. dodges >= 3 * empties + ListsRead
      BY <2>4 DEF ScanInv, ListsAreDodged
    <3>2. dodges' >= 3 * empties + ListsRead
      BY <1>2, <2>1, <2>2, <2>3, <3>1
    <3> QED  BY <1>1, <1>2, <1>3, <2>4, <3>2, HelperHasChild DEF ChildrenOf
  <2>5. empties = 2 /\ Alive # {} => dodges' = Lists
    BY <2>1 DEF ScanInv, ListsAreDodged
  <2> QED  BY <1>1, <1>2, <2>4, <2>5 DEF ListsAreDodged
<1> QED  BY <1>2, <1>5, <1>6, <1>7 DEF ScanInv

LEMMA ScanCheckKeeps == ASSUME ScanInv, NEW q \in Procs, CheckDirect(q) \/ CheckWalk(q) PROVE ScanInv'
<1>1. /\ UNCHANGED <<life, parent, dodges, pass, reading, empties>> /\ q \in listed /\ listed' = listed \ {q}
      /\ found' \in BOOLEAN /\ (~found' => ~found)
  BY DEF CheckDirect, CheckWalk, treeVars, ScanInv, ScanShapes, SeenDirect, SeenWalking
<1>2. Rooted' /\ Alive' = Alive /\ ListsRead' = ListsRead
  BY <1>1, ScanReads DEF ListsRead
<1>3. reading # Nobody
  BY <1>1 DEF ScanInv, ScanShapes
<1>4. ~found' => ~(q \in Alive /\ parent[q] = Helper) /\ (pass = "WALK" => walk' = walk)
  BY <1>1, <1>3 DEF CheckDirect, CheckWalk, SeenDirect, SeenWalking, ScanInv, WalkIsShort, Alive
<1>5. ScanShapes'
  <2>1. walk' \subseteq walk \cup {q}
    BY DEF CheckDirect, CheckWalk
  <2> QED  BY <1>1, <1>3, <2>1 DEF ScanInv, ScanShapes
<1>6. WalkIsShort'
  BY <1>1, <1>4 DEF ScanInv, WalkIsShort
<1>7. ListsAreDodged'
  BY <1>1, <1>2, <1>4 DEF ScanInv, ListsAreDodged
<1> QED  BY <1>2, <1>5, <1>6, <1>7 DEF ScanInv

LEMMA ScanListDoneKeeps == ASSUME ScanInv, ListDone PROVE ScanInv'
<1>1. /\ UNCHANGED <<life, parent, dodges, listed, found, empties>> /\ reading # Nobody /\ listed = {}
      /\ reading' = Nobody
  BY DEF ListDone, treeVars
<1>2. Rooted' /\ Alive' = Alive
  BY <1>1, ScanReads
<1>3. \/ pass = "BEFORE" /\ pass' = "WALK" /\ walk' = {Helper}
      \/ pass = "WALK" /\ pass' = (IF walk = {} THEN "AFTER" ELSE "WALK") /\ UNCHANGED walk
      \/ pass = "AFTER" /\ pass' = "DONE" /\ UNCHANGED walk
  BY DEF ListDone
<1>4. ScanShapes'
  <2>1. pass' \in {"WALK", "AFTER", "DONE"} /\ walk' \subseteq Procs \cup {Helper}
    BY <1>3 DEF ScanInv, ScanShapes
  <2> QED  BY <1>1, <2>1 DEF ScanInv, ScanShapes
<1>5. WalkIsShort' /\ (~found => ListsRead' = ListsRead + 1)
  BY <1>1, <1>3 DEF ScanInv, WalkIsShort, ListsRead
<1>6. ListsAreDodged'
  <2>1. ASSUME empties < 2, ~found, Alive # {} PROVE dodges >= 3 * empties + ListsRead + 1
    BY <1>1, <2>1 DEF ScanInv, ListsAreDodged
  <2>2. ListsRead \in {0, 1, 2, 3} /\ empties \in {0, 1, 2}
    BY DEF ListsRead, ScanInv, ScanShapes
  <2> QED  BY <1>1, <1>2, <1>5, <2>1, <2>2 DEF ScanInv, ListsAreDodged
<1> QED  BY <1>2, <1>4, <1>5, <1>6 DEF ScanInv

LEMMA ScanDoneKeeps == ASSUME ScanInv, ScanDone PROVE ScanInv'
<1>1. /\ UNCHANGED <<life, parent, dodges, listed, reading, walk>> /\ pass = "DONE" /\ pass' = "BEFORE"
      /\ empties \in {0, 1} /\ found' = FALSE /\ empties' = IF found THEN 0 ELSE empties + 1
  BY DEF ScanDone, treeVars, NextEmptyScanCount, ScanInv, ScanShapes
<1>2. Rooted' /\ Alive' = Alive
  BY <1>1, ScanReads
<1>4. reading = Nobody
  BY <1>1 DEF ScanInv, ScanShapes
<1>3. ScanShapes'
  <2>1. empties' \in {0, 1, 2}
    BY <1>1
  <2> QED  BY <1>1, <1>4, <2>1 DEF ScanInv, ScanShapes
<1>5. WalkIsShort'
  BY <1>1, <1>4 DEF WalkIsShort
<1>6. ListsAreDodged'
  <2>1. ListsRead' = 0 /\ ListsRead = 3
    BY <1>1 DEF ListsRead
  <2>2. ASSUME ~found, Alive # {} PROVE dodges >= 3 * empties + 3
    BY <1>1, <2>1, <2>2 DEF ScanInv, ListsAreDodged
  <2>3. dodges \in 0 .. 6
    BY ScanNames DEF ScanInv, ScanShapes
  <2>4. ASSUME Alive # {} PROVE dodges >= 3 * empties'
    BY <1>1, <2>2, <2>3, <2>4
  <2> QED  BY <1>1, <1>2, <1>4, <2>1, <2>3, <2>4, ScanNames DEF ListsAreDodged
<1> QED  BY <1>2, <1>3, <1>5, <1>6 DEF ScanInv

LEMMA ScanInvNext == ASSUME ScanInv, [ScanNext]_scanVars PROVE ScanInv'
<1>1. CASE UNCHANGED scanVars
  <2>1. Rooted' /\ Alive' = Alive
    BY <1>1, ScanReads DEF scanVars
  <2>2. (ScanShapes /\ WalkIsShort)'
    BY <1>1 DEF scanVars, ScanInv, ScanShapes, WalkIsShort
  <2>3. ListsAreDodged'
    BY <1>1, <2>1 DEF scanVars, ScanInv, ListsAreDodged, ListsRead
  <2> QED  BY <2>1, <2>2, <2>3 DEF ScanInv
<1> QED  BY <1>1, ScanForkKeeps, ScanExitKeeps, ScanCheckKeeps, ScanListKeeps, ScanListDoneKeeps, ScanDoneKeeps DEF ScanNext

(* For any number of processes, forks, exits and reused identities: the      *)
(* verdict EMPTY over a tree that lives takes an exit in each of the six     *)
(* lists two scans read (scanOwnedTree, nextLinuxCompleteEmptyScanCount).    *)
THEOREM EmptyVerdictsAreDodged == ScanSpec => []WrongVerdictDodgesEveryList
<1>1. ScanInv => WrongVerdictDodgesEveryList
  BY DEF ScanInv, ListsAreDodged, WrongVerdictDodgesEveryList
<1> QED  BY <1>1, ScanInvInit, ScanInvNext, PTL DEF ScanSpec
=============================================================================

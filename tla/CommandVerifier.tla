-------------------------- MODULE CommandVerifier --------------------------
(***************************************************************************)
(* One declared verification command and its receipt (packages/verification*)
(* command-verifier.ts).  The command writes to two pipes and may leave    *)
(* processes behind that hold them; the verifier reads the pipes as they   *)
(* fill, keeps at most a number of bytes of both, signals the command (only*)
(* it) when its time is up, and settles when the command has ended and     *)
(* both pipes are closed.  Any of these may come before any other.         *)
(***************************************************************************)
EXTENDS Naturals

CONSTANTS OutputLimit,   \* maximumOutputBytes
          MaxOutput      \* bound: what the command and its heirs write to one pipe

ASSUME CommandAssumption == OutputLimit \in Nat

VARIABLES verifier,   \* [pc, timedOut, blocked]
          child,      \* "NONE", "RUNNING", "ZERO", "NONZERO" or "SIGNALLED"
          heirs,      \* pipes a process the command left behind holds
          wrote,      \* [pipe -> bytes written to it]
          unread,     \* [pipe -> bytes in it]
          kept,       \* [pipe -> bytes captured]
          cut,        \* pipes of which bytes were dropped
          receipt     \* of the verification
commandVars == <<verifier, child, heirs, wrote, unread, kept, cut, receipt>>

Pipes == {"stdout", "stderr"}
NoReceipt == [outcome |-> "NONE", exit |-> 0, timedOut |-> FALSE, kept |-> [s \in Pipes |-> 0], cut |-> {}]
CommandInit ==
    /\ verifier = [pc |-> "FINGERPRINT", timedOut |-> FALSE, blocked |-> FALSE]
    /\ child = "NONE" /\ heirs = {}
    /\ wrote = [s \in Pipes |-> 0] /\ unread = [s \in Pipes |-> 0] /\ kept = [s \in Pipes |-> 0]
    /\ cut = {} /\ receipt = NoReceipt

VerifierAt(pc) == verifier.pc = pc
Waiting == VerifierAt("WAIT")

-----------------------------------------------------------------------------
(* The workspace is fingerprinted, or cannot be.                             *)
Fingerprint ==
    /\ VerifierAt("FINGERPRINT") /\ \E pc \in {"SPAWN", "THROWN"} : verifier' = [verifier EXCEPT !.pc = pc]
    /\ UNCHANGED <<child, heirs, wrote, unread, kept, cut, receipt>>
(* A spawn that throws settles at once; one that fails later is an "error".  *)
Spawn ==
    /\ VerifierAt("SPAWN") /\ UNCHANGED <<heirs, wrote, unread, kept, cut>>
    /\ \/ child' = "RUNNING" /\ verifier' = [verifier EXCEPT !.pc = "WAIT"] /\ UNCHANGED receipt
       \/ child' = "NONZERO" /\ verifier' = [verifier EXCEPT !.pc = "WAIT", !.blocked = TRUE] /\ UNCHANGED receipt
       \/ /\ verifier' = [verifier EXCEPT !.pc = "DONE", !.blocked = TRUE] /\ UNCHANGED child
          /\ receipt' = [NoReceipt EXCEPT !.outcome = "BLOCKED", !.exit = 127]

-----------------------------------------------------------------------------
(* The command and its heirs                                                 *)
Holds(s) == child = "RUNNING" \/ s \in heirs
Write(s) ==
    /\ Holds(s) /\ wrote[s] < MaxOutput
    /\ wrote' = [wrote EXCEPT ![s] = @ + 1] /\ unread' = [unread EXCEPT ![s] = @ + 1]
    /\ UNCHANGED <<verifier, child, heirs, kept, cut, receipt>>
CommandEnds ==
    /\ child = "RUNNING" /\ child' \in {"ZERO", "NONZERO", "SIGNALLED"}
    /\ heirs' \in SUBSET Pipes
    /\ UNCHANGED <<verifier, wrote, unread, kept, cut, receipt>>
HeirLetsGo(s) ==
    /\ s \in heirs /\ heirs' = heirs \ {s}
    /\ UNCHANGED <<verifier, child, wrote, unread, kept, cut, receipt>>

-----------------------------------------------------------------------------
(* capture: of a chunk, what the limit leaves is kept.                       *)
Smaller(a, b) == IF a < b THEN a ELSE b
Retained(s, n) == Smaller(n, OutputLimit - (kept["stdout"] + kept["stderr"]))
Capture(s) ==
    \E n \in 1..unread[s] :
       /\ Waiting /\ unread' = [unread EXCEPT ![s] = @ - n]
       /\ kept' = [kept EXCEPT ![s] = @ + Retained(s, n)]
       /\ cut' = IF Retained(s, n) < n THEN cut \cup {s} ELSE cut
       /\ UNCHANGED <<verifier, child, heirs, wrote, receipt>>
(* The timer sends the command a SIGTERM if it still runs, which it may obey *)
(* at once, late or never; a kill that fails is an "error".                  *)
TimeIsUp ==
    /\ Waiting /\ ~verifier.timedOut
    /\ \/ verifier' = [verifier EXCEPT !.timedOut = TRUE]
       \/ child = "RUNNING" /\ verifier' = [verifier EXCEPT !.timedOut = TRUE, !.blocked = TRUE]
    /\ UNCHANGED <<child, heirs, wrote, unread, kept, cut, receipt>>

\* Mutant: the "exit" event instead of "close".
Closed_OnExit == child # "RUNNING"
Closed == child # "RUNNING" /\ \A s \in Pipes : ~Holds(s) /\ unread[s] = 0
ExitCode == IF verifier.timedOut THEN 124 ELSE IF child = "ZERO" THEN 0 ELSE 1
OutcomeOf(exit) ==
    IF verifier.blocked THEN "BLOCKED" ELSE IF ~verifier.timedOut /\ exit = 0 THEN "PASS" ELSE "FAIL"
Settle ==
    /\ Waiting /\ Closed /\ verifier' = [verifier EXCEPT !.pc = "DONE"]
    /\ receipt' = [outcome |-> OutcomeOf(ExitCode), exit |-> ExitCode, timedOut |-> verifier.timedOut,
                   kept |-> kept, cut |-> cut]
    /\ UNCHANGED <<child, heirs, wrote, unread, kept, cut>>

CommandNext ==
    \/ Fingerprint \/ Spawn \/ CommandEnds \/ TimeIsUp \/ Settle
    \/ \E s \in Pipes : Write(s) \/ HeirLetsGo(s) \/ Capture(s)
CommandSpec == CommandInit /\ [][CommandNext]_commandVars

-----------------------------------------------------------------------------
(* A receipt is about the whole command: PASS only if it ended by itself with*)
(* zero and in time, and no byte its tree ever writes is missing from a      *)
(* stream the receipt does not call truncated, whatever the order of exit,   *)
(* output and timer (command-verifier.ts runBoundedProcess).                 *)
VerdictIsTheCommand ==
    receipt # NoReceipt =>
       /\ receipt.outcome = "PASS" => child = "ZERO" /\ ~receipt.timedOut
       /\ receipt.outcome = "FAIL" => child \in {"NONZERO", "SIGNALLED"} \/ receipt.timedOut
       /\ receipt.kept["stdout"] + receipt.kept["stderr"] <= OutputLimit
       /\ \A s \in Pipes : s \in receipt.cut <=> receipt.kept[s] < wrote[s]
=============================================================================

------------------------------ MODULE EventLog ------------------------------
(***************************************************************************)
(* What the durable kernel promises a caller of dispatch                   *)
(* (packages/workflow-kernel/src/durable-workflow-kernel.ts): one Run is   *)
(* one sequence of events, each of which the kernel admitted after exactly *)
(* the events before it, and an answer says what became of the command.    *)
(*                                                                         *)
(* The kernel's rules are reduced to what concurrent callers can get       *)
(* wrong: a Run is created once, nothing precedes its creation, an event   *)
(* is recorded once, and of the Exclusive events only one may be recorded  *)
(* (two callers that start the same next Attempt).                         *)
(***************************************************************************)
EXTENDS Sequences, Naturals, Functions

CONSTANTS
    Clients, Commands,
    Create,      \* the command that creates the Run
    Exclusive    \* commands that rule each other out

VARIABLES
    log,       \* the events of the Run, each named by its command
    command,   \* what each client dispatched last
    status     \* how far that dispatch is, and then its answer

logVars == <<log, command, status>>

Answers == {"ACCEPTED", "REJECTED", "UNKNOWN"}

Admits(l, e) ==
    IF e = Create THEN l = <<>>
    ELSE /\ l # <<>>
         /\ e \notin Range(l)
         /\ e \in Exclusive => Range(l) \cap Exclusive = {}

LogInit ==
    /\ log = <<>>
    /\ command = [c \in Clients |-> Create]
    /\ status = [c \in Clients |-> "idle"]

Becomes(c, from, to) ==
    /\ status[c] \in from
    /\ status' = [status EXCEPT ![c] = to]

Ask(c, e) ==
    /\ Becomes(c, {"idle"} \cup Answers, "asked")
    /\ command' = [command EXCEPT ![c] = e]
    /\ UNCHANGED log

Commit(c) ==
    /\ Becomes(c, {"asked"}, "committed")
    /\ Admits(log, command[c])
    /\ log' = Append(log, command[c])
    /\ UNCHANGED command

\* The very event was recorded by another caller in the meantime.
Join(c) ==
    /\ Becomes(c, {"asked"}, "committed")
    /\ command[c] \in Range(log)
    /\ UNCHANGED <<log, command>>

Accept(c) == Becomes(c, {"committed"}, "ACCEPTED") /\ UNCHANGED <<log, command>>

\* A rejected command left nothing behind.
Reject(c) == Becomes(c, {"asked"}, "REJECTED") /\ UNCHANGED <<log, command>>

\* The caller died, or was told that the store needs attention.
Lose(c) == Becomes(c, {"asked", "committed"}, "UNKNOWN") /\ UNCHANGED <<log, command>>

LogNext ==
    \E c \in Clients :
        \/ \E e \in Commands : Ask(c, e)
        \/ Commit(c) \/ Join(c) \/ Accept(c) \/ Reject(c) \/ Lose(c)

LogSpec == LogInit /\ [][LogNext]_logVars
=============================================================================

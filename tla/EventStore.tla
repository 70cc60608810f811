----------------------------- MODULE EventStore -----------------------------
(***************************************************************************)
(* DurableWorkflowKernel.dispatch over FileWorkflowEventStore              *)
(* (packages/workflow-kernel/src/durable-workflow-kernel.ts,               *)
(* packages/evidence/src/event-store.ts) with the emergency reserve of     *)
(* LocalStorageController (packages/evidence/src/storage-policy.ts).       *)
(*                                                                         *)
(* Several processes dispatch commands for one Run.  A dispatch reads the  *)
(* event stream without a lock and decides; only then it takes the         *)
(* mutation lock, whose promise is the module Mutex, compares the cursor   *)
(* and publishes one segment with link(2).  Segments are immutable; their  *)
(* name holds their hash, so the file system alone does not stop two       *)
(* different segments with the same cursor.                                *)
(***************************************************************************)
EXTENDS Sequences, FiniteSets, Naturals

CONSTANTS
    Clients, Commands,
    Create, Exclusive,   \* see EventLog
    MaxDeaths,   \* bound on the clients that die
    NoEvent       \* the predecessor of the first segment

ASSUME StoreAssumption ==
    /\ Create \in Commands /\ Exclusive \subseteq Commands \ {Create}
    /\ NoEvent \notin Commands
    /\ MaxDeaths \in Nat

VARIABLES
    command,     \* what each client dispatched last
    point,          \* the next step of each client's dispatch
    segments,    \* committed segments: cursor, event, preceding event
    reserve,     \* .critical-reserve is present
    base,        \* cursor of the last event a client read before it decided
    published,   \* this dispatch's event is in the stream
    failed,      \* the write of a client ended in an error
    answer,      \* what the last dispatch of a client returned
    holders, crashed   \* the mutation lock

store == <<segments, reserve>>
memory == <<base, published, failed>>
mutex == <<holders, crashed>>
storeVars == <<command, point, store, memory, answer, mutex>>

Lock == INSTANCE Mutex WITH Processes <- Clients

\* #readState: the segments in cursor order.  It refuses a stream that is not
\* Intact.
Cursor == Cardinality(segments)
Stream ==
    [n \in 1..Cursor |-> (CHOOSE s \in segments : s.cursor = n).event]

Intact ==
    /\ {s.cursor : s \in segments} = 1..Cursor
    /\ \A s, t \in segments : s.cursor = t.cursor + 1 => s.previous = t.event
    /\ \A s \in segments : s.cursor = 1 => s.previous = NoEvent

LastEvent == IF Cursor = 0 THEN NoEvent ELSE Stream[Cursor]

\* The callers' view: their dispatch is undecided, has taken effect, or has
\* been answered.
Status(c) ==
    IF point[c] = "idle" THEN answer[c]
    ELSE IF published[c] THEN "committed" ELSE "asked"

Log == INSTANCE EventLog WITH log <- Stream, status <- [c \in Clients |-> Status(c)]

Onto(c, label) == point' = [point EXCEPT ![c] = label]

StoreInit ==
    /\ command = [c \in Clients |-> Create]
    /\ point = [c \in Clients |-> "idle"]
    /\ segments = {} /\ reserve = FALSE
    /\ base = [c \in Clients |-> 0]
    /\ published = [c \in Clients |-> FALSE]
    /\ failed = [c \in Clients |-> FALSE]
    /\ answer = [c \in Clients |-> "idle"]
    /\ Lock!MutexInit

\* The dispatch returns or throws; what it remembered is gone.
Answer(c, result) ==
    /\ Onto(c, "idle")
    /\ answer' = [answer EXCEPT ![c] = result]
    /\ base' = [base EXCEPT ![c] = 0]
    /\ published' = [published EXCEPT ![c] = FALSE]
    /\ failed' = [failed EXCEPT ![c] = FALSE]

-----------------------------------------------------------------------------
(* Before the lock.                                                        *)

Dispatch(c, e) ==
    /\ point[c] = "idle" /\ c \notin crashed
    /\ command' = [command EXCEPT ![c] = e]
    /\ Onto(c, IF e = Create THEN "admit" ELSE "read")
    /\ UNCHANGED <<store, memory, answer, mutex>>

\* assertMutatingRunAllowed: a Run is created only with the reserve intact and
\* space beyond it, and either may be wanting.
AdmitRun(c) ==
    /\ point[c] = "admit"
    /\ \/ reserve' = TRUE /\ Onto(c, "read") /\ UNCHANGED <<answer, memory>>
       \/ reserve' \in {reserve, TRUE} /\ Answer(c, "REJECTED")
    /\ UNCHANGED <<command, segments, mutex>>

\* The event stream is read and the in-memory kernel decides on it.
ReadAndDecide(c) ==
    /\ point[c] = "read"
    /\ IF Intact /\ Log!Admits(Stream, command[c])
       THEN /\ base' = [base EXCEPT ![c] = Cursor]
            /\ Onto(c, "lock") /\ UNCHANGED <<answer, published, failed>>
       ELSE Answer(c, "REJECTED")
    /\ UNCHANGED <<command, store, mutex>>

TakeLock(c) ==
    /\ point[c] = "lock"
    /\ Lock!Acquire(c)
    /\ Onto(c, "compare")
    /\ UNCHANGED <<command, store, memory, answer>>

\* STORE_BUSY
LockTimeout(c) ==
    /\ point[c] = "lock"
    /\ Answer(c, "REJECTED")
    /\ UNCHANGED <<command, store, mutex>>

-----------------------------------------------------------------------------
(* Under the lock: #appendParsed.                                          *)

\* The dispatch is over and its lock is released.
Finish(c, result) == Answer(c, result) /\ Lock!Release(c)

\* Mutant: the cursor the decision rests on is not compared.
Compare_NoCursor(c) ==
    /\ point[c] = "compare"
    /\ Onto(c, "ensure")
    /\ UNCHANGED <<command, store, memory, answer, mutex>>

\* NOOP when the very segment is there, CURSOR_CONFLICT when the stream moved.
Compare(c) ==
    /\ point[c] = "compare"
    /\ \/ /\ Cursor > base[c] /\ Stream[base[c] + 1] = command[c]
          /\ published' = [published EXCEPT ![c] = TRUE]
          /\ Onto(c, "unlock") /\ UNCHANGED <<answer, base, failed, mutex>>
       \/ /\ Cursor > base[c] /\ Stream[base[c] + 1] # command[c]
          /\ Finish(c, "REJECTED")
       \/ /\ Cursor = base[c]
          /\ Onto(c, "ensure")
          /\ UNCHANGED <<answer, memory, mutex>>
    /\ UNCHANGED <<command, store>>

\* writeCritical begins with FileEmergencyReserve.ensure.
EnsureReserve(c) ==
    /\ point[c] = "ensure"
    /\ Onto(c, IF reserve THEN "write" ELSE "restore")
    /\ UNCHANGED <<command, store, memory, answer, mutex>>

\* The reserve is written aside and linked.  Space may be short, or somebody
\* outside the lock has linked his in the meantime.
RestoreReserve(c) ==
    /\ point[c] = "restore"
    /\ \/ ~reserve /\ reserve' = TRUE /\ Onto(c, "write") /\ UNCHANGED failed
       \/ /\ UNCHANGED reserve
          /\ failed' = [failed EXCEPT ![c] = TRUE] /\ Onto(c, "afterFailure")
    /\ UNCHANGED <<command, segments, base, published, answer, mutex>>

Segment(c) ==
    [cursor |-> Cursor + 1, event |-> command[c], previous |-> LastEvent]

\* writeImmutableAtomically: a file becomes visible complete or not at all.
Publish(c) ==
    /\ segments' = segments \cup {Segment(c)}
    /\ published' = [published EXCEPT ![c] = TRUE]

\* ENOSPC leads to "release"; an error after the link is possible as well.
Write(c) ==
    /\ point[c] = "write"
    /\ \/ Publish(c) /\ Onto(c, "unlock") /\ UNCHANGED failed
       \/ /\ Publish(c) \/ UNCHANGED <<segments, published>>
          /\ Onto(c, "afterFailure")
          /\ failed' = [failed EXCEPT ![c] = TRUE]
       \/ Onto(c, "release") /\ UNCHANGED <<segments, published, failed>>
    /\ UNCHANGED <<command, reserve, base, answer, mutex>>

\* The reserve makes room for one more try.
ReleaseReserve(c) ==
    /\ point[c] = "release"
    /\ reserve' = FALSE
    /\ Onto(c, "rewrite")
    /\ UNCHANGED <<command, segments, memory, answer, mutex>>

Rewrite(c) ==
    /\ point[c] = "rewrite"
    /\ \/ Publish(c) /\ UNCHANGED failed
       \/ /\ Publish(c) \/ UNCHANGED <<segments, published>>
          /\ failed' = [failed EXCEPT ![c] = TRUE]
    /\ Onto(c, "ensureAgain")
    /\ UNCHANGED <<command, reserve, base, answer, mutex>>

EnsureAgain(c) ==
    /\ point[c] = "ensureAgain"
    /\ Onto(c, IF ~reserve THEN "restoreAgain"
               ELSE IF failed[c] THEN "afterFailure" ELSE "unlock")
    /\ UNCHANGED <<command, store, memory, answer, mutex>>

\* Mutant: the error is reported like any other failed write.
RestoreAgain_Rejects(c) ==
    /\ point[c] = "restoreAgain"
    /\ \/ ~reserve /\ reserve' = TRUE
          /\ Onto(c, IF failed[c] THEN "afterFailure" ELSE "unlock")
          /\ UNCHANGED <<answer, memory, mutex>>
       \/ UNCHANGED reserve /\ Finish(c, "REJECTED")
    /\ UNCHANGED <<command, segments>>

\* RESERVE_REQUIRED: what was written stays, whatever the caller is told.
RestoreAgain(c) ==
    /\ point[c] = "restoreAgain"
    /\ \/ ~reserve /\ reserve' = TRUE
          /\ Onto(c, IF failed[c] THEN "afterFailure" ELSE "unlock")
          /\ UNCHANGED <<answer, memory, mutex>>
       \/ UNCHANGED reserve /\ Finish(c, "UNKNOWN")
    /\ UNCHANGED <<command, segments>>

\* After an error the stream is read again for the exact segment.
AfterFailure(c) ==
    /\ point[c] = "afterFailure"
    /\ IF Cursor > base[c] /\ Stream[base[c] + 1] = command[c]
       THEN Onto(c, "unlock") /\ UNCHANGED <<answer, memory, mutex>>
       ELSE Finish(c, "REJECTED")
    /\ UNCHANGED <<command, store>>

Unlock(c) ==
    /\ point[c] = "unlock"
    /\ Lock!Release(c)
    /\ Onto(c, "project")
    /\ UNCHANGED <<command, store, memory, answer>>

-----------------------------------------------------------------------------
\* Without the lock again: the stream is read and projected for the caller.
Project(c) ==
    /\ point[c] = "project"
    /\ Answer(c, IF Intact THEN "ACCEPTED" ELSE "UNKNOWN")
    /\ UNCHANGED <<command, store, mutex>>

Dies(c) ==
    /\ point[c] # "idle"
    /\ Cardinality(crashed) < MaxDeaths
    /\ Lock!Crash(c)
    /\ Answer(c, "UNKNOWN")
    /\ UNCHANGED <<command, store>>

\* An Evidence capture or another Run's admission, which take no lock,
\* restores the reserve.
OthersRestore ==
    /\ ~reserve /\ reserve' = TRUE
    /\ UNCHANGED <<command, point, segments, memory, answer, mutex>>

ClientStep(c) ==
    \/ AdmitRun(c) \/ ReadAndDecide(c) \/ TakeLock(c) \/ LockTimeout(c)
    \/ Compare(c) \/ EnsureReserve(c) \/ RestoreReserve(c) \/ Write(c)
    \/ ReleaseReserve(c) \/ Rewrite(c) \/ EnsureAgain(c) \/ RestoreAgain(c)
    \/ AfterFailure(c) \/ Unlock(c) \/ Project(c)

StoreNext ==
    \/ \E c \in Clients : \/ \E e \in Commands : Dispatch(c, e)
                          \/ ClientStep(c) \/ Dies(c)
    \/ OthersRestore

StoreSpec == StoreInit /\ [][StoreNext]_storeVars

-----------------------------------------------------------------------------
(* Properties.                                                             *)

DispatchPoints ==
    {"idle", "admit", "read", "lock", "compare", "ensure", "restore", "write",
     "release", "rewrite", "ensureAgain", "restoreAgain", "afterFailure",
     "unlock", "project"}

StoreTypeOK ==
    /\ command \in [Clients -> Commands]
    /\ point \in [Clients -> DispatchPoints]
    /\ segments \subseteq
         [cursor : Nat, event : Commands, previous : Commands \cup {NoEvent}]
    /\ reserve \in BOOLEAN
    /\ base \in [Clients -> Nat]
    /\ published \in [Clients -> BOOLEAN] /\ failed \in [Clients -> BOOLEAN]
    /\ answer \in [Clients -> Log!Answers \cup {"idle"}]
    /\ holders \subseteq Clients /\ crashed \subseteq Clients

\* The committed segments always form one unbroken chain that the kernel can
\* replay: no gap, fork or overlap, no event recorded twice, and never two
\* events that were each decided without knowledge of the other.
StreamIsReplayable ==
    /\ Intact
    /\ \A n \in 1..Cursor : Log!Admits(SubSeq(Stream, 1, n - 1), Stream[n])

\* Seen by its callers the store is the abstract event log: every dispatch
\* takes effect at one instant or not at all, an acceptance is durable, and a
\* rejection means that this dispatch left nothing behind, through crashes,
\* full disks and lost races.
ImplementsEventLog == Log!LogSpec
=============================================================================

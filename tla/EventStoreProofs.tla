-------------------------- MODULE EventStoreProofs --------------------------
(***************************************************************************)
(* The event stream of a Run can always be replayed, and the store is the  *)
(* abstract event log to its callers, for any clients and commands,        *)
(* crashes, full disks and lost races.                                     *)
(*                                                                         *)
(* A client decides without the lock and writes under it.  The invariant   *)
(* ties the two: what a client decided holds of the stream up to the cursor*)
(* it read, whatever has been published behind it since, and a client that *)
(* is about to write holds the lock alone and has that cursor as the end.  *)
(* The stream is spoken of by its segments, so that only publishing has to *)
(* be shown to append to a sequence.                                       *)
(***************************************************************************)
EXTENDS EventStore, FiniteSetTheorems, SequenceTheorems, TLAPS

(* What the reader's stream says, said of the segments.                      *)
Segments == [cursor : Nat \ {0}, event : Commands, previous : Commands \cup {NoEvent}]
Chained ==
    /\ \A s \in segments : s.cursor <= Cursor
    /\ \A n \in 1..Cursor : \E s \in segments : s.cursor = n
    /\ \A s, t \in segments : s.cursor = t.cursor => s = t
    /\ \A s, t \in segments : s.cursor = t.cursor + 1 => s.previous = t.event
    /\ \A s \in segments : s.cursor = 1 => s.previous = NoEvent
(* e may follow the first n segments.                                        *)
Follows(e, n) ==
    IF e = Create THEN n = 0
    ELSE /\ n > 0
         /\ \A t \in segments : t.cursor <= n => t.event # e /\ (e \in Exclusive => t.event \notin Exclusive)
Admitted == \A s \in segments : Follows(s.event, s.cursor - 1)

LEMMA CursorIsNat == ASSUME IsFiniteSet(segments) PROVE Cursor \in Nat
  BY FS_CardinalityType DEF Cursor

LEMMA StreamOf ==
    ASSUME IsFiniteSet(segments), segments \subseteq Segments, Chained
    PROVE  /\ DOMAIN Stream = 1..Cursor
           /\ \A s \in segments : s.cursor \in 1..Cursor /\ Stream[s.cursor] = s.event
           /\ \A n \in 1..Cursor : \E s \in segments : s.cursor = n /\ Stream[n] = s.event
<1>1. DOMAIN Stream = 1..Cursor
  BY DEF Stream
<1>2. ASSUME NEW s \in segments PROVE s.cursor \in 1..Cursor /\ Stream[s.cursor] = s.event
  <2>1. s.cursor \in 1..Cursor
    BY CursorIsNat DEF Chained, Segments
  <2>2. (CHOOSE t \in segments : t.cursor = s.cursor) = s
    BY DEF Chained
  <2>3. Stream[s.cursor] = (CHOOSE t \in segments : t.cursor = s.cursor).event
    BY <2>1 DEF Stream
  <2> QED  BY <2>1, <2>2, <2>3
<1>3. ASSUME NEW n \in 1..Cursor PROVE \E s \in segments : s.cursor = n /\ Stream[n] = s.event
  <2>1. PICK s \in segments : s.cursor = n
    BY DEF Chained
  <2> QED  BY <1>2, <2>1
<1> QED  BY <1>1, <1>2, <1>3

LEMMA DecisionHolds ==
    ASSUME IsFiniteSet(segments), segments \subseteq Segments, Chained, NEW e \in Commands, Log!Admits(Stream, e)
    PROVE  Follows(e, Cursor)
<1>1. Cursor \in Nat
  BY CursorIsNat
<1>2. CASE e = Create
  <2>1. Stream = <<>>
    BY <1>2 DEF Log!Admits
  <2>2. 1..Cursor = {}
    BY <2>1, StreamOf
  <2> QED  BY <1>1, <1>2, <2>2 DEF Follows
<1>3. CASE e # Create
  <2>1. /\ Stream # <<>> /\ e \notin Log!Range(Stream)
        /\ e \in Exclusive => Log!Range(Stream) \cap Exclusive = {}
    BY <1>3 DEF Log!Admits
  <2>2. Cursor # 0
    <3> SUFFICES ASSUME Cursor = 0 PROVE Stream = <<>>
      BY <2>1
    <3> QED  BY DEF Stream
  <2>3. ASSUME NEW t \in segments PROVE t.event \in Log!Range(Stream)
    BY StreamOf DEF Log!Range
  <2> QED  BY <1>1, <1>3, <2>1, <2>2, <2>3 DEF Follows
<1> QED  BY <1>2, <1>3

LEMMA ChainIsReplayable ==
    ASSUME IsFiniteSet(segments), segments \subseteq Segments, Chained, Admitted
    PROVE  StreamIsReplayable
<1>1. Cursor \in Nat
  BY CursorIsNat
<1>2. Intact
  <2>1. {s.cursor : s \in segments} = 1..Cursor
    BY StreamOf
  <2> QED  BY <2>1 DEF Intact, Chained
<1>3. ASSUME NEW n \in 1..Cursor PROVE Log!Admits(SubSeq(Stream, 1, n - 1), Stream[n])
  <2> DEFINE l == SubSeq(Stream, 1, n - 1)
  <2>1. PICK s \in segments : s.cursor = n /\ Stream[n] = s.event
    BY StreamOf
  <2>2. Follows(s.event, n - 1) /\ s.event \in Commands
    BY <2>1 DEF Admitted, Segments
  <2>3. l \in Seq(Commands) /\ Len(l) = n - 1 /\ \A i \in 1..(n - 1) : l[i] = Stream[i]
    <3>1. \A i \in 1..(n - 1) : Stream[i] \in Commands
      BY <1>1, StreamOf DEF Segments
    <3>2. /\ l \in Seq(Commands)
          /\ Len(l) = IF 1 <= n - 1 THEN (n - 1) - 1 + 1 ELSE 0
          /\ \A i \in 1 .. (n - 1) - 1 + 1 : l[i] = Stream[1 + i - 1]
      BY <1>1, <3>1, SubSeqProperties
    <3> HIDE DEF l
    <3> QED  BY <1>1, <3>2
  <2>7. DOMAIN l = 1..(n - 1)
    BY <2>3, LenProperties
  <2>4. ASSUME NEW x \in Log!Range(l) PROVE \E t \in segments : t.cursor <= n - 1 /\ x = t.event
    <3>1. PICK i \in 1..(n - 1) : x = Stream[i]
      BY <2>3, <2>7 DEF Log!Range
    <3>2. i \in 1..Cursor /\ i <= n - 1
      BY <1>1
    <3> QED  BY <3>1, <3>2, StreamOf
  <2>5. CASE s.event = Create
    <3>1. n - 1 = 0
      BY <2>2, <2>5 DEF Follows
    <3>2. l = <<>>
      BY <1>1, <3>1, SubSeqEmpty
    <3> QED  BY <2>1, <2>5, <3>2 DEF Log!Admits
  <2>6. CASE s.event # Create
    <3>1. n - 1 > 0 /\ \A t \in segments : t.cursor <= n - 1 =>
             t.event # s.event /\ (s.event \in Exclusive => t.event \notin Exclusive)
      BY <2>2, <2>6 DEF Follows
    <3>2. l # <<>>
      <4>1. Len(l) # 0
        BY <2>3, <3>1
      <4> HIDE DEF l
      <4> QED  BY <2>3, <4>1, EmptySeq
    <3>3. s.event \notin Log!Range(l) /\ (s.event \in Exclusive => Log!Range(l) \cap Exclusive = {})
      BY <2>4, <3>1
    <3>4. Log!Admits(l, s.event)
      <4> HIDE DEF l
      <4> QED  BY <2>6, <3>2, <3>3 DEF Log!Admits
    <3> QED  BY <2>1, <3>4
  <2> QED  BY <2>5, <2>6
<1> QED  BY <1>2, <1>3 DEF StreamIsReplayable

-----------------------------------------------------------------------------
(* The invariant                                                             *)

Writing == {"ensure", "restore", "write", "release", "rewrite"}
Deciding == {"lock", "compare"} \cup Writing
LockedAt == {"compare", "ensureAgain", "restoreAgain", "afterFailure", "unlock"} \cup Writing

StoreTypes ==
    /\ IsFiniteSet(segments) /\ segments \subseteq Segments
    /\ command \in [Clients -> Commands] /\ point \in [Clients -> DispatchPoints] /\ base \in [Clients -> Nat]
LockKept == \A c \in Clients : point[c] \in LockedAt => holders = {c}
Decided ==
    \A c \in Clients : /\ point[c] \in Deciding => base[c] <= Cursor /\ Follows(command[c], base[c])
                       /\ point[c] \in Writing => base[c] = Cursor
StoreInv == StoreTypes /\ Chained /\ Admitted /\ LockKept /\ Decided

LEMMA LabelsOfSteps == Writing \subseteq DispatchPoints /\ Deciding \subseteq DispatchPoints /\ LockedAt \subseteq DispatchPoints
  BY DEF Writing, Deciding, LockedAt, DispatchPoints

LEMMA StoreInvInit == StoreInit => StoreInv
<1> SUFFICES ASSUME StoreInit PROVE StoreInv
  OBVIOUS
<1>1. segments = {} /\ Cursor = 0
  BY FS_EmptySet DEF StoreInit, Cursor
<1>2. StoreTypes
  BY <1>1, FS_EmptySet, StoreAssumption DEF StoreInit, StoreTypes, DispatchPoints, StoreAssumption
<1>3. Chained /\ Admitted
  BY <1>1 DEF Chained, Admitted
<1>4. LockKept /\ Decided
  BY DEF StoreInit, LockKept, Decided, LockedAt, Deciding, Writing
<1> QED  BY <1>2, <1>3, <1>4 DEF StoreInv

-----------------------------------------------------------------------------
(* A step of one client that publishes nothing.                              *)
LEMMA QuietStep ==
    ASSUME StoreInv, NEW c \in Clients, NEW l \in DispatchPoints, NEW n \in Nat, NEW e \in Commands,
           point' = [point EXCEPT ![c] = l], base' = [base EXCEPT ![c] = n], command' = [command EXCEPT ![c] = e],
           UNCHANGED segments,
           holders' = holders \/ holders' = holders \ {c} \/ (holders = {} /\ holders' = {c}),
           l \in LockedAt => holders' = {c},
           l \in Deciding => n <= Cursor /\ Follows(e, n),
           l \in Writing => n = Cursor
    PROVE  StoreInv'
<1>1. StoreTypes'
  BY DEF StoreInv, StoreTypes
<1>2. Cursor' = Cursor /\ \A x, m : Follows(x, m)' <=> Follows(x, m)
  BY DEF Cursor, Follows
<1>3. Chained' /\ Admitted'
  BY <1>2 DEF StoreInv, Chained, Admitted, Follows
<1>4. LockKept'
  <2> SUFFICES ASSUME NEW d \in Clients, point'[d] \in LockedAt PROVE holders' = {d}
    BY DEF LockKept
  <2>1. CASE d = c
    BY <2>1 DEF StoreInv, StoreTypes
  <2>2. CASE d # c
    <3>1. holders = {d}
      BY <2>2 DEF StoreInv, StoreTypes, LockKept
    <3> QED  BY <2>2, <3>1
  <2> QED  BY <2>1, <2>2
<1>5. Decided'
  <2> SUFFICES ASSUME NEW d \in Clients
               PROVE  /\ point'[d] \in Deciding => base'[d] <= Cursor' /\ Follows(command[d], base[d])'
                      /\ point'[d] \in Writing => base'[d] = Cursor'
    BY DEF Decided
  <2>1. CASE d = c
    <3>1. point'[d] = l /\ base'[d] = n /\ command'[d] = e
      BY <2>1 DEF StoreInv, StoreTypes
    <3> QED  BY <1>2, <3>1 DEF Follows
  <2>2. CASE d # c
    <3>1. point'[d] = point[d] /\ base'[d] = base[d] /\ command'[d] = command[d]
      BY <2>2 DEF StoreInv, StoreTypes
    <3> QED  BY <1>2, <3>1 DEF StoreInv, Decided, Follows
  <2> QED  BY <2>1, <2>2
<1> QED  BY <1>1, <1>3, <1>4, <1>5 DEF StoreInv

LEMMA MovesOn ==
    ASSUME StoreInv, NEW c \in Clients, NEW l \in DispatchPoints, point' = [point EXCEPT ![c] = l],
           UNCHANGED <<base, command, segments>>,
           holders' = holders \/ holders' = holders \ {c} \/ (holders = {} /\ holders' = {c}),
           l \in LockedAt => holders' = {c},
           l \in Deciding => point[c] \in Deciding,
           l \in Writing => base[c] = Cursor
    PROVE  StoreInv'
<1>1. base[c] \in Nat /\ command[c] \in Commands
      /\ base' = [base EXCEPT ![c] = base[c]] /\ command' = [command EXCEPT ![c] = command[c]]
  BY DEF StoreInv, StoreTypes
<1>2. l \in Deciding => base[c] <= Cursor /\ Follows(command[c], base[c])
  BY DEF StoreInv, Decided
<1> QED  BY <1>1, <1>2, QuietStep

LEMMA AnswerStep ==
    ASSUME StoreInv, NEW c \in Clients, NEW result, Answer(c, result), UNCHANGED <<command, segments>>,
           holders' = holders \/ holders' = holders \ {c}
    PROVE  StoreInv'
<1>1. /\ point' = [point EXCEPT ![c] = "idle"] /\ base' = [base EXCEPT ![c] = 0]
      /\ command[c] \in Commands /\ command' = [command EXCEPT ![c] = command[c]]
  BY DEF Answer, Onto, StoreInv, StoreTypes
<1>2. "idle" \in DispatchPoints /\ "idle" \notin LockedAt /\ "idle" \notin Deciding /\ "idle" \notin Writing
  BY DEF DispatchPoints, LockedAt, Deciding, Writing
<1> QED  BY <1>1, <1>2, QuietStep

-----------------------------------------------------------------------------
(* The step that adds a segment: its writer is alone, at the end it decided  *)
(* on; what the others decided is about what lies before.                    *)
LEMMA PublishStep ==
    ASSUME StoreInv, NEW c \in Clients, point[c] \in Writing, Publish(c),
           NEW l \in LockedAt \ Deciding, point' = [point EXCEPT ![c] = l],
           UNCHANGED <<base, command, holders>>
    PROVE  StoreInv'
<1> DEFINE s == Segment(c)
<1>1. /\ IsFiniteSet(segments) /\ segments \subseteq Segments /\ Chained /\ Cursor \in Nat
      /\ base[c] = Cursor /\ Follows(command[c], Cursor) /\ holders = {c} /\ command[c] \in Commands
  BY CursorIsNat DEF StoreInv, StoreTypes, LockKept, Decided, LockedAt, Deciding
<1>2. /\ s.cursor = Cursor + 1 /\ s.event = command[c] /\ s.previous = LastEvent
      /\ s = [cursor |-> Cursor + 1, event |-> command[c], previous |-> LastEvent]
      /\ segments' = segments \cup {s}
  BY DEF Segment, Publish
<1>3. /\ Cursor = 0 => LastEvent = NoEvent
      /\ \A t \in segments : t.cursor = Cursor => LastEvent = t.event
      /\ LastEvent \in Commands \cup {NoEvent}
  <2>1. CASE Cursor = 0
    BY <1>1, <2>1 DEF LastEvent, Segments
  <2>2. CASE Cursor # 0
    <3>1. Cursor \in 1..Cursor /\ LastEvent = Stream[Cursor]
      BY <1>1, <2>2 DEF LastEvent
    <3> QED  BY <1>1, <2>2, <3>1, StreamOf DEF Segments
  <2> QED  BY <2>1, <2>2
<1> HIDE DEF s
<1>4. s \notin segments
  BY <1>1, <1>2 DEF Chained
<1>5. IsFiniteSet(segments') /\ Cursor' = Cursor + 1
  BY <1>1, <1>2, <1>4, FS_AddElement DEF Cursor
<1>6. s \in Segments /\ segments' \subseteq Segments
  BY <1>1, <1>2, <1>3 DEF Segments
<1>7. StoreTypes'
  BY <1>5, <1>6, LabelsOfSteps DEF StoreInv, StoreTypes
<1>8. Chained'
  <2>1. \A t \in segments' : t.cursor <= Cursor'
    BY <1>1, <1>2, <1>5, <1>6 DEF Chained, Segments
  <2>2. \A n \in 1..Cursor' : \E t \in segments' : t.cursor = n
    BY <1>1, <1>2, <1>5 DEF Chained
  <2>3. \A t, u \in segments' : t.cursor = u.cursor => t = u
    BY <1>1, <1>2 DEF Chained, Segments
  <2>4. \A t, u \in segments' : t.cursor = u.cursor + 1 => t.previous = u.event
    BY <1>1, <1>2, <1>3 DEF Chained, Segments
  <2>5. \A t \in segments' : t.cursor = 1 => t.previous = NoEvent
    BY <1>1, <1>2, <1>3 DEF Chained
  <2> QED  BY <2>1, <2>2, <2>3, <2>4, <2>5 DEF Chained
<1>9. ASSUME NEW e, NEW n \in Nat, n <= Cursor, Follows(e, n) PROVE Follows(e, n)'
  BY <1>1, <1>2, <1>9 DEF Follows
<1>10. Admitted'
  <2> SUFFICES ASSUME NEW t \in segments' PROVE Follows(t.event, t.cursor - 1)'
    BY DEF Admitted
  <2>1. CASE t = s
    <3>1. t.event = command[c] /\ t.cursor - 1 = Cursor
      BY <1>1, <1>2, <2>1
    <3>2. Follows(t.event, t.cursor - 1)
      BY <1>1, <3>1
    <3> QED  BY <1>1, <1>9, <3>1, <3>2
  <2>2. CASE t \in segments
    <3>1. t.cursor - 1 \in Nat /\ t.cursor - 1 <= Cursor /\ Follows(t.event, t.cursor - 1)
      BY <1>1, <2>2 DEF Chained, Segments, StoreInv, Admitted
    <3> QED  BY <1>9, <3>1
  <2> QED  BY <1>2, <2>1, <2>2
<1>11. LockKept'
  BY <1>1 DEF StoreInv, StoreTypes, LockKept
<1>12. Decided'
  <2> SUFFICES ASSUME NEW d \in Clients, point'[d] \in Deciding
               PROVE  /\ base'[d] <= Cursor' /\ Follows(command[d], base[d])'
                      /\ point'[d] \in Writing => base'[d] = Cursor'
    BY DEF Decided, Deciding
  <2>1. d # c /\ point'[d] = point[d]
    BY DEF StoreInv, StoreTypes
  <2>2. point[d] \notin LockedAt
    BY <1>1, <2>1 DEF StoreInv, LockKept
  <2>3. base[d] \in Nat /\ base[d] <= Cursor /\ Follows(command[d], base[d]) /\ point[d] \notin Writing
    BY <2>1, <2>2 DEF StoreInv, StoreTypes, Decided, LockedAt
  <2>4. Follows(command[d], base[d])'
    BY <1>1, <1>2, <2>3 DEF Follows
  <2> QED  BY <1>1, <1>5, <2>1, <2>3, <2>4
<1> QED  BY <1>7, <1>8, <1>10, <1>11, <1>12 DEF StoreInv

-----------------------------------------------------------------------------
(* The lock's operations, as far as the holders go.                          *)
LEMMA LockOperations ==
    ASSUME NEW c \in Clients
    PROVE  /\ Lock!Acquire(c) => holders = {} /\ holders' = {c}
           /\ Lock!Release(c) => holders' = holders \ {c}
           /\ Lock!Crash(c) => holders' = holders \ {c}
  BY DEF Lock!Acquire, Lock!Release, Lock!Crash

LEMMA HolderAt == ASSUME StoreInv, NEW c \in Clients, point[c] \in LockedAt PROVE holders = {c}
  BY DEF StoreInv, LockKept

LEMMA BeforeTheLock ==
    ASSUME StoreInv, NEW c \in Clients,
           \/ \E e \in Commands : Dispatch(c, e)
           \/ AdmitRun(c) \/ ReadAndDecide(c) \/ TakeLock(c) \/ LockTimeout(c)
    PROVE  StoreInv'
<1>1. ASSUME NEW e \in Commands, Dispatch(c, e) PROVE StoreInv'
  <2> DEFINE l == IF e = Create THEN "admit" ELSE "read"
  <2>1. /\ point' = [point EXCEPT ![c] = l] /\ base[c] \in Nat /\ base' = [base EXCEPT ![c] = base[c]]
        /\ command' = [command EXCEPT ![c] = e] /\ UNCHANGED <<segments, holders>>
    BY <1>1 DEF Dispatch, Onto, store, memory, mutex, StoreInv, StoreTypes
  <2>2. l \in DispatchPoints /\ l \notin LockedAt /\ l \notin Deciding /\ l \notin Writing
    BY DEF Writing, Deciding, LockedAt, DispatchPoints
  <2> HIDE DEF l
  <2> QED  BY <2>1, <2>2, QuietStep
<1>2. CASE AdmitRun(c)
  <2>1. UNCHANGED <<command, segments, holders>>
    BY <1>2 DEF AdmitRun, mutex
  <2>2. CASE Onto(c, "read") /\ UNCHANGED memory
    <3>1. "read" \in DispatchPoints /\ "read" \notin LockedAt /\ "read" \notin Deciding /\ "read" \notin Writing
      BY DEF Writing, Deciding, LockedAt, DispatchPoints
    <3> QED  BY <2>1, <2>2, <3>1, MovesOn DEF Onto, memory
  <2>3. CASE Answer(c, "REJECTED")
    BY <2>1, <2>3, AnswerStep
  <2> QED  BY <1>2, <2>2, <2>3 DEF AdmitRun
<1>3. CASE ReadAndDecide(c)
  <2>1. UNCHANGED <<command, segments, holders>>
    BY <1>3 DEF ReadAndDecide, store, mutex
  <2>2. CASE Log!Admits(Stream, command[c]) /\ base' = [base EXCEPT ![c] = Cursor] /\ Onto(c, "lock")
    <3>1. command[c] \in Commands /\ command' = [command EXCEPT ![c] = command[c]]
          /\ Cursor \in Nat /\ Follows(command[c], Cursor)
      BY <2>1, <2>2, CursorIsNat, DecisionHolds DEF StoreInv, StoreTypes
    <3>2. "lock" \in DispatchPoints /\ "lock" \notin LockedAt /\ "lock" \notin Writing
      BY DEF Writing, LockedAt, DispatchPoints
    <3>3. PICK n \in Nat : n = Cursor
      BY <3>1
    <3>4. point' = [point EXCEPT ![c] = "lock"] /\ base' = [base EXCEPT ![c] = n] /\ n <= Cursor /\ Follows(command[c], n)
      BY <2>2, <3>1, <3>3 DEF Onto
    <3> QED  BY <2>1, <3>1, <3>2, <3>4, QuietStep
  <2>3. CASE Answer(c, "REJECTED")
    BY <2>1, <2>3, AnswerStep
  <2> QED  BY <1>3, <2>2, <2>3 DEF ReadAndDecide
<1>4. CASE TakeLock(c)
  <2>1. /\ point[c] = "lock" /\ point' = [point EXCEPT ![c] = "compare"] /\ holders = {} /\ holders' = {c}
        /\ UNCHANGED <<command, segments, base>>
    BY <1>4, LockOperations DEF TakeLock, Onto, store, memory
  <2>2. "compare" \in DispatchPoints /\ "compare" \notin Writing /\ "lock" \in Deciding
    BY DEF Writing, Deciding, DispatchPoints
  <2> QED  BY <2>1, <2>2, MovesOn
<1>5. CASE LockTimeout(c)
  BY <1>5, AnswerStep DEF LockTimeout, store, mutex
<1> QED  BY <1>1, <1>2, <1>3, <1>4, <1>5

(* Under the lock a client goes to the next program point, publishes, or     *)
(* answers and lets go of the lock.                                          *)
LEMMA GoesOn ==
    ASSUME StoreInv, NEW c \in Clients, point[c] \in LockedAt, NEW l \in LockedAt \cup {"project"}, Onto(c, l),
           UNCHANGED <<base, command, segments>>,
           IF l = "project" THEN holders' = holders \ {c} ELSE holders' = holders,
           l \in Writing => base[c] = Cursor,
           l \in Deciding => point[c] \in Deciding
    PROVE  StoreInv'
<1>1. l \in DispatchPoints /\ "project" \notin LockedAt
  BY DEF Writing, LockedAt, DispatchPoints
<1>2. holders = {c}
  BY HolderAt
<1> QED  BY <1>1, <1>2, MovesOn DEF Onto

LEMMA FinishStep ==
    ASSUME StoreInv, NEW c \in Clients, NEW result, Finish(c, result), UNCHANGED <<command, segments>>
    PROVE  StoreInv'
  BY AnswerStep, LockOperations DEF Finish

LEMMA AtEnd == ASSUME StoreInv, NEW c \in Clients, point[c] \in Writing PROVE base[c] = Cursor
  BY DEF StoreInv, Decided

LEMMA UnderTheLock ==
    ASSUME StoreInv, NEW c \in Clients,
           \/ Compare(c) \/ EnsureReserve(c) \/ RestoreReserve(c) \/ Write(c) \/ ReleaseReserve(c)
           \/ Rewrite(c) \/ EnsureAgain(c) \/ RestoreAgain(c) \/ AfterFailure(c) \/ Unlock(c)
    PROVE  StoreInv'
<1> USE DEF Writing, Deciding, LockedAt
<1>1. CASE Compare(c)
  <2>1. point[c] = "compare" /\ UNCHANGED <<command, segments>>
    BY <1>1 DEF Compare, store
  <2>2. CASE Onto(c, "unlock") /\ UNCHANGED <<base, mutex>>
    BY <2>1, <2>2, GoesOn DEF mutex
  <2>3. CASE Finish(c, "REJECTED")
    BY <2>1, <2>3, FinishStep
  <2>4. CASE Cursor = base[c] /\ Onto(c, "ensure") /\ UNCHANGED <<memory, mutex>>
    BY <2>1, <2>4, GoesOn DEF memory, mutex
  <2> QED  BY <1>1, <2>2, <2>3, <2>4 DEF Compare
<1>2. CASE EnsureReserve(c)
  <2>1. point[c] = "ensure" /\ UNCHANGED <<command, segments, base, holders>>
        /\ (Onto(c, "write") \/ Onto(c, "restore"))
    BY <1>2 DEF EnsureReserve, store, memory, mutex
  <2> QED  BY <2>1, AtEnd, GoesOn
<1>3. CASE RestoreReserve(c)
  <2>1. point[c] = "restore" /\ UNCHANGED <<command, segments, base, holders>>
        /\ (Onto(c, "write") \/ Onto(c, "afterFailure"))
    BY <1>3 DEF RestoreReserve, mutex
  <2> QED  BY <2>1, AtEnd, GoesOn
<1>4. CASE Write(c)
  <2>1. point[c] = "write" /\ UNCHANGED <<command, base, holders>>
    BY <1>4 DEF Write, mutex
  <2>2. CASE Publish(c) /\ (Onto(c, "unlock") \/ Onto(c, "afterFailure"))
    BY <2>1, <2>2, PublishStep DEF Onto
  <2>3. CASE UNCHANGED segments /\ (Onto(c, "afterFailure") \/ Onto(c, "release"))
    BY <2>1, <2>3, AtEnd, GoesOn
  <2> QED  BY <1>4, <2>2, <2>3 DEF Write
<1>5. CASE ReleaseReserve(c)
  <2>1. point[c] = "release" /\ UNCHANGED <<command, segments, base, holders>> /\ Onto(c, "rewrite")
    BY <1>5 DEF ReleaseReserve, memory, mutex
  <2> QED  BY <2>1, AtEnd, GoesOn
<1>6. CASE Rewrite(c)
  <2>1. point[c] = "rewrite" /\ UNCHANGED <<command, base, holders>> /\ Onto(c, "ensureAgain")
    BY <1>6 DEF Rewrite, mutex
  <2>2. CASE Publish(c)
    BY <2>1, <2>2, PublishStep DEF Onto
  <2>3. CASE UNCHANGED segments
    BY <2>1, <2>3, GoesOn
  <2> QED  BY <1>6, <2>2, <2>3 DEF Rewrite
<1>7. CASE EnsureAgain(c)
  <2>1. point[c] = "ensureAgain" /\ UNCHANGED <<command, segments, base, holders>>
        /\ (Onto(c, "restoreAgain") \/ Onto(c, "afterFailure") \/ Onto(c, "unlock"))
    BY <1>7 DEF EnsureAgain, store, memory, mutex
  <2> QED  BY <2>1, GoesOn
<1>8. CASE RestoreAgain(c)
  <2>1. point[c] = "restoreAgain" /\ UNCHANGED <<command, segments>>
    BY <1>8 DEF RestoreAgain
  <2>2. CASE (Onto(c, "afterFailure") \/ Onto(c, "unlock")) /\ UNCHANGED <<memory, mutex>>
    BY <2>1, <2>2, GoesOn DEF memory, mutex
  <2>3. CASE Finish(c, "UNKNOWN")
    BY <2>1, <2>3, FinishStep
  <2> QED  BY <1>8, <2>2, <2>3 DEF RestoreAgain
<1>9. CASE AfterFailure(c)
  <2>1. point[c] = "afterFailure" /\ UNCHANGED <<command, segments>>
    BY <1>9 DEF AfterFailure, store
  <2>2. CASE Onto(c, "unlock") /\ UNCHANGED <<memory, mutex>>
    BY <2>1, <2>2, GoesOn DEF memory, mutex
  <2>3. CASE Finish(c, "REJECTED")
    BY <2>1, <2>3, FinishStep
  <2> QED  BY <1>9, <2>2, <2>3 DEF AfterFailure
<1>10. CASE Unlock(c)
  <2>1. point[c] = "unlock" /\ UNCHANGED <<command, segments, base>> /\ Onto(c, "project") /\ holders' = holders \ {c}
    BY <1>10, LockOperations DEF Unlock, store, memory
  <2> QED  BY <2>1, GoesOn
<1> QED  BY <1>1, <1>2, <1>3, <1>4, <1>5, <1>6, <1>7, <1>8, <1>9, <1>10

LEMMA StoreInvNext == StoreInv /\ [StoreNext]_storeVars => StoreInv'
<1> SUFFICES ASSUME StoreInv, [StoreNext]_storeVars PROVE StoreInv'
  OBVIOUS
<1>1. ASSUME UNCHANGED <<command, point, segments, base, holders>> PROVE StoreInv'
  BY <1>1 DEF StoreInv, StoreTypes, Chained, Admitted, LockKept, Decided, Follows, Cursor
<1>2. CASE UNCHANGED storeVars \/ OthersRestore
  BY <1>1, <1>2 DEF storeVars, store, memory, mutex, OthersRestore
<1>3. ASSUME NEW c \in Clients, \E e \in Commands : Dispatch(c, e) PROVE StoreInv'
  BY <1>3, BeforeTheLock
<1>4. ASSUME NEW c \in Clients, ClientStep(c) PROVE StoreInv'
  <2>1. CASE Project(c)
    BY <2>1, AnswerStep DEF Project, store, mutex
  <2> QED  BY <1>4, <2>1, BeforeTheLock, UnderTheLock DEF ClientStep
<1>5. ASSUME NEW c \in Clients, Dies(c) PROVE StoreInv'
  BY <1>5, AnswerStep, LockOperations DEF Dies, store
<1> QED  BY <1>2, <1>3, <1>4, <1>5 DEF StoreNext

(* The committed segments of a Run are one chain the kernel can replay, each *)
(* event admitted by those before it, whatever clients, crashes, full disks  *)
(* and lost races did (DurableWorkflowKernel.dispatch, #appendParsed).       *)
THEOREM StreamReplays == StoreSpec => []StreamIsReplayable
<1>1. StoreInit => StoreInv
  BY StoreInvInit
<1>2. StoreInv /\ [StoreNext]_storeVars => StoreInv'
  BY StoreInvNext
<1>3. StoreInv => StreamIsReplayable
  BY ChainIsReplayable DEF StoreInv, StoreTypes
<1> QED  BY <1>1, <1>2, <1>3, PTL DEF StoreSpec

-----------------------------------------------------------------------------
(* The abstract event log.                                                   *)
(*                                                                           *)
(* What a client remembers of its dispatch is true of the stream: it says    *)
(* published of what is there, and what it did not publish is not behind the *)
(* cursor it decided on while it holds the lock.                             *)
Unwritten == {"idle", "admit", "read", "lock", "compare"} \cup Writing
AfterWriting == {"ensureAgain", "restoreAgain", "afterFailure"}
Recorded(c) == \E s \in segments : s.cursor = base[c] + 1 /\ s.event = command[c]
Remembers(c) ==
    /\ point[c] \in Unwritten => ~published[c] /\ ~failed[c]
    /\ point[c] \in {"ensureAgain", "restoreAgain"} => published[c] \/ failed[c]
    /\ point[c] \in {"unlock", "project"} => published[c]
    /\ point[c] \in AfterWriting => IF published[c] THEN Recorded(c) ELSE base[c] = Cursor
MemoryTypes ==
    /\ published \in [Clients -> BOOLEAN] /\ failed \in [Clients -> BOOLEAN]
    /\ answer \in [Clients -> Log!Answers \cup {"idle"}]
DispatchInv == StoreInv /\ MemoryTypes /\ \A c \in Clients : Remembers(c)

(* A step of one client is about its own dispatch.                           *)
OnlyOf(c) ==
    /\ MemoryTypes'
    /\ \A d \in Clients \ {c} :
          /\ point'[d] = point[d] /\ base'[d] = base[d] /\ command'[d] = command[d]
          /\ published'[d] = published[d] /\ failed'[d] = failed[d] /\ answer'[d] = answer[d]

LEMMA OthersRemember ==
    ASSUME DispatchInv, StoreInv', NEW c \in Clients, OnlyOf(c), Remembers(c)',
           UNCHANGED segments
           \/ (point[c] \in Writing /\ Publish(c))
    PROVE  DispatchInv'
<1> SUFFICES ASSUME NEW d \in Clients \ {c} PROVE Remembers(d)'
  BY DEF DispatchInv, OnlyOf
<1> USE DEF OnlyOf, AfterWriting
<1>1. CASE UNCHANGED segments
  <2>1. Cursor' = Cursor
    BY <1>1 DEF Cursor
  <2> QED  BY <1>1, <2>1 DEF DispatchInv, Remembers, Recorded
<1>2. CASE point[c] \in Writing /\ Publish(c)
  <2>1. point[d] \notin AfterWriting
    BY <1>2 DEF DispatchInv, StoreInv, LockKept, LockedAt
  <2> QED  BY <2>1 DEF DispatchInv, Remembers
<1> QED  BY <1>1, <1>2

-----------------------------------------------------------------------------
(* Steps of the abstract log.                                                *)
LEMMA StatusMoves ==
    ASSUME NEW c \in Clients, OnlyOf(c), NEW from, NEW to, Status(c) \in from, Status(c)' = to
    PROVE  Log!Becomes(c, from, to)
<1> DEFINE status == [d \in Clients |-> Status(d)]
<1>1. \A d \in Clients \ {c} : Status(d)' = Status(d)
  BY DEF OnlyOf, Status
<1>2. status' = [status EXCEPT ![c] = to]
  BY <1>1
<1> QED  BY <1>2 DEF Log!Becomes

LEMMA StatusStays ==
    ASSUME NEW c \in Clients, OnlyOf(c), Status(c)' = Status(c), UNCHANGED <<segments, command>>
    PROVE  UNCHANGED Log!logVars
<1>1. \A d \in Clients : Status(d)' = Status(d)
  BY DEF OnlyOf, Status
<1>2. [d \in Clients |-> Status(d)]' = [d \in Clients |-> Status(d)]
  BY <1>1
<1>3. Stream' = Stream
  BY DEF Stream, Cursor
<1> QED  BY <1>2, <1>3 DEF Log!logVars

(* A step that records nothing changes what one caller knows.                *)
LEMMA CallerStep ==
    ASSUME NEW c \in Clients, OnlyOf(c), UNCHANGED <<segments, command>>,
           \/ Status(c)' = Status(c)
           \/ Status(c) = "committed" /\ Status(c)' = "ACCEPTED"
           \/ Status(c) = "asked" /\ Status(c)' = "REJECTED"
           \/ Status(c) \in {"asked", "committed"} /\ Status(c)' = "UNKNOWN"
           \/ Status(c) = "asked" /\ Status(c)' = "committed" /\ command[c] \in Log!Range(Stream)
    PROVE  [Log!LogNext]_(Log!logVars)
<1>1. Stream' = Stream
  BY DEF Stream, Cursor
<1>2. CASE Status(c)' = Status(c)
  BY <1>2, StatusStays
<1>3. CASE Status(c) = "committed" /\ Status(c)' = "ACCEPTED"
  BY <1>1, <1>3, StatusMoves DEF Log!LogNext, Log!Accept
<1>4. CASE Status(c) = "asked" /\ Status(c)' = "REJECTED"
  BY <1>1, <1>4, StatusMoves DEF Log!LogNext, Log!Reject
<1>5. CASE Status(c) \in {"asked", "committed"} /\ Status(c)' = "UNKNOWN"
  BY <1>1, <1>5, StatusMoves DEF Log!LogNext, Log!Lose
<1>6. CASE Status(c) = "asked" /\ Status(c)' = "committed" /\ command[c] \in Log!Range(Stream)
  BY <1>1, <1>6, StatusMoves DEF Log!LogNext, Log!Join
<1> QED  BY <1>2, <1>3, <1>4, <1>5, <1>6

-----------------------------------------------------------------------------
(* The three kinds of steps of a dispatch: one that stays inside it, one that*)
(* ends it, one that adds the segment.                                       *)
LEMMA StaysInside ==
    ASSUME DispatchInv, StoreInv', NEW c \in Clients, OnlyOf(c), UNCHANGED <<segments, command>>,
           point[c] # "idle", point'[c] # "idle", published'[c] = published[c], Remembers(c)'
    PROVE  DispatchInv' /\ [Log!LogNext]_(Log!logVars)
<1>1. Status(c)' = Status(c)
  BY DEF Status
<1> QED  BY <1>1, OthersRemember, CallerStep

LEMMA Ends ==
    ASSUME DispatchInv, StoreInv', NEW c \in Clients, OnlyOf(c), UNCHANGED <<segments, command>>,
           point[c] # "idle", NEW result \in Log!Answers, Answer(c, result),
           result = "REJECTED" => ~published[c],
           result = "ACCEPTED" => published[c]
    PROVE  DispatchInv' /\ [Log!LogNext]_(Log!logVars)
<1>1. point'[c] = "idle" /\ answer'[c] = result /\ ~published'[c] /\ ~failed'[c]
  BY DEF Answer, Onto, DispatchInv, StoreInv, StoreTypes, MemoryTypes
<1>2. Remembers(c)'
  BY <1>1 DEF Remembers, AfterWriting
<1>3. Status(c)' = result /\ Status(c) = IF published[c] THEN "committed" ELSE "asked"
  BY <1>1 DEF Status
<1>4. \/ Status(c) = "committed" /\ Status(c)' = "ACCEPTED"
      \/ Status(c) = "asked" /\ Status(c)' = "REJECTED"
      \/ Status(c) \in {"asked", "committed"} /\ Status(c)' = "UNKNOWN"
  BY <1>3 DEF Log!Answers
<1> QED  BY <1>2, <1>4, OthersRemember, CallerStep

(* What may follow the first segments may follow the stream.                 *)
LEMMA MayFollow ==
    ASSUME StoreInv, NEW e \in Commands, Follows(e, Cursor)
    PROVE  Log!Admits(Stream, e)
<1> USE DEF StoreInv, StoreTypes
<1>1. Cursor \in Nat
  BY CursorIsNat
<1>2. ASSUME NEW x \in Log!Range(Stream) PROVE \E t \in segments : t.cursor <= Cursor /\ x = t.event
  <2>1. PICK n \in 1..Cursor : x = Stream[n]
    BY StreamOf DEF Log!Range
  <2> QED  BY <1>1, <2>1, StreamOf
<1>3. CASE e = Create
  <2>1. Cursor = 0
    BY <1>3 DEF Follows
  <2>2. Stream = <<>>
    BY <2>1 DEF Stream
  <2> QED  BY <1>3, <2>2 DEF Log!Admits
<1>4. CASE e # Create
  <2>1. Cursor > 0 /\ \A t \in segments : t.cursor <= Cursor =>
           t.event # e /\ (e \in Exclusive => t.event \notin Exclusive)
    BY <1>4 DEF Follows
  <2>2. Stream # <<>>
    <3>1. 1 \in DOMAIN Stream
      BY <1>1, <2>1, StreamOf
    <3> QED  BY <3>1
  <2> QED  BY <1>2, <1>4, <2>1, <2>2 DEF Log!Admits
<1> QED  BY <1>3, <1>4

LEMMA StreamIsSeq ==
    ASSUME StoreInv PROVE Stream \in Seq(Commands) /\ Len(Stream) = Cursor
<1>1. Cursor \in Nat
  BY CursorIsNat DEF StoreInv, StoreTypes
<1>2. Stream \in [1..Cursor -> Commands]
  <2>1. Stream = [n \in 1..Cursor |-> Stream[n]]
    BY DEF Stream
  <2>2. \A n \in 1..Cursor : Stream[n] \in Commands
    BY StreamOf DEF StoreInv, StoreTypes, Segments
  <2> QED  BY <2>1, <2>2
<1> QED  BY <1>1, <1>2

(* The published segment is the one event the log grows by.                  *)
LEMMA StreamGrows ==
    ASSUME StoreInv, StoreInv', NEW c \in Clients, Publish(c), base[c] = Cursor
    PROVE  Stream' = Append(Stream, command[c]) /\ Cursor' = Cursor + 1
<1> DEFINE s == Segment(c)
<1> USE DEF StoreInv, StoreTypes
<1>1. Cursor \in Nat
  BY CursorIsNat
<1>2. s.cursor = Cursor + 1 /\ s.event = command[c] /\ segments' = segments \cup {s}
  BY DEF Segment, Publish
<1> HIDE DEF s
<1>3. s \notin segments
  BY <1>1, <1>2 DEF Chained
<1>4. Cursor' = Cursor + 1
  BY <1>2, <1>3, FS_AddElement DEF Cursor
<1>5. ASSUME NEW t \in segments' PROVE (CHOOSE u \in segments' : u.cursor = t.cursor) = t
  BY <1>5 DEF Chained
<1>6. Stream' = [n \in 1..(Cursor + 1) |-> (CHOOSE u \in segments' : u.cursor = n).event]
  BY <1>4 DEF Stream
<1>7. ASSUME NEW n \in 1..(Cursor + 1) PROVE Stream'[n] = IF n = Cursor + 1 THEN command[c] ELSE Stream[n]
  <2>1. PICK t \in segments' : t.cursor = n /\ t.event = IF n = Cursor + 1 THEN command[c] ELSE Stream[n]
    <3>1. CASE n = Cursor + 1
      BY <1>2, <3>1
    <3>2. CASE n # Cursor + 1
      <4>1. n \in 1..Cursor
        BY <1>1, <3>2
      <4> QED  BY <1>2, <3>2, <4>1, StreamOf
    <3> QED  BY <3>1, <3>2
  <2>2. (CHOOSE u \in segments' : u.cursor = n) = t
    BY <1>5, <2>1
  <2> QED  BY <1>6, <2>1, <2>2
<1>8. Append(Stream, command[c]) = [n \in 1..(Cursor + 1) |-> IF n = Cursor + 1 THEN command[c] ELSE Stream[n]]
  BY <1>1, StreamIsSeq
<1> QED  BY <1>4, <1>6, <1>7, <1>8

LEMMA Publishes ==
    ASSUME DispatchInv, StoreInv', NEW c \in Clients, OnlyOf(c), UNCHANGED <<command, base>>,
           point[c] \in Writing, Publish(c), point'[c] \in AfterWriting \cup {"unlock"},
           point'[c] # "restoreAgain"
    PROVE  DispatchInv' /\ [Log!LogNext]_(Log!logVars)
<1>1. ~published[c] /\ base[c] = Cursor /\ Follows(command[c], Cursor) /\ command[c] \in Commands /\ point[c] # "idle"
  BY DEF DispatchInv, Remembers, Unwritten, StoreInv, StoreTypes, Decided, Deciding, Writing
<1>2. published'[c] /\ Segment(c) \in segments' /\ Segment(c).cursor = base[c] + 1 /\ Segment(c).event = command[c]
  BY <1>1 DEF Publish, Segment, DispatchInv, MemoryTypes
<1>3. point'[c] # "idle" /\ point'[c] \notin Unwritten /\ point'[c] # "project"
  BY DEF AfterWriting, Unwritten, Writing
<1>4. Remembers(c)'
  BY <1>2, <1>3 DEF Remembers, Recorded
<1>5. DispatchInv'
  BY <1>4, OthersRemember
<1>6. Stream' = Append(Stream, command[c])
  BY <1>1, StreamGrows DEF DispatchInv
<1>7. Log!Admits(Stream, command[c])
  BY <1>1, MayFollow DEF DispatchInv
<1>8. Status(c) = "asked" /\ Status(c)' = "committed"
  BY <1>1, <1>2, <1>3 DEF Status
<1>9. Log!Becomes(c, {"asked"}, "committed")
  BY <1>8, StatusMoves
<1>10. Log!Commit(c)
  BY <1>6, <1>7, <1>9 DEF Log!Commit
<1> QED  BY <1>5, <1>10 DEF Log!LogNext

-----------------------------------------------------------------------------
(* Every step of the store is one of the log, or none.                       *)
LEMMA StepConcerns ==
    ASSUME DispatchInv, NEW c \in Clients,
           (\E e \in Commands : Dispatch(c, e)) \/ ClientStep(c) \/ Dies(c)
    PROVE  OnlyOf(c)
<1> USE DEF DispatchInv, MemoryTypes, StoreInv, StoreTypes, OnlyOf, Onto, memory, Log!Answers
<1>1. ASSUME NEW result \in Log!Answers, Answer(c, result), UNCHANGED command PROVE OnlyOf(c)
  BY <1>1 DEF Answer
<1>2. ASSUME NEW e \in Commands, Dispatch(c, e) PROVE OnlyOf(c)
  BY <1>2 DEF Dispatch
<1>3. CASE AdmitRun(c) \/ ReadAndDecide(c) \/ LockTimeout(c) \/ Dies(c)
  BY <1>1, <1>3 DEF AdmitRun, ReadAndDecide, LockTimeout, Dies
<1>4. CASE Compare(c) \/ RestoreAgain(c) \/ AfterFailure(c) \/ Project(c)
  BY <1>1, <1>4 DEF Compare, RestoreAgain, AfterFailure, Project, Finish
<1>5. CASE TakeLock(c) \/ EnsureReserve(c) \/ ReleaseReserve(c) \/ EnsureAgain(c) \/ Unlock(c)
  BY <1>5 DEF TakeLock, EnsureReserve, ReleaseReserve, EnsureAgain, Unlock
<1>6. CASE RestoreReserve(c)
  BY <1>6 DEF RestoreReserve
<1>7. CASE Write(c) \/ Rewrite(c)
  BY <1>7 DEF Write, Rewrite, Publish
<1> QED  BY <1>2, <1>3, <1>4, <1>5, <1>6, <1>7 DEF ClientStep

LEMMA DispatchStep ==
    ASSUME DispatchInv, StoreInv', NEW c \in Clients, NEW e \in Commands, OnlyOf(c), Dispatch(c, e)
    PROVE  DispatchInv' /\ [Log!LogNext]_(Log!logVars)
<1>1. /\ point[c] = "idle" /\ point'[c] \in {"admit", "read"} /\ ~published[c] /\ ~failed[c]
      /\ UNCHANGED <<segments, published, failed>> /\ command' = [command EXCEPT ![c] = e]
  BY DEF Dispatch, Onto, store, memory, DispatchInv, StoreInv, StoreTypes, Remembers, Unwritten
<1>2. Remembers(c)'
  BY <1>1 DEF Remembers, AfterWriting
<1>3. Status(c) \in {"idle"} \cup Log!Answers /\ Status(c)' = "asked"
  BY <1>1 DEF Status, DispatchInv, MemoryTypes
<1>4. Stream' = Stream
  BY <1>1 DEF Stream, Cursor
<1>5. Log!Ask(c, e)
  BY <1>1, <1>3, <1>4, StatusMoves DEF Log!Ask
<1> QED  BY <1>1, <1>2, <1>5, OthersRemember DEF Log!LogNext

LEMMA QuietGoto ==
    ASSUME DispatchInv, StoreInv', NEW c \in Clients, OnlyOf(c), UNCHANGED <<segments, command>>,
           UNCHANGED memory, NEW l \in DispatchPoints \ {"idle"}, Onto(c, l), point[c] # "idle",
           l \in Unwritten => point[c] \in Unwritten,
           l \in {"ensureAgain", "restoreAgain"} => published[c] \/ failed[c],
           l \in {"unlock", "project"} => published[c],
           l \in AfterWriting => point[c] \in AfterWriting
    PROVE  DispatchInv' /\ [Log!LogNext]_(Log!logVars)
<1>1. point'[c] = l /\ UNCHANGED <<base, published, failed>> /\ Cursor' = Cursor
  BY DEF Onto, memory, DispatchInv, StoreInv, StoreTypes, Cursor
<1>2. Remembers(c)'
  BY <1>1 DEF DispatchInv, Remembers, Recorded
<1> QED  BY <1>1, <1>2, StaysInside

LEMMA EarlySteps ==
    ASSUME DispatchInv, StoreInv', NEW c \in Clients, OnlyOf(c),
           AdmitRun(c) \/ ReadAndDecide(c) \/ TakeLock(c) \/ LockTimeout(c)
    PROVE  DispatchInv' /\ [Log!LogNext]_(Log!logVars)
<1> DEFINE G == DispatchInv' /\ [Log!LogNext]_(Log!logVars)
<1>1. /\ point[c] \in Unwritten /\ point[c] # "idle" /\ ~published[c] /\ ~failed[c]
      /\ UNCHANGED <<segments, command>>
  BY DEF AdmitRun, ReadAndDecide, TakeLock, LockTimeout, store, Unwritten, DispatchInv, Remembers
<1>2. CASE Answer(c, "REJECTED")
  BY <1>1, <1>2, Ends DEF Log!Answers
<1>3. ASSUME NEW l \in {"read", "lock", "compare"}, Onto(c, l), UNCHANGED <<published, failed>> PROVE G
  <2>1. point'[c] = l /\ UNCHANGED <<published, failed>>
    BY <1>3 DEF Onto, DispatchInv, StoreInv, StoreTypes
  <2>2. Remembers(c)' /\ point'[c] # "idle"
    BY <1>1, <2>1 DEF Remembers, AfterWriting
  <2> QED  BY <1>1, <2>1, <2>2, StaysInside
<1> QED  BY <1>2, <1>3 DEF AdmitRun, ReadAndDecide, TakeLock, LockTimeout, memory

(* What reading the stream for one's own segment tells a client.             *)
LEMMA ReadBack ==
    ASSUME StoreInv, NEW c \in Clients
    PROVE  /\ Cursor > base[c] /\ Stream[base[c] + 1] = command[c] => command[c] \in Log!Range(Stream)
           /\ base[c] = Cursor => ~(Cursor > base[c])
           /\ Recorded(c) => Cursor > base[c] /\ Stream[base[c] + 1] = command[c]
<1>1. Cursor \in Nat /\ base[c] \in Nat
  BY CursorIsNat DEF StoreInv, StoreTypes
<1>2. DOMAIN Stream = 1..Cursor
  BY StreamOf DEF StoreInv, StoreTypes
<1>3. ASSUME Cursor > base[c], Stream[base[c] + 1] = command[c] PROVE command[c] \in Log!Range(Stream)
  BY <1>1, <1>2, <1>3 DEF Log!Range
<1>4. ASSUME Recorded(c) PROVE Cursor > base[c] /\ Stream[base[c] + 1] = command[c]
  <2>1. PICK s \in segments : s.cursor = base[c] + 1 /\ s.event = command[c]
    BY <1>4 DEF Recorded
  <2>2. s.cursor \in 1..Cursor /\ Stream[s.cursor] = s.event
    BY StreamOf DEF StoreInv, StoreTypes
  <2> QED  BY <1>1, <2>1, <2>2
<1> QED  BY <1>1, <1>3, <1>4

LEMMA CompareStep ==
    ASSUME DispatchInv, StoreInv', NEW c \in Clients, OnlyOf(c), Compare(c)
    PROVE  DispatchInv' /\ [Log!LogNext]_(Log!logVars)
<1>1. /\ point[c] = "compare" /\ UNCHANGED <<segments, command>> /\ ~published[c] /\ ~failed[c] /\ "compare" \in Unwritten
  BY DEF Compare, store, DispatchInv, Remembers, Unwritten
<1>2. CASE /\ Cursor > base[c] /\ Stream[base[c] + 1] = command[c]
           /\ published' = [published EXCEPT ![c] = TRUE] /\ Onto(c, "unlock")
  <2>1. published'[c] /\ point'[c] = "unlock" /\ "unlock" \notin Unwritten /\ "unlock" \notin AfterWriting
    BY <1>2 DEF Onto, DispatchInv, StoreInv, StoreTypes, MemoryTypes, Unwritten, Writing, AfterWriting
  <2>2. Remembers(c)'
    BY <2>1 DEF Remembers
  <2>3. command[c] \in Log!Range(Stream)
    BY <1>2, ReadBack DEF DispatchInv
  <2>4. Status(c) = "asked" /\ Status(c)' = "committed"
    BY <1>1, <2>1 DEF Status
  <2> QED  BY <1>1, <2>2, <2>3, <2>4, OthersRemember, CallerStep
<1>3. CASE Finish(c, "REJECTED")
  BY <1>1, <1>3, Ends DEF Finish, Log!Answers
<1>4. CASE Onto(c, "ensure") /\ UNCHANGED memory
  <2>1. "ensure" \in DispatchPoints \ {"idle"} /\ "ensure" \notin AfterWriting
    BY DEF DispatchPoints, AfterWriting
  <2> QED  BY <1>1, <1>4, <2>1, QuietGoto
<1> QED  BY <1>2, <1>3, <1>4 DEF Compare

LEMMA WriteSteps ==
    ASSUME DispatchInv, StoreInv', NEW c \in Clients, OnlyOf(c),
           \/ EnsureReserve(c) \/ RestoreReserve(c) \/ Write(c) \/ ReleaseReserve(c) \/ Rewrite(c)
    PROVE  DispatchInv' /\ [Log!LogNext]_(Log!logVars)
<1> DEFINE G == DispatchInv' /\ [Log!LogNext]_(Log!logVars)
<1>1. /\ point[c] \in Writing /\ point[c] \in Unwritten /\ point[c] # "idle"
      /\ UNCHANGED <<command, base>> /\ ~published[c] /\ ~failed[c] /\ base[c] = Cursor
  BY AtEnd DEF EnsureReserve, RestoreReserve, Write, ReleaseReserve, Rewrite, store, memory, Unwritten,
               Writing, DispatchInv, Remembers
<1>2. ASSUME NEW l \in Writing, Onto(c, l), UNCHANGED <<segments, published, failed>> PROVE G
  <2>1. l \in DispatchPoints \ {"idle"} /\ l \notin AfterWriting
    BY DEF DispatchPoints, AfterWriting, Writing
  <2>2. l \notin {"ensureAgain", "restoreAgain", "unlock", "project"}
    BY DEF Writing
  <2> QED  BY <1>1, <1>2, <2>1, <2>2, QuietGoto DEF memory
<1>3. ASSUME NEW l \in {"afterFailure", "ensureAgain"}, Onto(c, l), UNCHANGED <<segments, published>>,
             failed' = [failed EXCEPT ![c] = TRUE]
      PROVE  G
  <2>1. point'[c] = l /\ l # "idle" /\ l \notin Unwritten /\ l # "restoreAgain" /\ failed'[c]
        /\ ~published'[c] /\ published'[c] = published[c] /\ Cursor' = Cursor
    BY <1>1, <1>3 DEF Onto, DispatchInv, StoreInv, StoreTypes, MemoryTypes, Unwritten, Writing, Cursor
  <2>2. Remembers(c)'
    BY <1>1, <2>1 DEF Remembers
  <2> QED  BY <1>1, <1>3, <2>1, <2>2, StaysInside
<1>4. ASSUME NEW l \in {"afterFailure", "ensureAgain", "unlock"}, Onto(c, l), Publish(c) PROVE G
  <2>1. point'[c] = l /\ l \in AfterWriting \cup {"unlock"} /\ l # "restoreAgain"
    BY <1>4 DEF Onto, DispatchInv, StoreInv, StoreTypes, AfterWriting
  <2> QED  BY <1>1, <1>4, <2>1, Publishes
<1>5. CASE EnsureReserve(c)
  BY <1>2, <1>5 DEF EnsureReserve, store, memory, Writing
<1>6. CASE RestoreReserve(c)
  <2>1. UNCHANGED <<segments, published>>
    BY <1>6 DEF RestoreReserve
  <2> QED  BY <1>2, <1>3, <1>6, <2>1 DEF RestoreReserve, Writing
<1>7. CASE Write(c)
  BY <1>2, <1>3, <1>4, <1>7 DEF Write, Writing
<1>8. CASE ReleaseReserve(c)
  BY <1>2, <1>8 DEF ReleaseReserve, memory, Writing
<1>9. CASE Rewrite(c)
  BY <1>3, <1>4, <1>9 DEF Rewrite
<1> QED  BY <1>5, <1>6, <1>7, <1>8, <1>9

LEMMA LateSteps ==
    ASSUME DispatchInv, StoreInv', NEW c \in Clients, OnlyOf(c),
           EnsureAgain(c) \/ RestoreAgain(c) \/ AfterFailure(c) \/ Unlock(c) \/ Project(c)
    PROVE  DispatchInv' /\ [Log!LogNext]_(Log!logVars)
<1> DEFINE G == DispatchInv' /\ [Log!LogNext]_(Log!logVars)
<1>1. UNCHANGED <<segments, command>> /\ point[c] # "idle" /\ Remembers(c)
  BY DEF EnsureAgain, RestoreAgain, AfterFailure, Unlock, Project, store, DispatchInv
<1>2. ASSUME NEW l \in {"restoreAgain", "afterFailure", "unlock", "project"}, Onto(c, l), UNCHANGED memory,
             l \in {"restoreAgain", "afterFailure"} => point[c] \in AfterWriting,
             l = "restoreAgain" => published[c] \/ failed[c],
             l \in {"unlock", "project"} => published[c]
      PROVE  G
  <2>1. l \in DispatchPoints \ {"idle"} /\ l \notin Unwritten
    BY DEF DispatchPoints, Unwritten, Writing
  <2>2. l \in AfterWriting => point[c] \in AfterWriting
    BY <1>2 DEF AfterWriting
  <2> QED  BY <1>1, <1>2, <2>1, <2>2, QuietGoto
<1>3. CASE EnsureAgain(c)
  <2>1. point[c] = "ensureAgain" /\ "ensureAgain" \in AfterWriting /\ UNCHANGED memory /\ (published[c] \/ failed[c])
    BY <1>1, <1>3 DEF EnsureAgain, AfterWriting, Remembers
  <2>2. CASE ~reserve
    BY <1>2, <1>3, <2>1, <2>2 DEF EnsureAgain
  <2> QED  BY <1>2, <1>3, <2>1 DEF EnsureAgain
<1>4. CASE RestoreAgain(c)
  <2>1. point[c] = "restoreAgain" /\ point[c] \in AfterWriting /\ (published[c] \/ failed[c])
    BY <1>1, <1>4 DEF RestoreAgain, AfterWriting, Remembers
  <2>2. CASE Onto(c, IF failed[c] THEN "afterFailure" ELSE "unlock") /\ UNCHANGED memory
    BY <1>2, <2>1, <2>2
  <2>3. CASE Finish(c, "UNKNOWN")
    BY <1>1, <2>3, Ends DEF Finish, Log!Answers
  <2> QED  BY <1>4, <2>2, <2>3 DEF RestoreAgain
<1>5. CASE AfterFailure(c)
  <2>1. point[c] = "afterFailure" /\ IF published[c] THEN Recorded(c) ELSE base[c] = Cursor
    BY <1>1, <1>5 DEF AfterFailure, AfterWriting, Remembers
  <2>2. published[c] <=> Cursor > base[c] /\ Stream[base[c] + 1] = command[c]
    BY <2>1, ReadBack DEF DispatchInv, MemoryTypes
  <2>3. CASE Onto(c, "unlock") /\ UNCHANGED memory /\ published[c]
    BY <1>2, <2>3
  <2>4. CASE Finish(c, "REJECTED") /\ ~published[c]
    BY <1>1, <2>4, Ends DEF Finish, Log!Answers
  <2> QED  BY <1>5, <2>2, <2>3, <2>4 DEF AfterFailure
<1>6. CASE Unlock(c)
  <2>1. Onto(c, "project") /\ UNCHANGED memory /\ published[c]
    BY <1>1, <1>6 DEF Unlock, Remembers
  <2> QED  BY <1>2, <2>1
<1>7. CASE Project(c)
  <2>1. published[c] /\ (Answer(c, "ACCEPTED") \/ Answer(c, "UNKNOWN"))
    BY <1>1, <1>7 DEF Project, Remembers
  <2> QED  BY <1>1, <2>1, Ends DEF Log!Answers
<1> QED  BY <1>3, <1>4, <1>5, <1>6, <1>7

LEMMA CrashStep ==
    ASSUME DispatchInv, StoreInv', NEW c \in Clients, OnlyOf(c), Dies(c)
    PROVE  DispatchInv' /\ [Log!LogNext]_(Log!logVars)
  BY Ends DEF Dies, store, Log!Answers

LEMMA StoreSimulates ==
    DispatchInv /\ [StoreNext]_storeVars => DispatchInv' /\ [Log!LogNext]_(Log!logVars)
<1> SUFFICES ASSUME DispatchInv, [StoreNext]_storeVars
             PROVE  DispatchInv' /\ [Log!LogNext]_(Log!logVars)
  OBVIOUS
<1>1. StoreInv'
  BY StoreInvNext DEF DispatchInv
<1>2. CASE UNCHANGED storeVars \/ OthersRestore
  <2>1. UNCHANGED <<command, point, segments, base, published, failed, answer>>
    BY <1>2 DEF storeVars, store, memory, mutex, OthersRestore
  <2>2. DispatchInv'
    BY <1>1, <2>1 DEF DispatchInv, MemoryTypes, Remembers, Recorded, Cursor
  <2>3. \A d \in Clients : Status(d)' = Status(d)
    BY <2>1 DEF Status
  <2>4. [d \in Clients |-> Status(d)]' = [d \in Clients |-> Status(d)]
    BY <2>3
  <2>5. Stream' = Stream
    BY <2>1 DEF Stream, Cursor
  <2> QED  BY <2>1, <2>2, <2>4, <2>5 DEF Log!logVars
<1>3. ASSUME NEW c \in Clients, \E e \in Commands : Dispatch(c, e)
      PROVE  DispatchInv' /\ [Log!LogNext]_(Log!logVars)
  BY <1>1, <1>3, StepConcerns, DispatchStep
<1>4. ASSUME NEW c \in Clients, ClientStep(c)
      PROVE  DispatchInv' /\ [Log!LogNext]_(Log!logVars)
  <2>1. OnlyOf(c)
    BY <1>4, StepConcerns
  <2> QED  BY <1>1, <1>4, <2>1, EarlySteps, CompareStep, WriteSteps, LateSteps DEF ClientStep
<1>5. ASSUME NEW c \in Clients, Dies(c)
      PROVE  DispatchInv' /\ [Log!LogNext]_(Log!logVars)
  BY <1>1, <1>5, StepConcerns, CrashStep
<1> QED  BY <1>2, <1>3, <1>4, <1>5 DEF StoreNext

LEMMA DispatchInitInv == StoreInit => DispatchInv /\ Log!LogInit
<1> SUFFICES ASSUME StoreInit PROVE DispatchInv /\ Log!LogInit
  OBVIOUS
<1> USE DEF StoreInit
<1>1. MemoryTypes /\ \A c \in Clients : Remembers(c)
  BY DEF MemoryTypes, Remembers, AfterWriting
<1>2. Stream = <<>>
  <2>1. Cursor = 0
    BY FS_EmptySet DEF Cursor
  <2> QED  BY <2>1 DEF Stream
<1>3. [c \in Clients |-> Status(c)] = [c \in Clients |-> "idle"]
  BY DEF Status
<1> QED  BY <1>1, <1>2, <1>3, StoreInvInit DEF DispatchInv, Log!LogInit

(* The store implements the abstract event log: each dispatch takes effect   *)
(* at the instant its segment becomes visible, an ACCEPTED one is in the     *)
(* stream, a REJECTED one left nothing behind, and only an UNKNOWN one may   *)
(* have done either, for any clients, commands, deaths and full disks.       *)
THEOREM StoreImplementsLog == StoreSpec => ImplementsEventLog
<1>1. StoreInit => DispatchInv /\ Log!LogInit
  BY DispatchInitInv
<1>2. DispatchInv /\ [StoreNext]_storeVars => DispatchInv' /\ [Log!LogNext]_(Log!logVars)
  BY StoreSimulates
<1> QED  BY <1>1, <1>2, PTL DEF StoreSpec, ImplementsEventLog, Log!LogSpec
=============================================================================

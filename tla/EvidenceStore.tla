---------------------------- MODULE EvidenceStore ---------------------------
(***************************************************************************)
(* FileEvidenceStore (packages/evidence/src/evidence-store.ts): one        *)
(* immutable envelope per Evidence identity.  Retained content is first    *)
(* written as noncritical growth, under the Run's stop; when space runs    *)
(* out the store keeps a digest of it, which critical kinds may write out  *)
(* of the emergency reserve.                                               *)
(*                                                                         *)
(* Captures are one at a time here, as the Run that owns the store makes   *)
(* them; a write may fail or the process die between any two steps.        *)
(***************************************************************************)
EXTENDS Integers, FiniteSets

CONSTANTS EvidenceIds,  \* Evidence identities of one Run
          CriticalIds,  \* those of a critical kind
          Contents,     \* content identities
          RunStop,      \* runNoncriticalStopBytes
          MaxFaults     \* bound on failed writes and crashes

ASSUME EvidenceAssumption ==
    CriticalIds \subseteq EvidenceIds /\ RunStop \in Nat \ {0} /\ MaxFaults \in Nat

VARIABLES directory,  \* identities whose directory exists
          record,     \* [EvidenceIds -> set of published envelopes]
          capture,    \* the capture under way
          faults

evidenceVars == <<directory, record, capture, faults>>

Forms == {"RETAINED", "DIGEST_ONLY"}
EnvelopeBytes(e) == IF e.form = "RETAINED" THEN 2 ELSE 1
NoCapture == [phase |-> "NONE"]

EvidenceInit ==
    /\ directory = {}
    /\ record = [i \in EvidenceIds |-> {}]
    /\ capture = NoCapture
    /\ faults = 0

CaptureAt(phase) == capture.phase = phase
CaptureTo(phase, form) == capture' = [capture EXCEPT !.phase = phase, !.form = form]
Fault == faults < MaxFaults /\ faults' = faults + 1

(* listEvidenceIds and read: a directory without its one envelope is an      *)
(* error, also one a capture made and died in.                               *)
Listable == \A i \in directory : Cardinality(record[i]) = 1
(* The bytes of i's envelopes, each named by its envelope and its number.    *)
StoredBytes(i) == UNION {{e} \X (1..EnvelopeBytes(e)) : e \in record[i]}
BytesStored(ids) == Cardinality(UNION {{i} \X StoredBytes(i) : i \in ids})
NoncriticalBytes == BytesStored(directory \ CriticalIds)

(* An identity that has its envelope is answered from it, or refused.        *)
CaptureBegins(i, c, form) ==
    /\ CaptureAt("NONE") /\ record[i] = {}
    /\ capture' = [id |-> i, content |-> c, form |-> form,
                   phase |-> IF form = "DIGEST_ONLY" /\ i \in CriticalIds THEN "WRITE" ELSE "ADMIT"]
    /\ UNCHANGED <<directory, record, faults>>

BelowStop == NoncriticalBytes + EnvelopeBytes(capture) < RunStop

(* writeNonCritical: the Run's stop and the free space decide.               *)
AdmitGrowth ==
    /\ CaptureAt("ADMIT")
    /\ \/ Listable /\ BelowStop /\ CaptureTo("WRITE", capture.form)
       \/ /\ Listable /\ capture.form = "RETAINED"
          /\ CaptureTo("FALLBACK", "RETAINED")
       \/ /\ ~Listable \/ capture.form = "DIGEST_ONLY"
          /\ capture' = NoCapture
    /\ UNCHANGED <<directory, record, faults>>

MakeDirectory ==
    /\ CaptureAt("WRITE") /\ CaptureTo("LINK", capture.form)
    /\ directory' = directory \cup {capture.id}
    /\ UNCHANGED <<record, faults>>
LinkEnvelope ==
    /\ CaptureAt("LINK") /\ CaptureTo("PUBLISHED", capture.form)
    /\ record' = [record EXCEPT ![capture.id] = @ \cup {[form |-> capture.form, content |-> capture.content]}]
    /\ UNCHANGED <<directory, faults>>
CaptureReturns ==
    /\ CaptureAt("PUBLISHED") /\ capture' = NoCapture
    /\ UNCHANGED <<directory, record, faults>>

(* Out of space before or after the link: growth falls back to a digest, a   *)
(* critical write is tried again from the reserve.                           *)
DiskFull ==
    /\ CaptureAt("LINK") \/ CaptureAt("PUBLISHED")
    /\ Fault
    /\ IF capture.form = "RETAINED" THEN CaptureTo("FALLBACK", "RETAINED")
       ELSE IF capture.id \in CriticalIds /\ CaptureAt("LINK") THEN CaptureTo("LINK", "DIGEST_ONLY")
       ELSE capture' = NoCapture
    /\ UNCHANGED <<directory, record>>
CaptureDies ==
    /\ ~CaptureAt("NONE") /\ Fault
    /\ capture' = NoCapture
    /\ UNCHANGED <<directory, record>>

\* Mutant: the identity is not read again.
AfterFallback_NoSecondRead == IF capture.id \in CriticalIds THEN "WRITE" ELSE "ADMIT"
(* What was published in spite of the error is what the capture answers.     *)
AfterFallback ==
    IF record[capture.id] # {} THEN "NONE"
    ELSE IF capture.id \in CriticalIds THEN "WRITE" ELSE "ADMIT"
FallBack ==
    /\ CaptureAt("FALLBACK")
    /\ IF AfterFallback = "NONE" THEN capture' = NoCapture
       ELSE CaptureTo(AfterFallback, "DIGEST_ONLY")
    /\ UNCHANGED <<directory, record, faults>>

EvidenceNext ==
    \/ \E i \in EvidenceIds, c \in Contents, form \in Forms : CaptureBegins(i, c, form)
    \/ AdmitGrowth \/ MakeDirectory \/ LinkEnvelope \/ CaptureReturns
    \/ DiskFull \/ CaptureDies \/ FallBack
EvidenceSpec == EvidenceInit /\ [][EvidenceNext]_evidenceVars

-----------------------------------------------------------------------------
(* Whatever fails, an identity has one envelope (a second one, the digest of *)
(* content that was retained after all, would make it unreadable), and the   *)
(* noncritical Evidence of the Run stays below its stop (persist,            *)
(* writeNonCritical).                                                        *)
OneEnvelopePerEvidence ==
    /\ \A i \in EvidenceIds : Cardinality(record[i]) =< 1
    /\ BytesStored(EvidenceIds \ CriticalIds) < RunStop
=============================================================================

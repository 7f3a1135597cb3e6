--------------------------- MODULE EffectJournal ---------------------------
(***************************************************************************)
(* The effect journal of noerelay-store (effect_journal): an attempt       *)
(* records its intent, dispatches the effect downstream, and records the   *)
(* result; what is left unknown is reconciled by somebody else.            *)
(*                                                                         *)
(* record_effect_request, record_effect_result and reconcile_effect are    *)
(* one transaction each.  The dispatch between them is the caller's; it is *)
(* modelled from the protocol the functions serve, as are the crash of an  *)
(* attempt and a result that arrives late.                                 *)
(***************************************************************************)
EXTENDS FiniteSets

CONSTANTS
    EffectIds,   \* effect_id values
    Attempts,    \* attempts that request effects
    Intents      \* (tool, intent, request hash, idempotency key) combinations

VARIABLES
    journal,     \* effect_journal
    allowed,     \* record_effect_request calls that returned Ok and are not dispatched yet
    dispatched,  \* effects sent downstream and not answered yet
    performed,   \* every effect ever sent downstream
    settled      \* effects with an outcome recorded by either operation

journalVars == <<journal, allowed, dispatched, performed, settled>>

ResultStatus == {"applied", "rejected", "unknown", "reconciled", "compensated"}
NoEffect == [status |-> "absent"]
JournalRow == [status : ResultStatus, attempt : Attempts, intent : Intents]
Request == [effect : EffectIds, attempt : Attempts, intent : Intents]

JournalTypeOK ==
    /\ journal \in [EffectIds -> JournalRow \cup {NoEffect}]
    /\ {allowed, dispatched, performed} \subseteq SUBSET Request
    /\ settled \subseteq EffectIds

JournalInit ==
    /\ journal = [e \in EffectIds |-> NoEffect]
    /\ allowed = {}
    /\ dispatched = {}
    /\ performed = {}
    /\ settled = {}

Journaled(e) == journal[e] # NoEffect
Unknown(e) == journal[e].status = "unknown"

Inserted(q) == [status |-> "unknown", attempt |-> q.attempt, intent |-> q.intent]

\* Mutant of Matches: the attempt is not compared.
MatchesIntent(q) == journal[q.effect].intent = q.intent

Matches(q) ==
    journal[q.effect].intent = q.intent /\ journal[q.effect].attempt = q.attempt

\* A repeated request of the same attempt for the same intent is Ok again; any
\* other for the same effect_id is InvalidInput and changes nothing.
RecordEffectRequest(q) ==
    /\ \/ /\ ~Journaled(q.effect)
          /\ journal' = [journal EXCEPT ![q.effect] = Inserted(q)]
       \/ /\ Journaled(q.effect) /\ Matches(q)
          /\ UNCHANGED journal
    /\ allowed' = allowed \cup {q}
    /\ UNCHANGED <<dispatched, performed, settled>>

Dispatch(q) ==
    /\ q \in allowed
    /\ allowed' = allowed \ {q}
    /\ dispatched' = dispatched \cup {q}
    /\ performed' = performed \cup {q}
    /\ UNCHANGED <<journal, settled>>

\* Whatever the row holds by now, and whatever outcome is reported.
RecordEffectResult(q, s) ==
    /\ q \in dispatched
    /\ journal' = [journal EXCEPT ![q.effect].status = s]
    /\ dispatched' = dispatched \ {q}
    /\ settled' = IF s = "unknown" THEN settled ELSE settled \cup {q.effect}
    /\ UNCHANGED <<allowed, performed>>

\* The attempt dies: nothing it was allowed is dispatched, no answer is recorded.
AttemptCrash(a) ==
    /\ \E q \in allowed \cup dispatched : q.attempt = a
    /\ allowed' = {q \in allowed : q.attempt # a}
    /\ dispatched' = {q \in dispatched : q.attempt # a}
    /\ UNCHANGED <<journal, performed, settled>>

ReconcileEffect(e, s) ==
    /\ s # "unknown"
    /\ Unknown(e)
    /\ journal' = [journal EXCEPT ![e].status = s]
    /\ settled' = settled \cup {e}
    /\ UNCHANGED <<allowed, dispatched, performed>>

JournalNext ==
    \/ \E q \in Request : RecordEffectRequest(q) \/ Dispatch(q)
    \/ \E q \in dispatched, s \in ResultStatus : RecordEffectResult(q, s)
    \/ \E a \in Attempts : AttemptCrash(a)
    \/ \E e \in EffectIds, s \in ResultStatus : ReconcileEffect(e, s)

JournalSpec == JournalInit /\ [][JournalNext]_journalVars

-----------------------------------------------------------------------------
\* Nothing is sent downstream without its journal row, and that row names the
\* attempt and the intent that were sent (record_effect_request before dispatch):
\* so one effect_id is never carried out by two attempts or for two intents.
DispatchJournaled ==
    \A q \in performed :
        /\ Journaled(q.effect)
        /\ journal[q.effect].attempt = q.attempt
        /\ journal[q.effect].intent = q.intent

\* After a crash, and after a result that says unknown, an effect whose outcome
\* nobody recorded is in get_pending_unknown_effects.
UnsettledListed ==
    \A q \in performed : q.effect \in settled \/ Unknown(q.effect)

\* What was sent downstream is in the journal under its attempt and intent, and
\* what nobody settled is listed as unknown (record_effect_request,
\* get_pending_unknown_effects).
EffectsAccounted == JournalTypeOK /\ DispatchJournaled /\ UnsettledListed
=============================================================================

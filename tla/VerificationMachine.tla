------------------------ MODULE VerificationMachine ------------------------
(***************************************************************************)
(* The lifecycle of spec/verification-state-machine.json, as the gateway's *)
(* VerificationStateMachine runs it: one state per run id, kept in memory. *)
(***************************************************************************)
LOCAL INSTANCE Naturals
LOCAL INSTANCE Sequences

Initial == "received"
Terminal == {"completed", "rejected"}

Lifecycle == {
    <<"received", "propose_contract", "contract_proposed">>,
    <<"contract_proposed", "request_clarification", "clarification_required">>,
    <<"clarification_required", "receive_clarification", "contract_proposed">>,
    <<"contract_proposed", "validate_contract", "contract_validated">>,
    <<"contract_validated", "check_policy", "policy_checked">>,
    <<"contract_validated", "deny_policy", "rejected">>,
    <<"policy_checked", "compile_context", "context_compiled">>,
    <<"context_compiled", "select_route", "routed">>,
    <<"context_compiled", "no_admissible_route", "escalation_required">>,
    <<"routed", "start_action", "executing">>,
    <<"executing", "record_result", "evidence_normalized">>,
    <<"evidence_normalized", "start_verification", "verifying">>,
    <<"verifying", "verification_passed", "accepted">>,
    <<"verifying", "verification_failed_repairable", "repairable_failure">>,
    <<"verifying", "verification_failed_unresolved", "escalation_required">>,
    <<"repairable_failure", "select_semantic_fallback", "routed">>,
    <<"repairable_failure", "repair_exhausted", "escalation_required">>,
    <<"escalation_required", "request_human_review", "human_review">>,
    <<"escalation_required", "reject", "rejected">>,
    <<"human_review", "approve", "accepted">>,
    <<"human_review", "reject", "rejected">>,
    <<"accepted", "issue_receipt", "completed">> }

MachineStates == {t[1] : t \in Lifecycle} \cup {t[3] : t \in Lifecycle} \cup {Initial}

\* transition raises TransitionError where no entry leaves the state on the event.
Legal(state, event) == \E t \in Lifecycle : t[1] = state /\ t[2] = event
Moved(state, event) == (CHOOSE t \in Lifecycle : t[1] = state /\ t[2] = event)[3]

\* The state after a series of events; "illegal" once one of them is refused.
After(state, events) ==
    LET reached[i \in 0 .. Len(events)] ==
            IF i = 0 THEN state
            ELSE IF reached[i-1] # "illegal" /\ Legal(reached[i-1], events[i]) THEN Moved(reached[i-1], events[i])
            ELSE "illegal"
    IN reached[Len(events)]
=============================================================================

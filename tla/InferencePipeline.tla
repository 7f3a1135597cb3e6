------------------------- MODULE InferencePipeline -------------------------
(***************************************************************************)
(* run_inference_pipeline: one thread per inference request, from the kill *)
(* switches to the answer, over the run registry, the lifecycle machine,   *)
(* the response cache, the switches in config and the tenants' charges.    *)
(* Runs are numbered in the order of their requests.  Between two steps of *)
(* a thread other threads run; registry calls made in a row are one step.  *)
(***************************************************************************)
EXTENDS Tenancy, Picking

M == INSTANCE VerificationMachine

CONSTANTS
    Workloads,   \* [portfolio, requests]: providers in the order the router ranks them, and
                 \* per run, the request: [tenant, project, messages, local, risk, valid, clear]
    Projects,    \* project_id of the governance; one with no switch stands for none
    Switches,    \* switches an operator may set: "global", tenants, projects, providers
    Compress,    \* what compress_messages makes of each messages value
    Providers, LocalPlan,  \* providers of the candidates; that of the local ones
    CacheSize,
    Leaving,     \* tenants an operator deletes
    MaxFaults    \* bound: switches set, tenants deleted, records read back, restarts

\* "low" stands for every risk below "high".
Requests == [tenant : Tenants, project : Projects, messages : DOMAIN Compress, local : BOOLEAN,
             risk : {"low", "high", "critical"}, valid : BOOLEAN, clear : BOOLEAN]

\* ResponseCache refuses a max_size below 1.
ASSUME PipelineAssumption ==
    /\ \A w \in Workloads : w.portfolio \in Seq(Providers) /\ w.requests \in [Runs -> Requests]
    /\ Compress \in [DOMAIN Compress -> DOMAIN Compress]
    /\ CacheSize \in Nat \ {0}
    /\ MaxFaults \in Nat

VARIABLES
    portfolio, \* ctx.portfolio, with the local candidates when they are enabled
    pc, req,
    messages,  \* request["messages"], replaced in place by the compression
    sm,        \* VerificationStateMachine._states
    plans,     \* the decision: providers in the order they are tried
    attempt,   \* the plan that is tried
    retrying,  \* the attempt is the cloud retry of a failed local one
    verdict,   \* what the attempt's verification came to
    paid,      \* the last upstream call had a cost
    receipt,   \* what issue_receipt has built
    answer,    \* what the client gets
    source,    \* the run whose response it is
    cache,     \* ResponseCache._cache in insertion order
    killed,    \* switches stored in config
    killedAt,  \* ghost: the switches at the arrival of the request
    called,    \* ghost: providers called for the run
    dropped,   \* ghost: runs whose record memory dropped before it was saved with its receipt
    faults     \* how many of these there were

threadVars == <<portfolio, pc, req, messages, plans, attempt, retrying, verdict, paid, receipt, answer,
                source, killedAt, called>>
vars == <<registryVars, tenancyVars, threadVars, sm, cache, killed, faults, dropped>>

Ended == {"ended", "lost"}

\* The places of a request whose record has still to be saved with its receipt.
Recording == {"begun", "intake", "prepared", "started", "replied", "passed", "accepting", "rejecting", "receipted"}

TypeOK ==
    /\ RegistryTypeOK
    /\ pc \in [Runs -> {"idle", "arrived", "new", "settled", "refused", "cached"} \cup Recording \cup Ended]
    /\ sm \in [Runs -> M!MachineStates]
    /\ \A r \in Runs : ToSet(plans[r]) \subseteq Providers
    /\ answer \in [Runs -> {"none", "fresh", "hit", "422", "424", "500", "503"}]
    /\ Len(cache) <= CacheSize
    /\ killed \subseteq Switches
    /\ faults <= MaxFaults

Init ==
    /\ RegistryInit /\ TenancyInit
    /\ pc = [r \in Runs |-> "idle"]
    /\ \E w \in Workloads : portfolio = w.portfolio /\ req = w.requests
    /\ messages = [r \in Runs |-> req[r].messages]
    /\ sm = [r \in Runs |-> M!Initial]
    /\ plans = [r \in Runs |-> <<>>]
    /\ attempt = [r \in Runs |-> 1]
    /\ retrying = [r \in Runs |-> FALSE]
    /\ verdict = [r \in Runs |-> "none"]
    /\ paid = [r \in Runs |-> FALSE]
    /\ receipt = [r \in Runs |-> NoReceipt]
    /\ answer = [r \in Runs |-> "none"]
    /\ source = [r \in Runs |-> 0]
    /\ cache = <<>>
    /\ killed = {}
    /\ killedAt = [r \in Runs |-> {}]
    /\ called = [r \in Runs |-> {}]
    /\ faults = 0
    /\ dropped = {}

At(r, here) == pc[r] = here
Goto(r, there) == pc' = [pc EXCEPT ![r] = there]
Finish(r, status) ==
    /\ Goto(r, "ended")
    /\ answer' = [answer EXCEPT ![r] = status]
    /\ UNCHANGED source
\* The machine moves before the ledger is written, and never illegally.
Advance(r, events) == sm' = [sm EXCEPT ![r] = M!After(@, events)]

faultVars == <<killed, faults>>
sharedVars == <<tenancyVars, cache, faultVars, dropped>>
runVars == <<portfolio, req, messages, plans, attempt, retrying, verdict, paid, killedAt, called>>
callVars == <<runVars, receipt>>
answerVars == <<answer, source>>

\* ---------------------------------------------------------------- admission
Arrive(r) ==
    /\ At(r, "idle") /\ \A q \in 1 .. r - 1 : pc[q] # "idle"
    /\ Goto(r, "arrived")
    /\ killedAt' = [killedAt EXCEPT ![r] = killed]
    /\ UNCHANGED <<registryVars, sharedVars, sm, portfolio, req, messages, plans, attempt, retrying, verdict, paid,
                   receipt, answerVars, called>>

Off(r) == killed \cap {"global", req[r].tenant, req[r].project} # {}

Refuse(r) ==
    /\ At(r, "arrived") /\ Off(r)
    /\ Finish(r, "503")
    /\ UNCHANGED <<registryVars, sharedVars, callVars, sm>>

\* Mutant of Key: the tenant is not part of the hashed material.
KeyShared(r) == <<messages[r], req[r].local, req[r].risk, req[r].project>>

\* _hash_request: messages as they are now, passthrough, governance, tenant.
Key(r) == <<messages[r], req[r].local, req[r].risk, req[r].valid, req[r].clear, req[r].project, req[r].tenant>>
Hits(r) == {i \in 1 .. Len(cache) : cache[i].key = Key(r)}

\* Mutant of ServeCached: the cache is asked before the switches.
ServeCachedFirst(r) ==
    /\ At(r, "arrived") /\ Hits(r) # {}
    /\ Goto(r, "ended")
    /\ answer' = [answer EXCEPT ![r] = "hit"]
    /\ \E i \in Hits(r) : source' = [source EXCEPT ![r] = cache[i].run]
    /\ UNCHANGED <<registryVars, sharedVars, callVars, sm>>

ServeCached(r) ==
    /\ At(r, "arrived") /\ ~Off(r) /\ Hits(r) # {}
    /\ Goto(r, "ended")
    /\ answer' = [answer EXCEPT ![r] = "hit"]
    /\ \E i \in Hits(r) : source' = [source EXCEPT ![r] = cache[i].run]
    /\ UNCHANGED <<registryVars, sharedVars, callVars, sm>>

\* A miss, or an entry whose time is up (get deletes it).
Miss(r) ==
    /\ At(r, "arrived") /\ ~Off(r)
    /\ \/ Hits(r) = {} /\ UNCHANGED cache
       \/ \E i \in Hits(r) : cache' = RemoveAt(cache, i)
    /\ Goto(r, "new")
    /\ UNCHANGED <<registryVars, tenancyVars, callVars, sm, answerVars, faultVars, dropped>>

\* Runs under way whose record the insertion of another one drops.
Drops == dropped' = dropped \cup {q \in Runs : pc[q] \in Recording /\ Known(q) /\ held'[q] = "absent"}

\* registry.begin: the record, then its "pending" row.
Begin(r) ==
    /\ At(r, "new")
    /\ Insert(r, "live") /\ Drops
    /\ book' = [book EXCEPT ![r] = Record(req[r].tenant)]
    /\ SaveRun(r, RowOf(Record(req[r].tenant), "pending"))
    /\ Goto(r, "begun")
    /\ UNCHANGED <<capacity, chain, tenancyVars, cache, faultVars, callVars, sm, answerVars>>

Own(r) ==
    /\ At(r, "begun")
    /\ SetRunTenant(r, req[r].tenant)
    /\ Advance(r, <<>>)
    /\ Goto(r, "intake")
    /\ UNCHANGED <<sharedVars, callVars, answerVars>>

\* ---------------------------------------------------------------- contract
\* The candidates no switch has taken out (prefer_local merges local ones in again).
Available == Picked(portfolio, {i \in DOMAIN portfolio : portfolio[i] \notin killed})

Reject422(r) ==
    /\ At(r, "intake") /\ ~req[r].valid
    /\ Ledger(r, <<"request_received", "outcome_rejected">>)
    /\ Finish(r, "422")
    /\ UNCHANGED <<sharedVars, callVars, sm>>

\* Critical risk is marked for a human before the contract is proposed; work
\* of high or critical risk with missing acceptance criteria stops here.
Clarify(r) ==
    /\ At(r, "intake") /\ req[r].valid /\ ~req[r].clear /\ req[r].risk # "low"
    /\ LedgerMarked(r, <<"request_received", "contract_proposed">>, req[r].risk = "critical", FALSE)
    /\ Advance(r, <<"propose_contract", "request_clarification">>)
    /\ Finish(r, "422")
    /\ UNCHANGED <<sharedVars, callVars>>

\* The switches are read for the routing before the contract is compiled; the
\* messages are compressed in the request itself.
Prepare(r) ==
    /\ At(r, "intake") /\ req[r].valid /\ (req[r].clear \/ req[r].risk = "low")
    /\ LedgerMarked(r, <<"request_received", "contract_proposed", "contract_validated", "policy_checked",
                         "context_compiled", "context_compressed">>, req[r].risk = "critical", FALSE)
    /\ Advance(r, <<"propose_contract", "validate_contract", "check_policy", "compile_context">>)
    /\ plans' = [plans EXCEPT ![r] = Available]
    /\ messages' = [messages EXCEPT ![r] = Compress[@]]
    /\ Goto(r, "prepared")
    /\ UNCHANGED <<sharedVars, portfolio, req, attempt, retrying, verdict, paid, receipt, killedAt, called, answerVars>>

\* ---------------------------------------------------------------- route, execute
NoRoute(r) ==
    /\ At(r, "prepared") /\ plans[r] = <<>>
    /\ Advance(r, <<"no_admissible_route", "reject">>)
    /\ Ledger(r, <<"route_selected", "outcome_rejected">>)
    /\ Goto(r, "rejecting")
    /\ UNCHANGED <<sharedVars, callVars, answerVars>>

Route(r) ==
    /\ At(r, "prepared") /\ plans[r] # <<>>
    /\ Advance(r, <<"select_route", "start_action">>)
    /\ Ledger(r, <<"route_selected", "action_started">>)
    /\ Goto(r, "started")
    /\ UNCHANGED <<sharedVars, callVars, answerVars>>

\* One upstream call, with the plan whose turn it is.  A transport error moves
\* on to the next plan, and after the last one it ends the request.
Tried(r) == IF retrying[r] THEN portfolio ELSE plans[r]
CallPlan(r) ==
    /\ At(r, "started") /\ Known(r)
    /\ called' = [called EXCEPT ![r] = @ \cup {Tried(r)[attempt[r]]}]

CallFails(r) ==
    /\ CallPlan(r)
    /\ IF attempt[r] = Len(Tried(r))
       THEN /\ Finish(r, "500")
            /\ UNCHANGED <<registryVars, attempt>>
       ELSE /\ attempt' = [attempt EXCEPT ![r] = @ + 1]
            /\ Ledger(r, <<"fallback_triggered">>)
            /\ UNCHANGED <<pc, answerVars>>
    /\ UNCHANGED <<sharedVars, sm, portfolio, req, messages, plans, retrying, verdict, paid, receipt, killedAt>>

\* The answer is verified and the verdict recorded as evidence; only the first
\* attempt moves the machine.
CallReturns(r) ==
    /\ CallPlan(r)
    /\ \E v \in {"passed", "failed"} :
         /\ verdict' = [verdict EXCEPT ![r] = v]
         /\ Ledger(r, <<"action_completed", IF v = "passed" THEN "evidence_passed" ELSE "evidence_failed">>)
    /\ Advance(r, IF retrying[r] THEN <<>> ELSE <<"record_result", "start_verification">>)
    /\ paid' = [paid EXCEPT ![r] = Tried(r)[attempt[r]] # LocalPlan]
    /\ Goto(r, "replied")
    /\ UNCHANGED <<sharedVars, portfolio, req, messages, plans, attempt, retrying, receipt, killedAt, answerVars>>

\* ---------------------------------------------------------------- verdict
\* A failed attempt with a local plan selected, for a request that asked for
\* local models, is routed again over the portfolio as it was loaded.
RetryInCloud(r) ==
    /\ At(r, "replied") /\ verdict[r] = "failed" /\ ~retrying[r]
    /\ req[r].local /\ plans[r][1] = LocalPlan
    /\ LedgerMarked(r, <<"fallback_triggered">>, FALSE, TRUE)
    /\ attempt' = [attempt EXCEPT ![r] = 1]
    /\ retrying' = [retrying EXCEPT ![r] = TRUE]
    /\ Goto(r, "started")
    /\ UNCHANGED <<sharedVars, sm, portfolio, req, messages, plans, verdict, paid, receipt, killedAt, called, answerVars>>

\* No retry, or a failed one: rework is recorded (by the first attempt, and
\* when the decision had a fallback plan), a human is asked for when the risk
\* is critical or the policy's window says so, and the run is rejected.
RejectRun(r) ==
    /\ At(r, "replied") /\ verdict[r] = "failed"
    /\ \E review \in BOOLEAN :
         /\ req[r].risk = "critical" => review
         /\ LedgerMarked(r, (IF Len(plans[r]) > 1 THEN <<"fallback_triggered">> ELSE <<>>)
                            \o (IF review THEN <<"human_review_requested">> ELSE <<>>)
                            \o <<"verification_completed", "outcome_rejected">>, review, TRUE)
    /\ Advance(r, <<"verification_failed_unresolved", "reject">>)
    /\ Goto(r, "rejecting")
    /\ UNCHANGED <<sharedVars, callVars, answerVars>>

\* Mutant of Pass: the verdict is not looked at.
PassUnverified(r) ==
    /\ At(r, "replied")
    /\ Advance(r, <<"verification_passed">>)
    /\ Ledger(r, <<"verification_completed">>)
    /\ Goto(r, "passed")
    /\ UNCHANGED <<sharedVars, callVars, answerVars>>

Pass(r) ==
    /\ At(r, "replied") /\ verdict[r] = "passed"
    /\ Advance(r, <<"verification_passed">>)
    /\ Ledger(r, <<"verification_completed">>)
    /\ Goto(r, "passed")
    /\ UNCHANGED <<sharedVars, callVars, answerVars>>

\* The machine completes, then the outcome goes to the ledger.
Complete(r) ==
    /\ At(r, "passed")
    /\ Advance(r, <<"issue_receipt">>)
    /\ Ledger(r, <<"outcome_accepted">>)
    /\ Goto(r, "accepting")
    /\ UNCHANGED <<sharedVars, callVars, answerVars>>

\* registry.issue_receipt, in its two halves.
Certify(r) ==
    LET status == IF At(r, "accepting") THEN "accepted" ELSE "escalated" IN
    /\ pc[r] \in {"accepting", "rejecting"}
    /\ IssueReceipt(r, status)
    /\ receipt' = [receipt EXCEPT ![r] = ReceiptFor(book[r], status)]
    /\ Goto(r, "receipted")
    /\ UNCHANGED <<sharedVars, runVars, sm, answerVars>>

Save(r) ==
    /\ At(r, "receipted")
    /\ SaveReceipt(r, receipt[r])
    /\ Goto(r, IF receipt[r].status = "accepted" THEN "settled" ELSE "refused")
    /\ UNCHANGED <<sharedVars, callVars, sm, answerVars>>

\* The errors that end a rejected run carry head_hash, as the answer does.
Escalate(r) ==
    /\ At(r, "refused") /\ Known(r)
    /\ Finish(r, IF plans[r] = <<>> THEN "424" ELSE "500")
    /\ UNCHANGED <<registryVars, sharedVars, callVars, sm>>

\* ---------------------------------------------------------------- answer
\* The answer is rendered with head_hash and put in the cache: a full cache drops
\* its oldest entry, whatever the key is; the key is that of the compressed messages.
Publish(r) ==
    LET roomy == IF Len(cache) >= CacheSize THEN Tail(cache) ELSE cache
        entry == [key |-> Key(r), run |-> r]
    IN /\ At(r, "settled") /\ Known(r)
       /\ cache' = IF \E i \in 1 .. Len(roomy) : roomy[i].key = entry.key
                   THEN [i \in 1 .. Len(roomy) |-> IF roomy[i].key = entry.key THEN entry ELSE roomy[i]]
                   ELSE Append(roomy, entry)
       /\ Goto(r, "cached")
       /\ UNCHANGED <<registryVars, tenancyVars, callVars, sm, answerVars, faultVars, dropped>>

\* Mutant of Charge: the call's cost is not looked at.
ChargeAlways(r) == spends' = Charged(req[r].tenant, r)

\* record_spend of a call that had a cost, whose IntegrityError ends the
\* request; then webhooks and alerts, where deliver lets a receiver's protocol
\* error through; then the answer.
Charge(r) == spends' = IF paid[r] THEN Charged(req[r].tenant, r) ELSE spends

Answer(r) ==
    /\ At(r, "cached")
    /\ IF paid[r] /\ ~CanCharge(req[r].tenant)
       THEN UNCHANGED spends /\ Finish(r, "500")
       ELSE /\ Charge(r)
            /\ \/ /\ Goto(r, "ended")
                  /\ answer' = [answer EXCEPT ![r] = "fresh"]
                  /\ source' = [source EXCEPT ![r] = r]
               \/ Finish(r, "500")
    /\ UNCHANGED <<registryVars, tenantRows, tenantsHeld, deleting, cache, faultVars, dropped, callVars, sm>>

\* A registry call for a run that memory has dropped raises KeyError.  The
\* machine has then made the moves that come before the call.
MovesBeforeLoss(r) ==
    CASE At(r, "prepared") -> IF plans[r] = <<>> THEN <<"no_admissible_route">> ELSE <<"select_route">>
      [] At(r, "replied") -> IF verdict[r] = "passed" THEN <<"verification_passed">> ELSE <<>>
      [] At(r, "passed") -> <<"issue_receipt">>
      [] OTHER -> <<>>

LoseRecord(r) ==
    /\ pc[r] \in {"intake", "prepared", "started", "replied", "passed", "accepting", "rejecting", "settled", "refused"}
    /\ ~Known(r)
    /\ Advance(r, MovesBeforeLoss(r))
    /\ called' = IF At(r, "started") THEN [called EXCEPT ![r] = @ \cup {Tried(r)[attempt[r]]}] ELSE called
    /\ Finish(r, "500")
    /\ UNCHANGED <<registryVars, sharedVars, portfolio, req, messages, plans, attempt, retrying, verdict, paid, receipt,
                   killedAt>>

\* ---------------------------------------------------------------- surroundings
Fault == faults < MaxFaults /\ faults' = faults + 1

\* A run endpoint looks at a run (GET /v1/runs/{id}, /trace, /ledger...).
Look(r) ==
    /\ Fault
    /\ ReadBack(r) /\ Drops
    /\ UNCHANGED <<tenancyVars, cache, killed, threadVars, sm>>

SetSwitch(s) ==
    /\ Fault
    /\ s \notin killed
    /\ killed' = killed \cup {s}
    /\ UNCHANGED <<registryVars, tenancyVars, threadVars, sm, cache, dropped>>

DeleteTenant(t) ==
    /\ t \in Leaving
    /\ \/ Fault /\ DeleteSpend(t)
       \/ UNCHANGED faults /\ (DeleteTenantRow(t) \/ DropTenant(t))
    /\ UNCHANGED <<registryVars, threadVars, sm, cache, killed, dropped>>

\* A crash and a new process: memory, cache, machine and requests are gone.
Restart ==
    /\ Fault
    /\ Forget /\ ReloadTenants
    /\ pc' = [r \in Runs |-> IF pc[r] \in {"idle"} \cup Ended THEN pc[r] ELSE "lost"]
    /\ sm' = [r \in Runs |-> M!Initial]
    /\ cache' = <<>>
    /\ UNCHANGED <<callVars, answerVars, killed, dropped>>

Step(r) ==
    \/ Refuse(r) \/ ServeCached(r) \/ Miss(r) \/ Begin(r) \/ Own(r)
    \/ Reject422(r) \/ Clarify(r) \/ Prepare(r)
    \/ NoRoute(r) \/ Route(r) \/ CallFails(r) \/ CallReturns(r)
    \/ RetryInCloud(r) \/ RejectRun(r) \/ Pass(r) \/ Complete(r)
    \/ Certify(r) \/ Save(r) \/ Escalate(r) \/ Publish(r) \/ Answer(r) \/ LoseRecord(r)

Next ==
    \/ \E r \in Runs : Arrive(r) \/ Step(r) \/ Look(r)
    \/ \E s \in Switches : SetSwitch(s)
    \/ \E t \in Tenants : DeleteTenant(t)
    \/ Restart

Spec == Init /\ [][Next]_vars

\* ---------------------------------------------------------------- properties
Stored(r) == 1 .. Len(chain[r])
Where(r, event) == {i \in Stored(r) : chain[r][i].event = event}

\* A receipt binds the end of the stored ledger: as many events as memory had of
\* the run, which closes with the outcome the receipt certifies; and it binds the
\* whole ledger unless memory dropped the record before it was saved (one read
\* back has no events, so that its numbering starts again).  Source: issue_receipt
\* after the outcome; pipeline.py: "its ledger_head_hash binds the complete chain".
ReceiptBindsLedger ==
    \A r \in Runs : rows[r] # NoRow /\ rows[r].receipt # NoReceipt =>
        LET head == rows[r].receipt.head
            all == Len(chain[r])
        IN /\ head \in 0 .. all
           /\ \A i \in 1 .. head : chain[r][all - head + i].sequence = i - 1
           /\ all \in Where(r, IF rows[r].receipt.status = "accepted" THEN "outcome_accepted" ELSE "outcome_rejected")
           /\ r \notin dropped => head = all

\* The books of every run are sound: the machine is never asked for an illegal
\* move, memory and tables agree on what is known, and receipts bind ledgers.
LedgerSound == TypeOK /\ ReceiptBindsLedger

\* The stored ledger of a run shows the policy check, then the start of the
\* action, then passed evidence as the last evidence, then the outcome.
AcceptedLedger(r) ==
    \E s \in Where(r, "action_started"), e \in Where(r, "evidence_passed") :
        /\ s < e
        /\ \E p \in Where(r, "policy_checked") : p < s
        /\ \E o \in Where(r, "outcome_accepted") : e < o
        /\ \A f \in Where(r, "evidence_failed") : f < e

\* A run is stored as accepted only when its stored ledger shows how: the
\* machine's global invariants no_execution_before_policy_check and
\* no_accepted_state_with_failed_criterion.
AcceptedOnEvidence ==
    \A r \in Runs : rows[r] # NoRow /\ rows[r].status = "accepted" => AcceptedLedger(r)

\* The tables hold the row of a run and how it was accepted, and, unless memory
\* dropped its record before it was saved, that it is accepted and its receipt.
AcceptedInTables(r) ==
    /\ rows[r] # NoRow /\ AcceptedLedger(r)
    /\ r \notin dropped => rows[r].status = "accepted" /\ rows[r].receipt # NoReceipt

\* What a client got as an answer survives eviction, restart and reading back:
\* the run it came from is accepted in the tables.
AnsweredIsDurable == \A r \in Runs : source[r] # 0 => AcceptedInTables(source[r])

\* An answer from the cache was given to the same tenant, for messages whose
\* compressed text is what is asked now (_hash_request on request["messages"]).
CachedAnswerOwn ==
    \A r \in Runs : answer[r] = "hit" =>
        LET q == source[r] IN
        /\ req[q].tenant = req[r].tenant
        /\ Compress[req[q].messages] = req[r].messages

\* Charges: at most one per run, to the tenant of the request, for a run that
\* was accepted at a cost, and none for an answer served from the cache; and an answer
\* whose call had a cost is charged, unless the tenant is being deleted.
ChargedOnce ==
    /\ \A t \in Tenants :
        /\ IsInjective(spends[t])
        /\ \A r \in ToSet(spends[t]) :
             req[r].tenant = t /\ paid[r] /\ AcceptedInTables(r) /\ answer[r] # "hit"
    /\ \A r \in Runs :
        answer[r] = "fresh" /\ paid[r] /\ deleting[req[r].tenant] = "none"
            => r \in ToSet(spends[req[r].tenant])

\* An emergency stop that was in force when a request arrived keeps it from
\* being answered, from the cache too.
StoppedIsUnanswered ==
    \A r \in Runs : answer[r] \in {"fresh", "hit"} =>
        killedAt[r] \cap {"global", req[r].tenant, req[r].project} = {}
=============================================================================

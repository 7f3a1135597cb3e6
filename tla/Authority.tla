----------------------------- MODULE Authority -----------------------------
(***************************************************************************)
(* The governance authority of a deployment: gateway replicas              *)
(* (noerelay-gateway, AppState) that keep a GovernanceRuntime in memory    *)
(* and write each transition through to PostgresAuthorityStore before      *)
(* they adopt it, for one organization and project.                        *)
(*                                                                         *)
(* prepare_run, complete_run and abort_run hold the runtime's mutex while  *)
(* they stage the transition on a clone and save it, so nothing happens in *)
(* that replica between staging and commit, and once there is a row, which *)
(* save locks, Save is both.  While there is none, FOR UPDATE locks        *)
(* nothing: a first save reads in one step (opening) and writes in a later *)
(* one.  Between the commit and the reply the replica waits (pending) and  *)
(* anything may happen: the reply is lost, the client goes away and its    *)
(* handler is dropped, the replica dies.                                   *)
(***************************************************************************)
EXTENDS Integers, Sequences, FiniteSets

CONSTANTS
    Runs, Costs, Limit,   \* as in GovernanceRuntime
    Replicas,             \* gateway processes that share the database
    NoReceipt, Nothing,
    SnapshotLimit          \* bound: storage_version

VARIABLES
    version, snapshot,    \* authority_snapshots; version 0 is no row
    events,               \* ledger_events, by sequence
    receipts,             \* run_receipts and usage_records, by run id
    up,                   \* replicas that run
    memory, known,        \* per replica, its runtime and its storage_version
    working,              \* per replica, prepared runs whose handler is alive
    opening,              \* per replica, the run of a first save that has read
    pending,              \* per replica, the save it awaits the reply of
    answered,             \* receipts that went out to clients with a result
    newest, setBack       \* history: the furthest account ever stored, and whether
                          \* a first save has overwritten a later version

history == <<newest, setBack>>
stored == <<version, snapshot, events, receipts>>
authorityVars == <<stored, up, memory, known, working, opening, pending, answered, history>>

Runtime == INSTANCE GovernanceRuntime WITH authority <- newest

\* A receipt names the ledger position it was built at.
Receipt == [run : Runs, cost : Costs, head : Nat]

ASSUME AuthorityConstants ==
    /\ Costs \subseteq Nat
    /\ {Limit, SnapshotLimit} \subseteq Nat
    /\ NoReceipt \notin Receipt

SavesPending ==
    [memory : Runtime!AuthorityState, returns : SUBSET Runtime!PreparedRun,
     receipt : Receipt \cup {NoReceipt}]

AuthorityTypeOK ==
    /\ version \in Nat
    /\ snapshot \in Runtime!AuthorityState
    /\ events \in Seq(Runtime!Event)
    /\ receipts \in [Runs -> Receipt \cup {NoReceipt}]
    /\ up \subseteq Replicas
    /\ memory \in [Replicas -> Runtime!AuthorityState]
    /\ known \in [Replicas -> Nat]
    /\ working \in [Replicas -> SUBSET Runtime!PreparedRun]
    /\ opening \in [Replicas -> Runtime!PreparedRun \cup {Nothing}]
    /\ pending \in [Replicas -> SavesPending \cup {Nothing}]
    /\ answered \subseteq Receipt
    /\ newest \in Runtime!AuthorityState
    /\ setBack \in BOOLEAN

AuthorityInit ==
    /\ version = 0
    /\ snapshot = Runtime!New
    /\ events = <<>>
    /\ receipts = [r \in Runs |-> NoReceipt]
    /\ up = {}
    /\ memory = [g \in Replicas |-> Runtime!New]
    /\ known = [g \in Replicas |-> 0]
    /\ working = [g \in Replicas |-> {}]
    /\ opening = [g \in Replicas |-> Nothing]
    /\ pending = [g \in Replicas |-> Nothing]
    /\ answered = {}
    /\ newest = Runtime!New
    /\ setBack = FALSE

-----------------------------------------------------------------------------
(* PostgresAuthorityStore::save, one transaction.  Whatever makes it roll  *)
(* back (another version, another event at a sequence, another receipt of  *)
(* the run, a database error) changes nothing and ends the handler: GiveUp.*)

VersionCurrent(g) == known[g] = version

\* Mutant of EventsAgree: an event that is already there is not compared.
EventsAgreeAny(ledger) == TRUE

\* ON CONFLICT DO NOTHING, then the stored hash is compared.
EventsAgree(ledger) ==
    \A i \in DOMAIN events \cap DOMAIN ledger : events[i] = ledger[i]

EventsWith(ledger) ==
    [i \in DOMAIN events \cup DOMAIN ledger |->
        IF i \in DOMAIN events THEN events[i] ELSE ledger[i]]

ReceiptAgrees(x) == x # NoReceipt => receipts[x.run] \in {NoReceipt, x}

ReceiptsWith(x) ==
    IF x = NoReceipt THEN receipts ELSE [receipts EXCEPT ![x.run] = IF @ = NoReceipt THEN x ELSE @]

\* What save writes once it has compared the versions: the upsert of the snapshot,
\* which has no condition on the stored version, the events and the receipt.
Writes(g, staged, receipt, returns) ==
    /\ EventsAgree(staged.ledger)
    /\ ReceiptAgrees(receipt)
    /\ version' = known[g] + 1
    /\ snapshot' = staged
    /\ events' = EventsWith(staged.ledger)
    /\ receipts' = ReceiptsWith(receipt)
    /\ pending' = [pending EXCEPT ![g] =
                      [memory |-> staged, returns |-> returns, receipt |-> receipt]]
    /\ newest' = IF Len(staged.ledger) > Len(newest.ledger) THEN staged ELSE newest
    /\ UNCHANGED <<up, memory, known, answered>>

\* The row exists: FOR UPDATE holds it from the comparison to the commit.
Save(g, staged, receipt, returns) ==
    /\ g \in up
    /\ opening[g] = Nothing /\ pending[g] = Nothing
    /\ version # 0
    /\ VersionCurrent(g)
    /\ known[g] < SnapshotLimit
    /\ Writes(g, staged, receipt, returns)
    /\ UNCHANGED <<opening, setBack>>

\* prepare_run of a project without a row: the transaction of its save finds nothing
\* to compare or to lock.
FirstSaveReads(g, p) ==
    /\ g \in up
    /\ opening[g] = Nothing /\ pending[g] = Nothing
    /\ version = 0
    /\ VersionCurrent(g)
    /\ Runtime!CanPrepare(memory[g], p)
    /\ opening' = [opening EXCEPT ![g] = p]
    /\ UNCHANGED <<stored, up, memory, known, working, pending, answered, history>>

\* It goes on, whatever was committed meanwhile: the row it writes is version 1.
FirstSaveWrites(g) ==
    /\ opening[g] # Nothing
    /\ Writes(g, Runtime!AfterPrepare(memory[g], opening[g]), NoReceipt, {opening[g]})
    /\ setBack' = (setBack \/ version > 1)
    /\ opening' = [opening EXCEPT ![g] = Nothing]
    /\ UNCHANGED working

\* Rolled back, or its handler is dropped.
FirstSaveFails(g) ==
    /\ opening[g] # Nothing
    /\ opening' = [opening EXCEPT ![g] = Nothing]
    /\ UNCHANGED <<stored, up, memory, known, working, pending, answered, history>>

-----------------------------------------------------------------------------
(* AppState                                                                *)

PrepareRun(g, p) ==
    /\ Runtime!CanPrepare(memory[g], p)
    /\ Save(g, Runtime!AfterPrepare(memory[g], p), NoReceipt, {p})
    /\ UNCHANGED working

HandlerDone(g, p) == working' = [working EXCEPT ![g] = @ \ {p}]

\* The gateway charges what was reserved.
CompleteRun(g, p, took) ==
    /\ p \in working[g]
    /\ Runtime!CanComplete(memory[g], p.run, p.cost)
    /\ LET staged == Runtime!AfterComplete(memory[g], p.run, p.cost, took)
           receipt == [run |-> p.run, cost |-> p.cost, head |-> Len(staged.ledger)]
       IN Save(g, staged, IF took THEN receipt ELSE NoReceipt, {})
    /\ HandlerDone(g, p)

\* Every provider failed.
AbortRun(g, p) ==
    /\ p \in working[g]
    /\ Runtime!CanAbort(memory[g], p.run)
    /\ Save(g, Runtime!AfterAbort(memory[g], p.run), NoReceipt, {})
    /\ HandlerDone(g, p)

\* Mutant of Reply: the version is adopted, the staged runtime is not.
ReplyVersionOnly(g) ==
    /\ pending[g] # Nothing
    /\ known' = [known EXCEPT ![g] = @ + 1]
    /\ working' = [working EXCEPT ![g] = @ \cup pending[g].returns]
    /\ answered' = answered \cup ({pending[g].receipt} \ {NoReceipt})
    /\ pending' = [pending EXCEPT ![g] = Nothing]
    /\ UNCHANGED <<stored, up, memory, opening, history>>

\* The commit is acknowledged: the staged runtime is adopted and the handler
\* goes on, or sends its answer.
Reply(g) ==
    /\ pending[g] # Nothing
    /\ memory' = [memory EXCEPT ![g] = pending[g].memory]
    /\ known' = [known EXCEPT ![g] = @ + 1]
    /\ working' = [working EXCEPT ![g] = @ \cup pending[g].returns]
    /\ answered' = answered \cup ({pending[g].receipt} \ {NoReceipt})
    /\ pending' = [pending EXCEPT ![g] = Nothing]
    /\ UNCHANGED <<stored, up, opening, history>>

\* It is not acknowledged, or the handler is dropped meanwhile: the transition
\* stands and this replica does not know.
ReplyLost(g) ==
    /\ pending[g] # Nothing
    /\ pending' = [pending EXCEPT ![g] = Nothing]
    /\ UNCHANGED <<stored, up, memory, known, working, opening, answered, history>>

\* A handler ends without completing or aborting its run: create_durable_run or
\* record_stub_attempt failed, a transition or its save was refused, or the client
\* went away.  Nobody else finishes the run.
GiveUp(g, p) ==
    /\ p \in working[g]
    /\ HandlerDone(g, p)
    /\ UNCHANGED <<stored, up, memory, known, opening, pending, answered, history>>

\* from_config; from_snapshot refuses an overdrawn account.
Start(g) ==
    /\ g \notin up
    /\ Runtime!WithinBudget(snapshot)
    /\ up' = up \cup {g}
    /\ memory' = [memory EXCEPT ![g] = snapshot]
    /\ known' = [known EXCEPT ![g] = version]
    /\ UNCHANGED <<stored, working, opening, pending, answered, history>>

ReplicaCrash(g) ==
    /\ g \in up
    /\ up' = up \ {g}
    /\ memory' = [memory EXCEPT ![g] = Runtime!New]
    /\ known' = [known EXCEPT ![g] = 0]
    /\ working' = [working EXCEPT ![g] = {}]
    /\ opening' = [opening EXCEPT ![g] = Nothing]
    /\ pending' = [pending EXCEPT ![g] = Nothing]
    /\ UNCHANGED <<stored, answered, history>>

AuthorityNext ==
    \E g \in Replicas :
        \/ \E p \in Runtime!PreparedRun : PrepareRun(g, p) \/ FirstSaveReads(g, p)
        \/ FirstSaveWrites(g) \/ FirstSaveFails(g)
        \/ \E p \in working[g], took \in BOOLEAN : CompleteRun(g, p, took)
        \/ \E p \in working[g] : AbortRun(g, p) \/ GiveUp(g, p)
        \/ Reply(g) \/ ReplyLost(g) \/ Start(g) \/ ReplicaCrash(g)

AuthoritySpec == AuthorityInit /\ [][AuthorityNext]_authorityVars

-----------------------------------------------------------------------------
\* A replica that would pass the version check of save holds exactly what is
\* stored, and one that awaits a reply will, whatever other replicas, crashes and
\* lost replies did (persist_staged and the assignments after it).
InSync ==
    \A g \in up :
        /\ pending[g] = Nothing /\ known[g] = version => memory[g] = snapshot
        /\ pending[g] # Nothing /\ known[g] + 1 = version => pending[g].memory = snapshot

\* The ledger of an account is a beginning of the append-only table.
Recorded(a) ==
    /\ DOMAIN a.ledger \subseteq DOMAIN events
    /\ \A i \in DOMAIN a.ledger : events[i] = a.ledger[i]

\* The table tells the history of the furthest account ever stored, and of every
\* account a replica holds or is stored; the stored one is that furthest account
\* unless a delayed first save set it back, which takes nothing from the table (save).
LedgerMatches ==
    /\ events = newest.ledger
    /\ Recorded(snapshot) /\ version = Len(snapshot.ledger)
    /\ \A g \in up : Recorded(memory[g])
    /\ ~setBack => snapshot = newest

\* A client is answered only with a receipt that is stored (release_response).
AnswersStored == \A x \in answered : receipts[x.run] = x

\* Receipts and releases correspond: a run id is released once in the whole
\* history, its receipt names that very entry, although run ids may be used again.
ReleasedOnce ==
    /\ \A r \in Runs : receipts[r] # NoReceipt =>
          /\ receipts[r].head \in DOMAIN events
          /\ events[receipts[r].head] = Runtime!Entry("released", r, receipts[r].cost)
    /\ \A i \in DOMAIN events : events[i].kind = "released" =>
          receipts[events[i].run] # NoReceipt /\ receipts[events[i].run].head = i

\* Neither the stored state nor what any replica works from exceeds the budget.
BudgetKept ==
    /\ Runtime!WithinBudget(snapshot)
    /\ \A g \in up : Runtime!WithinBudget(memory[g])

\* The stored account is what its ledger says, to the last reservation (abort and
\* complete against prepare, across replicas).
AccountAudited == Runtime!Audited(snapshot)

\* What is stored evolves by the transitions of one GovernanceRuntime: a save stores
\* its next state, or an earlier one of the same history again.
ImplementsRuntime == Runtime!Spec

\* The account is what was stored: replicas that may save work from the stored
\* snapshot, the event table is its ledger, a delayed first save excepted, and every
\* receipt a client was answered with is in the receipt table
\* (PostgresAuthorityStore::save, persist_staged).
AccountStored == InSync /\ LedgerMatches /\ AnswersStored

\* The account is right: a reservation is released by one receipt, the budget is
\* never overdrawn, and the ledger accounts for all of it (GovernanceRuntime).
AccountBalanced == AuthorityTypeOK /\ ReleasedOnce /\ BudgetKept /\ AccountAudited
=============================================================================

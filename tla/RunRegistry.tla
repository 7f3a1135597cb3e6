---------------------------- MODULE RunRegistry ----------------------------
(***************************************************************************)
(* Runs of the Python gateway: DatabaseRunRegistry over RunRegistry (a     *)
(* bounded dict that forgets its oldest record) and over the tables runs,  *)
(* run_tenants and ledger_events.  Every operator below is one call of the *)
(* registry; the pipeline and the run endpoints make the calls.            *)
(***************************************************************************)
EXTENDS Naturals, Sequences, SequencesExt

CONSTANTS
    Runs, Tenants,
    NoTenant,       \* no run_tenants row
    DefaultTenant,  \* what get_run_tenant answers then
    NoReceipt, NoRow,
    Capacities      \* values of NOERELAY_RUN_RETENTION_MAX to try

ASSUME CapacityAssumption == Capacities \subseteq Nat \ {0}

VARIABLES
    capacity,  \* max_runs
    order,     \* the keys of _runs, oldest first
    held,      \* per run: not in _runs, the record of begin, or one read back
    book,      \* the record _runs has for the run
    rows,      \* table runs
    owner,     \* table run_tenants
    chain      \* table ledger_events, in insertion order

registryVars == <<capacity, order, held, book, rows, owner, chain>>

\* A receipt carries its status and the position of the event it binds.
Receipt == [status : {"accepted", "escalated"}, head : Nat]
Row == [status : {"pending", "accepted", "escalated"}, receipt : Receipt \cup {NoReceipt},
        review : BOOLEAN, rework : BOOLEAN]
\* The null values are none of the values they stand in for.
ASSUME NullsAssumption == NoRow \notin Row /\ NoReceipt \notin Receipt /\ NoTenant \notin Tenants

Record(t) == [tenant |-> t, events |-> <<>>, receipt |-> NoReceipt, review |-> FALSE, rework |-> FALSE]

RegistryInit ==
    /\ capacity \in Capacities
    /\ order = <<>>
    /\ held = [r \in Runs |-> "absent"]
    /\ book = [r \in Runs |-> Record(DefaultTenant)]
    /\ rows = [r \in Runs |-> NoRow]
    /\ owner = [r \in Runs |-> NoTenant]
    /\ chain = [r \in Runs |-> <<>>]

Known(r) == held[r] # "absent"

\* Insert at the end of the dict, then drop the oldest records above max_runs.
Insert(r, how) ==
    LET all == Append(order, r)
        kept == SubSeq(all, Len(all) - capacity + 1, Len(all))
    IN /\ order' = IF Len(all) > capacity THEN kept ELSE all
       /\ held' = [q \in Runs |-> IF q \notin ToSet(order') THEN "absent"
                                  ELSE IF q = r THEN how ELSE held[q]]

\* INSERT OR REPLACE INTO runs deletes the old row first, and run_tenants
\* references runs ON DELETE CASCADE with foreign_keys = ON.
SaveRun(r, row) ==
    /\ rows' = [rows EXCEPT ![r] = row]
    /\ owner' = [owner EXCEPT ![r] = NoTenant]

SetRunTenant(r, t) ==
    /\ rows[r] # NoRow
    /\ owner' = [owner EXCEPT ![r] = t]
    /\ UNCHANGED <<capacity, order, held, book, rows, chain>>

RunTenant(r) == IF owner[r] = NoTenant THEN DefaultTenant ELSE owner[r]

\* append_event numbers an event by the record's list; the row keeps the number.
Numbered(r, events) ==
    [i \in 1 .. Len(events) |-> [sequence |-> Len(book[r].events) + i - 1, event |-> events[i]]]

\* The row a call writes: its status and the record's receipt and flags.
RowOf(record, status) ==
    [status |-> status, receipt |-> record.receipt, review |-> record.review, rework |-> record.rework]

Posted(r, events) == [book[r] EXCEPT !.events = @ \o events]

\* ledger, for the events the caller appends in a row.
Ledger(r, events) ==
    /\ Known(r)
    /\ book' = [book EXCEPT ![r] = Posted(r, events)]
    /\ chain' = [chain EXCEPT ![r] = @ \o Numbered(r, events)]
    /\ UNCHANGED <<capacity, order, held, rows, owner>>

\* Ledger events, and among them record_human_intervention or record_rework
\* calls, which mark the record and save a "pending" row.
LedgerMarked(r, events, review, rework) ==
    LET record == [Posted(r, events) EXCEPT !.review = @ \/ review, !.rework = @ \/ rework] IN
    /\ Known(r)
    /\ book' = [book EXCEPT ![r] = record]
    /\ chain' = [chain EXCEPT ![r] = @ \o Numbered(r, events)]
    /\ IF review \/ rework THEN SaveRun(r, RowOf(record, "pending")) ELSE UNCHANGED <<rows, owner>>
    /\ UNCHANGED <<capacity, order, held>>

\* Mutant of ReceiptFor: the hash the last event refers back to, not its own.
ReceiptForPrevious(record, status) == [status |-> status, head |-> Len(record.events) - 1]

\* The head is that of the record memory has at the time of the call.
ReceiptFor(record, status) == [status |-> status, head |-> Len(record.events)]

\* issue_receipt of the base class: the record gets the receipt.
IssueReceipt(r, status) ==
    /\ Known(r)
    /\ book' = [book EXCEPT ![r].receipt = ReceiptFor(book[r], status)]
    /\ UNCHANGED <<capacity, order, held, rows, owner, chain>>

\* Mutant of SaveReceipt: the base class alone, no row is written.
SaveReceiptUnsaved(r, receipt) == UNCHANGED <<capacity, order, held, book, rows, owner, chain>>

\* The rest of issue_receipt looks the record up again, and writes its row with
\* the receipt at hand if memory still has one.
SaveReceipt(r, receipt) ==
    /\ IF Known(r)
       THEN SaveRun(r, [RowOf(book[r], receipt.status) EXCEPT !.receipt = receipt])
       ELSE UNCHANGED <<rows, owner>>
    /\ UNCHANGED <<capacity, order, held, book, chain>>

\* A record read back has the row's receipt and flags, the stored tenant and no events.
RecordFromRow(r) ==
    [tenant |-> RunTenant(r), events |-> <<>>, receipt |-> rows[r].receipt,
     review |-> rows[r].review, rework |-> rows[r].rework]

\* get, by an endpoint that looks at a run memory has forgotten.
ReadBack(r) ==
    /\ ~Known(r) /\ rows[r] # NoRow
    /\ Insert(r, "reloaded")
    /\ book' = [book EXCEPT ![r] = RecordFromRow(r)]
    /\ UNCHANGED <<capacity, rows, owner, chain>>

\* A new process: the tables are all there is.
Forget ==
    /\ order' = <<>>
    /\ held' = [r \in Runs |-> "absent"]
    /\ book' = [r \in Runs |-> Record(DefaultTenant)]
    /\ UNCHANGED <<capacity, rows, owner, chain>>

RegistryTypeOK ==
    /\ capacity \in Capacities
    /\ order \in Seq(Runs) /\ IsInjective(order) /\ Len(order) <= capacity
    /\ \A r \in Runs : Known(r) <=> r \in ToSet(order)
    /\ held \in [Runs -> {"absent", "live", "reloaded"}]
    /\ \A r \in Runs : rows[r] \in Row \cup {NoRow}
    /\ owner \in [Runs -> Tenants \cup {NoTenant}]
    /\ \A r \in Runs : owner[r] # NoTenant => rows[r] # NoRow
=============================================================================

------------------------------ MODULE Tenancy ------------------------------
(***************************************************************************)
(* TenantManager: the tables tenants and tenant_spend and the copy of      *)
(* tenants kept in memory.  The connection commits every statement by      *)
(* itself, so a deletion is three steps.                                   *)
(***************************************************************************)
EXTENDS RunRegistry

VARIABLES
    tenantRows,   \* table tenants: the ids present
    tenantsHeld,  \* keys of _tenants
    spends,       \* table tenant_spend: per tenant, the runs charged
    deleting      \* per tenant, where its deletion has got to

tenancyVars == <<tenantRows, tenantsHeld, spends, deleting>>

TenancyInit ==
    /\ tenantRows = Tenants /\ tenantsHeld = Tenants
    /\ spends = [t \in Tenants |-> <<>>]
    /\ deleting = [t \in Tenants |-> "none"]

DeleteSpend(t) ==
    /\ deleting[t] = "none"
    /\ spends' = [spends EXCEPT ![t] = <<>>]
    /\ deleting' = [deleting EXCEPT ![t] = "spend"]
    /\ UNCHANGED <<tenantRows, tenantsHeld>>

\* DELETE FROM tenants is refused by the foreign key while a charge refers to it;
\* the handler lets the exception through.
DeleteTenantRow(t) ==
    /\ deleting[t] = "spend"
    /\ IF spends[t] = <<>>
       THEN /\ tenantRows' = tenantRows \ {t}
            /\ deleting' = [deleting EXCEPT ![t] = "row"]
       ELSE /\ UNCHANGED tenantRows
            /\ deleting' = [deleting EXCEPT ![t] = "failed"]
    /\ UNCHANGED <<tenantsHeld, spends>>

DropTenant(t) ==
    /\ deleting[t] = "row"
    /\ tenantsHeld' = tenantsHeld \ {t}
    /\ deleting' = [deleting EXCEPT ![t] = "done"]
    /\ UNCHANGED <<tenantRows, spends>>

\* record_spend: one row for the run, refused when the tenant has no row.
Charged(t, r) == [spends EXCEPT ![t] = Append(@, r)]
CanCharge(t) == t \in tenantRows

\* A new process loads _tenants from the table; a deletion in progress is gone.
ReloadTenants ==
    /\ tenantsHeld' = tenantRows
    /\ deleting' = [t \in Tenants |-> IF deleting[t] \in {"spend", "row"} THEN "cut" ELSE deleting[t]]
    /\ UNCHANGED <<tenantRows, spends>>
=============================================================================

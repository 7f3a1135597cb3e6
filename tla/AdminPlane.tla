----------------------------- MODULE AdminPlane -----------------------------
(***************************************************************************)
(* The administrator's side of the gateway (handlers.py, config_manager.py,*)
(* secrets.py, webhooks.py, alerting.py, database.py): requests served by  *)
(* concurrent threads over one SQLite file and over lists in the process's *)
(* memory.  Handlers that read and later write take a step for each.       *)
(***************************************************************************)
EXTENDS Integers, Sequences, FiniteSets

CONSTANTS
    Admins,      \* threads serving administrative requests
    AdminParts,  \* sets of surfaces exercised together: "config", "portfolio", "vault", "hooks", "keys"
    Settings,    \* values of one configuration key (the kill switch)
    NoRow,       \* no row, no entry
    MaxHooks, MaxAlerts, \* limits of the in-memory lists
    MaxAdminOps  \* bound on requests

VARIABLES
    adminPart,   \* the surfaces of this behaviour
    doing,       \* what each thread is in the middle of, with its local variables
    adminOps,
    configRow, configCache, \* table config; ConfigManager._cache
    heard,       \* ghost: the last value the listeners were told
    portfolio,   \* ctx.portfolio, a list of [id, rev]
    policy, policyRow, \* ctx.policy and its row in table config
    vault,       \* table secrets: rows [name, value, sealedWith]
    masterKey,   \* the key SecretManager derives its keys from
    dropped,     \* ghost: keys a rotation let go of though its transaction never began
    apiKeys,     \* table api_keys: id -> "active", "revoked"
    benchmarks,  \* rows of table benchmark_results
    hooks,       \* WebhookManager._webhooks
    alerts, raised, \* AlertManager._alerts, oldest first; ghost: the last one raised
    backupFile, atBackup \* the backup, and ghost: what the database held then

configVars == <<configRow, configCache, heard>>
routeVars == <<portfolio, policy, policyRow>>
vaultVars == <<vault, masterKey, dropped>>
hookVars == <<hooks, alerts, raised>>
fileVars == <<apiKeys, benchmarks, backupFile, atBackup>>
adminVars == <<adminPart, doing, adminOps, configVars, routeVars, vaultVars, hookVars, fileVars>>

Idle == [op |-> "idle"]
Candidates == {"m1", "m2"}
Names == {"s1", "s2"}
Sections == {"inference", "risk_gates"}
Secrets == [name: Names, value: 1 .. 2, by: Admins, sealedWith: Nat]
Databases == [config: Settings, policy: SUBSET Sections, vault: SUBSET Secrets,
              keys: Seq({"active", "revoked"}), benchmarks: Nat]

\* WebhookManager and AlertManager refuse a limit below one.
ASSUME AdminAssumption == MaxHooks \in Nat \ {0} /\ MaxAlerts \in Nat \ {0} /\ NoRow \notin Databases

Database == [config |-> configRow, policy |-> policyRow, vault |-> vault, keys |-> apiKeys, benchmarks |-> benchmarks]

AdminInit ==
    /\ adminPart \in AdminParts
    /\ doing = [a \in Admins |-> Idle] /\ adminOps = 0
    /\ configRow \in Settings /\ configCache = NoRow /\ heard = NoRow
    /\ portfolio = <<[id |-> "m1", rev |-> 0]>>
    /\ policy = {} /\ policyRow = {}
    /\ vault = {} /\ masterKey = 1 /\ dropped = {}
    /\ apiKeys = <<"active">> /\ benchmarks = 0
    /\ hooks = <<>> /\ alerts = <<>> /\ raised = 0
    /\ backupFile = NoRow /\ atBackup = NoRow

\* A thread takes up a request for the surface, and is in the middle of "next"
\* when its first step ends (Idle for the handlers of one step).
Take(a, surface, next) ==
    /\ surface \in adminPart /\ doing[a] = Idle /\ adminOps < MaxAdminOps
    /\ adminOps' = adminOps + 1
    /\ doing' = [doing EXCEPT ![a] = next]
    /\ UNCHANGED adminPart
Resume(a, op, next) ==
    /\ doing[a].op = op
    /\ doing' = [doing EXCEPT ![a] = next]
    /\ UNCHANGED <<adminOps, adminPart>>

\* ---------------------------------------------------------------- config
\* ConfigManager.get: the cache answers, or the row is read outside the lock
\* and put into the cache afterwards.
GetConfig(a) ==
    /\ Take(a, "config", IF configCache = NoRow THEN [op |-> "fill", value |-> configRow] ELSE Idle)
    /\ UNCHANGED <<configVars, routeVars, vaultVars, hookVars, fileVars>>

FillConfig(a) ==
    /\ Resume(a, "fill", Idle)
    /\ configCache' = IF doing[a].value = NoRow THEN configCache ELSE doing[a].value
    /\ UNCHANGED <<configRow, heard, routeVars, vaultVars, hookVars, fileVars>>

\* ConfigManager.set: the row, then the cache, then the listeners.
SetConfig(a) ==
    \E v \in Settings :
        /\ Take(a, "config", [op |-> "cache", value |-> v])
        /\ configRow' = v
        /\ UNCHANGED <<configCache, heard, routeVars, vaultVars, hookVars, fileVars>>
CacheConfig(a) ==
    /\ Resume(a, "cache", [op |-> "tell", value |-> doing[a].value])
    /\ configCache' = doing[a].value
    /\ UNCHANGED <<configRow, heard, routeVars, vaultVars, hookVars, fileVars>>
TellListeners(a) ==
    /\ Resume(a, "tell", Idle)
    /\ heard' = doing[a].value
    /\ UNCHANGED <<configRow, configCache, routeVars, vaultVars, hookVars, fileVars>>

\* get_all: all rows are read, then copied over the cache.
GetAllConfig(a) ==
    /\ Take(a, "config", [op |-> "fill", value |-> configRow])
    /\ UNCHANGED <<configVars, routeVars, vaultVars, hookVars, fileVars>>

\* hot_reload: the rows replace the cache; listeners hear what changed.
HotReload(a) ==
    /\ Take(a, "config", [op |-> "replace", value |-> configRow])
    /\ UNCHANGED <<configVars, routeVars, vaultVars, hookVars, fileVars>>
ReplaceConfig(a) ==
    LET v == doing[a].value IN
    /\ Resume(a, "replace", IF v = configCache THEN Idle ELSE [op |-> "tell", value |-> v])
    /\ configCache' = v
    /\ UNCHANGED <<configRow, heard, routeVars, vaultVars, hookVars, fileVars>>

\* ---------------------------------------------------------------- routing
AddCandidate(a) ==
    \E id \in Candidates :
        /\ Take(a, "portfolio", Idle)
        /\ portfolio' = Append(portfolio, [id |-> id, rev |-> 0])
        /\ UNCHANGED <<configVars, policy, policyRow, vaultVars, hookVars, fileVars>>

\* The list without the candidate is built, then assigned over the old one.
RemoveCandidate(a) ==
    \E id \in Candidates :
        /\ Take(a, "portfolio", [op |-> "assign", rest |-> SelectSeq(portfolio, LAMBDA c : c.id # id)])
        /\ UNCHANGED <<configVars, routeVars, vaultVars, hookVars, fileVars>>
AssignPortfolio(a) ==
    /\ Resume(a, "assign", Idle)
    /\ portfolio' = doing[a].rest
    /\ UNCHANGED <<configVars, policy, policyRow, vaultVars, hookVars, fileVars>>

\* The first entry of the id is looked up, then the entry at its index changed;
\* an index past the end is an IndexError, answered 500.
UpdateCandidate(a) ==
    \E i \in DOMAIN portfolio :
        /\ \A j \in 1 .. (i - 1) : portfolio[j].id # portfolio[i].id
        /\ Take(a, "portfolio", [op |-> "change", index |-> i])
        /\ UNCHANGED <<configVars, routeVars, vaultVars, hookVars, fileVars>>
ChangeCandidate(a) ==
    /\ Resume(a, "change", Idle)
    /\ portfolio' = IF doing[a].index \in DOMAIN portfolio
                    THEN [portfolio EXCEPT ![doing[a].index].rev = @ + 1] ELSE portfolio
    /\ UNCHANGED <<configVars, policy, policyRow, vaultVars, hookVars, fileVars>>

\* The policy is a dictionary of sections, merged in memory and then written as
\* a whole; a failing write is passed over.
UpdatePolicy(a) ==
    \E section \in Sections :
        /\ Take(a, "portfolio", [op |-> "persist", policy |-> policy \cup {section}])
        /\ policy' = policy \cup {section}
        /\ UNCHANGED <<configVars, portfolio, policyRow, vaultVars, hookVars, fileVars>>
UpdateRiskClass(a) ==
    /\ Take(a, "portfolio", [op |-> "persist", policy |-> policy \cup {"risk_gates"}])
    /\ policy' = policy \cup {"risk_gates"}
    /\ UNCHANGED <<configVars, portfolio, policyRow, vaultVars, hookVars, fileVars>>
PersistPolicy(a) ==
    /\ Resume(a, "persist", Idle)
    /\ policyRow' \in {policyRow, doing[a].policy}
    /\ UNCHANGED <<configVars, portfolio, policy, vaultVars, hookVars, fileVars>>

\* ---------------------------------------------------------------- secrets
\* Mutant of StoreSecret: the schema lacks UNIQUE(name, tenant_id).
InsertSecret(row, known) == IF known THEN {s \in vault : s.name # row.name} \cup {row} ELSE vault \cup {row}

\* After the lookup: an UPDATE of the name's rows, which may be none by now, or
\* an INSERT that the UNIQUE constraint refuses when another thread was first.
StoreSecret(row, known) ==
    LET others == {s \in vault : s.name # row.name} IN
    IF (others # vault) = known THEN others \cup {row} ELSE vault

LookupSecret(a) ==
    \E n \in Names, v \in 1 .. 2 :
        /\ Take(a, "vault", [op |-> "store", known |-> \E s \in vault : s.name = n,
                             row |-> [name |-> n, value |-> v, by |-> a, sealedWith |-> masterKey]])
        /\ UNCHANGED <<configVars, routeVars, vaultVars, hookVars, fileVars>>
WriteSecret(a) ==
    /\ Resume(a, "store", Idle)
    /\ vault' = StoreSecret(doing[a].row, doing[a].known)
    /\ UNCHANGED <<configVars, routeVars, masterKey, dropped, hookVars, fileVars>>

DeleteSecret(a) ==
    \E n \in Names :
        /\ Take(a, "vault", Idle)
        /\ vault' = {s \in vault : s.name # n}
        /\ UNCHANGED <<configVars, routeVars, masterKey, dropped, hookVars, fileVars>>

Resealed(key) == {[s EXCEPT !.sealedWith = key] : s \in vault}

\* Everything is decrypted, the keys derived anew, the rows written in one
\* transaction; a failure in it rolls the rows back and restores the keys.  The
\* BEGIN stands before the try: when it fails, the database being locked by
\* another process, the new keys stay in memory over rows of the old ones.
RotationCommits == masterKey' = masterKey + 1 /\ vault' = Resealed(masterKey + 1) /\ UNCHANGED dropped
RotationNotBegun == masterKey' = masterKey + 1 /\ dropped' = dropped \cup {masterKey} /\ UNCHANGED vault
Rotated == RotationCommits \/ RotationNotBegun \/ UNCHANGED vaultVars

\* No route calls it: it runs while nothing else uses the store.  A row that
\* does not decrypt stops it before anything has changed.
RotateMasterKey(a) ==
    /\ \A b \in Admins : doing[b] = Idle
    /\ Take(a, "vault", Idle)
    /\ IF \A s \in vault : s.sealedWith = masterKey THEN Rotated ELSE UNCHANGED vaultVars
    /\ UNCHANGED <<configVars, routeVars, hookVars, fileVars>>

\* ---------------------------------------------------------------- keys and files
\* A fresh identifier per key.
Issue(keys) == Append(keys, "active")

CreateApiKey(a) ==
    /\ Take(a, "keys", Idle)
    /\ apiKeys' = Issue(apiKeys)
    /\ UNCHANGED <<configVars, routeVars, vaultVars, hookVars, benchmarks, backupFile, atBackup>>
RevokeApiKey(a) ==
    \E k \in DOMAIN apiKeys :
        /\ apiKeys[k] = "active" /\ Take(a, "keys", Idle)
        /\ apiKeys' = [apiKeys EXCEPT ![k] = "revoked"]
        /\ UNCHANGED <<configVars, routeVars, vaultVars, hookVars, benchmarks, backupFile, atBackup>>
RotateApiKey(a) ==
    \E k \in DOMAIN apiKeys :
        /\ apiKeys[k] = "active" /\ Take(a, "keys", Idle)
        /\ apiKeys' = Issue([apiKeys EXCEPT ![k] = "revoked"])
        /\ UNCHANGED <<configVars, routeVars, vaultVars, hookVars, benchmarks, backupFile, atBackup>>

RunBenchmark(a) ==
    /\ Take(a, "keys", Idle)
    /\ benchmarks' = benchmarks + 1
    /\ UNCHANGED <<configVars, routeVars, vaultVars, hookVars, apiKeys, backupFile, atBackup>>

\* The SQLite backup is a consistent copy of every table.
Backup(a) ==
    /\ Take(a, "keys", Idle)
    /\ backupFile' = [kind |-> "sqlite", rows |-> Database]
    /\ atBackup' = Database
    /\ UNCHANGED <<configVars, routeVars, vaultVars, hookVars, apiKeys, benchmarks>>
\* /v1/export writes JSON, next to the database.
ExportData(a) ==
    /\ Take(a, "keys", Idle)
    /\ backupFile' = [kind |-> "json", rows |-> Database]
    /\ UNCHANGED <<configVars, routeVars, vaultVars, hookVars, apiKeys, benchmarks, atBackup>>

\* SQLite refuses a file that is not a database; a missing one is a 404.
Restorable(file) == file # NoRow /\ file.kind = "sqlite"

\* The tables are replaced; what the process caches is not.
RestoreRows ==
    /\ configRow' = backupFile.rows.config /\ policyRow' = backupFile.rows.policy
    /\ vault' = backupFile.rows.vault
    /\ apiKeys' = backupFile.rows.keys /\ benchmarks' = backupFile.rows.benchmarks
    /\ UNCHANGED <<configCache, heard, portfolio, policy, masterKey, dropped, hookVars, backupFile, atBackup>>
\* /v1/admin/restore and /v1/import are the same operation.
Restore(a) ==
    /\ Take(a, "keys", Idle)
    /\ IF Restorable(backupFile) THEN RestoreRows
       ELSE UNCHANGED <<configVars, routeVars, vaultVars, hookVars, fileVars>>

\* ---------------------------------------------------------------- hooks and alerts
\* del list[:-limit]
Newest(list, limit) == IF Len(list) <= limit THEN list ELSE SubSeq(list, Len(list) - limit + 1, Len(list))

\* list.pop(i)
Popped(list, i) == SubSeq(list, 1, i - 1) \o SubSeq(list, i + 1, Len(list))

\* What is registered is numbered by the request that did it, an alert by its turn.
RegisterWebhook(a) ==
    /\ Take(a, "hooks", Idle)
    /\ hooks' = Newest(Append(hooks, adminOps'), MaxHooks)
    /\ UNCHANGED <<configVars, routeVars, vaultVars, alerts, raised, fileVars>>
DeleteWebhook(a) ==
    \E i \in DOMAIN hooks :
        /\ Take(a, "hooks", Idle)
        /\ hooks' = Popped(hooks, i)
        /\ UNCHANGED <<configVars, routeVars, vaultVars, alerts, raised, fileVars>>

\* The end of a run: the hooks of that moment are called one after the other,
\* outside the lock, a failing call stopping nothing; then an alert is kept for
\* human intervention and one for rework, of those the run required.
CompleteRun(a) ==
    \E n \in 0 .. 2 :
        /\ Take(a, "hooks", [op |-> "deliver", to |-> hooks, alerts |-> n])
        /\ UNCHANGED <<configVars, routeVars, vaultVars, hookVars, fileVars>>
Deliver(a) ==
    /\ doing[a].op = "deliver" /\ doing[a].to # <<>>
    /\ Resume(a, "deliver", [doing[a] EXCEPT !.to = Tail(@)])
    /\ UNCHANGED <<configVars, routeVars, vaultVars, hookVars, fileVars>>
TriggerAlert(a) ==
    LET left == doing[a].alerts IN
    /\ doing[a].op = "deliver" /\ doing[a].to = <<>>
    /\ Resume(a, "deliver", IF left <= 1 THEN Idle ELSE [doing[a] EXCEPT !.alerts = left - 1])
    /\ IF left = 0 THEN UNCHANGED <<alerts, raised>>
       ELSE alerts' = Newest(Append(alerts, [id |-> raised + 1, acked |-> FALSE]), MaxAlerts) /\ raised' = raised + 1
    /\ UNCHANGED <<configVars, routeVars, vaultVars, hooks, fileVars>>
AcknowledgeAlert(a) ==
    \E i \in DOMAIN alerts :
        /\ Take(a, "hooks", Idle)
        /\ alerts' = [alerts EXCEPT ![i].acked = TRUE]
        /\ UNCHANGED <<configVars, routeVars, vaultVars, hooks, raised, fileVars>>

AdminNext == \E a \in Admins :
    \/ GetConfig(a) \/ FillConfig(a) \/ SetConfig(a) \/ CacheConfig(a) \/ TellListeners(a) \/ GetAllConfig(a)
    \/ HotReload(a) \/ ReplaceConfig(a)
    \/ AddCandidate(a) \/ RemoveCandidate(a) \/ AssignPortfolio(a) \/ UpdateCandidate(a) \/ ChangeCandidate(a)
    \/ UpdatePolicy(a) \/ UpdateRiskClass(a) \/ PersistPolicy(a)
    \/ LookupSecret(a) \/ WriteSecret(a) \/ DeleteSecret(a) \/ RotateMasterKey(a)
    \/ CreateApiKey(a) \/ RevokeApiKey(a) \/ RotateApiKey(a) \/ RunBenchmark(a)
    \/ Backup(a) \/ ExportData(a) \/ Restore(a)
    \/ RegisterWebhook(a) \/ DeleteWebhook(a) \/ CompleteRun(a) \/ Deliver(a) \/ TriggerAlert(a) \/ AcknowledgeAlert(a)

AdminSpec == AdminInit /\ [][AdminNext]_adminVars

\* ---------------------------------------------------------------- properties
\* "Allows runtime configuration changes without server restart": once no
\* request is under way, ConfigManager serves the value of the row.
ConfigCurrent == (\A a \in Admins : doing[a] = Idle) => configCache \in {NoRow, configRow}

\* However two store requests for one name interleave with each other and with
\* a deletion, the table never holds two secrets of that name.
OneSecretPerName == \A s, t \in vault : s.name = t.name => s = t

\* Every stored secret decrypts under the current master key, through rotations
\* whose transaction failed too, unless a restore brought it back from before a
\* rotation or a rotation let its key go without beginning the transaction.
SecretsReadable ==
    \A s \in vault :
        s.sealedWith \in {masterKey} \cup dropped \/ (atBackup # NoRow /\ s \in atBackup.vault)

\* A revoked API key is never active again, unless a restore of a backup in
\* which it was active brings it back.
RevokedStays ==
    [][\A k \in DOMAIN apiKeys : apiKeys[k] = "revoked" /\ k \in DOMAIN apiKeys' /\ apiKeys'[k] = "active"
         => atBackup # NoRow /\ k \in DOMAIN atBackup.keys /\ atBackup.keys[k] = "active"]_adminVars

\* A list at its limit forgets its oldest entries, whatever runs complete in
\* between: the latest alerts are all there in the order they were raised in,
\* and the hooks in theirs.
NewestKept ==
    /\ \A i \in DOMAIN alerts : alerts[i].id = raised - Len(alerts) + i
    /\ raised > 0 => alerts # <<>>
    /\ \A i, j \in DOMAIN hooks : i < j => hooks[i] < hooks[j]

\* What the administrator keeps is sound whatever requests interleave: secrets
\* are unique and readable (SecretManager), the lists at their limit have
\* dropped their oldest entries only (AlertManager, WebhookManager), and a
\* revoked key stays revoked (SQLiteDatabase.revoke_api_key, restore).
AdminSound == [](OneSecretPerName /\ SecretsReadable /\ NewestKept) /\ RevokedStays
=============================================================================

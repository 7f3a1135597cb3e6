--------------------------- MODULE GatewayServer ---------------------------
(***************************************************************************)
(* server.py: a thread per connection, a bounded number of request slots,  *)
(* authentication by stored keys, a token bucket per key, role checks with *)
(* an audit row each, and the signal handlers that stop the server.        *)
(***************************************************************************)
EXTENDS Integers, FiniteSets

CONSTANTS
    Clients,       \* connections
    Keys, NoKey,   \* API keys; a request without one
    Wants,         \* what a request may ask: [key, method, op]; op "health" is /health and /ready
    RoleOf,        \* the role of a key (a rotated key keeps it)
    Entries,       \* who calls create_server: "main" (python -m gateway) or "embedded"
    MaxRequests, Burst, Rate,
    MaxTicks, MaxSignals, MaxKeyChanges \* bounds

ASSUME SlotsAssumption == MaxRequests \in Nat \ {0} /\ Burst \in Nat \ {0} /\ Rate \in Nat
ASSUME KeysAssumption ==
    /\ IsFiniteSet(Clients) /\ IsFiniteSet(Keys) /\ NoKey \notin Keys
    /\ \A w \in Wants : w.key \in Keys \cup {NoKey}

VARIABLES
    pc, want,
    slots,      \* request_slots
    active,     \* shutdown_state.active_requests
    requested,  \* shutdown_state.shutdown_requested
    locked,     \* the main thread holds shutdown_state.lock
    installed,  \* the signal handler in force
    main,       \* what the main thread does
    timedOut,   \* the drain ran into its 30 seconds
    signals,
    keyState,   \* table api_keys: no row, usable, revoked
    keyChanges, \* ghost: keys revoked or rotated
    retired,    \* ghost: a key was revoked for good
    bucket,     \* tokens of a key's bucket
    ticks,
    audit,      \* table audit_log: per connection, the outcome recorded
    executed,   \* ghost: connections whose handler ran
    stale       \* ghost: keys revoked before the connection was made

threads == <<pc, want, executed, stale>>
shutdown == <<active, requested, locked, installed, main, timedOut, signals>>
keys == <<keyState, keyChanges, retired>>
rate == <<bucket, ticks>>
vars == <<threads, slots, shutdown, keys, rate, audit>>

Serving == {"slotted", "inside", "keyed", "metered", "authorised", "leaving"}
Inside == Serving \ {"slotted"}
ThreadsAt(places) == {c \in Clients : pc[c] \in places}

TypeOK ==
    /\ pc \in [Clients -> {"idle", "accepted", "ended", "cut"} \cup Serving]
    /\ slots \in 0 .. MaxRequests
    /\ active = Cardinality(ThreadsAt(Inside)) \/ main = "exited"
    /\ main \in {"starting", "serving", "flagging", "draining", "polling", "stopping", "stuck", "exited"}
    /\ installed \in {"none", "draining", "plain"}
    /\ keyState \in [Keys -> {"absent", "usable", "revoked"}]
    /\ bucket \in [Keys -> 0 .. Burst]
    /\ audit \in [Clients -> {"none", "denied", "allowed"}]

Init ==
    /\ pc = [c \in Clients |-> "idle"]
    /\ want \in [Clients -> Wants]
    /\ executed = {}
    /\ stale = [c \in Clients |-> {}]
    /\ slots = MaxRequests
    /\ active = 0 /\ signals = 0
    /\ requested = FALSE /\ locked = FALSE /\ timedOut = FALSE
    /\ installed = "none" /\ main = "starting"
    /\ keyState \in [Keys -> {"absent", "usable"}]
    /\ Cardinality({k \in Keys : keyState[k] = "usable"}) = 1
    /\ keyChanges = 0 /\ retired = FALSE
    /\ bucket = [k \in Keys |-> Burst]
    /\ ticks = 0
    /\ audit = [c \in Clients |-> "none"]

\* ---------------------------------------------------------------- start
\* create_server installs the handler that drains; main() of __main__.py then
\* installs one that knows of no shutdown state.
CreateServer ==
    /\ main = "starting" /\ installed = "none"
    /\ installed' = "draining"
    /\ UNCHANGED <<threads, slots, active, requested, locked, main, timedOut, signals, keys, rate, audit>>

Serve ==
    /\ main = "starting" /\ installed # "none"
    /\ \E e \in Entries : installed' = IF e = "main" THEN "plain" ELSE installed
    /\ main' = "serving"
    /\ UNCHANGED <<threads, slots, active, requested, locked, timedOut, signals, keys, rate, audit>>

\* ---------------------------------------------------------------- a request
End(c) == pc' = [pc EXCEPT ![c] = "ended"]
Go(c, there) == pc' = [pc EXCEPT ![c] = there]

\* serve_forever accepts on the main thread, so not while a handler runs.
Accept(c) ==
    /\ main = "serving" /\ pc[c] = "idle"
    /\ Go(c, "accepted")
    /\ stale' = [stale EXCEPT ![c] = {k \in Keys : keyState[k] = "revoked"}]
    /\ UNCHANGED <<want, executed, slots, shutdown, keys, rate, audit>>

\* The slot is taken without blocking; 503 when there is none.
Acquire(c) ==
    /\ pc[c] = "accepted"
    /\ IF slots > 0 THEN Go(c, "slotted") /\ slots' = slots - 1 ELSE End(c) /\ UNCHANGED slots
    /\ UNCHANGED <<want, executed, stale, shutdown, keys, rate, audit>>

\* Under the lock: count the request, or answer 503 and give the slot back;
\* a client that has gone makes the answer raise, before the release.
Enter(c) ==
    /\ pc[c] = "slotted" /\ ~locked
    /\ IF requested
       THEN /\ End(c)
            /\ slots' \in {slots, slots + 1}
            /\ UNCHANGED active
       ELSE /\ Go(c, "inside")
            /\ active' = active + 1
            /\ UNCHANGED slots
    /\ UNCHANGED <<want, executed, stale, requested, locked, installed, main, timedOut, signals,
                   keys, rate, audit>>

\* Mutant of Authenticate: a revoked key is found like any other.
AuthenticateAny(c) ==
    /\ pc[c] = "inside"
    /\ IF want[c].op = "health"
       THEN Go(c, "authorised") /\ UNCHANGED audit
       ELSE IF want[c].key # NoKey /\ keyState[want[c].key] # "absent"
       THEN Go(c, "keyed") /\ UNCHANGED audit
       ELSE Go(c, "leaving") /\ audit' = [audit EXCEPT ![c] = "denied"]
    /\ UNCHANGED <<want, executed, stale, slots, shutdown, keys, rate>>

\* /health and /ready need no key.  Otherwise the row of the key's hash that is
\* not revoked; 401 and an audit row without.  Authentication is required and the
\* keys are those of the table: open access and keys from the environment are left out.
Authenticate(c) ==
    /\ pc[c] = "inside"
    /\ IF want[c].op = "health"
       THEN Go(c, "authorised") /\ UNCHANGED audit
       ELSE IF want[c].key # NoKey /\ keyState[want[c].key] = "usable"
       THEN Go(c, "keyed") /\ UNCHANGED audit
       ELSE Go(c, "leaving") /\ audit' = [audit EXCEPT ![c] = "denied"]
    /\ UNCHANGED <<want, executed, stale, slots, shutdown, keys, rate>>

\* The key's bucket; 429 and an audit row when it is empty.
Meter(c) ==
    LET k == want[c].key IN
    /\ pc[c] = "keyed"
    /\ IF bucket[k] >= 1
       THEN /\ bucket' = [bucket EXCEPT ![k] = @ - 1]
            /\ Go(c, "metered")
            /\ UNCHANGED audit
       ELSE /\ Go(c, "leaving")
            /\ audit' = [audit EXCEPT ![c] = "denied"]
            /\ UNCHANGED bucket
    /\ UNCHANGED <<want, executed, stale, slots, shutdown, keys, ticks>>

\* Operations by the permission their route asks for; a route without an entry
\* is the administrator's.
RolePermissions(role) ==
    CASE role = "operator" -> {"chat.completions", "models.write", "benchmarks.write", "governance.read", "ledger.read"}
      [] role = "auditor" -> {"governance.read", "ledger.read", "ledger.verify", "audit.read", "export", "config.read"}
      [] role = "developer" -> {"chat.completions", "benchmarks.write", "governance.read"}
      [] role = "viewer" -> {"governance.read"}
      [] OTHER -> {}
MayCall(role, op) == role = "admin" \/ op \in RolePermissions(role)

\* Mutant of Authorize: only a refusal is audited.
AuthorizeQuietly(c) ==
    /\ pc[c] = "metered"
    /\ IF MayCall(RoleOf[want[c].key], want[c].op)
       THEN Go(c, "authorised") /\ UNCHANGED audit
       ELSE Go(c, "leaving") /\ audit' = [audit EXCEPT ![c] = "denied"]
    /\ UNCHANGED <<want, executed, stale, slots, shutdown, keys, rate>>

Authorize(c) ==
    /\ pc[c] = "metered"
    /\ IF MayCall(RoleOf[want[c].key], want[c].op)
       THEN Go(c, "authorised") /\ audit' = [audit EXCEPT ![c] = "allowed"]
       ELSE Go(c, "leaving") /\ audit' = [audit EXCEPT ![c] = "denied"]
    /\ UNCHANGED <<want, executed, stale, slots, shutdown, keys, rate>>

\* The route's handler: it answers, or raises and the answer is a 500, or the
\* client has closed the connection; the request leaves in every case.
Run(c, ran) ==
    /\ pc[c] = "authorised"
    /\ executed' = IF ran THEN executed \cup {c} ELSE executed
    /\ Go(c, "leaving")
    /\ UNCHANGED <<want, stale, slots, shutdown, keys, rate, audit>>

\* A body that is chunked, ambiguous in length, too large, cut short, not JSON
\* or not an object is answered 400 or 413 and the handler is not called.
BodyRead == BOOLEAN

\* An unknown path is a 404.
HandleGet(c) == want[c].method = "GET" /\ \E known \in BOOLEAN : Run(c, known)
HandlePost(c) == want[c].method = "POST" /\ \E known \in BOOLEAN, body \in BodyRead : Run(c, known /\ body)
\* PUT and DELETE; a known path with another method is a 405.
HandleOther(c) ==
    /\ want[c].method \in {"PUT", "DELETE"}
    /\ \E known \in BOOLEAN, body \in BodyRead : Run(c, known /\ (want[c].method = "DELETE" \/ body))

\* Mutant of Leave: a handler that raised keeps its slot.
LeaveServed(c) ==
    /\ pc[c] = "leaving" /\ ~locked
    /\ active' = active - 1
    /\ slots' \in {slots, slots + 1}
    /\ End(c)
    /\ UNCHANGED <<want, executed, stale, requested, locked, installed, main, timedOut, signals, keys, rate, audit>>

\* finally: the count and the slot go back, whatever happened.
Leave(c) ==
    /\ pc[c] = "leaving" /\ ~locked
    /\ active' = active - 1
    /\ slots' = slots + 1
    /\ End(c)
    /\ UNCHANGED <<want, executed, stale, requested, locked, installed, main, timedOut, signals, keys, rate, audit>>

\* ---------------------------------------------------------------- signals
\* SIGTERM or SIGINT: the handler runs on the main thread, on top of whatever
\* it was doing.  The lock is not reentrant: a handler that interrupts one that
\* holds it waits for ever.
Signal ==
    /\ signals < MaxSignals /\ main \in {"serving", "flagging", "draining", "polling"}
    /\ signals' = signals + 1
    /\ main' = CASE installed = "plain" -> "stopping"
                 [] installed # "plain" /\ locked -> "stuck"
                 [] OTHER -> "flagging"
    /\ UNCHANGED <<threads, slots, active, requested, locked, installed, timedOut, keys, rate, audit>>

\* with shutdown_state.lock: shutdown_requested = True
SetRequested ==
    /\ main = "flagging"
    /\ requested' = TRUE
    /\ main' = "draining"
    /\ UNCHANGED <<threads, slots, active, locked, installed, timedOut, signals, keys, rate, audit>>

\* One round of the drain: take the lock, read the count, give it back.
Poll ==
    /\ main = "draining"
    /\ locked' = TRUE /\ main' = "polling"
    /\ UNCHANGED <<threads, slots, active, requested, installed, timedOut, signals, keys, rate, audit>>

\* Mutant of PollDone: the loop ends after its first look.
PollOnce ==
    /\ main = "polling"
    /\ locked' = FALSE /\ main' = "stopping"
    /\ UNCHANGED <<threads, slots, active, requested, installed, timedOut, signals, keys, rate, audit>>

PollDone ==
    /\ main = "polling"
    /\ locked' = FALSE
    /\ main' = IF active = 0 THEN "stopping" ELSE "draining"
    /\ UNCHANGED <<threads, slots, active, requested, installed, timedOut, signals, keys, rate, audit>>

\* 30 seconds have gone by with requests still running.
DrainTimeout ==
    /\ main = "draining" /\ active > 0
    /\ timedOut' = TRUE /\ main' = "stopping"
    /\ UNCHANGED <<threads, slots, active, requested, locked, installed, signals, keys, rate, audit>>

\* server.shutdown on its own thread, serve_forever returns, the process ends;
\* the request threads are daemons and end with it.
Exit ==
    /\ main = "stopping"
    /\ main' = "exited"
    /\ pc' = [c \in Clients |-> IF pc[c] = "ended" THEN "ended" ELSE "cut"]
    /\ UNCHANGED <<want, executed, stale, slots, active, requested, locked, installed, timedOut,
                   signals, keys, rate, audit>>

\* ---------------------------------------------------------------- keys and time
ChangeKeys == main = "serving" /\ keyChanges < MaxKeyChanges /\ keyChanges' = keyChanges + 1

Revoke(k) ==
    /\ ChangeKeys /\ keyState[k] = "usable"
    /\ keyState' = [keyState EXCEPT ![k] = "revoked"] /\ retired' = TRUE
    /\ UNCHANGED <<threads, slots, shutdown, rate, audit>>

\* Mutant of Rotate: the two statements are not one transaction.
RotateApart(k, new) ==
    /\ ChangeKeys /\ keyState[k] = "usable" /\ keyState[new] = "absent"
    /\ keyState' \in {[keyState EXCEPT ![k] = "revoked"], [keyState EXCEPT ![k] = "revoked", ![new] = "usable"]}
    /\ UNCHANGED <<threads, slots, shutdown, rate, audit, retired>>

\* BEGIN IMMEDIATE: the old key is revoked and its replacement inserted.
Rotate(k, new) ==
    /\ ChangeKeys /\ keyState[k] = "usable" /\ keyState[new] = "absent"
    /\ keyState' = [keyState EXCEPT ![k] = "revoked", ![new] = "usable"]
    /\ UNCHANGED <<threads, slots, shutdown, rate, audit, retired>>

\* The elapsed time of allow_with_metadata, for every bucket at once.
Refilled(tokens) == IF tokens + Rate > Burst THEN Burst ELSE tokens + Rate
Tick ==
    /\ ticks < MaxTicks /\ ticks' = ticks + 1
    /\ bucket' = [k \in Keys |-> Refilled(bucket[k])]
    /\ UNCHANGED <<threads, slots, shutdown, keys, audit>>

Thread(c) ==
    \/ Acquire(c) \/ Enter(c) \/ Authenticate(c) \/ Meter(c) \/ Authorize(c)
    \/ HandleGet(c) \/ HandlePost(c) \/ HandleOther(c) \/ Leave(c)
Main == CreateServer \/ Serve \/ SetRequested \/ Poll \/ PollDone \/ Exit
Next ==
    \/ \E c \in Clients : Accept(c) \/ Thread(c)
    \/ Main \/ DrainTimeout \/ Signal
    \/ \E k \in Keys : Revoke(k) \/ \E new \in Keys : Rotate(k, new)
    \/ Tick

Spec == Init /\ [][Next]_vars

\* ---------------------------------------------------------------- properties
\* No slot is lost: those free and those held make the configured number, as
\* long as no shutdown is under way (_dispatch's finally, whatever the request
\* met: refusal, exception, closed connection).
SlotsReturned == ~requested => slots + Cardinality(ThreadsAt(Serving)) = MaxRequests \/ main = "exited"

\* Slots, counts, buckets and keys keep their bounds and no slot is lost.
SlotsSound == TypeOK /\ SlotsReturned

\* "waits for active requests to drain (up to 30 seconds) before shutting down
\* the server": the process ends with no counted request cut, or after the wait.
DrainedBeforeExit == main = "exited" => active = 0 \/ timedOut

\* A key that was revoked before the connection was made never gets its
\* request executed, whatever happens between lookup and handler; /health and
\* /ready ask for no key.
RevokedNotServed == \A c \in executed : want[c].op = "health" \/ want[c].key \notin stale[c]

\* Keys change by whole transactions: until somebody revokes a key for good,
\* the principal has exactly one usable key, rotation after rotation.
KeyHandedOver == retired \/ Cardinality({k \in Keys : keyState[k] = "usable"}) = 1

\* A handler runs only after its request's "allowed" row is in the audit log,
\* and what was denied never ran; /health and /ready are outside.
AuditedBeforeRun == \A c \in executed : want[c].op = "health" \/ audit[c] = "allowed"
=============================================================================

------------------------ MODULE GatewayServerProofs ------------------------
(***************************************************************************)
(* Proofs about GatewayServer: request slots and the count of requests     *)
(* under way, revocation, the audit log, the hand-over of keys, and the    *)
(* drain of a server that keeps the handler create_server installed.  And  *)
(* about the reports its handlers of /v1/analytics/ answer with            *)
(* (Analytics), each put together from several queries of one table, and   *)
(* the prompts its threads compress out of one cache (Compression).        *)
(***************************************************************************)
EXTENDS GatewayServer, Analytics, Compression, Sums, SequenceTheorems, FiniteSetTheorems, TLAPS

Places == {"idle", "accepted", "ended", "cut"} \cup Serving
Gone == {"ended", "cut"}

ServerTypes ==
    /\ pc \in [Clients -> Places] /\ want \in [Clients -> Wants]
    /\ executed \subseteq Clients /\ stale \in [Clients -> SUBSET Keys]
    /\ slots \in 0 .. MaxRequests /\ active \in Int /\ requested \in BOOLEAN
    /\ main \in {"starting", "serving", "flagging", "draining", "polling", "stopping", "stuck", "exited"}
    /\ installed \in {"none", "draining", "plain"}
    /\ keyState \in [Keys -> {"absent", "usable", "revoked"}]
    /\ bucket \in [Keys -> 0 .. Burst]
    /\ audit \in [Clients -> {"none", "denied", "allowed"}]

\* Until the process ends, the two counters agree with the threads; a slot may
\* be lost only once a shutdown was requested.
Counted ==
    IF main = "exited" THEN \A c \in Clients : pc[c] \in Gone
    ELSE /\ active = Cardinality(ThreadsAt(Inside))
         /\ slots + Cardinality(ThreadsAt(Serving)) <= MaxRequests
         /\ ~requested => slots + Cardinality(ThreadsAt(Serving)) = MaxRequests

\* A thread that got past a check, or past the handler, had passed it.
Checked ==
    /\ \A c \in Clients : \A k \in stale[c] : keyState[k] = "revoked"
    /\ \A c \in executed : pc[c] \in Gone \cup {"leaving"}
    /\ \A c \in Clients : pc[c] \in {"keyed", "metered", "authorised"} \/ c \in executed =>
            want[c].op = "health" \/ want[c].key \notin stale[c]
    /\ \A c \in Clients : pc[c] = "authorised" \/ c \in executed => want[c].op = "health" \/ audit[c] = "allowed"
    /\ \A c \in Clients : pc[c] \in {"keyed", "metered"} => want[c].key \in Keys

\* KeyHandedOver, as a set rather than a number.
OneUsable == retired \/ \E k \in Keys : {j \in Keys : keyState[j] = "usable"} = {k}

ServerInv == ServerTypes /\ Counted /\ Checked /\ OneUsable

\* With the draining handler in force, the main thread stops the server only
\* after it has refused new requests and seen none under way, or waited.
Draining ==
    /\ installed # "plain"
    /\ main \in {"draining", "polling", "stopping", "exited"} => requested
    /\ main \in {"stopping", "exited"} => active = 0 \/ timedOut

-----------------------------------------------------------------------------
LEMMA ThreadsFinite == ASSUME NEW S PROVE IsFiniteSet(ThreadsAt(S)) /\ Cardinality(ThreadsAt(S)) \in Nat
<1>1. ThreadsAt(S) \subseteq Clients
  BY DEF ThreadsAt
<1>. QED BY <1>1, KeysAssumption, FS_Subset, FS_CardinalityType

\* One thread moves from a place outside S into S, or out of it, or neither.
LEMMA Enters ==
    ASSUME NEW S, NEW c \in Clients, NEW there, pc \in [Clients -> Places], Go(c, there),
           pc[c] \notin S, there \in S
    PROVE  Cardinality(ThreadsAt(S)') = Cardinality(ThreadsAt(S)) + 1
<1>1. ThreadsAt(S)' = ThreadsAt(S) \cup {c} /\ c \notin ThreadsAt(S)
  BY DEF ThreadsAt, Go
<1>. QED BY <1>1, ThreadsFinite, FS_AddElement

LEMMA Leaves ==
    ASSUME NEW S, NEW c \in Clients, NEW there, pc \in [Clients -> Places], Go(c, there),
           pc[c] \in S, there \notin S
    PROVE  Cardinality(ThreadsAt(S)') = Cardinality(ThreadsAt(S)) - 1 /\ Cardinality(ThreadsAt(S)) > 0
<1>1. ThreadsAt(S)' = ThreadsAt(S) \ {c} /\ c \in ThreadsAt(S)
  BY DEF ThreadsAt, Go
<1>2. Cardinality(ThreadsAt(S)') = Cardinality(ThreadsAt(S)) - 1
  BY <1>1, ThreadsFinite, FS_RemoveElement
<1>3. Cardinality(ThreadsAt(S)) # 0
  BY <1>1, ThreadsFinite, FS_EmptySet
<1>. QED BY <1>2, <1>3, ThreadsFinite

LEMMA Remains ==
    ASSUME NEW S, NEW c \in Clients, NEW there, pc \in [Clients -> Places], Go(c, there),
           pc[c] \in S <=> there \in S
    PROVE  Cardinality(ThreadsAt(S)') = Cardinality(ThreadsAt(S))
<1>1. ThreadsAt(S)' = ThreadsAt(S)
  BY DEF ThreadsAt, Go
<1>. QED BY <1>1

-----------------------------------------------------------------------------
LEMMA InitServer == Init => ServerInv
<1>. SUFFICES ASSUME Init PROVE ServerInv
  OBVIOUS
<1>. USE DEF Init
<1>1. ServerTypes
  <2>1. keyState \in [Keys -> {"absent", "usable", "revoked"}]
    OBVIOUS
  <2>2. MaxRequests \in 0 .. MaxRequests /\ Burst \in 0 .. Burst
    BY SlotsAssumption
  <2>3. pc \in [Clients -> Places] /\ audit \in [Clients -> {"none", "denied", "allowed"}]
    BY DEF Places
  <2>4. bucket \in [Keys -> 0 .. Burst]
    BY <2>2
  <2>5. slots \in 0 .. MaxRequests /\ active \in Int /\ stale \in [Clients -> SUBSET Keys]
    BY <2>2
  <2>. QED BY <2>1, <2>3, <2>4, <2>5 DEF ServerTypes
<1>2. ThreadsAt(Inside) = {} /\ ThreadsAt(Serving) = {}
  BY DEF ThreadsAt, Inside, Serving
<1>3. Counted
  BY <1>2, FS_EmptySet, SlotsAssumption DEF Counted
<1>4. Checked
  BY DEF Checked
<1>5. OneUsable
  <2>1. IsFiniteSet({k \in Keys : keyState[k] = "usable"})
    BY KeysAssumption, FS_Subset
  <2>2. PICK k : {j \in Keys : keyState[j] = "usable"} = {k}
    BY <2>1, FS_Singleton
  <2>. QED BY <2>2 DEF OneUsable
<1>. QED BY <1>1, <1>3, <1>4, <1>5 DEF ServerInv

\* A step of a thread that changes neither counters nor keys: what is left to
\* show is that it passes no check it has not met.
LEMMA QuietStep ==
    ASSUME ServerInv, NEW c \in Clients, NEW there \in Places, Go(c, there),
           pc[c] \in Serving <=> there \in Serving, pc[c] \in Inside <=> there \in Inside,
           pc[c] \notin Gone, UNCHANGED <<slots, active, requested, main>>
    PROVE  Counted' /\ pc' \in [Clients -> Places]
<1>1. pc \in [Clients -> Places]
  BY DEF ServerInv, ServerTypes
<1>2. main # "exited"
  BY DEF ServerInv, Counted
<1>3. /\ Cardinality(ThreadsAt(Inside)') = Cardinality(ThreadsAt(Inside))
      /\ Cardinality(ThreadsAt(Serving)') = Cardinality(ThreadsAt(Serving))
  BY <1>1, Remains
<1>4. Counted'
  BY <1>2, <1>3 DEF ServerInv, Counted, ThreadsAt
<1>5. pc' \in [Clients -> Places]
  BY <1>1 DEF Go
<1>. QED BY <1>4, <1>5

LEMMA AcceptInv == ASSUME ServerInv, NEW c \in Clients, Accept(c) PROVE ServerInv'
<1>. USE DEF ServerInv, Accept, shutdown, keys, rate
<1>1. Counted' /\ pc' \in [Clients -> Places]
  BY QuietStep DEF Places, Serving, Inside, Gone
<1>2. ServerTypes'
  BY <1>1 DEF ServerTypes
<1>3. Checked'
  BY DEF Checked, ServerTypes, Go, Gone
<1>4. OneUsable'
  BY DEF OneUsable
<1>. QED BY <1>1, <1>2, <1>3, <1>4

LEMMA AcquireInv == ASSUME ServerInv, NEW c \in Clients, Acquire(c) PROVE ServerInv'
<1>. USE DEF ServerInv, Acquire, shutdown, keys, rate
<1>0. pc \in [Clients -> Places] /\ main # "exited" /\ slots \in Int
  BY SlotsAssumption DEF Counted, ServerTypes, Gone
<1>1. CASE slots > 0
  <2>1. /\ Cardinality(ThreadsAt(Serving)') = Cardinality(ThreadsAt(Serving)) + 1
        /\ Cardinality(ThreadsAt(Inside)') = Cardinality(ThreadsAt(Inside))
    BY <1>0, <1>1, Enters, Remains DEF Serving, Inside
  <2>2. Counted'
    BY <1>0, <1>1, <2>1, ThreadsFinite, SlotsAssumption DEF Counted
  <2>. QED BY <1>0, <1>1, <2>2, SlotsAssumption DEF ServerTypes, Go, Places, Serving, Checked, OneUsable, Gone
<1>2. CASE ~(slots > 0)
  <2>1. Counted' /\ pc' \in [Clients -> Places]
    BY <1>2, QuietStep DEF End, Go, Places, Serving, Inside, Gone
  <2>. QED BY <1>2, <2>1 DEF ServerTypes, End, Checked, OneUsable, Gone
<1>. QED BY <1>1, <1>2

LEMMA EnterInv == ASSUME ServerInv, NEW c \in Clients, Enter(c) PROVE ServerInv'
<1>. USE DEF ServerInv, Enter, keys, rate
<1>0. pc \in [Clients -> Places] /\ main # "exited" /\ slots \in Int /\ active \in Int
  BY SlotsAssumption DEF Counted, ServerTypes, Gone
<1>1. CASE requested
  <2>1. Go(c, "ended")
    BY <1>1 DEF End, Go
  <2>2. /\ Cardinality(ThreadsAt(Serving)') = Cardinality(ThreadsAt(Serving)) - 1
        /\ Cardinality(ThreadsAt(Serving)) > 0
        /\ Cardinality(ThreadsAt(Inside)') = Cardinality(ThreadsAt(Inside))
    BY <1>0, <2>1, Leaves, Remains DEF Serving, Inside
  <2>3. Counted' /\ slots' \in 0 .. MaxRequests
    BY <1>0, <1>1, <2>2, ThreadsFinite, SlotsAssumption DEF Counted, ServerTypes
  <2>. QED BY <1>0, <1>1, <2>1, <2>3 DEF ServerTypes, Go, Places, Serving, Checked, OneUsable, Gone
<1>2. CASE ~requested
  <2>1. /\ Cardinality(ThreadsAt(Serving)') = Cardinality(ThreadsAt(Serving))
        /\ Cardinality(ThreadsAt(Inside)') = Cardinality(ThreadsAt(Inside)) + 1
    BY <1>0, <1>2, Enters, Remains DEF Serving, Inside
  <2>2. Counted'
    BY <1>0, <1>2, <2>1, ThreadsFinite DEF Counted
  <2>. QED BY <1>0, <1>2, <2>2 DEF ServerTypes, Go, Places, Serving, Checked, OneUsable, Gone
<1>. QED BY <1>1, <1>2

LEMMA AuthenticateInv == ASSUME ServerInv, NEW c \in Clients, Authenticate(c) PROVE ServerInv'
<1>. USE DEF ServerInv, Authenticate, shutdown, keys, rate
<1>0. PICK there \in {"authorised", "keyed", "leaving"} : Go(c, there)
  OBVIOUS
<1>1. Counted' /\ pc' \in [Clients -> Places]
  BY <1>0, QuietStep DEF Places, Serving, Inside, Gone
<1>2. ServerTypes'
  BY <1>1 DEF ServerTypes
<1>3. want[c].key \in Keys \cup {NoKey}
  BY KeysAssumption DEF ServerTypes
<1>4. Checked'
  BY <1>3 DEF Checked, ServerTypes, Go, Gone
<1>5. OneUsable'
  BY DEF OneUsable
<1>. QED BY <1>1, <1>2, <1>4, <1>5

LEMMA MeterInv == ASSUME ServerInv, NEW c \in Clients, Meter(c) PROVE ServerInv'
<1>. USE DEF ServerInv, Meter, shutdown, keys
<1>0. PICK there \in {"metered", "leaving"} : Go(c, there)
  OBVIOUS
<1>1. Counted' /\ pc' \in [Clients -> Places]
  BY <1>0, QuietStep DEF Places, Serving, Inside, Gone
<1>2. want[c].key \in Keys
  BY DEF Checked
<1>3. bucket' \in [Keys -> 0 .. Burst]
  BY <1>2, SlotsAssumption DEF ServerTypes
<1>4. ServerTypes'
  BY <1>1, <1>3 DEF ServerTypes
<1>5. Checked'
  BY DEF Checked, ServerTypes, Go, Gone
<1>6. OneUsable'
  BY DEF OneUsable
<1>. QED BY <1>1, <1>4, <1>5, <1>6

LEMMA AuthorizeInv == ASSUME ServerInv, NEW c \in Clients, Authorize(c) PROVE ServerInv'
<1>. USE DEF ServerInv, Authorize, shutdown, keys, rate
<1>0. PICK there \in {"authorised", "leaving"} : Go(c, there)
  OBVIOUS
<1>1. Counted' /\ pc' \in [Clients -> Places]
  BY <1>0, QuietStep DEF Places, Serving, Inside, Gone
<1>2. ServerTypes'
  BY <1>1 DEF ServerTypes
<1>3. Checked'
  BY DEF Checked, ServerTypes, Go, Gone
<1>4. OneUsable'
  BY DEF OneUsable
<1>. QED BY <1>1, <1>2, <1>3, <1>4

LEMMA RunInv == ASSUME ServerInv, NEW c \in Clients, NEW ran \in BOOLEAN, Run(c, ran) PROVE ServerInv'
<1>. USE DEF ServerInv, Run, shutdown, keys, rate
<1>1. Counted' /\ pc' \in [Clients -> Places]
  BY QuietStep DEF Places, Serving, Inside, Gone
<1>2. ServerTypes'
  BY <1>1 DEF ServerTypes
<1>3. Checked'
  BY DEF Checked, ServerTypes, Go, Gone
<1>4. OneUsable'
  BY DEF OneUsable
<1>. QED BY <1>1, <1>2, <1>3, <1>4

LEMMA LeaveInv == ASSUME ServerInv, NEW c \in Clients, Leave(c) PROVE ServerInv'
<1>. USE DEF ServerInv, Leave, keys, rate
<1>0. /\ pc \in [Clients -> Places] /\ main # "exited" /\ slots \in Int /\ active \in Int
      /\ Go(c, "ended")
  BY SlotsAssumption DEF Counted, ServerTypes, Gone, End, Go
<1>1. /\ Cardinality(ThreadsAt(Serving)') = Cardinality(ThreadsAt(Serving)) - 1
      /\ Cardinality(ThreadsAt(Serving)) > 0
      /\ Cardinality(ThreadsAt(Inside)') = Cardinality(ThreadsAt(Inside)) - 1
  BY <1>0, Leaves DEF Serving, Inside
<1>2. Counted' /\ slots' \in 0 .. MaxRequests
  BY <1>0, <1>1, ThreadsFinite, SlotsAssumption DEF Counted, ServerTypes
<1>3. ServerTypes'
  BY <1>0, <1>2 DEF ServerTypes, Go, Places
<1>4. Checked'
  BY <1>0 DEF Checked, ServerTypes, Go, Gone
<1>5. OneUsable'
  BY DEF OneUsable
<1>. QED BY <1>2, <1>3, <1>4, <1>5

-----------------------------------------------------------------------------
\* What the main thread does leaves threads, keys and buckets alone; only its
\* exit ends them.
LEMMA MainInv ==
    ASSUME ServerInv, Main \/ DrainTimeout \/ Signal
    PROVE  ServerInv'
<1>. USE DEF ServerInv, threads, keys, rate
<1>1. CASE Exit
  <2>1. \A c \in Clients : pc'[c] \in Gone
    BY <1>1 DEF Exit, Gone
  <2>2. pc' \in [Clients -> Places]
    BY <1>1 DEF Exit, Places
  <2>3. ServerTypes' /\ Counted'
    BY <1>1, <2>1, <2>2 DEF Exit, ServerTypes, Counted
  <2>4. Checked'
    BY <1>1, <2>1 DEF Exit, Checked, Gone, ServerTypes
  <2>. QED BY <1>1, <2>3, <2>4 DEF Exit, OneUsable
<1>2. CASE CreateServer \/ Serve \/ SetRequested \/ Poll \/ PollDone \/ DrainTimeout \/ Signal
  <2>1. /\ main # "exited" /\ main' # "exited"
        /\ UNCHANGED <<pc, want, executed, stale, slots, active, keyState, retired, bucket, audit>>
    BY <1>2 DEF CreateServer, Serve, SetRequested, Poll, PollDone, DrainTimeout, Signal
  <2>2. requested' = requested \/ requested' = TRUE
    BY <1>2 DEF CreateServer, Serve, SetRequested, Poll, PollDone, DrainTimeout, Signal
  <2>3. main' \in {"starting", "serving", "flagging", "draining", "polling", "stopping", "stuck", "exited"}
    BY <1>2 DEF CreateServer, Serve, SetRequested, Poll, PollDone, DrainTimeout, Signal, ServerTypes
  <2>4. installed' \in {"none", "draining", "plain"}
    BY <1>2 DEF CreateServer, Serve, SetRequested, Poll, PollDone, DrainTimeout, Signal, ServerTypes
  <2>5. ServerTypes'
    BY <2>1, <2>2, <2>3, <2>4 DEF ServerTypes
  <2>6. ThreadsAt(Inside)' = ThreadsAt(Inside) /\ ThreadsAt(Serving)' = ThreadsAt(Serving)
    BY <2>1 DEF ThreadsAt
  <2>7. Counted'
    BY <2>1, <2>2, <2>6 DEF Counted
  <2>. QED BY <2>1, <2>5, <2>7 DEF Checked, OneUsable
<1>. QED BY <1>1, <1>2 DEF Main

\* A change of keys, or the passing of time, leaves threads and counters alone.
LEMMA KeyStep ==
    ASSUME ServerInv, keyState' \in [Keys -> {"absent", "usable", "revoked"}],
           bucket' \in [Keys -> 0 .. Burst], UNCHANGED <<threads, slots, shutdown, audit>>,
           \A k \in Keys : keyState[k] = "revoked" => keyState'[k] = "revoked"
    PROVE  ServerTypes' /\ Counted' /\ Checked'
<1>. USE DEF ServerInv, threads, shutdown
<1>1. ServerTypes'
  BY DEF ServerTypes
<1>2. Counted'
  BY DEF Counted, ThreadsAt
<1>3. Checked'
  BY DEF Checked, ServerTypes
<1>. QED BY <1>1, <1>2, <1>3

LEMMA RevokeInv == ASSUME ServerInv, NEW k \in Keys, Revoke(k) PROVE ServerInv'
<1>1. ServerTypes' /\ Counted' /\ Checked'
  BY KeyStep DEF Revoke, ServerInv, ServerTypes, rate
<1>2. OneUsable'
  BY DEF Revoke, OneUsable
<1>. QED BY <1>1, <1>2 DEF ServerInv

LEMMA RotateInv == ASSUME ServerInv, NEW k \in Keys, NEW new \in Keys, Rotate(k, new) PROVE ServerInv'
<1>1. ServerTypes' /\ Counted' /\ Checked'
  BY KeyStep DEF Rotate, ServerInv, ServerTypes, rate
<1>2. OneUsable'
  <2>1. CASE retired
    BY <2>1 DEF Rotate, OneUsable
  <2>2. CASE ~retired
    <3>1. PICK j \in Keys : {i \in Keys : keyState[i] = "usable"} = {j}
      BY <2>2 DEF ServerInv, OneUsable
    <3>2. j = k /\ new # k
      BY <3>1 DEF Rotate
    <3>3. \A i \in Keys : keyState'[i] = "usable" <=> i = new
      BY <3>1, <3>2 DEF Rotate, ServerInv, ServerTypes
    <3>4. {i \in Keys : keyState'[i] = "usable"} = {new}
      BY <3>3
    <3>. QED BY <3>4 DEF OneUsable
  <2>. QED BY <2>1, <2>2
<1>. QED BY <1>1, <1>2 DEF ServerInv

LEMMA TickInv == ASSUME ServerInv, Tick PROVE ServerInv'
<1>1. bucket' \in [Keys -> 0 .. Burst]
  <2>1. \A k \in Keys : Refilled(bucket[k]) \in 0 .. Burst
    BY SlotsAssumption DEF Refilled, ServerInv, ServerTypes
  <2>. QED BY <2>1 DEF Tick
<1>2. ServerTypes' /\ Counted' /\ Checked'
  BY <1>1, KeyStep DEF Tick, keys, ServerInv, ServerTypes
<1>3. OneUsable'
  BY DEF Tick, keys, OneUsable, ServerInv
<1>. QED BY <1>2, <1>3 DEF ServerInv

LEMMA ThreadInv == ASSUME ServerInv, NEW c \in Clients, Thread(c) PROVE ServerInv'
<1>1. CASE Acquire(c) BY <1>1, AcquireInv
<1>2. CASE Enter(c) BY <1>2, EnterInv
<1>3. CASE Authenticate(c) BY <1>3, AuthenticateInv
<1>4. CASE Meter(c) BY <1>4, MeterInv
<1>5. CASE Authorize(c) BY <1>5, AuthorizeInv
<1>6. CASE HandleGet(c) \/ HandlePost(c) \/ HandleOther(c)
  <2>1. PICK ran \in BOOLEAN : Run(c, ran)
    BY <1>6 DEF HandleGet, HandlePost, HandleOther, BodyRead
  <2>. QED BY <2>1, RunInv
<1>7. CASE Leave(c) BY <1>7, LeaveInv
<1>. QED BY <1>1, <1>2, <1>3, <1>4, <1>5, <1>6, <1>7 DEF Thread

LEMMA ServerStep == ServerInv /\ [Next]_vars => ServerInv'
<1>. SUFFICES ASSUME ServerInv, [Next]_vars PROVE ServerInv'
  OBVIOUS
<1>1. CASE \E c \in Clients : Accept(c) \/ Thread(c)
  BY <1>1, AcceptInv, ThreadInv
<1>2. CASE Main \/ DrainTimeout \/ Signal
  BY <1>2, MainInv
<1>3. CASE \E k \in Keys : Revoke(k) \/ \E new \in Keys : Rotate(k, new)
  BY <1>3, RevokeInv, RotateInv
<1>4. CASE Tick
  BY <1>4, TickInv
<1>5. CASE UNCHANGED vars
  BY <1>5 DEF vars, threads, shutdown, keys, rate, ServerInv, ServerTypes, Counted, Checked, OneUsable, ThreadsAt
<1>. QED BY <1>1, <1>2, <1>3, <1>4, <1>5 DEF Next

\* The inductive invariant holds of server.py for any number of connections,
\* slots and keys, with either signal handler.
THEOREM ServerInvariant == Spec => []ServerInv
<1>. QED BY InitServer, ServerStep, PTL DEF Spec

-----------------------------------------------------------------------------
\* Whatever requests, signals and changes of keys come: slots, the count of
\* requests under way, keys and buckets keep their bounds, and no slot is lost
\* while no shutdown was requested (server.py _dispatch).
THEOREM SlotsAreSound == Spec => []SlotsSound
<1>1. ServerInv => SlotsSound
  BY SlotsAssumption DEF ServerInv, ServerTypes, Counted, SlotsSound, TypeOK, SlotsReturned, Places
<1>. QED BY <1>1, ServerInvariant, PTL

\* For every set of keys and requests, a key revoked before the connection was
\* made gets no handler run (server.py _authenticate_and_authorize, api_keys.py).
THEOREM RevokedKeysRefused == Spec => []RevokedNotServed
<1>1. ServerInv => RevokedNotServed
  BY DEF ServerInv, ServerTypes, Checked, RevokedNotServed
<1>. QED BY <1>1, ServerInvariant, PTL

\* No handler runs before the "allowed" row of its request is in the audit log
\* (server.py _check_rbac_and_audit).
THEOREM RunsAreAudited == Spec => []AuditedBeforeRun
<1>1. ServerInv => AuditedBeforeRun
  BY DEF ServerInv, ServerTypes, Checked, AuditedBeforeRun
<1>. QED BY <1>1, ServerInvariant, PTL

\* Through any number of rotations there is exactly one usable key
\* (handlers.py handle_rotate_api_key, database.py).
THEOREM OneKeyAtATime == Spec => []KeyHandedOver
<1>1. ServerInv => KeyHandedOver
  BY FS_Singleton DEF ServerInv, OneUsable, KeyHandedOver
<1>. QED BY <1>1, ServerInvariant, PTL

\* A server whose signal handler is the one create_server installs exits only
\* with no request under way or after the wait (server.py
\* _setup_graceful_shutdown); main of __main__.py is what is left out here.
THEOREM EmbeddedDrains == ASSUME "main" \notin Entries PROVE Spec => []DrainedBeforeExit
<1>1. Init => Draining
  BY DEF Init, Draining
<1>2. ServerInv /\ Draining /\ [Next]_vars => Draining'
  <2>. SUFFICES ASSUME ServerInv, Draining, [Next]_vars PROVE Draining'
    OBVIOUS
  <2>. USE DEF Draining
  <2>1. ASSUME NEW c \in Clients, Leave(c), active = 0 PROVE FALSE
    <3>1. c \in ThreadsAt(Inside) /\ main # "exited"
      BY <2>1 DEF Leave, ThreadsAt, Inside, Serving, ServerInv, Counted, Gone
    <3>. QED BY <2>1, <3>1, ThreadsFinite, FS_EmptySet DEF ServerInv, Counted
  <2>2. ASSUME NEW c \in Clients, Accept(c) \/ Thread(c) PROVE Draining'
    <3>1. CASE Leave(c)
      BY <2>1, <3>1 DEF Leave, ServerInv, Counted, Gone
    <3>2. CASE Enter(c)
      BY <3>2 DEF Enter
    <3>3. CASE Accept(c) \/ Acquire(c) \/ Authenticate(c) \/ Meter(c) \/ Authorize(c)
               \/ HandleGet(c) \/ HandlePost(c) \/ HandleOther(c)
      <4>1. UNCHANGED shutdown
        BY <3>3 DEF Accept, Acquire, Authenticate, Meter, Authorize, HandleGet, HandlePost, HandleOther, Run
      <4>. QED BY <4>1 DEF shutdown
    <3>. QED BY <2>2, <3>1, <3>2, <3>3 DEF Thread
  <2>3. CASE Main \/ DrainTimeout \/ Signal
    BY <2>3 DEF Main, CreateServer, Serve, SetRequested, Poll, PollDone, Exit, DrainTimeout, Signal
  <2>4. CASE Tick \/ (\E k \in Keys : Revoke(k) \/ \E new \in Keys : Rotate(k, new)) \/ UNCHANGED vars
    BY <2>4 DEF Tick, Revoke, Rotate, vars, shutdown
  <2>. QED BY <2>2, <2>3, <2>4 DEF Next
<1>3. Draining => DrainedBeforeExit
  BY DEF Draining, DrainedBeforeExit
<1>. QED BY <1>1, <1>2, <1>3, ServerInvariant, PTL DEF Spec

-----------------------------------------------------------------------------
(* ---- analytics.  A row as a save left it, and a table of them.           *)
\* A row as a save left it: what is settled or has a model is not pending.
RowSaved(row, now) ==
    /\ row.cost \in Nat /\ row.at \in Int /\ row.at <= now
    /\ row.review \in BOOLEAN /\ row.rework \in BOOLEAN
    /\ row.status = "pending" => row.model = None
TableSaved(table, now) ==
    /\ table = [k \in ReportedRuns |-> table[k]]
    /\ \A k \in ReportedRuns : table[k] # None => RowSaved(table[k], now)
SpanGiven(span) == span.from \in {None} \cup Int /\ span.to \in {None} \cup Int

\* What saves do to a table: rows stay, move to later hours, and what is
\* settled does not change.
Later(T, U) ==
    \A k \in ReportedRuns : T[k] # None =>
        /\ U[k] # None /\ U[k].at >= T[k].at
        /\ T[k].status # "pending" => U[k] = T[k]

LEMMA RowsFinite ==
    ASSUME NEW T, NEW now, TableSaved(T, now), NEW span
    PROVE  /\ RowsIn(T, span) \in SUBSET ReportedRuns /\ IsFiniteSet(RowsIn(T, span))
           /\ \A k \in RowsIn(T, span) : T[k] # None /\ T[k].cost \in Nat /\ T[k].at \in Int
                /\ (T[k].model # None => T[k].status # "pending")
<1>1. IsFiniteSet(ReportedRuns)
  BY AnalyticsAssumption
<1>2. RowsIn(T, span) \in SUBSET ReportedRuns /\ \A k \in RowsIn(T, span) : T[k] # None
  BY DEF RowsIn
<1>3. IsFiniteSet(RowsIn(T, span))
  BY <1>1, <1>2, FS_Subset
<1> QED
  BY <1>2, <1>3 DEF TableSaved, RowSaved

\* A tally grows with its keys, as long as these keep their rows.
LEMMA TallyTyped ==
    ASSUME NEW T, NEW K, IsFiniteSet(K), \A k \in K : T[k].cost \in Nat
    PROVE  /\ Tally(T, K).count \in Nat /\ Tally(T, K).cost \in Nat /\ Tally(T, K).accepted \in Nat
           /\ Tally(T, K).accepted <= Tally(T, K).count
           /\ Tally(T, K).count = Cardinality(K)
           /\ Tally(T, K).cost = SumFunctionOnSet([k \in K |-> T[k].cost], K)
<1> DEFINE f == [k \in K |-> T[k].cost]
           A == {k \in K : T[k].status = "accepted"}
<1>1. A \in SUBSET K /\ IsFiniteSet(A) /\ Cardinality(A) <= Cardinality(K)
  BY FS_Subset
<1>2. Cardinality(A) \in Nat /\ Cardinality(K) \in Nat
  BY <1>1, FS_CardinalityType
<1>3. DOMAIN f = K /\ \A k \in K : f[k] \in Nat
  OBVIOUS
<1>4. SumFunction(f) = SumFunctionOnSet(f, K)
  BY <1>3, SumOfDomain
<1>5. Tally(T, K) = [count |-> Cardinality(K), cost |-> SumFunction(f), accepted |-> Cardinality(A)]
  BY DEF Tally
<1> HIDE DEF f, A
<1>6. SumFunctionOnSet(f, K) \in Nat
  BY <1>3, SumType
<1> QED
  BY <1>1, <1>2, <1>4, <1>5, <1>6 DEF f

LEMMA TallyGrows ==
    ASSUME NEW T, NEW K, NEW U, NEW L, IsFiniteSet(L), K \in SUBSET L,
           \A k \in L : U[k].cost \in Nat
    PROVE  /\ Tally(T, K).count <= Tally(U, L).count
           /\ (\A k \in K : T[k] = U[k]) => Tally(T, K).cost <= Tally(U, L).cost
<1>1. IsFiniteSet(K) /\ Cardinality(K) <= Cardinality(L)
  BY FS_Subset
<1>2. Tally(T, K).count = Cardinality(K) /\ Tally(U, L).count = Cardinality(L)
  BY DEF Tally
<1>3. ASSUME \A k \in K : T[k] = U[k]
      PROVE  Tally(T, K).cost <= Tally(U, L).cost
  <2> DEFINE f == [k \in K |-> T[k].cost]
             g == [k \in L |-> U[k].cost]
  <2>1. (\A k \in L : g[k] \in Nat) /\ \A k \in K : f[k] = g[k]
    BY <1>3
  <2>2. \A k \in K : T[k].cost \in Nat
    BY <1>3
  <2>3. Tally(T, K).cost = SumFunctionOnSet(f, K)
    BY <1>1, <2>2, TallyTyped
  <2>4. Tally(U, L).cost = SumFunctionOnSet(g, L)
    BY TallyTyped
  <2> HIDE DEF f, g
  <2>5. SumFunctionOnSet(f, K) = SumFunctionOnSet(g, K)
    BY <1>1, <2>1, SumSame
  <2>6. SumFunctionOnSet(g, K) <= SumFunctionOnSet(g, L)
    BY <2>1, SumOfPart
  <2> QED
    BY <2>3, <2>4, <2>5, <2>6
<1> QED
  BY <1>1, <1>2, <1>3

Column(T, query, k) ==
    [by_model |-> T[k].model, by_status |-> T[k].status, by_day |-> DayOf(T[k].at),
     trend |-> DayOf(T[k].at), by_hour |-> T[k].at, peak |-> T[k].at][query]

Columns(T, query, K) == [k \in K |-> Column(T, query, k)]
Values(K, f) == {f[k] : k \in K}

Skipped(query) == IF query = "by_model" THEN {None} ELSE {}

LEMMA GroupedShape ==
    ASSUME NEW T, NEW K, NEW query, query \in Groupings
    PROVE  /\ DOMAIN Grouped(T, K, query) = Values(K, Columns(T, query, K)) \ Skipped(query)
           /\ \A v \in DOMAIN Grouped(T, K, query) :
                Grouped(T, K, query)[v] = Tally(T, Group(K, Columns(T, query, K), v))
<1> DEFINE value(k) == [by_model |-> T[k].model, by_status |-> T[k].status, by_day |-> DayOf(T[k].at),
                        trend |-> DayOf(T[k].at), by_hour |-> T[k].at, peak |-> T[k].at][query]
           f == Columns(T, query, K)
           values == {value(k) : k \in K} \ (IF query = "by_model" THEN {None} ELSE {})
           groups == [v \in values |-> Tally(T, {k \in K : value(k) = v})]
<1>1. \A k \in K : value(k) = f[k]
  BY DEF Column, Columns
<1>2. Grouped(T, K, query) = groups
  BY DEF Grouped
<1> HIDE DEF value, f
<1>3. {value(k) : k \in K} = Values(K, f)
  BY <1>1 DEF Values
<1>4. \A v : {k \in K : value(k) = v} = Group(K, f, v)
  BY <1>1 DEF Group
<1>5. DOMAIN groups = values
  OBVIOUS
<1>6. ASSUME NEW v \in values PROVE groups[v] = Tally(T, Group(K, f, v))
  <2>1. groups[v] = Tally(T, {k \in K : value(k) = v})
    BY <1>6
  <2>2. {k \in K : value(k) = v} = Group(K, f, v)
    BY <1>4
  <2> QED
    BY <2>1, <2>2
<1> QED
  BY <1>2, <1>3, <1>5, <1>6 DEF Skipped, f

\* Groups by status or by day miss no row of the span; those by model may.
LEMMA GroupsAddUp ==
    ASSUME NEW T, NEW K, IsFiniteSet(K), \A k \in K : T[k].cost \in Nat, NEW query \in Groupings
    PROVE  /\ GroupSum(Grouped(T, K, query)) <= Cardinality(K)
           /\ query # "by_model" => GroupSum(Grouped(T, K, query)) = Cardinality(K)
<1> DEFINE f == Columns(T, query, K)
           groups == Grouped(T, K, query)
           V == DOMAIN groups
           c == [v \in V |-> groups[v].count]
           In == GroupsOf(K, f, V)
<1>2. /\ V = Values(K, f) \ Skipped(query)
      /\ \A v \in V : groups[v] = Tally(T, Group(K, f, v))
  BY GroupedShape
<1> HIDE DEF groups, f
<1>3. IsFiniteSet(V)
  <2>1. IsFiniteSet(Values(K, f))
    BY ImageFinite DEF Values
  <2>2. V \in SUBSET Values(K, f)
    BY <1>2
  <2> HIDE DEF V
  <2> QED
    BY <2>1, <2>2, FS_Subset
<1>4. \A v \in V : c[v] = Cardinality(Group(K, f, v))
  <2>1. \A L : Tally(T, L).count = Cardinality(L)
    BY DEF Tally
  <2>2. \A v \in V : c[v] = groups[v].count
    OBVIOUS
  <2> QED
    BY <1>2, <2>1, <2>2
<1>5. DOMAIN c = V
  OBVIOUS
<1>6. In \in SUBSET K /\ (query # "by_model" => In = K)
  BY <1>2 DEF GroupsOf, Values, Skipped
<1>7. GroupSum(groups) = SumFunction(c)
  BY DEF GroupSum
<1> HIDE DEF c, V, In
<1>8. SumFunction(c) = SumFunctionOnSet(c, V)
  BY <1>5, SumOfDomain
<1>9. SumFunctionOnSet(c, V) = Cardinality(In)
  BY <1>3, <1>4, SumOfGroups DEF In
<1>10. Cardinality(In) <= Cardinality(K)
  BY <1>6, FS_Subset
<1> QED
  BY <1>6, <1>7, <1>8, <1>9, <1>10 DEF groups

RowsWhere(query, T, now, span) == {k \in RowsIn(T, span) : Condition(query, T[k], now)}

LEMMA QueriedAt ==
    ASSUME NEW T, NEW now, NEW span, NEW query
    PROVE  /\ query \in Groupings /\ query # "peak" =>
                Queried(query, T, now, span) = Grouped(T, RowsWhere(query, T, now, span), query)
           /\ Queried("peak", T, now, span) = Busiest(Grouped(T, RowsWhere("peak", T, now, span), "peak"))
           /\ query \notin Groupings => Queried(query, T, now, span) = Tally(T, RowsWhere(query, T, now, span))
<1>1. "peak" \in Groupings
  BY DEF Groupings
<1> QED
  BY <1>1 DEF Queried, RowsWhere

LEMMA NotGrouped ==
    /\ "total" \notin Groupings /\ "accepted" \notin Groupings /\ "escalated" \notin Groupings
    /\ {"by_model", "by_status", "by_day", "by_hour", "trend", "peak"} \subseteq Groupings
BY DEF Groupings

LEMMA WhereIs ==
    ASSUME NEW T, NEW now, NEW span
    PROVE  /\ \A query : RowsWhere(query, T, now, span) \in SUBSET RowsIn(T, span)
           /\ \A query \in {"total", "by_model", "by_status", "by_day", "by_hour", "peak"} :
                RowsWhere(query, T, now, span) = RowsIn(T, span)
           /\ \A k : k \in RowsWhere("accepted", T, now, span) <=> k \in RowsIn(T, span) /\ T[k].status = "accepted"
           /\ \A k : k \in RowsWhere("escalated", T, now, span) <=> k \in RowsIn(T, span) /\ T[k].status = "escalated"
           /\ \A k : k \in RowsWhere("trend", T, now, span) <=> k \in RowsIn(T, span) /\ Recent(T[k], now)
<1>1. \A row : /\ \A query \in {"total", "by_model", "by_status", "by_day", "by_hour", "peak"} : Condition(query, row, now)
               /\ Condition("accepted", row, now) <=> row.status = "accepted"
               /\ Condition("escalated", row, now) <=> row.status = "escalated"
               /\ Condition("trend", row, now) <=> Recent(row, now)
  BY DEF Condition
<1>2. \A query, k : k \in RowsWhere(query, T, now, span) <=> k \in RowsIn(T, span) /\ Condition(query, T[k], now)
  BY DEF RowsWhere
<1>3. ASSUME NEW query \in {"total", "by_model", "by_status", "by_day", "by_hour", "peak"}
      PROVE  RowsWhere(query, T, now, span) = RowsIn(T, span)
  BY <1>1, <1>2
<1> QED
  BY <1>1, <1>2, <1>3

\* A run that is still in the window of a trend was in it when it was read.
LEMMA StillRecent ==
    ASSUME NEW row, row.at \in Int, NEW now \in Int, NEW then \in Int, then <= now, Recent(row, now)
    PROVE  Recent(row, then)
<1> DEFINE w == TrendDays * DayHours
           d == row.at
<1>1. w \in Int /\ d \in Int /\ d >= now - w
  BY AnalyticsAssumption DEF Recent
<1> HIDE DEF w, d
<1>2. d >= then - w
  BY <1>1
<1> QED
  BY <1>2 DEF Recent, w, d

\* Figures of one table are parts of its totals.
LEMMA PartsOfWhole ==
    ASSUME NEW A, NEW day, TableSaved(A, day), NEW span, NEW when, NEW now \in Int, NEW then \in Int, then <= now, NEW query
    PROVE  LET whole == Queried("total", A, when, span)
               part == Queried(query, A, then, span) IN
           /\ query \in {"by_status", "by_day"} => GroupSum(part) = whole.count
           /\ query \in {"by_model", "trend"} => GroupSum(part) <= whole.count
           /\ query = "trend" => Cardinality({k \in RowsIn(A, span) : Recent(A[k], now)}) <= GroupSum(part)
           /\ query \notin Groupings => part.count <= whole.count /\ part.cost <= whole.cost
           /\ query = "total" => part = whole
<1> DEFINE R == RowsIn(A, span)
           whole == Queried("total", A, when, span)
           part == Queried(query, A, then, span)
           K == RowsWhere(query, A, then, span)
           L == {k \in R : Recent(A[k], now)}
<1>1. IsFiniteSet(R) /\ \A k \in R : A[k].cost \in Nat /\ A[k].at \in Int
  BY RowsFinite
<1>2. whole = Tally(A, R) /\ Queried("total", A, then, span) = Tally(A, R)
  BY QueriedAt, NotGrouped, WhereIs
<1>3. whole.count = Cardinality(R)
  BY <1>2 DEF Tally
<1>4. query \in Groupings /\ query # "peak" => part = Grouped(A, K, query)
  BY QueriedAt
<1>5. query \notin Groupings => part = Tally(A, K)
  BY QueriedAt
<1>6. K \in SUBSET R /\ (query \in {"by_status", "by_day"} => K = R)
  <2>1. K \in SUBSET R
    BY WhereIs
  <2>2. ASSUME query \in {"by_status", "by_day"} PROVE K = R
    <3>1. query \in {"total", "by_model", "by_status", "by_day", "by_hour", "peak"}
      BY <2>2
    <3> HIDE DEF K, R
    <3> QED
      BY <3>1, WhereIs DEF K, R
  <2> QED
    BY <2>1, <2>2
<1>11. query = "trend" => L \in SUBSET K
  <2> SUFFICES ASSUME query = "trend", NEW k \in L PROVE k \in K
    OBVIOUS
  <2>1. k \in R /\ A[k].at \in Int /\ Recent(A[k], now)
    BY <1>1
  <2>2. Recent(A[k], then)
    BY <2>1, StillRecent
  <2> QED
    BY <2>1, <2>2, WhereIs
<1> HIDE DEF K, R, whole, part, L
<1>7. query \notin Groupings => part.count <= whole.count /\ part.cost <= whole.cost
  <2>1. Tally(A, K).count <= Tally(A, R).count /\ Tally(A, K).cost <= Tally(A, R).cost
    BY <1>1, <1>6, TallyGrows
  <2> QED
    BY <1>2, <1>5, <2>1
<1>12. IsFiniteSet(K) /\ (\A k \in K : A[k].cost \in Nat) /\ Cardinality(K) <= Cardinality(R)
  BY <1>1, <1>6, FS_Subset
<1>13. Cardinality(K) \in Nat /\ Cardinality(R) \in Nat
  BY <1>1, <1>12, FS_CardinalityType
<1>14. query = "trend" => Cardinality(L) <= Cardinality(K)
  BY <1>11, <1>12, FS_Subset
<1>8. query \in Groupings /\ query # "peak" => /\ GroupSum(part) <= Cardinality(K)
                                               /\ query # "by_model" => GroupSum(part) = Cardinality(K)
  BY <1>4, <1>12, GroupsAddUp
<1>15. query = "by_model" => GroupSum(part) <= whole.count
  <2> SUFFICES ASSUME query = "by_model" PROVE GroupSum(part) <= whole.count
    OBVIOUS
  <2>1. K = R
    BY WhereIs DEF K, R
  <2> QED
    BY <1>3, <1>8, <2>1, NotGrouped
<1>9. /\ query \in {"by_status", "by_day"} => GroupSum(part) = whole.count
      /\ query = "trend" => Cardinality(L) <= GroupSum(part) /\ GroupSum(part) <= whole.count
  BY <1>3, <1>6, <1>8, <1>12, <1>14, NotGrouped
<1>10. query = "total" => part = whole
  BY <1>2 DEF part, R
<1> QED
  BY <1>7, <1>9, <1>15, <1>10 DEF whole, part, L, R

\* An hour that is not among the busiest is no busier than one that is.
LEMMA PeakIsBusiest ==
    ASSUME NEW A, NEW day, TableSaved(A, day), NEW span, NEW when, NEW then
    PROVE  LET peak == Queried("peak", A, when, span)
               hours == Queried("by_hour", A, then, span) IN
           /\ \A h \in DOMAIN peak : h \in DOMAIN hours /\ peak[h] = hours[h]
           /\ \A h \in DOMAIN peak, g \in DOMAIN hours \ DOMAIN peak : hours[g].count <= peak[h].count
<1> DEFINE R == RowsIn(A, span)
           f == Columns(A, "by_hour", R)
           hours == Grouped(A, R, "by_hour")
           P(h) == Busier(hours, h)
           top == {h \in DOMAIN hours : Cardinality(P(h)) < PeakRows}
           peak == Restrict(hours, top)
<1>1. IsFiniteSet(R) /\ \A k \in R : A[k].cost \in Nat /\ A[k].at \in Int
  BY RowsFinite
<1>2. Queried("by_hour", A, then, span) = hours
  BY QueriedAt, NotGrouped, WhereIs
<1>3. Grouped(A, R, "peak") = hours
  BY DEF Grouped
<1>4. Queried("peak", A, when, span) = peak
  <2>1. Queried("peak", A, when, span) = Busiest(hours)
    BY <1>3, QueriedAt, WhereIs
  <2> QED
    BY <2>1 DEF Busiest
<1>5. /\ DOMAIN hours = Values(R, f) \ Skipped("by_hour")
      /\ \A v \in DOMAIN hours : hours[v] = Tally(A, Group(R, f, v))
  BY GroupedShape, NotGrouped
<1>6. \A k \in R : f[k] = A[k].at
  BY DEF Columns, Column
<1> HIDE DEF f, R
<1>7. IsFiniteSet(DOMAIN hours)
  <2>1. IsFiniteSet(Values(R, f))
    BY <1>1, ImageFinite DEF Values
  <2>2. DOMAIN hours \in SUBSET Values(R, f)
    BY <1>5
  <2> HIDE DEF hours
  <2> QED
    BY <2>1, <2>2, FS_Subset
<1>8. \A h \in DOMAIN hours : h \in Int /\ hours[h].count \in Nat
  <2> SUFFICES ASSUME NEW h \in DOMAIN hours PROVE h \in Int /\ hours[h].count \in Nat
    OBVIOUS
  <2>1. h \in Int
    BY <1>1, <1>5, <1>6 DEF Values
  <2>2. Group(R, f, h) \in SUBSET R
    BY DEF Group
  <2>3. IsFiniteSet(Group(R, f, h)) /\ \A k \in Group(R, f, h) : A[k].cost \in Nat
    BY <1>1, <2>2, FS_Subset
  <2>4. Tally(A, Group(R, f, h)).count \in Nat
    BY <2>3, TallyTyped
  <2> QED
    BY <1>5, <2>1, <2>4
<1>9. \A h \in DOMAIN hours :
        P(h) = {g \in DOMAIN hours : hours[g].count > hours[h].count \/ (hours[g].count = hours[h].count /\ g < h)}
  BY DEF Busier
<1> HIDE DEF hours, P
<1>10. DOMAIN peak = top /\ \A h \in top : peak[h] = hours[h]
  BY DEF Restrict
<1>11. ASSUME NEW h \in top, NEW g \in DOMAIN hours \ top PROVE hours[g].count <= hours[h].count
  <2> SUFFICES ASSUME hours[g].count > hours[h].count PROVE FALSE
    BY <1>8
  <2>1. P(g) \in SUBSET P(h) /\ P(h) \in SUBSET DOMAIN hours
    BY <1>8, <1>9
  <2>2. IsFiniteSet(P(h)) /\ IsFiniteSet(P(g))
    BY <1>7, <2>1, FS_Subset
  <2>3. Cardinality(P(g)) <= Cardinality(P(h)) /\ Cardinality(P(g)) \in Nat /\ Cardinality(P(h)) \in Nat
    BY <2>1, <2>2, FS_Subset, FS_CardinalityType
  <2> QED
    BY <2>3, AnalyticsAssumption
<1> HIDE DEF top, peak
<1>12. top \in SUBSET DOMAIN hours
  BY DEF top
<1> QED
  BY <1>2, <1>4, <1>10, <1>11, <1>12

\* No run is accepted and escalated.
LEMMA CostsApart ==
    ASSUME NEW A, NEW day, TableSaved(A, day), NEW span, NEW now, NEW then, NEW when
    PROVE  Queried("accepted", A, now, span).cost + Queried("escalated", A, then, span).cost
             <= Queried("total", A, when, span).cost
<1> DEFINE R == RowsIn(A, span)
           K == RowsWhere("accepted", A, now, span)
           L == RowsWhere("escalated", A, then, span)
           f == [k \in R |-> A[k].cost]
           fK == [k \in K |-> A[k].cost]
           fL == [k \in L |-> A[k].cost]
<1>1. IsFiniteSet(R) /\ \A k \in R : A[k].cost \in Nat
  BY RowsFinite
<1>2. /\ Queried("total", A, when, span) = Tally(A, R)
      /\ Queried("accepted", A, now, span) = Tally(A, K)
      /\ Queried("escalated", A, then, span) = Tally(A, L)
  BY QueriedAt, NotGrouped, WhereIs
<1>3. K \in SUBSET R /\ L \in SUBSET R /\ K \cap L = {} /\ K \cup L \in SUBSET R
  <2>1. "accepted" # "escalated"
    OBVIOUS
  <2> QED
    BY <2>1, WhereIs
<1>4. IsFiniteSet(K) /\ IsFiniteSet(L)
  BY <1>1, <1>3, FS_Subset
<1>5. (\A k \in R : f[k] \in Nat) /\ (\A k \in K : fK[k] = f[k]) /\ (\A k \in L : fL[k] = f[k])
  BY <1>1, <1>3
<1>6. /\ Tally(A, R).cost = SumFunctionOnSet(f, R)
      /\ Tally(A, K).cost = SumFunctionOnSet(fK, K)
      /\ Tally(A, L).cost = SumFunctionOnSet(fL, L)
  <2>1. (\A k \in K : A[k].cost \in Nat) /\ \A k \in L : A[k].cost \in Nat
    BY <1>1, <1>3
  <2>2. Tally(A, R).cost = SumFunctionOnSet(f, R)
    BY <1>1, TallyTyped
  <2>3. Tally(A, K).cost = SumFunctionOnSet(fK, K)
    BY <1>4, <2>1, TallyTyped
  <2>4. Tally(A, L).cost = SumFunctionOnSet(fL, L)
    BY <1>4, <2>1, TallyTyped
  <2> QED
    BY <2>2, <2>3, <2>4
<1> HIDE DEF f, fK, fL, K, L, R
<1>7. SumFunctionOnSet(fK, K) = SumFunctionOnSet(f, K) /\ SumFunctionOnSet(fL, L) = SumFunctionOnSet(f, L)
  BY <1>4, <1>5, SumSame
<1>8. \A k \in K \cup L : f[k] \in Nat
  BY <1>3, <1>5
<1>9. SumFunctionOnSet(f, K \cup L) = SumFunctionOnSet(f, K) + SumFunctionOnSet(f, L)
  BY <1>3, <1>4, <1>8, SumUnion
<1>10. SumFunctionOnSet(f, K \cup L) <= SumFunctionOnSet(f, R)
  BY <1>1, <1>3, <1>5, SumOfPart
<1> QED
  BY <1>2, <1>6, <1>7, <1>9, <1>10

(* ---- tables later than one another.                                     *)
LEMMA LaterOrder ==
    ASSUME NEW T, NEW U, NEW V, NEW now, TableSaved(T, now), TableSaved(U, now), TableSaved(V, now)
    PROVE  /\ Later(T, T)
           /\ Later(T, U) /\ Later(U, V) => Later(T, V)
<1>1. \A k \in ReportedRuns : /\ T[k] # None => T[k].at \in Int
                              /\ U[k] # None => U[k].at \in Int
                              /\ V[k] # None => V[k].at \in Int
  BY DEF TableSaved, RowSaved
<1>2. Later(T, T)
  BY <1>1 DEF Later
<1>3. ASSUME Later(T, U), Later(U, V) PROVE Later(T, V)
  <2> SUFFICES ASSUME NEW k \in ReportedRuns, T[k] # None
               PROVE  /\ V[k] # None /\ V[k].at >= T[k].at
                      /\ T[k].status # "pending" => V[k] = T[k]
    BY DEF Later
  <2>1. /\ U[k] # None /\ U[k].at >= T[k].at
        /\ T[k].status # "pending" => U[k] = T[k]
    BY <1>3 DEF Later
  <2>2. /\ V[k] # None /\ V[k].at >= U[k].at
        /\ U[k].status # "pending" => V[k] = U[k]
    BY <1>3, <2>1 DEF Later
  <2>3. V[k].at >= T[k].at
    BY <1>1, <2>1, <2>2
  <2> QED
    BY <2>1, <2>2, <2>3
<1> QED
  BY <1>2, <1>3

\* A settled run leaves no span; no run leaves one without a last day.
LEMMA StayIn ==
    ASSUME NEW T, NEW U, NEW now, TableSaved(T, now), TableSaved(U, now), Later(T, U), NEW span, SpanGiven(span),
           NEW k \in RowsIn(T, span)
    PROVE  /\ T[k].status # "pending" => k \in RowsIn(U, span) /\ U[k] = T[k]
           /\ span.to = None => k \in RowsIn(U, span)
<1>1. k \in ReportedRuns /\ T[k] # None /\ Within(T[k], span)
  BY DEF RowsIn
<1>2. /\ U[k] # None /\ U[k].at >= T[k].at
      /\ T[k].status # "pending" => U[k] = T[k]
  BY <1>1 DEF Later
<1>3. T[k].at \in Int /\ U[k].at \in Int
  BY <1>1, <1>2 DEF TableSaved, RowSaved
<1>4. span.from = None \/ (span.from \in Int /\ T[k].at >= span.from)
  BY <1>1 DEF Within, SpanGiven
<1>5. span.to = None => Within(U[k], span)
  <2> DEFINE from == span.from
             d == T[k].at
             e == U[k].at
  <2>1. d \in Int /\ e \in Int /\ e >= d /\ (from = None \/ (from \in Int /\ d >= from))
    BY <1>2, <1>3, <1>4
  <2> HIDE DEF from, d, e
  <2>2. from = None \/ e >= from
    BY <2>1
  <2> QED
    BY <2>2 DEF Within, from, e
<1> QED
  BY <1>1, <1>2, <1>5 DEF RowsIn

LEMMA WhereGrows ==
    ASSUME NEW T, NEW U, NEW now, TableSaved(T, now), TableSaved(U, now), Later(T, U), NEW span, SpanGiven(span),
           NEW t, NEW u
    PROVE  /\ \A query \in {"accepted", "escalated"} :
                /\ RowsWhere(query, T, t, span) \in SUBSET RowsWhere(query, U, u, span)
                /\ \A k \in RowsWhere(query, T, t, span) : T[k] = U[k]
           /\ span.to = None => RowsWhere("total", T, t, span) \in SUBSET RowsWhere("total", U, u, span)
<1>1. \A k \in RowsIn(T, span) :
        /\ T[k].status # "pending" => k \in RowsIn(U, span) /\ U[k] = T[k]
        /\ span.to = None => k \in RowsIn(U, span)
  BY StayIn
<1>2. /\ "accepted" # "pending" /\ "escalated" # "pending"
  OBVIOUS
<1>3. /\ RowsWhere("accepted", T, t, span) \in SUBSET RowsWhere("accepted", U, u, span)
      /\ \A k \in RowsWhere("accepted", T, t, span) : T[k] = U[k]
  BY <1>1, <1>2, WhereIs
<1>4. /\ RowsWhere("escalated", T, t, span) \in SUBSET RowsWhere("escalated", U, u, span)
      /\ \A k \in RowsWhere("escalated", T, t, span) : T[k] = U[k]
  BY <1>1, <1>2, WhereIs
<1>5. span.to = None => RowsWhere("total", T, t, span) \in SUBSET RowsWhere("total", U, u, span)
  BY <1>1, WhereIs
<1> QED
  BY <1>3, <1>4, <1>5

\* What a query counts of a table it counts of a later one.
LEMMA FigureGrows ==
    ASSUME NEW T, NEW U, NEW now, TableSaved(T, now), TableSaved(U, now), Later(T, U), NEW span, SpanGiven(span),
           NEW t, NEW u
    PROVE  /\ \A query \in {"accepted", "escalated"} :
                /\ Queried(query, T, t, span).count <= Queried(query, U, u, span).count
                /\ Queried(query, T, t, span).cost <= Queried(query, U, u, span).cost
           /\ span.to = None => Queried("total", T, t, span).count <= Queried("total", U, u, span).count
<1>1. \A query : /\ RowsWhere(query, U, u, span) \in SUBSET RowsIn(U, span)
                 /\ IsFiniteSet(RowsWhere(query, U, u, span))
                 /\ \A k \in RowsWhere(query, U, u, span) : U[k].cost \in Nat
  <2> SUFFICES ASSUME NEW query
               PROVE  /\ RowsWhere(query, U, u, span) \in SUBSET RowsIn(U, span)
                      /\ IsFiniteSet(RowsWhere(query, U, u, span))
                      /\ \A k \in RowsWhere(query, U, u, span) : U[k].cost \in Nat
    OBVIOUS
  <2>1. RowsWhere(query, U, u, span) \in SUBSET RowsIn(U, span)
    BY WhereIs
  <2>2. IsFiniteSet(RowsIn(U, span)) /\ \A k \in RowsIn(U, span) : U[k].cost \in Nat
    BY RowsFinite
  <2> QED
    BY <2>1, <2>2, FS_Subset
<1>2. ASSUME NEW query, query \notin Groupings, RowsWhere(query, T, t, span) \in SUBSET RowsWhere(query, U, u, span)
      PROVE  /\ Queried(query, T, t, span).count <= Queried(query, U, u, span).count
             /\ (\A k \in RowsWhere(query, T, t, span) : T[k] = U[k]) =>
                  Queried(query, T, t, span).cost <= Queried(query, U, u, span).cost
  <2> DEFINE K == RowsWhere(query, T, t, span)
             L == RowsWhere(query, U, u, span)
  <2>1. IsFiniteSet(L) /\ (\A k \in L : U[k].cost \in Nat) /\ K \in SUBSET L
    BY <1>1, <1>2
  <2>2. Queried(query, T, t, span) = Tally(T, K) /\ Queried(query, U, u, span) = Tally(U, L)
    BY <1>2, QueriedAt
  <2> HIDE DEF K, L
  <2>3. /\ Tally(T, K).count <= Tally(U, L).count
        /\ (\A k \in K : T[k] = U[k]) => Tally(T, K).cost <= Tally(U, L).cost
    BY <2>1, TallyGrows
  <2> QED
    BY <2>2, <2>3 DEF K
<1> QED
  BY <1>2, WhereGrows, NotGrouped

LEMMA ModelsGrow ==
    ASSUME NEW T, NEW U, NEW now, TableSaved(T, now), TableSaved(U, now), Later(T, U), NEW span, SpanGiven(span),
           NEW t, NEW u
    PROVE  LET before == Queried("by_model", T, t, span)
               after == Queried("by_model", U, u, span) IN
           \A m \in DOMAIN before : m \in DOMAIN after /\ before[m].count <= after[m].count
<1> DEFINE K == RowsIn(T, span)
           L == RowsIn(U, span)
           f == Columns(T, "by_model", K)
           g == Columns(U, "by_model", L)
           before == Queried("by_model", T, t, span)
           after == Queried("by_model", U, u, span)
<1>1. before = Grouped(T, K, "by_model") /\ after = Grouped(U, L, "by_model")
  BY QueriedAt, NotGrouped, WhereIs
<1>2. /\ DOMAIN Grouped(T, K, "by_model") = Values(K, f) \ Skipped("by_model")
      /\ DOMAIN Grouped(U, L, "by_model") = Values(L, g) \ Skipped("by_model")
      /\ \A v \in DOMAIN Grouped(T, K, "by_model") : Grouped(T, K, "by_model")[v] = Tally(T, Group(K, f, v))
      /\ \A v \in DOMAIN Grouped(U, L, "by_model") : Grouped(U, L, "by_model")[v] = Tally(U, Group(L, g, v))
  BY GroupedShape, NotGrouped
<1>3. (\A k \in K : f[k] = T[k].model) /\ (\A k \in L : g[k] = U[k].model)
  BY DEF Columns, Column
<1>4. \A k \in K : T[k].model # None => k \in L /\ U[k] = T[k]
  BY RowsFinite, StayIn
<1>5. IsFiniteSet(L) /\ \A k \in L : U[k].cost \in Nat
  BY RowsFinite
<1> HIDE DEF K, L, f, g, before, after
<1>6. ASSUME NEW m \in DOMAIN before PROVE m \in DOMAIN after /\ before[m].count <= after[m].count
  <2>1. m \in Values(K, f) /\ m # None
    BY <1>1, <1>2, <1>6 DEF Skipped
  <2>2. PICK k \in K : m = f[k]
    BY <2>1 DEF Values
  <2>3. k \in L /\ g[k] = m
    BY <1>3, <1>4, <2>1, <2>2
  <2>4. m \in DOMAIN after
    BY <1>1, <1>2, <2>1, <2>3 DEF Values, Skipped
  <2>5. Group(K, f, m) \in SUBSET Group(L, g, m)
    BY <1>3, <1>4, <2>1 DEF Group
  <2>6. Group(L, g, m) \in SUBSET L
    BY DEF Group
  <2>7. IsFiniteSet(Group(L, g, m)) /\ \A j \in Group(L, g, m) : U[j].cost \in Nat
    BY <1>5, <2>6, FS_Subset
  <2>8. Tally(T, Group(K, f, m)).count <= Tally(U, Group(L, g, m)).count
    BY <2>5, <2>7, TallyGrows
  <2>9. before[m] = Tally(T, Group(K, f, m)) /\ after[m] = Tally(U, Group(L, g, m))
    BY <1>1, <1>2, <1>6, <2>4
  <2> QED
    BY <2>4, <2>8, <2>9
<1> QED
  BY <1>6 DEF before, after

(* ---- the ranking.                                                       *)
LEMMA TimesKeeps ==
    ASSUME NEW a \in Int, NEW b \in Int, NEW c \in Int, a <= b, c >= 0
    PROVE  a * c <= b * c
<1>1. (b - a) * c >= 0
  OBVIOUS
<1> QED
  BY <1>1

\* Two rounded divisions keep an order of two percent and one.
LEMMA RoundedApart ==
    ASSUME NEW fc \in Nat, NEW fa \in Nat, NEW hf \in Nat, NEW p \in Nat,
           NEW gc \in Nat, NEW ga \in Nat, NEW hg \in Nat, NEW q \in Nat,
           fa >= 1, ga >= 1, hf >= 995 * fa, hg <= 1005 * ga,
           2 * (p * hf) <= 2000 * fc + hf,
           2000 * gc + hg < 2 * (q * hg) + 2 * hg,
           102 * (fc + fa) * ga <= 100 * gc * fa
    PROVE  p < q
<1> SUFFICES ASSUME q <= p PROVE FALSE
  OBVIOUS
<1> DEFINE k == 2 * p + 1
           X == 2000 * fc + 2 * hf
<1>1. 2 * q + 1 <= k /\ k \in Nat /\ X \in Nat /\ hf > 0
  OBVIOUS
<1>2. (2 * q + 1) * hg <= k * hg
  BY <1>1, TimesKeeps
<1>3. k * hg <= k * (1005 * ga)
  <2>1. hg * k <= (1005 * ga) * k
    BY <1>1, TimesKeeps
  <2> QED
    BY <2>1
<1>4. (2 * q + 1) * hg = 2 * (q * hg) + hg
  OBVIOUS
<1>5. k * hf <= X
  <2>1. k * hf = 2 * (p * hf) + hf
    OBVIOUS
  <2> QED
    BY <2>1
<1> HIDE DEF k
<1>6. 2000 * gc <= k * (1005 * ga)
  BY <1>2, <1>3, <1>4
<1>7. 2000 * gc * hf <= X * (1005 * ga)
  <2>1. (2000 * gc) * hf <= (k * (1005 * ga)) * hf
    BY <1>1, <1>6, TimesKeeps
  <2>2. (k * (1005 * ga)) * hf = (k * hf) * (1005 * ga)
    BY <1>1
  <2>3. (k * hf) * (1005 * ga) <= X * (1005 * ga)
    BY <1>1, <1>5, TimesKeeps
  <2> QED
    BY <2>1, <2>2, <2>3
<1>8. (2000 * gc * hf) * fa <= (X * (1005 * ga)) * fa
  <2> DEFINE u == 2000 * gc * hf
             v == X * (1005 * ga)
  <2>1. u \in Int /\ v \in Int /\ u <= v
    BY <1>1, <1>7
  <2> HIDE DEF u, v
  <2>2. u * fa <= v * fa
    BY <2>1, TimesKeeps
  <2> QED
    BY <2>2 DEF u, v
<1>9. (2040 * (fc + fa) * ga) * hf <= (2000 * gc * fa) * hf
  <2> DEFINE u == 2040 * (fc + fa) * ga
             v == 2000 * gc * fa
  <2>1. u \in Int /\ v \in Int /\ u <= v
    OBVIOUS
  <2> HIDE DEF u, v
  <2>2. u * hf <= v * hf
    BY <2>1, TimesKeeps
  <2> QED
    BY <2>2 DEF u, v
<1> DEFINE left == 2040 * (fc + fa) * hf
           right == 1005 * X * fa
<1>10. ga * left <= ga * right
  <2>1. (2000 * gc * hf) * fa = (2000 * gc * fa) * hf
    OBVIOUS
  <2>2. (2040 * (fc + fa) * ga) * hf = ga * left
    OBVIOUS
  <2>3. (X * (1005 * ga)) * fa = ga * right
    OBVIOUS
  <2> QED
    BY <1>8, <1>9, <2>1, <2>2, <2>3
<1>11. left > right
  <2>1. (995 * fa) * fc <= hf * fc
    BY TimesKeeps
  <2>2. fa * hf > 0
    BY <1>1
  <2>3. left = 2040 * (hf * fc) + 2040 * (fa * hf)
    OBVIOUS
  <2>4. right = 2010000 * (fa * fc) + 2010 * (fa * hf)
    OBVIOUS
  <2>5. (995 * fa) * fc = 995 * (fa * fc) /\ fa * fc >= 0
    OBVIOUS
  <2> HIDE DEF left, right
  <2> DEFINE a == fa * fc
             b == fa * hf
             c == hf * fc
  <2>6. a \in Int /\ b \in Int /\ c \in Int /\ a >= 0 /\ b > 0 /\ 995 * a <= c
    BY <2>1, <2>2, <2>5
  <2>7. left = 2040 * c + 2040 * b /\ right = 2010000 * a + 2010 * b
    BY <2>3, <2>4
  <2> HIDE DEF a, b, c
  <2> QED
    BY <2>6, <2>7
<1>12. left \in Int /\ right \in Int
  BY <1>1
<1> HIDE DEF left, right
<1>13. ga * left > ga * right
  <2>1. (left - right) * ga > 0
    BY <1>11, <1>12
  <2> QED
    BY <1>12, <2>1
<1> QED
  BY <1>10, <1>12, <1>13

\* What true_cost divides by, for a record of figures.
Weight(f) == f.count * PercentOf(f.accepted, f.count)

LEMMA RoundedRate ==
    ASSUME NEW f, f.count \in Nat, f.count > 0, f.accepted \in Nat, f.accepted <= f.count,
           10 * f.accepted >= f.count
    PROVE  /\ PercentOf(f.accepted, f.count) \in Nat /\ PercentOf(f.accepted, f.count) > 0
           /\ Weight(f) \in Nat /\ Weight(f) >= 995 * f.accepted /\ Weight(f) <= 1005 * f.accepted
           /\ f.accepted >= 1
<1> DEFINE a == f.accepted
           n == f.count
<1>0. a \in Nat /\ n \in Nat /\ a <= n /\ 10 * a >= n /\ n > 0
  OBVIOUS
<1> HIDE DEF a, n
<1> DEFINE x == 2000 * a + n
           d == 2 * n
           r == x \div d
<1>1. PercentOf(a, n) = r
  BY <1>0 DEF PercentOf
<1>2. x \in Nat /\ d \in Nat /\ d > 0
  BY <1>0
<1>3. r \in Nat /\ d * r <= x /\ x < d * r + d
  <2> HIDE DEF x, d
  <2> QED
    BY <1>2
<1> HIDE DEF r
<1>4. d * r = 2 * (n * r) /\ n * r \in Nat
  BY <1>0, <1>3
<1> DEFINE h == n * r
<1> HIDE DEF h
<1>5. h \in Nat /\ 2 * h <= 2000 * a + n /\ 2000 * a + n < 2 * h + 2 * n
  BY <1>0, <1>3, <1>4 DEF h
<1>6. h >= 995 * a /\ h <= 1005 * a /\ a >= 1 /\ h > 0
  BY <1>0, <1>5
<1>7. r > 0
  <2>1. r = 0 => h = 0
    BY <1>0 DEF h
  <2> QED
    BY <1>3, <1>6, <2>1
<1>8. Weight(f) = h
  BY <1>1 DEF Weight, h, a, n
<1> QED
  BY <1>1, <1>3, <1>5, <1>6, <1>7, <1>8 DEF a, n

LEMMA RoundedCost ==
    ASSUME NEW f, f.count \in Nat, f.count > 0, f.accepted \in Nat, f.accepted <= f.count, f.cost \in Nat
    PROVE  /\ TrueCostPerCorrect(f) \in Nat
           /\ 10 * f.accepted >= f.count =>
                /\ 2 * (TrueCostPerCorrect(f) * Weight(f)) <= 2000 * f.cost + Weight(f)
                /\ 2000 * f.cost + Weight(f) < 2 * (TrueCostPerCorrect(f) * Weight(f)) + 2 * Weight(f)
<1> DEFINE n == f.count
           a == f.accepted
           c == f.cost
           r == PercentOf(a, n)
           h == n * r
           t == TrueCostPerCorrect(f)
<1>1. n \in Nat /\ n > 0 /\ a \in Nat /\ c \in Nat /\ a <= n
  OBVIOUS
<1>2. t = IF r = 0 THEN 0 ELSE (2000 * c + n * r) \div (2 * n * r)
  BY DEF TrueCostPerCorrect
<1>3. r \in Nat
  <2>1. 2000 * a + n \in Nat /\ 2 * n \in Nat \ {0}
    BY <1>1
  <2>2. (2000 * a + n) \div (2 * n) \in Nat
    BY <2>1, DivisionBelow
  <2>3. r = (2000 * a + n) \div (2 * n)
    BY <1>1 DEF PercentOf
  <2> QED
    BY <2>2, <2>3
<1> HIDE DEF n, a, c, t, r
<1>4. h \in Nat /\ 2 * n * r = 2 * h /\ (r # 0 => h > 0)
  BY <1>1, <1>3
<1> HIDE DEF h
<1>5. r # 0 => t = (2000 * c + h) \div (2 * h)
  BY <1>2, <1>4 DEF h
<1>6. r # 0 => t \in Nat /\ 2 * (t * h) <= 2000 * c + h /\ 2000 * c + h < 2 * (t * h) + 2 * h
  <2> SUFFICES ASSUME r # 0
               PROVE  t \in Nat /\ 2 * (t * h) <= 2000 * c + h /\ 2000 * c + h < 2 * (t * h) + 2 * h
    OBVIOUS
  <2> DEFINE x == 2000 * c + h
             d == 2 * h
  <2>1. x \in Nat /\ d \in Nat /\ d > 0
    BY <1>1, <1>4
  <2>2. t = x \div d
    BY <1>5
  <2>3. t \in Nat /\ d * t <= x /\ x < d * t + d
    <3> HIDE DEF x, d
    <3> QED
      BY <2>1, <2>2
  <2>4. d * t = 2 * (t * h)
    BY <1>4, <2>3
  <2> QED
    BY <2>3, <2>4
<1>7. r = 0 => t \in Nat
  BY <1>2
<1>8. ASSUME 10 * a >= n PROVE r # 0
  <2>1. 10 * f.accepted >= f.count
    BY <1>8 DEF a, n
  <2>2. PercentOf(f.accepted, f.count) \in Nat /\ PercentOf(f.accepted, f.count) > 0
    BY <2>1, RoundedRate
  <2>3. r \in Nat /\ r > 0
    BY <2>2 DEF r, a, n
  <2> QED
    BY <2>3
<1>9. Weight(f) = h
  BY DEF Weight, h, n, r, a
<1> QED
  BY <1>6, <1>7, <1>8, <1>9 DEF n, a, c, t

LEMMA CheaperFirst ==
    ASSUME NEW f, f.count \in Nat, f.count > 0, f.accepted \in Nat, f.accepted <= f.count, f.cost \in Nat,
           NEW g, g.count \in Nat, g.count > 0, g.accepted \in Nat, g.accepted <= g.count, g.cost \in Nat,
           CheaperByFar(f, g)
    PROVE  TrueCostPerCorrect(f) < TrueCostPerCorrect(g)
<1> DEFINE hf == Weight(f)
           hg == Weight(g)
           p == TrueCostPerCorrect(f)
           q == TrueCostPerCorrect(g)
<1>1. 10 * f.accepted >= f.count /\ 10 * g.accepted >= g.count
      /\ 102 * (f.cost + f.accepted) * g.accepted <= 100 * g.cost * f.accepted
  BY DEF CheaperByFar
<1>2. hf \in Nat /\ hf >= 995 * f.accepted /\ f.accepted >= 1 /\ hg \in Nat /\ hg <= 1005 * g.accepted /\ g.accepted >= 1
  <2>1. hf \in Nat /\ hf >= 995 * f.accepted /\ f.accepted >= 1
    BY <1>1, RoundedRate
  <2>2. hg \in Nat /\ hg <= 1005 * g.accepted /\ g.accepted >= 1
    BY <1>1, RoundedRate
  <2> QED
    BY <2>1, <2>2
<1>3. p \in Nat /\ 2 * (p * hf) <= 2000 * f.cost + hf
  BY <1>1, RoundedCost
<1>4. q \in Nat /\ 2000 * g.cost + hg < 2 * (q * hg) + 2 * hg
  BY <1>1, RoundedCost
<1> HIDE DEF hf, hg, p, q
<1>5. p < q
  BY <1>1, <1>2, <1>3, <1>4, RoundedApart
<1> QED
  BY <1>5 DEF p, q

LEMMA CheaperRanksFirst ==
    ASSUME NEW groups, IsFiniteSet(DOMAIN groups),
           \A m \in DOMAIN groups :
             /\ groups[m].count \in Nat /\ groups[m].count > 0 /\ groups[m].accepted \in Nat
             /\ groups[m].accepted <= groups[m].count /\ groups[m].cost \in Nat,
           NEW m \in DOMAIN groups, NEW n \in DOMAIN groups, CheaperByFar(groups[m], groups[n])
    PROVE  ModelRanking(groups)[m] < ModelRanking(groups)[n]
<1> DEFINE cost(x) == TrueCostPerCorrect(groups[x])
           P(x) == {y \in DOMAIN groups : Ahead(groups[y], groups[x])}
<1>1. \A x \in DOMAIN groups : cost(x) \in Nat /\ groups[x].count \in Nat
  BY RoundedCost
<1>2. cost(m) < cost(n)
  BY CheaperFirst
<1>3. \A x, y \in DOMAIN groups : Ahead(groups[y], groups[x]) <=>
        cost(y) < cost(x) \/ (cost(y) = cost(x) /\ groups[y].count > groups[x].count)
  BY DEF Ahead
<1>4. \A x \in DOMAIN groups : ModelRanking(groups)[x] = 1 + Cardinality(P(x)) /\ P(x) \in SUBSET (DOMAIN groups)
  BY DEF ModelRanking
<1> HIDE DEF cost
<1>5. m \notin P(m) /\ m \in P(n)
  BY <1>1, <1>2, <1>3
<1>6. P(m) \in SUBSET P(n)
  <2> SUFFICES ASSUME NEW y \in P(m) PROVE y \in P(n)
    OBVIOUS
  <2>1. cost(y) <= cost(m)
    BY <1>1, <1>3
  <2>2. cost(y) < cost(n)
    BY <1>1, <1>2, <2>1
  <2> QED
    BY <1>3, <2>2
<1>7. IsFiniteSet(P(m)) /\ IsFiniteSet(P(n))
  BY <1>4, FS_Subset
<1> HIDE DEF P
<1>8. Cardinality(P(m) \cup {m}) = Cardinality(P(m)) + 1 /\ P(m) \cup {m} \in SUBSET P(n)
  BY <1>5, <1>6, <1>7, FS_AddElement
<1>9. Cardinality(P(m) \cup {m}) <= Cardinality(P(n))
  BY <1>7, <1>8, FS_Subset
<1>10. Cardinality(P(m)) \in Nat /\ Cardinality(P(n)) \in Nat
  BY <1>7, FS_CardinalityType
<1> QED
  BY <1>4, <1>8, <1>9, <1>10

LEMMA ModelsTyped ==
    ASSUME NEW T, NEW now, TableSaved(T, now), NEW span, NEW t
    PROVE  LET groups == Queried("by_model", T, t, span) IN
           /\ IsFiniteSet(DOMAIN groups)
           /\ \A m \in DOMAIN groups :
                /\ groups[m].count \in Nat /\ groups[m].count > 0 /\ groups[m].accepted \in Nat
                /\ groups[m].accepted <= groups[m].count /\ groups[m].cost \in Nat
<1> DEFINE K == RowsIn(T, span)
           f == Columns(T, "by_model", K)
           groups == Queried("by_model", T, t, span)
<1>1. groups = Grouped(T, K, "by_model")
  BY QueriedAt, NotGrouped, WhereIs
<1>2. /\ DOMAIN Grouped(T, K, "by_model") = Values(K, f) \ Skipped("by_model")
      /\ \A v \in DOMAIN Grouped(T, K, "by_model") : Grouped(T, K, "by_model")[v] = Tally(T, Group(K, f, v))
  BY GroupedShape, NotGrouped
<1>3. IsFiniteSet(K) /\ \A k \in K : T[k].cost \in Nat
  BY RowsFinite
<1> HIDE DEF K, f, groups
<1>4. IsFiniteSet(DOMAIN groups)
  <2>1. IsFiniteSet(Values(K, f))
    BY <1>3, ImageFinite DEF Values
  <2>2. DOMAIN groups \in SUBSET Values(K, f)
    BY <1>1, <1>2
  <2> QED
    BY <2>1, <2>2, FS_Subset
<1>5. ASSUME NEW m \in DOMAIN groups
      PROVE  /\ groups[m].count \in Nat /\ groups[m].count > 0 /\ groups[m].accepted \in Nat
             /\ groups[m].accepted <= groups[m].count /\ groups[m].cost \in Nat
  <2> DEFINE G == Group(K, f, m)
  <2>1. groups[m] = Tally(T, G)
    BY <1>1, <1>2
  <2>2. G \in SUBSET K
    BY DEF Group
  <2>3. G # {}
    <3>1. m \in Values(K, f)
      BY <1>1, <1>2
    <3> QED
      BY <3>1 DEF Values, Group
  <2> HIDE DEF G
  <2>4. IsFiniteSet(G) /\ \A k \in G : T[k].cost \in Nat
    BY <1>3, <2>2, FS_Subset
  <2>5. /\ Tally(T, G).count \in Nat /\ Tally(T, G).cost \in Nat /\ Tally(T, G).accepted \in Nat
        /\ Tally(T, G).accepted <= Tally(T, G).count
        /\ Tally(T, G).count = Cardinality(G)
    BY <2>4, TallyTyped
  <2>6. Cardinality(G) # 0
    BY <2>3, <2>4, FS_EmptySet
  <2> QED
    BY <2>1, <2>5, <2>6
<1> QED
  BY <1>4, <1>5 DEF groups

(* ---- the report under way.                                              *)
\* A figure is a query of a table the gateway had between the request and now.
ReadFrom(r, i, U, now) ==
    \E T, t : /\ r.figures[i] = Queried(Figures[r.kind][i], T, t, r.span)
              /\ t \in Int /\ t <= now
              /\ TableSaved(T, now) /\ Later(r.asked, T) /\ Later(T, U)
              /\ r.calm => T = r.asked
ReadingSound(r, U, now) ==
    /\ r = [kind |-> r.kind, span |-> r.span, figures |-> r.figures, asked |-> r.asked, calm |-> r.calm]
    /\ SpanGiven(r.span)
    /\ \E S : r.figures \in Seq(S)
    /\ TableSaved(r.asked, now) /\ Later(r.asked, U)
    /\ r.calm => r.asked = U
    /\ \A i \in DOMAIN r.figures : ReadFrom(r, i, U, now)
AnalyticsInv ==
    /\ hour \in Nat
    /\ TableSaved(runTable, hour)
    /\ reading # None => ReadingSound(reading, runTable, hour)

LEMMA RowStays ==
    ASSUME NEW T, NEW now \in Int, NEW then \in Int, TableSaved(T, now), now <= then
    PROVE  TableSaved(T, then)
<1>1. \A k \in ReportedRuns : T[k] # None => RowSaved(T[k], then)
  <2> SUFFICES ASSUME NEW k \in ReportedRuns, T[k] # None PROVE RowSaved(T[k], then)
    OBVIOUS
  <2>1. RowSaved(T[k], now)
    BY DEF TableSaved
  <2> DEFINE row == T[k]
  <2> HIDE DEF row
  <2>2. RowSaved(row, then)
    BY <2>1 DEF RowSaved, row
  <2> QED
    BY <2>2 DEF row
<1> QED
  BY <1>1 DEF TableSaved

\* A save writes a row of its own day, and only over one that is pending.
LEMMA SaveIsLater ==
    ASSUME NEW T, NEW now \in Int, TableSaved(T, now), NEW k \in ReportedRuns, NEW row,
           row # None, RowSaved(row, now), row.at = now,
           T[k] # None => T[k].status = "pending"
    PROVE  TableSaved([T EXCEPT ![k] = row], now) /\ Later(T, [T EXCEPT ![k] = row])
<1> DEFINE U == [T EXCEPT ![k] = row]
<1>1. T = [n \in ReportedRuns |-> T[n]]
  BY DEF TableSaved
<1>2. U = [n \in ReportedRuns |-> IF n = k THEN row ELSE T[n]]
  BY <1>1
<1>3. \A n \in ReportedRuns : U[n] = IF n = k THEN row ELSE T[n]
  BY <1>2
<1>4. U = [n \in ReportedRuns |-> U[n]]
  BY <1>2
<1> HIDE DEF U
<1>5. TableSaved(U, now)
  BY <1>3, <1>4 DEF TableSaved
<1>6. \A n \in ReportedRuns : T[n] # None => T[n].at \in Int /\ T[n].at <= now
  BY DEF TableSaved, RowSaved
<1>7. Later(T, U)
  <2> SUFFICES ASSUME NEW n \in ReportedRuns, T[n] # None
               PROVE  /\ U[n] # None /\ U[n].at >= T[n].at
                      /\ T[n].status # "pending" => U[n] = T[n]
    BY DEF Later
  <2>1. CASE n = k
    <3>1. U[n] = row
      BY <1>3, <2>1
    <3>2. row.at >= T[n].at
      BY <1>6
    <3> QED
      BY <2>1, <3>1, <3>2
  <2>2. CASE n # k
    <3>1. U[n] = T[n]
      BY <1>3, <2>2
    <3>2. T[n].at >= T[n].at
      BY <1>6
    <3> QED
      BY <3>1, <3>2
  <2> QED
    BY <2>1, <2>2
<1> QED
  BY <1>5, <1>7 DEF U

LEMMA CalmLost ==
    ASSUME NEW r, NEW kind, NEW span, NEW figures, NEW asked, NEW calm, NEW v,
           r = [kind |-> kind, span |-> span, figures |-> figures, asked |-> asked, calm |-> calm]
    PROVE  [r EXCEPT !.calm = v] =
             [kind |-> kind, span |-> span, figures |-> figures, asked |-> asked, calm |-> v]
OBVIOUS

LEMMA DisturbedSound ==
    ASSUME NEW r, NEW T, NEW U, NEW now, ReadingSound(r, T, now),
           TableSaved(T, now), TableSaved(U, now), Later(T, U)
    PROVE  ReadingSound([r EXCEPT !.calm = FALSE], U, now)
<1> DEFINE s == [r EXCEPT !.calm = FALSE]
<1>1. r = [kind |-> r.kind, span |-> r.span, figures |-> r.figures, asked |-> r.asked, calm |-> r.calm]
  BY DEF ReadingSound
<1>2. s = [kind |-> r.kind, span |-> r.span, figures |-> r.figures, asked |-> r.asked, calm |-> FALSE]
  <2> DEFINE kind == r.kind
             span == r.span
             figures == r.figures
             asked == r.asked
             calm == r.calm
             v == FALSE
  <2>1. r = [kind |-> kind, span |-> span, figures |-> figures, asked |-> asked, calm |-> calm]
    BY <1>1
  <2> HIDE DEF kind, span, figures, asked, calm, v
  <2>2. [r EXCEPT !.calm = v] = [kind |-> kind, span |-> span, figures |-> figures, asked |-> asked, calm |-> v]
    BY <2>1, CalmLost
  <2> QED
    BY <2>2 DEF kind, span, figures, asked, calm, v
<1>3. s.kind = r.kind /\ s.span = r.span /\ s.figures = r.figures /\ s.asked = r.asked /\ s.calm = FALSE
  BY <1>2
<1> HIDE DEF s
<1>4. Later(r.asked, U)
  <2>1. TableSaved(r.asked, now) /\ Later(r.asked, T)
    BY DEF ReadingSound
  <2> QED
    BY <2>1, LaterOrder
<1>5. ASSUME NEW i \in DOMAIN s.figures PROVE ReadFrom(s, i, U, now)
  <2>1. ReadFrom(r, i, T, now)
    BY <1>3, <1>5 DEF ReadingSound
  <2>2. PICK V, t : /\ r.figures[i] = Queried(Figures[r.kind][i], V, t, r.span)
                    /\ t \in Int /\ t <= now
                    /\ TableSaved(V, now) /\ Later(r.asked, V) /\ Later(V, T)
    BY <2>1 DEF ReadFrom
  <2>3. Later(V, U)
    BY <2>2, LaterOrder
  <2>4. /\ s.figures[i] = Queried(Figures[s.kind][i], V, t, s.span)
        /\ t \in Int /\ t <= now
        /\ TableSaved(V, now) /\ Later(s.asked, V) /\ Later(V, U)
        /\ s.calm => V = s.asked
    BY <1>3, <2>2, <2>3
  <2> QED
    BY <2>4 DEF ReadFrom
<1>6. /\ s = [kind |-> s.kind, span |-> s.span, figures |-> s.figures, asked |-> s.asked, calm |-> s.calm]
  BY <1>2, <1>3
<1>7. /\ SpanGiven(s.span) /\ (\E S : s.figures \in Seq(S)) /\ TableSaved(s.asked, now) /\ Later(s.asked, U)
      /\ s.calm => s.asked = U
  BY <1>3, <1>4 DEF ReadingSound
<1>8. ReadingSound(s, U, now)
  BY <1>5, <1>6, <1>7 DEF ReadingSound
<1> QED
  BY <1>8 DEF s

\* What each of the three saves comes to.
LEMMA SavedStep ==
    ASSUME AnalyticsInv, NEW k \in ReportedRuns, NEW status, NEW model, NEW cost, NEW review, NEW rework,
           SavedRow(status, model, cost, review, rework) \in SavedRows,
           status = "pending" => model = None,
           runTable[k] # None => runTable[k].status = "pending",
           runTable' = [runTable EXCEPT ![k] = SavedRow(status, model, cost, review, rework)],
           reading' = Disturbed, UNCHANGED hour
    PROVE  AnalyticsInv'
<1> DEFINE row == SavedRow(status, model, cost, review, rework)
<1>1. /\ hour \in Nat /\ TableSaved(runTable, hour)
      /\ reading # None => ReadingSound(reading, runTable, hour)
  BY DEF AnalyticsInv
<1>2. row = [status |-> status, model |-> model, cost |-> cost, review |-> review, rework |-> rework, at |-> hour]
  BY DEF SavedRow
<1>3. row # None
  BY AnalyticsAssumption
<1>4. cost \in Nat /\ review \in BOOLEAN /\ rework \in BOOLEAN
  BY <1>2 DEF SavedRows
<1>5. /\ row.status = status /\ row.model = model /\ row.cost = cost /\ row.review = review
      /\ row.rework = rework /\ row.at = hour
  BY <1>2
<1> HIDE DEF row
<1>6. RowSaved(row, hour)
  BY <1>1, <1>4, <1>5 DEF RowSaved
<1>7. runTable' = [runTable EXCEPT ![k] = row]
  BY DEF row
<1>8. TableSaved(runTable', hour) /\ Later(runTable, runTable')
  <2>1. hour \in Int /\ row # None /\ row.at = hour
    BY <1>1, <1>3, <1>5 DEF row
  <2>2. runTable[k] # None => runTable[k].status = "pending"
    OBVIOUS
  <2>3. TableSaved([runTable EXCEPT ![k] = row], hour) /\ Later(runTable, [runTable EXCEPT ![k] = row])
    BY <1>1, <1>6, <2>1, <2>2, SaveIsLater
  <2> QED
    BY <1>7, <2>3
<1>9. reading' # None => ReadingSound(reading', runTable', hour)
  <2>1. CASE reading = None
    BY <2>1 DEF Disturbed
  <2>2. CASE reading # None
    <3>1. reading' = [reading EXCEPT !.calm = FALSE]
      BY <2>2 DEF Disturbed
    <3>2. ReadingSound([reading EXCEPT !.calm = FALSE], runTable', hour)
      BY <1>1, <1>8, <2>2, DisturbedSound
    <3> QED
      BY <3>1, <3>2
  <2> QED
    BY <2>1, <2>2
<1>10. hour' = hour
  OBVIOUS
<1> QED
  BY <1>1, <1>8, <1>9, <1>10 DEF AnalyticsInv

LEMMA FigureAppended ==
    ASSUME NEW r, NEW kind, NEW span, NEW figures, NEW asked, NEW calm, NEW v,
           r = [kind |-> kind, span |-> span, figures |-> figures, asked |-> asked, calm |-> calm]
    PROVE  [r EXCEPT !.figures = Append(@, v)] =
             [kind |-> kind, span |-> span, figures |-> Append(figures, v), asked |-> asked, calm |-> calm]
OBVIOUS

LEMMA OneMore ==
    ASSUME NEW S, NEW s \in Seq(S), NEW v
    PROVE  /\ Append(s, v) \in Seq(S \cup {v})
           /\ Len(s) \in Nat /\ DOMAIN s = 1 .. Len(s) /\ DOMAIN Append(s, v) = 1 .. Len(s) + 1
           /\ \A i \in 1 .. Len(s) : Append(s, v)[i] = s[i]
           /\ Append(s, v)[Len(s) + 1] = v
<1> DEFINE R == S \cup {v}
<1>1. s \in Seq(R) /\ v \in R
  BY SeqMonotonic
<1> HIDE DEF R
<1>2. /\ Append(s, v) \in Seq(R) /\ Len(Append(s, v)) = Len(s) + 1
      /\ \A i \in 1 .. Len(s) : Append(s, v)[i] = s[i]
      /\ Append(s, v)[Len(s) + 1] = v
  BY <1>1, AppendProperties
<1>3. DOMAIN Append(s, v) = 1 .. Len(Append(s, v)) /\ DOMAIN s = 1 .. Len(s) /\ Len(s) \in Nat
  BY <1>1, <1>2, LenProperties
<1> QED
  BY <1>2, <1>3 DEF R

\* A query sees the table of its own moment.
LEMMA ReadSound ==
    ASSUME NEW r, NEW T, NEW now \in Int, TableSaved(T, now), ReadingSound(r, T, now)
    PROVE  ReadingSound([r EXCEPT !.figures = Append(@, Queried(Figures[r.kind][Len(r.figures) + 1], T, now, r.span))],
                        T, now)
<1> DEFINE kind == r.kind
           span == r.span
           figures == r.figures
           asked == r.asked
           calm == r.calm
           v == Queried(Figures[kind][Len(figures) + 1], T, now, span)
           s == [r EXCEPT !.figures = Append(@, v)]
           more == Append(figures, v)
<1>1. r = [kind |-> kind, span |-> span, figures |-> figures, asked |-> asked, calm |-> calm]
  BY DEF ReadingSound
<1>2. /\ SpanGiven(span) /\ TableSaved(asked, now) /\ Later(asked, T)
      /\ calm => asked = T
      /\ \A i \in DOMAIN figures : ReadFrom(r, i, T, now)
  BY DEF ReadingSound
<1>3. PICK S : figures \in Seq(S)
  BY DEF ReadingSound
<1> HIDE DEF v
<1>4. /\ more \in Seq(S \cup {v})
      /\ Len(figures) \in Nat /\ DOMAIN figures = 1 .. Len(figures) /\ DOMAIN more = 1 .. Len(figures) + 1
      /\ \A i \in 1 .. Len(figures) : more[i] = figures[i]
      /\ more[Len(figures) + 1] = v
  BY <1>3, OneMore
<1> HIDE DEF kind, span, figures, asked, calm
<1>5. s = [kind |-> kind, span |-> span, figures |-> more, asked |-> asked, calm |-> calm]
  BY <1>1, FigureAppended
<1> HIDE DEF s, more
<1>6. s.kind = kind /\ s.span = span /\ s.figures = more /\ s.asked = asked /\ s.calm = calm
  BY <1>5
<1>7. ASSUME NEW i \in DOMAIN s.figures PROVE ReadFrom(s, i, T, now)
  <2>1. CASE i \in 1 .. Len(figures)
    <3>1. ReadFrom(r, i, T, now)
      BY <1>2, <1>4, <2>1
    <3>2. PICK V, t : /\ figures[i] = Queried(Figures[kind][i], V, t, span)
                      /\ t \in Int /\ t <= now
                      /\ TableSaved(V, now) /\ Later(asked, V) /\ Later(V, T)
                      /\ calm => V = asked
      BY <3>1 DEF ReadFrom, kind, span, figures, asked, calm
    <3>3. more[i] = figures[i]
      BY <1>4, <2>1
    <3> QED
      BY <1>6, <3>2, <3>3 DEF ReadFrom
  <2>2. CASE i = Len(figures) + 1
    <3>1. s.figures[i] = Queried(Figures[s.kind][i], T, now, s.span)
      BY <1>4, <1>6, <2>2 DEF v
    <3>2. Later(T, T)
      BY LaterOrder
    <3>3. Later(s.asked, T) /\ (s.calm => T = s.asked)
      BY <1>2, <1>6
    <3>4. now <= now
      OBVIOUS
    <3> QED
      BY <3>1, <3>2, <3>3, <3>4 DEF ReadFrom
  <2>3. i \in 1 .. Len(figures) \/ i = Len(figures) + 1
    BY <1>4, <1>6
  <2> QED
    BY <2>1, <2>2, <2>3
<1>8. /\ s = [kind |-> s.kind, span |-> s.span, figures |-> s.figures, asked |-> s.asked, calm |-> s.calm]
  BY <1>5, <1>6
<1>9. /\ SpanGiven(s.span) /\ (\E R : s.figures \in Seq(R)) /\ TableSaved(s.asked, now) /\ Later(s.asked, T)
      /\ s.calm => s.asked = T
  BY <1>2, <1>4, <1>6
<1>10. ReadingSound(s, T, now)
  BY <1>7, <1>8, <1>9 DEF ReadingSound
<1> QED
  BY <1>10 DEF s, v, kind, span, figures

LEMMA AnalyticsStart == AnalyticsInit => AnalyticsInv
<1> SUFFICES ASSUME AnalyticsInit PROVE AnalyticsInv
  OBVIOUS
<1>1. runTable \in Histories /\ hour = FirstHour /\ reading = None /\ FirstHour \in Nat
  BY AnalyticsAssumption DEF AnalyticsInit
<1>2. /\ runTable = [k \in ReportedRuns |-> runTable[k]]
      /\ \A k \in ReportedRuns : runTable[k] # None => RowSaved(runTable[k], FirstHour)
  BY <1>1, AnalyticsAssumption DEF RowSaved
<1> QED
  BY <1>1, <1>2 DEF AnalyticsInv, TableSaved

LEMMA AnalyticsStep == AnalyticsInv /\ [AnalyticsNext]_analyticsVars => AnalyticsInv'
<1> SUFFICES ASSUME AnalyticsInv, [AnalyticsNext]_analyticsVars PROVE AnalyticsInv'
  OBVIOUS
<1>0. /\ hour \in Nat /\ TableSaved(runTable, hour)
      /\ reading # None => ReadingSound(reading, runTable, hour)
  BY DEF AnalyticsInv
<1>1. ASSUME NEW k \in ReportedRuns, BeginReported(k) PROVE AnalyticsInv'
  <2>1. SavedRow("pending", None, 0, FALSE, FALSE) \in SavedRows
    BY <1>0 DEF SavedRow, SavedRows
  <2>2. /\ runTable[k] = None /\ runTable' = [runTable EXCEPT ![k] = SavedRow("pending", None, 0, FALSE, FALSE)]
        /\ reading' = Disturbed /\ UNCHANGED hour
    BY <1>1 DEF BeginReported
  <2> QED
    BY <2>1, <2>2, SavedStep
<1>2. ASSUME NEW k \in ReportedRuns, NEW cost \in FirstCosts, NEW review \in BOOLEAN, NEW rework \in BOOLEAN,
             MarkReported(k, cost, review, rework)
      PROVE  AnalyticsInv'
  <2>1. /\ runTable[k].status = "pending"
        /\ runTable' = [runTable EXCEPT ![k] = SavedRow("pending", None, cost, review, rework)]
        /\ reading' = Disturbed /\ UNCHANGED hour
    BY <1>2 DEF MarkReported
  <2>2. cost \in Nat
    BY AnalyticsAssumption
  <2>3. SavedRow("pending", None, cost, review, rework) \in SavedRows
    BY <1>0, <2>2 DEF SavedRow, SavedRows
  <2> QED
    BY <2>1, <2>2, <2>3, SavedStep
<1>3. ASSUME NEW k \in ReportedRuns, NEW outcome \in Outcomes, NEW review \in BOOLEAN, NEW rework \in BOOLEAN,
             SettleReported(k, outcome, review, rework)
      PROVE  AnalyticsInv'
  <2> DEFINE status == outcome.status
             model == outcome.model
             cost == outcome.cost
  <2>1. /\ runTable[k].status = "pending"
        /\ runTable' = [runTable EXCEPT ![k] = SavedRow(status, model, cost, review, rework)]
        /\ reading' = Disturbed /\ UNCHANGED hour
    BY <1>3 DEF SettleReported
  <2>3. outcome.cost \in Nat /\ outcome.status # "pending"
    BY AnalyticsAssumption
  <2>4. SavedRow(outcome.status, outcome.model, outcome.cost, review, rework) \in SavedRows
    <3>1. outcome.status \in {o.status : o \in Outcomes} /\ outcome.model \in {o.model : o \in Outcomes}
      OBVIOUS
    <3> QED
      BY <1>0, <2>3, <3>1 DEF SavedRow, SavedRows
  <2>5. status = "pending" => model = None
    BY <2>3
  <2>6. SavedRow(status, model, cost, review, rework) \in SavedRows
    BY <2>4
  <2> HIDE DEF status, model, cost
  <2> QED
    BY <2>1, <2>5, <2>6, SavedStep
<1>4. CASE HourPasses
  <2>1. hour' = hour + 1 /\ runTable' = runTable /\ reading' = reading
    BY <1>4 DEF HourPasses
  <2>2. /\ \A T : TableSaved(T, hour) => TableSaved(T, hour + 1)
        /\ \A t \in Int : t <= hour => t <= hour + 1
    BY <1>0, RowStays
  <2>3. reading # None => ReadingSound(reading, runTable, hour + 1)
    BY <1>0, <2>2 DEF ReadingSound, ReadFrom
  <2>4. TableSaved(runTable, hour + 1)
    BY <1>0, <2>2
  <2> QED
    BY <1>0, <2>1, <2>3, <2>4 DEF AnalyticsInv
<1>5. ASSUME NEW kind \in DOMAIN Figures, NEW span \in SpansOf(kind), AskReport(kind, span) PROVE AnalyticsInv'
  <2> DEFINE r == [kind |-> kind, span |-> span, figures |-> <<>>, asked |-> runTable, calm |-> TRUE]
  <2>1. reading' = r /\ runTable' = runTable /\ hour' = hour
    BY <1>5 DEF AskReport
  <2>2. r.kind = kind /\ r.span = span /\ r.figures = <<>> /\ r.asked = runTable /\ r.calm = TRUE
    OBVIOUS
  <2>3. SpanGiven(span)
    <3>1. span \in Spans \/ span = AllTime \/ span = PeakSpan
      BY DEF SpansOf
    <3>2. PeakDays * DayHours \in Int
      BY AnalyticsAssumption
    <3>3. hour - PeakDays * DayHours \in Int
      BY <1>0, <3>2
    <3> QED
      BY <3>1, <3>3, AnalyticsAssumption DEF SpanGiven, AllTime, PeakSpan
  <2>4. Later(runTable, runTable)
    BY <1>0, LaterOrder
  <2>5. /\ r = [kind |-> r.kind, span |-> r.span, figures |-> r.figures, asked |-> r.asked, calm |-> r.calm]
    OBVIOUS
  <2>6. r.figures \in Seq({}) /\ DOMAIN r.figures = {}
    OBVIOUS
  <2> HIDE DEF r
  <2>7. ReadingSound(r, runTable, hour)
    BY <1>0, <2>2, <2>3, <2>4, <2>5, <2>6 DEF ReadingSound
  <2> QED
    BY <1>0, <2>1, <2>7 DEF AnalyticsInv
<1>6. CASE ReadFigure
  <2>1. /\ reading # None /\ runTable' = runTable /\ hour' = hour
        /\ reading' = [reading EXCEPT !.figures =
                         Append(@, Queried(Figures[reading.kind][Len(reading.figures) + 1], runTable, hour, reading.span))]
    BY <1>6 DEF ReadFigure
  <2>2. ReadingSound(reading', runTable, hour)
    BY <1>0, <2>1, ReadSound
  <2> QED
    BY <1>0, <2>1, <2>2 DEF AnalyticsInv
<1>7. CASE AnswerReport
  BY <1>0, <1>7 DEF AnswerReport, AnalyticsInv
<1>8. CASE UNCHANGED analyticsVars
  BY <1>0, <1>8 DEF analyticsVars, AnalyticsInv
<1> QED
  BY <1>1, <1>2, <1>3, <1>4, <1>5, <1>6, <1>7, <1>8 DEF AnalyticsNext

\* A figure of a report no run was saved during is one of the table it was asked for.
LEMMA CalmFigure ==
    ASSUME AnalyticsInv, reading # None, reading.calm, NEW i \in DOMAIN reading.figures
    PROVE  \E t \in Int : /\ t <= hour
                          /\ reading.figures[i] = Queried(Figures[reading.kind][i], runTable, t, reading.span)
BY DEF AnalyticsInv, ReadingSound, ReadFrom

LEMMA PictureIsOne == AnalyticsInv => OnePicture
<1>7. ASSUME AnalyticsInv, reading # None, reading.calm,
             NEW i \in FiguresOf("peak"), NEW j \in FiguresOf("by_hour")
      PROVE  LET peak == reading.figures[i]
                 hours == reading.figures[j] IN
             /\ \A h \in DOMAIN peak : h \in DOMAIN hours /\ peak[h] = hours[h]
             /\ \A h \in DOMAIN peak, g \in DOMAIN hours \ DOMAIN peak : hours[g].count <= peak[h].count
  <2>1. TableSaved(runTable, hour)
    BY <1>7 DEF AnalyticsInv
  <2>2. /\ i \in DOMAIN reading.figures /\ Figures[reading.kind][i] = "peak"
        /\ j \in DOMAIN reading.figures /\ Figures[reading.kind][j] = "by_hour"
    BY DEF FiguresOf
  <2>3. PICK t : reading.figures[i] = Queried("peak", runTable, t, reading.span)
    BY <1>7, <2>2, CalmFigure
  <2>4. PICK u : reading.figures[j] = Queried("by_hour", runTable, u, reading.span)
    BY <1>7, <2>2, CalmFigure
  <2> QED
    BY <2>1, <2>3, <2>4, PeakIsBusiest
<1> SUFFICES ASSUME AnalyticsInv, reading # None, reading.calm,
                    NEW i \in FiguresOf("total"), NEW j \in DOMAIN reading.figures
             PROVE  LET whole == reading.figures[i]
                        query == Figures[reading.kind][j]
                        part == reading.figures[j]
                    IN IF query \in Groupings
                       THEN /\ query \in {"by_status", "by_day"} => GroupSum(part) = whole.count
                            /\ query \in {"by_model", "trend"} => GroupSum(part) <= whole.count
                            /\ query = "trend" => RecentRuns <= GroupSum(part)
                       ELSE /\ part.count <= whole.count /\ part.cost <= whole.cost
                            /\ query = "total" => part = whole
                            /\ \A l \in FiguresOf("accepted"), e \in FiguresOf("escalated") :
                                 reading.figures[l].cost + reading.figures[e].cost <= whole.cost
  BY <1>7 DEF OnePicture
<1> DEFINE whole == reading.figures[i]
           query == Figures[reading.kind][j]
           part == reading.figures[j]
           span == reading.span
<1>1. TableSaved(runTable, hour) /\ hour \in Int
  BY DEF AnalyticsInv
<1>2. i \in DOMAIN reading.figures /\ Figures[reading.kind][i] = "total"
  BY DEF FiguresOf
<1>3. PICK when : whole = Queried("total", runTable, when, span)
  BY <1>2, CalmFigure
<1>4. PICK then \in Int : then <= hour /\ part = Queried(query, runTable, then, span)
  BY CalmFigure
<1>5. ASSUME NEW l \in FiguresOf("accepted"), NEW e \in FiguresOf("escalated")
      PROVE  reading.figures[l].cost + reading.figures[e].cost <= whole.cost
  <2>1. /\ l \in DOMAIN reading.figures /\ Figures[reading.kind][l] = "accepted"
        /\ e \in DOMAIN reading.figures /\ Figures[reading.kind][e] = "escalated"
    BY DEF FiguresOf
  <2>2. PICK t : reading.figures[l] = Queried("accepted", runTable, t, span)
    BY <2>1, CalmFigure
  <2>3. PICK u : reading.figures[e] = Queried("escalated", runTable, u, span)
    BY <2>1, CalmFigure
  <2> QED
    BY <1>1, <1>3, <2>2, <2>3, CostsApart
<1> HIDE DEF whole, query, part, span
<1>6. /\ query \in {"by_status", "by_day"} => GroupSum(part) = whole.count
      /\ query \in {"by_model", "trend"} => GroupSum(part) <= whole.count
      /\ query = "trend" => Cardinality({k \in RowsIn(runTable, span) : Recent(runTable[k], hour)}) <= GroupSum(part)
      /\ query \notin Groupings => part.count <= whole.count /\ part.cost <= whole.cost
      /\ query = "total" => part = whole
  BY <1>1, <1>3, <1>4, PartsOfWhole
<1> QED
  BY <1>5, <1>6 DEF whole, query, part, span, RecentRuns

LEMMA BracketKept == AnalyticsInv => FiguresBracketed
<1> SUFFICES ASSUME AnalyticsInv, reading # None, NEW i \in DOMAIN reading.figures
             PROVE  LET query == Figures[reading.kind][i]
                        figure == reading.figures[i]
                        before == Queried(query, reading.asked, hour, reading.span)
                        now == Queried(query, runTable, hour, reading.span)
                    IN /\ (query \in {"accepted", "escalated"}) =>
                            /\ before.count <= figure.count /\ figure.count <= now.count
                            /\ before.cost <= figure.cost /\ figure.cost <= now.cost
                       /\ (query = "total" /\ reading.span.to = None) =>
                            before.count <= figure.count /\ figure.count <= now.count
                       /\ (query = "by_model" /\ reading.span.to = None) =>
                            \A m \in DOMAIN figure : m \in DOMAIN now /\ figure[m].count <= now[m].count
  BY DEF FiguresBracketed
<1> DEFINE query == Figures[reading.kind][i]
           figure == reading.figures[i]
           span == reading.span
           A == reading.asked
           before == Queried(query, A, hour, span)
           now == Queried(query, runTable, hour, span)
<1>1. TableSaved(runTable, hour) /\ TableSaved(A, hour) /\ SpanGiven(span)
  BY DEF AnalyticsInv, ReadingSound
<1>2. PICK T, t : /\ figure = Queried(query, T, t, span)
                  /\ TableSaved(T, hour) /\ Later(A, T) /\ Later(T, runTable)
  BY DEF AnalyticsInv, ReadingSound, ReadFrom
<1> HIDE DEF query, figure, span, A
<1>3. /\ query \in {"accepted", "escalated"} => before.count <= figure.count /\ before.cost <= figure.cost
      /\ span.to = None /\ query = "total" => before.count <= figure.count
  BY <1>1, <1>2, FigureGrows
<1>4. /\ query \in {"accepted", "escalated"} => figure.count <= now.count /\ figure.cost <= now.cost
      /\ span.to = None /\ query = "total" => figure.count <= now.count
  BY <1>1, <1>2, FigureGrows
<1>5. query = "by_model" => \A m \in DOMAIN figure : m \in DOMAIN now /\ figure[m].count <= now[m].count
  BY <1>1, <1>2, ModelsGrow
<1> QED
  BY <1>3, <1>4, <1>5 DEF query, figure, span, A

LEMMA RankingSound == AnalyticsInv => RankedByTrueCost
<1> SUFFICES ASSUME AnalyticsInv, reading # None, NEW i \in FiguresOf("by_model")
             PROVE  \A m, n \in DOMAIN reading.figures[i] :
                      CheaperByFar(reading.figures[i][m], reading.figures[i][n]) =>
                        ModelRanking(reading.figures[i])[m] < ModelRanking(reading.figures[i])[n]
  BY DEF RankedByTrueCost
<1>1. i \in DOMAIN reading.figures /\ Figures[reading.kind][i] = "by_model"
  BY DEF FiguresOf
<1>2. PICK T, t : reading.figures[i] = Queried("by_model", T, t, reading.span) /\ TableSaved(T, hour)
  BY <1>1 DEF AnalyticsInv, ReadingSound, ReadFrom
<1> DEFINE groups == reading.figures[i]
<1> HIDE DEF groups
<1>3. groups = Queried("by_model", T, t, reading.span)
  BY <1>2 DEF groups
<1>4. /\ IsFiniteSet(DOMAIN groups)
      /\ \A m \in DOMAIN groups :
           /\ groups[m].count \in Nat /\ groups[m].count > 0 /\ groups[m].accepted \in Nat
           /\ groups[m].accepted <= groups[m].count /\ groups[m].cost \in Nat
  BY <1>2, <1>3, ModelsTyped
<1>5. \A m, n \in DOMAIN groups : CheaperByFar(groups[m], groups[n]) => ModelRanking(groups)[m] < ModelRanking(groups)[n]
  BY <1>4, CheaperRanksFirst
<1> QED
  BY <1>5 DEF groups

\* FiguresSound: whatever runs are saved between the queries of a report, its
\* figures are those of the tables the gateway had meanwhile.
THEOREM FiguresStaySound == AnalyticsSpec => []FiguresSound
<1>1. AnalyticsInv => FiguresSound
  BY PictureIsOne, BracketKept, RankingSound DEF FiguresSound
<1> QED
  BY <1>1, AnalyticsStart, AnalyticsStep, PTL DEF AnalyticsSpec

-----------------------------------------------------------------------------
(* ---- compression.  What messages and texts are.                       *)
\* A sum is no more than one whose terms are no less.
LEMMA SumBelow ==
    ASSUME NEW f, NEW g, NEW S, IsFiniteSet(S), \A i \in S : f[i] \in Nat /\ g[i] \in Nat /\ f[i] <= g[i]
    PROVE  SumFunctionOnSet(f, S) <= SumFunctionOnSet(g, S)
<1> DEFINE Bad == {T \in SUBSET S : ~(SumFunctionOnSet(f, T) <= SumFunctionOnSet(g, T))}
<1> SUFFICES ASSUME Bad # {} PROVE FALSE
  OBVIOUS
<1>0. Bad \in SUBSET (SUBSET S)
  OBVIOUS
<1> HIDE DEF Bad
<1>1. PICK T \in Bad : \A U \in SUBSET T : U # T => U \notin Bad
  BY <1>0, MinimalSubset
<1> USE DEF Bad
<1>2. T \in SUBSET S /\ ~(SumFunctionOnSet(f, T) <= SumFunctionOnSet(g, T)) /\ IsFiniteSet(T)
  BY FS_Subset
<1>3. T # {}
  <2> SUFFICES ASSUME T = {} PROVE FALSE
    OBVIOUS
  <2>1. SumFunctionOnSet(f, T) = 0 /\ SumFunctionOnSet(g, T) = 0
    BY SumEmpty
  <2> QED
    BY <1>2, <2>1
<1>4. PICK x \in T : TRUE
  BY <1>3
<1> DEFINE U == T \ {x}
           a == SumFunctionOnSet(f, U)
           b == SumFunctionOnSet(g, U)
<1>5. U \in SUBSET T /\ U # T /\ U \notin Bad /\ U \in SUBSET S /\ IsFiniteSet(U)
  BY <1>1, <1>2, <1>4, FS_Subset
<1>6. a <= b
  BY <1>5
<1>7. a \in Nat /\ b \in Nat
  BY <1>5, SumType
<1>8. SumFunctionOnSet(f, T) = f[x] + a /\ SumFunctionOnSet(g, T) = g[x] + b
  BY <1>2, <1>4, SumWithout
<1>9. f[x] \in Nat /\ g[x] \in Nat /\ f[x] <= g[x]
  BY <1>2, <1>4
<1> HIDE DEF a, b, U
<1> QED
  BY <1>2, <1>6, <1>7, <1>8, <1>9

LEMMA MaxIs ==
    ASSUME NEW S \in SUBSET Int, IsFiniteSet(S), S # {}
    PROVE  Max(S) \in S /\ \A y \in S : y <= Max(S)
<1>1. PICK x \in S : \A y \in S : y <= x
  BY HasGreatest
<1>2. \A y \in S : x >= y
  BY <1>1
<1>3. Max(S) \in S /\ \A y \in S : Max(S) >= y
  BY <1>2 DEF Max
<1> QED
  BY <1>3

LEMMA LastOfRoleIs ==
    ASSUME NEW A, NEW ms \in Seq(A), NEW R
    PROVE  LET u == LastOfRole(ms, R) IN
           /\ u \in Nat
           /\ \/ u = 0 /\ \A i \in DOMAIN ms : ms[i].role # R
              \/ u \in DOMAIN ms /\ ms[u].role = R /\ \A i \in DOMAIN ms : i > u => ms[i].role # R
<1> DEFINE S == {0} \cup {i \in DOMAIN ms : ms[i].role = R}
           u == LastOfRole(ms, R)
<1>1. DOMAIN ms = 1 .. Len(ms) /\ Len(ms) \in Nat
  BY LenProperties
<1>2. IsFiniteSet(0 .. Len(ms))
  <2>1. 0 \in Int /\ Len(ms) \in Int
    BY <1>1
  <2> QED
    BY <2>1, FS_Interval, Zenon
<1>3. S \in SUBSET (0 .. Len(ms)) /\ 0 \in S
  BY <1>1
<1>4. IsFiniteSet(S)
  BY <1>2, <1>3, FS_Subset
<1>5. S \in SUBSET Int /\ S # {}
  BY <1>1, <1>3
<1>6. u = Max(S)
  BY DEF LastOfRole
<1>7. u \in S /\ \A y \in S : y <= u
  <2> HIDE DEF S, u
  <2> QED
    BY <1>4, <1>5, <1>6, MaxIs
<1>8. u \in Nat
  BY <1>1, <1>7
<1> HIDE DEF u
<1>9. \A i \in DOMAIN ms : i > u => ms[i].role # R
  BY <1>1, <1>7, <1>8
<1>10. CASE u = 0
  BY <1>1, <1>8, <1>9, <1>10 DEF u
<1>11. CASE u # 0
  BY <1>7, <1>8, <1>9, <1>11 DEF u
<1> QED
  BY <1>10, <1>11

LEMMA LastOfRoleAt ==
    ASSUME NEW A, NEW ms \in Seq(A), NEW R, NEW i \in DOMAIN ms, ms[i].role = R,
           \A j \in DOMAIN ms : j > i => ms[j].role # R
    PROVE  LastOfRole(ms, R) = i /\ LastOfRole(ms, R) # 0
<1> DEFINE u == LastOfRole(ms, R)
<1>1. /\ u \in Nat
      /\ \/ u = 0 /\ \A j \in DOMAIN ms : ms[j].role # R
         \/ u \in DOMAIN ms /\ ms[u].role = R /\ \A j \in DOMAIN ms : j > u => ms[j].role # R
  BY LastOfRoleIs
<1>2. DOMAIN ms = 1 .. Len(ms) /\ Len(ms) \in Nat
  BY LenProperties
<1> HIDE DEF u
<1>3. u = i
  BY <1>1, <1>2
<1> QED
  BY <1>2, <1>3 DEF u

\* Sentences the strategies work on, and messages made of them.
Phrases ==
    {s \in [id : STRING \cup {"break"}, size : Nat, slack : Nat, terms : SUBSET STRING] : s.slack <= s.size}
Talk == [role : STRING, text : Seq(Phrases), tool : STRING \cup {NoTool}]

LEMMA Retyped ==
    ASSUME NEW A, NEW B, NEW s \in Seq(A), \A i \in DOMAIN s : s[i] \in B
    PROVE  s \in Seq(B)
<1>1. DOMAIN s = 1 .. Len(s) /\ Len(s) \in Nat /\ s \in [1 .. Len(s) -> A]
  BY LenProperties
<1>2. s \in [1 .. Len(s) -> B]
  BY <1>1
<1> QED
  BY <1>1, <1>2, SeqDef

LEMMA ConversationsTyped == Conversations \subseteq Seq(Talk)
<1> SUFFICES ASSUME NEW ms \in Conversations PROVE ms \in Seq(Talk)
  OBVIOUS
<1>1. /\ ms \in Seq(Messages)
      /\ \A i \in DOMAIN ms : \A j \in DOMAIN ms[i].text : ms[i].text[j].slack <= ms[i].text[j].size
  BY CompressAssumption
<1>2. ASSUME NEW i \in DOMAIN ms PROVE ms[i] \in Talk
  <2>1. ms[i] \in Messages
    BY <1>1, LenProperties, ElementOfSeq
  <2> DEFINE m == ms[i]
  <2>2. m \in [role : STRING, text : Seq(Sentences), tool : STRING \cup {NoTool}]
    BY <2>1 DEF Messages
  <2>3. \A j \in DOMAIN m.text : m.text[j].slack <= m.text[j].size
    BY <1>1
  <2> HIDE DEF m
  <2>4. m.text \in Seq(Sentences)
    BY <2>2
  <2>5. ASSUME NEW j \in DOMAIN m.text PROVE m.text[j] \in Phrases
    <3>1. m.text[j] \in Sentences
      BY <2>4, <2>5, LenProperties, ElementOfSeq
    <3> DEFINE s == m.text[j]
    <3>2. s \in [id : STRING, size : Nat, slack : Nat, terms : SUBSET STRING]
      BY <3>1 DEF Sentences
    <3>3. s.slack <= s.size
      BY <2>3, <2>5
    <3> HIDE DEF s
    <3>4. s \in Phrases
      BY <3>2, <3>3 DEF Phrases
    <3> QED
      BY <3>4 DEF s
  <2>6. m.text \in Seq(Phrases)
    BY <2>4, <2>5, Retyped
  <2>7. m \in Talk
    BY <2>2, <2>6 DEF Talk
  <2> QED
    BY <2>7 DEF m
<1> QED
  BY <1>1, <1>2, Retyped

LEMMA TalkIs ==
    ASSUME NEW ms \in Seq(Talk)
    PROVE  /\ DOMAIN ms = 1 .. Len(ms) /\ Len(ms) \in Nat
           /\ \A i \in DOMAIN ms : ms[i] \in Talk /\ ms[i].text \in Seq(Phrases)
<1>1. DOMAIN ms = 1 .. Len(ms) /\ Len(ms) \in Nat
  BY LenProperties
<1>2. \A i \in DOMAIN ms : ms[i] \in Talk
  BY <1>1, ElementOfSeq
<1>3. \A i \in DOMAIN ms : ms[i].text \in Seq(Phrases)
  BY <1>2 DEF Talk
<1> QED
  BY <1>1, <1>2, <1>3

LEMMA TextIs ==
    ASSUME NEW t \in Seq(Phrases)
    PROVE  /\ DOMAIN t = 1 .. Len(t) /\ Len(t) \in Nat /\ IsFiniteSet(DOMAIN t)
           /\ \A j \in DOMAIN t : /\ t[j] \in Phrases /\ t[j].size \in Nat /\ t[j].slack \in Nat
                                  /\ t[j].slack <= t[j].size
<1>1. DOMAIN t = 1 .. Len(t) /\ Len(t) \in Nat
  BY LenProperties
<1>2. \A j \in DOMAIN t : t[j] \in Phrases
  BY <1>1, ElementOfSeq
<1>3. \A s \in Phrases : s.size \in Nat /\ s.slack \in Nat /\ s.slack <= s.size
  BY DEF Phrases
<1>4. 1 \in Int /\ Len(t) \in Int
  BY <1>1
<1>5. IsFiniteSet(1 .. Len(t))
  BY <1>4, FS_Interval, Zenon
<1> QED
  BY <1>1, <1>2, <1>3, <1>5

LEMMA ShrunkIs ==
    ASSUME NEW s \in Phrases
    PROVE  /\ Shrunk(s) \in Phrases
           /\ Shrunk(s).id = s.id /\ Shrunk(s).size = s.size - s.slack /\ Shrunk(s).slack = 0
           /\ Shrunk(s).size <= s.size
           /\ Shrunk(Shrunk(s)) = Shrunk(s)
<1>1. /\ s \in [id : STRING \cup {"break"}, size : Nat, slack : Nat, terms : SUBSET STRING]
      /\ s.slack <= s.size
  BY DEF Phrases
<1> DEFINE r == [id |-> s.id, size |-> s.size - s.slack, slack |-> 0, terms |-> s.terms]
<1>2. Shrunk(s) = r
  BY <1>1 DEF Shrunk, Sentence
<1>3. r \in Phrases
  BY <1>1 DEF Phrases
<1>4. Shrunk(r) = r
  BY <1>1 DEF Shrunk, Sentence
<1> QED
  BY <1>1, <1>2, <1>3, <1>4

Tight(t) == [j \in DOMAIN t |-> Shrunk(t[j])]
IdsOf(t) == {t[j].id : j \in DOMAIN t}

LEMMA TightIs ==
    ASSUME NEW t \in Seq(Phrases)
    PROVE  /\ Tight(t) \in Seq(Phrases) /\ DOMAIN Tight(t) = DOMAIN t /\ Len(Tight(t)) = Len(t)
           /\ \A j \in DOMAIN t : Tight(t)[j] = Shrunk(t[j])
           /\ Tight(Tight(t)) = Tight(t)
           /\ IdsOf(Tight(t)) = IdsOf(t)
           /\ SizeOf(Tight(t)) <= SizeOf(t)
<1> DEFINE u == Tight(t)
<1>1. /\ DOMAIN t = 1 .. Len(t) /\ Len(t) \in Nat /\ IsFiniteSet(DOMAIN t)
      /\ \A j \in DOMAIN t : t[j] \in Phrases /\ t[j].size \in Nat
  BY TextIs
<1>2. u = [j \in 1 .. Len(t) |-> Shrunk(t[j])]
  BY <1>1 DEF Tight
<1>3. DOMAIN u = DOMAIN t /\ \A j \in DOMAIN t : u[j] = Shrunk(t[j])
  BY <1>1, <1>2
<1> HIDE DEF u
<1>4. \A j \in DOMAIN t : /\ u[j] \in Phrases /\ u[j].id = t[j].id /\ u[j].size <= t[j].size
                          /\ Shrunk(u[j]) = u[j]
  BY <1>1, <1>3, ShrunkIs
<1>5. u \in [1 .. Len(t) -> Phrases]
  BY <1>1, <1>2, <1>4
<1>6. u \in Seq(Phrases)
  BY <1>1, <1>5, SeqDef
<1>7. Len(u) = Len(t)
  BY <1>1, <1>3, <1>6, LenProperties
<1>8. Tight(u) = u
  <2>1. Tight(u) = [j \in 1 .. Len(t) |-> Shrunk(u[j])]
    BY <1>1, <1>3 DEF Tight
  <2>2. Tight(u) = [j \in 1 .. Len(t) |-> u[j]]
    BY <1>1, <1>4, <2>1
  <2> QED
    BY <1>5, <2>2
<1>9. IdsOf(u) = IdsOf(t)
  BY <1>3, <1>4 DEF IdsOf
<1>10. SizeOf(u) <= SizeOf(t)
  <2> DEFINE f == [j \in DOMAIN u |-> u[j].size]
             g == [j \in DOMAIN t |-> t[j].size]
             S == DOMAIN t
  <2>1. DOMAIN f = S /\ DOMAIN g = S
    BY <1>3
  <2>2. \A j \in S : f[j] \in Nat /\ g[j] \in Nat /\ f[j] <= g[j]
    <3>1. \A j \in S : u[j].size \in Nat
      BY <1>3, <1>6, TextIs
    <3> QED
      BY <1>1, <1>3, <1>4, <3>1
  <2>3. SizeOf(u) = SumFunction(f) /\ SizeOf(t) = SumFunction(g)
    BY DEF SizeOf
  <2>4. IsFiniteSet(S)
    BY <1>1
  <2> HIDE DEF f, g, S
  <2>5. SumFunction(f) = SumFunctionOnSet(f, S) /\ SumFunction(g) = SumFunctionOnSet(g, S)
    BY <2>1, SumOfDomain
  <2>6. SumFunctionOnSet(f, S) <= SumFunctionOnSet(g, S)
    BY <2>2, <2>4, SumBelow
  <2> QED
    BY <2>3, <2>5, <2>6
<1> QED
  BY <1>3, <1>6, <1>7, <1>8, <1>9, <1>10 DEF u

LEMMA SizeTyped ==
    ASSUME NEW t \in Seq(Phrases)
    PROVE  SizeOf(t) \in Nat
<1> DEFINE f == [j \in DOMAIN t |-> t[j].size]
<1>1. IsFiniteSet(DOMAIN t) /\ \A j \in DOMAIN t : t[j].size \in Nat
  BY TextIs
<1>2. DOMAIN f = DOMAIN t /\ \A j \in DOMAIN t : f[j] \in Nat
  BY <1>1
<1>3. SizeOf(t) = SumFunction(f)
  BY DEF SizeOf
<1> HIDE DEF f
<1> QED
  BY <1>1, <1>2, <1>3, SumOfDomain, SumType

LEMMA CollapsedIs ==
    ASSUME NEW m \in Talk
    PROVE  /\ Collapsed(m) \in Talk
           /\ Collapsed(m).role = m.role /\ Collapsed(m).tool = m.tool /\ Collapsed(m).text = Tight(m.text)
           /\ Collapsed(Collapsed(m)) = Collapsed(m)
<1>1. m \in [role : STRING, text : Seq(Phrases), tool : STRING \cup {NoTool}]
  BY DEF Talk
<1>2. m.text \in Seq(Phrases)
  BY <1>1
<1>3. Tight(m.text) \in Seq(Phrases) /\ Tight(Tight(m.text)) = Tight(m.text)
  BY <1>2, TightIs
<1>4. \A n : Collapsed(n) = [n EXCEPT !.text = Tight(n.text)]
  BY DEF Collapsed, Tight
<1> DEFINE c == [role |-> m.role, text |-> Tight(m.text), tool |-> m.tool]
<1>5. Collapsed(m) = c
  BY <1>1, <1>4
<1>6. c \in Talk
  BY <1>1, <1>3 DEF Talk
<1>7. Collapsed(c) = c
  <2>1. Collapsed(c) = [c EXCEPT !.text = Tight(c.text)]
    BY <1>4
  <2>2. c.text = Tight(m.text)
    OBVIOUS
  <2>3. Tight(c.text) = Tight(m.text)
    BY <1>3, <2>2
  <2> QED
    BY <2>1, <2>3
<1> QED
  BY <1>5, <1>6, <1>7

LEMMA CollapsedAllIs ==
    ASSUME NEW ms \in Seq(Talk)
    PROVE  /\ CollapsedAll(ms) \in Seq(Talk) /\ DOMAIN CollapsedAll(ms) = DOMAIN ms
           /\ \A i \in DOMAIN ms : /\ CollapsedAll(ms)[i] = Collapsed(ms[i])
                                   /\ CollapsedAll(ms)[i].role = ms[i].role
                                   /\ CollapsedAll(ms)[i].text = Tight(ms[i].text)
<1>1. /\ DOMAIN ms = 1 .. Len(ms) /\ Len(ms) \in Nat
      /\ \A i \in DOMAIN ms : ms[i] \in Talk
  BY TalkIs
<1>2. CollapsedAll(ms) = [i \in 1 .. Len(ms) |-> Collapsed(ms[i])]
  BY <1>1 DEF CollapsedAll
<1>3. \A i \in DOMAIN ms : Collapsed(ms[i]) \in Talk /\ Collapsed(ms[i]).role = ms[i].role
                           /\ Collapsed(ms[i]).text = Tight(ms[i].text)
  BY <1>1, CollapsedIs
<1>4. CollapsedAll(ms) \in [1 .. Len(ms) -> Talk]
  BY <1>1, <1>2, <1>3
<1>5. CollapsedAll(ms) \in Seq(Talk)
  BY <1>1, <1>4, SeqDef
<1> QED
  BY <1>1, <1>2, <1>3, <1>5

\* What dedup leaves of the caller's messages differs from them in blanks alone.
LEMMA LeftBehindIs ==
    ASSUME NEW ms \in Seq(Talk), NEW strategy
    PROVE  LET now == LeftBehind(ms, strategy) IN
           /\ now \in Seq(Talk) /\ DOMAIN now = DOMAIN ms
           /\ \A i \in DOMAIN ms : now[i] = ms[i] \/ now[i] = Collapsed(ms[i])
           /\ CollapsedAll(now) = CollapsedAll(ms)
           /\ strategy \notin {"dedup", "auto"} => now = ms
<1> DEFINE now == LeftBehind(ms, strategy)
<1>1. /\ DOMAIN ms = 1 .. Len(ms) /\ Len(ms) \in Nat
      /\ \A i \in DOMAIN ms : ms[i] \in Talk
  BY TalkIs
<1>2. DOMAIN now = DOMAIN ms /\ \A i \in DOMAIN ms : now[i] = ms[i] \/ now[i] = Collapsed(ms[i])
  BY DEF LeftBehind
<1>3. strategy \notin {"dedup", "auto"} => now = ms
  BY DEF LeftBehind
<1>4. \A i \in DOMAIN ms : now[i] \in Talk /\ Collapsed(now[i]) = Collapsed(ms[i])
  BY <1>1, <1>2, CollapsedIs
<1>5. now = [i \in 1 .. Len(ms) |-> now[i]]
  <2>1. CASE strategy \notin {"dedup", "auto"}
    BY <1>1, <1>3, <2>1, LenProperties
  <2>2. CASE strategy \in {"dedup", "auto"}
    BY <1>1, <2>2 DEF LeftBehind
  <2> QED
    BY <2>1, <2>2
<1> HIDE DEF now
<1>6. now \in [1 .. Len(ms) -> Talk]
  BY <1>1, <1>4, <1>5
<1>7. now \in Seq(Talk)
  BY <1>1, <1>6, SeqDef
<1>8. CollapsedAll(now) = CollapsedAll(ms)
  BY <1>2, <1>4 DEF CollapsedAll
<1> QED
  BY <1>2, <1>3, <1>7, <1>8 DEF now

-----------------------------------------------------------------------------
(* ---- the end of a text, and conversations that carry another's last messages.*)
\* u is the end of t.
EndsWith(t, u) == Len(u) <= Len(t) /\ \A j \in 1 .. Len(u) : t[Len(t) - Len(u) + j] = u[j]

LEMMA EndsRefl == ASSUME NEW t \in Seq(Phrases) PROVE EndsWith(t, t)
<1>1. Len(t) \in Nat
  BY TextIs
<1>2. \A j \in 1 .. Len(t) : Len(t) - Len(t) + j = j
  BY <1>1
<1> QED
  BY <1>1, <1>2 DEF EndsWith

LEMMA EndsTrans ==
    ASSUME NEW t \in Seq(Phrases), NEW u \in Seq(Phrases), NEW v \in Seq(Phrases),
           EndsWith(t, u), EndsWith(u, v)
    PROVE  EndsWith(t, v)
<1> DEFINE a == Len(t)
           b == Len(u)
           c == Len(v)
<1>1. a \in Nat /\ b \in Nat /\ c \in Nat
  BY TextIs
<1>2. b <= a /\ c <= b
  BY DEF EndsWith
<1>3. \A j \in 1 .. b : t[a - b + j] = u[j]
  BY DEF EndsWith
<1>4. \A j \in 1 .. c : u[b - c + j] = v[j]
  BY DEF EndsWith
<1> HIDE DEF a, b, c
<1>5. ASSUME NEW j \in 1 .. c PROVE t[a - c + j] = v[j]
  <2>1. b - c + j \in 1 .. b
    BY <1>1, <1>2
  <2>2. t[a - b + (b - c + j)] = u[b - c + j]
    BY <1>3, <2>1
  <2>3. a - b + (b - c + j) = a - c + j
    BY <1>1
  <2>4. u[b - c + j] = v[j]
    BY <1>4
  <2> QED
    BY <2>2, <2>3, <2>4
<1>6. c <= a
  BY <1>1, <1>2
<1> QED
  BY <1>5, <1>6 DEF EndsWith, a, c

LEMMA EndsIds ==
    ASSUME NEW t \in Seq(Phrases), NEW u \in Seq(Phrases), EndsWith(t, u)
    PROVE  IdsOf(u) \subseteq IdsOf(t)
<1>1. DOMAIN t = 1 .. Len(t) /\ DOMAIN u = 1 .. Len(u) /\ Len(t) \in Nat /\ Len(u) \in Nat
  BY TextIs
<1>2. ASSUME NEW j \in DOMAIN u PROVE u[j].id \in IdsOf(t)
  <2>1. Len(t) - Len(u) + j \in DOMAIN t /\ t[Len(t) - Len(u) + j] = u[j]
    BY <1>1 DEF EndsWith
  <2> QED
    BY <2>1 DEF IdsOf
<1> QED
  BY <1>2 DEF IdsOf

LEMMA EndsTight ==
    ASSUME NEW t \in Seq(Phrases), NEW u \in Seq(Phrases), EndsWith(t, u)
    PROVE  EndsWith(Tight(t), Tight(u))
<1> DEFINE a == Len(t)
           b == Len(u)
<1>1. /\ DOMAIN t = 1 .. a /\ DOMAIN u = 1 .. b /\ a \in Nat /\ b \in Nat /\ b <= a
      /\ \A j \in 1 .. b : t[a - b + j] = u[j]
  BY TextIs DEF EndsWith
<1>2. /\ Len(Tight(t)) = a /\ Len(Tight(u)) = b
      /\ \A j \in DOMAIN t : Tight(t)[j] = Shrunk(t[j])
      /\ \A j \in DOMAIN u : Tight(u)[j] = Shrunk(u[j])
  BY TightIs
<1> HIDE DEF a, b
<1>3. ASSUME NEW j \in 1 .. b PROVE Tight(t)[a - b + j] = Tight(u)[j]
  <2>1. a - b + j \in DOMAIN t /\ j \in DOMAIN u
    BY <1>1
  <2> QED
    BY <1>1, <1>2, <2>1
<1> QED
  BY <1>1, <1>2, <1>3 DEF EndsWith

LEMMA BreakIs == Break \in Phrases
BY DEF Break, Sentence, Phrases

LEMMA JoinedIs ==
    ASSUME NEW a \in Seq(Phrases), NEW b \in Seq(Phrases)
    PROVE  Joined(a, b) \in Seq(Phrases) /\ EndsWith(Joined(a, b), b)
<1> DEFINE h == IF a # <<>> /\ Last(a) = Break THEN a ELSE Append(a, Break)
<1>1. h \in Seq(Phrases)
  BY BreakIs, AppendProperties
<1>2. Joined(a, b) = h \o b
  BY DEF Joined
<1> HIDE DEF h
<1>3. /\ h \o b \in Seq(Phrases) /\ Len(h \o b) = Len(h) + Len(b)
      /\ \A i \in 1 .. Len(h) + Len(b) : (h \o b)[i] = IF i <= Len(h) THEN h[i] ELSE b[i - Len(h)]
  BY <1>1, ConcatProperties
<1>4. Len(h) \in Nat /\ Len(b) \in Nat
  BY <1>1, TextIs
<1> DEFINE t == h \o b
<1> HIDE DEF t
<1>5. ASSUME NEW j \in 1 .. Len(b) PROVE t[Len(t) - Len(b) + j] = b[j]
  <2>1. Len(t) - Len(b) + j = Len(h) + j
    BY <1>3, <1>4 DEF t
  <2>2. Len(h) + j \in 1 .. Len(h) + Len(b) /\ ~(Len(h) + j <= Len(h)) /\ Len(h) + j - Len(h) = j
    BY <1>4
  <2>3. t[Len(h) + j] = b[j]
    BY <1>3, <2>2 DEF t
  <2> QED
    BY <2>1, <2>3
<1>6. Len(b) <= Len(t)
  BY <1>3, <1>4 DEF t
<1>7. EndsWith(t, b)
  BY <1>5, <1>6 DEF EndsWith
<1> QED
  BY <1>2, <1>3, <1>7 DEF t

\* No message of its role follows the u-th among the first k.
LastAt(ms, k, u) == u \in 1 .. k /\ \A i \in 1 .. k : i > u => ms[i].role # ms[u].role
\* The last message of a role among the first k is the end of the last one of that role in out.
KeptTo(ms, k, out) ==
    \A u \in 1 .. k : LastAt(ms, k, u) =>
        \E v \in 1 .. Len(out) : /\ LastAt(out, Len(out), v) /\ out[v].role = ms[u].role
                                 /\ EndsWith(out[v].text, ms[u].text)
Carried(ms, out) == KeptTo(ms, Len(ms), out)

LEMMA CarriedTrans ==
    ASSUME NEW A \in Seq(Talk), NEW B \in Seq(Talk), NEW C \in Seq(Talk), Carried(A, B), Carried(B, C)
    PROVE  Carried(A, C)
<1> SUFFICES ASSUME NEW u \in 1 .. Len(A), LastAt(A, Len(A), u)
             PROVE  \E v \in 1 .. Len(C) : /\ LastAt(C, Len(C), v) /\ C[v].role = A[u].role
                                           /\ EndsWith(C[v].text, A[u].text)
  BY DEF Carried, KeptTo
<1>1. PICK w \in 1 .. Len(B) : LastAt(B, Len(B), w) /\ B[w].role = A[u].role /\ EndsWith(B[w].text, A[u].text)
  BY DEF Carried, KeptTo
<1>2. PICK v \in 1 .. Len(C) : LastAt(C, Len(C), v) /\ C[v].role = B[w].role /\ EndsWith(C[v].text, B[w].text)
  BY <1>1 DEF Carried, KeptTo
<1>3. A[u].text \in Seq(Phrases) /\ B[w].text \in Seq(Phrases) /\ C[v].text \in Seq(Phrases)
  BY TalkIs
<1>4. EndsWith(C[v].text, A[u].text)
  BY <1>1, <1>2, <1>3, EndsTrans
<1> QED
  BY <1>1, <1>2, <1>4

LEMMA MergeIs ==
    ASSUME NEW done \in Seq(Talk), NEW m \in Talk
    PROVE  LET out == Merge(done, m) IN
           /\ out \in Seq(Talk) /\ Len(out) \in Nat \ {0}
           /\ out[Len(out)].role = m.role /\ EndsWith(out[Len(out)].text, m.text)
           /\ \A i \in 1 .. Len(out) - 1 : i <= Len(done) /\ out[i] = done[i]
           /\ \A i \in 1 .. Len(done) : i >= Len(out) => done[i].role = m.role
<1> DEFINE out == Merge(done, m)
           n == Len(done)
<1>0. n \in Nat /\ DOMAIN done = 1 .. n /\ \A i \in 1 .. n : done[i] \in Talk /\ done[i].text \in Seq(Phrases)
  BY TalkIs
<1>1. m \in [role : STRING, text : Seq(Phrases), tool : STRING \cup {NoTool}]
  BY DEF Talk
<1>2. CASE done # <<>> /\ Last(done).role = m.role
  <2> DEFINE j == [role |-> m.role, text |-> Joined(done[n].text, m.text), tool |-> NoTool]
  <2>1. n \in 1 .. n /\ done[n].role = m.role
    BY <1>0, <1>2, EmptySeq DEF Last
  <2>2. out = [done EXCEPT ![n] = j]
    BY <1>2 DEF Merge
  <2>3. Joined(done[n].text, m.text) \in Seq(Phrases) /\ EndsWith(Joined(done[n].text, m.text), m.text)
    BY <1>0, <1>1, <2>1, JoinedIs
  <2>4. j \in Talk
    BY <1>1, <2>3 DEF Talk
  <2>5. j.role = m.role /\ EndsWith(j.text, m.text)
    BY <2>3
  <2> HIDE DEF j, n, out
  <2>6. out \in Seq(Talk) /\ Len(out) = n /\ \A i \in 1 .. n : out[i] = IF i = n THEN j ELSE done[i]
    BY <1>0, <2>1, <2>2, <2>4, ExceptSeq DEF n
  <2>7. \A i \in 1 .. n - 1 : i <= n /\ i # n /\ i \in 1 .. n
    BY <1>0
  <2>8. \A i \in 1 .. n : i >= n => i = n
    BY <1>0
  <2>9. \A i \in 1 .. Len(out) - 1 : i <= n /\ out[i] = done[i]
    BY <2>6, <2>7
  <2>10. \A i \in 1 .. n : i >= Len(out) => done[i].role = m.role
    BY <2>1, <2>6, <2>8
  <2>11. Len(out) \in Nat \ {0} /\ out[Len(out)] = j
    BY <1>0, <2>1, <2>6
  <2> QED
    BY <2>5, <2>6, <2>9, <2>10, <2>11 DEF n, out
<1>3. CASE ~(done # <<>> /\ Last(done).role = m.role)
  <2>2. out = Append(done, m)
    BY <1>3 DEF Merge
  <2> HIDE DEF n, out
  <2>3. out \in Seq(Talk) /\ Len(out) = n + 1 /\ (\A i \in 1 .. n : out[i] = done[i]) /\ out[n + 1] = m
    BY <2>2, AppendProperties DEF n
  <2>4. EndsWith(m.text, m.text)
    BY <1>1, EndsRefl
  <2>5. \A i \in 1 .. Len(out) - 1 : i <= n /\ out[i] = done[i]
    BY <1>0, <2>3
  <2>6. \A i \in 1 .. n : ~(i >= Len(out))
    BY <1>0, <2>3
  <2>7. Len(out) \in Nat \ {0} /\ out[Len(out)] = m
    BY <1>0, <2>3
  <2> QED
    BY <2>3, <2>4, <2>5, <2>6, <2>7 DEF n, out
<1> QED
  BY <1>2, <1>3

LEMMA MergeCarries ==
    ASSUME NEW ms \in Seq(Talk), NEW k \in 1 .. Len(ms), NEW done \in Seq(Talk), KeptTo(ms, k - 1, done)
    PROVE  Merge(done, ms[k]) \in Seq(Talk) /\ KeptTo(ms, k, Merge(done, ms[k]))
<1> DEFINE m == ms[k]
           out == Merge(done, m)
           n == Len(out)
<1>0. Len(ms) \in Nat /\ k \in Nat /\ m \in Talk /\ Len(done) \in Nat
  BY TalkIs
<1>1. /\ out \in Seq(Talk) /\ n \in Nat \ {0}
      /\ out[n].role = m.role /\ EndsWith(out[n].text, m.text)
      /\ \A i \in 1 .. n - 1 : i <= Len(done) /\ out[i] = done[i]
      /\ \A i \in 1 .. Len(done) : i >= n => done[i].role = m.role
  BY <1>0, MergeIs
<1> HIDE DEF out
<1>2. SUFFICES ASSUME NEW u \in 1 .. k, LastAt(ms, k, u)
               PROVE  \E v \in 1 .. n : /\ LastAt(out, n, v) /\ out[v].role = ms[u].role
                                        /\ EndsWith(out[v].text, ms[u].text)
  BY <1>1 DEF KeptTo, out
<1> HIDE DEF n
<1>3. CASE u = k
  <2>1. n \in 1 .. n /\ \A i \in 1 .. n : ~(i > n)
    BY <1>1
  <2>2. LastAt(out, n, n)
    BY <2>1 DEF LastAt
  <2> QED
    BY <1>1, <1>3, <2>1, <2>2
<1>4. CASE u # k
  <2>1. u \in 1 .. k - 1 /\ k \in 1 .. k /\ k > u /\ \A i \in 1 .. k - 1 : i \in 1 .. k
    BY <1>0, <1>4
  <2>2. m.role # ms[u].role
    BY <1>2, <2>1 DEF LastAt
  <2>3. LastAt(ms, k - 1, u)
    BY <1>2, <2>1 DEF LastAt
  <2>4. PICK v \in 1 .. Len(done) : /\ LastAt(done, Len(done), v) /\ done[v].role = ms[u].role
                                    /\ EndsWith(done[v].text, ms[u].text)
    BY <2>1, <2>3 DEF KeptTo
  <2>5. ~(v >= n)
    BY <1>1, <2>2, <2>4
  <2>6. v \in 1 .. n - 1 /\ v \in 1 .. n
    BY <1>0, <1>1, <2>5
  <2>7. out[v] = done[v]
    BY <1>1, <2>6
  <2>8. ASSUME NEW i \in 1 .. n, i > v PROVE out[i].role # out[v].role
    <3>1. CASE i = n
      BY <1>1, <2>2, <2>4, <2>7, <3>1
    <3>2. CASE i # n
      <4>1. i \in 1 .. n - 1
        BY <1>1, <3>2
      <4>2. out[i] = done[i] /\ i \in 1 .. Len(done)
        BY <1>0, <1>1, <4>1
      <4> QED
        BY <2>4, <2>7, <2>8, <4>2 DEF LastAt
    <3> QED
      BY <3>1, <3>2
  <2>9. LastAt(out, n, v)
    BY <2>6, <2>8 DEF LastAt
  <2> QED
    BY <2>4, <2>6, <2>7, <2>9
<1> QED
  BY <1>3, <1>4

-----------------------------------------------------------------------------
(* ---- dedup.                                                           *)
\* A set of numbers up to n has a least one.
LEMMA HasLeast ==
    ASSUME NEW n \in Nat, NEW S \in SUBSET (0 .. n), S # {}
    PROVE  \E x \in S : \A y \in S : x <= y
<1> DEFINE f == [x \in S |-> 0 - x]
           T == {f[x] : x \in S}
<1>1. IsFiniteSet(S)
  <2>1. 0 \in Int /\ n \in Int
    OBVIOUS
  <2>2. IsFiniteSet(0 .. n)
    BY <2>1, FS_Interval, Zenon
  <2> QED
    BY <2>2, FS_Subset
<1>2. \A x \in S : x \in Int /\ f[x] = 0 - x
  OBVIOUS
<1> HIDE DEF f
<1>3. IsFiniteSet(T)
  BY <1>1, ImageFinite
<1>4. T \in SUBSET Int /\ T # {}
  <2>1. \A x \in S : f[x] \in Int
    BY <1>2
  <2>2. \A t \in T : t \in Int
    BY <2>1
  <2>3. PICK x \in S : TRUE
    OBVIOUS
  <2>4. f[x] \in T
    BY <2>3
  <2> QED
    BY <2>2, <2>4
<1>5. PICK t \in T : \A y \in T : y <= t
  <2> HIDE DEF T
  <2> QED
    BY <1>3, <1>4, HasGreatest
<1>6. PICK x \in S : t = f[x]
  OBVIOUS
<1>7. \A y \in S : f[y] <= f[x]
  BY <1>5, <1>6
<1>8. \A y \in S : x <= y
  BY <1>2, <1>7
<1> QED
  BY <1>8

\* f lists the messages merged so far, up to the k-th.
Merging(f, ms, k) == f = [i \in 0 .. k |-> IF i = 0 THEN <<>> ELSE Merge(f[i - 1], ms[i])]

LEMMA MergingExists ==
    ASSUME NEW ms, NEW n \in Nat
    PROVE  \E f : Merging(f, ms, n)
<1> DEFINE Bad == {k \in 0 .. n : ~\E f : Merging(f, ms, k)}
<1> SUFFICES ASSUME Bad # {} PROVE FALSE
  <2>1. Bad = {} /\ n \in 0 .. n => \E f : Merging(f, ms, n)
    OBVIOUS
  <2> QED
    BY <2>1
<1>1. PICK k \in Bad : \A l \in Bad : k <= l
  <2>1. Bad \in SUBSET (0 .. n)
    OBVIOUS
  <2> HIDE DEF Bad
  <2> QED
    BY <2>1, HasLeast
<1>2. k \in 0 .. n /\ ~\E f : Merging(f, ms, k)
  BY <1>1
<1>3. CASE k = 0
  <2> DEFINE f == [i \in 0 .. k |-> <<>>]
  <2>1. f = [i \in 0 .. k |-> IF i = 0 THEN <<>> ELSE Merge(f[i - 1], ms[i])]
    BY <1>3
  <2> QED
    BY <1>2, <2>1 DEF Merging
<1>4. CASE k # 0
  <2>1. k - 1 \in 0 .. n /\ ~(k <= k - 1)
    BY <1>2, <1>4
  <2>2. k - 1 \notin Bad
    BY <1>1, <2>1
  <2>3. PICK f : Merging(f, ms, k - 1)
    BY <2>1, <2>2
  <2> DEFINE G(F, i) == IF i = 0 THEN <<>> ELSE Merge(F[i - 1], ms[i])
  <2>4. f = [i \in 0 .. k - 1 |-> G(f, i)]
    BY <2>3 DEF Merging
  <2>5. \A i \in 0 .. k - 1 : f[i] = G(f, i)
    BY <2>4
  <2> DEFINE g == [i \in 0 .. k |-> IF i = k THEN G(f, k) ELSE f[i]]
  <2>6. \A i \in 0 .. k - 1 : g[i] = f[i]
    <3>1. \A i \in 0 .. k - 1 : i \in 0 .. k /\ i # k
      BY <1>2
    <3> HIDE DEF G
    <3> QED
      BY <3>1
  <2>7. g[k] = G(f, k)
    <3>1. k \in 0 .. k
      BY <1>2
    <3> HIDE DEF G
    <3> QED
      BY <3>1
  <2>8. g = [i \in 0 .. k |-> g[i]]
    OBVIOUS
  <2> HIDE DEF g
  <2>9. \A i \in 0 .. k : i # 0 => i - 1 \in 0 .. k - 1
    BY <1>2
  <2>10. \A i \in 0 .. k : i # k => i \in 0 .. k - 1
    BY <1>2
  <2>11. \A i \in 0 .. k : g[i] = G(g, i)
    <3> SUFFICES ASSUME NEW i \in 0 .. k PROVE g[i] = G(g, i)
      OBVIOUS
    <3>1. G(g, i) = G(f, i)
      BY <2>6, <2>9
    <3>2. g[i] = G(f, i)
      BY <2>5, <2>6, <2>7, <2>10
    <3> HIDE DEF G
    <3> QED
      BY <3>1, <3>2
  <2>12. g = [i \in 0 .. k |-> G(g, i)]
    <3> HIDE DEF G
    <3> QED
      BY <2>8, <2>11
  <2>13. Merging(g, ms, k)
    BY <2>12 DEF Merging
  <2> QED
    BY <1>2, <2>13
<1> QED
  BY <1>3, <1>4

LEMMA MergedCarries ==
    ASSUME NEW ms \in Seq(Talk)
    PROVE  Merged(ms) \in Seq(Talk) /\ Carried(ms, Merged(ms))
<1> DEFINE n == Len(ms)
           done == CHOOSE f : Merging(f, ms, n)
<1>0. n \in Nat
  BY TalkIs
<1>1. Merged(ms) = done[n]
  BY DEF Merged, Merging
<1>2. Merging(done, ms, n)
  BY <1>0, MergingExists
<1> HIDE DEF done
<1>3. \A i \in 0 .. n : done[i] = IF i = 0 THEN <<>> ELSE Merge(done[i - 1], ms[i])
  <2> DEFINE G(i) == IF i = 0 THEN <<>> ELSE Merge(done[i - 1], ms[i])
  <2>1. done = [i \in 0 .. n |-> G(i)]
    BY <1>2 DEF Merging
  <2> HIDE DEF G
  <2>2. \A i \in 0 .. n : done[i] = G(i)
    BY <2>1
  <2> QED
    BY <2>2 DEF G
<1> DEFINE Fine(k) == done[k] \in Seq(Talk) /\ KeptTo(ms, k, done[k])
           Bad == {k \in 0 .. n : ~Fine(k)}
<1>4. Bad = {}
  <2> SUFFICES ASSUME Bad # {} PROVE FALSE
    OBVIOUS
  <2>1. Bad \in SUBSET (0 .. n)
    OBVIOUS
  <2> HIDE DEF Bad
  <2>2. PICK k \in Bad : \A l \in Bad : k <= l
    BY <1>0, <2>1, HasLeast
  <2>3. k \in 0 .. n /\ ~Fine(k)
    BY DEF Bad
  <2>4. CASE k = 0
    <3>1. done[k] = <<>>
      BY <1>3, <2>3, <2>4
    <3>2. 1 .. k = {}
      BY <2>4
    <3>3. <<>> \in Seq(Talk)
      BY EmptySeq
    <3>4. KeptTo(ms, k, done[k])
      BY <3>2 DEF KeptTo
    <3> QED
      BY <2>3, <3>1, <3>3, <3>4
  <2>5. CASE k # 0
    <3>1. k - 1 \in 0 .. n /\ ~(k <= k - 1) /\ k \in 1 .. Len(ms)
      BY <2>3, <2>5, <1>0
    <3>2. k - 1 \notin Bad
      BY <2>2, <3>1
    <3>3. done[k - 1] \in Seq(Talk) /\ KeptTo(ms, k - 1, done[k - 1])
      BY <3>1, <3>2 DEF Bad
    <3>4. done[k] = Merge(done[k - 1], ms[k])
      BY <1>3, <2>3, <2>5
    <3>5. Merge(done[k - 1], ms[k]) \in Seq(Talk) /\ KeptTo(ms, k, Merge(done[k - 1], ms[k]))
      BY <3>1, <3>3, MergeCarries
    <3> QED
      BY <2>3, <3>4, <3>5
  <2> QED
    BY <2>4, <2>5
<1>5. n \in 0 .. n
  BY <1>0
<1>6. Fine(n)
  BY <1>4, <1>5
<1> QED
  BY <1>1, <1>6 DEF Carried

LEMMA CollapseCarries ==
    ASSUME NEW A \in Seq(Talk), NEW B \in Seq(Talk), Carried(A, B)
    PROVE  Carried(CollapsedAll(A), CollapsedAll(B))
<1> DEFINE C == CollapsedAll(A)
           D == CollapsedAll(B)
<1>1. /\ C \in Seq(Talk) /\ Len(C) = Len(A)
      /\ \A i \in 1 .. Len(A) : C[i].role = A[i].role /\ C[i].text = Tight(A[i].text)
  BY CollapsedAllIs, TalkIs, LenProperties
<1>2. /\ D \in Seq(Talk) /\ Len(D) = Len(B)
      /\ \A i \in 1 .. Len(B) : D[i].role = B[i].role /\ D[i].text = Tight(B[i].text)
  BY CollapsedAllIs, TalkIs, LenProperties
<1> HIDE DEF C, D
<1> SUFFICES ASSUME NEW u \in 1 .. Len(C), LastAt(C, Len(C), u)
             PROVE  \E v \in 1 .. Len(D) : /\ LastAt(D, Len(D), v) /\ D[v].role = C[u].role
                                           /\ EndsWith(D[v].text, C[u].text)
  BY DEF Carried, KeptTo, C, D
<1>3. u \in 1 .. Len(A) /\ LastAt(A, Len(A), u)
  BY <1>1 DEF LastAt
<1>4. PICK v \in 1 .. Len(B) : LastAt(B, Len(B), v) /\ B[v].role = A[u].role /\ EndsWith(B[v].text, A[u].text)
  BY <1>3 DEF Carried, KeptTo
<1>5. v \in 1 .. Len(D) /\ LastAt(D, Len(D), v) /\ D[v].role = C[u].role
  BY <1>1, <1>2, <1>3, <1>4 DEF LastAt
<1>6. A[u].text \in Seq(Phrases) /\ B[v].text \in Seq(Phrases)
  BY <1>3, <1>4, TalkIs
<1>7. EndsWith(Tight(B[v].text), Tight(A[u].text))
  BY <1>4, <1>6, EndsTight
<1> QED
  BY <1>1, <1>2, <1>3, <1>4, <1>5, <1>7

\* The first of a run of repeated messages stands for its last.
LEMMA RunIs ==
    ASSUME NEW ms \in Seq(Talk), NEW u \in 1 .. Len(ms)
    PROVE  \E s \in 1 .. u : /\ s \notin Repeats(ms) /\ ms[s].role = ms[u].role /\ ms[s].text = ms[u].text
                             /\ \A i \in 1 .. u : i > s => i \in Repeats(ms)
<1> DEFINE S == {i \in 1 .. u : i \notin Repeats(ms)}
<1>1. 1 \in S /\ S \in SUBSET Int
  BY DEF Repeats
<1>2. IsFiniteSet(S)
  <2>1. 1 \in Int /\ u \in Int
    OBVIOUS
  <2>2. IsFiniteSet(1 .. u)
    BY <2>1, FS_Interval, Zenon
  <2>3. S \in SUBSET (1 .. u)
    OBVIOUS
  <2> QED
    BY <2>2, <2>3, FS_Subset
<1>3. PICK s \in S : \A i \in S : i <= s
  <2>1. S # {}
    BY <1>1
  <2> HIDE DEF S
  <2> QED
    BY <1>1, <1>2, <2>1, HasGreatest
<1>4. s \in 1 .. u /\ s \notin Repeats(ms) /\ \A i \in 1 .. u : i > s => i \in Repeats(ms)
  BY <1>1, <1>3
<1> DEFINE Same(i) == ms[i].role = ms[u].role /\ ms[i].text = ms[u].text
           Bad == {i \in s .. u : ~Same(i)}
<1>5. Bad = {}
  <2> SUFFICES ASSUME Bad # {} PROVE FALSE
    OBVIOUS
  <2>1. Bad \in SUBSET Int
    OBVIOUS
  <2>2. IsFiniteSet(Bad)
    <3>1. s \in Int /\ u \in Int
      BY <1>1
    <3>2. IsFiniteSet(s .. u)
      BY <3>1, FS_Interval, Zenon
    <3>3. Bad \in SUBSET (s .. u)
      OBVIOUS
    <3> QED
      BY <3>2, <3>3, FS_Subset
  <2> HIDE DEF Bad
  <2>3. PICK b \in Bad : \A i \in Bad : i <= b
    BY <2>1, <2>2, HasGreatest
  <2>4. b \in s .. u /\ ~Same(b)
    BY DEF Bad
  <2>5. b # u
    BY <2>4
  <2>6. b + 1 \in s .. u /\ ~(b + 1 <= b) /\ b + 1 > s /\ b + 1 \in 1 .. u /\ (b + 1) - 1 = b
    BY <1>4, <2>4, <2>5
  <2>7. b + 1 \notin Bad
    BY <2>3, <2>6
  <2>8. Same(b + 1)
    BY <2>6, <2>7 DEF Bad
  <2>9. b + 1 \in Repeats(ms)
    BY <1>4, <2>6
  <2>10. ms[b + 1].role = ms[b].role /\ ms[b + 1].text = ms[b].text
    BY <2>6, <2>9 DEF Repeats
  <2> QED
    BY <2>4, <2>8, <2>10
<1>6. s \in s .. u
  BY <1>4
<1>7. Same(s)
  BY <1>5, <1>6
<1> QED
  BY <1>4, <1>7

\* What is picked keeps the last message of a role that is among it.
LEMMA PickedLast ==
    ASSUME NEW s, NEW A, NEW places \in SUBSET Int, IsFiniteSet(places), \A p \in places : s[p] \in A,
           NEW p \in places, \A q \in places : q > p => s[q].role # s[p].role
    PROVE  LET out == Picked(s, places) IN
           /\ out \in Seq(A)
           /\ \E v \in 1 .. Len(out) : LastAt(out, Len(out), v) /\ out[v] = s[p]
<1> DEFINE out == Picked(s, places)
           n == Cardinality(places)
<1>1. /\ out \in Seq(A) /\ Len(out) = n
      /\ \A k \in 1 .. n : InOrder(places, k) \in places /\ out[k] = s[InOrder(places, k)]
  BY PickedType
<1>2. \A k, l \in 1 .. n : k < l => InOrder(places, k) < InOrder(places, l)
  BY PlacesInOrder
<1>3. PICK v \in 1 .. n : InOrder(places, v) = p
  BY PlacesInOrder
<1> HIDE DEF out, n
<1>4. ASSUME NEW i \in 1 .. n, i > v PROVE out[i].role # out[v].role
  <2>1. v < i
    BY <1>4
  <2>2. p < InOrder(places, i) /\ InOrder(places, i) \in places
    BY <1>1, <1>2, <1>3, <2>1
  <2>3. InOrder(places, i) > p
    BY <2>2
  <2> QED
    BY <1>1, <1>3, <2>2, <2>3
<1>5. LastAt(out, n, v)
  BY <1>4 DEF LastAt
<1>6. out[v] = s[p]
  BY <1>1, <1>3
<1> QED
  BY <1>1, <1>5, <1>6 DEF out

LEMMA DeduplicatedCarries ==
    ASSUME NEW ms \in Seq(Talk)
    PROVE  Deduplicated(ms) \in Seq(Talk) /\ Carried(ms, Deduplicated(ms))
<1> DEFINE P == DOMAIN ms \ Repeats(ms)
           out == Deduplicated(ms)
<1>1. DOMAIN ms = 1 .. Len(ms) /\ Len(ms) \in Nat /\ \A i \in DOMAIN ms : ms[i] \in Talk /\ ms[i].text \in Seq(Phrases)
  BY TalkIs
<1>2. P \in SUBSET Int /\ P \in SUBSET (1 .. Len(ms))
  BY <1>1
<1>3. IsFiniteSet(P)
  <2>1. 1 \in Int /\ Len(ms) \in Int
    BY <1>1
  <2>2. IsFiniteSet(1 .. Len(ms))
    BY <2>1, FS_Interval, Zenon
  <2> QED
    BY <1>2, <2>2, FS_Subset
<1>4. \A p \in P : ms[p] \in Talk
  BY <1>1
<1>5. out = Picked(ms, P)
  BY DEF Deduplicated
<1>6. out \in Seq(Talk)
  <2> HIDE DEF P, out
  <2> QED
    BY <1>2, <1>3, <1>4, <1>5, PickedType
<1>7. ASSUME NEW u \in 1 .. Len(ms), LastAt(ms, Len(ms), u)
      PROVE  \E v \in 1 .. Len(out) : /\ LastAt(out, Len(out), v) /\ out[v].role = ms[u].role
                                      /\ EndsWith(out[v].text, ms[u].text)
  <2>1. PICK s \in 1 .. u : /\ s \notin Repeats(ms) /\ ms[s].role = ms[u].role /\ ms[s].text = ms[u].text
                            /\ \A i \in 1 .. u : i > s => i \in Repeats(ms)
    BY RunIs
  <2>2. s \in P
    BY <1>1, <2>1
  <2>3. \A q \in P : q > s => ms[q].role # ms[s].role
    <3> SUFFICES ASSUME NEW q \in P, q > s PROVE ms[q].role # ms[s].role
      OBVIOUS
    <3>1. q \in 1 .. Len(ms) /\ q \notin Repeats(ms)
      BY <1>1
    <3>2. q > u
      BY <2>1, <3>1
    <3> QED
      BY <1>7, <2>1, <3>1, <3>2 DEF LastAt
  <2> HIDE DEF P, out
  <2>4. \E v \in 1 .. Len(Picked(ms, P)) : LastAt(Picked(ms, P), Len(Picked(ms, P)), v) /\ Picked(ms, P)[v] = ms[s]
    BY <1>2, <1>3, <1>4, <2>2, <2>3, PickedLast
  <2>5. PICK v \in 1 .. Len(out) : LastAt(out, Len(out), v) /\ out[v] = ms[s]
    BY <1>5, <2>4
  <2>6. EndsWith(ms[u].text, ms[u].text)
    BY <1>1, EndsRefl
  <2> QED
    BY <2>1, <2>5, <2>6
<1> QED
  BY <1>6, <1>7 DEF Carried, KeptTo

LEMMA DedupCarries ==
    ASSUME NEW ms \in Seq(Talk)
    PROVE  DedupCompress(ms) \in Seq(Talk) /\ Carried(CollapsedAll(ms), DedupCompress(ms))
<1>1. Deduplicated(ms) \in Seq(Talk) /\ Carried(ms, Deduplicated(ms))
  BY DeduplicatedCarries
<1>2. Merged(Deduplicated(ms)) \in Seq(Talk) /\ Carried(Deduplicated(ms), Merged(Deduplicated(ms)))
  BY <1>1, MergedCarries
<1>3. Carried(ms, Merged(Deduplicated(ms)))
  BY <1>1, <1>2, CarriedTrans
<1>4. Carried(CollapsedAll(ms), CollapsedAll(Merged(Deduplicated(ms))))
  BY <1>2, <1>3, CollapseCarries
<1> QED
  BY <1>2, <1>4, CollapsedAllIs DEF DedupCompress

-----------------------------------------------------------------------------
(* ---- prune.                                                           *)
LEMMA OpeningIs ==
    ASSUME NEW t \in Seq(Phrases), NEW k \in 0 .. Len(t)
    PROVE  Opening(t, k) \in Seq(Phrases)
<1>1. DOMAIN t = 1 .. Len(t) /\ Len(t) \in Nat /\ \A i \in DOMAIN t : t[i] \in Phrases
  BY TextIs
<1>2. 1 \in Int /\ k \in Int /\ \A i \in 1 .. k : t[i] \in Phrases
  BY <1>1
<1>3. SubSeq(t, 1, k) \in Seq(Phrases)
  BY <1>2, SubSeqProperties
<1> QED
  BY <1>3 DEF Opening

LEMMA ClosingIs ==
    ASSUME NEW t \in Seq(Phrases), NEW k \in 0 .. Len(t)
    PROVE  /\ Closing(t, k) \in Seq(Phrases) /\ Len(Closing(t, k)) = k
           /\ \A j \in 1 .. k : Closing(t, k)[j] = t[Len(t) - k + j]
<1> DEFINE n == Len(t)
           m == n - k + 1
<1>1. DOMAIN t = 1 .. n /\ n \in Nat /\ \A i \in DOMAIN t : t[i] \in Phrases
  BY TextIs
<1>2. m \in Int /\ n \in Int /\ \A i \in m .. n : t[i] \in Phrases
  BY <1>1
<1>3. /\ SubSeq(t, m, n) \in Seq(Phrases)
      /\ Len(SubSeq(t, m, n)) = IF m <= n THEN n - m + 1 ELSE 0
      /\ \A i \in 1 .. n - m + 1 : SubSeq(t, m, n)[i] = t[m + i - 1]
  BY <1>2, SubSeqProperties
<1>4. Closing(t, k) = SubSeq(t, m, n)
  BY DEF Closing
<1>5. (IF m <= n THEN n - m + 1 ELSE 0) = k /\ n - m + 1 = k
  BY <1>1
<1>6. \A j \in 1 .. k : m + j - 1 = n - k + j
  BY <1>1
<1> HIDE DEF n, m
<1> QED
  BY <1>3, <1>4, <1>5, <1>6 DEF n

LEMMA SizeOfNothing == \A t : DOMAIN t = {} => SizeOf(t) = 0
<1> SUFFICES ASSUME NEW t, DOMAIN t = {} PROVE SizeOf(t) = 0
  OBVIOUS
<1> DEFINE f == [j \in DOMAIN t |-> t[j].size]
<1>1. DOMAIN f = {}
  OBVIOUS
<1>2. SizeOf(t) = SumFunction(f)
  BY DEF SizeOf
<1> HIDE DEF f
<1> QED
  BY <1>1, <1>2, SumOfDomain, SumEmpty

LEMMA GreatestUpTo ==
    ASSUME NEW n \in Nat, NEW K \in SUBSET (0 .. n), K # {}
    PROVE  Max(K) \in 0 .. n /\ Max(K) \in K /\ \A k \in K : k <= Max(K)
<1>1. IsFiniteSet(K)
  <2>1. 0 \in Int /\ n \in Int
    OBVIOUS
  <2>2. IsFiniteSet(0 .. n)
    BY <2>1, FS_Interval, Zenon
  <2> QED
    BY <2>2, FS_Subset
<1>2. K \in SUBSET Int
  OBVIOUS
<1> QED
  BY <1>1, <1>2, MaxIs

LEMMA LeadingIs ==
    ASSUME NEW t \in Seq(Phrases), NEW n \in Nat
    PROVE  Leading(t, n) \in Seq(Phrases)
<1> DEFINE K == {k \in 0 .. Len(t) : SizeOf(Opening(t, k)) <= n}
<1>1. Len(t) \in Nat
  BY TextIs
<1>2. 0 \in K
  <2>1. Opening(t, 0) = << >>
    BY SubSeqEmpty DEF Opening
  <2>2. SizeOf(<< >>) = 0
    BY SizeOfNothing
  <2> QED
    BY <1>1, <2>1, <2>2
<1>3. Leading(t, n) = Opening(t, Max(K))
  BY DEF Leading
<1>4. K # {} /\ K \in SUBSET (0 .. Len(t))
  BY <1>2
<1> HIDE DEF K
<1>5. Max(K) \in 0 .. Len(t)
  BY <1>1, <1>4, GreatestUpTo
<1> QED
  BY <1>3, <1>5, OpeningIs

\* The end of a text that is small enough is not cut off.
LEMMA TrailingIs ==
    ASSUME NEW t \in Seq(Phrases), NEW n \in Nat
    PROVE  /\ Trailing(t, n) \in Seq(Phrases)
           /\ \A u \in Seq(Phrases) : EndsWith(t, u) /\ SizeOf(u) <= n => EndsWith(Trailing(t, n), u)
<1> DEFINE K == {k \in 0 .. Len(t) : SizeOf(Closing(t, k)) <= n}
           g == Max(K)
<1>1. Len(t) \in Nat
  BY TextIs
<1>2. 0 \in K
  <2>1. Closing(t, 0) \in Seq(Phrases) /\ Len(Closing(t, 0)) = 0
    BY <1>1, ClosingIs
  <2>2. DOMAIN Closing(t, 0) = {}
    BY <2>1, TextIs
  <2>3. SizeOf(Closing(t, 0)) = 0
    BY <2>2, SizeOfNothing
  <2> QED
    BY <1>1, <2>3
<1>3. Trailing(t, n) = Closing(t, g)
  BY DEF Trailing
<1>4. K # {} /\ K \in SUBSET (0 .. Len(t))
  BY <1>2
<1>5. g \in 0 .. Len(t) /\ \A k \in K : k <= g
  <2> HIDE DEF K
  <2> QED
    BY <1>1, <1>4, GreatestUpTo
<1> HIDE DEF g
<1>6. /\ Closing(t, g) \in Seq(Phrases) /\ Len(Closing(t, g)) = g
      /\ \A j \in 1 .. g : Closing(t, g)[j] = t[Len(t) - g + j]
  BY <1>5, ClosingIs
<1>7. ASSUME NEW u \in Seq(Phrases), EndsWith(t, u), SizeOf(u) <= n
      PROVE  EndsWith(Closing(t, g), u)
  <2> DEFINE k == Len(u)
  <2>1. DOMAIN u = 1 .. k /\ k \in Nat /\ k <= Len(t) /\ \A j \in 1 .. k : t[Len(t) - k + j] = u[j]
    BY <1>7, TextIs DEF EndsWith
  <2>2. k \in 0 .. Len(t)
    BY <1>1, <2>1
  <2>3. Closing(t, k) = u
    <3> HIDE DEF k
    <3>1. /\ Closing(t, k) \in Seq(Phrases) /\ Len(Closing(t, k)) = k
          /\ \A j \in 1 .. k : Closing(t, k)[j] = t[Len(t) - k + j]
      BY <2>2, ClosingIs
    <3>2. Len(Closing(t, k)) = Len(u) /\ \A j \in 1 .. Len(u) : Closing(t, k)[j] = u[j]
      BY <2>1, <3>1 DEF k
    <3> QED
      BY <3>1, <3>2, SeqEqual
  <2>4. k \in K
    BY <1>7, <2>2, <2>3
  <2> HIDE DEF k, K
  <2>5. k <= g
    BY <1>5, <2>4
  <2>6. ASSUME NEW j \in 1 .. k PROVE Closing(t, g)[g - k + j] = u[j]
    <3>1. g - k + j \in 1 .. g /\ Len(t) - g + (g - k + j) = Len(t) - k + j
      BY <1>1, <1>5, <2>1, <2>5
    <3> QED
      BY <1>6, <2>1, <3>1
  <2> QED
    BY <1>6, <2>5, <2>6 DEF EndsWith, k
<1> QED
  BY <1>3, <1>6, <1>7

\* Cut in the middle, a text keeps its end.
LEMMA EndsIs ==
    ASSUME NEW t \in Seq(Phrases), NEW u \in Seq(Phrases), EndsWith(t, u), SizeOf(u) <= 800
    PROVE  IdsOf(u) \subseteq IdsOf(Ends(t))
<1> DEFINE a == Leading(t, 800)
           z == Trailing(t, 800)
           r == Rest(1627, a \o z)
           A == Phrases \cup {r}
<1>1. a \in Seq(Phrases) /\ z \in Seq(Phrases) /\ EndsWith(z, u)
  BY LeadingIs, TrailingIs
<1>2. Ends(t) = (a \o <<r>>) \o z
  BY DEF Ends
<1> HIDE DEF a, z, r
<1>3. a \in Seq(A) /\ z \in Seq(A) /\ <<r>> \in Seq(A)
  <2>1. \A i \in DOMAIN a : a[i] \in A
    BY <1>1, TextIs
  <2>2. \A i \in DOMAIN z : z[i] \in A
    BY <1>1, TextIs
  <2>3. a \in Seq(A) /\ z \in Seq(A)
    BY <1>1, <2>1, <2>2, Retyped
  <2> QED
    BY <2>3
<1> HIDE DEF A
<1>4. (a \o <<r>>) \in Seq(A) /\ Len(a \o <<r>>) \in Nat
  BY <1>3, ConcatProperties, LenProperties
<1> DEFINE h == a \o <<r>>
<1> HIDE DEF h
<1>5. /\ h \o z \in Seq(A) /\ Len(h \o z) = Len(h) + Len(z)
      /\ \A i \in 1 .. Len(h) + Len(z) : (h \o z)[i] = IF i <= Len(h) THEN h[i] ELSE z[i - Len(h)]
  BY <1>3, <1>4, ConcatProperties DEF h
<1>6. Len(h) \in Nat /\ Len(z) \in Nat /\ DOMAIN z = 1 .. Len(z)
  BY <1>1, <1>4, TextIs DEF h
<1>7. ASSUME NEW j \in DOMAIN z PROVE z[j].id \in IdsOf(h \o z)
  <2>1. Len(h) + j \in 1 .. Len(h) + Len(z) /\ ~(Len(h) + j <= Len(h)) /\ Len(h) + j - Len(h) = j
    BY <1>6
  <2>2. (h \o z)[Len(h) + j] = z[j]
    BY <1>5, <2>1
  <2>3. Len(h) + j \in DOMAIN (h \o z)
    BY <1>5, <2>1, LenProperties
  <2> QED
    BY <2>2, <2>3 DEF IdsOf
<1>8. IdsOf(z) \subseteq IdsOf(h \o z)
  BY <1>7 DEF IdsOf
<1>9. IdsOf(u) \subseteq IdsOf(z)
  BY <1>1, EndsIds
<1> QED
  BY <1>2, <1>8, <1>9 DEF h

LEMMA Retext ==
    ASSUME NEW m \in Talk, NEW t
    PROVE  [m EXCEPT !.text = t].role = m.role /\ [m EXCEPT !.text = t].text = t
BY DEF Talk

\* What pruning does to a message.
LEMMA PrunedIs ==
    ASSUME NEW ms \in Seq(Talk), NEW i \in DOMAIN ms
    PROVE  /\ Pruned(ms, i).role = ms[i].role
           /\ ms[i].role = "system" /\ i = LastOfRole(ms, "system") => Pruned(ms, i).text = ms[i].text
           /\ ms[i].role = "user" => Pruned(ms, i).text \in {ms[i].text, Ends(ms[i].text)}
<1> DEFINE m == ms[i]
           cut == Append(Leading(m.text, 500), Rest(503, Leading(m.text, 500)))
           A == m.role = "system" /\ i # LastOfRole(ms, "system") /\ SizeOf(m.text) > 500
           B == m.role = "user" /\ SizeOf(m.text) > 2000
<1>1. m \in Talk
  BY TalkIs
<1>2. Pruned(ms, i) = CASE A -> [m EXCEPT !.text = cut] [] B -> [m EXCEPT !.text = Ends(m.text)] [] OTHER -> m
  BY DEF Pruned
<1>3. A => m.role = "system" /\ i # LastOfRole(ms, "system")
  OBVIOUS
<1>4. B => m.role = "user"
  OBVIOUS
<1>5. ~(A /\ B)
  OBVIOUS
<1> HIDE DEF A, B, cut, m
<1>6. CASE A
  <2>1. Pruned(ms, i) = [m EXCEPT !.text = cut]
    BY <1>2, <1>5, <1>6
  <2> QED
    BY <1>1, <1>3, <1>6, <2>1, Retext DEF m
<1>7. CASE B
  <2>1. Pruned(ms, i) = [m EXCEPT !.text = Ends(m.text)]
    BY <1>2, <1>5, <1>7
  <2> QED
    BY <1>1, <1>4, <1>7, <2>1, Retext DEF m
<1>8. CASE ~A /\ ~B
  <2>1. Pruned(ms, i) = m
    BY <1>2, <1>8
  <2> QED
    BY <2>1 DEF m
<1> QED
  BY <1>6, <1>7, <1>8

\* Instructions and questions are never dropped as an answer of a tool that was seen before.
LEMMA ToolsOnceKeeps ==
    ASSUME NEW A, NEW ms \in Seq(A), NEW i \in DOMAIN ms, ms[i].role # "tool"
    PROVE  \E k \in DOMAIN ToolsOnce(ms) : ToolsOnce(ms)[k] = ms[i]
<1> DEFINE P == {j \in DOMAIN ms : ms[j].tool # NoTool =>
                   \A l \in 1 .. j - 1 : ~(ms[j].role = "tool" /\ ms[l].role = "tool" /\ ms[j].tool = ms[l].tool)}
<1>1. DOMAIN ms = 1 .. Len(ms) /\ Len(ms) \in Nat /\ \A j \in DOMAIN ms : ms[j] \in A
  BY LenProperties, ElementOfSeq
<1>2. ToolsOnce(ms) = Picked(ms, P)
  BY DEF ToolsOnce
<1>3. i \in P
  OBVIOUS
<1>4. P \in SUBSET Int /\ P \in SUBSET (1 .. Len(ms)) /\ \A p \in P : ms[p] \in A
  BY <1>1
<1> HIDE DEF P
<1>5. IsFiniteSet(P)
  <2>1. 1 \in Int /\ Len(ms) \in Int
    BY <1>1
  <2>2. IsFiniteSet(1 .. Len(ms))
    BY <2>1, FS_Interval, Zenon
  <2> QED
    BY <1>4, <2>2, FS_Subset
<1>6. /\ DOMAIN Picked(ms, P) = 1 .. Cardinality(P)
      /\ \A k \in 1 .. Cardinality(P) : Picked(ms, P)[k] = ms[InOrder(P, k)]
  BY <1>4, <1>5, PickedType
<1>7. PICK k \in 1 .. Cardinality(P) : InOrder(P, k) = i
  BY <1>3, <1>4, <1>5, PlacesInOrder
<1> QED
  BY <1>2, <1>6, <1>7

LEMMA PruneKeeps ==
    ASSUME NEW ms \in Seq(Talk), NEW i \in Lasting(ms), ms[i].role # "tool"
    PROVE  \E k \in DOMAIN PruneCompress(ms) : PruneCompress(ms)[k] = Pruned(ms, i)
<1> DEFINE cut == [j \in DOMAIN ms |-> Pruned(ms, j)]
           L == Lasting(ms)
           A == {Pruned(ms, j) : j \in DOMAIN ms}
           X == Picked(cut, L)
           Y == ToolsOnce(X)
<1>1. DOMAIN ms = 1 .. Len(ms) /\ Len(ms) \in Nat
  BY TalkIs
<1>2. L \in SUBSET (1 .. Len(ms)) /\ L \in SUBSET Int
  BY <1>1 DEF Lasting
<1>3. IsFiniteSet(L)
  <2>1. 1 \in Int /\ Len(ms) \in Int
    BY <1>1
  <2>2. IsFiniteSet(1 .. Len(ms))
    BY <2>1, FS_Interval, Zenon
  <2> QED
    BY <1>2, <2>2, FS_Subset
<1>4. \A p \in L : cut[p] \in A /\ cut[p] = Pruned(ms, p)
  BY <1>1, <1>2
<1>5. PruneCompress(ms) = IF Y = << >> THEN ms ELSE Y
  BY DEF PruneCompress
<1>6. Pruned(ms, i).role # "tool"
  BY <1>1, <1>2, PrunedIs
<1> HIDE DEF cut, A, L
<1>7. /\ X \in Seq(A) /\ DOMAIN X = 1 .. Cardinality(L)
      /\ \A k \in 1 .. Cardinality(L) : X[k] = cut[InOrder(L, k)]
  BY <1>2, <1>3, <1>4, PickedType
<1>8. PICK k \in 1 .. Cardinality(L) : InOrder(L, k) = i
  BY <1>2, <1>3, PlacesInOrder DEF L
<1>9. k \in DOMAIN X /\ X[k] = Pruned(ms, i)
  BY <1>4, <1>7, <1>8 DEF L
<1> HIDE DEF X
<1>10. PICK l \in DOMAIN Y : Y[l] = Pruned(ms, i)
  BY <1>6, <1>7, <1>9, ToolsOnceKeeps
<1>11. Y # << >>
  BY <1>10
<1> QED
  BY <1>5, <1>10, <1>11

-----------------------------------------------------------------------------
(* ---- what is said.                                                    *)
LEMMA CarriedRefl == ASSUME NEW ms \in Seq(Talk) PROVE Carried(ms, ms)
<1> SUFFICES ASSUME NEW u \in 1 .. Len(ms), LastAt(ms, Len(ms), u)
             PROVE  \E v \in 1 .. Len(ms) : /\ LastAt(ms, Len(ms), v) /\ ms[v].role = ms[u].role
                                            /\ EndsWith(ms[v].text, ms[u].text)
  BY DEF Carried, KeptTo
<1>1. EndsWith(ms[u].text, ms[u].text)
  BY TalkIs, EndsRefl
<1> QED
  BY <1>1

\* The last message of a role, where there is one.
LEMMA LastIs ==
    ASSUME NEW ms \in Seq(Talk), NEW R, LastOfRole(ms, R) # 0
    PROVE  LET u == LastOfRole(ms, R) IN
           u \in 1 .. Len(ms) /\ u \in DOMAIN ms /\ ms[u].role = R /\ LastAt(ms, Len(ms), u)
<1> DEFINE u == LastOfRole(ms, R)
<1>1. \/ u = 0 /\ \A i \in DOMAIN ms : ms[i].role # R
      \/ u \in DOMAIN ms /\ ms[u].role = R /\ \A i \in DOMAIN ms : i > u => ms[i].role # R
  BY LastOfRoleIs
<1>2. DOMAIN ms = 1 .. Len(ms)
  BY TalkIs
<1> HIDE DEF u
<1>3. u # 0
  BY DEF u
<1>4. u \in 1 .. Len(ms) /\ u \in DOMAIN ms /\ ms[u].role = R /\ LastAt(ms, Len(ms), u)
  BY <1>1, <1>2, <1>3 DEF LastAt
<1> QED
  BY <1>4 DEF u

\* Where it ends up in a conversation that carries it.
LEMMA CarriedLast ==
    ASSUME NEW A \in Seq(Talk), NEW B \in Seq(Talk), Carried(A, B), NEW R, LastOfRole(A, R) # 0
    PROVE  /\ LastOfRole(B, R) \in DOMAIN B /\ B[LastOfRole(B, R)].role = R
           /\ EndsWith(B[LastOfRole(B, R)].text, A[LastOfRole(A, R)].text)
           /\ A[LastOfRole(A, R)].text \in Seq(Phrases) /\ B[LastOfRole(B, R)].text \in Seq(Phrases)
<1> DEFINE u == LastOfRole(A, R)
<1>1. u \in 1 .. Len(A) /\ u \in DOMAIN A /\ A[u].role = R /\ LastAt(A, Len(A), u)
  BY LastIs
<1> HIDE DEF u
<1>2. PICK v \in 1 .. Len(B) : LastAt(B, Len(B), v) /\ B[v].role = A[u].role /\ EndsWith(B[v].text, A[u].text)
  BY <1>1 DEF Carried, KeptTo
<1>3. DOMAIN B = 1 .. Len(B) /\ B[v].text \in Seq(Phrases) /\ A[u].text \in Seq(Phrases)
  BY <1>1, <1>2, TalkIs
<1>4. B[v].role = R /\ \A i \in DOMAIN B : i > v => B[i].role # R
  BY <1>1, <1>2, <1>3 DEF LastAt
<1>5. LastOfRole(B, R) = v
  <2>1. v \in DOMAIN B
    BY <1>3
  <2> QED
    BY <1>4, <2>1, LastOfRoleAt
<1> QED
  BY <1>1, <1>2, <1>3, <1>4, <1>5 DEF u

LEMMA IdsHas ==
    ASSUME NEW ms, NEW R, NEW k \in DOMAIN ms, ms[k].role = R
    PROVE  IdsOf(ms[k].text) \subseteq Ids(ms, R)
BY DEF IdsOf, Ids, IdsAt

LEMMA CarriedSays ==
    ASSUME NEW A \in Seq(Talk), NEW B \in Seq(Talk), Carried(A, B)
    PROVE  InstructionsIn(A, B)
<1>1. ASSUME NEW R, LastOfRole(A, R) # 0 PROVE IdsAt(A, LastOfRole(A, R)) \subseteq Ids(B, R)
  <2> DEFINE u == LastOfRole(A, R)
             v == LastOfRole(B, R)
  <2>1. /\ v \in DOMAIN B /\ B[v].role = R /\ EndsWith(B[v].text, A[u].text)
        /\ A[u].text \in Seq(Phrases) /\ B[v].text \in Seq(Phrases)
    BY <1>1, CarriedLast
  <2> HIDE DEF u, v
  <2>2. IdsOf(A[u].text) \subseteq IdsOf(B[v].text)
    BY <2>1, EndsIds
  <2>3. IdsOf(B[v].text) \subseteq Ids(B, R)
    BY <2>1, IdsHas
  <2>4. IdsAt(A, u) = IdsOf(A[u].text)
    BY DEF IdsAt, IdsOf
  <2> QED
    BY <2>2, <2>3, <2>4 DEF u
<1> QED
  BY <1>1 DEF InstructionsIn

LEMMA PruneSays ==
    ASSUME NEW A \in Seq(Talk), NEW B \in Seq(Talk), Carried(A, B)
    PROVE  InstructionsIn(A, PruneCompress(B))
<1> DEFINE P == PruneCompress(B)
<1>1. ASSUME NEW R \in {"system", "user"}, LastOfRole(A, R) # 0,
             R = "user" => SizeOf(A[LastOfRole(A, R)].text) <= 800
      PROVE  IdsAt(A, LastOfRole(A, R)) \subseteq Ids(P, R)
  <2> DEFINE u == LastOfRole(A, R)
             v == LastOfRole(B, R)
  <2>1. /\ v \in DOMAIN B /\ B[v].role = R /\ EndsWith(B[v].text, A[u].text)
        /\ A[u].text \in Seq(Phrases) /\ B[v].text \in Seq(Phrases)
    BY <1>1, CarriedLast
  <2>2. v \in Lasting(B)
    BY <1>1, <2>1 DEF Lasting
  <2>3. R = "user" => SizeOf(A[u].text) <= 800
    BY <1>1
  <2>4. R = "system" => v = LastOfRole(B, "system")
    OBVIOUS
  <2> HIDE DEF u, v, P
  <2>5. B[v].role # "tool"
    BY <1>1, <2>1
  <2>6. PICK k \in DOMAIN P : P[k] = Pruned(B, v)
    BY <2>2, <2>5, PruneKeeps DEF P
  <2>7. P[k].role = R
    BY <2>1, <2>6, PrunedIs
  <2>8. IdsOf(P[k].text) \subseteq Ids(P, R)
    BY <2>7, IdsHas
  <2>9. IdsOf(A[u].text) \subseteq IdsOf(B[v].text)
    BY <2>1, EndsIds
  <2>10. IdsOf(A[u].text) \subseteq IdsOf(P[k].text)
    <3>1. CASE R = "system"
      <4>1. P[k].text = B[v].text
        BY <2>1, <2>4, <2>6, <3>1, PrunedIs
      <4> QED
        BY <2>9, <4>1
    <3>2. CASE R = "user"
      <4>1. P[k].text \in {B[v].text, Ends(B[v].text)}
        BY <2>1, <2>6, <3>2, PrunedIs
      <4>2. IdsOf(A[u].text) \subseteq IdsOf(Ends(B[v].text))
        BY <2>1, <2>3, <3>2, EndsIs
      <4> QED
        BY <2>9, <4>1, <4>2
    <3> QED
      BY <3>1, <3>2
  <2>11. IdsAt(A, u) = IdsOf(A[u].text)
    BY DEF IdsAt, IdsOf
  <2> QED
    BY <2>8, <2>10, <2>11 DEF u
<1>2. LastOfRole(A, "system") # 0 => IdsAt(A, LastOfRole(A, "system")) \subseteq Ids(P, "system")
  BY <1>1
<1>3. LastOfRole(A, "user") # 0 /\ SizeOf(A[LastOfRole(A, "user")].text) <= 800
        => IdsAt(A, LastOfRole(A, "user")) \subseteq Ids(P, "user")
  BY <1>1
<1> QED
  BY <1>2, <1>3 DEF InstructionsIn

LEMMA CollapsedLast ==
    ASSUME NEW ms \in Seq(Talk), NEW R
    PROVE  LastOfRole(CollapsedAll(ms), R) = LastOfRole(ms, R)
<1> DEFINE C == CollapsedAll(ms)
<1>1. DOMAIN C = DOMAIN ms /\ \A i \in DOMAIN ms : C[i].role = ms[i].role
  BY CollapsedAllIs
<1> HIDE DEF C
<1>2. {i \in DOMAIN C : C[i].role = R} = {i \in DOMAIN ms : ms[i].role = R}
  BY <1>1
<1> QED
  BY <1>2 DEF LastOfRole, C

\* Blanks do not tell instructions apart.
LEMMA SaysUpToBlanks ==
    ASSUME NEW ms \in Seq(Talk), NEW sent, InstructionsIn(CollapsedAll(ms), sent)
    PROVE  InstructionsIn(ms, sent)
<1> DEFINE C == CollapsedAll(ms)
<1>1. ASSUME NEW R, LastOfRole(ms, R) # 0
      PROVE  LET u == LastOfRole(ms, R) IN
             /\ LastOfRole(C, R) = u /\ IdsAt(C, u) = IdsAt(ms, u)
             /\ SizeOf(ms[u].text) \in Nat /\ SizeOf(C[u].text) \in Nat /\ SizeOf(C[u].text) <= SizeOf(ms[u].text)
  <2> DEFINE u == LastOfRole(ms, R)
  <2>1. u \in DOMAIN ms
    BY <1>1, LastIs
  <2>2. LastOfRole(C, R) = u
    BY CollapsedLast
  <2>3. C[u].text = Tight(ms[u].text) /\ ms[u].text \in Seq(Phrases)
    BY <2>1, CollapsedAllIs, TalkIs
  <2> HIDE DEF u, C
  <2>4. /\ IdsOf(Tight(ms[u].text)) = IdsOf(ms[u].text) /\ Tight(ms[u].text) \in Seq(Phrases)
        /\ SizeOf(Tight(ms[u].text)) <= SizeOf(ms[u].text)
    BY <2>3, TightIs
  <2>5. SizeOf(ms[u].text) \in Nat /\ SizeOf(Tight(ms[u].text)) \in Nat
    BY <2>3, <2>4, SizeTyped
  <2>6. IdsAt(C, u) = IdsOf(C[u].text) /\ IdsAt(ms, u) = IdsOf(ms[u].text)
    BY DEF IdsAt, IdsOf
  <2> QED
    BY <2>2, <2>3, <2>4, <2>5, <2>6 DEF u
<1>2. InstructionsIn(C, sent)
  OBVIOUS
<1> HIDE DEF C
<1>3. LastOfRole(ms, "system") # 0 => IdsAt(ms, LastOfRole(ms, "system")) \subseteq Ids(sent, "system")
  BY <1>1, <1>2 DEF InstructionsIn
<1>4. LastOfRole(ms, "user") # 0 /\ SizeOf(ms[LastOfRole(ms, "user")].text) <= 800
        => IdsAt(ms, LastOfRole(ms, "user")) \subseteq Ids(sent, "user")
  <2> SUFFICES ASSUME LastOfRole(ms, "user") # 0, SizeOf(ms[LastOfRole(ms, "user")].text) <= 800
               PROVE  IdsAt(ms, LastOfRole(ms, "user")) \subseteq Ids(sent, "user")
    OBVIOUS
  <2> DEFINE u == LastOfRole(ms, "user")
  <2>1. /\ LastOfRole(C, "user") = u /\ IdsAt(C, u) = IdsAt(ms, u)
        /\ SizeOf(ms[u].text) \in Nat /\ SizeOf(C[u].text) \in Nat /\ SizeOf(C[u].text) <= SizeOf(ms[u].text)
    BY <1>1
  <2>2. SizeOf(ms[u].text) <= 800 /\ u # 0
    OBVIOUS
  <2> HIDE DEF u
  <2>3. SizeOf(C[u].text) <= 800
    BY <2>1, <2>2
  <2>4. IdsAt(C, u) \subseteq Ids(sent, "user")
    BY <1>2, <2>1, <2>2, <2>3 DEF InstructionsIn
  <2> QED
    BY <2>1, <2>4 DEF u
<1> QED
  BY <1>3, <1>4 DEF InstructionsIn

LEMMA SaysOfCollapsed ==
    ASSUME NEW A, NEW ms \in Seq(Talk), InstructionsIn(A, CollapsedAll(ms))
    PROVE  InstructionsIn(A, ms)
<1> DEFINE C == CollapsedAll(ms)
<1>1. DOMAIN C = DOMAIN ms /\ \A i \in DOMAIN ms : C[i].role = ms[i].role /\ IdsAt(C, i) = IdsAt(ms, i)
  <2>1. DOMAIN C = DOMAIN ms /\ \A i \in DOMAIN ms : C[i].role = ms[i].role /\ C[i].text = Tight(ms[i].text)
    BY CollapsedAllIs
  <2>2. \A i \in DOMAIN ms : IdsOf(Tight(ms[i].text)) = IdsOf(ms[i].text)
    BY TalkIs, TightIs
  <2> HIDE DEF C
  <2>3. \A i : IdsAt(C, i) = IdsOf(C[i].text) /\ IdsAt(ms, i) = IdsOf(ms[i].text)
    BY DEF IdsAt, IdsOf
  <2> QED
    BY <2>1, <2>2, <2>3
<1>2. InstructionsIn(A, C)
  OBVIOUS
<1> HIDE DEF C
<1>3. \A R : Ids(C, R) \subseteq Ids(ms, R)
  <2> SUFFICES ASSUME NEW R, NEW x \in Ids(C, R) PROVE x \in Ids(ms, R)
    OBVIOUS
  <2>1. PICK i \in DOMAIN C : C[i].role = R /\ x \in IdsAt(C, i)
    BY DEF Ids
  <2>2. i \in DOMAIN ms /\ ms[i].role = R /\ x \in IdsAt(ms, i)
    BY <1>1, <2>1
  <2> QED
    BY <2>2 DEF Ids
<1>4. Ids(C, "system") \subseteq Ids(ms, "system") /\ Ids(C, "user") \subseteq Ids(ms, "user")
  BY <1>3
<1> QED
  BY <1>2, <1>4 DEF InstructionsIn

\* No strategy but the summary loses the instructions or a short question,
\* and neither does the conversation as it was left behind.
LEMMA CompressSays ==
    ASSUME NEW ms \in Seq(Talk), NEW strategy \in {"dedup", "prune", "auto"}, NEW target,
           NEW asked \in {ms, LeftBehind(ms, strategy)}
    PROVE  /\ InstructionsIn(asked, Compress(ms, strategy, target))
           /\ InstructionsIn(asked, LeftBehind(ms, strategy))
<1> DEFINE C == CollapsedAll(ms)
           D == DedupCompress(ms)
           now == LeftBehind(ms, strategy)
<1>1. C \in Seq(Talk) /\ D \in Seq(Talk) /\ Carried(C, D)
  BY CollapsedAllIs, DedupCarries
<1>2. now \in Seq(Talk) /\ CollapsedAll(now) = C /\ (strategy = "prune" => now = ms)
  BY LeftBehindIs
<1>3. asked \in Seq(Talk) /\ CollapsedAll(asked) = C /\ asked \in {ms, now}
  BY <1>2
<1> HIDE DEF C, D, now
<1>4. InstructionsIn(asked, now)
  <2>1. InstructionsIn(C, C)
    BY <1>1, CarriedRefl, CarriedSays
  <2>2. InstructionsIn(C, now)
    BY <1>2, <2>1, SaysOfCollapsed
  <2> QED
    BY <1>3, <2>2, SaysUpToBlanks
<1>5. InstructionsIn(C, D) /\ InstructionsIn(C, PruneCompress(D))
  BY <1>1, CarriedSays, PruneSays
<1>6. InstructionsIn(asked, D) /\ InstructionsIn(asked, PruneCompress(D))
  BY <1>3, <1>5, SaysUpToBlanks
<1>7. InstructionsIn(ms, PruneCompress(ms))
  <2>1. Carried(ms, ms)
    BY CarriedRefl
  <2> QED
    BY <2>1, PruneSays
<1>8. CASE strategy = "dedup"
  BY <1>4, <1>6, <1>8 DEF Compress, D, now
<1>9. CASE strategy = "prune"
  <2>1. Compress(ms, strategy, target) = PruneCompress(ms) /\ asked = ms
    BY <1>2, <1>3, <1>9 DEF Compress
  <2> QED
    BY <1>4, <1>7, <2>1 DEF now
<1>10. CASE strategy = "auto"
  <2>1. Compress(ms, strategy, target) = AutoCompress(ms)
    BY <1>10 DEF Compress
  <2>2. AutoCompress(ms) \in {D, PruneCompress(D)}
    BY DEF AutoCompress, D
  <2> QED
    BY <1>4, <1>6, <2>1, <2>2 DEF now
<1> QED
  BY <1>8, <1>9, <1>10

-----------------------------------------------------------------------------
(* ---- the order of access.                                             *)
\* The access order lists every entry of the cache once.
Listed(order, D) ==
    /\ order \in Seq(D)
    /\ \A i, j \in DOMAIN order : order[i] = order[j] => i = j
    /\ \A d \in D : \E i \in DOMAIN order : order[i] = d

LEMMA ListedIs ==
    ASSUME NEW order, NEW D, Listed(order, D)
    PROVE  /\ DOMAIN order = 1 .. Len(order) /\ Len(order) \in Nat /\ IsFiniteSet(DOMAIN order)
           /\ \A i \in DOMAIN order : order[i] \in D
           /\ ToSet(order) = D /\ IsFiniteSet(D) /\ Cardinality(D) = Len(order)
<1> DEFINE n == Len(order)
<1>1. DOMAIN order = 1 .. n /\ n \in Nat /\ order \in [1 .. n -> D] /\ \A i \in DOMAIN order : order[i] \in D
  BY LenProperties, ElementOfSeq DEF Listed
<1>2. ToSet(order) = D
  BY <1>1 DEF ToSet, Listed
<1>3. 1 \in Int /\ n \in Int
  BY <1>1
<1>4. IsFiniteSet(1 .. n)
  BY <1>3, FS_Interval, Zenon
<1>5. Cardinality(1 .. n) = n
  <2>1. Cardinality(1 .. n) = IF 1 > n THEN 0 ELSE n - 1 + 1
    BY <1>3, FS_Interval, Zenon
  <2> QED
    BY <1>1, <2>1
<1>6. order \in Bijection(1 .. n, D)
  <2>1. \A i, j \in 1 .. n : order[i] = order[j] => i = j
    BY <1>1 DEF Listed
  <2>2. \A d \in D : \E i \in 1 .. n : order[i] = d
    BY <1>1 DEF Listed
  <2> HIDE DEF n
  <2>3. order \in Injection(1 .. n, D)
    <3>1. DOMAIN order = 1 .. n /\ order \in [1 .. n -> D]
      BY <1>1
    <3>2. IsInjective(order)
      BY <2>1, <3>1 DEF IsInjective
    <3> QED
      BY <3>1, <3>2, Zenon DEF Injection
  <2>4. order \in Surjection(1 .. n, D)
    BY <1>1, <2>2, Zenon DEF Surjection
  <2> QED
    BY <2>3, <2>4, Zenon DEF Bijection
<1>7. ExistsBijection(1 .. n, D)
  BY <1>6, Zenon DEF ExistsBijection
<1>8. IsFiniteSet(D) /\ Cardinality(D) = Cardinality(1 .. n)
  BY <1>4, <1>7, FS_Bijection
<1> QED
  BY <1>1, <1>2, <1>4, <1>5, <1>8

LEMMA WithoutIs ==
    ASSUME NEW order, NEW D, Listed(order, D), NEW key
    PROVE  Listed(Without(order, key), D \ {key})
<1> DEFINE P == {i \in DOMAIN order : order[i] # key}
           out == Without(order, key)
           E == D \ {key}
<1>1. /\ DOMAIN order = 1 .. Len(order) /\ Len(order) \in Nat /\ IsFiniteSet(DOMAIN order)
      /\ \A i \in DOMAIN order : order[i] \in D
  BY ListedIs
<1>2. P \in SUBSET Int /\ P \in SUBSET DOMAIN order
  BY <1>1
<1>3. IsFiniteSet(P)
  BY <1>1, <1>2, FS_Subset
<1>4. \A p \in P : order[p] \in E
  BY <1>1
<1>5. out = Picked(order, P)
  BY DEF Without
<1>6. \A d \in E : \E p \in P : order[p] = d
  BY DEF Listed
<1>7. \A p, q \in P : order[p] = order[q] => p = q
  BY DEF Listed
<1> HIDE DEF P, out, E
<1> DEFINE n == Cardinality(P)
<1>8. /\ out \in Seq(E) /\ DOMAIN out = 1 .. n
      /\ \A k \in 1 .. n : InOrder(P, k) \in P /\ out[k] = order[InOrder(P, k)]
  BY <1>2, <1>3, <1>4, <1>5, PickedType
<1>9. /\ \A k, l \in 1 .. n : k < l => InOrder(P, k) < InOrder(P, l)
      /\ \A p \in P : \E k \in 1 .. n : InOrder(P, k) = p
  BY <1>2, <1>3, PlacesInOrder
<1> HIDE DEF n
<1>10. ASSUME NEW k \in 1 .. n, NEW l \in 1 .. n, out[k] = out[l] PROVE k = l
  <2>1. InOrder(P, k) = InOrder(P, l)
    BY <1>7, <1>8, <1>10
  <2>2. InOrder(P, k) \in Int /\ InOrder(P, l) \in Int /\ k \in Int /\ l \in Int
    <3>1. InOrder(P, k) \in P /\ InOrder(P, l) \in P
      BY <1>8
    <3>2. k \in Int /\ l \in Int
      OBVIOUS
    <3>3. \A p \in P : p \in Int
      BY <1>2
    <3> QED
      BY <3>1, <3>2, <3>3
  <2>3. ~(k < l) /\ ~(l < k)
    <3>1. k < l => InOrder(P, k) < InOrder(P, l)
      BY <1>9
    <3>2. l < k => InOrder(P, l) < InOrder(P, k)
      BY <1>9
    <3> QED
      BY <2>1, <2>2, <3>1, <3>2
  <2> QED
    BY <2>2, <2>3
<1>11. \A d \in E : \E k \in 1 .. n : out[k] = d
  BY <1>6, <1>8, <1>9
<1> QED
  BY <1>8, <1>10, <1>11 DEF Listed, out, E

LEMMA TailIs ==
    ASSUME NEW order, NEW D, Listed(order, D), order # << >>
    PROVE  Listed(Tail(order), D \ {Head(order)}) /\ Head(order) \in D
<1> DEFINE n == Len(order)
           h == Head(order)
           t == Tail(order)
<1>1. DOMAIN order = 1 .. n /\ n \in Nat /\ \A i \in DOMAIN order : order[i] \in D
  BY ListedIs
<1>2. order \in Seq(D) /\ n \in Nat \ {0}
  BY EmptySeq DEF Listed
<1>3. h = order[1] /\ t \in Seq(D) /\ Len(t) = n - 1 /\ \A i \in 1 .. n - 1 : t[i] = order[i + 1]
  BY <1>2, HeadTailProperties
<1> HIDE DEF h, t, n
<1>4. 1 \in DOMAIN order /\ h \in D
  BY <1>1, <1>2, <1>3
<1>5. DOMAIN t = 1 .. n - 1
  BY <1>3, LenProperties
<1>6. \A i \in 1 .. n - 1 : i + 1 \in DOMAIN order /\ i + 1 # 1
  BY <1>1, <1>2
<1>7. ASSUME NEW i \in DOMAIN t PROVE t[i] \in D \ {h}
  <2>1. t[i] = order[i + 1] /\ i + 1 \in DOMAIN order /\ i + 1 # 1
    BY <1>3, <1>5, <1>6
  <2>2. order[i + 1] # order[1]
    BY <1>4, <2>1 DEF Listed
  <2> QED
    BY <1>1, <1>3, <2>1, <2>2
<1>8. t \in Seq(D \ {h})
  BY <1>3, <1>7, Retyped
<1>9. ASSUME NEW i \in DOMAIN t, NEW j \in DOMAIN t, t[i] = t[j] PROVE i = j
  <2>1. i + 1 = j + 1
    BY <1>3, <1>5, <1>6, <1>9 DEF Listed
  <2>2. i \in Int /\ j \in Int
    BY <1>5
  <2> QED
    BY <2>1, <2>2
<1>10. ASSUME NEW d \in D \ {h} PROVE \E i \in DOMAIN t : t[i] = d
  <2>1. PICK j \in DOMAIN order : order[j] = d
    BY DEF Listed
  <2>2. j # 1
    BY <1>3, <2>1
  <2>3. j - 1 \in 1 .. n - 1 /\ (j - 1) + 1 = j
    BY <1>1, <1>2, <2>2
  <2> QED
    BY <1>3, <1>5, <2>1, <2>3
<1> QED
  BY <1>4, <1>8, <1>9, <1>10 DEF Listed, h, t

LEMMA AppendedIs ==
    ASSUME NEW order, NEW D, Listed(order, D), NEW key, key \notin D
    PROVE  Listed(Append(order, key), D \cup {key})
<1> DEFINE n == Len(order)
           a == Append(order, key)
           E == D \cup {key}
<1>1. DOMAIN order = 1 .. n /\ n \in Nat /\ \A i \in DOMAIN order : order[i] \in D
  BY ListedIs
<1>2. order \in Seq(E) /\ key \in E
  <2>1. order \in Seq(D)
    BY DEF Listed
  <2>2. \A i \in DOMAIN order : order[i] \in E
    BY <1>1
  <2> HIDE DEF E
  <2>3. order \in Seq(E)
    BY <2>1, <2>2, Retyped
  <2> QED
    BY <2>3 DEF E
<1>3. a \in Seq(E) /\ Len(a) = n + 1 /\ (\A i \in 1 .. n : a[i] = order[i]) /\ a[n + 1] = key
  <2> HIDE DEF E
  <2> QED
    BY <1>2, AppendProperties
<1> HIDE DEF a, n
<1>4. DOMAIN a = 1 .. n + 1
  BY <1>3, LenProperties
<1>5. \A i \in 1 .. n + 1 : i = n + 1 \/ i \in 1 .. n
  BY <1>1
<1>6. \A i \in 1 .. n : i \in 1 .. n + 1 /\ i \in DOMAIN order
  BY <1>1
<1>7. n + 1 \in 1 .. n + 1
  BY <1>1
<1>8. ASSUME NEW i \in 1 .. n + 1, NEW j \in 1 .. n + 1, a[i] = a[j] PROVE i = j
  <2>1. CASE i = n + 1 /\ j = n + 1
    BY <2>1
  <2>2. CASE i = n + 1 /\ j \in 1 .. n
    BY <1>1, <1>3, <1>6, <1>8, <2>2
  <2>3. CASE i \in 1 .. n /\ j = n + 1
    BY <1>1, <1>3, <1>6, <1>8, <2>3
  <2>4. CASE i \in 1 .. n /\ j \in 1 .. n
    BY <1>3, <1>6, <1>8, <2>4 DEF Listed
  <2> QED
    BY <1>5, <2>1, <2>2, <2>3, <2>4
<1>9. ASSUME NEW d \in E PROVE \E i \in 1 .. n + 1 : a[i] = d
  <2>1. CASE d = key
    BY <1>3, <1>7, <2>1
  <2>2. CASE d \in D
    BY <1>1, <1>3, <1>6, <2>2 DEF Listed
  <2> QED
    BY <2>1, <2>2
<1> QED
  BY <1>3, <1>4, <1>8, <1>9 DEF Listed, a

-----------------------------------------------------------------------------
(* ---- the threads and the cache.                                       *)
\* A result says, of what it was made of, what it has to say.
Faithful(asked, result) ==
    /\ result.source \in Seq(Talk) /\ asked \in Seq(Talk)
    /\ CollapsedAll(asked) = CollapsedAll(result.source)
    /\ result.strategy # "summarize" =>
         InstructionsIn(asked, result.sent) /\ InstructionsIn(result.source, result.sent)

KnownStrategies == {"dedup", "prune", "summarize", "auto"}
ToCompress(job) == job.at = "compress" /\ job.messages \in Seq(Talk) /\ job.strategy \in KnownStrategies
ToStore(job) == job.at = "store" /\ job.messages = job.result.source /\ Faithful(job.asked, job.result)
JobsFaithful == \A c \in Callers : compressing[c] = Quiet \/ ToCompress(compressing[c]) \/ ToStore(compressing[c])
EntriesFaithful ==
    \A key \in DOMAIN cache : /\ cache[key].result.source = key /\ Faithful(key, cache[key].result)
                              /\ cache[key].at \in Nat /\ cache[key].at <= cacheClock
CacheFits == Listed(accessOrder, DOMAIN cache) /\ Len(accessOrder) <= compressConfig.cacheSize
Between(x, a, b) == (a <= x /\ x <= b) \/ (b <= x /\ x <= a)
RatioFits == ratio \in Nat /\ Between(ratio, compressConfig.minRatio, compressConfig.maxRatio)
AnswerFaithful ==
    returned # Quiet => /\ Faithful(returned.asked, returned.result)
                        /\ returned.age > 0 => returned.age < Lifetime
CompressIInv ==
    /\ compressConfig \in Configs /\ cacheClock \in Nat /\ DOMAIN compressing = Callers
    /\ JobsFaithful /\ EntriesFaithful /\ CacheFits /\ RatioFits /\ AnswerFaithful

LEMMA ConfigIs ==
    ASSUME CompressIInv
    PROVE  /\ compressConfig.strategy \in KnownStrategies /\ compressConfig.cacheSize \in Nat \ {0}
           /\ compressConfig.minRatio \in Nat /\ compressConfig.maxRatio \in Nat /\ Lifetime \in Nat
BY CompressAssumption DEF CompressIInv, KnownStrategies

LEMMA QuietIs == Quiet.at = "quiet"
BY DEF Quiet

LEMMA CompressInitial ==
    ASSUME CompressInit PROVE CompressIInv
<1>1. /\ compressConfig \in Configs /\ compressing = [c \in Callers |-> Quiet] /\ cacheClock = 0
      /\ cache = << >> /\ accessOrder = << >> /\ returned = Quiet
      /\ ratio = (compressConfig.minRatio + compressConfig.maxRatio) \div 2
  BY DEF CompressInit
<1>2. /\ compressConfig.cacheSize \in Nat \ {0}
      /\ compressConfig.minRatio \in Nat /\ compressConfig.maxRatio \in Nat
  BY <1>1, CompressAssumption
<1>3. DOMAIN cache = {}
  BY <1>1
<1>4. Listed(accessOrder, DOMAIN cache)
  <2>1. << >> \in Seq({}) /\ DOMAIN << >> = {}
    BY EmptySeq
  <2>2. Listed(<< >>, {})
    BY <2>1 DEF Listed
  <2> QED
    BY <1>1, <1>3, <2>2
<1>5. Len(accessOrder) <= compressConfig.cacheSize
  <2>1. Len(accessOrder) = 0
    BY <1>1, EmptySeq
  <2> QED
    BY <1>2, <2>1
<1>6. RatioFits
  <2> DEFINE a == compressConfig.minRatio
             b == compressConfig.maxRatio
  <2>1. a \in Nat /\ b \in Nat
    BY <1>2
  <2>2. ratio = (a + b) \div 2
    BY <1>1
  <2> HIDE DEF a, b
  <2>3. ratio \in Nat /\ Between(ratio, a, b)
    <3> DEFINE m == (a + b) \div 2
    <3>1. CASE a <= b
      <4>1. a <= m /\ m <= b /\ m \in Nat
        BY <2>1, <3>1
      <4> QED
        BY <2>2, <4>1 DEF Between
    <3>2. CASE ~(a <= b)
      <4>1. b <= m /\ m <= a /\ m \in Nat
        BY <2>1, <3>2
      <4> QED
        BY <2>2, <4>1 DEF Between
    <3> QED
      BY <3>1, <3>2
  <2> QED
    BY <2>3 DEF RatioFits, a, b
<1>7. JobsFaithful /\ EntriesFaithful /\ AnswerFaithful
  BY <1>1, <1>3 DEF JobsFaithful, EntriesFaithful, AnswerFaithful
<1> QED
  BY <1>1, <1>4, <1>5, <1>6, <1>7 DEF CompressIInv, CacheFits

LEMMA SelectedIs ==
    ASSUME CompressIInv, NEW messages
    PROVE  SelectStrategy(messages) \in KnownStrategies
<1>1. compressConfig.strategy \in KnownStrategies
  BY ConfigIs
<1> DEFINE A == compressConfig.strategy # "auto"
           B == 100 * Cardinality(Repeats(messages)) > 15 * Len(messages)
           C == Max({SizeOf(messages[i].text) : i \in DOMAIN messages}) > 3000 \/ Characters(messages) > 1000 * Len(messages)
           D == Len(messages) > compressConfig.maxMessages
           s == compressConfig.strategy
<1>2. SelectStrategy(messages) =
        CASE A -> s [] B -> "dedup" [] C -> "prune" [] D -> "summarize" [] OTHER -> "auto"
  BY DEF SelectStrategy
<1> HIDE DEF A, B, C, D, s
<1>3. SelectStrategy(messages) \in {s, "dedup", "prune", "summarize", "auto"}
  BY <1>2
<1> QED
  BY <1>1, <1>3 DEF KnownStrategies, s

LEMMA GetRatioIs ==
    ASSUME CompressIInv
    PROVE  GetRatio \in Nat /\ Between(GetRatio, compressConfig.minRatio, compressConfig.maxRatio)
<1> DEFINE a == compressConfig.minRatio
           b == compressConfig.maxRatio
           x == Max({a, ratio - 5})
           y == Min({b, ratio + 5})
           q == Average(qualities)
           P == Len(qualities) < 3
           Q == q > 850
           R == q < 600
<1>1. a \in Nat /\ b \in Nat /\ ratio \in Nat /\ Between(ratio, a, b)
  BY ConfigIs DEF CompressIInv, RatioFits
<1>2. GetRatio = CASE P -> ratio [] Q -> x [] R -> y [] OTHER -> ratio
  BY DEF GetRatio
<1> HIDE DEF P, Q, R, q, x, y, a, b
<1>3. GetRatio \in {ratio, x, y}
  BY <1>2
<1>4. x \in {a, ratio - 5} /\ a <= x /\ ratio - 5 <= x
  <2>1. {a, ratio - 5} \in SUBSET Int /\ {a, ratio - 5} # {}
    BY <1>1
  <2>2. IsFiniteSet({a, ratio - 5})
    <3>1. IsFiniteSet({a})
      BY FS_Singleton
    <3>2. IsFiniteSet({a} \cup {ratio - 5})
      BY <3>1, FS_AddElement
    <3>3. {a} \cup {ratio - 5} = {a, ratio - 5}
      OBVIOUS
    <3> QED
      BY <3>2, <3>3
  <2> QED
    BY <2>1, <2>2, MaxIs DEF x
<1>5. y \in {b, ratio + 5} /\ y <= b /\ y <= ratio + 5
  <2>1. CASE b <= ratio + 5
    <3>1. b \in {b, ratio + 5} /\ \A z \in {b, ratio + 5} : b <= z
      BY <1>1, <2>1
    <3>2. y \in {b, ratio + 5} /\ \A z \in {b, ratio + 5} : y <= z
      BY <3>1 DEF Min, y
    <3> QED
      BY <3>2
  <2>2. CASE ~(b <= ratio + 5)
    <3>1. ratio + 5 \in {b, ratio + 5} /\ \A z \in {b, ratio + 5} : ratio + 5 <= z
      BY <1>1, <2>2
    <3>2. y \in {b, ratio + 5} /\ \A z \in {b, ratio + 5} : y <= z
      BY <3>1 DEF Min, y
    <3> QED
      BY <3>2
  <2> QED
    BY <2>1, <2>2
<1>6. GetRatio \in Nat /\ Between(GetRatio, a, b)
  <2>1. CASE GetRatio = ratio
    BY <1>1, <2>1
  <2>2. CASE GetRatio = x
    BY <1>1, <1>4, <2>2 DEF Between
  <2>3. CASE GetRatio = y
    <3>1. CASE y = b
      BY <1>1, <2>3, <3>1 DEF Between
    <3>2. CASE y = ratio + 5
      <4>1. ratio + 5 <= b
        BY <1>5, <3>2
      <4>2. a <= ratio
        BY <1>1, <4>1 DEF Between
      <4>3. a <= ratio + 5 /\ ratio + 5 \in Nat
        BY <1>1, <4>2
      <4> QED
        BY <2>3, <3>2, <4>1, <4>3 DEF Between
    <3> QED
      BY <1>5, <3>1, <3>2
  <2> QED
    BY <1>3, <2>1, <2>2, <2>3
<1> QED
  BY <1>6 DEF a, b

LEMMA CacheHit ==
    ASSUME CompressIInv, NEW c \in Callers, NEW messages \in Conversations,
           messages \in DOMAIN cache, ~Expired(messages),
           accessOrder' = Append(Without(accessOrder, messages), messages),
           Return(messages, cacheClock - cache[messages].at, cache[messages].result),
           UNCHANGED <<compressing, cache>>, UNCHANGED <<compressConfig, cacheClock, ratio, qualities>>
    PROVE  CompressIInv'
<1> DEFINE D == DOMAIN cache
           rest == Without(accessOrder, messages)
<1>1. Listed(accessOrder, D)
  BY DEF CompressIInv, CacheFits
<1>2. Listed(rest, D \ {messages})
  BY <1>1, WithoutIs
<1>3. Listed(accessOrder', (D \ {messages}) \cup {messages})
  <2> HIDE DEF D, rest
  <2> QED
    BY <1>2, AppendedIs DEF rest
<1>4. (D \ {messages}) \cup {messages} = D
  OBVIOUS
<1>5. Listed(accessOrder', D)
  BY <1>3, <1>4
<1>6. Len(accessOrder') = Len(accessOrder)
  <2> HIDE DEF D
  <2> QED
    BY <1>1, <1>5, ListedIs
<1>7. CacheFits'
  <2>1. cache' = cache /\ compressConfig' = compressConfig
    OBVIOUS
  <2> QED
    BY <1>5, <1>6, <2>1 DEF CacheFits, CompressIInv
<1> DEFINE e == cache[messages]
<1>8. Faithful(messages, e.result) /\ e.at \in Nat /\ e.at <= cacheClock
  BY DEF CompressIInv, EntriesFaithful
<1>9. ~(cacheClock - e.at >= Lifetime) /\ Lifetime \in Nat /\ cacheClock \in Nat
  BY ConfigIs DEF Expired, CompressIInv
<1>10. returned'.asked = messages /\ returned'.age = cacheClock - e.at /\ returned'.result = e.result
  BY DEF Return
<1> HIDE DEF e
<1>11. returned'.age < Lifetime
  BY <1>8, <1>9, <1>10
<1>12. AnswerFaithful'
  BY <1>8, <1>10, <1>11 DEF AnswerFaithful, Faithful
<1>13. RatioFits' /\ JobsFaithful' /\ EntriesFaithful'
  BY DEF CompressIInv, RatioFits, JobsFaithful, EntriesFaithful
<1> QED
  BY <1>7, <1>12, <1>13 DEF CompressIInv

LEMMA FaithfulToItself ==
    ASSUME NEW messages \in Seq(Talk), NEW result, result.source = messages, result.sent = messages
    PROVE  Faithful(messages, result)
<1>1. InstructionsIn(messages, messages)
  BY CarriedRefl, CarriedSays
<1> QED
  BY <1>1 DEF Faithful

LEMMA CachePassed ==
    ASSUME CompressIInv, NEW messages \in Conversations,
           Return(messages, 0, Untouched(messages, AssessQuality(messages, messages))),
           UNCHANGED <<compressing, cache, accessOrder>>, UNCHANGED <<compressConfig, cacheClock, ratio, qualities>>
    PROVE  CompressIInv'
<1>1. messages \in Seq(Talk)
  BY ConversationsTyped
<1> DEFINE r == Untouched(messages, AssessQuality(messages, messages))
<1>2. r.source = messages /\ r.sent = messages
  BY DEF Untouched
<1>3. returned'.asked = messages /\ returned'.age = 0 /\ returned'.result = r
  BY DEF Return
<1> HIDE DEF r
<1>4. Faithful(messages, r)
  BY <1>1, <1>2, FaithfulToItself
<1>5. AnswerFaithful'
  BY <1>3, <1>4 DEF AnswerFaithful, Faithful
<1>6. RatioFits' /\ JobsFaithful' /\ EntriesFaithful' /\ CacheFits'
  BY DEF CompressIInv, RatioFits, JobsFaithful, EntriesFaithful, CacheFits, Listed
<1> QED
  BY <1>5, <1>6 DEF CompressIInv

LEMMA CacheMissed ==
    ASSUME CompressIInv, NEW c \in Callers, NEW messages \in Conversations,
           cache' = [k \in DOMAIN cache \ {messages} |-> cache[k]],
           accessOrder' = Without(accessOrder, messages),
           compressing' = [compressing EXCEPT ![c] =
               [at |-> "compress", messages |-> messages, strategy |-> SelectStrategy(messages)]],
           UNCHANGED returned, UNCHANGED <<compressConfig, cacheClock, ratio, qualities>>
    PROVE  CompressIInv'
<1> DEFINE D == DOMAIN cache
           E == D \ {messages}
           job == [at |-> "compress", messages |-> messages, strategy |-> SelectStrategy(messages)]
<1>1. Listed(accessOrder, D) /\ Len(accessOrder) <= compressConfig.cacheSize /\ compressConfig.cacheSize \in Nat
  BY ConfigIs DEF CompressIInv, CacheFits
<1>2. Listed(accessOrder', E)
  BY <1>1, WithoutIs
<1>3. DOMAIN cache' = E /\ \A k \in E : cache'[k] = cache[k]
  OBVIOUS
<1>4. Len(accessOrder') <= Len(accessOrder) /\ Len(accessOrder') \in Nat /\ Len(accessOrder) \in Nat
  <2> HIDE DEF D, E
  <2>1. IsFiniteSet(D) /\ Cardinality(D) = Len(accessOrder) /\ Len(accessOrder) \in Nat
    BY <1>1, ListedIs
  <2>2. Cardinality(E) = Len(accessOrder') /\ Len(accessOrder') \in Nat
    BY <1>2, ListedIs
  <2>3. E \in SUBSET D
    BY DEF E
  <2>4. Cardinality(E) <= Cardinality(D)
    BY <2>1, <2>3, FS_Subset
  <2> QED
    BY <2>1, <2>2, <2>4
<1>5. CacheFits'
  <2>1. compressConfig' = compressConfig
    OBVIOUS
  <2>2. Len(accessOrder') <= compressConfig.cacheSize
    BY <1>1, <1>4
  <2> QED
    BY <1>2, <1>3, <2>1, <2>2 DEF CacheFits
<1>6. EntriesFaithful'
  <2>1. cacheClock' = cacheClock
    OBVIOUS
  <2> QED
    BY <1>3, <2>1 DEF EntriesFaithful, CompressIInv
<1>7. ToCompress(job)
  BY ConversationsTyped, SelectedIs DEF ToCompress
<1>8. DOMAIN compressing = Callers
  BY DEF CompressIInv
<1>9. DOMAIN compressing' = Callers /\ \A d \in Callers : compressing'[d] = IF d = c THEN job ELSE compressing[d]
  BY <1>8
<1> HIDE DEF job
<1>10. JobsFaithful'
  <2> SUFFICES ASSUME NEW d \in Callers
               PROVE  compressing'[d] = Quiet \/ ToCompress(compressing'[d]) \/ ToStore(compressing'[d])
    BY DEF JobsFaithful
  <2>1. compressing[d] = Quiet \/ ToCompress(compressing[d]) \/ ToStore(compressing[d])
    BY DEF CompressIInv, JobsFaithful
  <2> QED
    BY <1>7, <1>9, <2>1
<1>11. RatioFits' /\ AnswerFaithful'
  BY DEF CompressIInv, RatioFits, AnswerFaithful
<1> QED
  BY <1>5, <1>6, <1>9, <1>10, <1>11 DEF CompressIInv

LEMMA LookUpKeeps ==
    ASSUME CompressIInv, NEW c \in Callers, LookUp(c) PROVE CompressIInv'
<1>1. PICK messages \in Conversations :
        /\ \/ /\ Return(messages, 0, Untouched(messages, AssessQuality(messages, messages)))
              /\ UNCHANGED <<compressing, cache, accessOrder>>
           \/ /\ messages \in DOMAIN cache /\ ~Expired(messages)
              /\ accessOrder' = Append(Without(accessOrder, messages), messages)
              /\ Return(messages, cacheClock - cache[messages].at, cache[messages].result)
              /\ UNCHANGED <<compressing, cache>>
           \/ /\ cache' = [k \in DOMAIN cache \ {messages} |-> cache[k]]
              /\ accessOrder' = Without(accessOrder, messages)
              /\ compressing' = [compressing EXCEPT ![c] =
                     [at |-> "compress", messages |-> messages, strategy |-> SelectStrategy(messages)]]
              /\ UNCHANGED returned
        /\ UNCHANGED <<compressConfig, cacheClock, ratio, qualities>>
  BY Zenon DEF LookUp, CacheKey
<1> QED
  BY <1>1, CachePassed, CacheHit, CacheMissed

LEMMA WorkFaithful ==
    ASSUME NEW ms \in Seq(Talk), NEW strategy \in KnownStrategies, NEW target, NEW kept \in BOOLEAN, NEW result,
           result.source = LeftBehind(ms, strategy), result.strategy = strategy,
           result.sent = IF kept THEN Compress(ms, strategy, target) ELSE LeftBehind(ms, strategy)
    PROVE  Faithful(ms, result)
<1> DEFINE now == LeftBehind(ms, strategy)
           made == Compress(ms, strategy, target)
<1>1. now \in Seq(Talk) /\ CollapsedAll(now) = CollapsedAll(ms)
  BY LeftBehindIs
<1>2. ASSUME strategy # "summarize", NEW asked \in {ms, now}
      PROVE  InstructionsIn(asked, made) /\ InstructionsIn(asked, now)
  <2>1. strategy \in {"dedup", "prune", "auto"}
    BY <1>2 DEF KnownStrategies
  <2> QED
    BY <1>2, <2>1, CompressSays
<1> HIDE DEF now, made
<1>3. result.source = now /\ result.sent \in {made, now}
  BY DEF now, made
<1>4. strategy # "summarize" => InstructionsIn(ms, result.sent) /\ InstructionsIn(now, result.sent)
  BY <1>2, <1>3
<1> QED
  BY <1>1, <1>3, <1>4 DEF Faithful

LEMMA WorkKeeps ==
    ASSUME CompressIInv, NEW c \in Callers, Work(c) PROVE CompressIInv'
<1> DEFINE job == compressing[c]
           ms == job.messages
           strategy == job.strategy
           now == LeftBehind(ms, strategy)
           adaptive == compressConfig.adaptive /\ compressConfig.strategy = "auto"
           Result(sent, kept, before, after, saved, q) ==
             [source |-> now, sent |-> IF kept THEN sent ELSE now, strategy |-> strategy,
              before |-> before, after |-> IF kept THEN after ELSE before,
              saved |-> saved, skipped |-> ~kept, quality |-> q]
           Stored(r) == [at |-> "store", asked |-> ms, messages |-> now, result |-> r]
<1>1. job.at = "compress" /\ UNCHANGED <<compressConfig, compressed, cacheClock, cache, accessOrder, returned>>
  BY DEF Work
<1>2. \E target \in {IF adaptive THEN GetRatio ELSE compressConfig.target} :
        \E sent \in {Compress(ms, strategy, target)} : \E before, after, saved, q : \E kept \in BOOLEAN :
          /\ ratio' = IF adaptive THEN target ELSE ratio
          /\ compressing' = [compressing EXCEPT ![c] = Stored(Result(sent, kept, before, after, saved, q))]
  <2> DEFINE kept(q) == q >= compressConfig.minQuality
             saved(q, before, after) == IF kept(q) THEN Max({0, before - after}) ELSE 0
             P(target, before, sent, q, after) ==
               /\ ratio' = IF adaptive THEN target ELSE ratio
               /\ qualities' = IF compressConfig.adaptive
                               THEN Update(Result(sent, kept(q), before, after, saved(q, before, after), q)) ELSE qualities
               /\ compressing' = [compressing EXCEPT ![c] = Stored(Result(sent, kept(q), before, after, saved(q, before, after), q))]
  <2>1. \E target \in {IF adaptive THEN GetRatio ELSE compressConfig.target}, before \in {CountTokens(ms)} :
          \E sent \in {Compress(ms, strategy, target)} :
            \E q \in {AssessQuality(now, sent)}, after \in {CountTokens(sent)} : P(target, before, sent, q, after)
    BY DEF Work
  <2>2. \A target, before, sent, q, after : P(target, before, sent, q, after) =>
          /\ kept(q) \in BOOLEAN
          /\ ratio' = IF adaptive THEN target ELSE ratio
          /\ compressing' = [compressing EXCEPT ![c] = Stored(Result(sent, kept(q), before, after, saved(q, before, after), q))]
    OBVIOUS
  <2> HIDE DEF P, kept, saved, Stored, Result, adaptive
  <2> QED
    BY <2>1, <2>2
<1>3. PICK target \in {IF adaptive THEN GetRatio ELSE compressConfig.target} :
        \E sent \in {Compress(ms, strategy, target)} : \E before, after, saved, q : \E kept \in BOOLEAN :
          /\ ratio' = IF adaptive THEN target ELSE ratio
          /\ compressing' = [compressing EXCEPT ![c] = Stored(Result(sent, kept, before, after, saved, q))]
  BY <1>2
<1>4. PICK before, after, saved, q : \E kept \in BOOLEAN :
          /\ ratio' = IF adaptive THEN target ELSE ratio
          /\ compressing' = [compressing EXCEPT ![c] =
               Stored(Result(Compress(ms, strategy, target), kept, before, after, saved, q))]
  <2> HIDE DEF Stored, Result, adaptive
  <2> QED
    BY <1>3
<1>5. PICK kept \in BOOLEAN :
          /\ ratio' = IF adaptive THEN target ELSE ratio
          /\ compressing' = [compressing EXCEPT ![c] =
               Stored(Result(Compress(ms, strategy, target), kept, before, after, saved, q))]
  BY <1>4
<1> DEFINE r == Result(Compress(ms, strategy, target), kept, before, after, saved, q)
           done == Stored(r)
<1>6. ToCompress(job)
  <2>1. job # Quiet
    BY <1>1, QuietIs
  <2>2. ~ToStore(job)
    BY <1>1 DEF ToStore
  <2> HIDE DEF job
  <2> QED
    BY <2>1, <2>2 DEF CompressIInv, JobsFaithful, job
<1>7. ms \in Seq(Talk) /\ strategy \in KnownStrategies
  BY <1>6 DEF ToCompress
<1>8. r.source = now /\ r.strategy = strategy /\ r.sent = IF kept THEN Compress(ms, strategy, target) ELSE now
  OBVIOUS
<1>9. done.at = "store" /\ done.asked = ms /\ done.messages = now /\ done.result = r
  OBVIOUS
<1>10. DOMAIN compressing' = Callers /\ \A d \in Callers : compressing'[d] = IF d = c THEN done ELSE compressing[d]
  <2>1. DOMAIN compressing = Callers
    BY DEF CompressIInv
  <2>2. compressing' = [compressing EXCEPT ![c] = done]
    BY <1>5
  <2> HIDE DEF done
  <2> QED
    BY <2>1, <2>2
<1> HIDE DEF done, r
<1>11. ToStore(done)
  <2>1. Faithful(ms, r)
    <3> HIDE DEF ms, strategy
    <3> QED
      BY <1>7, <1>8, WorkFaithful
  <2> QED
    BY <1>8, <1>9, <2>1 DEF ToStore
<1>12. JobsFaithful'
  <2> SUFFICES ASSUME NEW d \in Callers
               PROVE  compressing'[d] = Quiet \/ ToCompress(compressing'[d]) \/ ToStore(compressing'[d])
    BY DEF JobsFaithful
  <2>1. compressing[d] = Quiet \/ ToCompress(compressing[d]) \/ ToStore(compressing[d])
    BY DEF CompressIInv, JobsFaithful
  <2> QED
    BY <1>10, <1>11, <2>1
<1>13. RatioFits'
  <2>1. RatioFits
    BY DEF CompressIInv
  <2>2. GetRatio \in Nat /\ Between(GetRatio, compressConfig.minRatio, compressConfig.maxRatio)
    BY GetRatioIs
  <2>3. ratio' = ratio \/ ratio' = GetRatio
    BY <1>5
  <2>4. compressConfig' = compressConfig
    BY <1>1
  <2> QED
    BY <2>1, <2>2, <2>3, <2>4 DEF RatioFits
<1>14. EntriesFaithful' /\ CacheFits' /\ AnswerFaithful'
  BY <1>1 DEF CompressIInv, EntriesFaithful, CacheFits, AnswerFaithful
<1> QED
  BY <1>1, <1>10, <1>12, <1>13, <1>14 DEF CompressIInv

LEMMA StoreKeeps ==
    ASSUME CompressIInv, NEW c \in Callers, Store(c) PROVE CompressIInv'
<1> DEFINE job == compressing[c]
           key == job.messages
           D == DOMAIN cache
           full == key \notin D /\ Cardinality(D) >= compressConfig.cacheSize
           kept == IF full THEN D \ {Head(accessOrder)} ELSE D
           left == IF full THEN Tail(accessOrder) ELSE accessOrder
           entry == [at |-> cacheClock, result |-> job.result]
<1>1. /\ job.at = "store"
      /\ cache' = [k \in kept \cup {key} |-> IF k = key THEN entry ELSE cache[k]]
      /\ accessOrder' = Append(Without(left, key), key)
      /\ Return(job.asked, 0, job.result)
      /\ compressing' = [compressing EXCEPT ![c] = Quiet]
      /\ UNCHANGED <<compressConfig, compressed, cacheClock, ratio, qualities>>
  BY DEF Store, Cached, CacheKey
<1>2. ToStore(job)
  <2>1. job # Quiet
    BY <1>1, QuietIs
  <2>2. ~ToCompress(job)
    BY <1>1 DEF ToCompress
  <2> HIDE DEF job
  <2> QED
    BY <2>1, <2>2 DEF CompressIInv, JobsFaithful, job
<1>3. Faithful(job.asked, job.result) /\ key = job.result.source
  BY <1>2 DEF ToStore
<1>4. Faithful(key, job.result)
  <2> HIDE DEF job
  <2>1. job.result.source \in Seq(Talk)
    BY <1>3 DEF Faithful
  <2> QED
    BY <1>3, <2>1 DEF Faithful
<1>5. DOMAIN cache' = kept \cup {key} /\ \A k \in kept \cup {key} : cache'[k] = IF k = key THEN entry ELSE cache[k]
  <2> HIDE DEF kept, key, entry
  <2> QED
    BY <1>1
<1>6. kept \in SUBSET D
  OBVIOUS
<1>7. entry.at = cacheClock /\ entry.result = job.result
  OBVIOUS
<1>8. cacheClock \in Nat /\ cacheClock' = cacheClock /\ compressConfig' = compressConfig
  BY <1>1 DEF CompressIInv
<1> DEFINE size == compressConfig.cacheSize
<1>9. size \in Nat \ {0}
  BY ConfigIs
<1>10. Listed(accessOrder, D) /\ Len(accessOrder) <= size
  BY DEF CompressIInv, CacheFits
<1>11. IsFiniteSet(D) /\ Cardinality(D) \in Nat /\ Cardinality(D) <= size
  <2> HIDE DEF D, size
  <2> QED
    BY <1>10, ListedIs
<1>12. Listed(left, kept) /\ (key \notin kept => Cardinality(kept) < size) /\ IsFiniteSet(kept)
  <2>1. CASE full
    <3>1. Len(accessOrder) = Cardinality(D)
      <4> HIDE DEF D
      <4> QED
        BY <1>10, ListedIs
    <3>2. accessOrder # << >>
      BY <1>9, <1>11, <2>1, <3>1, EmptySeq
    <3>3. Listed(Tail(accessOrder), D \ {Head(accessOrder)}) /\ Head(accessOrder) \in D
      <4> HIDE DEF D
      <4> QED
        BY <1>10, <3>2, TailIs
    <3>4. kept = D \ {Head(accessOrder)} /\ left = Tail(accessOrder)
      BY <2>1
    <3> DEFINE h == Head(accessOrder)
    <3> HIDE DEF D, kept, left, h, full
    <3>5. IsFiniteSet(D \ {h}) /\ Cardinality(D \ {h}) = Cardinality(D) - 1
      BY <1>11, <3>3, FS_RemoveElement DEF h
    <3>6. Cardinality(D) - 1 < size
      BY <1>9, <1>11
    <3> QED
      BY <3>3, <3>4, <3>5, <3>6 DEF h
  <2>2. CASE ~full
    <3>1. kept = D /\ left = accessOrder
      BY <2>2
    <3>2. key \notin D => ~(Cardinality(D) >= size)
      BY <2>2
    <3> HIDE DEF D, kept, left, key, full, size
    <3> QED
      BY <1>9, <1>10, <1>11, <3>1, <3>2
  <2> QED
    BY <2>1, <2>2
<1> HIDE DEF kept, left, full, key, entry, D, size
<1>13. Listed(accessOrder', kept \cup {key})
  <2>1. Listed(Without(left, key), kept \ {key})
    BY <1>12, WithoutIs
  <2>2. Listed(Append(Without(left, key), key), (kept \ {key}) \cup {key})
    BY <2>1, AppendedIs
  <2>3. (kept \ {key}) \cup {key} = kept \cup {key}
    OBVIOUS
  <2>4. Append(Without(left, key), key) = accessOrder'
    BY <1>1
  <2> QED
    BY <2>2, <2>3, <2>4
<1>14. Len(accessOrder') <= size
  <2>1. Len(accessOrder') = Cardinality(kept \cup {key})
    BY <1>13, ListedIs
  <2>2. CASE key \in kept
    <3>1. kept \cup {key} = kept
      BY <2>2
    <3>2. Cardinality(kept) <= Cardinality(D) /\ Cardinality(kept) \in Nat
      BY <1>6, <1>11, <1>12, FS_Subset, FS_CardinalityType
    <3>3. Len(accessOrder') = Cardinality(kept)
      BY <2>1, <3>1
    <3>4. size \in Nat /\ Cardinality(D) \in Nat /\ Cardinality(D) <= size
      BY <1>9, <1>11
    <3> DEFINE x == Cardinality(kept)
               y == Cardinality(D)
    <3> HIDE DEF x, y
    <3>5. x <= y /\ x \in Nat /\ y \in Nat /\ y <= size
      BY <3>2, <3>4 DEF x, y
    <3>6. x <= size
      BY <3>4, <3>5
    <3> QED
      BY <3>3, <3>6 DEF x
  <2>3. CASE key \notin kept
    <3>1. Cardinality(kept \cup {key}) = Cardinality(kept) + 1 /\ Cardinality(kept) \in Nat
      BY <1>12, <2>3, FS_AddElement, FS_CardinalityType
    <3> QED
      BY <1>9, <1>12, <2>1, <2>3, <3>1
  <2> QED
    BY <2>2, <2>3
<1>15. CacheFits'
  BY <1>5, <1>8, <1>13, <1>14 DEF CacheFits, size
<1>16. EntriesFaithful'
  <2> SUFFICES ASSUME NEW k \in kept \cup {key}
               PROVE  /\ cache'[k].result.source = k /\ Faithful(k, cache'[k].result)
                      /\ cache'[k].at \in Nat /\ cache'[k].at <= cacheClock
    BY <1>5, <1>8 DEF EntriesFaithful
  <2>1. CASE k = key
    BY <1>3, <1>4, <1>5, <1>7, <1>8, <2>1
  <2>2. CASE k # key
    <3>1. k \in D /\ cache'[k] = cache[k]
      BY <1>5, <1>6, <2>2
    <3> QED
      BY <3>1 DEF CompressIInv, EntriesFaithful, D
  <2> QED
    BY <2>1, <2>2
<1>17. DOMAIN compressing' = Callers /\ \A d \in Callers : compressing'[d] = IF d = c THEN Quiet ELSE compressing[d]
  <2>1. DOMAIN compressing = Callers
    BY DEF CompressIInv
  <2> QED
    BY <1>1, <2>1
<1>18. JobsFaithful'
  BY <1>17 DEF JobsFaithful, CompressIInv
<1>19. AnswerFaithful'
  <2>1. returned'.asked = job.asked /\ returned'.age = 0 /\ returned'.result = job.result
    BY <1>1 DEF Return
  <2> QED
    BY <1>3, <2>1 DEF AnswerFaithful
<1>20. RatioFits'
  BY <1>1 DEF RatioFits, CompressIInv
<1> QED
  BY <1>1, <1>8, <1>15, <1>16, <1>17, <1>18, <1>19, <1>20 DEF CompressIInv

LEMMA CacheTickKeeps ==
    ASSUME CompressIInv, CacheTick PROVE CompressIInv'
<1>1. /\ cacheClock' = cacheClock + 1
      /\ UNCHANGED <<compressConfig, compressing, compressed, cache, accessOrder, ratio, qualities, returned>>
  BY DEF CacheTick
<1>2. cacheClock \in Nat
  BY DEF CompressIInv
<1>3. EntriesFaithful'
  <2> SUFFICES ASSUME NEW key \in DOMAIN cache
               PROVE  /\ cache[key].result.source = key /\ Faithful(key, cache[key].result)
                      /\ cache[key].at \in Nat /\ cache[key].at <= cacheClock + 1
    BY <1>1 DEF EntriesFaithful
  <2>1. /\ cache[key].result.source = key /\ Faithful(key, cache[key].result)
        /\ cache[key].at \in Nat /\ cache[key].at <= cacheClock
    BY DEF CompressIInv, EntriesFaithful
  <2> QED
    BY <1>2, <2>1
<1>4. JobsFaithful' /\ CacheFits' /\ RatioFits' /\ AnswerFaithful'
  BY <1>1 DEF CompressIInv, JobsFaithful, CacheFits, RatioFits, AnswerFaithful
<1> QED
  BY <1>1, <1>2, <1>3, <1>4 DEF CompressIInv

LEMMA CompressStep ==
    ASSUME CompressIInv, [CompressNext]_compressVars PROVE CompressIInv'
<1>1. CASE CacheTick
  BY <1>1, CacheTickKeeps
<1>2. ASSUME NEW c \in Callers, LookUp(c) PROVE CompressIInv'
  BY <1>2, LookUpKeeps
<1>3. ASSUME NEW c \in Callers, Work(c) PROVE CompressIInv'
  BY <1>3, WorkKeeps
<1>4. ASSUME NEW c \in Callers, Store(c) PROVE CompressIInv'
  BY <1>4, StoreKeeps
<1>5. CASE UNCHANGED compressVars
  BY <1>5 DEF compressVars, CompressIInv, JobsFaithful, EntriesFaithful, CacheFits, RatioFits, AnswerFaithful
<1> QED
  BY <1>1, <1>2, <1>3, <1>4, <1>5 DEF CompressNext

LEMMA CompressSafe ==
    ASSUME CompressIInv PROVE CompressionSound
<1>1. OwnConversation
  BY DEF CompressIInv, AnswerFaithful, Faithful, OwnConversation
<1>2. InstructionsKept
  BY DEF CompressIInv, AnswerFaithful, Faithful, InstructionsKept
<1>3. CacheOrdered
  <2> DEFINE D == DOMAIN cache
             a == compressConfig.minRatio
             b == compressConfig.maxRatio
  <2>1. Listed(accessOrder, D) /\ Len(accessOrder) <= compressConfig.cacheSize
    BY DEF CompressIInv, CacheFits
  <2>2. ratio \in Nat /\ Between(ratio, a, b)
    BY DEF CompressIInv, RatioFits
  <2>3. a \in Nat /\ b \in Nat
    BY ConfigIs
  <2> HIDE DEF D, a, b
  <2>4. ToSet(accessOrder) = D /\ Len(accessOrder) = Cardinality(D)
    BY <2>1, ListedIs
  <2>5. ratio \in a .. b \/ ratio \in b .. a
    BY <2>2, <2>3 DEF Between
  <2> QED
    BY <2>1, <2>4, <2>5 DEF CacheOrdered, D, a, b
<1> QED
  BY <1>1, <1>2, <1>3 DEF CompressionSound

\* CompressionSound: whatever threads share the cache (compress_messages), what is
\* sent for a request is its own conversation with its instructions and its
\* question, and the cache and the adaptive ratio keep within their bounds.
THEOREM PromptsSound == CompressSpec => []CompressionSound
<1>1. CompressInit => CompressIInv
  BY CompressInitial
<1>2. CompressIInv /\ [CompressNext]_compressVars => CompressIInv'
  BY CompressStep
<1>3. CompressIInv => CompressionSound
  BY CompressSafe
<1> QED
  BY <1>1, <1>2, <1>3, PTL DEF CompressSpec

=============================================================================

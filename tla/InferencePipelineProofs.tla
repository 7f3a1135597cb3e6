----------------------- MODULE InferencePipelineProofs ----------------------
(***************************************************************************)
(* Proofs about the inference pipeline, for any number of runs, tenants,   *)
(* providers and switches, any portfolio and any cache size.               *)
(***************************************************************************)
EXTENDS InferencePipeline, Sums, SequenceTheorems, TLAPS

Places == {"idle", "arrived", "new", "begun", "intake", "prepared", "started", "replied", "passed",
           "accepting", "rejecting", "receipted", "settled", "refused", "cached"} \cup Ended

\* From the moment the switches and the cache let it through to its answer.
Admitted == {"new", "begun", "intake", "prepared", "started", "replied", "passed",
             "accepting", "rejecting", "receipted", "settled", "refused", "cached"}

\* What a thread's step leaves of the other threads, and of what it never writes.
Frame(r) ==
    /\ \A q \in Runs \ {r} : /\ pc'[q] = pc[q] /\ answer'[q] = answer[q] /\ source'[q] = source[q]
                             /\ messages'[q] = messages[q] /\ verdict'[q] = verdict[q]
                             /\ paid'[q] = paid[q]
    /\ UNCHANGED <<req, killed, killedAt, deleting>>

Keep(r) == answer'[r] = answer[r] /\ source'[r] = source[r]

\* One step of a thread on its way from the switches to the answer.
Advances(r) ==
    \/ pc[r] = "new" /\ pc'[r] = "begun"
    \/ pc[r] = "begun" /\ pc'[r] = "intake"
    \/ pc[r] = "intake" /\ pc'[r] = "prepared"
    \/ pc[r] = "prepared" /\ pc'[r] = "started"
    \/ pc[r] = "started" /\ pc'[r] \in {"started", "replied"}
    \/ pc[r] = "replied" /\ pc'[r] = "started"
    \/ pc[r] = "replied" /\ pc'[r] = "passed" /\ verdict[r] = "passed"
    \/ pc[r] = "passed" /\ pc'[r] = "accepting"
    \/ pc[r] \in {"prepared", "replied"} /\ pc'[r] = "rejecting"
    \/ pc[r] \in {"accepting", "rejecting"} /\ pc'[r] = "receipted"
    \/ pc[r] = "receipted" /\ pc'[r] \in {"settled", "refused"}
    \/ pc[r] = "settled" /\ pc'[r] = "cached"

\* Where a thread's step takes it, and what the client then gets.
Moves(r) ==
    /\ messages'[r] = IF pc[r] = "intake" /\ pc'[r] = "prepared" THEN Compress[messages[r]] ELSE messages[r]
    /\ paid'[r] # paid[r] => pc[r] = "started"
    /\ \/ pc[r] = "arrived" /\ ~Off(r) /\ pc'[r] = "new" /\ Keep(r)
       \/ /\ pc[r] = "arrived" /\ ~Off(r) /\ pc'[r] = "ended" /\ answer'[r] = "hit"
          /\ \E i \in Hits(r) : source'[r] = cache[i].run
       \/ Advances(r) /\ Keep(r)
       \/ /\ pc[r] \in {"arrived"} \cup Admitted /\ pc'[r] = "ended"
          /\ answer'[r] \in {"422", "424", "500", "503"} /\ source'[r] = source[r]
       \/ pc[r] = "cached" /\ pc'[r] = "ended" /\ answer'[r] = "fresh" /\ source'[r] = r

\* An entry enters the cache only for a run that has its receipt.
CacheFrom(r) ==
    \A k \in 1 .. Len(cache') :
        \/ \E j \in 1 .. Len(cache) : cache'[k] = cache[j]
        \/ pc[r] = "settled" /\ cache'[k] = [key |-> Key(r), run |-> r]

\* The entries of the cache: the key of a request and the run that answered it.
KeyOf(q) == <<q.messages, q.local, q.risk, q.valid, q.clear, q.project, q.tenant>>
Entry == [key : {KeyOf(q) : q \in Requests}, run : Runs]

ThreadTypes ==
    /\ req \in [Runs -> Requests]
    /\ pc \in [Runs -> Places]
    /\ answer \in [Runs -> {"none", "fresh", "hit", "422", "424", "500", "503"}]
    /\ source \in [Runs -> Runs \cup {0}]
    /\ messages \in [Runs -> DOMAIN Compress]
    /\ verdict \in [Runs -> {"none", "passed", "failed"}]
    /\ paid \in [Runs -> BOOLEAN]
    /\ killedAt \in [Runs -> SUBSET Switches] /\ killed \subseteq Switches
    /\ cache \in Seq(Entry)

LEMMA KeyType ==
    ASSUME ThreadTypes, NEW r \in Runs
    PROVE  Key(r) \in {KeyOf(q) : q \in Requests}
<1>. DEFINE q == [req[r] EXCEPT !.messages = messages[r]]
<1>1. req[r] \in Requests /\ messages[r] \in DOMAIN Compress
  BY DEF ThreadTypes
<1>2. q \in Requests
  BY <1>1 DEF Requests
<1>3. /\ q.messages = messages[r] /\ q.local = req[r].local /\ q.risk = req[r].risk
      /\ q.valid = req[r].valid /\ q.clear = req[r].clear /\ q.tenant = req[r].tenant
      /\ q.project = req[r].project
  BY <1>1 DEF Requests
<1>4. Key(r) = KeyOf(q)
  BY <1>3 DEF Key, KeyOf
<1>. QED BY <1>2, <1>4

LEMMA EntryRun ==
    ASSUME ThreadTypes, NEW i \in 1 .. Len(cache)
    PROVE  cache[i] \in Entry /\ cache[i].run \in Runs
<1>1. cache[i] \in Entry
  BY ElementOfSeq DEF ThreadTypes
<1>. QED BY <1>1 DEF Entry

\* An entry that is dropped leaves the others as they were.
LEMMA DropOne ==
    ASSUME NEW S, NEW s \in Seq(S), NEW i \in 1 .. Len(s)
    PROVE  /\ RemoveAt(s, i) \in Seq(S)
           /\ \A k \in 1 .. Len(RemoveAt(s, i)) : \E j \in 1 .. Len(s) : RemoveAt(s, i)[k] = s[j]
<1>. DEFINE a == SubSeq(s, 1, i - 1)
            b == SubSeq(s, i + 1, Len(s))
<1>0. Len(s) \in Nat /\ i \in Int /\ \A k \in 1 .. Len(s) : s[k] \in S
  BY LenProperties, ElementOfSeq
<1>1. a \in Seq(S) /\ Len(a) = i - 1 /\ \A k \in 1 .. (i - 1) : a[k] = s[k]
  <2>1. \A k \in 1 .. (i - 1) : s[k] \in S
    BY <1>0
  <2>2. /\ a \in Seq(S) /\ Len(a) = IF 1 <= i - 1 THEN i - 1 - 1 + 1 ELSE 0
        /\ \A k \in 1 .. i - 1 - 1 + 1 : a[k] = s[1 + k - 1]
    BY <1>0, <2>1, SubSeqProperties
  <2>. QED BY <1>0, <2>2
<1>2. b \in Seq(S) /\ Len(b) = Len(s) - i /\ \A k \in 1 .. (Len(s) - i) : b[k] = s[i + k]
  <2>1. \A k \in (i + 1) .. Len(s) : s[k] \in S
    BY <1>0
  <2>2. /\ b \in Seq(S) /\ Len(b) = IF i + 1 <= Len(s) THEN Len(s) - (i + 1) + 1 ELSE 0
        /\ \A k \in 1 .. Len(s) - (i + 1) + 1 : b[k] = s[(i + 1) + k - 1]
    BY <1>0, <2>1, SubSeqProperties
  <2>. QED BY <1>0, <2>2
<1>. HIDE DEF a, b
<1>3. /\ a \o b \in Seq(S) /\ Len(a \o b) = Len(s) - 1
      /\ \A k \in 1 .. Len(s) - 1 : (a \o b)[k] = IF k <= i - 1 THEN a[k] ELSE b[k - (i - 1)]
  <2>1. /\ a \o b \in Seq(S) /\ Len(a \o b) = Len(a) + Len(b)
        /\ \A k \in 1 .. Len(a) + Len(b) : (a \o b)[k] = IF k <= Len(a) THEN a[k] ELSE b[k - Len(a)]
    BY <1>1, <1>2, ConcatProperties
  <2>2. Len(a) + Len(b) = Len(s) - 1
    BY <1>0, <1>1, <1>2
  <2>. QED BY <1>1, <2>1, <2>2
<1>4. ASSUME NEW k \in 1 .. Len(s) - 1
      PROVE  \E j \in 1 .. Len(s) : (a \o b)[k] = s[j]
  <2>0. k <= i - 1 \/ k > i - 1
    BY <1>0
  <2>1. CASE k <= i - 1
    BY <1>0, <1>1, <1>3, <2>1
  <2>2. CASE k > i - 1
    <3>1. k - (i - 1) \in 1 .. (Len(s) - i)
      BY <1>0, <2>2
    <3>2. (a \o b)[k] = s[i + (k - (i - 1))] /\ i + (k - (i - 1)) \in 1 .. Len(s)
      BY <1>0, <1>2, <1>3, <2>2, <3>1
    <3>. QED BY <3>2
  <2>. QED BY <2>0, <2>1, <2>2
<1>5. RemoveAt(s, i) = a \o b
  BY DEF RemoveAt, a, b
<1>. QED BY <1>3, <1>4, <1>5

\* So does the oldest one.
LEMMA DropOldest ==
    ASSUME NEW S, NEW s \in Seq(S), s # <<>>
    PROVE  /\ Tail(s) \in Seq(S)
           /\ \A k \in 1 .. Len(Tail(s)) : \E j \in 1 .. Len(s) : Tail(s)[k] = s[j]
<1>0. Len(s) \in Nat
  BY LenProperties
<1>1. Tail(s) \in Seq(S) /\ Len(Tail(s)) = Len(s) - 1 /\ \A k \in 1 .. Len(Tail(s)) : Tail(s)[k] = s[k + 1]
  BY HeadTailProperties
<1>2. \A k \in 1 .. Len(Tail(s)) : k + 1 \in 1 .. Len(s)
  BY <1>0, <1>1
<1>. QED BY <1>1, <1>2

\* An entry that is added, or put in the place of others.
LEMMA AddOne ==
    ASSUME NEW S, NEW t \in Seq(S), NEW e \in S
    PROVE  /\ Append(t, e) \in Seq(S)
           /\ \A k \in 1 .. Len(Append(t, e)) : Append(t, e)[k] = e \/ (k \in 1 .. Len(t) /\ Append(t, e)[k] = t[k])
<1>. DEFINE u == Append(t, e)
<1>1. u \in Seq(S) /\ Len(u) = Len(t) + 1 /\ (\A k \in 1 .. Len(t) : u[k] = t[k]) /\ u[Len(t) + 1] = e
  BY AppendProperties
<1>. HIDE DEF u
<1>2. Len(t) \in Nat
  BY LenProperties
<1>3. \A k \in 1 .. Len(u) : k \in 1 .. Len(t) \/ k = Len(t) + 1
  BY <1>1, <1>2
<1>4. \A k \in 1 .. Len(u) : u[k] = e \/ (k \in 1 .. Len(t) /\ u[k] = t[k])
  BY <1>1, <1>3
<1>. QED BY <1>1, <1>4 DEF u

Replaced(t, e, D) == [i \in 1 .. Len(t) |-> IF i \in D THEN e ELSE t[i]]
LEMMA ReplaceSome ==
    ASSUME NEW S, NEW t \in Seq(S), NEW e \in S, NEW D
    PROVE  /\ Replaced(t, e, D) \in Seq(S)
           /\ \A k \in 1 .. Len(Replaced(t, e, D)) :
                Replaced(t, e, D)[k] = e \/ (k \in 1 .. Len(t) /\ Replaced(t, e, D)[k] = t[k])
<1>. DEFINE u == Replaced(t, e, D)
<1>1. Len(t) \in Nat /\ \A k \in 1 .. Len(t) : t[k] \in S
  BY LenProperties, ElementOfSeq
<1>2. u \in [1 .. Len(t) -> S] /\ \A k \in 1 .. Len(t) : u[k] = e \/ u[k] = t[k]
  BY <1>1 DEF Replaced
<1>. HIDE DEF u
<1>3. u \in UNION {[1 .. m -> S] : m \in Nat}
  BY <1>1, <1>2
<1>4. u \in Seq(S)
  BY <1>3, SeqDef
<1>5. \A k : k \in 1 .. Len(u) => k \in 1 .. Len(t)
  <2>1. DOMAIN u = 1 .. Len(t) /\ DOMAIN u = 1 .. Len(u)
    BY <1>2, <1>4, LenProperties
  <2>. QED BY <2>1, Zenon
<1>6. u \in Seq(S) /\ \A k \in 1 .. Len(u) : u[k] = e \/ (k \in 1 .. Len(t) /\ u[k] = t[k])
  BY <1>2, <1>4, <1>5
<1>. QED BY <1>6 DEF u

\* What a step of a thread comes to, in the terms the invariants are stated in.
StepResult(r) == ThreadTypes' /\ Frame(r) /\ Moves(r) /\ CacheFrom(r)

\* A step that leaves the cache alone.
LEMMA SameCache ==
    ASSUME ThreadTypes, NEW r \in Runs, UNCHANGED cache
    PROVE  CacheFrom(r) /\ cache' \in Seq(Entry)
<1>1. Len(cache) \in Nat /\ \A k \in 1 .. Len(cache') : cache'[k] = cache[k] /\ k \in 1 .. Len(cache)
  BY LenProperties DEF ThreadTypes
<1>2. CacheFrom(r)
  BY <1>1 DEF CacheFrom
<1>. QED BY <1>2 DEF ThreadTypes

LEMMA StepMoves ==
    ASSUME ThreadTypes, NEW r \in Runs, Step(r)
    PROVE  StepResult(r)
<1>1. CASE Refuse(r)
  <2>1. UNCHANGED cache /\ CacheFrom(r) /\ cache' \in Seq(Entry)
    BY <1>1, SameCache DEF Refuse, sharedVars
  <2>2. ThreadTypes'
    BY <1>1, <2>1, PipelineAssumption DEF ThreadTypes, Places, Ended, At, Goto, Finish, threadVars, sharedVars, tenancyVars, callVars, runVars, answerVars, faultVars, registryVars, Refuse
  <2>3. Frame(r)
    BY <1>1 DEF ThreadTypes, Frame, At, Goto, Finish, threadVars, sharedVars, tenancyVars, callVars, runVars, answerVars, faultVars, registryVars, Refuse
  <2>4. Moves(r)
    BY <1>1 DEF ThreadTypes, Moves, Keep, Advances, Admitted, At, Goto, Finish, threadVars, sharedVars, tenancyVars, callVars, runVars, answerVars, faultVars, registryVars, Refuse
  <2>. QED BY <2>1, <2>2, <2>3, <2>4 DEF StepResult
<1>2. CASE Begin(r)
  <2>1. UNCHANGED cache /\ CacheFrom(r) /\ cache' \in Seq(Entry)
    BY <1>2, SameCache DEF Begin, sharedVars
  <2>2. ThreadTypes'
    BY <1>2, <2>1, PipelineAssumption DEF ThreadTypes, Places, Ended, At, Goto, Finish, threadVars, sharedVars, tenancyVars, callVars, runVars, answerVars, faultVars, registryVars, Begin
  <2>3. Frame(r)
    BY <1>2 DEF ThreadTypes, Frame, At, Goto, Finish, threadVars, sharedVars, tenancyVars, callVars, runVars, answerVars, faultVars, registryVars, Begin
  <2>4. Moves(r)
    BY <1>2 DEF ThreadTypes, Moves, Keep, Advances, Admitted, At, Goto, Finish, threadVars, sharedVars, tenancyVars, callVars, runVars, answerVars, faultVars, registryVars, Begin
  <2>. QED BY <2>1, <2>2, <2>3, <2>4 DEF StepResult
<1>3. CASE Own(r)
  <2>1. UNCHANGED cache /\ CacheFrom(r) /\ cache' \in Seq(Entry)
    BY <1>3, SameCache DEF Own, sharedVars, SetRunTenant
  <2>2. ThreadTypes'
    BY <1>3, <2>1, PipelineAssumption DEF ThreadTypes, Places, Ended, At, Goto, Finish, threadVars, sharedVars, tenancyVars, callVars, runVars, answerVars, faultVars, registryVars, Own, SetRunTenant
  <2>3. Frame(r)
    BY <1>3 DEF ThreadTypes, Frame, At, Goto, Finish, threadVars, sharedVars, tenancyVars, callVars, runVars, answerVars, faultVars, registryVars, Own, SetRunTenant
  <2>4. Moves(r)
    BY <1>3 DEF ThreadTypes, Moves, Keep, Advances, Admitted, At, Goto, Finish, threadVars, sharedVars, tenancyVars, callVars, runVars, answerVars, faultVars, registryVars, Own, SetRunTenant
  <2>. QED BY <2>1, <2>2, <2>3, <2>4 DEF StepResult
<1>4. CASE Reject422(r)
  <2>1. UNCHANGED cache /\ CacheFrom(r) /\ cache' \in Seq(Entry)
    BY <1>4, SameCache DEF Reject422, sharedVars
  <2>2. ThreadTypes'
    BY <1>4, <2>1, PipelineAssumption DEF ThreadTypes, Places, Ended, At, Goto, Finish, threadVars, sharedVars, tenancyVars, callVars, runVars, answerVars, faultVars, registryVars, Reject422
  <2>3. Frame(r)
    BY <1>4 DEF ThreadTypes, Frame, At, Goto, Finish, threadVars, sharedVars, tenancyVars, callVars, runVars, answerVars, faultVars, registryVars, Reject422
  <2>4. Moves(r)
    BY <1>4 DEF ThreadTypes, Moves, Keep, Advances, Admitted, At, Goto, Finish, threadVars, sharedVars, tenancyVars, callVars, runVars, answerVars, faultVars, registryVars, Reject422
  <2>. QED BY <2>1, <2>2, <2>3, <2>4 DEF StepResult
<1>5. CASE Clarify(r)
  <2>1. UNCHANGED cache /\ CacheFrom(r) /\ cache' \in Seq(Entry)
    BY <1>5, SameCache DEF Clarify, sharedVars
  <2>2. ThreadTypes'
    BY <1>5, <2>1, PipelineAssumption DEF ThreadTypes, Places, Ended, At, Goto, Finish, threadVars, sharedVars, tenancyVars, callVars, runVars, answerVars, faultVars, registryVars, Clarify
  <2>3. Frame(r)
    BY <1>5 DEF ThreadTypes, Frame, At, Goto, Finish, threadVars, sharedVars, tenancyVars, callVars, runVars, answerVars, faultVars, registryVars, Clarify
  <2>4. Moves(r)
    BY <1>5 DEF ThreadTypes, Moves, Keep, Advances, Admitted, At, Goto, Finish, threadVars, sharedVars, tenancyVars, callVars, runVars, answerVars, faultVars, registryVars, Clarify
  <2>. QED BY <2>1, <2>2, <2>3, <2>4 DEF StepResult
<1>6. CASE Prepare(r)
  <2>1. UNCHANGED cache /\ CacheFrom(r) /\ cache' \in Seq(Entry)
    BY <1>6, SameCache DEF Prepare, sharedVars
  <2>2. ThreadTypes'
    BY <1>6, <2>1, PipelineAssumption DEF ThreadTypes, Places, Ended, At, Goto, Finish, threadVars, sharedVars, tenancyVars, callVars, runVars, answerVars, faultVars, registryVars, Prepare
  <2>3. Frame(r)
    BY <1>6 DEF ThreadTypes, Frame, At, Goto, Finish, threadVars, sharedVars, tenancyVars, callVars, runVars, answerVars, faultVars, registryVars, Prepare
  <2>4. Moves(r)
    BY <1>6 DEF ThreadTypes, Moves, Keep, Advances, Admitted, At, Goto, Finish, threadVars, sharedVars, tenancyVars, callVars, runVars, answerVars, faultVars, registryVars, Prepare
  <2>. QED BY <2>1, <2>2, <2>3, <2>4 DEF StepResult
<1>7. CASE NoRoute(r)
  <2>1. UNCHANGED cache /\ CacheFrom(r) /\ cache' \in Seq(Entry)
    BY <1>7, SameCache DEF NoRoute, sharedVars
  <2>2. ThreadTypes'
    BY <1>7, <2>1, PipelineAssumption DEF ThreadTypes, Places, Ended, At, Goto, Finish, threadVars, sharedVars, tenancyVars, callVars, runVars, answerVars, faultVars, registryVars, NoRoute
  <2>3. Frame(r)
    BY <1>7 DEF ThreadTypes, Frame, At, Goto, Finish, threadVars, sharedVars, tenancyVars, callVars, runVars, answerVars, faultVars, registryVars, NoRoute
  <2>4. Moves(r)
    BY <1>7 DEF ThreadTypes, Moves, Keep, Advances, Admitted, At, Goto, Finish, threadVars, sharedVars, tenancyVars, callVars, runVars, answerVars, faultVars, registryVars, NoRoute
  <2>. QED BY <2>1, <2>2, <2>3, <2>4 DEF StepResult
<1>8. CASE Route(r)
  <2>1. UNCHANGED cache /\ CacheFrom(r) /\ cache' \in Seq(Entry)
    BY <1>8, SameCache DEF Route, sharedVars
  <2>2. ThreadTypes'
    BY <1>8, <2>1, PipelineAssumption DEF ThreadTypes, Places, Ended, At, Goto, Finish, threadVars, sharedVars, tenancyVars, callVars, runVars, answerVars, faultVars, registryVars, Route
  <2>3. Frame(r)
    BY <1>8 DEF ThreadTypes, Frame, At, Goto, Finish, threadVars, sharedVars, tenancyVars, callVars, runVars, answerVars, faultVars, registryVars, Route
  <2>4. Moves(r)
    BY <1>8 DEF ThreadTypes, Moves, Keep, Advances, Admitted, At, Goto, Finish, threadVars, sharedVars, tenancyVars, callVars, runVars, answerVars, faultVars, registryVars, Route
  <2>. QED BY <2>1, <2>2, <2>3, <2>4 DEF StepResult
<1>9. CASE CallFails(r)
  <2>1. UNCHANGED cache /\ CacheFrom(r) /\ cache' \in Seq(Entry)
    BY <1>9, SameCache DEF CallFails, sharedVars, CallPlan
  <2>2. ThreadTypes'
    BY <1>9, <2>1, PipelineAssumption DEF ThreadTypes, Places, Ended, At, Goto, Finish, threadVars, sharedVars, tenancyVars, callVars, runVars, answerVars, faultVars, registryVars, CallFails, CallPlan
  <2>3. Frame(r)
    BY <1>9 DEF ThreadTypes, Frame, At, Goto, Finish, threadVars, sharedVars, tenancyVars, callVars, runVars, answerVars, faultVars, registryVars, CallFails, CallPlan
  <2>4. Moves(r)
    BY <1>9 DEF ThreadTypes, Moves, Keep, Advances, Admitted, At, Goto, Finish, threadVars, sharedVars, tenancyVars, callVars, runVars, answerVars, faultVars, registryVars, CallFails, CallPlan
  <2>. QED BY <2>1, <2>2, <2>3, <2>4 DEF StepResult
<1>10. CASE CallReturns(r)
  <2>1. UNCHANGED cache /\ CacheFrom(r) /\ cache' \in Seq(Entry)
    BY <1>10, SameCache DEF CallReturns, sharedVars, CallPlan
  <2>2. ThreadTypes'
    BY <1>10, <2>1, PipelineAssumption DEF ThreadTypes, Places, Ended, At, Goto, Finish, threadVars, sharedVars, tenancyVars, callVars, runVars, answerVars, faultVars, registryVars, CallReturns, CallPlan
  <2>3. Frame(r)
    BY <1>10 DEF ThreadTypes, Frame, At, Goto, Finish, threadVars, sharedVars, tenancyVars, callVars, runVars, answerVars, faultVars, registryVars, CallReturns, CallPlan
  <2>4. Moves(r)
    BY <1>10 DEF ThreadTypes, Moves, Keep, Advances, Admitted, At, Goto, Finish, threadVars, sharedVars, tenancyVars, callVars, runVars, answerVars, faultVars, registryVars, CallReturns, CallPlan
  <2>. QED BY <2>1, <2>2, <2>3, <2>4 DEF StepResult
<1>11. CASE RetryInCloud(r)
  <2>1. UNCHANGED cache /\ CacheFrom(r) /\ cache' \in Seq(Entry)
    BY <1>11, SameCache DEF RetryInCloud, sharedVars
  <2>2. ThreadTypes'
    BY <1>11, <2>1, PipelineAssumption DEF ThreadTypes, Places, Ended, At, Goto, Finish, threadVars, sharedVars, tenancyVars, callVars, runVars, answerVars, faultVars, registryVars, RetryInCloud
  <2>3. Frame(r)
    BY <1>11 DEF ThreadTypes, Frame, At, Goto, Finish, threadVars, sharedVars, tenancyVars, callVars, runVars, answerVars, faultVars, registryVars, RetryInCloud
  <2>4. Moves(r)
    BY <1>11 DEF ThreadTypes, Moves, Keep, Advances, Admitted, At, Goto, Finish, threadVars, sharedVars, tenancyVars, callVars, runVars, answerVars, faultVars, registryVars, RetryInCloud
  <2>. QED BY <2>1, <2>2, <2>3, <2>4 DEF StepResult
<1>12. CASE RejectRun(r)
  <2>1. UNCHANGED cache /\ CacheFrom(r) /\ cache' \in Seq(Entry)
    BY <1>12, SameCache DEF RejectRun, sharedVars
  <2>2. ThreadTypes'
    BY <1>12, <2>1, PipelineAssumption DEF ThreadTypes, Places, Ended, At, Goto, Finish, threadVars, sharedVars, tenancyVars, callVars, runVars, answerVars, faultVars, registryVars, RejectRun
  <2>3. Frame(r)
    BY <1>12 DEF ThreadTypes, Frame, At, Goto, Finish, threadVars, sharedVars, tenancyVars, callVars, runVars, answerVars, faultVars, registryVars, RejectRun
  <2>4. Moves(r)
    BY <1>12 DEF ThreadTypes, Moves, Keep, Advances, Admitted, At, Goto, Finish, threadVars, sharedVars, tenancyVars, callVars, runVars, answerVars, faultVars, registryVars, RejectRun
  <2>. QED BY <2>1, <2>2, <2>3, <2>4 DEF StepResult
<1>13. CASE Pass(r)
  <2>1. UNCHANGED cache /\ CacheFrom(r) /\ cache' \in Seq(Entry)
    BY <1>13, SameCache DEF Pass, sharedVars
  <2>2. ThreadTypes'
    BY <1>13, <2>1, PipelineAssumption DEF ThreadTypes, Places, Ended, At, Goto, Finish, threadVars, sharedVars, tenancyVars, callVars, runVars, answerVars, faultVars, registryVars, Pass
  <2>3. Frame(r)
    BY <1>13 DEF ThreadTypes, Frame, At, Goto, Finish, threadVars, sharedVars, tenancyVars, callVars, runVars, answerVars, faultVars, registryVars, Pass
  <2>4. Moves(r)
    BY <1>13 DEF ThreadTypes, Moves, Keep, Advances, Admitted, At, Goto, Finish, threadVars, sharedVars, tenancyVars, callVars, runVars, answerVars, faultVars, registryVars, Pass
  <2>. QED BY <2>1, <2>2, <2>3, <2>4 DEF StepResult
<1>14. CASE Complete(r)
  <2>1. UNCHANGED cache /\ CacheFrom(r) /\ cache' \in Seq(Entry)
    BY <1>14, SameCache DEF Complete, sharedVars
  <2>2. ThreadTypes'
    BY <1>14, <2>1, PipelineAssumption DEF ThreadTypes, Places, Ended, At, Goto, Finish, threadVars, sharedVars, tenancyVars, callVars, runVars, answerVars, faultVars, registryVars, Complete
  <2>3. Frame(r)
    BY <1>14 DEF ThreadTypes, Frame, At, Goto, Finish, threadVars, sharedVars, tenancyVars, callVars, runVars, answerVars, faultVars, registryVars, Complete
  <2>4. Moves(r)
    BY <1>14 DEF ThreadTypes, Moves, Keep, Advances, Admitted, At, Goto, Finish, threadVars, sharedVars, tenancyVars, callVars, runVars, answerVars, faultVars, registryVars, Complete
  <2>. QED BY <2>1, <2>2, <2>3, <2>4 DEF StepResult
<1>15. CASE Answer(r)
  <2>1. UNCHANGED cache /\ CacheFrom(r) /\ cache' \in Seq(Entry)
    BY <1>15, SameCache DEF Answer, sharedVars, Charge
  <2>2. ThreadTypes'
    BY <1>15, <2>1, PipelineAssumption DEF ThreadTypes, Places, Ended, At, Goto, Finish, threadVars, sharedVars, tenancyVars, callVars, runVars, answerVars, faultVars, registryVars, Answer, Charge
  <2>3. Frame(r)
    BY <1>15 DEF ThreadTypes, Frame, At, Goto, Finish, threadVars, sharedVars, tenancyVars, callVars, runVars, answerVars, faultVars, registryVars, Answer, Charge
  <2>4. Moves(r)
    BY <1>15 DEF ThreadTypes, Moves, Keep, Advances, Admitted, At, Goto, Finish, threadVars, sharedVars, tenancyVars, callVars, runVars, answerVars, faultVars, registryVars, Answer, Charge
  <2>. QED BY <2>1, <2>2, <2>3, <2>4 DEF StepResult
<1>16. CASE LoseRecord(r)
  <2>1. UNCHANGED cache /\ CacheFrom(r) /\ cache' \in Seq(Entry)
    BY <1>16, SameCache DEF LoseRecord, sharedVars
  <2>2. ThreadTypes'
    BY <1>16, <2>1, PipelineAssumption DEF ThreadTypes, Places, Ended, At, Goto, Finish, threadVars, sharedVars, tenancyVars, callVars, runVars, answerVars, faultVars, registryVars, LoseRecord
  <2>3. Frame(r)
    BY <1>16 DEF ThreadTypes, Frame, At, Goto, Finish, threadVars, sharedVars, tenancyVars, callVars, runVars, answerVars, faultVars, registryVars, LoseRecord
  <2>4. Moves(r)
    BY <1>16 DEF ThreadTypes, Moves, Keep, Advances, Admitted, At, Goto, Finish, threadVars, sharedVars, tenancyVars, callVars, runVars, answerVars, faultVars, registryVars, LoseRecord
  <2>. QED BY <2>1, <2>2, <2>3, <2>4 DEF StepResult
<1>17. CASE ServeCached(r)
  <2>1. CacheFrom(r) /\ cache' \in Seq(Entry)
    BY <1>17, SameCache DEF ServeCached, sharedVars
  <2>5. \A i \in Hits(r) : cache[i].run \in Runs
    BY EntryRun DEF Hits
  <2>2. ThreadTypes'
    BY <1>17, <2>1, <2>5 DEF ThreadTypes, Places, Ended, At, Goto, Finish, threadVars, sharedVars, tenancyVars, callVars, runVars, answerVars, faultVars, registryVars, ServeCached
  <2>3. Frame(r)
    BY <1>17 DEF ThreadTypes, Frame, At, Goto, Finish, threadVars, sharedVars, tenancyVars, callVars, runVars, answerVars, faultVars, registryVars, ServeCached
  <2>4. Moves(r)
    BY <1>17 DEF ThreadTypes, Moves, Keep, Advances, Admitted, At, Goto, Finish, threadVars, sharedVars, tenancyVars, callVars, runVars, answerVars, faultVars, registryVars, ServeCached
  <2>. QED BY <2>1, <2>2, <2>3, <2>4 DEF StepResult
<1>18. CASE Miss(r)
  <2>1. CacheFrom(r) /\ cache' \in Seq(Entry)
    <3>1. CASE UNCHANGED cache
      BY <3>1, SameCache
    <3>2. CASE \E i \in Hits(r) : cache' = RemoveAt(cache, i)
      BY <3>2, DropOne DEF Hits, CacheFrom, ThreadTypes
    <3>. QED BY <1>18, <3>1, <3>2 DEF Miss
  <2>2. ThreadTypes'
    BY <1>18, <2>1 DEF ThreadTypes, Places, Ended, At, Goto, Finish, threadVars, sharedVars, tenancyVars, callVars, runVars, answerVars, faultVars, registryVars, Miss
  <2>3. Frame(r)
    BY <1>18 DEF ThreadTypes, Frame, At, Goto, Finish, threadVars, sharedVars, tenancyVars, callVars, runVars, answerVars, faultVars, registryVars, Miss
  <2>4. Moves(r)
    BY <1>18 DEF ThreadTypes, Moves, Keep, Advances, Admitted, At, Goto, Finish, threadVars, sharedVars, tenancyVars, callVars, runVars, answerVars, faultVars, registryVars, Miss
  <2>. QED BY <2>1, <2>2, <2>3, <2>4 DEF StepResult
<1>19. CASE Publish(r)
  <2>1. CacheFrom(r) /\ cache' \in Seq(Entry)
    <3>. DEFINE roomy == IF Len(cache) >= CacheSize THEN Tail(cache) ELSE cache
                entry == [key |-> Key(r), run |-> r]
                D == {i \in 1 .. Len(roomy) : roomy[i].key = entry.key}
    <3>1. entry \in Entry
      BY KeyType DEF Entry
    <3>2. cache' = Append(roomy, entry) \/ cache' = Replaced(roomy, entry, D)
      BY <1>19 DEF Publish, Replaced
    <3>3. roomy \in Seq(Entry) /\ \A k \in 1 .. Len(roomy) : \E j \in 1 .. Len(cache) : roomy[k] = cache[j]
      <4>1. cache \in Seq(Entry) /\ (Len(cache) >= CacheSize => cache # <<>>)
        BY PipelineAssumption, EmptySeq, LenProperties DEF ThreadTypes
      <4>2. CASE Len(cache) >= CacheSize
        BY <4>1, <4>2, DropOldest
      <4>3. CASE ~(Len(cache) >= CacheSize)
        BY <4>1, <4>3
      <4>. QED BY <4>2, <4>3
    <3>. HIDE DEF roomy, D, entry
    <3>5. /\ cache' \in Seq(Entry)
          /\ \A k \in 1 .. Len(cache') : cache'[k] = entry \/ (k \in 1 .. Len(roomy) /\ cache'[k] = roomy[k])
      <4>1. CASE cache' = Append(roomy, entry)
        BY <3>1, <3>3, <4>1, AddOne
      <4>2. CASE cache' = Replaced(roomy, entry, D)
        BY <3>1, <3>3, <4>2, ReplaceSome
      <4>. QED BY <3>2, <4>1, <4>2
    <3>6. pc[r] = "settled"
      BY <1>19 DEF Publish, At
    <3>. QED BY <3>3, <3>5, <3>6 DEF CacheFrom, entry
  <2>2. ThreadTypes'
    BY <1>19, <2>1 DEF ThreadTypes, Places, Ended, At, Goto, Finish, threadVars, sharedVars, tenancyVars, callVars, runVars, answerVars, faultVars, registryVars, Publish
  <2>3. Frame(r)
    BY <1>19 DEF ThreadTypes, Frame, At, Goto, Finish, threadVars, sharedVars, tenancyVars, callVars, runVars, answerVars, faultVars, registryVars, Publish
  <2>4. Moves(r)
    BY <1>19 DEF ThreadTypes, Moves, Keep, Advances, Admitted, At, Goto, Finish, threadVars, sharedVars, tenancyVars, callVars, runVars, answerVars, faultVars, registryVars, Publish
  <2>. QED BY <2>1, <2>2, <2>3, <2>4 DEF StepResult
<1>20. CASE Certify(r)
  <2>1. UNCHANGED cache /\ CacheFrom(r) /\ cache' \in Seq(Entry)
    BY <1>20, SameCache DEF Certify, sharedVars
  <2>2. ThreadTypes'
    BY <1>20, <2>1, PipelineAssumption DEF ThreadTypes, Places, Ended, At, Goto, Finish, threadVars, sharedVars, tenancyVars, callVars, runVars, answerVars, faultVars, registryVars, Certify
  <2>3. Frame(r)
    BY <1>20 DEF ThreadTypes, Frame, At, Goto, Finish, threadVars, sharedVars, tenancyVars, callVars, runVars, answerVars, faultVars, registryVars, Certify
  <2>4. Moves(r)
    BY <1>20 DEF ThreadTypes, Moves, Keep, Advances, Admitted, At, Goto, Finish, threadVars, sharedVars, tenancyVars, callVars, runVars, answerVars, faultVars, registryVars, Certify
  <2>. QED BY <2>1, <2>2, <2>3, <2>4 DEF StepResult
<1>21. CASE Save(r)
  <2>1. UNCHANGED cache /\ CacheFrom(r) /\ cache' \in Seq(Entry)
    BY <1>21, SameCache DEF Save, sharedVars
  <2>2. ThreadTypes'
    BY <1>21, <2>1, PipelineAssumption DEF ThreadTypes, Places, Ended, At, Goto, Finish, threadVars, sharedVars, tenancyVars, callVars, runVars, answerVars, faultVars, registryVars, Save
  <2>3. Frame(r)
    BY <1>21 DEF ThreadTypes, Frame, At, Goto, Finish, threadVars, sharedVars, tenancyVars, callVars, runVars, answerVars, faultVars, registryVars, Save
  <2>4. Moves(r)
    BY <1>21 DEF ThreadTypes, Moves, Keep, Advances, Admitted, At, Goto, Finish, threadVars, sharedVars, tenancyVars, callVars, runVars, answerVars, faultVars, registryVars, Save
  <2>. QED BY <2>1, <2>2, <2>3, <2>4 DEF StepResult
<1>22. CASE Escalate(r)
  <2>1. UNCHANGED cache /\ CacheFrom(r) /\ cache' \in Seq(Entry)
    BY <1>22, SameCache DEF Escalate, sharedVars
  <2>2. ThreadTypes'
    BY <1>22, <2>1, PipelineAssumption DEF ThreadTypes, Places, Ended, At, Goto, Finish, threadVars, sharedVars, tenancyVars, callVars, runVars, answerVars, faultVars, registryVars, Escalate
  <2>3. Frame(r)
    BY <1>22 DEF ThreadTypes, Frame, At, Goto, Finish, threadVars, sharedVars, tenancyVars, callVars, runVars, answerVars, faultVars, registryVars, Escalate
  <2>4. Moves(r)
    BY <1>22 DEF ThreadTypes, Moves, Keep, Advances, Admitted, At, Goto, Finish, threadVars, sharedVars, tenancyVars, callVars, runVars, answerVars, faultVars, registryVars, Escalate
  <2>. QED BY <2>1, <2>2, <2>3, <2>4 DEF StepResult
<1>. QED BY <1>1, <1>2, <1>3, <1>4, <1>5, <1>6, <1>7, <1>8, <1>9, <1>10, <1>11, <1>12, <1>13, <1>14, <1>15, <1>16, <1>17, <1>18, <1>19, <1>20, <1>21, <1>22 DEF Step

\* The other steps: a request arrives, the surroundings change, a crash.
Arrives(r) ==
    /\ pc[r] = "idle" /\ pc' = [pc EXCEPT ![r] = "arrived"]
    /\ killedAt' = [killedAt EXCEPT ![r] = killed]
    /\ UNCHANGED <<answer, source, messages, verdict, paid, receipt, req, killed, cache>>
Aside ==
    /\ killed \subseteq killed'
    /\ UNCHANGED <<pc, answer, source, messages, verdict, paid, receipt, req, killedAt, cache>>
Crash ==
    /\ pc' = [r \in Runs |-> IF pc[r] \in {"idle"} \cup Ended THEN pc[r] ELSE "lost"]
    /\ cache' = <<>>
    /\ UNCHANGED <<answer, source, messages, verdict, paid, receipt, req, killed, killedAt>>

LEMMA NextMoves ==
    ASSUME ThreadTypes, [Next]_vars
    PROVE  /\ ThreadTypes'
           /\ \/ \E r \in Runs : Step(r) /\ StepResult(r)
              \/ \E r \in Runs : Arrives(r)
              \/ Aside
              \/ Crash
<1>1. ASSUME NEW r \in Runs, Arrive(r)
      PROVE  Arrives(r) /\ ThreadTypes'
  <2>1. Arrives(r)
    BY <1>1 DEF Arrive, Arrives, ThreadTypes, At, Goto, sharedVars, faultVars, answerVars
  <2>. QED BY <2>1 DEF Arrives, ThreadTypes, Places
<1>2. ASSUME NEW r \in Runs, Step(r)
      PROVE  Step(r) /\ StepResult(r) /\ ThreadTypes'
  BY <1>2, StepMoves DEF StepResult
<1>3. Aside => ThreadTypes' \/ ~(killed' \subseteq Switches)
  BY DEF Aside, ThreadTypes
<1>4. ASSUME NEW r \in Runs, Look(r)
      PROVE  Aside /\ ThreadTypes'
  <2>1. Aside /\ killed' \subseteq Switches
    BY <1>4 DEF Look, Aside, threadVars, ThreadTypes
  <2>. QED BY <1>3, <2>1
<1>5. ASSUME NEW s \in Switches, SetSwitch(s)
      PROVE  Aside /\ ThreadTypes'
  <2>1. Aside /\ killed' \subseteq Switches
    BY <1>5 DEF SetSwitch, Aside, threadVars, ThreadTypes
  <2>. QED BY <1>3, <2>1
<1>6. ASSUME NEW t \in Tenants, DeleteTenant(t)
      PROVE  Aside /\ ThreadTypes'
  <2>1. Aside /\ killed' \subseteq Switches
    BY <1>6 DEF DeleteTenant, Aside, threadVars, ThreadTypes
  <2>. QED BY <1>3, <2>1
<1>7. CASE Restart
  <2>1. Crash
    BY <1>7 DEF Restart, Crash, callVars, runVars, answerVars
  <2>2. <<>> \in Seq(Entry)
    BY EmptySeq
  <2>3. ThreadTypes'
    BY <2>1, <2>2 DEF Crash, ThreadTypes, Places, Ended
  <2>. QED BY <2>1, <2>3
<1>8. CASE UNCHANGED vars
  <2>1. Aside /\ killed' \subseteq Switches
    BY <1>8 DEF vars, Aside, threadVars, ThreadTypes
  <2>. QED BY <1>3, <2>1
<1>. QED BY <1>1, <1>2, <1>4, <1>5, <1>6, <1>7, <1>8 DEF Next

\* ------------------------------------------------------------ emergency stop
Stops(r) == {"global", req[r].tenant, req[r].project}
StopKept ==
    \A r \in Runs :
        /\ answer[r] # "none" => pc[r] = "ended"
        /\ pc[r] = "arrived" => killedAt[r] \subseteq killed
        /\ pc[r] \in Admitted \/ answer[r] \in {"fresh", "hit"} => killedAt[r] \cap Stops(r) = {}

LEMMA StopKeptStep ==
    ASSUME ThreadTypes, StopKept, [Next]_vars
    PROVE  StopKept'
<1>1. ASSUME NEW r \in Runs, StepResult(r)
      PROVE  StopKept'
  <2>1. Stops(r)' = Stops(r) /\ killedAt'[r] = killedAt[r]
    BY <1>1 DEF StepResult, Frame, Stops
  <2>2. /\ answer'[r] # "none" => pc'[r] = "ended"
        /\ pc'[r] # "arrived"
    BY <1>1 DEF StepResult, Moves, Advances, Keep, StopKept, Admitted
  <2>3. pc'[r] \in Admitted \/ answer'[r] \in {"fresh", "hit"} => killedAt'[r] \cap Stops(r) = {}
    <3>1. pc[r] = "arrived" /\ ~Off(r) => killedAt[r] \cap Stops(r) = {}
      BY DEF StopKept, Off, Stops
    <3>2. pc[r] \in Admitted => killedAt[r] \cap Stops(r) = {}
      BY DEF StopKept
    <3>3. pc'[r] \in Admitted \/ answer'[r] \in {"fresh", "hit"} => (pc[r] = "arrived" /\ ~Off(r)) \/ pc[r] \in Admitted
      BY <1>1 DEF StepResult, Moves, Advances, Keep, StopKept, Admitted
    <3>. QED BY <2>1, <3>1, <3>2, <3>3
  <2>4. ASSUME NEW q \in Runs \ {r}
        PROVE  /\ pc'[q] = pc[q] /\ answer'[q] = answer[q] /\ Stops(q)' = Stops(q)
               /\ killedAt'[q] = killedAt[q] /\ killed' = killed
    BY <1>1 DEF StepResult, Frame, Stops
  <2>. QED BY <2>1, <2>2, <2>3, <2>4 DEF StopKept
<1>2. ASSUME NEW r \in Runs, Arrives(r)
      PROVE  StopKept'
  BY <1>2 DEF Arrives, StopKept, ThreadTypes, Stops, Admitted
<1>3. Aside => StopKept'
  BY DEF Aside, StopKept, Stops
<1>4. Crash => StopKept'
  BY DEF Crash, StopKept, Stops, Admitted, Ended
<1>. QED BY <1>1, <1>2, <1>3, <1>4, NextMoves

LEMMA InitTypes == Init => ThreadTypes
<1>1. Init => /\ \E w \in Workloads : req = w.requests
              /\ req \in [Runs -> Requests]
              /\ messages = [r \in Runs |-> req[r].messages]
  BY PipelineAssumption DEF Init
<1>2. ASSUME Init
      PROVE  messages \in [Runs -> DOMAIN Compress]
  BY <1>1, <1>2 DEF Requests
<1>3. Init => cache \in Seq(Entry)
  BY EmptySeq DEF Init
<1>4. Init => /\ pc = [r \in Runs |-> "idle"] /\ answer = [r \in Runs |-> "none"]
              /\ source = [r \in Runs |-> 0] /\ verdict = [r \in Runs |-> "none"]
              /\ paid = [r \in Runs |-> FALSE] /\ killedAt = [r \in Runs |-> {}] /\ killed = {}
  BY DEF Init
<1>. QED BY <1>1, <1>2, <1>3, <1>4 DEF ThreadTypes, Places

LEMMA TypesAlways == Spec => []ThreadTypes
<1>1. ThreadTypes /\ [Next]_vars => ThreadTypes'
  BY NextMoves
<1>. QED BY <1>1, InitTypes, PTL DEF Spec

\* run_inference_pipeline asks the emergency stop before it asks the cache: no
\* request that came in under a stop of the system, its tenant or its project is answered.
THEOREM StopsHold == Spec => []StoppedIsUnanswered
<1>1. Init => StopKept
  BY DEF Init, StopKept, Admitted
<1>2. StopKept => StoppedIsUnanswered
  BY DEF StopKept, Stops, StoppedIsUnanswered
<1>3. ThreadTypes /\ StopKept /\ [Next]_vars => StopKept'
  BY StopKeptStep
<1>. QED BY <1>1, <1>2, <1>3, TypesAlways, PTL DEF Spec

\* ------------------------------------------------------------ cached answers
\* What the answer to a request is kept under.
Kept(q) == <<Compress[req[q].messages], req[q].local, req[q].risk, req[q].valid, req[q].clear, req[q].project,
             req[q].tenant>>

Before == {"idle", "arrived", "new", "begun", "intake"}
After == {"prepared", "started", "replied", "passed", "accepting", "rejecting", "receipted", "settled", "refused",
          "cached"}
Texts ==
    \A r \in Runs :
        /\ pc[r] \in Before => messages[r] = req[r].messages
        /\ pc[r] \in After => messages[r] = Compress[req[r].messages]
        /\ answer[r] # "none" => pc[r] = "ended"
KeysOwn ==
    /\ Texts
    /\ \A i \in 1 .. Len(cache) : cache[i].key = Kept(cache[i].run)
    /\ CachedAnswerOwn

LEMMA KeysOwnStep ==
    ASSUME ThreadTypes, KeysOwn, [Next]_vars
    PROVE  KeysOwn'
<1>1. ASSUME NEW r \in Runs, StepResult(r)
      PROVE  KeysOwn'
  <2>0. req' = req /\ \A q \in Runs \ {r} : pc'[q] = pc[q] /\ messages'[q] = messages[q] /\ answer'[q] = answer[q] /\ source'[q] = source[q]
    BY <1>1 DEF StepResult, Frame
  <2>1. /\ pc'[r] \in Before => messages'[r] = req[r].messages
        /\ pc'[r] \in After => messages'[r] = Compress[req[r].messages]
    BY <1>1 DEF StepResult, Moves, Advances, Keep, KeysOwn, Texts, Before, After, Admitted
  <2>2. ASSUME NEW k \in 1 .. Len(cache')
        PROVE  cache'[k].key = Kept(cache'[k].run)
    <3>1. CASE \E j \in 1 .. Len(cache) : cache'[k] = cache[j]
      BY <3>1 DEF KeysOwn
    <3>2. CASE pc[r] = "settled" /\ cache'[k] = [key |-> Key(r), run |-> r]
      <4>1. messages[r] = Compress[req[r].messages]
        BY <3>2 DEF KeysOwn, Texts, After
      <4>. QED BY <3>2, <4>1 DEF Key, Kept
    <3>. QED BY <1>1, <3>1, <3>2 DEF StepResult, CacheFrom
  <2>3. answer'[r] # "none" => pc'[r] = "ended"
    BY <1>1 DEF StepResult, Moves, Advances, Keep, KeysOwn, Texts, Admitted
  <2>4. ASSUME answer'[r] = "hit"
        PROVE  /\ req[source'[r]].tenant = req[r].tenant
               /\ Compress[req[source'[r]].messages] = req[r].messages
    <3>1. pc[r] = "arrived" /\ \E i \in Hits(r) : source'[r] = cache[i].run
      BY <1>1, <2>4 DEF StepResult, Moves, Advances, Keep, KeysOwn, Texts, Admitted
    <3>2. PICK i \in Hits(r) : source'[r] = cache[i].run
      BY <3>1
    <3>3. Kept(source'[r]) = Key(r) /\ messages[r] = req[r].messages
      BY <3>1, <3>2 DEF Hits, KeysOwn, Texts, Before
    <3>. QED BY <3>3 DEF Kept, Key
  <2>5. CachedAnswerOwn'
    BY <2>0, <2>4 DEF CachedAnswerOwn, KeysOwn
  <2>6. Texts'
    BY <2>0, <2>1, <2>3 DEF KeysOwn, Texts
  <2>7. \A k \in 1 .. Len(cache') : cache'[k].key = Kept(cache'[k].run)
    BY <2>2
  <2>8. (\A i \in 1 .. Len(cache) : cache[i].key = Kept(cache[i].run))'
    BY <2>0, <2>7 DEF Kept
  <2>. QED BY <2>5, <2>6, <2>8 DEF KeysOwn
<1>2. ASSUME NEW r \in Runs, Arrives(r)
      PROVE  KeysOwn'
  BY <1>2 DEF Arrives, KeysOwn, Texts, CachedAnswerOwn, ThreadTypes, Before, After, Kept
<1>3. Aside => KeysOwn'
  BY DEF Aside, KeysOwn, Texts, CachedAnswerOwn, Kept
<1>4. Crash => KeysOwn'
  BY EmptySeq DEF Crash, KeysOwn, Texts, Kept, CachedAnswerOwn, Before, After, Ended
<1>. QED BY <1>1, <1>2, <1>3, <1>4, NextMoves

\* ResponseCache keys an answer by the tenant and by the messages as compressed:
\* one served again was given to the same tenant, for a text that compresses to
\* what is asked.
THEOREM CacheServesOwn == Spec => []CachedAnswerOwn
<1>1. Init => KeysOwn
  BY InitTypes, EmptySeq DEF Init, KeysOwn, Texts, CachedAnswerOwn, Before, After, ThreadTypes
<1>2. KeysOwn => CachedAnswerOwn
  BY DEF KeysOwn
<1>3. ThreadTypes /\ KeysOwn /\ [Next]_vars => KeysOwn'
  BY KeysOwnStep
<1>. QED BY <1>1, <1>2, <1>3, TypesAlways, PTL DEF Spec

\* ------------------------------------------------------------ the tables
Events == {"request_received", "contract_proposed", "contract_validated", "policy_checked",
           "context_compiled", "context_compressed", "route_selected", "action_started",
           "fallback_triggered", "action_completed", "evidence_passed", "evidence_failed",
           "human_review_requested", "verification_completed", "outcome_accepted", "outcome_rejected"}
LedgerRow == [sequence : Nat, event : Events]
BookRecord == [tenant : Tenants \cup {DefaultTenant}, events : Seq(Events),
               receipt : Receipt \cup {NoReceipt}, review : BOOLEAN, rework : BOOLEAN]
TableTypes ==
    /\ book \in [Runs -> BookRecord]
    /\ rows \in [Runs -> Row \cup {NoRow}]
    /\ owner \in [Runs -> Tenants \cup {NoTenant}]
    /\ chain \in [Runs -> Seq(LedgerRow)]
BookTypes ==
    /\ TableTypes
    /\ receipt \in [Runs -> Receipt \cup {NoReceipt}]
    /\ \A r \in Runs : pc[r] = "receipted" => receipt[r] \in Receipt

\* What a registry call for one run leaves of the others.
OthersKept(r) == \A q \in Runs \ {r} : rows'[q] = rows[q] /\ book'[q] = book[q] /\ chain'[q] = chain[q]

\* Events are posted: the record grows, and the table by the numbered events.
Posting(r, es) ==
    /\ book'[r].events = book[r].events \o es
    /\ chain'[r] = chain[r] \o Numbered(r, es)

LEMMA PostTypes ==
    ASSUME TableTypes, NEW r \in Runs, NEW es \in Seq(Events)
    PROVE  /\ book[r].events \in Seq(Events) /\ Len(book[r].events) \in Nat
           /\ book[r].events \o es \in Seq(Events) /\ Len(book[r].events \o es) \in Nat
           /\ Numbered(r, es) \in Seq(LedgerRow)
           /\ chain[r] \o Numbered(r, es) \in Seq(LedgerRow)
<1>1. book[r].events \in Seq(Events) /\ chain[r] \in Seq(LedgerRow)
  BY DEF TableTypes, BookRecord
<1>2. Len(book[r].events) \in Nat /\ Len(es) \in Nat /\ \A i \in 1 .. Len(es) : es[i] \in Events
  BY <1>1, LenProperties, ElementOfSeq
<1>3. book[r].events \o es \in Seq(Events)
  BY <1>1, ConcatProperties
<1>4. Numbered(r, es) \in [1 .. Len(es) -> LedgerRow]
  BY <1>2 DEF Numbered, LedgerRow
<1>5. Numbered(r, es) \in UNION {[1 .. n -> LedgerRow] : n \in Nat}
  BY <1>2, <1>4
<1>6. Numbered(r, es) \in Seq(LedgerRow)
  BY <1>5, SeqDef
<1>7. chain[r] \o Numbered(r, es) \in Seq(LedgerRow)
  BY <1>1, <1>6, ConcatProperties
<1>8. Len(book[r].events \o es) \in Nat
  BY <1>3, LenProperties
<1>. QED BY <1>1, <1>2, <1>3, <1>6, <1>7, <1>8

Marked(r, es, review, rework) == [Posted(r, es) EXCEPT !.review = @ \/ review, !.rework = @ \/ rework]

LEMMA RecordPosted ==
    ASSUME TableTypes, NEW r \in Runs, NEW es \in Seq(Events), NEW review \in BOOLEAN, NEW rework \in BOOLEAN
    PROVE  /\ Posted(r, es) \in BookRecord /\ Posted(r, es).events = book[r].events \o es
           /\ Posted(r, es).receipt = book[r].receipt
           /\ Marked(r, es, review, rework) \in BookRecord /\ Marked(r, es, review, rework).events = book[r].events \o es
           /\ Marked(r, es, review, rework).receipt = book[r].receipt
<1>1. book[r] \in BookRecord
  BY DEF TableTypes
<1>2. book[r].events \o es \in Seq(Events) /\ Len(book[r].events \o es) \in Nat
  BY PostTypes
<1>3. /\ Posted(r, es) \in BookRecord /\ Posted(r, es).events = book[r].events \o es
      /\ Posted(r, es).receipt = book[r].receipt
  BY <1>1, <1>2 DEF Posted, BookRecord
<1>. HIDE DEF Posted
<1>4. /\ Marked(r, es, review, rework) \in BookRecord /\ Marked(r, es, review, rework).events = book[r].events \o es
      /\ Marked(r, es, review, rework).receipt = book[r].receipt
  BY <1>3 DEF BookRecord, Marked
<1>. QED BY <1>3, <1>4

LEMMA LedgerCall ==
    ASSUME TableTypes, NEW r \in Runs, NEW es \in Seq(Events), Ledger(r, es)
    PROVE  /\ TableTypes' /\ Posting(r, es) /\ OthersKept(r) /\ UNCHANGED rows
           /\ book'[r].receipt = book[r].receipt
<1>1. /\ Posted(r, es) \in BookRecord /\ Posted(r, es).events = book[r].events \o es
      /\ Posted(r, es).receipt = book[r].receipt
  BY RecordPosted
<1>2. chain[r] \o Numbered(r, es) \in Seq(LedgerRow)
  BY PostTypes
<1>3. /\ book' = [book EXCEPT ![r] = Posted(r, es)]
      /\ chain' = [chain EXCEPT ![r] = chain[r] \o Numbered(r, es)]
      /\ UNCHANGED <<rows, owner>>
  BY DEF Ledger
<1>4. TableTypes'
  BY <1>1, <1>2, <1>3 DEF TableTypes
<1>5. Posting(r, es) /\ OthersKept(r)
  BY <1>1, <1>3 DEF TableTypes, Posting, OthersKept
<1>6. book'[r].receipt = book[r].receipt
  BY <1>1, <1>3 DEF TableTypes
<1>. QED BY <1>3, <1>4, <1>5, <1>6

\* A row written without a receipt keeps the run from being accepted.
RowWritten(r, status) ==
    rows'[r] \in Row /\ rows'[r].status = status /\ rows'[r].receipt = book'[r].receipt

LEMMA RowOfRecord ==
    ASSUME NEW record \in BookRecord, NEW status \in {"pending", "accepted", "escalated"}
    PROVE  /\ RowOf(record, status) \in Row /\ RowOf(record, status).status = status
           /\ RowOf(record, status).receipt = record.receipt
BY DEF RowOf, Row, BookRecord

LEMMA RowSaved ==
    ASSUME TableTypes, NEW r \in Runs, NEW record \in BookRecord,
           NEW status \in {"pending", "accepted", "escalated"},
           SaveRun(r, RowOf(record, status)), book' = [book EXCEPT ![r] = record]
    PROVE  /\ rows' \in [Runs -> Row \cup {NoRow}] /\ owner' \in [Runs -> Tenants \cup {NoTenant}]
           /\ book' \in [Runs -> BookRecord] /\ RowWritten(r, status)
           /\ \A q \in Runs \ {r} : rows'[q] = rows[q]
<1>1. /\ RowOf(record, status) \in Row /\ RowOf(record, status).status = status
      /\ RowOf(record, status).receipt = record.receipt
  BY RowOfRecord
<1>2. rows' = [rows EXCEPT ![r] = RowOf(record, status)] /\ owner' = [owner EXCEPT ![r] = NoTenant]
  BY DEF SaveRun
<1>3. book' \in [Runs -> BookRecord] /\ book'[r] = record
  BY DEF TableTypes
<1>4. rows' \in [Runs -> Row \cup {NoRow}] /\ rows'[r] = RowOf(record, status)
  BY <1>1, <1>2 DEF TableTypes
<1>. QED BY <1>1, <1>2, <1>3, <1>4 DEF TableTypes, RowWritten

LEMMA MarkedCall ==
    ASSUME TableTypes, NEW r \in Runs, NEW es \in Seq(Events), NEW review \in BOOLEAN, NEW rework \in BOOLEAN,
           LedgerMarked(r, es, review, rework)
    PROVE  /\ TableTypes' /\ Posting(r, es) /\ OthersKept(r)
           /\ rows'[r] = rows[r] \/ RowWritten(r, "pending")
           /\ book'[r].receipt = book[r].receipt
<1>. DEFINE record == Marked(r, es, review, rework)
<1>1. /\ record \in BookRecord /\ record.events = book[r].events \o es /\ record.receipt = book[r].receipt
  BY RecordPosted
<1>2. chain[r] \o Numbered(r, es) \in Seq(LedgerRow)
  BY PostTypes
<1>3. /\ book' = [book EXCEPT ![r] = record]
      /\ chain' = [chain EXCEPT ![r] = chain[r] \o Numbered(r, es)]
      /\ SaveRun(r, RowOf(record, "pending")) \/ UNCHANGED <<rows, owner>>
  BY DEF LedgerMarked, Marked
<1>. HIDE DEF record
<1>4. book' \in [Runs -> BookRecord] /\ book'[r] = record /\ \A q \in Runs \ {r} : book'[q] = book[q]
  BY <1>1, <1>3 DEF TableTypes
<1>5. /\ chain' \in [Runs -> Seq(LedgerRow)] /\ chain'[r] = chain[r] \o Numbered(r, es)
      /\ \A q \in Runs \ {r} : chain'[q] = chain[q]
  BY <1>2, <1>3 DEF TableTypes
<1>6. /\ rows' \in [Runs -> Row \cup {NoRow}] /\ owner' \in [Runs -> Tenants \cup {NoTenant}]
      /\ rows'[r] = rows[r] \/ RowWritten(r, "pending")
      /\ \A q \in Runs \ {r} : rows'[q] = rows[q]
  <2>1. CASE SaveRun(r, RowOf(record, "pending"))
    BY <1>1, <1>3, <2>1, RowSaved
  <2>2. CASE UNCHANGED <<rows, owner>>
    BY <2>2 DEF TableTypes
  <2>. QED BY <1>3, <2>1, <2>2
<1>7. TableTypes'
  BY <1>4, <1>5, <1>6 DEF TableTypes
<1>8. Posting(r, es) /\ OthersKept(r)
  BY <1>1, <1>4, <1>5, <1>6 DEF Posting, OthersKept
<1>. QED BY <1>1, <1>4, <1>6, <1>7, <1>8

LEMMA IssueCall ==
    ASSUME TableTypes, NEW r \in Runs, NEW status \in {"accepted", "escalated"}, IssueReceipt(r, status)
    PROVE  /\ TableTypes' /\ OthersKept(r) /\ rows'[r] = rows[r] /\ chain'[r] = chain[r]
           /\ book'[r].events = book[r].events /\ book'[r].receipt = ReceiptFor(book[r], status)
           /\ ReceiptFor(book[r], status) = [status |-> status, head |-> Len(book[r].events)]
           /\ ReceiptFor(book[r], status) \in Receipt
<1>. DEFINE v == ReceiptFor(book[r], status)
<1>1. book[r] \in BookRecord /\ Len(book[r].events) \in Nat
  BY LenProperties DEF TableTypes, BookRecord
<1>2. v = [status |-> status, head |-> Len(book[r].events)] /\ v \in Receipt
  BY <1>1 DEF ReceiptFor, Receipt
<1>3. /\ book' = [book EXCEPT ![r] = [book[r] EXCEPT !.receipt = v]]
      /\ UNCHANGED <<rows, owner, chain>>
  BY DEF IssueReceipt, TableTypes
<1>. HIDE DEF v
<1>4. /\ [book[r] EXCEPT !.receipt = v] \in BookRecord
      /\ [book[r] EXCEPT !.receipt = v].events = book[r].events /\ [book[r] EXCEPT !.receipt = v].receipt = v
  BY <1>1, <1>2 DEF BookRecord
<1>5. TableTypes' /\ OthersKept(r) /\ book'[r].events = book[r].events /\ book'[r].receipt = v
  BY <1>3, <1>4 DEF TableTypes, OthersKept
<1>. QED BY <1>2, <1>3, <1>5 DEF v

\* The row gets the receipt at hand, if memory still has the record.
RowSettled(r, v) ==
    IF Known(r) THEN rows'[r] \in Row /\ rows'[r].status = v.status /\ rows'[r].receipt = v ELSE rows'[r] = rows[r]

LEMMA SaveCall ==
    ASSUME TableTypes, NEW r \in Runs, NEW v \in Receipt, SaveReceipt(r, v)
    PROVE  /\ TableTypes' /\ OthersKept(r) /\ book'[r] = book[r] /\ chain'[r] = chain[r] /\ RowSettled(r, v)
<1>. DEFINE row == [RowOf(book[r], v.status) EXCEPT !.receipt = v]
<1>1. v.status \in {"accepted", "escalated"}
  BY DEF Receipt
<1>2. RowOf(book[r], v.status) \in Row /\ RowOf(book[r], v.status).status = v.status
  BY <1>1, RowOfRecord DEF TableTypes
<1>3. row \in Row /\ row.status = v.status /\ row.receipt = v
  BY <1>2 DEF Row
<1>4. UNCHANGED <<book, chain>> /\ IF Known(r) THEN SaveRun(r, row) ELSE UNCHANGED <<rows, owner>>
  BY DEF SaveReceipt
<1>. HIDE DEF row
<1>5. CASE Known(r)
  <2>1. rows' = [rows EXCEPT ![r] = row] /\ owner' = [owner EXCEPT ![r] = NoTenant]
    BY <1>4, <1>5 DEF SaveRun
  <2>. QED BY <1>3, <1>4, <1>5, <2>1 DEF TableTypes, OthersKept, RowSettled
<1>6. CASE ~Known(r)
  BY <1>4, <1>6 DEF TableTypes, OthersKept, RowSettled
<1>. QED BY <1>5, <1>6

\* What a step of a thread writes: nothing, a record without a receipt, the
\* events of the stage it leaves, the receipt, or the row that holds it.
Quiet(r) == chain'[r] = chain[r] /\ rows'[r] = rows[r] /\ book'[r] = book[r]
Unreceipted(r, es) ==
    /\ Posting(r, es)
    /\ rows'[r] = rows[r] \/ RowWritten(r, "pending")
    /\ book'[r].receipt = book[r].receipt
Closing(es, event) == Len(es) \in Nat \ {0} /\ es[Len(es)] = event
Certified(r) ==
    /\ pc[r] \in {"accepting", "rejecting"} /\ pc'[r] = "receipted"
    /\ chain'[r] = chain[r] /\ rows'[r] = rows[r] /\ book'[r].events = book[r].events
    /\ book'[r].receipt = receipt'[r] /\ receipt'[r] \in Receipt
    /\ receipt'[r] = [status |-> IF pc[r] = "accepting" THEN "accepted" ELSE "escalated", head |-> Len(book[r].events)]
Saved(r) ==
    /\ pc[r] = "receipted"
    /\ pc'[r] = IF receipt[r].status = "accepted" THEN "settled" ELSE "refused"
    /\ chain'[r] = chain[r] /\ book'[r] = book[r] /\ RowSettled(r, receipt[r])
Prepares == <<"request_received", "contract_proposed", "contract_validated", "policy_checked",
              "context_compiled", "context_compressed">>
Replies(v) == <<"action_completed", IF v = "passed" THEN "evidence_passed" ELSE "evidence_failed">>

Goes(r, here, there) == pc[r] = here /\ pc'[r] = there

Entries(r) ==
    \/ pc[r] \in {"arrived", "begun", "settled", "cached"} /\ Quiet(r)
    \/ pc'[r] = "ended" /\ Quiet(r)
    \/ /\ Goes(r, "new", "begun")
       /\ chain'[r] = chain[r] /\ RowWritten(r, "pending") /\ book'[r].receipt = NoReceipt /\ book'[r].events = <<>>
    \/ Goes(r, "intake", "ended") /\ \E es \in Seq(Events) : Unreceipted(r, es)
    \/ Goes(r, "intake", "prepared") /\ Unreceipted(r, Prepares)
    \/ Goes(r, "prepared", "started") /\ Unreceipted(r, <<"route_selected", "action_started">>)
    \/ Goes(r, "started", "started") /\ Unreceipted(r, <<"fallback_triggered">>)
    \/ Goes(r, "started", "replied") /\ Unreceipted(r, Replies(verdict'[r]))
    \/ Goes(r, "replied", "started") /\ Unreceipted(r, <<"fallback_triggered">>)
    \/ Goes(r, "replied", "passed") /\ Unreceipted(r, <<"verification_completed">>)
    \/ /\ pc[r] \in {"prepared", "replied"} /\ pc'[r] = "rejecting"
       /\ \E es \in Seq(Events) : Closing(es, "outcome_rejected") /\ Unreceipted(r, es)
    \/ Goes(r, "passed", "accepting") /\ Unreceipted(r, <<"outcome_accepted">>)
    \/ Certified(r)
    \/ Saved(r)

\* Only the receipt of a run that gets one is touched.
Writes(r) ==
    /\ Entries(r)
    /\ \A q \in Runs : receipt'[q] = receipt[q] \/ (q = r /\ Certified(r))

LEMMA QuietStep ==
    ASSUME TableTypes, NEW r \in Runs, UNCHANGED <<book, rows, owner, chain>>
    PROVE  TableTypes' /\ OthersKept(r) /\ Quiet(r)
BY DEF TableTypes, OthersKept, Quiet

LEMMA EventLists ==
    /\ Prepares \in Seq(Events)
    /\ \A v : Replies(v) \in Seq(Events)
    /\ <<"route_selected", "action_started">> \in Seq(Events)
    /\ <<"route_selected", "outcome_rejected">> \in Seq(Events)
    /\ <<"request_received", "outcome_rejected">> \in Seq(Events)
    /\ <<"request_received", "contract_proposed">> \in Seq(Events)
    /\ <<"verification_completed", "outcome_rejected">> \in Seq(Events)
    /\ <<"verification_completed">> \in Seq(Events)
    /\ <<"outcome_accepted">> \in Seq(Events)
    /\ <<"fallback_triggered">> \in Seq(Events)
    /\ <<"human_review_requested">> \in Seq(Events)
    /\ <<>> \in Seq(Events)
<1>1. Prepares \in Seq(Events)
  BY DEF Prepares, Events
<1>2. ASSUME NEW v
      PROVE  Replies(v) \in Seq(Events)
  <2>1. CASE v = "passed"
    BY <2>1 DEF Replies, Events
  <2>2. CASE v # "passed"
    BY <2>2 DEF Replies, Events
  <2>. QED BY <2>1, <2>2
<1>3. /\ <<"route_selected", "action_started">> \in Seq(Events)
      /\ <<"route_selected", "outcome_rejected">> \in Seq(Events)
      /\ <<"request_received", "outcome_rejected">> \in Seq(Events)
      /\ <<"request_received", "contract_proposed">> \in Seq(Events)
      /\ <<"verification_completed", "outcome_rejected">> \in Seq(Events)
  BY DEF Events
<1>4. /\ <<"verification_completed">> \in Seq(Events)
      /\ <<"outcome_accepted">> \in Seq(Events)
      /\ <<"fallback_triggered">> \in Seq(Events)
      /\ <<"human_review_requested">> \in Seq(Events)
      /\ <<>> \in Seq(Events)
  BY EmptySeq DEF Events
<1>. QED BY <1>1, <1>2, <1>3, <1>4

LEMMA StepEntries ==
    ASSUME ThreadTypes, BookTypes, NEW r \in Runs, Step(r)
    PROVE  TableTypes' /\ OthersKept(r) /\ Entries(r)
<1>0. TableTypes
  BY DEF BookTypes
<1>1. CASE Refuse(r)
  <2>1. UNCHANGED <<book, rows, owner, chain>>
    BY <1>1 DEF Refuse, registryVars
  <2>2. pc[r] \in {"arrived", "begun", "settled", "cached"} \/ pc'[r] = "ended"
    BY <1>1 DEF Refuse, ThreadTypes, At, Goto, Finish
  <2>. QED BY <2>1, <2>2, <1>0, QuietStep DEF Entries
<1>2. CASE ServeCached(r)
  <2>1. UNCHANGED <<book, rows, owner, chain>>
    BY <1>2 DEF ServeCached, registryVars
  <2>2. pc[r] \in {"arrived", "begun", "settled", "cached"} \/ pc'[r] = "ended"
    BY <1>2 DEF ServeCached, ThreadTypes, At, Goto, Finish
  <2>. QED BY <2>1, <2>2, <1>0, QuietStep DEF Entries
<1>3. CASE Miss(r)
  <2>1. UNCHANGED <<book, rows, owner, chain>>
    BY <1>3 DEF Miss, registryVars
  <2>2. pc[r] \in {"arrived", "begun", "settled", "cached"} \/ pc'[r] = "ended"
    BY <1>3 DEF Miss, ThreadTypes, At, Goto, Finish
  <2>. QED BY <2>1, <2>2, <1>0, QuietStep DEF Entries
<1>4. CASE Begin(r)
  <2>1. /\ Record(req[r].tenant) \in BookRecord /\ Record(req[r].tenant).receipt = NoReceipt
        /\ Record(req[r].tenant).events = <<>>
    BY EmptySeq DEF ThreadTypes, Requests, Record, BookRecord
  <2>2. /\ book' = [book EXCEPT ![r] = Record(req[r].tenant)] /\ UNCHANGED chain
        /\ SaveRun(r, RowOf(Record(req[r].tenant), "pending"))
    BY <1>4 DEF Begin
  <2>3. /\ rows' \in [Runs -> Row \cup {NoRow}] /\ owner' \in [Runs -> Tenants \cup {NoTenant}]
        /\ book' \in [Runs -> BookRecord] /\ RowWritten(r, "pending")
        /\ \A q \in Runs \ {r} : rows'[q] = rows[q]
    BY <2>1, <2>2, <1>0, RowSaved
  <2>4. book'[r].receipt = NoReceipt /\ book'[r].events = <<>> /\ \A q \in Runs \ {r} : book'[q] = book[q]
    BY <2>1, <2>2 DEF BookTypes, TableTypes
  <2>5. Goes(r, "new", "begun")
    BY <1>4 DEF Begin, ThreadTypes, At, Goto, Finish, Goes
  <2>6. TableTypes' /\ OthersKept(r)
    BY <1>0, <2>2, <2>3, <2>4 DEF TableTypes, OthersKept
  <2>. QED BY <2>2, <2>3, <2>4, <2>5, <2>6 DEF Entries
<1>5. CASE Own(r)
  <2>1. UNCHANGED <<book, rows, chain>> /\ owner' \in [Runs -> Tenants \cup {NoTenant}]
    BY <1>5 DEF Own, SetRunTenant, ThreadTypes, Requests, BookTypes, TableTypes
  <2>2. TableTypes' /\ OthersKept(r) /\ Quiet(r)
    BY <1>0, <2>1 DEF TableTypes, OthersKept, Quiet
  <2>. QED BY <1>5, <2>2 DEF Own, Entries, At, Goto, Finish, Goes
<1>6. CASE Reject422(r)
  <2>1. Ledger(r, <<"request_received", "outcome_rejected">>)
    BY <1>6 DEF Reject422, ThreadTypes
  <2>2. Goes(r, "intake", "ended")
    BY <1>6 DEF Reject422, CallPlan, ThreadTypes, At, Goto, Finish, Goes
  <2>3. TableTypes' /\ OthersKept(r) /\ Unreceipted(r, <<"request_received", "outcome_rejected">>)
    BY <1>0, <2>1, LedgerCall, EventLists DEF Unreceipted
  <2>. QED BY <2>2, <2>3, EventLists DEF Entries
<1>7. CASE Clarify(r)
  <2>1. LedgerMarked(r, <<"request_received", "contract_proposed">>, req[r].risk = "critical", FALSE)
    BY <1>7 DEF Clarify, ThreadTypes
  <2>2. Goes(r, "intake", "ended")
    BY <1>7 DEF Clarify, CallPlan, ThreadTypes, At, Goto, Finish, Goes
  <2>3. TableTypes' /\ OthersKept(r) /\ Unreceipted(r, <<"request_received", "contract_proposed">>)
    BY <1>0, <2>1, MarkedCall, EventLists DEF Unreceipted
  <2>. QED BY <2>2, <2>3, EventLists DEF Entries
<1>8. CASE Prepare(r)
  <2>1. LedgerMarked(r, Prepares, req[r].risk = "critical", FALSE)
    BY <1>8 DEF Prepare, ThreadTypes, Prepares
  <2>2. Goes(r, "intake", "prepared")
    BY <1>8 DEF Prepare, CallPlan, ThreadTypes, At, Goto, Finish, Goes
  <2>3. TableTypes' /\ OthersKept(r) /\ Unreceipted(r, Prepares)
    BY <1>0, <2>1, MarkedCall, EventLists DEF Unreceipted
  <2>. QED BY <2>2, <2>3, EventLists DEF Entries
<1>9. CASE NoRoute(r)
  <2>. DEFINE es == <<"route_selected", "outcome_rejected">>
  <2>1. Ledger(r, es)
    BY <1>9 DEF NoRoute
  <2>2. pc[r] = "prepared" /\ pc'[r] = "rejecting"
    BY <1>9 DEF NoRoute, ThreadTypes, At, Goto
  <2>3. es \in Seq(Events) /\ Closing(es, "outcome_rejected")
    BY EventLists DEF Closing
  <2>. HIDE DEF es
  <2>4. TableTypes' /\ OthersKept(r) /\ Unreceipted(r, es)
    BY <1>0, <2>1, <2>3, LedgerCall DEF Unreceipted
  <2>. QED BY <2>2, <2>3, <2>4 DEF Entries
<1>10. CASE Route(r)
  <2>1. Ledger(r, <<"route_selected", "action_started">>)
    BY <1>10 DEF Route, ThreadTypes
  <2>2. Goes(r, "prepared", "started")
    BY <1>10 DEF Route, CallPlan, ThreadTypes, At, Goto, Finish, Goes
  <2>3. TableTypes' /\ OthersKept(r) /\ Unreceipted(r, <<"route_selected", "action_started">>)
    BY <1>0, <2>1, LedgerCall, EventLists DEF Unreceipted
  <2>. QED BY <2>2, <2>3, EventLists DEF Entries
<1>11. CASE CallFails(r)
  <2>1. CASE attempt[r] = Len(Tried(r))
    <3>1. UNCHANGED <<book, rows, owner, chain>> /\ pc'[r] = "ended"
      BY <1>11, <2>1 DEF CallFails, Finish, Goto, registryVars, ThreadTypes
    <3>. QED BY <1>0, <3>1, QuietStep DEF Entries
  <2>2. CASE attempt[r] # Len(Tried(r))
    <3>1. Ledger(r, <<"fallback_triggered">>) /\ Goes(r, "started", "started")
      BY <1>11, <2>2 DEF CallFails, CallPlan, At, Goes
    <3>2. TableTypes' /\ OthersKept(r) /\ Unreceipted(r, <<"fallback_triggered">>)
      BY <1>0, <3>1, LedgerCall, EventLists DEF Unreceipted
    <3>. QED BY <3>1, <3>2 DEF Entries
  <2>. QED BY <2>1, <2>2
<1>12. CASE CallReturns(r)
  <2>1. Ledger(r, Replies(verdict'[r]))
    BY <1>12 DEF CallReturns, ThreadTypes, Replies
  <2>2. Goes(r, "started", "replied")
    BY <1>12 DEF CallReturns, CallPlan, ThreadTypes, At, Goto, Finish, Goes
  <2>3. TableTypes' /\ OthersKept(r) /\ Unreceipted(r, Replies(verdict'[r]))
    BY <1>0, <2>1, LedgerCall, EventLists DEF Unreceipted
  <2>. QED BY <2>2, <2>3, EventLists DEF Entries
<1>13. CASE RetryInCloud(r)
  <2>1. LedgerMarked(r, <<"fallback_triggered">>, FALSE, TRUE)
    BY <1>13 DEF RetryInCloud, ThreadTypes
  <2>2. Goes(r, "replied", "started")
    BY <1>13 DEF RetryInCloud, CallPlan, ThreadTypes, At, Goto, Finish, Goes
  <2>3. TableTypes' /\ OthersKept(r) /\ Unreceipted(r, <<"fallback_triggered">>)
    BY <1>0, <2>1, MarkedCall, EventLists DEF Unreceipted
  <2>. QED BY <2>2, <2>3, EventLists DEF Entries
<1>14. CASE RejectRun(r)
  <2>. DEFINE es(review) == (IF Len(plans[r]) > 1 THEN <<"fallback_triggered">> ELSE <<>>)
                            \o (IF review THEN <<"human_review_requested">> ELSE <<>>)
                            \o <<"verification_completed", "outcome_rejected">>
  <2>1. PICK review \in BOOLEAN : LedgerMarked(r, es(review), review, TRUE)
    BY <1>14 DEF RejectRun
  <2>2. es(review) \in Seq(Events) /\ Closing(es(review), "outcome_rejected")
    <3>. DEFINE a == IF Len(plans[r]) > 1 THEN <<"fallback_triggered">> ELSE <<>>
                b == IF review THEN <<"human_review_requested">> ELSE <<>>
                c == <<"verification_completed", "outcome_rejected">>
    <3>1. a \in Seq(Events) /\ b \in Seq(Events) /\ c \in Seq(Events) /\ Len(c) = 2 /\ c[2] = "outcome_rejected"
      BY EventLists
    <3>2. es(review) = (a \o b) \o c
      OBVIOUS
    <3>. HIDE DEF a, b, c, es
    <3>3. a \o b \in Seq(Events)
      BY <3>1, ConcatProperties
    <3>4. /\ (a \o b) \o c \in Seq(Events) /\ Len((a \o b) \o c) = Len(a \o b) + Len(c)
          /\ \A k \in 1 .. Len(a \o b) + Len(c) :
                ((a \o b) \o c)[k] = IF k <= Len(a \o b) THEN (a \o b)[k] ELSE c[k - Len(a \o b)]
      BY <3>1, <3>3, ConcatProperties
    <3>5. Len(a \o b) \in Nat
      BY <3>3, LenProperties
    <3>6. /\ Len((a \o b) \o c) = Len(a \o b) + 2 /\ Len(a \o b) + 2 \in 1 .. Len(a \o b) + Len(c)
          /\ ~(Len(a \o b) + 2 <= Len(a \o b)) /\ (Len(a \o b) + 2) - Len(a \o b) = 2
      BY <3>1, <3>4, <3>5
    <3>7. ((a \o b) \o c)[Len(a \o b) + 2] = "outcome_rejected"
      BY <3>1, <3>4, <3>6
    <3>. QED BY <3>2, <3>4, <3>5, <3>6, <3>7 DEF Closing
  <2>3. pc[r] = "replied" /\ pc'[r] = "rejecting"
    BY <1>14 DEF RejectRun, ThreadTypes, At, Goto, Finish, Goes
  <2>. HIDE DEF es
  <2>4. TableTypes' /\ OthersKept(r) /\ Unreceipted(r, es(review))
    BY <1>0, <2>1, <2>2, MarkedCall DEF Unreceipted
  <2>. QED BY <2>2, <2>3, <2>4 DEF Entries
<1>15. CASE Pass(r)
  <2>1. Ledger(r, <<"verification_completed">>)
    BY <1>15 DEF Pass, ThreadTypes
  <2>2. Goes(r, "replied", "passed")
    BY <1>15 DEF Pass, CallPlan, ThreadTypes, At, Goto, Finish, Goes
  <2>3. TableTypes' /\ OthersKept(r) /\ Unreceipted(r, <<"verification_completed">>)
    BY <1>0, <2>1, LedgerCall, EventLists DEF Unreceipted
  <2>. QED BY <2>2, <2>3, EventLists DEF Entries
<1>16. CASE Complete(r)
  <2>1. Ledger(r, <<"outcome_accepted">>)
    BY <1>16 DEF Complete
  <2>2. Goes(r, "passed", "accepting")
    BY <1>16 DEF Complete, ThreadTypes, At, Goto, Goes
  <2>3. TableTypes' /\ OthersKept(r) /\ Unreceipted(r, <<"outcome_accepted">>)
    BY <1>0, <2>1, LedgerCall, EventLists DEF Unreceipted
  <2>. QED BY <2>2, <2>3 DEF Entries
<1>17. CASE Publish(r)
  <2>1. UNCHANGED <<book, rows, owner, chain>>
    BY <1>17 DEF Publish, registryVars
  <2>2. pc[r] \in {"arrived", "begun", "settled", "cached"} \/ pc'[r] = "ended"
    BY <1>17 DEF Publish, ThreadTypes, At, Goto, Finish
  <2>. QED BY <2>1, <2>2, <1>0, QuietStep DEF Entries
<1>18. CASE Answer(r)
  <2>1. UNCHANGED <<book, rows, owner, chain>>
    BY <1>18 DEF Answer, registryVars
  <2>2. pc[r] \in {"arrived", "begun", "settled", "cached"} \/ pc'[r] = "ended"
    BY <1>18 DEF Answer, ThreadTypes, At, Goto, Finish
  <2>. QED BY <2>1, <2>2, <1>0, QuietStep DEF Entries
<1>19. CASE LoseRecord(r)
  <2>1. UNCHANGED <<book, rows, owner, chain>>
    BY <1>19 DEF LoseRecord, registryVars
  <2>2. pc[r] \in {"arrived", "begun", "settled", "cached"} \/ pc'[r] = "ended"
    BY <1>19 DEF LoseRecord, ThreadTypes, At, Goto, Finish
  <2>. QED BY <2>1, <2>2, <1>0, QuietStep DEF Entries
<1>20. CASE Certify(r)
  <2>. DEFINE status == IF At(r, "accepting") THEN "accepted" ELSE "escalated"
              v == ReceiptFor(book[r], status)
  <2>1. /\ IssueReceipt(r, status) /\ receipt' = [receipt EXCEPT ![r] = v]
        /\ pc[r] \in {"accepting", "rejecting"} /\ pc'[r] = "receipted"
    BY <1>20 DEF Certify, Goto, ThreadTypes
  <2>2. status \in {"accepted", "escalated"} /\ status = IF pc[r] = "accepting" THEN "accepted" ELSE "escalated"
    BY DEF At
  <2>3. receipt'[r] = v
    BY <2>1 DEF BookTypes
  <2>. HIDE DEF v, status
  <2>4. /\ TableTypes' /\ OthersKept(r) /\ rows'[r] = rows[r] /\ chain'[r] = chain[r]
        /\ book'[r].events = book[r].events /\ book'[r].receipt = v
        /\ v = [status |-> status, head |-> Len(book[r].events)] /\ v \in Receipt
    BY <1>0, <2>1, <2>2, IssueCall DEF v
  <2>. QED BY <2>1, <2>2, <2>3, <2>4 DEF Entries, Certified
<1>21. CASE Save(r)
  <2>1. /\ SaveReceipt(r, receipt[r]) /\ pc[r] = "receipted"
        /\ pc'[r] = IF receipt[r].status = "accepted" THEN "settled" ELSE "refused"
    BY <1>21 DEF Save, At, Goto, ThreadTypes
  <2>2. receipt[r] \in Receipt
    BY <2>1 DEF BookTypes
  <2>3. /\ TableTypes' /\ OthersKept(r) /\ book'[r] = book[r] /\ chain'[r] = chain[r]
        /\ RowSettled(r, receipt[r])
    BY <1>0, <2>1, <2>2, SaveCall
  <2>. QED BY <2>1, <2>3 DEF Entries, Saved
<1>22. CASE Escalate(r)
  <2>1. UNCHANGED <<book, rows, owner, chain>> /\ pc'[r] = "ended"
    BY <1>22 DEF Escalate, registryVars, ThreadTypes, Finish, Goto
  <2>. QED BY <1>0, <2>1, QuietStep DEF Entries
<1>. QED BY <1>1, <1>2, <1>3, <1>4, <1>5, <1>6, <1>7, <1>8, <1>9, <1>10, <1>11, <1>12, <1>13, <1>14, <1>15, <1>16, <1>17, <1>18, <1>19,
         <1>20, <1>21, <1>22 DEF Step

LEMMA StepWrites ==
    ASSUME ThreadTypes, BookTypes, NEW r \in Runs, Step(r)
    PROVE  BookTypes' /\ OthersKept(r) /\ Writes(r)
<1>1. TableTypes' /\ OthersKept(r) /\ Entries(r) /\ Frame(r) /\ Moves(r)
  BY StepEntries, StepMoves DEF StepResult
<1>2. UNCHANGED receipt \/ Certify(r)
  BY DEF Step, Refuse, ServeCached, Miss, Begin, Own, Reject422, Clarify, Prepare, NoRoute, Route, CallFails,
         CallReturns, RetryInCloud, RejectRun, Pass, Complete, Save, Escalate, Publish, Answer, LoseRecord, callVars
<1>3. CASE Certify(r)
  <2>1. pc[r] \in {"accepting", "rejecting"} /\ pc'[r] = "receipted"
    BY <1>3 DEF Certify, Goto, ThreadTypes
  <2>2. Certified(r)
    BY <1>1, <2>1 DEF Entries, Goes, Saved
  <2>3. \A q \in Runs \ {r} : receipt'[q] = receipt[q] /\ pc'[q] = pc[q]
    BY <1>1, <1>3 DEF Certify, BookTypes, Frame
  <2>4. receipt' = [receipt EXCEPT ![r] = receipt'[r]] /\ receipt'[r] \in Receipt
    BY <1>3, <2>2 DEF Certify, Certified, BookTypes
  <2>5. BookTypes'
    BY <1>1, <2>3, <2>4 DEF BookTypes
  <2>. QED BY <1>1, <2>2, <2>3, <2>5 DEF Writes
<1>4. CASE UNCHANGED receipt
  <2>1. pc'[r] = "receipted" => receipt'[r] \in Receipt
    BY <1>1 DEF Entries, Goes, Saved, Certified, Moves, Advances, Admitted
  <2>2. BookTypes'
    BY <1>1, <1>4, <2>1 DEF BookTypes, Frame
  <2>. QED BY <1>1, <1>4, <2>2 DEF Writes
<1>. QED BY <1>2, <1>3, <1>4

\* The other steps write no row and no event; a record read back, and one of a
\* new process, has no events, and no receipt but that of the row.
Reads ==
    /\ UNCHANGED <<rows, chain, receipt>>
    /\ \A q \in Runs :
         \/ book'[q] = book[q]
         \/ /\ ~Known(q) \/ pc'[q] \notin Recording
            /\ book'[q].events = <<>>
            /\ book'[q].receipt = NoReceipt \/ (rows[q] \in Row /\ book'[q].receipt = rows[q].receipt)

LEMMA SameBooks ==
    ASSUME ThreadTypes, BookTypes, UNCHANGED <<book, rows, owner, chain, receipt>>,
           \A q \in Runs : pc'[q] = "receipted" => pc[q] = "receipted"
    PROVE  BookTypes' /\ Reads
BY DEF BookTypes, TableTypes, Reads

LEMMA NextWrites ==
    ASSUME ThreadTypes, BookTypes, [Next]_vars
    PROVE  /\ BookTypes'
           /\ \/ \E r \in Runs : StepResult(r) /\ OthersKept(r) /\ Writes(r)
              \/ (\E r \in Runs : Arrives(r)) /\ Reads
              \/ Aside /\ Reads
              \/ Crash /\ Reads
<1>1. ASSUME NEW r \in Runs, Step(r)
      PROVE  BookTypes' /\ StepResult(r) /\ OthersKept(r) /\ Writes(r)
  BY <1>1, StepMoves, StepWrites
<1>2. ASSUME NEW r \in Runs, Arrive(r)
      PROVE  BookTypes' /\ Arrives(r) /\ Reads
  <2>1. Arrives(r)
    BY <1>2 DEF Arrive, Arrives, ThreadTypes, At, Goto, sharedVars, faultVars, answerVars
  <2>2. \A q \in Runs : pc'[q] = "receipted" => pc[q] = "receipted"
    BY <2>1 DEF Arrives, ThreadTypes
  <2>. QED BY <1>2, <2>1, <2>2, SameBooks DEF Arrive, registryVars
<1>3. ASSUME NEW r \in Runs, Look(r)
      PROVE  BookTypes' /\ Aside /\ Reads
  <2>1. Aside
    BY <1>3 DEF Look, Aside, threadVars
  <2>2. /\ rows[r] \in Row /\ ~Known(r) /\ book' = [book EXCEPT ![r] = RecordFromRow(r)]
        /\ UNCHANGED <<rows, owner, chain>>
    BY <1>3 DEF Look, ReadBack, BookTypes, TableTypes
  <2>3. /\ RecordFromRow(r) \in BookRecord /\ RecordFromRow(r).receipt = rows[r].receipt
        /\ RecordFromRow(r).events = <<>>
    BY <2>2, EmptySeq DEF RecordFromRow, RunTenant, BookRecord, BookTypes, TableTypes, Row
  <2>4. BookTypes'
    BY <2>1, <2>2, <2>3 DEF BookTypes, TableTypes, Aside
  <2>5. Reads
    BY <2>1, <2>2, <2>3 DEF Reads, BookTypes, TableTypes, Aside
  <2>. QED BY <2>1, <2>4, <2>5
<1>4. ASSUME NEW s \in Switches, SetSwitch(s)
      PROVE  BookTypes' /\ Aside /\ Reads
  <2>1. Aside
    BY <1>4 DEF SetSwitch, Aside, threadVars
  <2>. QED BY <1>4, <2>1, SameBooks DEF SetSwitch, registryVars, Aside
<1>5. ASSUME NEW t \in Tenants, DeleteTenant(t)
      PROVE  BookTypes' /\ Aside /\ Reads
  <2>1. Aside
    BY <1>5 DEF DeleteTenant, Aside, threadVars
  <2>. QED BY <1>5, <2>1, SameBooks DEF DeleteTenant, registryVars, Aside
<1>6. CASE Restart
  <2>1. Crash
    BY <1>6 DEF Restart, Crash, callVars, runVars, answerVars
  <2>2. book' = [r \in Runs |-> Record(DefaultTenant)] /\ UNCHANGED <<rows, owner, chain>>
    BY <1>6 DEF Restart, Forget
  <2>3. /\ Record(DefaultTenant) \in BookRecord /\ Record(DefaultTenant).receipt = NoReceipt
        /\ Record(DefaultTenant).events = <<>>
    BY EmptySeq DEF Record, BookRecord
  <2>4. \A q \in Runs : pc'[q] \notin Recording
    BY <2>1 DEF Crash, Ended, Recording
  <2>5. BookTypes' /\ Reads
    BY <2>1, <2>2, <2>3, <2>4 DEF BookTypes, TableTypes, Reads, Crash, Recording
  <2>. QED BY <2>1, <2>5
<1>7. CASE UNCHANGED vars
  <2>1. Aside
    BY <1>7 DEF vars, Aside, threadVars
  <2>. QED BY <1>7, <2>1, SameBooks DEF vars, registryVars, Aside
<1>. QED BY <1>1, <1>2, <1>3, <1>4, <1>5, <1>6, <1>7 DEF Next

LEMMA BookTypesAlways == Spec => []BookTypes
<1>1. Init => BookTypes
  <2>1. Record(DefaultTenant) \in BookRecord
    BY EmptySeq DEF Record, BookRecord
  <2>2. <<>> \in Seq(LedgerRow)
    BY EmptySeq
  <2>. QED BY <2>1, <2>2 DEF Init, RegistryInit, BookTypes, TableTypes
<1>2. ThreadTypes /\ BookTypes /\ [Next]_vars => BookTypes'
  BY NextWrites
<1>. QED BY <1>1, <1>2, TypesAlways, PTL DEF Spec

\* ------------------------------------------------------------ the dict of runs
\* The order of the dict: what _runs holds, each run once, at most max_runs.
OrderKept ==
    /\ capacity \in Nat \ {0}
    /\ order \in Seq(Runs) /\ Len(order) <= capacity
    /\ \A i, j \in 1 .. Len(order) : order[i] = order[j] => i = j
    /\ \A r \in Runs : Known(r) <=> \E i \in 1 .. Len(order) : order[i] = r
    /\ held \in [Runs -> {"absent", "live", "reloaded"}]

LEMMA InsertKeeps ==
    ASSUME OrderKept, NEW r \in Runs, ~Known(r), NEW how \in {"live", "reloaded"}, Insert(r, how), UNCHANGED capacity
    PROVE  OrderKept' /\ held'[r] = how
<1>. DEFINE all == Append(order, r)
            kept == SubSeq(all, Len(all) - capacity + 1, Len(all))
            n == Len(order)
<1>0. n \in Nat /\ capacity \in Nat /\ capacity >= 1 /\ n <= capacity
  BY LenProperties DEF OrderKept
<1>1. /\ all \in Seq(Runs) /\ Len(all) = n + 1
      /\ (\A k \in 1 .. n : all[k] = order[k]) /\ all[n + 1] = r
  BY AppendProperties DEF OrderKept
<1>2. \A k \in 1 .. n : order[k] \in Runs /\ order[k] # r
  <2>1. \A k \in 1 .. n : order[k] \in Runs
    BY ElementOfSeq DEF OrderKept
  <2>. QED BY <2>1 DEF OrderKept
<1>a. order' = IF Len(all) > capacity THEN kept ELSE all
  BY DEF Insert
<1>. HIDE DEF all
<1>3. \A k \in 1 .. n + 1 : all[k] \in Runs
  BY <1>0, <1>1, <1>2
<1>4. \A i, j \in 1 .. n + 1 : all[i] = all[j] => i = j
  <2>1. \A i \in 1 .. n + 1 : i \in 1 .. n \/ i = n + 1
    BY <1>0
  <2>2. \A i, j \in 1 .. n : order[i] = order[j] => i = j
    BY DEF OrderKept
  <2>. QED BY <1>1, <1>2, <2>1, <2>2
<1>5. \E d \in Nat : /\ order' \in Seq(Runs) /\ Len(order') = n + 1 - d /\ Len(order') <= capacity /\ d <= n
                     /\ \A k \in 1 .. n + 1 - d : order'[k] = all[k + d]
  <2>1. CASE n + 1 <= capacity
    <3>1. order' = all
      BY <1>0, <1>1, <1>a, <2>1
    <3>2. \A k \in 1 .. n + 1 - 0 : all[k] = all[k + 0]
      BY <1>0
    <3>. QED BY <1>0, <1>1, <2>1, <3>1, <3>2
  <2>2. CASE n + 1 > capacity
    <3>1. n = capacity
      BY <1>0, <2>2
    <3>2. order' = kept /\ Len(all) - capacity + 1 = 2
      <4>1. Len(all) > capacity /\ Len(all) - capacity + 1 = 2
        BY <1>0, <1>1, <2>2, <3>1
      <4>. QED BY <1>a, <4>1
    <3>3. kept = SubSeq(all, 2, n + 1)
      BY <1>1, <3>2
    <3>. HIDE DEF kept
    <3>4. \A k \in 2 .. n + 1 : all[k] \in Runs
      BY <1>0, <1>3
    <3>5. /\ kept \in Seq(Runs)
          /\ Len(kept) = IF 2 <= n + 1 THEN (n + 1) - 2 + 1 ELSE 0
          /\ \A k \in 1 .. (n + 1) - 2 + 1 : kept[k] = all[2 + k - 1]
      BY <1>0, <1>1, <3>3, <3>4, SubSeqProperties
    <3>6. Len(kept) = n + 1 - 1 /\ \A k \in 1 .. n + 1 - 1 : kept[k] = all[k + 1]
      BY <1>0, <3>1, <3>5
    <3>7. /\ order' \in Seq(Runs) /\ Len(order') = n + 1 - 1 /\ Len(order') <= capacity /\ 1 <= n
          /\ \A k \in 1 .. n + 1 - 1 : order'[k] = all[k + 1]
      BY <1>0, <3>1, <3>2, <3>5, <3>6
    <3>. QED BY <3>7
  <2>3. n + 1 <= capacity \/ n + 1 > capacity
    BY <1>0
  <2>. QED BY <2>1, <2>2, <2>3, Zenon
<1>6. PICK d \in Nat : /\ order' \in Seq(Runs) /\ Len(order') = n + 1 - d /\ Len(order') <= capacity /\ d <= n
                       /\ \A k \in 1 .. n + 1 - d : order'[k] = all[k + d]
  BY <1>5
<1>. DEFINE m == n + 1 - d
<1>7. m \in Nat /\ \A k \in 1 .. m : k + d \in 1 .. n + 1
  BY <1>0, <1>6
<1>8. \A i, j \in 1 .. m : order'[i] = order'[j] => i = j
  <2>1. ASSUME NEW i \in 1 .. m, NEW j \in 1 .. m, order'[i] = order'[j]
        PROVE  i = j
    <3>1. i + d = j + d
      BY <1>4, <1>6, <1>7, <2>1
    <3>. QED BY <1>6, <1>7, <3>1
  <2>. QED BY <2>1
<1>9. m \in 1 .. m /\ order'[m] = r
  <2>1. m \in 1 .. m /\ m + d = n + 1
    BY <1>0, <1>6, <1>7
  <2>. QED BY <1>1, <1>6, <2>1
<1>10. ToSet(order') = {order'[i] : i \in 1 .. m}
  BY <1>6, LenProperties DEF ToSet
<1>11. held' = [q \in Runs |-> IF q \notin ToSet(order') THEN "absent" ELSE IF q = r THEN how ELSE held[q]]
  BY DEF Insert
<1>12. held' \in [Runs -> {"absent", "live", "reloaded"}]
  BY <1>11 DEF OrderKept
<1>13. ASSUME NEW q \in Runs
       PROVE  held'[q] # "absent" <=> \E i \in 1 .. m : order'[i] = q
  <2>1. CASE \E i \in 1 .. m : order'[i] = q
    <3>1. q \in ToSet(order')
      BY <1>10, <2>1
    <3>2. PICK i \in 1 .. m : order'[i] = q
      BY <2>1
    <3>3. q = r \/ Known(q)
      <4>1. q = all[i + d] /\ i + d \in 1 .. n + 1
        BY <1>6, <1>7, <3>2
      <4>2. CASE i + d = n + 1
        BY <1>1, <4>1, <4>2
      <4>3. CASE i + d # n + 1
        <5>1. i + d \in 1 .. n
          BY <1>0, <1>6, <1>7, <4>1, <4>3
        <5>2. q = order[i + d]
          BY <1>1, <4>1, <5>1
        <5>. QED BY <5>1, <5>2 DEF OrderKept
      <4>. QED BY <4>2, <4>3
    <3>. QED BY <1>11, <2>1, <3>1, <3>3 DEF Known
  <2>2. CASE ~ \E i \in 1 .. m : order'[i] = q
    <3>1. q \notin ToSet(order')
      BY <1>10, <2>2
    <3>. QED BY <1>11, <2>2, <3>1
  <2>. QED BY <2>1, <2>2
<1>14. held'[r] = how
  BY <1>9, <1>10, <1>11
<1>. QED BY <1>0, <1>6, <1>8, <1>12, <1>13, <1>14 DEF OrderKept, Known

Unwritten == {"idle", "arrived", "new"}
RegistryInv ==
    /\ OrderKept /\ capacity \in Capacities
    /\ \A r \in Runs : owner[r] # NoTenant => rows[r] # NoRow
    /\ \A r \in Runs : pc[r] \in Unwritten => rows[r] = NoRow /\ ~Known(r)
    /\ \A r \in Runs : pc[r] \notin Unwritten \cup Ended => rows[r] # NoRow
    /\ \A r \in Runs : pc[r] \in Recording /\ r \notin dropped => Known(r)

\* What a call does to the dict, and to the row that says whose the run is.
DictMoves(r) ==
    /\ capacity' = capacity
    /\ \/ pc[r] # "new" /\ UNCHANGED <<order, held, dropped>>
       \/ pc[r] = "new" /\ Insert(r, "live") /\ Drops
OwnerMoves(r) ==
    \/ UNCHANGED owner
    \/ owner' = [owner EXCEPT ![r] = NoTenant]
    \/ rows[r] # NoRow /\ UNCHANGED rows /\ \E t \in Tenants : owner' = [owner EXCEPT ![r] = t]

LEMMA StepTables ==
    ASSUME ThreadTypes, NEW r \in Runs, Step(r)
    PROVE  DictMoves(r) /\ OwnerMoves(r)
<1>1. CASE Refuse(r)
  BY <1>1 DEF Refuse, DictMoves, OwnerMoves, At, CallPlan, sharedVars, registryVars, callVars, runVars, Ledger
<1>2. CASE ServeCached(r)
  BY <1>2 DEF ServeCached, DictMoves, OwnerMoves, At, CallPlan, sharedVars, registryVars, callVars, runVars, Ledger
<1>3. CASE Miss(r)
  BY <1>3 DEF Miss, DictMoves, OwnerMoves, At, CallPlan, sharedVars, registryVars, callVars, runVars, Ledger
<1>4. CASE Begin(r)
  BY <1>4 DEF Begin, At, SaveRun, DictMoves, OwnerMoves
<1>5. CASE Own(r)
  <2>1. req[r].tenant \in Tenants
    BY DEF ThreadTypes, Requests
  <2>. QED BY <1>5, <2>1 DEF Own, At, SetRunTenant, sharedVars, DictMoves, OwnerMoves
<1>6. CASE Reject422(r)
  BY <1>6 DEF Reject422, DictMoves, OwnerMoves, At, CallPlan, sharedVars, registryVars, callVars, runVars, Ledger
<1>7. CASE Clarify(r)
  BY <1>7 DEF Clarify, At, LedgerMarked, SaveRun, sharedVars, DictMoves, OwnerMoves
<1>8. CASE Prepare(r)
  BY <1>8 DEF Prepare, At, LedgerMarked, SaveRun, sharedVars, DictMoves, OwnerMoves
<1>9. CASE NoRoute(r)
  BY <1>9 DEF NoRoute, DictMoves, OwnerMoves, At, sharedVars, Ledger
<1>10. CASE Route(r)
  BY <1>10 DEF Route, DictMoves, OwnerMoves, At, CallPlan, sharedVars, registryVars, callVars, runVars, Ledger
<1>11. CASE CallFails(r)
  BY <1>11 DEF CallFails, DictMoves, OwnerMoves, At, CallPlan, sharedVars, registryVars, callVars, runVars, Ledger
<1>12. CASE CallReturns(r)
  BY <1>12 DEF CallReturns, DictMoves, OwnerMoves, At, CallPlan, sharedVars, registryVars, callVars, runVars, Ledger
<1>13. CASE RetryInCloud(r)
  BY <1>13 DEF RetryInCloud, At, LedgerMarked, SaveRun, sharedVars, DictMoves, OwnerMoves
<1>14. CASE RejectRun(r)
  BY <1>14 DEF RejectRun, At, LedgerMarked, SaveRun, sharedVars, DictMoves, OwnerMoves
<1>15. CASE Pass(r)
  BY <1>15 DEF Pass, DictMoves, OwnerMoves, At, CallPlan, sharedVars, registryVars, callVars, runVars, Ledger
<1>16. CASE Complete(r)
  BY <1>16 DEF Complete, DictMoves, OwnerMoves, At, sharedVars, Ledger
<1>17. CASE Publish(r)
  BY <1>17 DEF Publish, DictMoves, OwnerMoves, At, CallPlan, sharedVars, registryVars, callVars, runVars, Ledger
<1>18. CASE Answer(r)
  BY <1>18 DEF Answer, DictMoves, OwnerMoves, At, CallPlan, sharedVars, registryVars, callVars, runVars, Ledger
<1>19. CASE LoseRecord(r)
  BY <1>19 DEF LoseRecord, DictMoves, OwnerMoves, At, CallPlan, sharedVars, registryVars, callVars, runVars, Ledger
<1>20. CASE Certify(r)
  BY <1>20 DEF Certify, IssueReceipt, DictMoves, OwnerMoves, sharedVars
<1>21. CASE Save(r)
  BY <1>21 DEF Save, At, SaveReceipt, SaveRun, DictMoves, OwnerMoves, sharedVars
<1>22. CASE Escalate(r)
  BY <1>22 DEF Escalate, At, DictMoves, OwnerMoves, sharedVars, registryVars
<1>. QED BY <1>1, <1>2, <1>3, <1>4, <1>5, <1>6, <1>7, <1>8, <1>9, <1>10, <1>11, <1>12, <1>13, <1>14, <1>15, <1>16, <1>17, <1>18, <1>19,
         <1>20, <1>21, <1>22 DEF Step

LEMMA RegistryStep ==
    ASSUME ThreadTypes, BookTypes, RegistryInv, NEW r \in Runs, Step(r)
    PROVE  RegistryInv'
<1>1. DictMoves(r) /\ OwnerMoves(r)
  BY StepTables
<1>2. BookTypes' /\ OthersKept(r) /\ Writes(r) /\ Frame(r) /\ Moves(r)
  BY StepMoves, StepWrites DEF StepResult
<1>3. OrderKept'
  <2>1. CASE UNCHANGED <<order, held>>
    BY <1>1, <2>1 DEF DictMoves, OrderKept, RegistryInv, Known
  <2>2. CASE pc[r] = "new" /\ Insert(r, "live")
    BY <1>1, <2>2, InsertKeeps DEF DictMoves, RegistryInv, Unwritten
  <2>. QED BY <1>1, <2>1, <2>2 DEF DictMoves
<1>4. rows'[r] = rows[r] \/ rows'[r] \in Row
  BY <1>2, NullsAssumption DEF Writes, Entries, Quiet, RowWritten, Unreceipted, Certified, Saved, RowSettled
<1>5. \A q \in Runs : rows[q] # NoRow => rows'[q] # NoRow
  BY <1>2, <1>4, NullsAssumption DEF OthersKept
<1>6. ASSUME NEW q \in Runs, owner'[q] # NoTenant
      PROVE  rows'[q] # NoRow
  <2>1. owner'[q] = owner[q] \/ rows[q] # NoRow
    BY <1>1, <1>6 DEF OwnerMoves, BookTypes, TableTypes
  <2>. QED BY <1>5, <1>6, <2>1 DEF RegistryInv
<1>7. ASSUME NEW q \in Runs, pc'[q] \in Unwritten
      PROVE  rows'[q] = NoRow /\ held'[q] = "absent"
  <2>1. CASE q = r
    <3>1. pc[r] = "arrived"
      BY <1>2, <1>7, <2>1 DEF Moves, Advances, Unwritten
    <3>2. rows'[r] = rows[r] /\ held' = held
      BY <1>1, <1>2, <1>7, <2>1, <3>1 DEF Writes, Entries, Goes, Quiet, Unwritten, DictMoves, Certified, Saved
    <3>. QED BY <2>1, <3>1, <3>2 DEF RegistryInv, Unwritten, Known
  <2>2. CASE q # r
    <3>1. rows'[q] = rows[q] /\ pc'[q] = pc[q]
      BY <1>2, <2>2 DEF OthersKept, Frame
    <3>2. rows[q] = NoRow /\ held[q] = "absent"
      BY <1>7, <3>1 DEF RegistryInv, Known
    <3>3. held'[q] = held[q] \/ held'[q] = "absent"
      BY <1>1, <2>2 DEF DictMoves, Insert
    <3>. QED BY <3>1, <3>2, <3>3
  <2>. QED BY <2>1, <2>2
<1>8. capacity' \in Capacities
  BY <1>1 DEF DictMoves, RegistryInv
<1>9. ASSUME NEW q \in Runs, pc'[q] \notin Unwritten \cup Ended
      PROVE  rows'[q] # NoRow
  <2>1. CASE pc[q] \notin Unwritten \cup Ended
    BY <1>5, <2>1 DEF RegistryInv
  <2>2. CASE pc[q] \in Unwritten \cup Ended
    <3>1. q = r /\ pc[r] = "new" /\ pc'[r] = "begun"
      BY <1>2, <1>9, <2>2 DEF Frame, Moves, Advances, Admitted, Unwritten, Ended
    <3>2. rows'[r] \in Row
      BY <1>2, <3>1 DEF Writes, Entries, Goes, RowWritten, Certified, Saved
    <3>. QED BY <3>1, <3>2, NullsAssumption
  <2>. QED BY <2>1, <2>2
<1>10. ASSUME NEW q \in Runs, pc'[q] \in Recording, q \notin dropped'
       PROVE  held'[q] # "absent"
  <2>1. CASE pc[r] # "new" /\ UNCHANGED <<order, held, dropped>>
    <3>1. pc[q] \in Recording
      BY <1>2, <1>10, <2>1 DEF Frame, Moves, Advances, Admitted, Recording
    <3>. QED BY <1>10, <2>1, <3>1 DEF RegistryInv, Known
  <2>2. CASE pc[r] = "new" /\ Insert(r, "live") /\ Drops
    <3>1. CASE q = r
      <4>1. held'[r] = "live"
        BY <1>1, <2>2, InsertKeeps DEF DictMoves, RegistryInv, Unwritten
      <4>. QED BY <3>1, <4>1
    <3>2. CASE q # r
      <4>1. pc[q] \in Recording /\ q \notin dropped
        BY <1>2, <1>10, <2>2, <3>2 DEF Frame, Drops
      <4>2. Known(q)
        BY <4>1 DEF RegistryInv
      <4>. QED BY <1>10, <2>2, <4>1, <4>2 DEF Drops
    <3>. QED BY <3>1, <3>2
  <2>. QED BY <1>1, <2>1, <2>2 DEF DictMoves
<1>. QED BY <1>3, <1>6, <1>7, <1>8, <1>9, <1>10 DEF RegistryInv, Known

LEMMA RegistryNext ==
    ASSUME ThreadTypes, BookTypes, RegistryInv, [Next]_vars
    PROVE  RegistryInv'
<1>0. UNCHANGED <<registryVars, pc, dropped>> => RegistryInv'
  BY DEF registryVars, RegistryInv, OrderKept, Known
<1>1. ASSUME NEW r \in Runs, Arrive(r)
      PROVE  RegistryInv'
  <2>1. pc[r] = "idle" /\ pc' = [pc EXCEPT ![r] = "arrived"] /\ UNCHANGED <<registryVars, dropped>>
    BY <1>1 DEF Arrive, At, Goto, sharedVars
  <2>2. \A q \in Runs : /\ pc'[q] \in Unwritten <=> pc[q] \in Unwritten
                        /\ pc'[q] \in Ended <=> pc[q] \in Ended
                        /\ pc'[q] \in Recording <=> pc[q] \in Recording
    BY <2>1 DEF Unwritten, ThreadTypes, Ended, Recording
  <2>. QED BY <2>1, <2>2 DEF registryVars, RegistryInv, OrderKept, Known
<1>2. ASSUME NEW r \in Runs, Look(r)
      PROVE  RegistryInv'
  <2>1. /\ ~Known(r) /\ rows[r] # NoRow /\ Insert(r, "reloaded") /\ Drops
        /\ UNCHANGED <<capacity, rows, owner, pc>>
    BY <1>2 DEF Look, ReadBack, threadVars
  <2>2. OrderKept'
    BY <2>1, InsertKeeps DEF RegistryInv
  <2>3. ASSUME NEW q \in Runs, pc[q] \in Unwritten
        PROVE  held'[q] = "absent"
    BY <2>1, <2>3 DEF RegistryInv, Insert, Known
  <2>4. ASSUME NEW q \in Runs, pc[q] \in Recording, q \notin dropped'
        PROVE  held'[q] # "absent"
    <3>1. q \notin dropped
      BY <2>1, <2>4 DEF Drops
    <3>2. Known(q)
      BY <2>4, <3>1 DEF RegistryInv
    <3>. QED BY <2>1, <2>4, <3>2 DEF Drops
  <2>. QED BY <2>1, <2>2, <2>3, <2>4 DEF RegistryInv, Known
<1>3. ASSUME NEW s \in Switches, SetSwitch(s)
      PROVE  RegistryInv'
  BY <1>0, <1>3 DEF SetSwitch, threadVars
<1>4. ASSUME NEW t \in Tenants, DeleteTenant(t)
      PROVE  RegistryInv'
  BY <1>0, <1>4 DEF DeleteTenant, threadVars
<1>5. CASE Restart
  <2>1. /\ order' = <<>> /\ held' = [r \in Runs |-> "absent"]
        /\ UNCHANGED <<capacity, rows, owner>>
        /\ pc' = [r \in Runs |-> IF pc[r] \in {"idle"} \cup Ended THEN pc[r] ELSE "lost"]
    BY <1>5 DEF Restart, Forget
  <2>2. <<>> \in Seq(Runs) /\ Len(<<>>) = 0
    BY EmptySeq
  <2>3. OrderKept'
    BY <2>1, <2>2 DEF OrderKept, RegistryInv, Known
  <2>4. \A q \in Runs : /\ pc'[q] \in Unwritten => pc[q] \in Unwritten
                        /\ pc'[q] \in Unwritten \cup Ended
                        /\ pc'[q] \notin Recording
    BY <2>1 DEF Unwritten, Ended, Recording
  <2>. QED BY <2>1, <2>3, <2>4 DEF RegistryInv, Known
<1>6. CASE UNCHANGED vars
  BY <1>0, <1>6 DEF vars, threadVars
<1>7. ASSUME NEW r \in Runs, Step(r)
      PROVE  RegistryInv'
  BY <1>7, RegistryStep
<1>. QED BY <1>1, <1>2, <1>3, <1>4, <1>5, <1>6, <1>7 DEF Next

LEMMA RegistryAlways == Spec => []RegistryInv
<1>1. Init => RegistryInv
  <2>1. <<>> \in Seq(Runs) /\ Len(<<>>) = 0
    BY EmptySeq
  <2>2. \A c \in Capacities : c \in Nat \ {0}
    BY CapacityAssumption
  <2>. QED BY <2>1, <2>2 DEF Init, RegistryInit, RegistryInv, OrderKept, Known, Unwritten, Ended, Recording
<1>2. ThreadTypes /\ BookTypes /\ RegistryInv /\ [Next]_vars => RegistryInv'
  BY RegistryNext
<1>. QED BY <1>1, <1>2, TypesAlways, BookTypesAlways, PTL DEF Spec

\* ------------------------------------------------------------ the ledger
\* d is c with the events es after it.
Grown(c, d, es) ==
    /\ Len(c) \in Nat /\ Len(es) \in Nat /\ Len(d) = Len(c) + Len(es)
    /\ \A i \in 1 .. Len(c) : d[i] = c[i]
    /\ \A k \in 1 .. Len(es) : d[Len(c) + k].event = es[k]

LEMMA PostGrows ==
    ASSUME BookTypes, NEW r \in Runs, NEW es \in Seq(Events), Posting(r, es)
    PROVE  /\ Grown(chain[r], chain'[r], es)
           /\ \A k \in 1 .. Len(es) : chain'[r][Len(chain[r]) + k].sequence = Len(book[r].events) + k - 1
           /\ Len(book[r].events) \in Nat
           /\ Len(book[r].events \o es) = Len(book[r].events) + Len(es)
<1>. DEFINE n == Numbered(r, es)
            c == chain[r]
<1>0. TableTypes
  BY DEF BookTypes
<1>1. c \in Seq(LedgerRow) /\ n \in Seq(LedgerRow) /\ book[r].events \in Seq(Events)
  BY <1>0, PostTypes DEF TableTypes
<1>2. /\ Len(c) \in Nat /\ Len(es) \in Nat /\ Len(book[r].events) \in Nat
      /\ DOMAIN n = 1 .. Len(n) /\ Len(n) \in Nat
  BY <1>1, LenProperties
<1>3. /\ DOMAIN n = 1 .. Len(es)
      /\ \A k \in 1 .. Len(es) : n[k].event = es[k] /\ n[k].sequence = Len(book[r].events) + k - 1
  BY DEF Numbered
<1>. HIDE DEF n
<1>4. Len(n) = Len(es)
  <2>1. \A k : k \in 1 .. Len(n) <=> k \in 1 .. Len(es)
    BY <1>2, <1>3, Zenon
  <2>2. /\ Len(n) > 0 => Len(n) \in 1 .. Len(es)
        /\ Len(es) > 0 => Len(es) \in 1 .. Len(n)
    BY <1>2, <2>1
  <2>. QED BY <1>2, <2>2
<1>5. /\ Len(c \o n) = Len(c) + Len(n)
      /\ \A i \in 1 .. Len(c) + Len(n) : (c \o n)[i] = IF i <= Len(c) THEN c[i] ELSE n[i - Len(c)]
  BY <1>1, ConcatProperties
<1>6. \A i \in 1 .. Len(c) : (c \o n)[i] = c[i]
  BY <1>2, <1>5
<1>7. ASSUME NEW k \in 1 .. Len(es)
      PROVE  (c \o n)[Len(c) + k] = n[k]
  <2>1. Len(c) + k \in 1 .. Len(c) + Len(n) /\ ~(Len(c) + k <= Len(c)) /\ (Len(c) + k) - Len(c) = k
    BY <1>2, <1>4
  <2>. QED BY <1>5, <2>1
<1>8. chain'[r] = c \o n
  BY DEF Posting, n
<1>9. Len(book[r].events \o es) = Len(book[r].events) + Len(es)
  BY <1>1, ConcatProperties
<1>. QED BY <1>2, <1>3, <1>4, <1>5, <1>6, <1>7, <1>8, <1>9 DEF Grown

\* ------------------------------------------------------------ receipts
\* Where a receipt, a row with one and a verdict in the tables may be found.
Done == {"settled", "refused", "cached", "ended", "lost"}
Receipts ==
    \A r \in Runs :
        /\ receipt[r] # NoReceipt => pc[r] \in {"receipted"} \cup Done
        /\ pc[r] \in {"settled", "cached"} => receipt[r] # NoReceipt /\ receipt[r].status = "accepted"
        /\ book[r].receipt \in {NoReceipt, receipt[r]}
        /\ rows[r] \in Row =>
             /\ rows[r].receipt \in {NoReceipt, receipt[r]}
             /\ rows[r].status # "pending" =>
                  receipt[r] # NoReceipt /\ rows[r].receipt = receipt[r] /\ rows[r].status = receipt[r].status

LEMMA ReceiptsStep ==
    ASSUME ThreadTypes, BookTypes, Receipts, [Next]_vars
    PROVE  Receipts'
<1>1. ASSUME NEW r \in Runs, StepResult(r), OthersKept(r), Writes(r)
      PROVE  Receipts'
  <2>1. ASSUME NEW q \in Runs \ {r}
        PROVE  pc'[q] = pc[q] /\ rows'[q] = rows[q] /\ book'[q] = book[q] /\ receipt'[q] = receipt[q]
    BY <1>1 DEF StepResult, Frame, OthersKept, Writes
  <2>2. /\ receipt'[r] # NoReceipt => pc'[r] \in {"receipted"} \cup Done
        /\ pc'[r] \in {"settled", "cached"} => receipt'[r] # NoReceipt /\ receipt'[r].status = "accepted"
    <3>1. CASE Certified(r)
      BY <3>1 DEF Certified
    <3>2. CASE receipt'[r] = receipt[r]
      <4>1. receipt[r] # NoReceipt => pc'[r] \in {"receipted"} \cup Done
        BY <1>1, <3>2 DEF Receipts, StepResult, Moves, Advances, Admitted, Done
      <4>2. pc'[r] \in {"settled", "cached"} => pc[r] = "settled" \/ Saved(r)
        BY <1>1 DEF StepResult, Moves, Advances, Admitted, Writes, Entries, Goes, Certified
      <4>3. Saved(r) => receipt[r] # NoReceipt /\ (pc'[r] \in {"settled", "cached"} => receipt[r].status = "accepted")
        BY NullsAssumption DEF Saved, BookTypes
      <4>. QED BY <3>2, <4>1, <4>2, <4>3 DEF Receipts
    <3>. QED BY <1>1, <3>1, <3>2 DEF Writes
  <2>3. /\ book'[r].receipt \in {NoReceipt, receipt'[r]}
        /\ rows'[r] \in Row =>
             /\ rows'[r].receipt \in {NoReceipt, receipt'[r]}
             /\ rows'[r].status # "pending" =>
                  receipt'[r] # NoReceipt /\ rows'[r].receipt = receipt'[r] /\ rows'[r].status = receipt'[r].status
    <3>1. CASE Certified(r)
      <4>1. receipt[r] = NoReceipt
        BY <3>1 DEF Certified, Receipts, Done
      <4>. QED BY <3>1, <4>1 DEF Certified, Receipts
    <3>2. CASE receipt'[r] = receipt[r] /\ Saved(r)
      <4>1. receipt[r] # NoReceipt
        BY <3>2, NullsAssumption DEF Saved, BookTypes
      <4>. QED BY <3>2, <4>1 DEF Saved, RowSettled, Receipts
    <3>3. CASE receipt'[r] = receipt[r] /\ ~Saved(r) /\ ~Certified(r)
      <4>1. /\ book'[r].receipt \in {NoReceipt, book[r].receipt}
            /\ rows'[r] = rows[r] \/ RowWritten(r, "pending")
        BY <1>1, <3>3 DEF Writes, Entries, Quiet, Unreceipted
      <4>. QED BY <3>3, <4>1 DEF RowWritten, Receipts
    <3>. QED BY <1>1, <3>1, <3>2, <3>3 DEF Writes
  <2>. QED BY <2>1, <2>2, <2>3 DEF Receipts
<1>2. ASSUME Reads, \A q \in Runs : /\ pc[q] \in {"receipted"} \cup Done => pc'[q] \in {"receipted"} \cup Done
                                    /\ pc'[q] \in {"settled", "cached"} => pc'[q] = pc[q]
      PROVE  Receipts'
  <2>1. rows' = rows /\ receipt' = receipt
    BY <1>2 DEF Reads
  <2>2. ASSUME NEW q \in Runs
        PROVE  book'[q].receipt \in {NoReceipt, receipt[q]}
    BY <1>2 DEF Reads, Receipts
  <2>3. ASSUME NEW q \in Runs
        PROVE  /\ receipt[q] # NoReceipt => pc'[q] \in {"receipted"} \cup Done
               /\ pc'[q] \in {"settled", "cached"} => receipt[q] # NoReceipt /\ receipt[q].status = "accepted"
    <3>1. receipt[q] # NoReceipt => pc[q] \in {"receipted"} \cup Done
      BY DEF Receipts
    <3>2. pc[q] \in {"settled", "cached"} => receipt[q] # NoReceipt /\ receipt[q].status = "accepted"
      BY DEF Receipts
    <3>3. /\ pc[q] \in {"receipted"} \cup Done => pc'[q] \in {"receipted"} \cup Done
          /\ pc'[q] \in {"settled", "cached"} => pc'[q] = pc[q]
      BY <1>2
    <3>. QED BY <3>1, <3>2, <3>3
  <2>. QED BY <2>1, <2>2, <2>3 DEF Receipts
<1>3. ASSUME NEW r \in Runs, Arrives(r), Reads
      PROVE  Receipts'
  BY <1>2, <1>3 DEF Arrives, ThreadTypes, Done
<1>4. ASSUME Aside, Reads
      PROVE  Receipts'
  BY <1>2, <1>4 DEF Aside
<1>5. ASSUME Crash, Reads
      PROVE  Receipts'
  BY <1>2, <1>5 DEF Crash, Done, Ended
<1>. QED BY <1>1, <1>3, <1>4, <1>5, NextWrites

LEMMA ReceiptsAlways == Spec => []Receipts
<1>1. Init => Receipts
  BY NullsAssumption DEF Init, RegistryInit, Receipts, Record
<1>2. ThreadTypes /\ BookTypes /\ Receipts /\ [Next]_vars => Receipts'
  BY ReceiptsStep
<1>. QED BY <1>1, <1>2, TypesAlways, BookTypesAlways, PTL DEF Spec

\* No step gives a run its record back that memory had dropped.
LEMMA DroppedGrows ==
    ASSUME [Next]_vars
    PROVE  dropped \subseteq dropped'
<1>1. ASSUME NEW r \in Runs, Step(r)
      PROVE  dropped \subseteq dropped'
  BY <1>1 DEF Step, Refuse, ServeCached, Miss, Begin, Own, Reject422, Clarify, Prepare, NoRoute, Route, CallFails,
              CallReturns, RetryInCloud, RejectRun, Pass, Complete, Certify, Save, Escalate, Publish, Answer, LoseRecord,
              Drops, sharedVars
<1>. QED BY <1>1 DEF Next, Arrive, Look, SetSwitch, DeleteTenant, Restart, Drops, sharedVars, vars

\* The last n events of c are numbered from 0.
Numbers(c, n) == n \in 0 .. Len(c) /\ \A i \in 1 .. n : c[Len(c) - n + i].sequence = i - 1
Closes(c, event) == Len(c) >= 1 /\ c[Len(c)].event = event
Outcome(status) == IF status = "accepted" THEN "outcome_accepted" ELSE "outcome_rejected"

\* Posted events go on with the numbering, and none is lost on the way.
LEMMA NumbersGrow ==
    ASSUME BookTypes, NEW r \in Runs, NEW es \in Seq(Events), Posting(r, es),
           Numbers(chain[r], Len(book[r].events))
    PROVE  /\ Numbers(chain'[r], Len(book'[r].events))
           /\ Len(book[r].events) = Len(chain[r]) => Len(book'[r].events) = Len(chain'[r])
           /\ \A event : Closing(es, event) => Closes(chain'[r], event)
<1>. DEFINE c == chain[r]
            d == chain'[r]
            n == Len(book[r].events)
            m == Len(es)
<1>1. /\ Len(c) \in Nat /\ m \in Nat /\ Len(d) = Len(c) + m /\ n \in Nat
      /\ Len(book'[r].events) = n + m
      /\ \A i \in 1 .. Len(c) : d[i] = c[i]
      /\ \A k \in 1 .. m : d[Len(c) + k].event = es[k] /\ d[Len(c) + k].sequence = n + k - 1
  BY PostGrows DEF Grown, Posting
<1>2. n \in 0 .. Len(c) /\ \A i \in 1 .. n : c[Len(c) - n + i].sequence = i - 1
  BY DEF Numbers
<1>. HIDE DEF c, d, n, m
<1>3. ASSUME NEW i \in 1 .. n + m
      PROVE  d[Len(d) - (n + m) + i].sequence = i - 1
  <2>0. Len(d) - (n + m) + i = Len(c) - n + i
    BY <1>1
  <2>1. CASE i <= n
    <3>1. i \in 1 .. n /\ Len(c) - n + i \in 1 .. Len(c)
      BY <1>1, <1>2, <2>1
    <3>. QED BY <1>1, <1>2, <2>0, <3>1
  <2>2. CASE i > n
    <3>1. i - n \in 1 .. m /\ Len(c) - n + i = Len(c) + (i - n) /\ n + (i - n) - 1 = i - 1
      BY <1>1, <2>2
    <3>. QED BY <1>1, <2>0, <3>1
  <2>. QED BY <1>1, <2>1, <2>2
<1>4. Numbers(d, n + m)
  BY <1>1, <1>2, <1>3 DEF Numbers
<1>5. ASSUME NEW event, Closing(es, event)
      PROVE  Closes(d, event)
  <2>1. m \in 1 .. m /\ es[m] = event
    BY <1>1, <1>5 DEF Closing, m
  <2>. QED BY <1>1, <2>1 DEF Closes
<1>. QED BY <1>1, <1>4, <1>5 DEF c, d, n, m

\* What memory has of a run is the end of its stored ledger, and all of it as
\* long as it was not dropped; so that a receipt binds what it says it binds.
Binding ==
    \A r \in Runs :
        /\ Numbers(chain[r], Len(book[r].events))
        /\ pc[r] \in Recording /\ r \notin dropped => Len(book[r].events) = Len(chain[r])
        /\ pc[r] \in Unwritten => chain[r] = <<>>
        /\ pc[r] = "accepting" => Closes(chain[r], "outcome_accepted")
        /\ pc[r] = "rejecting" => Closes(chain[r], "outcome_rejected")
        /\ receipt[r] # NoReceipt =>
             /\ Numbers(chain[r], receipt[r].head)
             /\ Closes(chain[r], Outcome(receipt[r].status))
             /\ r \notin dropped => receipt[r].head = Len(chain[r])

LEMMA BindingStep ==
    ASSUME ThreadTypes, BookTypes, RegistryInv, Receipts, Binding, [Next]_vars
    PROVE  Binding'
<1>0. dropped \subseteq dropped'
  BY DroppedGrows
<1>e. Len(<<>>) = 0 /\ \A q \in Runs : Numbers(chain[q], Len(<<>>))
  <2>1. Len(<<>>) = 0
    BY EmptySeq
  <2>2. \A q \in Runs : Len(chain[q]) \in Nat
    BY LenProperties DEF BookTypes, TableTypes
  <2>. QED BY <2>1, <2>2 DEF Numbers
<1>1. ASSUME NEW r \in Runs, StepResult(r), OthersKept(r), Writes(r)
      PROVE  Binding'
  <2>1. ASSUME NEW q \in Runs \ {r}
        PROVE  /\ pc'[q] = pc[q] /\ chain'[q] = chain[q] /\ book'[q] = book[q] /\ receipt'[q] = receipt[q]
               /\ q \notin dropped' => q \notin dropped
    BY <1>0, <1>1 DEF StepResult, Frame, OthersKept, Writes
  <2>2. /\ Numbers(chain'[r], Len(book'[r].events))
        /\ pc'[r] \in Recording /\ r \notin dropped' => Len(book'[r].events) = Len(chain'[r])
    <3>1. CASE pc[r] \in Recording /\ \E es \in Seq(Events) : Posting(r, es)
      BY <1>0, <3>1, NumbersGrow DEF Binding
    <3>2. CASE chain'[r] = chain[r] /\ book'[r].events = book[r].events /\ (pc'[r] \in Recording => pc[r] \in Recording)
      BY <1>0, <3>2 DEF Binding
    <3>3. CASE Goes(r, "new", "begun") /\ chain'[r] = chain[r] /\ book'[r].events = <<>>
      <4>1. chain'[r] = <<>>
        BY <3>3 DEF Binding, Goes, Unwritten
      <4>. QED BY <1>e, <3>3, <4>1
    <3>4. pc[r] = "new" \/ (pc'[r] \in Recording => pc[r] \in Recording)
      BY <1>1 DEF StepResult, Moves, Advances, Admitted, Recording
    <3>5. pc[r] = "new" /\ pc'[r] \notin Recording => Quiet(r)
      BY <1>1 DEF Writes, Entries, Goes, Certified, Saved, Recording
    <3>6. pc[r] = "new" /\ pc'[r] \in Recording => Goes(r, "new", "begun") /\ chain'[r] = chain[r] /\ book'[r].events = <<>>
      BY <1>1 DEF Writes, Entries, Goes, Certified, Saved, Recording
    <3>7. \/ pc[r] = "new"
          \/ pc[r] \in Recording /\ \E es \in Seq(Events) : Posting(r, es)
          \/ chain'[r] = chain[r] /\ book'[r].events = book[r].events
      <4>1. \/ Quiet(r) \/ Certified(r) \/ Saved(r) \/ pc[r] = "new"
            \/ pc[r] \in Recording /\ \E es \in Seq(Events) : Unreceipted(r, es)
        BY <1>1, EventLists DEF Writes, Entries, Goes, Recording
      <4>2. \A es \in Seq(Events) : Unreceipted(r, es) => Posting(r, es)
        BY DEF Unreceipted
      <4>3. Quiet(r) \/ Certified(r) \/ Saved(r) => chain'[r] = chain[r] /\ book'[r].events = book[r].events
        BY DEF Quiet, Certified, Saved
      <4>. QED BY <4>1, <4>2, <4>3
    <3>. QED BY <3>1, <3>2, <3>3, <3>4, <3>5, <3>6, <3>7 DEF Quiet
  <2>3. /\ pc'[r] \in Unwritten => chain'[r] = <<>>
        /\ pc'[r] = "accepting" => Closes(chain'[r], "outcome_accepted")
        /\ pc'[r] = "rejecting" => Closes(chain'[r], "outcome_rejected")
    <3>1. pc'[r] \in Unwritten => pc[r] \in Unwritten /\ chain'[r] = chain[r]
      BY <1>1 DEF StepResult, Moves, Advances, Admitted, Unwritten, Writes, Entries, Goes, Quiet, Certified, Saved
    <3>2. pc'[r] = "accepting" => Posting(r, <<"outcome_accepted">>)
      BY <1>1 DEF StepResult, Moves, Advances, Admitted, Writes, Entries, Goes, Unreceipted, Certified, Saved
    <3>3. pc'[r] = "rejecting" => \E es \in Seq(Events) : Closing(es, "outcome_rejected") /\ Posting(r, es)
      BY <1>1 DEF StepResult, Moves, Advances, Admitted, Writes, Entries, Goes, Unreceipted, Certified, Saved
    <3>4. Closing(<<"outcome_accepted">>, "outcome_accepted")
      BY DEF Closing
    <3>. QED BY <3>1, <3>2, <3>3, <3>4, EventLists, NumbersGrow DEF Binding
  <2>4. receipt'[r] # NoReceipt =>
             /\ Numbers(chain'[r], receipt'[r].head)
             /\ Closes(chain'[r], Outcome(receipt'[r].status))
             /\ r \notin dropped' => receipt'[r].head = Len(chain'[r])
    <3>1. CASE Certified(r)
      <4>1. /\ receipt'[r].head = Len(book[r].events) /\ chain'[r] = chain[r]
            /\ receipt'[r].status = IF pc[r] = "accepting" THEN "accepted" ELSE "escalated"
            /\ pc[r] \in {"accepting", "rejecting"}
        BY <3>1 DEF Certified
      <4>. QED BY <1>0, <4>1 DEF Binding, Outcome, Recording
    <3>2. CASE receipt'[r] = receipt[r] /\ receipt[r] # NoReceipt
      <4>1. pc[r] \in {"receipted"} \cup Done
        BY <3>2 DEF Receipts
      <4>2. chain'[r] = chain[r]
        BY <1>1, <4>1 DEF StepResult, Moves, Advances, Admitted, Writes, Entries, Goes, Quiet, Certified, Saved, Done
      <4>. QED BY <1>0, <3>2, <4>2 DEF Binding
    <3>. QED BY <1>1, <3>1, <3>2 DEF Writes
  <2>. QED BY <2>1, <2>2, <2>3, <2>4 DEF Binding
<1>2. ASSUME Reads, \A q \in Runs : \/ pc'[q] = pc[q]
                                    \/ pc[q] \in Unwritten /\ pc'[q] \in Unwritten
                                    \/ pc'[q] \in Ended
      PROVE  Binding'
  <2>1. ASSUME NEW q \in Runs
        PROVE  /\ Numbers(chain'[q], Len(book'[q].events))
               /\ pc'[q] \in Recording /\ q \notin dropped' => Len(book'[q].events) = Len(chain'[q])
    <3>1. pc'[q] \in Recording => pc[q] \in Recording
      BY <1>2 DEF Recording, Unwritten, Ended
    <3>2. CASE book'[q] = book[q]
      BY <1>0, <1>2, <3>1, <3>2 DEF Reads, Binding
    <3>3. CASE book'[q] # book[q]
      <4>1. book'[q].events = <<>> /\ (~Known(q) \/ pc'[q] \notin Recording) /\ chain' = chain
        BY <1>2, <3>3 DEF Reads
      <4>2. ~(pc'[q] \in Recording /\ q \notin dropped')
        BY <1>0, <3>1, <4>1 DEF RegistryInv
      <4>. QED BY <1>e, <4>1, <4>2
    <3>. QED BY <3>2, <3>3
  <2>2. ASSUME NEW q \in Runs
        PROVE  /\ pc'[q] \in Unwritten => pc[q] \in Unwritten
               /\ pc'[q] \in {"accepting", "rejecting"} => pc'[q] = pc[q]
    BY <1>2 DEF Unwritten, Ended
  <2>3. chain' = chain /\ receipt' = receipt
    BY <1>2 DEF Reads
  <2>. QED BY <1>0, <2>1, <2>2, <2>3 DEF Binding
<1>3. ASSUME NEW r \in Runs, Arrives(r), Reads
      PROVE  Binding'
  <2>1. \A q \in Runs : \/ pc'[q] = pc[q]
                        \/ pc[q] \in Unwritten /\ pc'[q] \in Unwritten
                        \/ pc'[q] \in Ended
    BY <1>3 DEF Arrives, ThreadTypes, Unwritten
  <2>. QED BY <1>2, <1>3, <2>1
<1>4. ASSUME Aside, Reads
      PROVE  Binding'
  <2>1. \A q \in Runs : \/ pc'[q] = pc[q]
                        \/ pc[q] \in Unwritten /\ pc'[q] \in Unwritten
                        \/ pc'[q] \in Ended
    BY <1>4 DEF Aside
  <2>. QED BY <1>2, <1>4, <2>1
<1>5. ASSUME Crash, Reads
      PROVE  Binding'
  BY <1>2, <1>5 DEF Crash, Unwritten, Ended
<1>. QED BY <1>1, <1>3, <1>4, <1>5, NextWrites

LEMMA BindingAlways == Spec => []Binding
<1>1. Init => Binding
  <2>1. Len(<<>>) = 0 /\ Numbers(<<>>, 0)
    BY EmptySeq DEF Numbers
  <2>. QED BY <2>1 DEF Init, RegistryInit, Binding, Record, Recording, Unwritten
<1>2. ThreadTypes /\ BookTypes /\ RegistryInv /\ Receipts /\ Binding /\ [Next]_vars => Binding'
  BY BindingStep
<1>. QED BY <1>1, <1>2, TypesAlways, BookTypesAlways, RegistryAlways, ReceiptsAlways, PTL DEF Spec

\* issue_receipt comes after the outcome, takes the head of the record memory then
\* has, and nothing is appended after it: the receipt in a row binds the end of
\* the stored ledger, closed by the outcome it certifies, and all of it unless
\* memory dropped the record before the row was saved (begin, get).
THEOREM ReceiptsBindLedger == Spec => []ReceiptBindsLedger
<1>1. BookTypes /\ Receipts /\ Binding => ReceiptBindsLedger
  <2>. SUFFICES ASSUME BookTypes, Receipts, Binding, NEW r \in Runs, rows[r] # NoRow, rows[r].receipt # NoReceipt
                PROVE  LET head == rows[r].receipt.head
                           all == Len(chain[r])
                       IN /\ head \in 0 .. all
                          /\ \A i \in 1 .. head : chain[r][all - head + i].sequence = i - 1
                          /\ all \in Where(r, IF rows[r].receipt.status = "accepted" THEN "outcome_accepted" ELSE "outcome_rejected")
                          /\ r \notin dropped => head = all
    BY DEF ReceiptBindsLedger
  <2>1. rows[r].receipt = receipt[r] /\ receipt[r] # NoReceipt /\ Len(chain[r]) \in Nat
    BY LenProperties DEF Receipts, BookTypes, TableTypes
  <2>2. /\ Numbers(chain[r], rows[r].receipt.head)
        /\ Closes(chain[r], Outcome(rows[r].receipt.status))
        /\ r \notin dropped => rows[r].receipt.head = Len(chain[r])
    BY <2>1 DEF Binding
  <2>3. Len(chain[r]) \in Where(r, Outcome(rows[r].receipt.status))
    BY <2>1, <2>2 DEF Closes, Where, Stored
  <2>. QED BY <2>2, <2>3 DEF Numbers, Outcome
<1>. QED BY <1>1, BookTypesAlways, ReceiptsAlways, BindingAlways, PTL

\* ------------------------------------------------------------ evidence
Is(c, i, event) == i \in 1 .. Len(c) /\ c[i].event = event
CheckedIn(c) == \E p \in Int : Is(c, p, "policy_checked")
StartedIn(c) == \E p \in Int, s \in Int : p < s /\ Is(c, p, "policy_checked") /\ Is(c, s, "action_started")
Proves(c, p, s, e) ==
    /\ p < s /\ s < e
    /\ Is(c, p, "policy_checked") /\ Is(c, s, "action_started") /\ Is(c, e, "evidence_passed")
    /\ \A f \in Int : Is(c, f, "evidence_failed") => f < e
ProvenIn(c) == \E p \in Int, s \in Int, e \in Int : Proves(c, p, s, e)
AcceptedIn(c) == \E p \in Int, s \in Int, e \in Int, o \in Int :
                    Proves(c, p, s, e) /\ e < o /\ Is(c, o, "outcome_accepted")

LEMMA GrownIs ==
    ASSUME NEW c, NEW d, NEW es, Grown(c, d, es)
    PROVE  /\ \A i, event : Is(c, i, event) => Is(d, i, event) /\ i <= Len(c)
           /\ \A k \in 1 .. Len(es) : Is(d, Len(c) + k, es[k])
           /\ \A i, event : Is(d, i, event) => Is(c, i, event) \/ \E k \in 1 .. Len(es) : i = Len(c) + k /\ es[k] = event
<1>1. Len(c) \in Nat /\ Len(es) \in Nat /\ Len(d) = Len(c) + Len(es)
  BY DEF Grown
<1>2. ASSUME NEW i, NEW event, Is(c, i, event)
      PROVE  Is(d, i, event) /\ i <= Len(c)
  BY <1>1, <1>2 DEF Is, Grown
<1>3. ASSUME NEW k \in 1 .. Len(es)
      PROVE  Is(d, Len(c) + k, es[k])
  BY <1>1, <1>3 DEF Is, Grown
<1>4. ASSUME NEW i, NEW event, Is(d, i, event), ~Is(c, i, event)
      PROVE  \E k \in 1 .. Len(es) : i = Len(c) + k /\ es[k] = event
  <2>1. i \in 1 .. Len(d) /\ i \notin 1 .. Len(c)
    BY <1>4 DEF Is, Grown
  <2>2. i - Len(c) \in 1 .. Len(es) /\ i = Len(c) + (i - Len(c))
    BY <1>1, <2>1
  <2>3. es[i - Len(c)] = event
    BY <1>3, <1>4, <2>2 DEF Is
  <2>. QED BY <2>2, <2>3
<1>. QED BY <1>2, <1>3, <1>4

LEMMA CheckedNow ==
    ASSUME NEW c, NEW d, Grown(c, d, Prepares)
    PROVE  CheckedIn(d)
<1>1. 4 \in 1 .. Len(Prepares) /\ Prepares[4] = "policy_checked"
  BY DEF Prepares
<1>2. Is(d, Len(c) + 4, Prepares[4])
  BY <1>1, GrownIs
<1>3. Len(c) + 4 \in Int
  BY DEF Grown
<1>. QED BY <1>1, <1>2, <1>3 DEF CheckedIn

LEMMA StartedNow ==
    ASSUME NEW c, NEW d, Grown(c, d, <<"route_selected", "action_started">>), CheckedIn(c)
    PROVE  StartedIn(d)
<1>. DEFINE es == <<"route_selected", "action_started">>
<1>1. 2 \in 1 .. Len(es) /\ es[2] = "action_started"
  OBVIOUS
<1>2. PICK p \in Int : Is(c, p, "policy_checked")
  BY DEF CheckedIn
<1>3. Len(c) \in Nat
  BY DEF Grown
<1>. HIDE DEF es
<1>4. Grown(c, d, es)
  BY DEF es
<1>5. Is(d, p, "policy_checked") /\ p <= Len(c)
  BY <1>2, <1>4, GrownIs
<1>6. Is(d, Len(c) + 2, "action_started")
  BY <1>1, <1>4, GrownIs
<1>7. p < Len(c) + 2 /\ Len(c) + 2 \in Int
  BY <1>3, <1>5
<1>. QED BY <1>5, <1>6, <1>7 DEF StartedIn

LEMMA StartedStays ==
    ASSUME NEW c, NEW d, NEW es, Grown(c, d, es), StartedIn(c)
    PROVE  StartedIn(d)
BY GrownIs DEF StartedIn

LEMMA ProvenNow ==
    ASSUME NEW c, NEW d, Grown(c, d, Replies("passed")), StartedIn(c)
    PROVE  ProvenIn(d)
<1>. DEFINE es == Replies("passed")
<1>1. Len(es) = 2 /\ es[1] = "action_completed" /\ es[2] = "evidence_passed"
  BY DEF Replies
<1>2. PICK p \in Int, s \in Int : p < s /\ Is(c, p, "policy_checked") /\ Is(c, s, "action_started")
  BY DEF StartedIn
<1>3. Len(c) \in Nat
  BY DEF Grown
<1>. HIDE DEF es
<1>4. Grown(c, d, es)
  BY DEF es
<1>5. Is(d, p, "policy_checked") /\ Is(d, s, "action_started") /\ s <= Len(c)
  BY <1>2, <1>4, GrownIs
<1>6. Is(d, Len(c) + 2, "evidence_passed")
  BY <1>1, <1>4, GrownIs
<1>7. s < Len(c) + 2 /\ Len(c) + 2 \in Int
  BY <1>3, <1>5
<1>8. ASSUME NEW f \in Int, Is(d, f, "evidence_failed")
      PROVE  f < Len(c) + 2
  <2>1. f <= Len(c) \/ \E k \in 1 .. Len(es) : f = Len(c) + k /\ es[k] = "evidence_failed"
    BY <1>4, <1>8, GrownIs
  <2>2. ~ \E k \in 1 .. Len(es) : es[k] = "evidence_failed"
    BY <1>1
  <2>. QED BY <1>3, <2>1, <2>2
<1>. QED BY <1>2, <1>5, <1>6, <1>7, <1>8 DEF ProvenIn, Proves

\* Events that are no failed evidence leave a proof standing.
LEMMA ProofStays ==
    ASSUME NEW c, NEW d, NEW es, Grown(c, d, es), \A k \in 1 .. Len(es) : es[k] # "evidence_failed",
           NEW p, NEW s, NEW e, Proves(c, p, s, e)
    PROVE  Proves(d, p, s, e)
<1>1. Is(d, p, "policy_checked") /\ Is(d, s, "action_started") /\ Is(d, e, "evidence_passed") /\ p < s /\ s < e
  BY GrownIs DEF Proves
<1>2. ASSUME NEW f \in Int, Is(d, f, "evidence_failed")
      PROVE  f < e
  <2>1. Is(c, f, "evidence_failed") \/ \E k \in 1 .. Len(es) : f = Len(c) + k /\ es[k] = "evidence_failed"
    BY <1>2, GrownIs
  <2>2. Is(c, f, "evidence_failed")
    BY <2>1
  <2>. QED BY <2>2 DEF Proves
<1>. QED BY <1>1, <1>2 DEF Proves

LEMMA ProvenStays ==
    ASSUME NEW c, NEW d, Grown(c, d, <<"verification_completed">>), ProvenIn(c)
    PROVE  ProvenIn(d)
<1>. DEFINE es == <<"verification_completed">>
<1>1. \A k \in 1 .. Len(es) : es[k] # "evidence_failed"
  OBVIOUS
<1>. QED BY <1>1, ProofStays DEF ProvenIn

LEMMA AcceptedNow ==
    ASSUME NEW c, NEW d, Grown(c, d, <<"outcome_accepted">>), ProvenIn(c)
    PROVE  AcceptedIn(d)
<1>. DEFINE es == <<"outcome_accepted">>
<1>1. Len(es) = 1 /\ es[1] = "outcome_accepted" /\ \A k \in 1 .. Len(es) : es[k] # "evidence_failed"
  OBVIOUS
<1>2. PICK p \in Int, s \in Int, e \in Int : Proves(c, p, s, e)
  BY DEF ProvenIn
<1>3. Len(c) \in Nat
  BY DEF Grown
<1>. HIDE DEF es
<1>4. Grown(c, d, es)
  BY DEF es
<1>5. Proves(d, p, s, e)
  BY <1>1, <1>2, <1>4, ProofStays
<1>6. e <= Len(c)
  BY <1>2, <1>4, GrownIs DEF Proves
<1>7. Is(d, Len(c) + 1, "outcome_accepted")
  BY <1>1, <1>4, GrownIs
<1>8. e < Len(c) + 1 /\ Len(c) + 1 \in Int
  BY <1>3, <1>6
<1>. QED BY <1>5, <1>7, <1>8 DEF AcceptedIn

\* What the ledger shows by the time a run has got so far.
Evident ==
    \A r \in Runs :
        /\ pc[r] = "prepared" => CheckedIn(chain[r])
        /\ pc[r] = "started" => StartedIn(chain[r])
        /\ pc[r] = "replied" => StartedIn(chain[r]) /\ (verdict[r] = "passed" => ProvenIn(chain[r]))
        /\ pc[r] = "passed" => ProvenIn(chain[r])
        /\ pc[r] = "accepting" => AcceptedIn(chain[r])
        /\ receipt[r] # NoReceipt /\ receipt[r].status = "accepted" => AcceptedIn(chain[r])

LEMMA EvidentStep ==
    ASSUME ThreadTypes, BookTypes, Receipts, Evident, [Next]_vars
    PROVE  Evident'
<1>1. ASSUME NEW r \in Runs, StepResult(r), OthersKept(r), Writes(r)
      PROVE  Evident'
  <2>0. \A q \in Runs \ {r} : pc'[q] = pc[q] /\ receipt'[q] = receipt[q] /\ chain'[q] = chain[q] /\ verdict'[q] = verdict[q]
    BY <1>1 DEF StepResult, Frame, OthersKept, Writes
  <2>1. \A es \in Seq(Events) : Posting(r, es) => Grown(chain[r], chain'[r], es)
    BY PostGrows
  <2>2. pc'[r] = "prepared" => CheckedIn(chain'[r])
    <3>1. pc'[r] = "prepared" => Posting(r, Prepares)
      BY <1>1 DEF StepResult, Moves, Advances, Admitted, Writes, Entries, Goes, Unreceipted, Certified, Saved
    <3>. QED BY <2>1, <3>1, CheckedNow, EventLists
  <2>3. pc'[r] = "started" => StartedIn(chain'[r])
    <3>1. pc'[r] = "started"
          => \/ Goes(r, "prepared", "started") /\ Posting(r, <<"route_selected", "action_started">>)
             \/ pc[r] \in {"started", "replied"} /\ Posting(r, <<"fallback_triggered">>)
      BY <1>1 DEF StepResult, Moves, Advances, Admitted, Writes, Entries, Goes, Unreceipted, Certified, Saved
    <3>2. CASE Goes(r, "prepared", "started") /\ Posting(r, <<"route_selected", "action_started">>)
      <4>1. CheckedIn(chain[r])
        BY <3>2 DEF Goes, Evident
      <4>. QED BY <2>1, <3>2, <4>1, StartedNow, EventLists
    <3>3. CASE pc[r] \in {"started", "replied"} /\ Posting(r, <<"fallback_triggered">>)
      <4>1. StartedIn(chain[r])
        BY <3>3 DEF Evident
      <4>2. Grown(chain[r], chain'[r], <<"fallback_triggered">>)
        BY <2>1, <3>3, EventLists
      <4>. QED BY <4>1, <4>2, StartedStays
    <3>. QED BY <3>1, <3>2, <3>3
  <2>4. pc'[r] = "replied" => StartedIn(chain'[r]) /\ (verdict'[r] = "passed" => ProvenIn(chain'[r]))
    <3>1. pc'[r] = "replied" => pc[r] = "started" /\ Posting(r, Replies(verdict'[r]))
      BY <1>1 DEF StepResult, Moves, Advances, Admitted, Writes, Entries, Goes, Unreceipted, Certified, Saved
    <3>2. pc'[r] = "replied" => StartedIn(chain[r]) /\ Grown(chain[r], chain'[r], Replies(verdict'[r]))
      BY <2>1, <3>1, EventLists DEF Evident
    <3>3. pc'[r] = "replied" => StartedIn(chain'[r])
      BY <3>2, StartedStays
    <3>. QED BY <3>2, <3>3, ProvenNow
  <2>5. pc'[r] = "passed" => ProvenIn(chain'[r])
    <3>1. pc'[r] = "passed" => pc[r] = "replied" /\ verdict[r] = "passed" /\ Posting(r, <<"verification_completed">>)
      BY <1>1 DEF StepResult, Moves, Advances, Admitted, Writes, Entries, Goes, Unreceipted, Certified, Saved
    <3>. QED BY <2>1, <3>1, ProvenStays, EventLists DEF Evident
  <2>6. pc'[r] = "accepting" => AcceptedIn(chain'[r])
    <3>1. pc'[r] = "accepting" => pc[r] = "passed" /\ Posting(r, <<"outcome_accepted">>)
      BY <1>1 DEF StepResult, Moves, Advances, Admitted, Writes, Entries, Goes, Unreceipted, Certified, Saved
    <3>. QED BY <2>1, <3>1, AcceptedNow, EventLists DEF Evident
  <2>7. receipt'[r] # NoReceipt /\ receipt'[r].status = "accepted" => AcceptedIn(chain'[r])
    <3>1. CASE Certified(r)
      <4>1. chain'[r] = chain[r] /\ (receipt'[r].status = "accepted" => pc[r] = "accepting")
        BY <3>1 DEF Certified
      <4>. QED BY <4>1 DEF Evident
    <3>2. CASE receipt'[r] = receipt[r] /\ receipt[r] # NoReceipt
      <4>1. pc[r] \in {"receipted"} \cup Done
        BY <3>2 DEF Receipts
      <4>2. chain'[r] = chain[r]
        BY <1>1, <4>1 DEF StepResult, Moves, Advances, Admitted, Writes, Entries, Goes, Quiet, Certified, Saved, Done
      <4>. QED BY <3>2, <4>2 DEF Evident
    <3>. QED BY <1>1, <3>1, <3>2 DEF Writes
  <2>. QED BY <2>0, <2>2, <2>3, <2>4, <2>5, <2>6, <2>7 DEF Evident
<1>2. ASSUME NEW r \in Runs, Arrives(r), Reads
      PROVE  Evident'
  BY <1>2 DEF Arrives, Reads, Evident, ThreadTypes
<1>3. ASSUME Aside, Reads
      PROVE  Evident'
  BY <1>3 DEF Aside, Reads, Evident
<1>4. ASSUME Crash, Reads
      PROVE  Evident'
  BY <1>4 DEF Crash, Reads, Evident, Ended
<1>. QED BY <1>1, <1>2, <1>3, <1>4, NextWrites

LEMMA EvidentAlways == Spec => []Evident
<1>1. Init => Evident
  BY DEF Init, RegistryInit, Evident
<1>2. ThreadTypes /\ BookTypes /\ Receipts /\ Evident /\ [Next]_vars => Evident'
  BY EvidentStep
<1>. QED BY <1>1, <1>2, TypesAlways, BookTypesAlways, ReceiptsAlways, PTL DEF Spec

LEMMA AcceptedIsShown ==
    ASSUME NEW r \in Runs, AcceptedIn(chain[r])
    PROVE  AcceptedLedger(r)
<1>1. PICK p \in Int, s \in Int, e \in Int, o \in Int :
          Proves(chain[r], p, s, e) /\ e < o /\ Is(chain[r], o, "outcome_accepted")
  BY DEF AcceptedIn
<1>2. \A i, event : Is(chain[r], i, event) <=> i \in Where(r, event)
  BY DEF Is, Where, Stored
<1>3. \A f \in Where(r, "evidence_failed") : f \in Int
  BY DEF Where, Stored
<1>. QED BY <1>1, <1>2, <1>3 DEF Proves, AcceptedLedger

\* The machine's invariants no_execution_before_policy_check and
\* no_accepted_state_with_failed_criterion, in the order of _stage_contract,
\* _stage_execute and _stage_verify: what is stored as accepted was checked, then
\* started, then proved by its last evidence, and only then accepted.
THEOREM AcceptedAreProven == Spec => []AcceptedOnEvidence
<1>1. BookTypes /\ Receipts /\ Evident => AcceptedOnEvidence
  <2>. SUFFICES ASSUME BookTypes, Receipts, Evident, NEW r \in Runs, rows[r] # NoRow, rows[r].status = "accepted"
                PROVE  AcceptedLedger(r)
    BY DEF AcceptedOnEvidence
  <2>1. receipt[r] # NoReceipt /\ receipt[r].status = "accepted"
    BY DEF BookTypes, TableTypes, Receipts
  <2>. QED BY <2>1, AcceptedIsShown DEF Evident
<1>. QED BY <1>1, BookTypesAlways, ReceiptsAlways, EvidentAlways, PTL

\* ------------------------------------------------------------ durable answers
\* A run that may be answered: its row is there and its ledger shows how it was
\* accepted; the row says so unless memory had dropped the record.
Served(q) ==
    /\ q \in Runs /\ pc[q] \in Done /\ rows[q] \in Row /\ AcceptedIn(chain[q])
    /\ q \notin dropped => rows[q].status = "accepted" /\ rows[q].receipt # NoReceipt

ServedNext(q) ==
    /\ q \in Runs /\ pc'[q] \in Done /\ rows'[q] \in Row /\ AcceptedIn(chain'[q])
    /\ q \notin dropped' => rows'[q].status = "accepted" /\ rows'[q].receipt # NoReceipt

Durable ==
    /\ \A r \in Runs : pc[r] \in {"settled", "cached"} => Served(r)
    /\ \A i \in 1 .. Len(cache) : Served(cache[i].run)
    /\ \A r \in Runs : source[r] # 0 => Served(source[r])

\* Nothing is written for such a run any more.
LEMMA ServedStays ==
    ASSUME ThreadTypes, BookTypes, [Next]_vars, NEW q, Served(q)
    PROVE  ServedNext(q)
<1>1. q \in Runs /\ pc[q] \in Done /\ (q \notin dropped' => q \notin dropped)
  BY DroppedGrows DEF Served
<1>2. ASSUME NEW r \in Runs, StepResult(r), OthersKept(r), Writes(r)
      PROVE  pc'[q] \in Done /\ rows'[q] = rows[q] /\ chain'[q] = chain[q]
  <2>1. CASE q = r
    BY <1>1, <1>2, <2>1 DEF StepResult, Moves, Advances, Admitted, Writes, Entries, Goes, Quiet, Certified, Saved, Done
  <2>2. CASE q # r
    BY <1>1, <1>2, <2>2 DEF StepResult, Frame, OthersKept
  <2>. QED BY <2>1, <2>2
<1>3. ASSUME Reads, (\E r \in Runs : Arrives(r)) \/ Aside \/ Crash
      PROVE  pc'[q] \in Done /\ rows'[q] = rows[q] /\ chain'[q] = chain[q]
  BY <1>1, <1>3 DEF Reads, Arrives, Aside, Crash, Done, Ended, ThreadTypes
<1>4. pc'[q] \in Done /\ rows'[q] = rows[q] /\ chain'[q] = chain[q]
  BY <1>2, <1>3, NextWrites
<1>. QED BY <1>1, <1>4 DEF Served, ServedNext

\* A row is saved with its receipt, or its run is one that memory had dropped.
LEMMA SavedIsServed ==
    ASSUME BookTypes, RegistryInv, Evident, [Next]_vars, NEW r \in Runs, Saved(r), pc'[r] = "settled"
    PROVE  ServedNext(r)
<1>1. /\ pc[r] = "receipted" /\ receipt[r] \in Receipt /\ receipt[r] # NoReceipt
      /\ receipt[r].status = "accepted" /\ chain'[r] = chain[r] /\ RowSettled(r, receipt[r])
  BY NullsAssumption DEF Saved, BookTypes
<1>2. AcceptedIn(chain'[r])
  BY <1>1 DEF Evident
<1>3. rows[r] \in Row
  BY <1>1 DEF RegistryInv, Unwritten, Ended, BookTypes, TableTypes
<1>4. CASE Known(r)
  BY <1>1, <1>2, <1>4 DEF RowSettled, ServedNext, Done
<1>5. CASE ~Known(r)
  <2>1. r \in dropped'
    BY <1>1, <1>5, DroppedGrows DEF RegistryInv, Recording
  <2>. QED BY <1>1, <1>2, <1>3, <1>5, <2>1 DEF RowSettled, ServedNext, Done
<1>. QED BY <1>4, <1>5

LEMMA DurableStep ==
    ASSUME ThreadTypes, BookTypes, RegistryInv, Evident, Durable, [Next]_vars
    PROVE  Durable'
<1>0. \A q : Served(q) => ServedNext(q)
  BY ServedStays
<1>a. ASSUME \A q \in Runs : pc'[q] \in {"settled", "cached"} => ServedNext(q),
             \A k \in 1 .. Len(cache') : ServedNext(cache'[k].run),
             \A q \in Runs : source'[q] # 0 => ServedNext(source'[q])
      PROVE  Durable'
  BY <1>a DEF Durable, Served, ServedNext
<1>1. ASSUME NEW r \in Runs, StepResult(r), OthersKept(r), Writes(r)
      PROVE  Durable'
  <2>1. \A q \in Runs \ {r} : pc'[q] = pc[q] /\ source'[q] = source[q]
    BY <1>1 DEF StepResult, Frame
  <2>2. pc'[r] \in {"settled", "cached"} => ServedNext(r)
    <3>1. pc'[r] \in {"settled", "cached"} => pc[r] = "settled" \/ (Saved(r) /\ pc'[r] = "settled")
      BY <1>1 DEF StepResult, Moves, Advances, Admitted, Writes, Entries, Goes, Certified
    <3>. QED BY <1>0, <3>1, SavedIsServed DEF Durable
  <2>3. ASSUME NEW k \in 1 .. Len(cache')
        PROVE  ServedNext(cache'[k].run)
    <3>1. CASE \E j \in 1 .. Len(cache) : cache'[k] = cache[j]
      BY <1>0, <3>1 DEF Durable
    <3>2. CASE pc[r] = "settled" /\ cache'[k] = [key |-> Key(r), run |-> r]
      BY <1>0, <3>2 DEF Durable
    <3>. QED BY <1>1, <3>1, <3>2 DEF StepResult, CacheFrom
  <2>4. source'[r] # 0 => ServedNext(source'[r])
    <3>1. CASE source'[r] = source[r]
      BY <1>0, <3>1 DEF Durable
    <3>2. CASE pc[r] = "cached" /\ source'[r] = r
      BY <1>0, <3>2 DEF Durable
    <3>3. CASE \E i \in Hits(r) : source'[r] = cache[i].run
      BY <1>0, <3>3 DEF Durable, Hits
    <3>. QED BY <1>1, <3>1, <3>2, <3>3 DEF StepResult, Moves, Keep
  <2>5. \A q \in Runs : pc'[q] \in {"settled", "cached"} => ServedNext(q)
    BY <1>0, <2>1, <2>2 DEF Durable
  <2>6. \A q \in Runs : source'[q] # 0 => ServedNext(source'[q])
    BY <1>0, <2>1, <2>4 DEF Durable
  <2>. QED BY <1>a, <2>3, <2>5, <2>6
<1>2. ASSUME (\E r \in Runs : Arrives(r)) \/ Aside \/ Crash
      PROVE  Durable'
  <2>1. /\ source' = source
        /\ \A q \in Runs : pc'[q] \in {"settled", "cached"} => pc'[q] = pc[q]
        /\ cache' = cache \/ cache' = <<>>
    BY <1>2 DEF Arrives, Aside, Crash, Ended, ThreadTypes
  <2>2. \A k \in 1 .. Len(cache') : ServedNext(cache'[k].run)
    BY <1>0, <2>1, EmptySeq DEF Durable
  <2>. QED BY <1>0, <1>a, <2>1, <2>2 DEF Durable
<1>. QED BY <1>1, <1>2, NextWrites

LEMMA DurableAlways == Spec => []Durable
<1>1. Init => Durable
  BY EmptySeq DEF Init, Durable
<1>2. ThreadTypes /\ BookTypes /\ RegistryInv /\ Evident /\ Durable /\ [Next]_vars => Durable'
  BY DurableStep
<1>. QED BY <1>1, <1>2, TypesAlways, BookTypesAlways, RegistryAlways, EvidentAlways, PTL DEF Spec

LEMMA ServedIsStored ==
    ASSUME NEW q, Served(q)
    PROVE  AcceptedInTables(q)
BY AcceptedIsShown, NullsAssumption DEF Served, AcceptedInTables

\* DatabaseRunRegistry saves the run before the answer is put in the cache and
\* before it is sent: whatever is forgotten later, the tables have the row of the
\* run an answer came from and how it was accepted; and the row is accepted and
\* has its receipt, unless memory had dropped the record before that.
THEOREM AnswersDurable == Spec => []AnsweredIsDurable
<1>1. Durable => AnsweredIsDurable
  BY ServedIsStored DEF Durable, AnsweredIsDurable
<1>. QED BY <1>1, DurableAlways, PTL

\* ------------------------------------------------------------ charges
ChargeTypes ==
    /\ spends \in [Tenants -> Seq(Runs)]
    /\ deleting \in [Tenants -> {"none", "spend", "row", "done", "failed", "cut"}]

\* One step of a thread: a charge as it leaves, or no answer that had a cost.
Pays(r) ==
    /\ UNCHANGED <<tenantRows, deleting>>
    /\ \/ spends' = spends /\ (answer'[r] = "fresh" /\ paid'[r] => answer[r] = "fresh")
       \/ /\ Goes(r, "cached", "ended") /\ answer'[r] \in {"fresh", "500"} /\ paid[r] /\ paid'[r] = paid[r]
          /\ spends' = Charged(req[r].tenant, r)

\* A deletion, or a restart that cuts it short.
Deletes ==
    \A t \in Tenants :
        /\ spends'[t] = spends[t] \/ (spends'[t] = <<>> /\ deleting'[t] # "none")
        /\ deleting[t] # "none" => deleting'[t] # "none"

LEMMA StepPays ==
    ASSUME ThreadTypes, NEW r \in Runs, Step(r)
    PROVE  Pays(r)
<1>1. CASE Answer(r)
  <2>0. UNCHANGED <<tenantRows, deleting, paid>> /\ pc[r] = "cached"
    BY <1>1 DEF Answer, callVars, runVars, At
  <2>1. CASE paid[r] /\ ~CanCharge(req[r].tenant)
    BY <1>1, <2>0, <2>1 DEF Answer, Finish, Pays, ThreadTypes
  <2>2. CASE ~(paid[r] /\ ~CanCharge(req[r].tenant))
    <3>1. /\ spends' = IF paid[r] THEN Charged(req[r].tenant, r) ELSE spends
          /\ pc' = [pc EXCEPT ![r] = "ended"]
          /\ answer' = [answer EXCEPT ![r] = "fresh"] \/ answer' = [answer EXCEPT ![r] = "500"]
      BY <1>1, <2>2 DEF Answer, Charge, Finish, Goto
    <3>. QED BY <2>0, <3>1 DEF Pays, ThreadTypes, Goes
  <2>. QED BY <2>1, <2>2
<1>2. CASE Miss(r) \/ Publish(r) \/ ServeCached(r)
  BY <1>2 DEF Miss, Publish, ServeCached, Pays, tenancyVars, sharedVars, answerVars, ThreadTypes
<1>3. CASE Refuse(r) \/ Begin(r) \/ Own(r) \/ Reject422(r) \/ Clarify(r) \/ Prepare(r)
  BY <1>3 DEF Refuse, Begin, Own, Reject422, Clarify, Prepare, Pays, tenancyVars, sharedVars, answerVars, Finish, ThreadTypes
<1>4. CASE NoRoute(r) \/ Route(r) \/ CallFails(r) \/ CallReturns(r) \/ RetryInCloud(r)
  BY <1>4 DEF NoRoute, Route, CallFails, CallReturns, RetryInCloud, Pays, tenancyVars, sharedVars, answerVars, Finish, ThreadTypes
<1>5. CASE RejectRun(r) \/ Pass(r) \/ Complete(r) \/ LoseRecord(r) \/ Certify(r) \/ Save(r) \/ Escalate(r)
  BY <1>5 DEF RejectRun, Pass, Complete, LoseRecord, Certify, Save, Escalate, Pays, tenancyVars, sharedVars, answerVars, Finish, ThreadTypes
<1>. QED BY <1>1, <1>2, <1>3, <1>4, <1>5 DEF Step

LEMMA NextPays ==
    ASSUME ThreadTypes, BookTypes, ChargeTypes, [Next]_vars
    PROVE  /\ ChargeTypes'
           /\ \/ \E r \in Runs : StepResult(r) /\ Pays(r)
              \/ ((\E r \in Runs : Arrives(r)) \/ Aside \/ Crash) /\ Deletes
<1>0. ASSUME UNCHANGED tenancyVars
      PROVE  ChargeTypes' /\ Deletes
  BY <1>0 DEF tenancyVars, ChargeTypes, Deletes
<1>1. ASSUME NEW r \in Runs, Step(r)
      PROVE  ChargeTypes' /\ StepResult(r) /\ Pays(r)
  <2>1. StepResult(r) /\ Pays(r)
    BY <1>1, StepMoves, StepPays
  <2>2. req[r].tenant \in Tenants
    BY DEF ThreadTypes, Requests
  <2>3. Append(spends[req[r].tenant], r) \in Seq(Runs)
    BY <2>2, AppendProperties DEF ChargeTypes
  <2>. QED BY <2>1, <2>2, <2>3 DEF Pays, Charged, ChargeTypes
<1>2. ASSUME NEW r \in Runs, Arrive(r)
      PROVE  ChargeTypes' /\ Arrives(r) /\ Deletes
  <2>1. Arrives(r)
    BY <1>2 DEF Arrive, Arrives, ThreadTypes, At, Goto, sharedVars, faultVars, answerVars
  <2>. QED BY <1>0, <1>2, <2>1 DEF Arrive, sharedVars
<1>3. ASSUME NEW r \in Runs, Look(r)
      PROVE  ChargeTypes' /\ Aside /\ Deletes
  <2>1. Aside
    BY <1>3 DEF Look, Aside, threadVars
  <2>. QED BY <1>0, <1>3, <2>1 DEF Look
<1>4. ASSUME NEW s \in Switches, SetSwitch(s)
      PROVE  ChargeTypes' /\ Aside /\ Deletes
  <2>1. Aside
    BY <1>4 DEF SetSwitch, Aside, threadVars
  <2>. QED BY <1>0, <1>4, <2>1 DEF SetSwitch
<1>5. ASSUME NEW t \in Tenants, DeleteTenant(t)
      PROVE  ChargeTypes' /\ Aside /\ Deletes
  <2>1. Aside
    BY <1>5 DEF DeleteTenant, Aside, threadVars
  <2>2. CASE DeleteSpend(t)
    BY <2>1, <2>2, EmptySeq DEF DeleteSpend, ChargeTypes, Deletes
  <2>3. CASE DeleteTenantRow(t)
    BY <2>1, <2>3 DEF DeleteTenantRow, ChargeTypes, Deletes
  <2>4. CASE DropTenant(t)
    BY <2>1, <2>4 DEF DropTenant, ChargeTypes, Deletes
  <2>. QED BY <1>5, <2>1, <2>2, <2>3, <2>4 DEF DeleteTenant
<1>6. CASE Restart
  <2>1. Crash
    BY <1>6 DEF Restart, Crash, callVars, runVars, answerVars
  <2>2. ChargeTypes' /\ Deletes
    BY <1>6 DEF Restart, ReloadTenants, ChargeTypes, Deletes
  <2>. QED BY <2>1, <2>2
<1>7. CASE UNCHANGED vars
  <2>1. Aside
    BY <1>7 DEF vars, Aside, threadVars
  <2>. QED BY <1>0, <1>7, <2>1 DEF vars
<1>. QED BY <1>1, <1>2, <1>3, <1>4, <1>5, <1>6, <1>7 DEF Next

LEMMA ChargeTypesAlways == Spec => []ChargeTypes
<1>1. Init => ChargeTypes
  BY EmptySeq DEF Init, TenancyInit, ChargeTypes
<1>2. ThreadTypes /\ BookTypes /\ ChargeTypes /\ [Next]_vars => ChargeTypes'
  BY NextPays
<1>. QED BY <1>1, <1>2, TypesAlways, BookTypesAlways, PTL DEF Spec

LEMMA AppendOnce ==
    ASSUME NEW S, NEW s \in Seq(S), NEW e \in S
    PROVE  /\ ToSet(Append(s, e)) = ToSet(s) \cup {e}
           /\ IsInjective(s) /\ e \notin ToSet(s) => IsInjective(Append(s, e))
<1>. DEFINE u == Append(s, e)
<1>1. u \in Seq(S) /\ Len(u) = Len(s) + 1 /\ (\A k \in 1 .. Len(s) : u[k] = s[k]) /\ u[Len(s) + 1] = e
  BY AppendProperties
<1>. HIDE DEF u
<1>2. Len(s) \in Nat /\ DOMAIN s = 1 .. Len(s) /\ DOMAIN u = 1 .. Len(s) + 1
  BY <1>1, LenProperties
<1>3. \A k \in DOMAIN u : k \in DOMAIN s \/ k = Len(s) + 1
  BY <1>2
<1>4. \A k \in DOMAIN s : k \in DOMAIN u /\ u[k] = s[k]
  BY <1>1, <1>2
<1>5. Len(s) + 1 \in DOMAIN u
  BY <1>2
<1>6. ToSet(u) = ToSet(s) \cup {e}
  BY <1>1, <1>3, <1>4, <1>5 DEF ToSet
<1>7. IsInjective(s) /\ e \notin ToSet(s) => IsInjective(u)
  BY <1>1, <1>3, <1>4, <1>5 DEF ToSet, IsInjective
<1>. QED BY <1>6, <1>7 DEF u

Charges ==
    /\ \A t \in Tenants : IsInjective(spends[t])
    /\ \A t \in Tenants : \A r \in ToSet(spends[t]) :
         r \in Runs /\ pc[r] = "ended" /\ req[r].tenant = t /\ answer[r] # "hit" /\ paid[r] /\ Served(r)
    /\ \A r \in Runs : answer[r] # "none" => pc[r] = "ended"
    /\ \A r \in Runs :
         answer[r] = "fresh" /\ paid[r] /\ deleting[req[r].tenant] = "none" => r \in ToSet(spends[req[r].tenant])

LEMMA ChargesStep ==
    ASSUME ThreadTypes, BookTypes, Durable, ChargeTypes, Charges, [Next]_vars
    PROVE  Charges'
<1>0. \A q : Served(q) => ServedNext(q)
  BY ServedStays
<1>a. ASSUME \A t \in Tenants : IsInjective(spends'[t]),
             \A t \in Tenants : \A q \in ToSet(spends'[t]) :
                q \in Runs /\ pc'[q] = "ended" /\ req'[q].tenant = t /\ answer'[q] # "hit" /\ paid'[q] /\ ServedNext(q),
             \A q \in Runs : answer'[q] # "none" => pc'[q] = "ended",
             \A q \in Runs : answer'[q] = "fresh" /\ paid'[q] /\ deleting'[req'[q].tenant] = "none"
                => q \in ToSet(spends'[req'[q].tenant])
      PROVE  Charges'
  BY <1>a DEF Charges, Served, ServedNext
<1>1. ASSUME NEW r \in Runs, StepResult(r), Pays(r)
      PROVE  Charges'
  <2>. DEFINE t == req[r].tenant
  <2>0. /\ t \in Tenants /\ req' = req /\ deleting' = deleting /\ pc[r] # "ended"
        /\ pc[r] = "cached" => paid'[r] = paid[r]
        /\ \A q \in Runs \ {r} : pc'[q] = pc[q] /\ answer'[q] = answer[q] /\ paid'[q] = paid[q]
    BY <1>1 DEF StepResult, Frame, Moves, Advances, Admitted, Pays, ThreadTypes, Requests
  <2>1. answer'[r] # "none" => pc'[r] = "ended"
    BY <1>1, <2>0 DEF StepResult, Moves, Advances, Admitted, Keep, Charges
  <2>2. \A p \in Tenants : \A q \in ToSet(spends[p]) :
            q \in Runs \ {r} /\ pc'[q] = "ended" /\ req'[q].tenant = p /\ answer'[q] # "hit" /\ paid'[q] /\ ServedNext(q)
    BY <1>0, <2>0 DEF Charges
  <2>3. CASE spends' = spends /\ (answer'[r] = "fresh" /\ paid'[r] => answer[r] = "fresh")
    <3>1. answer[r] = "none"
      BY <2>0 DEF Charges
    <3>2. ~(answer'[r] = "fresh" /\ paid'[r])
      BY <2>3, <3>1
    <3>3. \A q \in Runs : answer'[q] = "fresh" /\ paid'[q] /\ deleting'[req'[q].tenant] = "none"
            => q \in ToSet(spends'[req'[q].tenant])
      BY <2>0, <2>3, <3>2 DEF Charges
    <3>4. \A q \in Runs : answer'[q] # "none" => pc'[q] = "ended"
      BY <2>0, <2>1 DEF Charges
    <3>5. \A p \in Tenants : IsInjective(spends'[p])
      BY <2>3 DEF Charges
    <3>6. \A p \in Tenants : \A q \in ToSet(spends'[p]) :
            q \in Runs /\ pc'[q] = "ended" /\ req'[q].tenant = p /\ answer'[q] # "hit" /\ paid'[q] /\ ServedNext(q)
      BY <2>2, <2>3
    <3>. QED BY <1>a, <3>3, <3>4, <3>5, <3>6
  <2>4. CASE /\ Goes(r, "cached", "ended") /\ answer'[r] \in {"fresh", "500"}
             /\ paid[r] /\ paid'[r] = paid[r]
             /\ spends' = Charged(t, r)
    <3>1. ServedNext(r)
      BY <1>0, <2>4 DEF Durable, Goes
    <3>2. r \notin ToSet(spends[t]) /\ spends[t] \in Seq(Runs)
      BY <2>0, <2>2 DEF ChargeTypes
    <3>3. spends'[t] = Append(spends[t], r) /\ \A p \in Tenants \ {t} : spends'[p] = spends[p]
      BY <2>0, <2>4 DEF Charged, ChargeTypes
    <3>4. ToSet(spends'[t]) = ToSet(spends[t]) \cup {r} /\ IsInjective(spends'[t])
      BY <2>0, <3>2, <3>3, AppendOnce DEF Charges
    <3>5. \A p \in Tenants : IsInjective(spends'[p])
      BY <3>3, <3>4 DEF Charges
    <3>6. ASSUME NEW p \in Tenants, NEW q \in ToSet(spends'[p])
          PROVE  q \in Runs /\ pc'[q] = "ended" /\ req'[q].tenant = p /\ answer'[q] # "hit" /\ paid'[q] /\ ServedNext(q)
      <4>1. CASE q = r
        <5>1. p = t
          BY <2>2, <3>3, <4>1
        <5>. QED BY <2>0, <2>4, <3>1, <4>1, <5>1 DEF Goes
      <4>2. CASE q # r
        <5>1. q \in ToSet(spends[p])
          BY <3>3, <3>4, <4>2
        <5>. QED BY <2>2, <5>1
      <4>. QED BY <4>1, <4>2
    <3>7. \A q \in Runs : answer'[q] = "fresh" /\ paid'[q] /\ deleting'[req'[q].tenant] = "none"
            => q \in ToSet(spends'[req'[q].tenant])
      <4>1. r \in ToSet(spends'[req'[r].tenant])
        BY <2>0, <3>4
      <4>2. \A q \in Runs \ {r} : ToSet(spends[req[q].tenant]) \subseteq ToSet(spends'[req[q].tenant])
        BY <3>3, <3>4 DEF ThreadTypes, Requests
      <4>. QED BY <2>0, <4>1, <4>2 DEF Charges
    <3>8. \A q \in Runs : answer'[q] # "none" => pc'[q] = "ended"
      BY <2>0, <2>1 DEF Charges
    <3>. QED BY <1>a, <3>5, <3>6, <3>7, <3>8
  <2>. QED BY <1>1, <2>3, <2>4 DEF Pays
<1>2. ASSUME Deletes, \/ \E r \in Runs : Arrives(r)
                      \/ Aside
                      \/ Crash
      PROVE  Charges'
  <2>1. \A q \in Runs : pc[q] = "ended" => pc'[q] = "ended"
    BY <1>2 DEF Arrives, Aside, Crash, Ended, ThreadTypes
  <2>2. UNCHANGED <<req, answer, paid>>
    BY <1>2 DEF Arrives, Aside, Crash
  <2>3. \A t \in Tenants : /\ spends'[t] = spends[t] \/ (spends'[t] = <<>> /\ deleting'[t] # "none")
                           /\ deleting[t] # "none" => deleting'[t] # "none"
    BY <1>2 DEF Deletes
  <2>4. ToSet(<<>>) = {} /\ IsInjective(<<>>)
    BY DEF ToSet, IsInjective
  <2>5. \A t \in Tenants : IsInjective(spends'[t]) /\ ToSet(spends'[t]) \subseteq ToSet(spends[t])
    BY <2>3, <2>4 DEF Charges
  <2>6. \A t \in Tenants : \A q \in ToSet(spends'[t]) :
          q \in Runs /\ pc'[q] = "ended" /\ req'[q].tenant = t /\ answer'[q] # "hit" /\ paid'[q] /\ ServedNext(q)
    BY <1>0, <2>1, <2>2, <2>5 DEF Charges
  <2>7. \A q \in Runs : answer'[q] # "none" => pc'[q] = "ended"
    BY <2>1, <2>2 DEF Charges
  <2>8. \A q \in Runs : answer'[q] = "fresh" /\ paid'[q] /\ deleting'[req'[q].tenant] = "none"
          => q \in ToSet(spends'[req'[q].tenant])
    BY <2>2, <2>3 DEF Charges, ThreadTypes, Requests
  <2>9. \A t \in Tenants : IsInjective(spends'[t])
    BY <2>5
  <2>. QED BY <1>a, <2>6, <2>7, <2>8, <2>9
<1>. QED BY <1>1, <1>2, NextPays

\* record_spend writes at most one row for a run, under its own tenant, and only
\* for a run that was accepted and whose call had a cost; unless the tenant is
\* being deleted, an answer that had a cost has been charged before it is sent.
THEOREM ChargesOnce == Spec => []ChargedOnce
<1>1. Init => Charges
  <2>1. ToSet(<<>>) = {} /\ IsInjective(<<>>)
    BY DEF ToSet, IsInjective
  <2>2. Init => /\ \A t \in Tenants : spends[t] = <<>>
                /\ \A r \in Runs : answer[r] = "none"
    BY DEF Init, TenancyInit
  <2>. QED BY <2>1, <2>2 DEF Charges
<1>2. Charges => ChargedOnce
  BY ServedIsStored DEF Charges, ChargedOnce
<1>3. ThreadTypes /\ BookTypes /\ Durable /\ ChargeTypes /\ Charges /\ [Next]_vars => Charges'
  BY ChargesStep
<1>. QED BY <1>1, <1>2, <1>3, TypesAlways, BookTypesAlways, DurableAlways, ChargeTypesAlways, PTL DEF Spec

\* ------------------------------------------------------------ the lifecycle machine
Takes(a, e, b) == M!Legal(a, e) /\ M!Moved(a, e) = b

LEMMA LifecycleDeterministic ==
    \A t, u \in M!Lifecycle : t[1] = u[1] /\ t[2] = u[2] => t[3] = u[3]
BY DEF M!Lifecycle

LEMMA EntryTaken ==
    ASSUME NEW a, NEW e, NEW b, <<a, e, b>> \in M!Lifecycle
    PROVE  Takes(a, e, b)
<1>. DEFINE t == <<a, e, b>>
            u == CHOOSE v \in M!Lifecycle : v[1] = a /\ v[2] = e
<1>1. t \in M!Lifecycle /\ t[1] = a /\ t[2] = e /\ t[3] = b
  OBVIOUS
<1>. HIDE DEF t
<1>2. u \in M!Lifecycle /\ u[1] = a /\ u[2] = e
  BY <1>1
<1>3. u[3] = b
  BY <1>1, <1>2, LifecycleDeterministic
<1>. QED BY <1>1, <1>3 DEF Takes, M!Legal, M!Moved

\* The recursive function of After, as a relation.
Reaches(g, state, events) ==
    g = [i \in 0 .. Len(events) |->
            IF i = 0 THEN state
            ELSE IF g[i-1] # "illegal" /\ M!Legal(g[i-1], events[i]) THEN M!Moved(g[i-1], events[i])
            ELSE "illegal"]

LEMMA AfterReached ==
    ASSUME NEW state, NEW events, NEW run, Reaches(run, state, events)
    PROVE  \E g : Reaches(g, state, events) /\ M!After(state, events) = g[Len(events)]
<1>. DEFINE g == CHOOSE h : Reaches(h, state, events)
<1>1. Reaches(g, state, events)
  OBVIOUS
<1>2. M!After(state, events) = g[Len(events)]
  BY DEF M!After, Reaches
<1>. QED BY <1>1, <1>2

\* Up to four events in a row, each of which the machine takes.
LEMMA AfterNone == ASSUME NEW state PROVE M!After(state, <<>>) = state
<1>. DEFINE run == [i \in 0 .. 0 |-> state]
<1>1. Reaches(run, state, <<>>)
  BY DEF Reaches
<1>2. PICK g : Reaches(g, state, <<>>) /\ M!After(state, <<>>) = g[Len(<<>>)]
  BY <1>1, AfterReached
<1>3. Len(<<>>) = 0 /\ 0 \in 0 .. 0
  OBVIOUS
<1>. QED BY <1>2, <1>3 DEF Reaches

Live(a) == a # "illegal"

LEMMA AfterOne ==
    ASSUME NEW a, NEW e, NEW b, Live(a), Takes(a, e, b)
    PROVE  M!After(a, <<e>>) = b
<1>. DEFINE run == [i \in 0 .. 1 |-> IF i = 0 THEN a ELSE b]
            es == <<e>>
<1>0. Len(es) = 1 /\ es[1] = e
  OBVIOUS
<1>. HIDE DEF es
<1>1. Reaches(run, a, es)
  BY <1>0 DEF Reaches, Takes, Live
<1>2. PICK g : Reaches(g, a, es) /\ M!After(a, es) = g[Len(es)]
  BY <1>1, AfterReached
<1>3. g[0] = a
  BY <1>0, <1>2 DEF Reaches
<1>4. g[1] = b
  BY <1>0, <1>2, <1>3 DEF Reaches, Takes, Live
<1>. QED BY <1>0, <1>2, <1>4 DEF es

LEMMA AfterTwo ==
    ASSUME NEW a, NEW e, NEW b, NEW f, NEW c, Live(a), Live(b), Takes(a, e, b), Takes(b, f, c)
    PROVE  M!After(a, <<e, f>>) = c
<1>. DEFINE run == [i \in 0 .. 2 |-> IF i = 0 THEN a ELSE IF i = 1 THEN b ELSE c]
            es == <<e, f>>
<1>0. Len(es) = 2 /\ es[1] = e /\ es[2] = f
  OBVIOUS
<1>. HIDE DEF es
<1>1. Reaches(run, a, es)
  BY <1>0 DEF Reaches, Takes, Live
<1>2. PICK g : Reaches(g, a, es) /\ M!After(a, es) = g[Len(es)]
  BY <1>1, AfterReached
<1>3. g[0] = a
  BY <1>0, <1>2 DEF Reaches
<1>4. g[1] = b
  BY <1>0, <1>2, <1>3 DEF Reaches, Takes, Live
<1>5. g[2] = c
  BY <1>0, <1>2, <1>4 DEF Reaches, Takes, Live
<1>. QED BY <1>0, <1>2, <1>5 DEF es

LEMMA AfterFour ==
    ASSUME NEW a, NEW e, NEW b, NEW f, NEW c, NEW h, NEW d, NEW k, NEW z,
           Live(a), Live(b), Live(c), Live(d),
           Takes(a, e, b), Takes(b, f, c), Takes(c, h, d), Takes(d, k, z)
    PROVE  M!After(a, <<e, f, h, k>>) = z
<1>. DEFINE run == [i \in 0 .. 4 |-> IF i = 0 THEN a ELSE IF i = 1 THEN b ELSE IF i = 2 THEN c
                                    ELSE IF i = 3 THEN d ELSE z]
            es == <<e, f, h, k>>
<1>0. Len(es) = 4 /\ es[1] = e /\ es[2] = f /\ es[3] = h /\ es[4] = k
  OBVIOUS
<1>. HIDE DEF es
<1>1. Reaches(run, a, es)
  BY <1>0 DEF Reaches, Takes, Live
<1>2. PICK g : Reaches(g, a, es) /\ M!After(a, es) = g[Len(es)]
  BY <1>1, AfterReached
<1>3. g[0] = a
  BY <1>0, <1>2 DEF Reaches
<1>4. g[1] = b
  BY <1>0, <1>2, <1>3 DEF Reaches, Takes, Live
<1>5. g[2] = c
  BY <1>0, <1>2, <1>4 DEF Reaches, Takes, Live
<1>6. g[3] = d
  BY <1>0, <1>2, <1>5 DEF Reaches, Takes, Live
<1>7. g[4] = z
  BY <1>0, <1>2, <1>6 DEF Reaches, Takes, Live
<1>. QED BY <1>0, <1>2, <1>7 DEF es

\* The moves the pipeline asks for.
LEMMA PipelineMoves ==
    /\ M!After("received", <<"propose_contract", "request_clarification">>) = "clarification_required"
    /\ M!After("received", <<"propose_contract", "validate_contract", "check_policy", "compile_context">>) = "context_compiled"
    /\ M!After("context_compiled", <<"no_admissible_route", "reject">>) = "rejected"
    /\ M!After("context_compiled", <<"no_admissible_route">>) = "escalation_required"
    /\ M!After("context_compiled", <<"select_route", "start_action">>) = "executing"
    /\ M!After("context_compiled", <<"select_route">>) = "routed"
    /\ M!After("executing", <<"record_result", "start_verification">>) = "verifying"
    /\ M!After("verifying", <<"verification_failed_unresolved", "reject">>) = "rejected"
    /\ M!After("verifying", <<"verification_passed">>) = "accepted"
    /\ M!After("accepted", <<"issue_receipt">>) = "completed"
<1>1. /\ Takes("received", "propose_contract", "contract_proposed")
      /\ Takes("contract_proposed", "request_clarification", "clarification_required")
      /\ Takes("contract_proposed", "validate_contract", "contract_validated")
      /\ Takes("contract_validated", "check_policy", "policy_checked")
      /\ Takes("policy_checked", "compile_context", "context_compiled")
      /\ Takes("context_compiled", "select_route", "routed")
      /\ Takes("context_compiled", "no_admissible_route", "escalation_required")
      /\ Takes("routed", "start_action", "executing")
      /\ Takes("executing", "record_result", "evidence_normalized")
      /\ Takes("evidence_normalized", "start_verification", "verifying")
      /\ Takes("verifying", "verification_passed", "accepted")
      /\ Takes("verifying", "verification_failed_unresolved", "escalation_required")
      /\ Takes("escalation_required", "reject", "rejected")
      /\ Takes("accepted", "issue_receipt", "completed")
  BY EntryTaken DEF M!Lifecycle
<1>2. /\ Live("received") /\ Live("contract_proposed") /\ Live("contract_validated") /\ Live("policy_checked")
      /\ Live("context_compiled") /\ Live("routed") /\ Live("executing") /\ Live("evidence_normalized")
      /\ Live("verifying") /\ Live("escalation_required") /\ Live("accepted")
  BY DEF Live
<1>3. M!After("received", <<"propose_contract", "validate_contract", "check_policy", "compile_context">>) = "context_compiled"
  BY <1>1, <1>2, AfterFour
<1>4. /\ M!After("received", <<"propose_contract", "request_clarification">>) = "clarification_required"
      /\ M!After("context_compiled", <<"no_admissible_route", "reject">>) = "rejected"
      /\ M!After("context_compiled", <<"select_route", "start_action">>) = "executing"
      /\ M!After("executing", <<"record_result", "start_verification">>) = "verifying"
      /\ M!After("verifying", <<"verification_failed_unresolved", "reject">>) = "rejected"
  BY <1>1, <1>2, AfterTwo
<1>5. /\ M!After("context_compiled", <<"no_admissible_route">>) = "escalation_required"
      /\ M!After("context_compiled", <<"select_route">>) = "routed"
      /\ M!After("verifying", <<"verification_passed">>) = "accepted"
      /\ M!After("accepted", <<"issue_receipt">>) = "completed"
  BY <1>1, <1>2, AfterOne
<1>. QED BY <1>3, <1>4, <1>5

\* Every state the pipeline leaves its machine in is one of the lifecycle's.
LEMMA StatesNamed ==
    {"received", "clarification_required", "context_compiled", "routed", "executing", "verifying",
     "escalation_required", "accepted", "completed", "rejected"} \subseteq M!MachineStates
<1>. DEFINE named == {t[1] : t \in M!Lifecycle} \cup {t[3] : t \in M!Lifecycle}
<1>1. \A a, e, b : <<a, e, b>> \in M!Lifecycle => a \in named /\ b \in named
  OBVIOUS
<1>. HIDE DEF named
<1>2. /\ <<"received", "propose_contract", "contract_proposed">> \in M!Lifecycle
      /\ <<"contract_proposed", "request_clarification", "clarification_required">> \in M!Lifecycle
      /\ <<"context_compiled", "select_route", "routed">> \in M!Lifecycle
      /\ <<"routed", "start_action", "executing">> \in M!Lifecycle
      /\ <<"verifying", "verification_failed_unresolved", "escalation_required">> \in M!Lifecycle
      /\ <<"escalation_required", "reject", "rejected">> \in M!Lifecycle
      /\ <<"accepted", "issue_receipt", "completed">> \in M!Lifecycle
  BY DEF M!Lifecycle
<1>3. named \subseteq M!MachineStates
  BY DEF named, M!MachineStates
<1>. QED BY <1>1, <1>2, <1>3

AtState(place, state, again) ==
    /\ place \in {"idle", "arrived", "new", "begun", "intake"} => state = "received" /\ ~again
    /\ place = "prepared" => state = "context_compiled" /\ ~again
    /\ place = "started" => state = IF again THEN "verifying" ELSE "executing"
    /\ place = "replied" => state = "verifying"
    /\ place = "passed" => state = "accepted"

MachineInv ==
    /\ sm \in [Runs -> M!MachineStates]
    /\ retrying \in [Runs -> BOOLEAN]
    /\ \A r \in Runs : AtState(pc[r], sm[r], retrying[r])

LEMMA MachineSet ==
    ASSUME ThreadTypes, MachineInv, NEW r \in Runs, NEW to, NEW s \in M!MachineStates, NEW again \in BOOLEAN,
           pc' = [pc EXCEPT ![r] = to], sm' = [sm EXCEPT ![r] = s], retrying' = [retrying EXCEPT ![r] = again],
           AtState(to, s, again)
    PROVE  MachineInv'
<1>1. /\ pc'[r] = to /\ sm'[r] = s /\ retrying'[r] = again
      /\ \A q \in Runs \ {r} : pc'[q] = pc[q] /\ sm'[q] = sm[q] /\ retrying'[q] = retrying[q]
      /\ sm' \in [Runs -> M!MachineStates] /\ retrying' \in [Runs -> BOOLEAN]
  BY DEF ThreadTypes, MachineInv
<1>2. AtState(pc'[r], sm'[r], retrying'[r])
  BY <1>1
<1>. QED BY <1>1, <1>2 DEF MachineInv

\* A step that asks the machine for nothing.
LEMMA MachineStays ==
    ASSUME ThreadTypes, MachineInv, NEW r \in Runs, NEW to, pc' = [pc EXCEPT ![r] = to], UNCHANGED <<sm, retrying>>,
           AtState(to, sm[r], retrying[r])
    PROVE  MachineInv'
<1>1. /\ pc'[r] = to /\ \A q \in Runs \ {r} : pc'[q] = pc[q]
  BY DEF ThreadTypes
<1>. QED BY <1>1 DEF MachineInv

LEMMA MachineStep ==
    ASSUME ThreadTypes, MachineInv, NEW r \in Runs, Step(r)
    PROVE  MachineInv'
<1>0. AtState(pc[r], sm[r], retrying[r]) /\ retrying[r] \in BOOLEAN /\ sm[r] \in M!MachineStates /\ pc[r] \in Places
  BY DEF MachineInv, ThreadTypes
<1>. DEFINE named == {"received", "clarification_required", "context_compiled", "routed", "executing", "verifying",
                      "escalation_required", "accepted", "completed", "rejected"}
<1>a. \A s \in named : s \in M!MachineStates
  BY StatesNamed
<1>b. /\ M!After(sm[r], <<>>) = sm[r]
      /\ retrying' = retrying => retrying' = [retrying EXCEPT ![r] = retrying[r]]
  BY AfterNone DEF MachineInv
<1>1. CASE Refuse(r)
  <2>1. pc' = [pc EXCEPT ![r] = "ended"] /\ UNCHANGED <<sm, retrying>>
    BY <1>1 DEF Refuse, At, Goto, Finish, Advance, threadVars, sharedVars, tenancyVars, callVars, runVars, answerVars, faultVars, registryVars
  <2>2. AtState("ended", sm[r], retrying[r])
    BY <1>0, <1>1 DEF Refuse, At, AtState
  <2>. QED BY <2>1, <2>2, MachineStays
<1>2. CASE ServeCached(r)
  <2>1. pc' = [pc EXCEPT ![r] = "ended"] /\ UNCHANGED <<sm, retrying>>
    BY <1>2 DEF ServeCached, At, Goto, Finish, Advance, threadVars, sharedVars, tenancyVars, callVars, runVars, answerVars, faultVars, registryVars
  <2>2. AtState("ended", sm[r], retrying[r])
    BY <1>0, <1>2 DEF ServeCached, At, AtState
  <2>. QED BY <2>1, <2>2, MachineStays
<1>3. CASE Miss(r)
  <2>1. pc' = [pc EXCEPT ![r] = "new"] /\ UNCHANGED <<sm, retrying>>
    BY <1>3 DEF Miss, At, Goto, Finish, Advance, threadVars, sharedVars, tenancyVars, callVars, runVars, answerVars, faultVars, registryVars
  <2>2. AtState("new", sm[r], retrying[r])
    BY <1>0, <1>3 DEF Miss, At, AtState
  <2>. QED BY <2>1, <2>2, MachineStays
<1>4. CASE Begin(r)
  <2>1. pc' = [pc EXCEPT ![r] = "begun"] /\ UNCHANGED <<sm, retrying>>
    BY <1>4 DEF Begin, At, Goto, Finish, Advance, threadVars, sharedVars, tenancyVars, callVars, runVars, answerVars, faultVars, registryVars
  <2>2. AtState("begun", sm[r], retrying[r])
    BY <1>0, <1>4 DEF Begin, At, AtState
  <2>. QED BY <2>1, <2>2, MachineStays
<1>5. CASE Reject422(r)
  <2>1. pc' = [pc EXCEPT ![r] = "ended"] /\ UNCHANGED <<sm, retrying>>
    BY <1>5 DEF Reject422, At, Goto, Finish, Advance, threadVars, sharedVars, tenancyVars, callVars, runVars, answerVars, faultVars, registryVars
  <2>2. AtState("ended", sm[r], retrying[r])
    BY <1>0, <1>5 DEF Reject422, At, AtState
  <2>. QED BY <2>1, <2>2, MachineStays
<1>6. CASE Publish(r)
  <2>1. pc' = [pc EXCEPT ![r] = "cached"] /\ UNCHANGED <<sm, retrying>>
    BY <1>6 DEF Publish, At, Goto, Finish, Advance, threadVars, sharedVars, tenancyVars, callVars, runVars, answerVars, faultVars, registryVars
  <2>2. AtState("cached", sm[r], retrying[r])
    BY <1>0, <1>6 DEF Publish, At, AtState
  <2>. QED BY <2>1, <2>2, MachineStays
<1>7. CASE Own(r)
  <2>1. /\ pc' = [pc EXCEPT ![r] = "intake"] /\ UNCHANGED retrying
        /\ sm' = [sm EXCEPT ![r] = M!After(sm[r], <<>>)]
    BY <1>7 DEF Own, At, Goto, Finish, Advance, threadVars, sharedVars, tenancyVars, callVars, runVars, answerVars, faultVars, registryVars, SetRunTenant
  <2>2. M!After(sm[r], <<>>) = "received" /\ AtState("intake", "received", retrying[r])
    BY <1>0, <1>b, <1>7, PipelineMoves DEF Own, At, AtState
  <2>. QED BY <1>0, <1>a, <1>b, <2>1, <2>2, MachineSet
<1>8. CASE Clarify(r)
  <2>1. /\ pc' = [pc EXCEPT ![r] = "ended"] /\ UNCHANGED retrying
        /\ sm' = [sm EXCEPT ![r] = M!After(sm[r], <<"propose_contract", "request_clarification">>)]
    BY <1>8 DEF Clarify, At, Goto, Finish, Advance, threadVars, sharedVars, tenancyVars, callVars, runVars, answerVars, faultVars, registryVars
  <2>2. M!After(sm[r], <<"propose_contract", "request_clarification">>) = "clarification_required" /\ AtState("ended", "clarification_required", retrying[r])
    BY <1>0, <1>b, <1>8, PipelineMoves DEF Clarify, At, AtState
  <2>. QED BY <1>0, <1>a, <1>b, <2>1, <2>2, MachineSet
<1>9. CASE Prepare(r)
  <2>1. /\ pc' = [pc EXCEPT ![r] = "prepared"] /\ UNCHANGED retrying
        /\ sm' = [sm EXCEPT ![r] = M!After(sm[r], <<"propose_contract", "validate_contract", "check_policy", "compile_context">>)]
    BY <1>9 DEF Prepare, At, Goto, Finish, Advance, threadVars, sharedVars, tenancyVars, callVars, runVars, answerVars, faultVars, registryVars
  <2>2. M!After(sm[r], <<"propose_contract", "validate_contract", "check_policy", "compile_context">>) = "context_compiled" /\ AtState("prepared", "context_compiled", retrying[r])
    BY <1>0, <1>b, <1>9, PipelineMoves DEF Prepare, At, AtState
  <2>. QED BY <1>0, <1>a, <1>b, <2>1, <2>2, MachineSet
<1>10. CASE NoRoute(r)
  <2>1. /\ pc' = [pc EXCEPT ![r] = "rejecting"] /\ UNCHANGED retrying
        /\ sm' = [sm EXCEPT ![r] = M!After(sm[r], <<"no_admissible_route", "reject">>)]
    BY <1>10 DEF NoRoute, At, Goto, Finish, Advance, threadVars, sharedVars, tenancyVars, callVars, runVars, answerVars, faultVars, registryVars
  <2>2. M!After(sm[r], <<"no_admissible_route", "reject">>) = "rejected" /\ AtState("rejecting", "rejected", retrying[r])
    BY <1>0, <1>b, <1>10, PipelineMoves DEF NoRoute, At, AtState
  <2>. QED BY <1>0, <1>a, <1>b, <2>1, <2>2, MachineSet
<1>11. CASE Route(r)
  <2>1. /\ pc' = [pc EXCEPT ![r] = "started"] /\ UNCHANGED retrying
        /\ sm' = [sm EXCEPT ![r] = M!After(sm[r], <<"select_route", "start_action">>)]
    BY <1>11 DEF Route, At, Goto, Finish, Advance, threadVars, sharedVars, tenancyVars, callVars, runVars, answerVars, faultVars, registryVars
  <2>2. M!After(sm[r], <<"select_route", "start_action">>) = "executing" /\ AtState("started", "executing", retrying[r])
    BY <1>0, <1>b, <1>11, PipelineMoves DEF Route, At, AtState
  <2>. QED BY <1>0, <1>a, <1>b, <2>1, <2>2, MachineSet
<1>12. CASE Pass(r)
  <2>1. /\ pc' = [pc EXCEPT ![r] = "passed"] /\ UNCHANGED retrying
        /\ sm' = [sm EXCEPT ![r] = M!After(sm[r], <<"verification_passed">>)]
    BY <1>12 DEF Pass, At, Goto, Finish, Advance, threadVars, sharedVars, tenancyVars, callVars, runVars, answerVars, faultVars, registryVars
  <2>2. M!After(sm[r], <<"verification_passed">>) = "accepted" /\ AtState("passed", "accepted", retrying[r])
    BY <1>0, <1>b, <1>12, PipelineMoves DEF Pass, At, AtState
  <2>. QED BY <1>0, <1>a, <1>b, <2>1, <2>2, MachineSet
<1>13. CASE RejectRun(r)
  <2>1. /\ pc' = [pc EXCEPT ![r] = "rejecting"] /\ UNCHANGED retrying
        /\ sm' = [sm EXCEPT ![r] = M!After(sm[r], <<"verification_failed_unresolved", "reject">>)]
    BY <1>13 DEF RejectRun, At, Goto, Finish, Advance, threadVars, sharedVars, tenancyVars, callVars, runVars, answerVars, faultVars, registryVars
  <2>2. M!After(sm[r], <<"verification_failed_unresolved", "reject">>) = "rejected" /\ AtState("rejecting", "rejected", retrying[r])
    BY <1>0, <1>b, <1>13, PipelineMoves DEF RejectRun, At, AtState
  <2>. QED BY <1>0, <1>a, <1>b, <2>1, <2>2, MachineSet
<1>14. CASE Complete(r)
  <2>1. /\ pc' = [pc EXCEPT ![r] = "accepting"] /\ UNCHANGED retrying
        /\ sm' = [sm EXCEPT ![r] = M!After(sm[r], <<"issue_receipt">>)]
    BY <1>14 DEF Complete, At, Goto, Finish, Advance, threadVars, sharedVars, tenancyVars, callVars, runVars, answerVars, faultVars, registryVars
  <2>2. M!After(sm[r], <<"issue_receipt">>) = "completed" /\ AtState("accepting", "completed", retrying[r])
    BY <1>0, <1>b, <1>14, PipelineMoves DEF Complete, At, AtState
  <2>. QED BY <1>0, <1>a, <1>b, <2>1, <2>2, MachineSet
<1>15. CASE CallFails(r)
  <2>1. UNCHANGED <<sm, retrying>> /\ (pc' = [pc EXCEPT ![r] = "ended"] \/ UNCHANGED pc)
    BY <1>15 DEF CallFails, At, Goto, Finish, Advance, threadVars, sharedVars, tenancyVars, callVars, runVars, answerVars, faultVars, registryVars
  <2>2. AtState("ended", sm[r], retrying[r])
    BY DEF AtState
  <2>. QED BY <2>1, <2>2, MachineStays DEF MachineInv
<1>16. CASE CallReturns(r)
  <2>. DEFINE es == IF retrying[r] THEN <<>> ELSE <<"record_result", "start_verification">>
  <2>1. /\ pc' = [pc EXCEPT ![r] = "replied"] /\ UNCHANGED retrying
        /\ sm' = [sm EXCEPT ![r] = M!After(sm[r], es)]
    BY <1>16 DEF CallReturns, At, Goto, Finish, Advance, threadVars, sharedVars, tenancyVars, callVars, runVars, answerVars, faultVars, registryVars
  <2>2. M!After(sm[r], es) = "verifying"
    <3>1. pc[r] = "started"
      BY <1>16 DEF CallReturns, CallPlan, At
    <3>2. CASE retrying[r]
      BY <1>0, <1>b, <3>1, <3>2 DEF AtState
    <3>3. CASE ~retrying[r]
      BY <1>0, <3>1, <3>3, PipelineMoves DEF AtState
    <3>. QED BY <3>2, <3>3
  <2>3. AtState("replied", "verifying", retrying[r])
    BY DEF AtState
  <2>. HIDE DEF es
  <2>. QED BY <1>0, <1>a, <1>b, <2>1, <2>2, <2>3, MachineSet
<1>17. CASE RetryInCloud(r)
  <2>1. /\ pc' = [pc EXCEPT ![r] = "started"] /\ UNCHANGED sm
        /\ retrying' = [retrying EXCEPT ![r] = TRUE]
    BY <1>17 DEF RetryInCloud, At, Goto, Finish, Advance, threadVars, sharedVars, tenancyVars, callVars, runVars, answerVars, faultVars, registryVars
  <2>2. sm[r] = "verifying" /\ AtState("started", "verifying", TRUE)
    BY <1>0, <1>17 DEF RetryInCloud, At, AtState
  <2>3. sm' = [sm EXCEPT ![r] = sm[r]]
    BY <2>1 DEF MachineInv
  <2>. QED BY <1>a, <2>1, <2>2, <2>3, MachineSet
<1>18. CASE Answer(r)
  <2>1. pc' = [pc EXCEPT ![r] = "ended"] /\ UNCHANGED <<sm, retrying>>
    BY <1>18 DEF Answer, At, Goto, Finish, Advance, threadVars, sharedVars, tenancyVars, callVars, runVars, answerVars, faultVars, registryVars
  <2>2. AtState("ended", sm[r], retrying[r])
    BY DEF AtState
  <2>. QED BY <2>1, <2>2, MachineStays
<1>19. CASE LoseRecord(r)
  <2>. DEFINE es == MovesBeforeLoss(r)
  <2>1. /\ pc' = [pc EXCEPT ![r] = "ended"] /\ UNCHANGED retrying
        /\ sm' = [sm EXCEPT ![r] = M!After(sm[r], es)]
    BY <1>19 DEF LoseRecord, At, Goto, Finish, Advance, threadVars, sharedVars, tenancyVars, callVars, runVars, answerVars, faultVars, registryVars
  <2>2. M!After(sm[r], es) \in M!MachineStates
    <3>1. pc[r] \in {"prepared", "replied", "passed"}
            \/ pc[r] \in {"intake", "started", "accepting", "rejecting", "settled", "refused"}
      BY <1>19 DEF LoseRecord
    <3>2. CASE pc[r] = "prepared"
      <4>1. es = IF plans[r] = <<>> THEN <<"no_admissible_route">> ELSE <<"select_route">>
        BY <3>2 DEF MovesBeforeLoss, At
      <4>2. sm[r] = "context_compiled"
        BY <1>0, <3>2 DEF AtState
      <4>. HIDE DEF es
      <4>3. CASE plans[r] = <<>>
        BY <1>a, <4>1, <4>2, <4>3, PipelineMoves
      <4>4. CASE plans[r] # <<>>
        BY <1>a, <4>1, <4>2, <4>4, PipelineMoves
      <4>. QED BY <4>3, <4>4
    <3>3. CASE pc[r] = "replied"
      <4>1. es = IF verdict[r] = "passed" THEN <<"verification_passed">> ELSE <<>>
        BY <3>3 DEF MovesBeforeLoss, At
      <4>2. sm[r] = "verifying"
        BY <1>0, <3>3 DEF AtState
      <4>. HIDE DEF es
      <4>3. CASE verdict[r] = "passed"
        BY <1>a, <4>1, <4>2, <4>3, PipelineMoves
      <4>4. CASE verdict[r] # "passed"
        BY <1>0, <1>b, <4>1, <4>4
      <4>. QED BY <4>3, <4>4
    <3>4. CASE pc[r] = "passed"
      <4>1. es = <<"issue_receipt">> /\ sm[r] = "accepted"
        BY <1>0, <3>4 DEF MovesBeforeLoss, At, AtState
      <4>. QED BY <1>a, <4>1, PipelineMoves
    <3>5. CASE pc[r] \in {"intake", "started", "accepting", "rejecting", "settled", "refused"}
      <4>1. es = <<>>
        BY <3>5 DEF MovesBeforeLoss, At
      <4>. QED BY <1>0, <1>b, <4>1
    <3>. QED BY <3>1, <3>2, <3>3, <3>4, <3>5
  <2>3. \A s : AtState("ended", s, retrying[r])
    BY DEF AtState
  <2>. HIDE DEF es
  <2>. QED BY <1>0, <1>b, <2>1, <2>2, <2>3, MachineSet
<1>20. CASE Certify(r)
  <2>1. pc' = [pc EXCEPT ![r] = "receipted"] /\ UNCHANGED <<sm, retrying>>
    BY <1>20 DEF Certify, Goto, runVars
  <2>2. AtState("receipted", sm[r], retrying[r])
    BY DEF AtState
  <2>. QED BY <2>1, <2>2, MachineStays
<1>21. CASE Save(r)
  <2>1. pc' = [pc EXCEPT ![r] = "settled"] \/ pc' = [pc EXCEPT ![r] = "refused"]
    BY <1>21 DEF Save, Goto
  <2>2. UNCHANGED <<sm, retrying>>
    BY <1>21 DEF Save, callVars, runVars
  <2>3. AtState("settled", sm[r], retrying[r]) /\ AtState("refused", sm[r], retrying[r])
    BY DEF AtState
  <2>. QED BY <2>1, <2>2, <2>3, MachineStays
<1>22. CASE Escalate(r)
  <2>1. pc' = [pc EXCEPT ![r] = "ended"] /\ UNCHANGED <<sm, retrying>>
    BY <1>22 DEF Escalate, Finish, Goto, callVars, runVars
  <2>2. AtState("ended", sm[r], retrying[r])
    BY DEF AtState
  <2>. QED BY <2>1, <2>2, MachineStays
<1>. QED BY <1>1, <1>2, <1>3, <1>4, <1>5, <1>6, <1>7, <1>8, <1>9, <1>10, <1>11, <1>12, <1>13, <1>14, <1>15, <1>16, <1>17, <1>18, <1>19,
         <1>20, <1>21, <1>22 DEF Step

LEMMA MachineNext ==
    ASSUME ThreadTypes, MachineInv, [Next]_vars
    PROVE  MachineInv'
<1>1. ASSUME NEW r \in Runs, Arrive(r)
      PROVE  MachineInv'
  <2>1. pc' = [pc EXCEPT ![r] = "arrived"] /\ UNCHANGED <<sm, retrying>> /\ pc[r] = "idle"
    BY <1>1 DEF Arrive, Goto, At
  <2>2. AtState("arrived", sm[r], retrying[r])
    BY <2>1 DEF AtState, MachineInv
  <2>. QED BY <2>1, <2>2, MachineStays
<1>2. UNCHANGED <<pc, sm, retrying>> => MachineInv'
  BY DEF MachineInv
<1>3. ASSUME NEW r \in Runs, Look(r)
      PROVE  MachineInv'
  BY <1>2, <1>3 DEF Look, threadVars
<1>4. ASSUME NEW s \in Switches, SetSwitch(s)
      PROVE  MachineInv'
  BY <1>2, <1>4 DEF SetSwitch, threadVars
<1>5. ASSUME NEW t \in Tenants, DeleteTenant(t)
      PROVE  MachineInv'
  BY <1>2, <1>5 DEF DeleteTenant, threadVars
<1>6. CASE Restart
  <2>1. /\ pc' = [r \in Runs |-> IF pc[r] \in {"idle"} \cup Ended THEN pc[r] ELSE "lost"]
        /\ sm' = [r \in Runs |-> "received"] /\ retrying' = retrying
    BY <1>6 DEF Restart, callVars, runVars, M!Initial
  <2>2. "received" \in M!MachineStates
    BY StatesNamed
  <2>3. ASSUME NEW r \in Runs
        PROVE  AtState(pc'[r], sm'[r], retrying'[r])
    <3>1. AtState(pc[r], sm[r], retrying[r])
      BY DEF MachineInv
    <3>. QED BY <2>1, <3>1 DEF AtState, Ended
  <2>. QED BY <2>1, <2>2, <2>3 DEF MachineInv
<1>7. CASE UNCHANGED vars
  BY <1>2, <1>7 DEF vars, threadVars
<1>8. ASSUME NEW r \in Runs, Step(r)
      PROVE  MachineInv'
  BY <1>8, MachineStep
<1>. QED BY <1>1, <1>3, <1>4, <1>5, <1>6, <1>7, <1>8 DEF Next

LEMMA MachineAlways == Spec => []MachineInv
<1>1. Init => MachineInv
  <2>1. "received" \in M!MachineStates
    BY StatesNamed
  <2>. QED BY <2>1 DEF Init, MachineInv, AtState, M!Initial
<1>2. ThreadTypes /\ MachineInv /\ [Next]_vars => MachineInv'
  BY MachineNext
<1>. QED BY <1>1, <1>2, TypesAlways, PTL DEF Spec

\* ------------------------------------------------------------ plans, faults and the cache
PlanInv ==
    /\ portfolio \in Seq(Providers)
    /\ \A r \in Runs : ToSet(plans[r]) \subseteq Providers
    /\ faults \in 0 .. MaxFaults
    /\ Len(cache) <= CacheSize

LEMMA AvailableType ==
    ASSUME portfolio \in Seq(Providers)
    PROVE  ToSet(Available) \subseteq Providers
<1>. DEFINE places == {i \in DOMAIN portfolio : portfolio[i] \notin killed}
<1>1. Len(portfolio) \in Nat /\ DOMAIN portfolio = 1 .. Len(portfolio)
  BY LenProperties
<1>2. IsFiniteSet(1 .. Len(portfolio))
  <2>1. 1 \in Int /\ Len(portfolio) \in Int
    BY <1>1
  <2>. QED BY <2>1, FS_Interval, Zenon
<1>3. places \in SUBSET Int /\ IsFiniteSet(places)
  <2>1. places \in SUBSET (1 .. Len(portfolio))
    BY <1>1
  <2>. HIDE DEF places
  <2>2. IsFiniteSet(places)
    BY <1>2, <2>1, FS_Subset
  <2>. QED BY <1>1, <2>1, <2>2
<1>4. \A p \in places : portfolio[p] \in Providers
  BY <1>1, ElementOfSeq
<1>. HIDE DEF places
<1>5. /\ DOMAIN Picked(portfolio, places) = 1 .. Cardinality(places)
      /\ \A k \in 1 .. Cardinality(places) : Picked(portfolio, places)[k] \in Providers
  <2>1. /\ DOMAIN Picked(portfolio, places) = 1 .. Cardinality(places)
        /\ \A k \in 1 .. Cardinality(places) :
              InOrder(places, k) \in places /\ Picked(portfolio, places)[k] = portfolio[InOrder(places, k)]
    BY <1>3, <1>4, PickedType
  <2>. QED BY <1>4, <2>1
<1>6. ToSet(Picked(portfolio, places)) \subseteq Providers
  BY <1>5 DEF ToSet
<1>. QED BY <1>6 DEF Available, places

LEMMA CacheBounded ==
    ASSUME ThreadTypes, Len(cache) <= CacheSize, NEW r \in Runs, Publish(r)
    PROVE  Len(cache') <= CacheSize
<1>. DEFINE roomy == IF Len(cache) >= CacheSize THEN Tail(cache) ELSE cache
            entry == [key |-> Key(r), run |-> r]
            D == {i \in 1 .. Len(roomy) : roomy[i].key = entry.key}
<1>0. Len(cache) \in Nat /\ CacheSize \in Nat \ {0} /\ cache \in Seq(Entry)
  BY LenProperties, PipelineAssumption DEF ThreadTypes
<1>1. roomy \in Seq(Entry) /\ Len(roomy) + 1 <= CacheSize
  <2>1. CASE Len(cache) >= CacheSize
    <3>1. cache # <<>>
      BY <1>0, <2>1
    <3>2. Tail(cache) \in Seq(Entry) /\ Len(Tail(cache)) = Len(cache) - 1
      BY <1>0, <3>1, HeadTailProperties
    <3>. QED BY <1>0, <2>1, <3>2
  <2>2. CASE ~(Len(cache) >= CacheSize)
    BY <1>0, <2>2
  <2>. QED BY <2>1, <2>2
<1>2. entry \in Entry
  BY KeyType DEF Entry
<1>3. cache' = IF \E i \in 1 .. Len(roomy) : roomy[i].key = entry.key
               THEN [i \in 1 .. Len(roomy) |-> IF roomy[i].key = entry.key THEN entry ELSE roomy[i]]
               ELSE Append(roomy, entry)
  BY DEF Publish
<1>4. [i \in 1 .. Len(roomy) |-> IF roomy[i].key = entry.key THEN entry ELSE roomy[i]] = Replaced(roomy, entry, D)
  BY DEF Replaced
<1>. HIDE DEF roomy, entry, D
<1>5. Len(roomy) \in Nat /\ Len(Append(roomy, entry)) = Len(roomy) + 1
  BY <1>1, <1>2, LenProperties, AppendProperties
<1>6. Len(Replaced(roomy, entry, D)) = Len(roomy)
  <2>1. Replaced(roomy, entry, D) \in Seq(Entry)
    BY <1>1, <1>2, ReplaceSome
  <2>2. DOMAIN Replaced(roomy, entry, D) = 1 .. Len(roomy)
    BY DEF Replaced
  <2>. HIDE DEF Replaced
  <2>3. Len(Replaced(roomy, entry, D)) \in Nat /\ DOMAIN Replaced(roomy, entry, D) = 1 .. Len(Replaced(roomy, entry, D))
    BY <2>1, LenProperties
  <2>. QED BY <1>5, <2>2, <2>3
<1>. QED BY <1>0, <1>1, <1>3, <1>4, <1>5, <1>6

LEMMA StepSurroundings ==
    ASSUME ThreadTypes, PlanInv, NEW r \in Runs, Step(r)
    PROVE  PlanInv'
<1>0. \A q \in Runs : ToSet(plans'[q]) = ToSet(plans[q]) => ToSet(plans'[q]) \subseteq Providers
  BY DEF PlanInv
<1>1. UNCHANGED <<portfolio, faults>>
  BY DEF Step, Refuse, ServeCached, Miss, Begin, Own, Reject422, Clarify, Prepare, NoRoute, Route, CallFails,
         CallReturns, RetryInCloud, RejectRun, Pass, Complete, Certify, Save, Escalate, Publish, Answer, LoseRecord, sharedVars, faultVars, callVars, runVars
<1>2. UNCHANGED plans \/ Prepare(r)
  BY DEF Step, Refuse, ServeCached, Miss, Begin, Own, Reject422, Clarify, NoRoute, Route, CallFails,
         CallReturns, RetryInCloud, RejectRun, Pass, Complete, Certify, Save, Escalate, Publish, Answer, LoseRecord, callVars, runVars
<1>3. UNCHANGED cache \/ Miss(r) \/ Publish(r)
  BY DEF Step, Refuse, ServeCached, Begin, Own, Reject422, Clarify, Prepare, NoRoute, Route, CallFails,
         CallReturns, RetryInCloud, RejectRun, Pass, Complete, Certify, Save, Escalate, Answer, LoseRecord, sharedVars
<1>4. ASSUME NEW q \in Runs
      PROVE  ToSet(plans'[q]) \subseteq Providers
  <2>1. CASE UNCHANGED plans
    BY <2>1 DEF PlanInv
  <2>2. CASE Prepare(r)
    <3>1. plans' = [plans EXCEPT ![r] = Available]
      BY <2>2 DEF Prepare
    <3>2. plans'[q] = plans[q] \/ plans'[q] = Available
      BY <3>1 DEF ToSet
    <3>. QED BY <3>2, AvailableType DEF PlanInv
  <2>. QED BY <1>2, <2>1, <2>2
<1>5. Len(cache') <= CacheSize
  <2>1. CASE UNCHANGED cache
    BY <2>1 DEF PlanInv
  <2>2. CASE Miss(r)
    <3>1. UNCHANGED cache \/ \E i \in 1 .. Len(cache) : cache' = RemoveAt(cache, i)
      BY <2>2 DEF Miss, Hits
    <3>2. ASSUME NEW i \in 1 .. Len(cache), cache' = RemoveAt(cache, i)
          PROVE  Len(cache') <= CacheSize
      <4>1. cache \in Seq(Entry) /\ Len(cache) \in Nat /\ i \in Int
        BY LenProperties DEF ThreadTypes
      <4>2. /\ SubSeq(cache, 1, i - 1) \in Seq(Entry) /\ Len(SubSeq(cache, 1, i - 1)) = i - 1
            /\ SubSeq(cache, i + 1, Len(cache)) \in Seq(Entry) /\ Len(SubSeq(cache, i + 1, Len(cache))) = Len(cache) - i
        <5>0. \A k \in 1 .. Len(cache) : cache[k] \in Entry
          BY <4>1, ElementOfSeq
        <5>1. \A k \in 1 .. i - 1 : cache[k] \in Entry
          BY <4>1, <5>0
        <5>2. \A k \in i + 1 .. Len(cache) : cache[k] \in Entry
          BY <4>1, <5>0
        <5>3. SubSeq(cache, 1, i - 1) \in Seq(Entry) /\ Len(SubSeq(cache, 1, i - 1)) = IF 1 <= i - 1 THEN i - 1 - 1 + 1 ELSE 0
          BY <4>1, <5>1, SubSeqProperties
        <5>4. /\ SubSeq(cache, i + 1, Len(cache)) \in Seq(Entry)
              /\ Len(SubSeq(cache, i + 1, Len(cache))) = IF i + 1 <= Len(cache) THEN Len(cache) - (i + 1) + 1 ELSE 0
          BY <4>1, <5>2, SubSeqProperties
        <5>. QED BY <4>1, <5>3, <5>4
      <4>3. Len(RemoveAt(cache, i)) = (i - 1) + (Len(cache) - i)
        <5>. DEFINE a == SubSeq(cache, 1, i - 1)
                    b == SubSeq(cache, i + 1, Len(cache))
        <5>1. RemoveAt(cache, i) = a \o b
          BY DEF RemoveAt
        <5>. HIDE DEF a, b
        <5>2. Len(a \o b) = Len(a) + Len(b)
          BY <4>2, ConcatProperties DEF a, b
        <5>. QED BY <4>2, <5>1, <5>2 DEF a, b
      <4>4. CacheSize \in Nat
        BY PipelineAssumption
      <4>. QED BY <3>2, <4>1, <4>3, <4>4 DEF PlanInv
    <3>. QED BY <3>1, <3>2 DEF PlanInv
  <2>3. CASE Publish(r)
    BY <2>3, CacheBounded DEF PlanInv
  <2>. QED BY <1>3, <2>1, <2>2, <2>3
<1>. QED BY <1>1, <1>4, <1>5 DEF PlanInv

LEMMA SurroundingsNext ==
    ASSUME ThreadTypes, PlanInv, [Next]_vars
    PROVE  PlanInv'
<1>0. MaxFaults \in Nat
  BY PipelineAssumption
<1>1. Fault => faults' \in 0 .. MaxFaults
  BY <1>0 DEF Fault, PlanInv
<1>2. UNCHANGED <<portfolio, plans, cache>> /\ faults' \in 0 .. MaxFaults => PlanInv'
  BY DEF PlanInv
<1>3. faults' = faults => faults' \in 0 .. MaxFaults
  BY DEF PlanInv
<1>4. ASSUME NEW r \in Runs, Arrive(r)
      PROVE  PlanInv'
  BY <1>2, <1>3, <1>4 DEF Arrive, sharedVars, faultVars
<1>5. ASSUME NEW r \in Runs, Look(r)
      PROVE  PlanInv'
  BY <1>1, <1>2, <1>5 DEF Look, threadVars
<1>6. ASSUME NEW s \in Switches, SetSwitch(s)
      PROVE  PlanInv'
  BY <1>1, <1>2, <1>6 DEF SetSwitch, threadVars
<1>7. ASSUME NEW t \in Tenants, DeleteTenant(t)
      PROVE  PlanInv'
  BY <1>1, <1>2, <1>3, <1>7 DEF DeleteTenant, threadVars
<1>8. CASE Restart
  <2>1. cache' = <<>> /\ UNCHANGED <<portfolio, plans>> /\ faults' \in 0 .. MaxFaults
    BY <1>1, <1>8 DEF Restart, callVars, runVars
  <2>2. Len(<<>>) = 0 /\ 0 <= CacheSize
    BY PipelineAssumption
  <2>. QED BY <2>1, <2>2 DEF PlanInv
<1>9. CASE UNCHANGED vars
  BY <1>2, <1>3, <1>9 DEF vars, threadVars
<1>10. ASSUME NEW r \in Runs, Step(r)
       PROVE  PlanInv'
  BY <1>10, StepSurroundings
<1>. QED BY <1>4, <1>5, <1>6, <1>7, <1>8, <1>9, <1>10 DEF Next

LEMMA SurroundingsAlways == Spec => []PlanInv
<1>1. Init => PlanInv
  <2>1. Len(<<>>) = 0 /\ 0 <= CacheSize /\ 0 \in 0 .. MaxFaults /\ ToSet(<<>>) = {}
    BY PipelineAssumption DEF ToSet
  <2>. QED BY <2>1, PipelineAssumption DEF Init, PlanInv
<1>2. ThreadTypes /\ PlanInv /\ [Next]_vars => PlanInv'
  BY SurroundingsNext
<1>. QED BY <1>1, <1>2, TypesAlways, PTL DEF Spec

\* The lifecycle machine is never asked for a move its table does not have, the
\* dict and the tables agree on what is known, the caches keep to their bounds,
\* and a receipt binds the end of the stored ledger, and all of it unless memory
\* dropped the record before its row was saved (run_inference_pipeline).
THEOREM BooksSound == Spec => []LedgerSound
<1>1. ThreadTypes /\ BookTypes /\ MachineInv /\ RegistryInv /\ PlanInv => TypeOK
  <2>. SUFFICES ASSUME ThreadTypes, BookTypes, MachineInv, RegistryInv, PlanInv
                PROVE  TypeOK
    OBVIOUS
  <2>1. DOMAIN order = 1 .. Len(order) /\ ToSet(order) = {order[i] : i \in 1 .. Len(order)}
    BY LenProperties DEF ToSet, RegistryInv, OrderKept
  <2>2. RegistryTypeOK
    BY <2>1 DEF RegistryTypeOK, RegistryInv, OrderKept, BookTypes, TableTypes, IsInjective
  <2>3. faults <= MaxFaults
    BY PipelineAssumption DEF PlanInv
  <2>. QED BY <2>2, <2>3 DEF TypeOK, ThreadTypes, Places, Recording, Ended, MachineInv, PlanInv
<1>. QED BY <1>1, TypesAlways, BookTypesAlways, MachineAlways, RegistryAlways, SurroundingsAlways, ReceiptsBindLedger, PTL
         DEF LedgerSound
=============================================================================

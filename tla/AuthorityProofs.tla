-------------------------- MODULE AuthorityProofs --------------------------
(***************************************************************************)
(* Theorems about Authority, for any replicas, run ids and costs.          *)
(***************************************************************************)
EXTENDS Authority, Sums, SequenceTheorems

(* The authority value.  What the transitions return is an authority state *)
(* again, with one more entry in its ledger.                               *)

LEMMA NewState == Runtime!New \in Runtime!AuthorityState
BY DEF Runtime!New, Runtime!AuthorityState

LEMMA EntryType ==
    ASSUME NEW k \in {"prepared"} \cup Runtime!Finished, NEW r \in Runs, NEW c \in Nat
    PROVE  Runtime!Entry(k, r, c) \in Runtime!Event
BY DEF Runtime!Entry, Runtime!Event

LEMMA PreparedRunType ==
    ASSUME NEW p \in Runtime!PreparedRun
    PROVE  p.run \in Runs /\ p.cost \in Nat
BY AuthorityConstants DEF Runtime!PreparedRun

LEMMA PrepareType ==
    ASSUME NEW a \in Runtime!AuthorityState, NEW p \in Runtime!PreparedRun
    PROVE  /\ Runtime!AfterPrepare(a, p) \in Runtime!AuthorityState
           /\ Runtime!AfterPrepare(a, p).ledger =
                  Append(a.ledger, Runtime!Entry("prepared", p.run, p.cost))
           /\ Runtime!Entry("prepared", p.run, p.cost) \in Runtime!Event
<1>1. Runtime!Entry("prepared", p.run, p.cost) \in Runtime!Event
  BY PreparedRunType, EntryType
<1>2. Append(a.ledger, Runtime!Entry("prepared", p.run, p.cost)) \in Seq(Runtime!Event)
  BY <1>1 DEF Runtime!AuthorityState
<1>. QED BY <1>1, <1>2 DEF Runtime!AfterPrepare, Runtime!AuthorityState

LEMMA WithoutType ==
    ASSUME NEW S \in SUBSET Runtime!PreparedRun, NEW r
    PROVE  Runtime!Without(S, r) \in SUBSET Runtime!PreparedRun
BY DEF Runtime!Without

LEMMA CompleteType ==
    ASSUME NEW a \in Runtime!AuthorityState, NEW r \in Runs, NEW c \in Nat, NEW ok \in BOOLEAN
    PROVE  LET e == Runtime!Entry(IF ok THEN "released" ELSE "rejected", r, c)
           IN /\ Runtime!AfterComplete(a, r, c, ok) \in Runtime!AuthorityState
              /\ Runtime!AfterComplete(a, r, c, ok).ledger = Append(a.ledger, e)
              /\ e \in Runtime!Event
<1>. DEFINE k == IF ok THEN "released" ELSE "rejected"
            e == Runtime!Entry(k, r, c)
<1>0. k \in {"prepared"} \cup Runtime!Finished
  BY DEF Runtime!Finished
<1>1. e \in Runtime!Event
  BY <1>0, EntryType
<1>2. Append(a.ledger, e) \in Seq(Runtime!Event) /\ a.spent + c \in Nat
  BY <1>1 DEF Runtime!AuthorityState
<1>3. /\ Runtime!Without(a.reserved, r) \in SUBSET Runtime!PreparedRun
      /\ Runtime!Without(a.active, r) \in SUBSET Runtime!PreparedRun
  BY WithoutType DEF Runtime!AuthorityState
<1>. QED BY <1>1, <1>2, <1>3 DEF Runtime!AfterComplete, Runtime!AuthorityState

LEMMA AbortType ==
    ASSUME NEW a \in Runtime!AuthorityState, NEW r \in Runs
    PROVE  /\ Runtime!AfterAbort(a, r) \in Runtime!AuthorityState
           /\ Runtime!AfterAbort(a, r).ledger = Append(a.ledger, Runtime!Entry("aborted", r, 0))
           /\ Runtime!Entry("aborted", r, 0) \in Runtime!Event
<1>1. Runtime!Entry("aborted", r, 0) \in Runtime!Event
  BY EntryType DEF Runtime!Finished
<1>2. Append(a.ledger, Runtime!Entry("aborted", r, 0)) \in Seq(Runtime!Event)
  BY <1>1 DEF Runtime!AuthorityState
<1>3. /\ Runtime!Without(a.reserved, r) \in SUBSET Runtime!PreparedRun
      /\ Runtime!Without(a.active, r) \in SUBSET Runtime!PreparedRun
  BY WithoutType DEF Runtime!AuthorityState
<1>. QED BY <1>1, <1>2, <1>3 DEF Runtime!AfterAbort, Runtime!AuthorityState

-----------------------------------------------------------------------------
(* One transition of the runtime, from a to b, as save sees it.            *)

RuntimeStep(a, b) ==
    \/ \E p \in Runtime!PreparedRun : Runtime!CanPrepare(a, p) /\ b = Runtime!AfterPrepare(a, p)
    \/ \E p \in a.reserved : \E c \in 0 .. p.cost, ok \in BOOLEAN :
          /\ Runtime!CanComplete(a, p.run, c)
          /\ b = Runtime!AfterComplete(a, p.run, c, ok)
    \/ \E r \in Runs : Runtime!CanAbort(a, r) /\ b = Runtime!AfterAbort(a, r)

Staged(a, b) ==
    /\ RuntimeStep(a, b)
    /\ b \in Runtime!AuthorityState
    /\ \E e \in Runtime!Event : b.ledger = Append(a.ledger, e)

LEMMA PrepareStaged ==
    ASSUME NEW a \in Runtime!AuthorityState, NEW p \in Runtime!PreparedRun,
           Runtime!CanPrepare(a, p)
    PROVE  Staged(a, Runtime!AfterPrepare(a, p))
<1>1. RuntimeStep(a, Runtime!AfterPrepare(a, p))
  BY DEF RuntimeStep
<1>. QED BY <1>1, PrepareType DEF Staged

LEMMA CompleteStaged ==
    ASSUME NEW a \in Runtime!AuthorityState, NEW p \in Runtime!PreparedRun, NEW ok \in BOOLEAN,
           Runtime!CanComplete(a, p.run, p.cost)
    PROVE  Staged(a, Runtime!AfterComplete(a, p.run, p.cost, ok))
<1>. DEFINE b == Runtime!AfterComplete(a, p.run, p.cost, ok)
<1>1. p.run \in Runs /\ p.cost \in Nat
  BY PreparedRunType
<1>2. PICK q \in a.reserved : q.run = p.run /\ p.cost <= q.cost
  BY DEF Runtime!CanComplete
<1>3. q \in Runtime!PreparedRun
  BY <1>2 DEF Runtime!AuthorityState
<1>4. q.cost \in Nat
  BY <1>3, PreparedRunType
<1>5. p.cost \in 0 .. q.cost
  BY <1>1, <1>2, <1>4
<1>6. RuntimeStep(a, b)
  BY <1>2, <1>5 DEF RuntimeStep
<1>7. /\ b \in Runtime!AuthorityState
      /\ \E e \in Runtime!Event : b.ledger = Append(a.ledger, e)
  BY <1>1, CompleteType
<1>. QED BY <1>6, <1>7 DEF Staged

LEMMA AbortStaged ==
    ASSUME NEW a \in Runtime!AuthorityState, NEW r \in Runs, Runtime!CanAbort(a, r)
    PROVE  Staged(a, Runtime!AfterAbort(a, r))
<1>1. RuntimeStep(a, Runtime!AfterAbort(a, r))
  BY DEF RuntimeStep
<1>. QED BY <1>1, AbortType DEF Staged

-----------------------------------------------------------------------------
(* The sums of the account.                                                *)

\* The terms of the sums: what prepared runs hold, what ledger entries charge.
CostsOf(S) == [p \in S |-> p.cost]
Charge(e) == IF e.kind \in Runtime!Finished THEN e.cost ELSE 0
ChargesOf(l) == [i \in DOMAIN l |-> Charge(l[i])]

Holding(S) == SumFunctionOnSet(CostsOf(S), S)
Charged(l) == SumFunctionOnSet(ChargesOf(l), DOMAIN l)

\* The operators of the model fold their terms as SumFunctionOnSet does.
LEMMA ReservedSum ==
    ASSUME NEW a, IsFiniteSet(a.reserved)
    PROVE  Runtime!Reserved(a) = Holding(a.reserved)
<1>. DEFINE S == a.reserved
            f == CostsOf(S)
            P(g) == g = [s \in SUBSET S |->
                          IF s = {} THEN 0 ELSE Chosen(s).cost + g[s \ {Chosen(s)}]]
            iter == CHOOSE g : P(g)
<1>1. Runtime!Reserved(a) = iter[S]
  BY DEF Runtime!Reserved, Runtime!MapThenSumSet, Runtime!MapThenFoldSet, Chosen
<1>2. ASSUME NEW g PROVE P(g) <=> Adds(g, f, S)
  <2>1. ASSUME NEW s \in SUBSET S
        PROVE Term(f, g, s) = IF s = {} THEN 0 ELSE Chosen(s).cost + g[s \ {Chosen(s)}]
    <3>1. s # {} => Chosen(s) \in S
      BY ChosenIn
    <3>. QED BY <3>1 DEF Term, CostsOf
  <2>. QED BY <2>1 DEF Adds
<1>3. Adds(iter, f, S)
  BY <1>2, AddsExists
<1>4. PICK g : Adds(g, f, S) /\ SumFunctionOnSet(f, S) = g[S]
  BY SumAdds
<1>5. g[S] = iter[S]
  <2>. HIDE DEF S, iter
  <2>1. S \in SUBSET S /\ IsFiniteSet(S)
    BY DEF S
  <2>. QED BY <2>1, <1>3, <1>4, AddsAgree
<1>. QED BY <1>1, <1>4, <1>5 DEF Holding

Prepared(l) == {[run |-> e.run, cost |-> e.cost] : e \in Runtime!Unfinished(l)}

LEMMA AuditedSum ==
    ASSUME NEW a, IsFiniteSet(DOMAIN a.ledger)
    PROVE  Runtime!Audited(a) <=> /\ a.spent = Charged(a.ledger)
                                  /\ a.reserved = Prepared(a.ledger)
                                  /\ a.active = a.reserved
<1>. DEFINE l == a.ledger
            S == DOMAIN l
            f == ChargesOf(l)
            P(g) == g = [s \in SUBSET S |->
                          IF s = {} THEN 0
                          ELSE (IF l[Chosen(s)].kind \in Runtime!Finished THEN l[Chosen(s)].cost ELSE 0)
                                  + g[s \ {Chosen(s)}]]
            iter == CHOOSE g : P(g)
<1>1. Runtime!Audited(a) <=> /\ a.spent = iter[S]
                             /\ a.reserved = Prepared(a.ledger)
                             /\ a.active = a.reserved
  BY DEF Runtime!Audited, Runtime!MapThenSumSet, Runtime!MapThenFoldSet, Chosen, Prepared
<1>2. ASSUME NEW g PROVE P(g) <=> Adds(g, f, S)
  <2>1. ASSUME NEW s \in SUBSET S
        PROVE Term(f, g, s) =
                  IF s = {} THEN 0
                  ELSE (IF l[Chosen(s)].kind \in Runtime!Finished THEN l[Chosen(s)].cost ELSE 0)
                          + g[s \ {Chosen(s)}]
    <3>1. s # {} => Chosen(s) \in S
      BY ChosenIn
    <3>. QED BY <3>1 DEF Term, ChargesOf, Charge
  <2>. QED BY <2>1 DEF Adds
<1>3. Adds(iter, f, S)
  <2>1. PICK g : Adds(g, f, S)
    BY AddsExists
  <2>2. P(g)
    BY <1>2, <2>1
  <2>. HIDE DEF P
  <2>3. P(iter)
    BY <2>2
  <2>. QED BY <1>2, <2>3
<1>4. PICK g : Adds(g, f, S) /\ SumFunctionOnSet(f, S) = g[S]
  BY SumAdds
<1>5. g[S] = iter[S]
  <2>. HIDE DEF S, iter
  <2>1. S \in SUBSET S /\ IsFiniteSet(S)
    BY DEF S
  <2>. QED BY <2>1, <1>3, <1>4, AddsAgree
<1>6. iter[S] = Charged(a.ledger)
  BY <1>4, <1>5 DEF Charged
<1>. HIDE DEF iter, S
<1>. QED BY <1>1, <1>6

-----------------------------------------------------------------------------
(* One run more, one run less, one entry more.                             *)

LEMMA HoldingType ==
    ASSUME NEW S \in SUBSET Runtime!PreparedRun, IsFiniteSet(S)
    PROVE  Holding(S) \in Nat
<1>1. \A p \in S : CostsOf(S)[p] \in Nat
  BY PreparedRunType DEF CostsOf
<1>. QED BY <1>1, SumType DEF Holding

LEMMA HoldingWithout ==
    ASSUME NEW S \in SUBSET Runtime!PreparedRun, IsFiniteSet(S), NEW p \in S
    PROVE  Holding(S) = p.cost + Holding(S \ {p})
<1>1. \A q \in S : CostsOf(S)[q] \in Nat
  BY PreparedRunType DEF CostsOf
<1>2. SumFunctionOnSet(CostsOf(S), S) = CostsOf(S)[p] + SumFunctionOnSet(CostsOf(S), S \ {p})
  BY <1>1, SumWithout
<1>3. SumFunctionOnSet(CostsOf(S), S \ {p}) = SumFunctionOnSet(CostsOf(S \ {p}), S \ {p})
  <2>1. IsFiniteSet(S \ {p})
    BY FS_Subset
  <2>2. \A q \in S \ {p} : CostsOf(S)[q] = CostsOf(S \ {p})[q]
    BY DEF CostsOf
  <2>. QED BY <2>1, <2>2, SumSame
<1>4. CostsOf(S)[p] = p.cost
  BY DEF CostsOf
<1>. QED BY <1>2, <1>3, <1>4 DEF Holding

LEMMA LedgerFinite ==
    ASSUME NEW l \in Seq(Runtime!Event)
    PROVE  IsFiniteSet(DOMAIN l)
<1>1. DOMAIN l = 1 .. Len(l) /\ Len(l) \in Nat
  OBVIOUS
<1>. QED BY <1>1, FS_Interval

LEMMA ChargedAppend ==
    ASSUME NEW l \in Seq(Runtime!Event), NEW e \in Runtime!Event
    PROVE  Charged(Append(l, e)) = Charged(l) + Charge(e)
<1>. DEFINE m == Append(l, e)
            n == Len(l) + 1
<1>1. /\ m \in Seq(Runtime!Event) /\ n \in Nat
      /\ DOMAIN l = 1 .. Len(l) /\ DOMAIN m = 1 .. n
      /\ m[n] = e /\ \A i \in DOMAIN l : m[i] = l[i] /\ l[i] \in Runtime!Event
  OBVIOUS
<1>0. n \in DOMAIN m /\ DOMAIN m \ {n} = DOMAIN l
  <2>1. Len(l) \in Nat
    OBVIOUS
  <2>. HIDE DEF m
  <2>. QED BY <1>1, <2>1
<1>2. IsFiniteSet(DOMAIN l) /\ IsFiniteSet(DOMAIN m)
  BY <1>1, LedgerFinite
<1>3. \A x \in Runtime!Event : Charge(x) \in Nat
  BY DEF Charge, Runtime!Event
<1>. HIDE DEF m, n
<1>4. \A i \in DOMAIN m : m[i] \in Runtime!Event
  BY <1>0, <1>1
<1>5. /\ \A i \in DOMAIN m : ChargesOf(m)[i] \in Nat
      /\ \A i \in DOMAIN l : ChargesOf(l)[i] \in Nat
      /\ \A i \in DOMAIN l : ChargesOf(m)[i] = ChargesOf(l)[i]
      /\ ChargesOf(m)[n] = Charge(e)
  BY <1>0, <1>1, <1>3, <1>4 DEF ChargesOf
<1>6. Charged(m) = Charge(e) + SumFunctionOnSet(ChargesOf(m), DOMAIN l)
  <2>1. SumFunctionOnSet(ChargesOf(m), DOMAIN m) =
            ChargesOf(m)[n] + SumFunctionOnSet(ChargesOf(m), DOMAIN m \ {n})
    BY <1>0, <1>2, <1>5, SumWithout
  <2>. QED BY <1>0, <1>5, <2>1 DEF Charged
<1>7. SumFunctionOnSet(ChargesOf(m), DOMAIN l) = Charged(l)
  BY <1>2, <1>5, SumSame DEF Charged
<1>8. Charged(l) \in Nat /\ Charge(e) \in Nat
  BY <1>2, <1>3, <1>5, SumType DEF Charged
<1>9. Charged(m) = Charged(l) + Charge(e)
  BY <1>6, <1>7, <1>8
<1>. QED BY <1>9 DEF m

-----------------------------------------------------------------------------
(* The last entry of a run.                                                *)

\* The last of some positions of a ledger.
LEMMA LastExists ==
    ASSUME NEW n \in Nat, NEW I \in SUBSET (1 .. n), I # {}
    PROVE  \E i \in I : \A j \in I : j <= i
<1>. DEFINE After(i) == {k \in 1 .. n : k > i}
            Tails == {After(i) : i \in I}
<1>1. Tails \in SUBSET (SUBSET (1 .. n)) /\ Tails # {}
  OBVIOUS
<1>0. IsFiniteSet(1 .. n)
  BY FS_Interval
<1>. HIDE DEF Tails
<1>2. PICK s \in Tails : \A t \in SUBSET s : t # s => t \notin Tails
  BY <1>0, <1>1, MinimalSubset
<1>3. PICK i \in I : s = After(i)
  BY <1>2 DEF Tails
<1>4. ASSUME NEW j \in I PROVE j <= i
  <2>1. SUFFICES ASSUME j > i PROVE FALSE
    OBVIOUS
  <2>2. After(j) \in SUBSET s /\ j \in s /\ j \notin After(j)
    BY <1>3, <2>1
  <2>3. After(j) \in Tails
    BY DEF Tails
  <2>. HIDE DEF After
  <2>. QED BY <1>2, <2>2, <2>3
<1>. QED BY <1>4

LEMMA LastOfIs ==
    ASSUME NEW l \in Seq(Runtime!Event), NEW i \in DOMAIN l
    PROVE  LET k == Runtime!LastOf(l, l[i].run)
           IN k \in DOMAIN l /\ l[k].run = l[i].run /\ \A j \in DOMAIN l : l[j].run = l[i].run => j <= k
<1>. DEFINE I == {j \in 1 .. Len(l) : l[j].run = l[i].run}
<1>1. DOMAIN l = 1 .. Len(l) /\ Len(l) \in Nat
  OBVIOUS
<1>2. i \in I /\ I \in SUBSET (1 .. Len(l))
  BY <1>1
<1>3. PICK k \in I : \A j \in I : j <= k
  BY <1>1, <1>2, LastExists
<1>4. \E k_1 \in DOMAIN l : l[k_1].run = l[i].run /\ \A j \in DOMAIN l : l[j].run = l[i].run => j <= k_1
  BY <1>1, <1>3
<1>. QED BY <1>4 DEF Runtime!LastOf

\* A run is unfinished when it was prepared and no later entry names it.
LEMMA UnfinishedIs ==
    ASSUME NEW l \in Seq(Runtime!Event), NEW e
    PROVE  e \in Runtime!Unfinished(l) <=>
               \E i \in DOMAIN l :
                   /\ e = l[i] /\ e.kind = "prepared"
                   /\ \A j \in DOMAIN l : l[j].run = e.run => j <= i
<1>1. DOMAIN l = 1 .. Len(l) /\ Len(l) \in Nat
  OBVIOUS
<1>2. ASSUME e \in Runtime!Unfinished(l)
      PROVE  \E i \in DOMAIN l :
                 /\ e = l[i] /\ e.kind = "prepared"
                 /\ \A j \in DOMAIN l : l[j].run = e.run => j <= i
  <2>1. PICK m \in DOMAIN l : e = l[m] /\ e.kind = "prepared" /\ l[Runtime!LastOf(l, e.run)] = e
    BY <1>2 DEF Runtime!Unfinished
  <2>. QED BY <2>1, LastOfIs
<1>3. ASSUME NEW i \in DOMAIN l, e = l[i], e.kind = "prepared",
             \A j \in DOMAIN l : l[j].run = e.run => j <= i
      PROVE  e \in Runtime!Unfinished(l)
  <2>. DEFINE k == Runtime!LastOf(l, e.run)
  <2>1. k \in DOMAIN l /\ l[k].run = e.run /\ i <= k
    BY <1>3, LastOfIs
  <2>2. k = i
    BY <1>1, <1>3, <2>1
  <2>. QED BY <1>3, <2>2 DEF Runtime!Unfinished
<1>. QED BY <1>2, <1>3

LEMMA UnfinishedAppend ==
    ASSUME NEW l \in Seq(Runtime!Event), NEW e \in Runtime!Event
    PROVE  Runtime!Unfinished(Append(l, e)) =
               {u \in Runtime!Unfinished(l) : u.run # e.run} \cup
               (IF e.kind = "prepared" THEN {e} ELSE {})
<1>. DEFINE m == Append(l, e)
            n == Len(l) + 1
<1>1. /\ m \in Seq(Runtime!Event) /\ n \in Nat
      /\ DOMAIN l = 1 .. Len(l) /\ DOMAIN m = 1 .. n /\ Len(l) \in Nat
      /\ m[n] = e /\ \A i \in DOMAIN l : m[i] = l[i] /\ l[i] \in Runtime!Event
  OBVIOUS
<1>2. /\ \A i \in DOMAIN m : i \in DOMAIN l \/ i = n
      /\ \A i \in DOMAIN l : i \in DOMAIN m /\ i < n /\ ~(n <= i)
      /\ \A i \in DOMAIN m : i <= n
      /\ n \in DOMAIN m
  BY <1>1
<1>. HIDE DEF m, n
<1>3. ASSUME NEW u
      PROVE  u \in Runtime!Unfinished(m) <=>
                 \/ u \in Runtime!Unfinished(l) /\ u.run # e.run
                 \/ e.kind = "prepared" /\ u = e
  <2>1. ASSUME NEW i \in DOMAIN m, u = m[i], u.kind = "prepared",
               \A j \in DOMAIN m : m[j].run = u.run => j <= i
        PROVE  \/ u \in Runtime!Unfinished(l) /\ u.run # e.run
               \/ e.kind = "prepared" /\ u = e
    <3>1. CASE i = n
      BY <1>1, <2>1, <3>1
    <3>2. CASE i \in DOMAIN l
      <4>1. u.run # e.run
        BY <1>1, <1>2, <2>1, <3>2
      <4>2. u = l[i] /\ \A j \in DOMAIN l : l[j].run = u.run => j <= i
        BY <1>1, <1>2, <2>1, <3>2
      <4>3. u \in Runtime!Unfinished(l)
        BY <2>1, <3>2, <4>2, UnfinishedIs
      <4>. QED BY <4>1, <4>3
    <3>. QED BY <1>2, <3>1, <3>2
  <2>2. ASSUME u \in Runtime!Unfinished(l), u.run # e.run
        PROVE  u \in Runtime!Unfinished(m)
    <3>1. PICK i \in DOMAIN l : /\ u = l[i] /\ u.kind = "prepared"
                                /\ \A j \in DOMAIN l : l[j].run = u.run => j <= i
      BY <2>2, UnfinishedIs
    <3>2. u = m[i] /\ i \in DOMAIN m /\ \A j \in DOMAIN m : m[j].run = u.run => j <= i
      BY <1>1, <1>2, <2>2, <3>1
    <3>. QED BY <1>1, <3>1, <3>2, UnfinishedIs
  <2>3. ASSUME e.kind = "prepared", u = e
        PROVE  u \in Runtime!Unfinished(m)
    <3>1. u = m[n] /\ \A j \in DOMAIN m : m[j].run = u.run => j <= n
      BY <1>1, <1>2, <2>3
    <3>. QED BY <1>1, <1>2, <2>3, <3>1, UnfinishedIs
  <2>4. u \in Runtime!Unfinished(m) =>
            \E i \in DOMAIN m : /\ u = m[i] /\ u.kind = "prepared"
                                /\ \A j \in DOMAIN m : m[j].run = u.run => j <= i
    BY <1>1, UnfinishedIs
  <2>. QED BY <2>1, <2>2, <2>3, <2>4
<1>4. Runtime!Unfinished(m) =
          {u \in Runtime!Unfinished(l) : u.run # e.run} \cup
          (IF e.kind = "prepared" THEN {e} ELSE {})
  BY <1>3
<1>. QED BY <1>4 DEF m

LEMMA PreparedAppend ==
    ASSUME NEW l \in Seq(Runtime!Event), NEW e \in Runtime!Event
    PROVE  Prepared(Append(l, e)) =
               Runtime!Without(Prepared(l), e.run) \cup
               (IF e.kind = "prepared" THEN {[run |-> e.run, cost |-> e.cost]} ELSE {})
BY UnfinishedAppend DEF Prepared, Runtime!Without

\* A run holds one reservation at most.
LEMMA PreparedOnce ==
    ASSUME NEW l \in Seq(Runtime!Event), NEW p \in Prepared(l), NEW q \in Prepared(l), p.run = q.run
    PROVE  p = q
<1>1. PICK d \in Runtime!Unfinished(l) : p = [run |-> d.run, cost |-> d.cost]
  BY DEF Prepared
<1>2. PICK e \in Runtime!Unfinished(l) : q = [run |-> e.run, cost |-> e.cost]
  BY DEF Prepared
<1>3. d = e
  BY <1>1, <1>2 DEF Runtime!Unfinished
<1>. QED BY <1>1, <1>2, <1>3

-----------------------------------------------------------------------------
(* A transition of an account that is right leads to one that is right.    *)

Sound(a) ==
    /\ IsFiniteSet(a.reserved)
    /\ Runtime!WithinBudget(a)
    /\ Runtime!Audited(a)

\* What Sound says, with the sums of the library.
LEMMA SoundMeans ==
    ASSUME NEW a \in Runtime!AuthorityState
    PROVE  Sound(a) <=> /\ IsFiniteSet(a.reserved)
                        /\ a.spent + Holding(a.reserved) <= Limit
                        /\ a.spent = Charged(a.ledger)
                        /\ a.reserved = Prepared(a.ledger)
                        /\ a.active = a.reserved
<1>1. IsFiniteSet(DOMAIN a.ledger)
  BY LedgerFinite DEF Runtime!AuthorityState
<1>2. IsFiniteSet(a.reserved) => Runtime!Reserved(a) = Holding(a.reserved)
  BY ReservedSum
<1>. QED BY <1>1, <1>2, AuditedSum DEF Sound, Runtime!WithinBudget

LEMMA StateParts ==
    ASSUME NEW a \in Runtime!AuthorityState
    PROVE  /\ a.spent \in Nat /\ a.reserved \in SUBSET Runtime!PreparedRun
           /\ a.active \in SUBSET Runtime!PreparedRun /\ a.ledger \in Seq(Runtime!Event)
BY DEF Runtime!AuthorityState

LEMMA NewSound == Sound(Runtime!New)
<1>. DEFINE a == Runtime!New
<1>1. a.spent = 0 /\ a.reserved = {} /\ a.active = {} /\ a.ledger = << >>
  BY DEF Runtime!New
<1>2. Holding({}) = 0 /\ IsFiniteSet({})
  BY SumEmpty, FS_EmptySet DEF Holding
<1>3. Charged(<< >>) = 0
  <2>1. DOMAIN << >> = {}
    OBVIOUS
  <2>. QED BY <2>1, SumEmpty DEF Charged
<1>4. Prepared(<< >>) = {}
  BY DEF Prepared, Runtime!Unfinished
<1>5. 0 <= Limit /\ Limit \in Nat
  BY AuthorityConstants
<1>6. a \in Runtime!AuthorityState
  BY NewState
<1>. HIDE DEF a
<1>7. a.spent + Holding(a.reserved) <= Limit
  BY <1>1, <1>2, <1>5
<1>8. Sound(a)
  BY <1>1, <1>2, <1>3, <1>4, <1>6, <1>7, SoundMeans
<1>. QED BY <1>8 DEF a

LEMMA PrepareSound ==
    ASSUME NEW a \in Runtime!AuthorityState, Sound(a), NEW p \in Runtime!PreparedRun,
           Runtime!CanPrepare(a, p)
    PROVE  Sound(Runtime!AfterPrepare(a, p))
<1>. DEFINE b == Runtime!AfterPrepare(a, p)
            e == Runtime!Entry("prepared", p.run, p.cost)
<1>1. b \in Runtime!AuthorityState /\ b.ledger = Append(a.ledger, e) /\ e \in Runtime!Event
  BY PrepareType
<1>2. /\ b.spent = a.spent /\ b.reserved = a.reserved \cup {p} /\ b.active = a.active \cup {p}
  BY DEF Runtime!AfterPrepare, Runtime!AuthorityState
<1>3. e.run = p.run /\ e.cost = p.cost /\ e.kind = "prepared"
  BY DEF Runtime!Entry
<1>. HIDE DEF b, e
<1>4. /\ IsFiniteSet(a.reserved) /\ a.spent + Holding(a.reserved) <= Limit
      /\ a.spent = Charged(a.ledger) /\ a.reserved = Prepared(a.ledger) /\ a.active = a.reserved
  BY SoundMeans
<1>5. IsFiniteSet(b.reserved)
  <2>1. IsFiniteSet(a.reserved \cup {p})
    BY <1>4, FS_AddElement
  <2>. QED BY <1>2, <2>1
<1>6. p \notin a.reserved /\ Runtime!Without(a.reserved, p.run) = a.reserved
  BY DEF Runtime!CanPrepare, Runtime!Has, Runtime!Without
<1>7. b.spent + Holding(b.reserved) <= Limit
  <2>1. b.reserved \in SUBSET Runtime!PreparedRun /\ p \in b.reserved /\ b.reserved \ {p} = a.reserved
    BY <1>1, <1>2, <1>6, StateParts
  <2>2. Holding(b.reserved) = p.cost + Holding(a.reserved)
    BY <1>5, <2>1, HoldingWithout
  <2>3. p.cost <= Limit - a.spent - Holding(a.reserved)
    BY <1>4, ReservedSum DEF Runtime!CanPrepare, Runtime!Available
  <2>4. Holding(a.reserved) \in Nat /\ p.cost \in Nat /\ a.spent \in Nat /\ Limit \in Nat
    BY <1>4, StateParts, HoldingType, PreparedRunType, AuthorityConstants
  <2>. QED BY <1>2, <2>2, <2>3, <2>4
<1>8. b.spent = Charged(b.ledger)
  <2>1. Charge(e) = 0
    BY <1>3 DEF Charge, Runtime!Finished
  <2>2. Charged(b.ledger) = Charged(a.ledger) + Charge(e)
    BY <1>1, StateParts, ChargedAppend
  <2>3. a.spent \in Nat
    BY StateParts
  <2>. QED BY <1>2, <1>4, <2>1, <2>2, <2>3
<1>9. b.reserved = Prepared(b.ledger)
  <2>1. p = [run |-> p.run, cost |-> p.cost]
    BY DEF Runtime!PreparedRun
  <2>2. Prepared(b.ledger) = Runtime!Without(Prepared(a.ledger), e.run) \cup
               (IF e.kind = "prepared" THEN {[run |-> e.run, cost |-> e.cost]} ELSE {})
    BY <1>1, StateParts, PreparedAppend
  <2>. QED BY <1>2, <1>3, <1>4, <1>6, <2>1, <2>2
<1>10. b.active = b.reserved
  BY <1>2, <1>4
<1>11. Sound(b)
  BY <1>1, <1>5, <1>7, <1>8, <1>9, <1>10, SoundMeans
<1>. QED BY <1>11 DEF b

\* complete and abort: what they have in common.  The run's reservation goes, what
\* is charged is at most that, and the entry says how much it is.
LEMMA FinishSound ==
    ASSUME NEW a \in Runtime!AuthorityState, Sound(a), NEW b \in Runtime!AuthorityState,
           NEW e \in Runtime!Event, e.kind \in Runtime!Finished,
           NEW q \in a.reserved, q.run = e.run, e.cost <= q.cost,
           b.ledger = Append(a.ledger, e), b.spent = a.spent + e.cost,
           b.reserved = Runtime!Without(a.reserved, e.run),
           b.active = Runtime!Without(a.active, e.run)
    PROVE  Sound(b)
<1>1. /\ IsFiniteSet(a.reserved) /\ a.spent + Holding(a.reserved) <= Limit
      /\ a.spent = Charged(a.ledger) /\ a.reserved = Prepared(a.ledger) /\ a.active = a.reserved
  BY SoundMeans
<1>2. b.reserved = a.reserved \ {q}
  BY <1>1, StateParts, PreparedOnce DEF Runtime!Without
<1>3. IsFiniteSet(b.reserved)
  BY <1>1, <1>2, FS_Subset
<1>4. b.spent + Holding(b.reserved) <= Limit
  <2>1. Holding(a.reserved) = q.cost + Holding(b.reserved)
    BY <1>1, <1>2, StateParts, HoldingWithout
  <2>2. /\ Holding(b.reserved) \in Nat /\ a.spent \in Nat /\ Limit \in Nat
        /\ q.cost \in Nat /\ e.cost \in Nat
    BY <1>3, StateParts, HoldingType, PreparedRunType, AuthorityConstants DEF Runtime!Event
  <2>. QED BY <1>1, <2>1, <2>2
<1>5. b.spent = Charged(b.ledger)
  <2>1. Charge(e) = e.cost
    BY DEF Charge
  <2>. QED BY <1>1, <2>1, StateParts, ChargedAppend
<1>6. b.reserved = Prepared(b.ledger)
  <2>1. e.kind # "prepared"
    BY DEF Runtime!Finished
  <2>. QED BY <1>1, <2>1, StateParts, PreparedAppend
<1>7. b.active = b.reserved
  BY <1>1
<1>. QED BY <1>3, <1>4, <1>5, <1>6, <1>7, SoundMeans

LEMMA StepSound ==
    ASSUME NEW a \in Runtime!AuthorityState, Sound(a), NEW b, RuntimeStep(a, b)
    PROVE  Sound(b)
<1>1. ASSUME NEW p \in Runtime!PreparedRun, Runtime!CanPrepare(a, p), b = Runtime!AfterPrepare(a, p)
      PROVE  Sound(b)
  BY <1>1, PrepareSound
<1>2. ASSUME NEW p \in a.reserved, NEW c \in 0 .. p.cost, NEW ok \in BOOLEAN,
             b = Runtime!AfterComplete(a, p.run, c, ok)
      PROVE  Sound(b)
  <2>. DEFINE k == IF ok THEN "released" ELSE "rejected"
              e == Runtime!Entry(k, p.run, c)
  <2>1. p \in Runtime!PreparedRun /\ p.run \in Runs /\ p.cost \in Nat
    BY StateParts, PreparedRunType
  <2>2. c \in Nat /\ c <= p.cost
    BY <2>1
  <2>3. b \in Runtime!AuthorityState /\ b.ledger = Append(a.ledger, e) /\ e \in Runtime!Event
    BY <1>2, <2>1, <2>2, CompleteType
  <2>4. e.kind \in Runtime!Finished /\ e.run = p.run /\ e.cost = c
    BY DEF Runtime!Entry, Runtime!Finished
  <2>5. /\ b.spent = a.spent + c /\ b.reserved = Runtime!Without(a.reserved, p.run)
        /\ b.active = Runtime!Without(a.active, p.run)
    BY <1>2 DEF Runtime!AfterComplete, Runtime!AuthorityState
  <2>. HIDE DEF e
  <2>. QED BY <2>2, <2>3, <2>4, <2>5, FinishSound
<1>3. ASSUME NEW r \in Runs, Runtime!CanAbort(a, r), b = Runtime!AfterAbort(a, r)
      PROVE  Sound(b)
  <2>. DEFINE e == Runtime!Entry("aborted", r, 0)
  <2>1. b \in Runtime!AuthorityState /\ b.ledger = Append(a.ledger, e) /\ e \in Runtime!Event
    BY <1>3, AbortType
  <2>2. e.kind \in Runtime!Finished /\ e.run = r /\ e.cost = 0
    BY DEF Runtime!Entry, Runtime!Finished
  <2>3. /\ b.spent = a.spent /\ b.reserved = Runtime!Without(a.reserved, r)
        /\ b.active = Runtime!Without(a.active, r)
    BY <1>3 DEF Runtime!AfterAbort, Runtime!AuthorityState
  <2>4. PICK q \in a.reserved : q.run = r
    BY <1>3 DEF Runtime!CanAbort, Runtime!Has
  <2>5. q.cost \in Nat /\ a.spent \in Nat
    BY <2>4, StateParts, PreparedRunType
  <2>. HIDE DEF e
  <2>6. e.cost <= q.cost /\ b.spent = a.spent + e.cost
    BY <2>2, <2>3, <2>5
  <2>. QED BY <2>1, <2>2, <2>3, <2>4, <2>6, FinishSound
<1>. QED BY <1>1, <1>2, <1>3 DEF RuntimeStep

-----------------------------------------------------------------------------
(* The inductive invariant: every account of the deployment is right and   *)
(* stands in the event table, so it is known by how long its ledger is.    *)

Account(a) == a \in Runtime!AuthorityState /\ Sound(a) /\ Recorded(a)

\* A version is the length of a ledger, here and in every replica.
Accounts ==
    /\ Account(newest) /\ events = newest.ledger
    /\ Account(snapshot) /\ version = Len(snapshot.ledger)
    /\ ~setBack => snapshot = newest
    /\ \A g \in Replicas : Account(memory[g]) /\ known[g] = Len(memory[g].ledger)
    /\ \A g \in Replicas : pending[g] # Nothing =>
          Account(pending[g].memory) /\ Len(pending[g].memory.ledger) = known[g] + 1

\* prepare_run may go on with a run.
Prepares(a, p) == Runtime!CanPrepare(a, p)

\* Replicas that save run, and do one thing at a time.
Saving ==
    \A g \in Replicas :
        /\ pending[g] # Nothing => g \in up
        /\ opening[g] # Nothing =>
              g \in up /\ pending[g] = Nothing /\ Prepares(memory[g], opening[g])

\* A receipt on its way to a client is stored.
RepliesStored ==
    \A g \in Replicas : pending[g] # Nothing /\ pending[g].receipt # NoReceipt =>
        receipts[pending[g].receipt.run] = pending[g].receipt

AuthorityInv ==
    AuthorityTypeOK /\ Accounts /\ Saving /\ RepliesStored /\ AnswersStored /\ ReleasedOnce

LEMMA InitAuthority == AuthorityInit => AuthorityInv
<1>. SUFFICES ASSUME AuthorityInit PROVE AuthorityInv
  OBVIOUS
<1>1. AuthorityTypeOK
  <2>1. /\ version \in Nat /\ snapshot \in Runtime!AuthorityState /\ newest \in Runtime!AuthorityState
        /\ events \in Seq(Runtime!Event) /\ up \subseteq Replicas /\ answered \subseteq Receipt
        /\ setBack \in BOOLEAN
    <3>1. version = 0 /\ up = {} /\ answered = {} /\ setBack = FALSE /\ events = << >>
      BY DEF AuthorityInit
    <3>2. << >> \in Seq(Runtime!Event)
      OBVIOUS
    <3>3. snapshot = Runtime!New /\ newest = Runtime!New
      BY DEF AuthorityInit
    <3>4. version \in Nat /\ setBack \in BOOLEAN /\ up \subseteq Replicas /\ answered \subseteq Receipt
      BY <3>1
    <3>. QED BY <3>1, <3>2, <3>3, <3>4, NewState
  <2>2. /\ receipts \in [Runs -> Receipt \cup {NoReceipt}]
        /\ memory \in [Replicas -> Runtime!AuthorityState] /\ known \in [Replicas -> Nat]
    BY NewState DEF AuthorityInit
  <2>3. /\ working \in [Replicas -> SUBSET Runtime!PreparedRun]
        /\ opening \in [Replicas -> Runtime!PreparedRun \cup {Nothing}]
        /\ pending \in [Replicas -> SavesPending \cup {Nothing}]
    BY DEF AuthorityInit
  <2>. QED BY <2>1, <2>2, <2>3 DEF AuthorityTypeOK
<1>2. Runtime!New.ledger = << >>
  BY DEF Runtime!New
<1>3. Account(Runtime!New)
  BY <1>2, NewState, NewSound DEF Account, Recorded, AuthorityInit
<1>4. Accounts
  BY <1>2, <1>3 DEF AuthorityInit, Accounts
<1>5. Saving /\ RepliesStored /\ AnswersStored /\ ReleasedOnce
  BY DEF AuthorityInit, Saving, RepliesStored, AnswersStored, ReleasedOnce
<1>. QED BY <1>1, <1>4, <1>5 DEF AuthorityInv

LEMMA SeqIsFunction ==
    ASSUME NEW S, NEW s \in Seq(S)
    PROVE  s = [i \in 1 .. Len(s) |-> s[i]]
OBVIOUS

\* An account that is right is what its ledger says: there are no two of a ledger.
LEMMA LedgerTells ==
    ASSUME NEW a \in Runtime!AuthorityState, NEW b \in Runtime!AuthorityState,
           Sound(a), Sound(b), a.ledger = b.ledger
    PROVE  a = b
<1>1. a.spent = b.spent /\ a.reserved = b.reserved /\ a.active = b.active
  BY SoundMeans
<1>. QED BY <1>1 DEF Runtime!AuthorityState

LEMMA AccountParts ==
    ASSUME NEW a, Account(a), events \in Seq(Runtime!Event)
    PROVE  /\ a \in Runtime!AuthorityState /\ Sound(a)
           /\ a.ledger \in Seq(Runtime!Event) /\ Len(a.ledger) \in Nat
           /\ Len(a.ledger) <= Len(events)
           /\ \A i \in 1 .. Len(a.ledger) : events[i] = a.ledger[i]
<1>1. a \in Runtime!AuthorityState /\ Sound(a) /\ a.ledger \in Seq(Runtime!Event)
  BY StateParts DEF Account
<1>2. DOMAIN a.ledger = 1 .. Len(a.ledger) /\ Len(a.ledger) \in Nat
  BY <1>1
<1>3. DOMAIN events = 1 .. Len(events) /\ Len(events) \in Nat
  OBVIOUS
<1>4. 1 .. Len(a.ledger) \subseteq 1 .. Len(events)
  BY <1>2, <1>3 DEF Account, Recorded
<1>. QED BY <1>1, <1>2, <1>3, <1>4 DEF Account, Recorded

\* Two accounts of the table with ledgers of one length are the same account.
LEMMA SameAccount ==
    ASSUME NEW a, NEW b, Account(a), Account(b), Len(a.ledger) = Len(b.ledger),
           events \in Seq(Runtime!Event)
    PROVE  a = b
<1>1. a.ledger = b.ledger
  <2>1. a.ledger \in Seq(Runtime!Event) /\ b.ledger \in Seq(Runtime!Event)
    BY AccountParts
  <2>2. \A i \in 1 .. Len(a.ledger) : a.ledger[i] = b.ledger[i]
    BY AccountParts
  <2>3. /\ a.ledger = [i \in 1 .. Len(a.ledger) |-> a.ledger[i]]
        /\ b.ledger = [i \in 1 .. Len(a.ledger) |-> b.ledger[i]]
    BY <2>1, SeqIsFunction
  <2>. QED BY <2>2, <2>3
<1>. QED BY <1>1, AccountParts, LedgerTells

\* A replica whose version is current holds the stored account, and one that awaits
\* the reply to the latest save will.
LEMMA AccountsInSync == AuthorityInv => InSync
<1>. SUFFICES ASSUME AuthorityInv, NEW g \in up
              PROVE  /\ pending[g] = Nothing /\ known[g] = version => memory[g] = snapshot
                     /\ pending[g] # Nothing /\ known[g] + 1 = version => pending[g].memory = snapshot
  BY DEF InSync
<1>1. g \in Replicas /\ events \in Seq(Runtime!Event)
  BY DEF AuthorityInv, AuthorityTypeOK
<1>. QED BY <1>1, SameAccount DEF AuthorityInv, Accounts

LEMMA AccountsMatch == AuthorityInv => LedgerMatches
BY DEF AuthorityInv, AuthorityTypeOK, Accounts, Account, LedgerMatches

\* Appending the new events to the table gives the staged ledger.
LEMMA EventsAppended ==
    ASSUME NEW L \in Seq(Runtime!Event), NEW e \in Runtime!Event, events = L
    PROVE  EventsWith(Append(L, e)) = Append(L, e)
<1>. DEFINE M == Append(L, e)
<1>1. M \in Seq(Runtime!Event) /\ Len(M) = Len(L) + 1 /\ Len(L) \in Nat
  OBVIOUS
<1>2. DOMAIN L = 1 .. Len(L) /\ DOMAIN M = 1 .. Len(M)
  BY <1>1
<1>3. DOMAIN events \cup DOMAIN M = 1 .. Len(M)
  BY <1>1, <1>2
<1>4. \A i \in DOMAIN L : M[i] = L[i]
  BY <1>1, <1>2
<1>5. EventsWith(M) = [i \in 1 .. Len(M) |-> M[i]]
  BY <1>3, <1>4 DEF EventsWith
<1>6. M = [i \in 1 .. Len(M) |-> M[i]]
  BY <1>1, SeqIsFunction
<1>. QED BY <1>5, <1>6

\* A ledger that the table holds already adds nothing to it.
LEMMA EventsKept ==
    ASSUME events \in Seq(Runtime!Event), NEW l, DOMAIN l \subseteq DOMAIN events
    PROVE  EventsWith(l) = events
<1>1. DOMAIN events = 1 .. Len(events)
  OBVIOUS
<1>0. DOMAIN events \cup DOMAIN l = DOMAIN events
  OBVIOUS
<1>2. EventsWith(l) = [i \in 1 .. Len(events) |-> events[i]]
  BY <1>0, <1>1 DEF EventsWith
<1>. QED BY <1>2, SeqIsFunction

-----------------------------------------------------------------------------
(* The writes of save.                                                     *)

LEMMA ReceiptsType ==
    ASSUME receipts \in [Runs -> Receipt \cup {NoReceipt}], NEW x \in Receipt \cup {NoReceipt}
    PROVE  ReceiptsWith(x) \in [Runs -> Receipt \cup {NoReceipt}]
BY DEF ReceiptsWith, Receipt

\* A stored receipt stays, and a saved one is stored.
LEMMA ReceiptsGrow ==
    ASSUME receipts \in [Runs -> Receipt \cup {NoReceipt}],
           NEW x \in Receipt \cup {NoReceipt}, ReceiptAgrees(x)
    PROVE  /\ \A r \in Runs : receipts[r] # NoReceipt => ReceiptsWith(x)[r] = receipts[r]
           /\ x # NoReceipt => ReceiptsWith(x)[x.run] = x
<1>1. CASE x = NoReceipt
  BY <1>1 DEF ReceiptsWith
<1>2. CASE x # NoReceipt
  <2>1. x \in Receipt /\ x.run \in Runs
    BY <1>2 DEF Receipt
  <2>2. receipts[x.run] \in {NoReceipt, x}
    BY <1>2 DEF ReceiptAgrees
  <2>3. ReceiptsWith(x) = [receipts EXCEPT ![x.run] = x]
    BY <1>2, <2>1, <2>2 DEF ReceiptsWith
  <2>4. \A r \in Runs : receipts[r] # NoReceipt => ReceiptsWith(x)[r] = receipts[r]
    BY <2>1, <2>2, <2>3
  <2>. QED BY <2>1, <2>3, <2>4
<1>. QED BY <1>1, <1>2

\* A receipt is saved with the entry that releases its run, and names it.
Booked(l, x) ==
    IF x = NoReceipt THEN l[Len(l)].kind # "released"
    ELSE l[Len(l)] = Runtime!Entry("released", x.run, x.cost) /\ x.head = Len(l)

LEMMA LastAppended ==
    ASSUME NEW l \in Seq(Runtime!Event), NEW e \in Runtime!Event
    PROVE  Append(l, e)[Len(Append(l, e))] = e
OBVIOUS

\* Save of a staged transition with the receipt that goes with it.
WritesWith(g, staged, receipt, returns) ==
    /\ Staged(memory[g], staged)
    /\ Booked(staged.ledger, receipt)
    /\ Writes(g, staged, receipt, returns)

\* What is written goes on from the furthest account and is the furthest now, or is
\* an account whose events are all there.
LEMMA SaveStores ==
    ASSUME AuthorityInv, NEW g \in Replicas, NEW staged, NEW receipt, NEW returns,
           WritesWith(g, staged, receipt, returns)
    PROVE  /\ staged \in Runtime!AuthorityState /\ Sound(staged)
           /\ Len(staged.ledger) = known[g] + 1
           /\ \/ /\ memory[g] = newest /\ newest' = staged
                 /\ \E e \in Runtime!Event : events' = Append(events, e)
                 /\ events' = staged.ledger
              \/ /\ Account(staged) /\ Len(staged.ledger) <= Len(newest.ledger)
                 /\ newest' = newest /\ events' = events
<1>. DEFINE l == memory[g].ledger
<1>1. /\ Account(memory[g]) /\ known[g] = Len(l) /\ Account(newest) /\ events = newest.ledger
      /\ events \in Seq(Runtime!Event)
  BY DEF AuthorityInv, AuthorityTypeOK, Accounts
<1>2. /\ memory[g] \in Runtime!AuthorityState /\ Sound(memory[g])
      /\ l \in Seq(Runtime!Event) /\ Len(l) \in Nat /\ Len(l) <= Len(events)
  BY <1>1, AccountParts
<1>3. staged \in Runtime!AuthorityState /\ Sound(staged)
  BY <1>2, StepSound DEF WritesWith, Staged
<1>4. PICK e \in Runtime!Event : staged.ledger = Append(l, e)
  BY DEF WritesWith, Staged
<1>5. /\ staged.ledger \in Seq(Runtime!Event) /\ Len(staged.ledger) = Len(l) + 1
      /\ DOMAIN staged.ledger = 1 .. Len(l) + 1 /\ DOMAIN events = 1 .. Len(events)
      /\ Len(events) \in Nat
  BY <1>1, <1>2, <1>4
<1>6. /\ events' = EventsWith(staged.ledger) /\ EventsAgree(staged.ledger)
      /\ newest' = IF Len(staged.ledger) > Len(newest.ledger) THEN staged ELSE newest
  BY DEF WritesWith, Writes
<1>7. CASE Len(l) = Len(events)
  <2>1. memory[g] = newest
    BY <1>1, <1>7, SameAccount
  <2>2. newest' = staged
    <3>1. Len(newest.ledger) = Len(l)
      BY <1>1, <1>7
    <3>2. Len(staged.ledger) > Len(newest.ledger)
      BY <1>2, <1>5, <3>1
    <3>. QED BY <1>6, <3>2
  <2>3. l = events
    BY <1>1, <2>1
  <2>4. events' = Append(events, e)
    BY <1>1, <1>4, <1>6, <2>3, EventsAppended
  <2>. QED BY <1>1, <1>3, <1>4, <1>5, <2>1, <2>2, <2>3, <2>4
<1>8. CASE Len(l) # Len(events)
  <2>1. Len(staged.ledger) <= Len(events)
    BY <1>2, <1>5, <1>8
  <2>2. DOMAIN staged.ledger \subseteq DOMAIN events
    BY <1>2, <1>5, <2>1
  <2>3. Recorded(staged)
    BY <1>6, <2>2 DEF EventsAgree, Recorded
  <2>4. events' = events
    BY <1>1, <1>6, <2>2, EventsKept
  <2>5. newest' = newest
    <3>1. ~(Len(staged.ledger) > Len(newest.ledger))
      BY <1>1, <1>2, <1>5, <2>1
    <3>. QED BY <1>6, <3>1
  <2>. QED BY <1>1, <1>3, <1>5, <2>1, <2>3, <2>4, <2>5 DEF Account
<1>. QED BY <1>7, <1>8

LEMMA WritesType ==
    ASSUME AuthorityInv, NEW g \in Replicas, NEW staged,
           NEW receipt \in Receipt \cup {NoReceipt}, NEW returns \in SUBSET Runtime!PreparedRun,
           WritesWith(g, staged, receipt, returns),
           working' \in [Replicas -> SUBSET Runtime!PreparedRun],
           opening' \in [Replicas -> Runtime!PreparedRun \cup {Nothing}], setBack' \in BOOLEAN
    PROVE  AuthorityTypeOK'
<1>. USE DEF AuthorityInv, AuthorityTypeOK, WritesWith, Writes
<1>1. staged \in Runtime!AuthorityState /\ newest' \in Runtime!AuthorityState
  BY SaveStores
<1>2. staged.ledger \in Seq(Runtime!Event)
  BY <1>1, StateParts
<1>3. events' \in Seq(Runtime!Event)
  BY <1>2, SaveStores
<1>4. version' \in Nat
  OBVIOUS
<1>5. receipts' \in [Runs -> Receipt \cup {NoReceipt}]
  BY ReceiptsType
<1>6. [memory |-> staged, returns |-> returns, receipt |-> receipt] \in SavesPending
  BY <1>1 DEF SavesPending
<1>7. pending' \in [Replicas -> SavesPending \cup {Nothing}]
  BY <1>6
<1>. QED BY <1>1, <1>3, <1>4, <1>5, <1>7

\* What was in the table stays there.
LEMMA RecordedStays ==
    ASSUME events \in Seq(Runtime!Event), NEW a, Account(a),
           events' = events \/ \E e \in Runtime!Event : events' = Append(events, e)
    PROVE  a \in Runtime!AuthorityState /\ Sound(a) /\ DOMAIN a.ledger \subseteq DOMAIN events'
           /\ \A i \in DOMAIN a.ledger : events'[i] = a.ledger[i]
<1>1. \A i \in DOMAIN events : i \in DOMAIN events' /\ events'[i] = events[i]
  <2>1. CASE events' = events
    BY <2>1
  <2>2. ASSUME NEW e \in Runtime!Event, events' = Append(events, e)
        PROVE \A i \in DOMAIN events : i \in DOMAIN events' /\ events'[i] = events[i]
    <3>1. /\ DOMAIN events = 1 .. Len(events) /\ Len(events) \in Nat
          /\ DOMAIN Append(events, e) = 1 .. Len(events) + 1
          /\ \A i \in 1 .. Len(events) : Append(events, e)[i] = events[i]
      OBVIOUS
    <3>2. DOMAIN events \subseteq DOMAIN Append(events, e)
      BY <3>1
    <3>. QED BY <2>2, <3>1, <3>2
  <2>. QED BY <2>1, <2>2
<1>. QED BY <1>1 DEF Account, Recorded

LEMMA WritesAccounts ==
    ASSUME AuthorityInv, NEW g \in Replicas, NEW staged, NEW receipt, NEW returns,
           WritesWith(g, staged, receipt, returns),
           (setBack' = setBack /\ VersionCurrent(g)) \/ (setBack' = (setBack \/ version > 1))
    PROVE  Accounts'
<1>1. /\ snapshot' = staged /\ version' = known[g] + 1
      /\ pending'[g].memory = staged /\ memory' = memory /\ known' = known
      /\ \A h \in Replicas : h # g => pending'[h] = pending[h]
  BY DEF WritesWith, Writes, AuthorityInv, AuthorityTypeOK
<1>2. events \in Seq(Runtime!Event) /\ Accounts
  BY DEF AuthorityInv, AuthorityTypeOK
<1>3. staged \in Runtime!AuthorityState /\ Sound(staged) /\ Len(staged.ledger) = known[g] + 1
  BY SaveStores
<1>4. events' = events \/ \E e \in Runtime!Event : events' = Append(events, e)
  BY SaveStores
<1>5. ASSUME NEW a, Account(a)
      PROVE  /\ a \in Runtime!AuthorityState /\ Sound(a)
             /\ DOMAIN a.ledger \subseteq DOMAIN events'
             /\ \A i \in DOMAIN a.ledger : events'[i] = a.ledger[i]
  BY <1>2, <1>4, <1>5, RecordedStays
<1>6. /\ DOMAIN staged.ledger \subseteq DOMAIN events'
      /\ \A i \in DOMAIN staged.ledger : events'[i] = staged.ledger[i]
  BY <1>5, SaveStores
<1>7. /\ newest' \in Runtime!AuthorityState /\ Sound(newest') /\ events' = newest'.ledger
      /\ DOMAIN newest'.ledger \subseteq DOMAIN events'
      /\ \A i \in DOMAIN newest'.ledger : events'[i] = newest'.ledger[i]
  BY <1>2, <1>3, <1>5, <1>6, SaveStores DEF Accounts
<1>8. ~setBack' => staged = newest'
  <2>. SUFFICES ASSUME ~setBack', newest' # staged PROVE FALSE
    OBVIOUS
  <2>1. ~setBack /\ snapshot = newest /\ (VersionCurrent(g) \/ ~(version > 1))
    <3>1. setBack \in BOOLEAN
      BY DEF AuthorityInv, AuthorityTypeOK
    <3>2. ~setBack /\ (VersionCurrent(g) \/ ~(version > 1))
      <4>1. CASE setBack' = setBack /\ VersionCurrent(g)
        BY <4>1
      <4>2. CASE setBack' = (setBack \/ version > 1)
        <5>. HIDE DEF VersionCurrent
        <5>. QED BY <3>1, <4>2
      <4>. QED BY <4>1, <4>2
    <3>. QED BY <1>2, <3>2 DEF Accounts
  <2>2. /\ Account(staged) /\ Len(staged.ledger) <= Len(newest.ledger) /\ newest' = newest
    BY SaveStores
  <2>3. /\ version = Len(newest.ledger) /\ Account(newest) /\ Account(memory[g])
        /\ known[g] = Len(memory[g].ledger)
    BY <1>2, <2>1 DEF Accounts
  <2>4. version \in Nat /\ known[g] \in Nat
    BY DEF AuthorityInv, AuthorityTypeOK
  <2>5. CASE VersionCurrent(g)
    BY <1>3, <2>2, <2>3, <2>4, <2>5 DEF VersionCurrent
  <2>6. CASE ~(version > 1)
    <3>1. Len(staged.ledger) = Len(newest.ledger)
      BY <1>3, <2>2, <2>3, <2>4, <2>6
    <3>. QED BY <1>2, <2>2, <2>3, <3>1, SameAccount
  <2>. QED BY <2>1, <2>5, <2>6
<1>9. \A h \in Replicas : h # g /\ pending'[h] # Nothing =>
          Account(pending[h].memory) /\ Len(pending[h].memory.ledger) = known[h] + 1
  BY <1>1, <1>2 DEF Accounts
<1>. QED BY <1>1, <1>2, <1>3, <1>5, <1>6, <1>7, <1>8, <1>9 DEF Accounts, Account, Recorded

LEMMA WritesReplies ==
    ASSUME AuthorityInv, NEW g \in Replicas, NEW staged,
           NEW receipt \in Receipt \cup {NoReceipt}, NEW returns,
           WritesWith(g, staged, receipt, returns)
    PROVE  RepliesStored' /\ AnswersStored'
<1>1. /\ pending'[g] = [memory |-> staged, returns |-> returns, receipt |-> receipt]
      /\ \A h \in Replicas : h # g => pending'[h] = pending[h]
      /\ answered' = answered
  BY DEF WritesWith, Writes, AuthorityInv, AuthorityTypeOK
<1>2. /\ \A r \in Runs : receipts[r] # NoReceipt => receipts'[r] = receipts[r]
      /\ receipt # NoReceipt => receipts'[receipt.run] = receipt
  BY ReceiptsGrow DEF AuthorityInv, AuthorityTypeOK, WritesWith, Writes
<1>3. \A x \in Receipt : x.run \in Runs /\ x # NoReceipt
  BY AuthorityConstants DEF Receipt
<1>4. ASSUME NEW h \in Replicas, h # g, pending[h] # Nothing, pending[h].receipt # NoReceipt
      PROVE  receipts'[pending[h].receipt.run] = pending[h].receipt
  <2>1. pending[h].receipt \in Receipt
    BY <1>4 DEF AuthorityInv, AuthorityTypeOK, SavesPending
  <2>2. receipts[pending[h].receipt.run] = pending[h].receipt
    BY <1>4 DEF AuthorityInv, RepliesStored
  <2>. QED BY <2>1, <2>2, <1>2, <1>3
<1>5. \A x \in answered : x \in Receipt /\ receipts[x.run] = x
  BY DEF AuthorityInv, AuthorityTypeOK, AnswersStored
<1>. QED BY <1>1, <1>2, <1>3, <1>4, <1>5 DEF RepliesStored, AnswersStored

\* A receipt goes in once: the run has none, or the entry it names would be an
\* entry of the ledger already.
LEMMA WritesReleases ==
    ASSUME AuthorityInv, NEW g \in Replicas, NEW staged,
           NEW receipt \in Receipt \cup {NoReceipt}, NEW returns,
           WritesWith(g, staged, receipt, returns)
    PROVE  ReleasedOnce'
<1>1. Booked(staged.ledger, receipt) /\ ReleasedOnce
  BY DEF WritesWith, AuthorityInv
<1>2. \/ events' = staged.ledger /\ \E e \in Runtime!Event : events' = Append(events, e)
      \/ Account(staged) /\ events' = events
  BY SaveStores
<1>3. /\ events \in Seq(Runtime!Event)
      /\ receipts \in [Runs -> Receipt \cup {NoReceipt}]
  BY DEF AuthorityInv, AuthorityTypeOK
<1>4. receipts' = ReceiptsWith(receipt) /\ ReceiptAgrees(receipt)
  BY DEF WritesWith, Writes
<1>5. CASE events' = staged.ledger /\ \E e \in Runtime!Event : events' = Append(events, e)
  <2>1. PICK e \in Runtime!Event : events' = Append(events, e)
    BY <1>5
  <2>. DEFINE n == Len(events) + 1
  <2>2. /\ DOMAIN events = 1 .. Len(events) /\ DOMAIN events' = 1 .. n /\ Len(events) \in Nat
        /\ events'[n] = e /\ Len(events') = n
        /\ \A i \in DOMAIN events : events'[i] = events[i]
    BY <1>3, <2>1
  <2>3. /\ n \in DOMAIN events' /\ n \notin DOMAIN events
        /\ \A i \in DOMAIN events' : i \in DOMAIN events \/ i = n
        /\ \A i \in DOMAIN events : i \in DOMAIN events'
    <3>. HIDE <2>1
    <3>. QED BY <2>2
  <2>4. e.run \in Runs
    BY DEF Runtime!Event
  <2>5. \A i \in DOMAIN events : events[i].run \in Runs
    <3>1. \A x \in Runtime!Event : x.run \in Runs
      BY DEF Runtime!Event
    <3>2. \A i \in DOMAIN events : events[i] \in Runtime!Event
      BY <1>3
    <3>. QED BY <3>1, <3>2
  <2>. HIDE DEF n
  <2>6. CASE receipt = NoReceipt
    <3>1. e.kind # "released"
      BY <1>1, <1>5, <2>2, <2>6 DEF Booked
    <3>2. receipts' = receipts
      BY <1>4, <2>6 DEF ReceiptsWith
    <3>3. \A r \in Runs : receipts'[r] # NoReceipt =>
              /\ receipts'[r].head \in DOMAIN events'
              /\ events'[receipts'[r].head] = Runtime!Entry("released", r, receipts'[r].cost)
      BY <2>2, <2>3, <3>2, <1>1 DEF ReleasedOnce
    <3>4. \A i \in DOMAIN events' : events'[i].kind = "released" =>
              receipts'[events'[i].run] # NoReceipt /\ receipts'[events'[i].run].head = i
      BY <2>2, <2>3, <3>1, <3>2, <1>1 DEF ReleasedOnce
    <3>. QED BY <3>3, <3>4 DEF ReleasedOnce, Runtime!Entry
  <2>7. CASE receipt # NoReceipt
    <3>1. receipt \in Receipt /\ receipt.run \in Runs
      BY <2>7 DEF Receipt
    <3>2. e = Runtime!Entry("released", receipt.run, receipt.cost) /\ receipt.head = n
      BY <1>1, <1>5, <2>2, <2>7 DEF Booked
    <3>3. e.run = receipt.run /\ e.kind = "released"
      BY <3>2 DEF Runtime!Entry
    <3>4. receipts[receipt.run] \in {NoReceipt, receipt}
      BY <1>4, <2>7 DEF ReceiptAgrees
    <3>5. receipts[receipt.run] = NoReceipt
      BY <2>3, <2>7, <3>1, <3>2, <3>4, <1>1 DEF ReleasedOnce
    <3>6. /\ receipts'[receipt.run] = receipt
          /\ \A r \in Runs : r # receipt.run => receipts'[r] = receipts[r]
      BY <1>3, <1>4, <2>7, <3>1, <3>5 DEF ReceiptsWith
    <3>7. \A i \in DOMAIN events : events[i].kind = "released" => events[i].run # receipt.run
      BY <3>5, <1>1 DEF ReleasedOnce
    <3>8. ASSUME NEW r \in Runs, receipts'[r] # NoReceipt
          PROVE  /\ receipts'[r].head \in DOMAIN events'
                 /\ events'[receipts'[r].head] = Runtime!Entry("released", r, receipts'[r].cost)
      <4>1. CASE r = receipt.run
        BY <2>2, <2>3, <3>2, <3>6, <4>1
      <4>2. CASE r # receipt.run
        BY <2>2, <2>3, <3>6, <3>8, <4>2, <1>1 DEF ReleasedOnce
      <4>. QED BY <4>1, <4>2
    <3>9. ASSUME NEW i \in DOMAIN events', events'[i].kind = "released"
          PROVE  receipts'[events'[i].run] # NoReceipt /\ receipts'[events'[i].run].head = i
      <4>1. CASE i = n
        BY <2>2, <2>7, <3>2, <3>3, <3>6, <4>1
      <4>2. CASE i \in DOMAIN events
        BY <2>2, <2>5, <3>6, <3>7, <3>9, <4>2, <1>1 DEF ReleasedOnce
      <4>. QED BY <2>3, <4>1, <4>2
    <3>. QED BY <3>8, <3>9 DEF ReleasedOnce, Runtime!Entry
  <2>. QED BY <2>6, <2>7
<1>6. CASE Account(staged) /\ events' = events
  <2>. SUFFICES receipts' = receipts
    BY <1>1, <1>6 DEF ReleasedOnce, Runtime!Entry
  <2>1. CASE receipt = NoReceipt
    BY <1>4, <2>1 DEF ReceiptsWith
  <2>2. CASE receipt # NoReceipt
    <3>. DEFINE n == Len(staged.ledger)
                r == receipt.run
    <3>1. receipt \in Receipt /\ r \in Runs
      BY <2>2 DEF Receipt
    <3>2. staged.ledger[n] = Runtime!Entry("released", r, receipt.cost) /\ receipt.head = n
      BY <1>1, <2>2 DEF Booked
    <3>3. n \in 1 .. n
      <4>1. Len(staged.ledger) = known[g] + 1 /\ known[g] \in Nat
        BY SaveStores DEF AuthorityInv, AuthorityTypeOK
      <4>. QED BY <4>1
    <3>4. n \in DOMAIN events /\ events[n] = Runtime!Entry("released", r, receipt.cost)
      <4>1. n \in DOMAIN staged.ledger
        BY <1>3, <1>6, <3>3, AccountParts
      <4>. QED BY <1>6, <3>2, <4>1 DEF Account, Recorded
    <3>5. receipts[r] # NoReceipt /\ receipts[r].head = n
      BY <1>1, <3>4 DEF ReleasedOnce, Runtime!Entry
    <3>. QED BY <1>3, <1>4, <2>2, <3>1, <3>5 DEF ReceiptsWith
  <2>. QED BY <2>1, <2>2
<1>. QED BY <1>2, <1>5, <1>6

LEMMA WritesInv ==
    ASSUME AuthorityInv, NEW g \in Replicas, NEW staged,
           NEW receipt \in Receipt \cup {NoReceipt}, NEW returns \in SUBSET Runtime!PreparedRun,
           WritesWith(g, staged, receipt, returns), g \in up,
           working' \in [Replicas -> SUBSET Runtime!PreparedRun],
           \/ opening[g] = Nothing /\ opening' = opening /\ setBack' = setBack /\ VersionCurrent(g)
           \/ opening' = [opening EXCEPT ![g] = Nothing] /\ setBack' = (setBack \/ version > 1)
    PROVE  AuthorityInv'
<1>1. AuthorityTypeOK'
  BY WritesType DEF AuthorityInv, AuthorityTypeOK
<1>2. Accounts'
  BY WritesAccounts
<1>3. Saving'
  <2>1. /\ opening'[g] = Nothing
        /\ \A h \in Replicas : h # g => opening'[h] = opening[h] /\ pending'[h] = pending[h]
        /\ memory' = memory /\ up' = up
    BY DEF WritesWith, Writes, AuthorityInv, AuthorityTypeOK
  <2>2. ASSUME NEW h \in Replicas
        PROVE  /\ pending'[h] # Nothing => h \in up
               /\ opening'[h] # Nothing =>
                     h \in up /\ pending'[h] = Nothing /\ Prepares(memory[h], opening'[h])
    BY <2>1 DEF AuthorityInv, Saving
  <2>. QED BY <2>1, <2>2 DEF Saving
<1>. QED BY <1>1, <1>2, <1>3, WritesReplies, WritesReleases DEF AuthorityInv

-----------------------------------------------------------------------------
(* The actions that save, as writes of a staged transition.                *)

LEMMA PrepareRunWrites ==
    ASSUME AuthorityInv, NEW g \in Replicas, NEW p \in Runtime!PreparedRun, PrepareRun(g, p)
    PROVE  \E receipt \in Receipt \cup {NoReceipt}, returns \in SUBSET Runtime!PreparedRun :
               \E staged : WritesWith(g, staged, receipt, returns)
<1>. DEFINE staged == Runtime!AfterPrepare(memory[g], p)
<1>1. memory[g] \in Runtime!AuthorityState
  BY DEF AuthorityInv, AuthorityTypeOK
<1>2. Staged(memory[g], staged)
  BY <1>1, PrepareStaged DEF PrepareRun
<1>3. Writes(g, staged, NoReceipt, {p})
  BY DEF PrepareRun, Save
<1>4. NoReceipt \in Receipt \cup {NoReceipt} /\ {p} \in SUBSET Runtime!PreparedRun
  OBVIOUS
<1>5. Booked(staged.ledger, NoReceipt)
  <2>1. staged.ledger[Len(staged.ledger)] = Runtime!Entry("prepared", p.run, p.cost)
    BY <1>1, PrepareType, LastAppended DEF Runtime!AuthorityState
  <2>. QED BY <2>1 DEF Booked, Runtime!Entry
<1>. HIDE DEF staged
<1>. QED BY <1>2, <1>3, <1>4, <1>5 DEF WritesWith

LEMMA CompleteRunWrites ==
    ASSUME AuthorityInv, NEW g \in Replicas, NEW p \in working[g], NEW took \in BOOLEAN,
           CompleteRun(g, p, took)
    PROVE  \E receipt \in Receipt \cup {NoReceipt}, returns \in SUBSET Runtime!PreparedRun :
               \E staged : WritesWith(g, staged, receipt, returns)
<1>. DEFINE staged == Runtime!AfterComplete(memory[g], p.run, p.cost, took)
            built == [run |-> p.run, cost |-> p.cost, head |-> Len(staged.ledger)]
            receipt == IF took THEN built ELSE NoReceipt
<1>1. memory[g] \in Runtime!AuthorityState /\ p \in Runtime!PreparedRun
  BY DEF AuthorityInv, AuthorityTypeOK
<1>2. Staged(memory[g], staged)
  BY <1>1, CompleteStaged DEF CompleteRun
<1>3. Writes(g, staged, receipt, {})
  BY DEF CompleteRun, Save
<1>4. p.run \in Runs /\ p.cost \in Costs
  BY <1>1 DEF Runtime!PreparedRun
<1>5. staged.ledger \in Seq(Runtime!Event)
  BY <1>2 DEF Staged, Runtime!AuthorityState
<1>6. Len(staged.ledger) \in Nat
  BY <1>5
<1>7. built \in Receipt
  BY <1>4, <1>6 DEF Receipt
<1>8. receipt \in Receipt \cup {NoReceipt} /\ {} \in SUBSET Runtime!PreparedRun
  BY <1>7
<1>9. Booked(staged.ledger, receipt)
  <2>. DEFINE e == Runtime!Entry(IF took THEN "released" ELSE "rejected", p.run, p.cost)
  <2>1. staged.ledger = Append(memory[g].ledger, e) /\ e \in Runtime!Event
    BY <1>1, PreparedRunType, CompleteType
  <2>2. staged.ledger[Len(staged.ledger)] = e
    BY <1>1, <2>1, LastAppended DEF Runtime!AuthorityState
  <2>3. built # NoReceipt
    BY <1>7, AuthorityConstants
  <2>. HIDE DEF staged
  <2>. QED BY <2>2, <2>3 DEF Booked, Runtime!Entry
<1>. HIDE DEF staged, receipt
<1>. QED BY <1>2, <1>3, <1>8, <1>9 DEF WritesWith

LEMMA AbortRunWrites ==
    ASSUME AuthorityInv, NEW g \in Replicas, NEW p \in working[g], AbortRun(g, p)
    PROVE  \E receipt \in Receipt \cup {NoReceipt}, returns \in SUBSET Runtime!PreparedRun :
               \E staged : WritesWith(g, staged, receipt, returns)
<1>. DEFINE staged == Runtime!AfterAbort(memory[g], p.run)
<1>1. memory[g] \in Runtime!AuthorityState /\ p \in Runtime!PreparedRun
  BY DEF AuthorityInv, AuthorityTypeOK
<1>2. Staged(memory[g], staged)
  BY <1>1, PreparedRunType, AbortStaged DEF AbortRun
<1>3. Writes(g, staged, NoReceipt, {})
  BY DEF AbortRun, Save
<1>4. NoReceipt \in Receipt \cup {NoReceipt} /\ {} \in SUBSET Runtime!PreparedRun
  OBVIOUS
<1>5. Booked(staged.ledger, NoReceipt)
  <2>1. staged.ledger[Len(staged.ledger)] = Runtime!Entry("aborted", p.run, 0)
    BY <1>1, PreparedRunType, AbortType, LastAppended DEF Runtime!AuthorityState
  <2>. QED BY <2>1 DEF Booked, Runtime!Entry
<1>. HIDE DEF staged
<1>. QED BY <1>2, <1>3, <1>4, <1>5 DEF WritesWith

LEMMA FirstSaveWritesOne ==
    ASSUME AuthorityInv, NEW g \in Replicas, FirstSaveWrites(g)
    PROVE  \E receipt \in Receipt \cup {NoReceipt}, returns \in SUBSET Runtime!PreparedRun :
               \E staged : WritesWith(g, staged, receipt, returns)
<1>. DEFINE p == opening[g]
            staged == Runtime!AfterPrepare(memory[g], p)
<1>1. memory[g] \in Runtime!AuthorityState /\ p \in Runtime!PreparedRun
  BY DEF AuthorityInv, AuthorityTypeOK, FirstSaveWrites
<1>2. Staged(memory[g], staged)
  BY <1>1, PrepareStaged DEF FirstSaveWrites, AuthorityInv, Saving, Prepares
<1>3. Writes(g, staged, NoReceipt, {p})
  BY DEF FirstSaveWrites
<1>4. NoReceipt \in Receipt \cup {NoReceipt} /\ {p} \in SUBSET Runtime!PreparedRun
  BY <1>1
<1>5. Booked(staged.ledger, NoReceipt)
  <2>1. staged.ledger[Len(staged.ledger)] = Runtime!Entry("prepared", p.run, p.cost)
    BY <1>1, PrepareType, LastAppended DEF Runtime!AuthorityState
  <2>. QED BY <2>1 DEF Booked, Runtime!Entry
<1>. HIDE DEF staged, p
<1>. QED BY <1>2, <1>3, <1>4, <1>5 DEF WritesWith

LEMMA HandlerDoneType ==
    ASSUME AuthorityInv, NEW g \in Replicas, NEW p, HandlerDone(g, p)
    PROVE  working' \in [Replicas -> SUBSET Runtime!PreparedRun]
BY DEF HandlerDone, AuthorityInv, AuthorityTypeOK

\* What prepare_run, complete_run and abort_run have in common, the save of a project
\* without a row included.
WritesOne(g) ==
    /\ g \in up
    /\ working' \in [Replicas -> SUBSET Runtime!PreparedRun]
    /\ \/ opening[g] = Nothing /\ opening' = opening /\ setBack' = setBack /\ VersionCurrent(g)
       \/ opening' = [opening EXCEPT ![g] = Nothing] /\ setBack' = (setBack \/ version > 1)
    /\ \E receipt \in Receipt \cup {NoReceipt}, returns \in SUBSET Runtime!PreparedRun :
           \E staged : WritesWith(g, staged, receipt, returns)

LEMMA TransitionsWrite ==
    ASSUME AuthorityInv, NEW g \in Replicas,
           \/ \E p \in Runtime!PreparedRun : PrepareRun(g, p)
           \/ FirstSaveWrites(g)
           \/ \E p \in working[g], took \in BOOLEAN : CompleteRun(g, p, took)
           \/ \E p \in working[g] : AbortRun(g, p)
    PROVE  WritesOne(g)
<1>1. ASSUME NEW p \in Runtime!PreparedRun, PrepareRun(g, p) PROVE WritesOne(g)
  <2>1. working' \in [Replicas -> SUBSET Runtime!PreparedRun]
    BY <1>1 DEF PrepareRun, AuthorityInv, AuthorityTypeOK
  <2>. QED BY <1>1, <2>1, PrepareRunWrites DEF WritesOne, PrepareRun, Save
<1>2. ASSUME NEW p \in working[g], NEW took \in BOOLEAN, CompleteRun(g, p, took)
      PROVE  WritesOne(g)
  <2>1. working' \in [Replicas -> SUBSET Runtime!PreparedRun]
    BY <1>2, HandlerDoneType DEF CompleteRun
  <2>2. /\ g \in up /\ opening[g] = Nothing /\ opening' = opening
        /\ setBack' = setBack /\ VersionCurrent(g)
    BY <1>2 DEF CompleteRun, Save
  <2>. QED BY <1>2, <2>1, <2>2, CompleteRunWrites DEF WritesOne
<1>3. ASSUME NEW p \in working[g], AbortRun(g, p) PROVE WritesOne(g)
  <2>1. working' \in [Replicas -> SUBSET Runtime!PreparedRun]
    BY <1>3, HandlerDoneType DEF AbortRun
  <2>. QED BY <1>3, <2>1, AbortRunWrites DEF WritesOne, AbortRun, Save
<1>4. ASSUME FirstSaveWrites(g) PROVE WritesOne(g)
  <2>1. working' \in [Replicas -> SUBSET Runtime!PreparedRun] /\ g \in up
    BY <1>4 DEF FirstSaveWrites, AuthorityInv, AuthorityTypeOK, Saving
  <2>2. opening' = [opening EXCEPT ![g] = Nothing] /\ setBack' = (setBack \/ version > 1)
    BY <1>4 DEF FirstSaveWrites
  <2>. QED BY <1>4, <2>1, <2>2, FirstSaveWritesOne DEF WritesOne
<1>. QED BY <1>1, <1>2, <1>3, <1>4

LEMMA WritesOneInv ==
    ASSUME AuthorityInv, NEW g \in Replicas, WritesOne(g)
    PROVE  AuthorityInv'
<1>1. PICK receipt \in Receipt \cup {NoReceipt}, returns \in SUBSET Runtime!PreparedRun :
           \E staged : WritesWith(g, staged, receipt, returns)
  BY DEF WritesOne
<1>2. PICK staged : WritesWith(g, staged, receipt, returns)
  BY <1>1
<1>. QED BY <1>2, WritesInv DEF WritesOne

-----------------------------------------------------------------------------
(* The actions that only change what replicas and clients know.            *)

\* They leave the tables and the history as they are.
LEMMA TablesStay ==
    ASSUME AuthorityInv, UNCHANGED <<stored, history>>
    PROVE  /\ \A a : Account(a) => /\ a \in Runtime!AuthorityState /\ Sound(a)
                                   /\ DOMAIN a.ledger \subseteq DOMAIN events'
                                   /\ \A i \in DOMAIN a.ledger : events'[i] = a.ledger[i]
           /\ ReleasedOnce'
BY DEF AuthorityInv, Account, Recorded, stored, history, ReleasedOnce, Runtime!Entry

LEMMA ReplyInv ==
    ASSUME AuthorityInv, NEW g \in Replicas, Reply(g)
    PROVE  AuthorityInv'
<1>. DEFINE reply == pending[g]
<1>1. /\ reply \in SavesPending /\ reply # Nothing
      /\ UNCHANGED <<version, snapshot, events, receipts, up, opening, newest, setBack>>
  BY DEF Reply, AuthorityInv, AuthorityTypeOK, stored, history
<1>2. /\ reply.memory \in Runtime!AuthorityState
      /\ reply.returns \in SUBSET Runtime!PreparedRun
      /\ reply.receipt \in Receipt \cup {NoReceipt}
  BY <1>1 DEF SavesPending
<1>3. /\ memory'[g] = reply.memory /\ known'[g] = known[g] + 1 /\ pending'[g] = Nothing
      /\ \A h \in Replicas : h # g =>
            memory'[h] = memory[h] /\ known'[h] = known[h] /\ pending'[h] = pending[h]
      /\ answered' = answered \cup ({reply.receipt} \ {NoReceipt})
  BY DEF Reply, AuthorityInv, AuthorityTypeOK
<1>4. AuthorityTypeOK'
  <2>1. memory' \in [Replicas -> Runtime!AuthorityState]
    BY <1>2 DEF Reply, AuthorityInv, AuthorityTypeOK
  <2>2. known' \in [Replicas -> Nat]
    BY DEF Reply, AuthorityInv, AuthorityTypeOK
  <2>3. working' \in [Replicas -> SUBSET Runtime!PreparedRun]
    BY <1>2 DEF Reply, AuthorityInv, AuthorityTypeOK
  <2>4. pending' \in [Replicas -> SavesPending \cup {Nothing}]
    BY DEF Reply, AuthorityInv, AuthorityTypeOK
  <2>5. answered' \subseteq Receipt
    BY <1>2, <1>3 DEF AuthorityInv, AuthorityTypeOK
  <2>. QED BY <1>1, <2>1, <2>2, <2>3, <2>4, <2>5 DEF AuthorityInv, AuthorityTypeOK
<1>5. Accounts'
  <2>1. ASSUME NEW h \in Replicas
        PROVE  /\ Account(memory'[h]) /\ known'[h] = Len(memory'[h].ledger)
               /\ pending'[h] # Nothing =>
                     Account(pending'[h].memory) /\ Len(pending'[h].memory.ledger) = known'[h] + 1
    BY <1>1, <1>3 DEF AuthorityInv, Accounts
  <2>. QED BY <1>1, <2>1 DEF AuthorityInv, Accounts, Account, Recorded
<1>6. Saving'
  <2>1. \A h \in Replicas : opening[h] # Nothing => h # g
    BY <1>1 DEF AuthorityInv, Saving
  <2>. QED BY <1>1, <1>3, <2>1 DEF AuthorityInv, Saving
<1>7. RepliesStored'
  BY <1>1, <1>3 DEF AuthorityInv, RepliesStored
<1>8. AnswersStored'
  BY <1>1, <1>3 DEF AuthorityInv, AnswersStored, RepliesStored
<1>9. ReleasedOnce'
  BY TablesStay DEF Reply
<1>. QED BY <1>4, <1>5, <1>6, <1>7, <1>8, <1>9 DEF AuthorityInv

LEMMA ReplyLostInv ==
    ASSUME AuthorityInv, NEW g \in Replicas, ReplyLost(g)
    PROVE  AuthorityInv'
<1>1. /\ pending'[g] = Nothing /\ pending[g] # Nothing
      /\ \A h \in Replicas : h # g => pending'[h] = pending[h]
      /\ UNCHANGED <<version, snapshot, events, receipts, up, memory, known, working, opening,
                     answered, newest, setBack>>
  BY DEF ReplyLost, AuthorityInv, AuthorityTypeOK, stored, history
<1>2. AuthorityTypeOK'
  BY <1>1 DEF ReplyLost, AuthorityInv, AuthorityTypeOK
<1>3. Accounts'
  BY <1>1 DEF AuthorityInv, Accounts, Account, Recorded
<1>4. Saving' /\ RepliesStored' /\ AnswersStored'
  BY <1>1 DEF AuthorityInv, Saving, RepliesStored, AnswersStored
<1>5. ReleasedOnce'
  BY TablesStay DEF ReplyLost
<1>. QED BY <1>2, <1>3, <1>4, <1>5 DEF AuthorityInv

\* Actions that leave tables, memories and replies alone: a first save reads or is
\* rolled back, a handler ends.
Idle(g) ==
    /\ UNCHANGED <<stored, up, memory, known, pending, answered, history>>
    /\ working' \in [Replicas -> SUBSET Runtime!PreparedRun]
    /\ \/ opening' = opening
       \/ opening' = [opening EXCEPT ![g] = Nothing]
       \/ \E p \in Runtime!PreparedRun :
             /\ opening' = [opening EXCEPT ![g] = p]
             /\ g \in up /\ pending[g] = Nothing /\ Prepares(memory[g], p)

LEMMA IdleSteps ==
    ASSUME AuthorityInv, NEW g \in Replicas,
           \/ \E p \in Runtime!PreparedRun : FirstSaveReads(g, p)
           \/ FirstSaveFails(g)
           \/ \E p \in working[g] : GiveUp(g, p)
    PROVE  Idle(g)
<1>1. ASSUME NEW p \in Runtime!PreparedRun, FirstSaveReads(g, p) PROVE Idle(g)
  BY <1>1 DEF FirstSaveReads, Idle, Prepares, AuthorityInv, AuthorityTypeOK
<1>2. ASSUME FirstSaveFails(g) PROVE Idle(g)
  BY <1>2 DEF FirstSaveFails, Idle, AuthorityInv, AuthorityTypeOK
<1>3. ASSUME NEW p \in working[g], GiveUp(g, p) PROVE Idle(g)
  BY <1>3, HandlerDoneType DEF GiveUp, Idle
<1>. QED BY <1>1, <1>2, <1>3

LEMMA IdleInv ==
    ASSUME AuthorityInv, NEW g \in Replicas, Idle(g)
    PROVE  AuthorityInv'
<1>1. /\ UNCHANGED <<version, snapshot, events, receipts, up, memory, known, pending, answered,
                     newest, setBack>>
      /\ working' \in [Replicas -> SUBSET Runtime!PreparedRun]
  BY DEF Idle, stored, history
<1>2. AuthorityTypeOK'
  <2>1. opening' \in [Replicas -> Runtime!PreparedRun \cup {Nothing}]
    BY DEF Idle, AuthorityInv, AuthorityTypeOK
  <2>. QED BY <1>1, <2>1 DEF AuthorityInv, AuthorityTypeOK
<1>3. Accounts'
  BY <1>1 DEF AuthorityInv, Accounts, Account, Recorded
<1>4. Saving'
  <2>1. ASSUME NEW h \in Replicas, opening'[h] # Nothing
        PROVE  h \in up /\ pending[h] = Nothing /\ Prepares(memory[h], opening'[h])
    BY <2>1 DEF Idle, AuthorityInv, AuthorityTypeOK, Saving
  <2>. QED BY <1>1, <2>1 DEF AuthorityInv, Saving
<1>5. RepliesStored' /\ AnswersStored'
  BY <1>1 DEF AuthorityInv, RepliesStored, AnswersStored
<1>6. ReleasedOnce'
  BY TablesStay DEF Idle
<1>. QED BY <1>2, <1>3, <1>4, <1>5, <1>6 DEF AuthorityInv

LEMMA StartInv ==
    ASSUME AuthorityInv, NEW g \in Replicas, Start(g)
    PROVE  AuthorityInv'
<1>1. /\ memory'[g] = snapshot /\ known'[g] = version
      /\ \A h \in Replicas : h # g => memory'[h] = memory[h] /\ known'[h] = known[h]
      /\ up' = up \cup {g} /\ g \notin up
      /\ UNCHANGED <<version, snapshot, events, receipts, working, opening, pending, answered,
                     newest, setBack>>
  BY DEF Start, AuthorityInv, AuthorityTypeOK, stored, history
<1>2. AuthorityTypeOK'
  BY <1>1 DEF Start, AuthorityInv, AuthorityTypeOK
<1>3. pending[g] = Nothing /\ opening[g] = Nothing
  BY <1>1 DEF AuthorityInv, Saving
<1>4. Accounts'
  <2>1. ASSUME NEW h \in Replicas
        PROVE  /\ Account(memory'[h]) /\ known'[h] = Len(memory'[h].ledger)
               /\ pending[h] # Nothing =>
                     Account(pending[h].memory) /\ Len(pending[h].memory.ledger) = known'[h] + 1
    BY <1>1, <1>3 DEF AuthorityInv, Accounts
  <2>. QED BY <1>1, <2>1 DEF AuthorityInv, Accounts, Account, Recorded
<1>5. Saving'
  BY <1>1, <1>3 DEF AuthorityInv, Saving
<1>6. RepliesStored' /\ AnswersStored'
  BY <1>1 DEF AuthorityInv, RepliesStored, AnswersStored
<1>7. ReleasedOnce'
  BY TablesStay DEF Start
<1>. QED BY <1>2, <1>4, <1>5, <1>6, <1>7 DEF AuthorityInv

LEMMA CrashInv ==
    ASSUME AuthorityInv, NEW g \in Replicas, ReplicaCrash(g)
    PROVE  AuthorityInv'
<1>1. /\ memory'[g] = Runtime!New /\ known'[g] = 0 /\ pending'[g] = Nothing /\ opening'[g] = Nothing
      /\ \A h \in Replicas : h # g => /\ memory'[h] = memory[h] /\ known'[h] = known[h]
                                      /\ pending'[h] = pending[h] /\ opening'[h] = opening[h]
      /\ up' = up \ {g}
      /\ UNCHANGED <<version, snapshot, events, receipts, answered, newest, setBack>>
  BY DEF ReplicaCrash, AuthorityInv, AuthorityTypeOK, stored, history
<1>2. AuthorityTypeOK'
  <2>1. memory' \in [Replicas -> Runtime!AuthorityState]
    BY NewState DEF ReplicaCrash, AuthorityInv, AuthorityTypeOK
  <2>2. /\ opening' \in [Replicas -> Runtime!PreparedRun \cup {Nothing}]
        /\ pending' \in [Replicas -> SavesPending \cup {Nothing}]
    BY DEF ReplicaCrash, AuthorityInv, AuthorityTypeOK
  <2>. QED BY <1>1, <2>1, <2>2 DEF ReplicaCrash, AuthorityInv, AuthorityTypeOK
<1>3. Account(Runtime!New) /\ Len(Runtime!New.ledger) = 0
  <2>1. Runtime!New.ledger = << >>
    BY DEF Runtime!New
  <2>. QED BY <2>1, NewState, NewSound DEF Account, Recorded
<1>4. Accounts'
  <2>1. ASSUME NEW h \in Replicas
        PROVE  /\ Account(memory'[h]) /\ known'[h] = Len(memory'[h].ledger)
               /\ pending'[h] # Nothing =>
                     Account(pending'[h].memory) /\ Len(pending'[h].memory.ledger) = known'[h] + 1
    BY <1>1, <1>3 DEF AuthorityInv, Accounts
  <2>. QED BY <1>1, <2>1 DEF AuthorityInv, Accounts, Account, Recorded
<1>5. Saving'
  BY <1>1 DEF AuthorityInv, Saving
<1>6. RepliesStored' /\ AnswersStored'
  BY <1>1 DEF AuthorityInv, RepliesStored, AnswersStored
<1>7. ReleasedOnce'
  BY TablesStay DEF ReplicaCrash
<1>. QED BY <1>2, <1>4, <1>5, <1>6, <1>7 DEF AuthorityInv

LEMMA NextAuthority == AuthorityInv /\ [AuthorityNext]_authorityVars => AuthorityInv'
<1>. SUFFICES ASSUME AuthorityInv, [AuthorityNext]_authorityVars PROVE AuthorityInv'
  OBVIOUS
<1>1. ASSUME NEW g \in Replicas,
             \/ \E p \in Runtime!PreparedRun : PrepareRun(g, p)
             \/ FirstSaveWrites(g)
             \/ \E p \in working[g], took \in BOOLEAN : CompleteRun(g, p, took)
             \/ \E p \in working[g] : AbortRun(g, p)
      PROVE  AuthorityInv'
  BY <1>1, TransitionsWrite, WritesOneInv
<1>2. ASSUME NEW g \in Replicas,
             \/ \E p \in Runtime!PreparedRun : FirstSaveReads(g, p)
             \/ FirstSaveFails(g)
             \/ \E p \in working[g] : GiveUp(g, p)
      PROVE  AuthorityInv'
  BY <1>2, IdleSteps, IdleInv
<1>3. ASSUME NEW g \in Replicas, Reply(g) \/ ReplyLost(g) \/ Start(g) \/ ReplicaCrash(g)
      PROVE  AuthorityInv'
  BY <1>3, ReplyInv, ReplyLostInv, StartInv, CrashInv
<1>4. CASE UNCHANGED authorityVars
  <2>. USE <1>4 DEF authorityVars, stored, history
  <2>1. AuthorityTypeOK'
    BY DEF AuthorityInv, AuthorityTypeOK
  <2>2. Accounts' /\ Saving' /\ RepliesStored' /\ AnswersStored'
    BY DEF AuthorityInv, Accounts, Account, Recorded, Saving, RepliesStored, AnswersStored
  <2>. QED BY <2>1, <2>2, TablesStay DEF AuthorityInv
<1>. QED BY <1>1, <1>2, <1>3, <1>4 DEF AuthorityNext

LEMMA AuthorityInvariant == AuthoritySpec => []AuthorityInv
BY InitAuthority, NextAuthority, PTL DEF AuthoritySpec

-----------------------------------------------------------------------------
\* Whatever replicas, crashes and lost replies do, memory, tables, receipts and
\* the saves in flight keep their shape (save, persist_staged, from_config).
THEOREM TypeCorrect == AuthoritySpec => []AuthorityTypeOK
BY AuthorityInvariant, PTL DEF AuthorityInv

\* A replica that passes the version check of save holds the stored runtime, and
\* one that awaits the reply to the latest save will, although a delayed first save
\* may set the version back (save, persist_staged).
THEOREM ReplicasInSync == AuthoritySpec => []InSync
BY AuthorityInvariant, AccountsInSync, PTL

\* ledger_events is the ledger of the furthest account ever stored, and every account
\* of the deployment is a beginning of it, the stored one all of it unless a delayed
\* first save has overwritten a later version (save, insert_ledger_event).
THEOREM LedgerStored == AuthoritySpec => []LedgerMatches
BY AuthorityInvariant, AccountsMatch, PTL

\* A receipt that a client was answered with is and stays the stored receipt of
\* its run (release_response, save).
THEOREM AnswersAreStored == AuthoritySpec => []AnswersStored
BY AuthorityInvariant, PTL DEF AuthorityInv

-----------------------------------------------------------------------------
(* Refinement: a save is one transition of the furthest account, or stores *)
(* an account of its past.                                                 *)

LEMMA WritesImplement ==
    ASSUME AuthorityInv, NEW g \in Replicas, WritesOne(g)
    PROVE  Runtime!Next \/ UNCHANGED newest
<1>1. PICK receipt \in Receipt \cup {NoReceipt}, returns \in SUBSET Runtime!PreparedRun :
           \E staged : WritesWith(g, staged, receipt, returns)
  BY DEF WritesOne
<1>2. PICK staged : WritesWith(g, staged, receipt, returns)
  BY <1>1
<1>3. (memory[g] = newest /\ newest' = staged) \/ newest' = newest
  BY <1>2, SaveStores
<1>4. CASE memory[g] = newest /\ newest' = staged
  <2>1. RuntimeStep(newest, newest')
    BY <1>2, <1>4 DEF Staged, WritesWith
  <2>. QED BY <2>1 DEF RuntimeStep, Runtime!Next, Runtime!Prepare, Runtime!Complete, Runtime!Abort
<1>. QED BY <1>3, <1>4

LEMMA NextImplements == AuthorityInv /\ [AuthorityNext]_authorityVars => [Runtime!Next]_newest
<1>. SUFFICES ASSUME AuthorityInv, [AuthorityNext]_authorityVars PROVE Runtime!Next \/ UNCHANGED newest
  OBVIOUS
<1>1. ASSUME NEW g \in Replicas,
             \/ \E p \in Runtime!PreparedRun : PrepareRun(g, p)
             \/ FirstSaveWrites(g)
             \/ \E p \in working[g], took \in BOOLEAN : CompleteRun(g, p, took)
             \/ \E p \in working[g] : AbortRun(g, p)
      PROVE  Runtime!Next \/ UNCHANGED newest
  BY <1>1, TransitionsWrite, WritesImplement
<1>2. ASSUME NEW g \in Replicas,
             \/ \E p \in Runtime!PreparedRun : FirstSaveReads(g, p)
             \/ FirstSaveFails(g)
             \/ \E p \in working[g] : GiveUp(g, p)
             \/ Reply(g) \/ ReplyLost(g) \/ Start(g) \/ ReplicaCrash(g)
      PROVE  UNCHANGED newest
  BY <1>2 DEF FirstSaveReads, FirstSaveFails, GiveUp, Reply, ReplyLost, Start, ReplicaCrash, history
<1>3. CASE UNCHANGED authorityVars
  BY <1>3 DEF authorityVars, history
<1>. QED BY <1>1, <1>2, <1>3 DEF AuthorityNext

\* What the replicas store evolves as one GovernanceRuntime: each commit is one
\* prepare, complete or abort of the furthest account stored before it, or stores an
\* account of that history again, for any number of replicas (save, prepare_run,
\* complete_run, abort_run).
THEOREM DeploymentImplementsRuntime == AuthoritySpec => ImplementsRuntime
<1>1. AuthorityInit => Runtime!Init
  BY DEF AuthorityInit, Runtime!Init
<1>. QED BY <1>1, AuthorityInvariant, NextImplements, PTL
         DEF AuthoritySpec, ImplementsRuntime, Runtime!Spec

\* The account is what was stored, for any number of replicas, runs and costs: the
\* three facts above as the one property the deployment is checked for.
THEOREM AccountIsStored == AuthoritySpec => []AccountStored
BY ReplicasInSync, LedgerStored, AnswersAreStored, PTL DEF AccountStored

\* A run id is released once, by the one receipt that names the entry, although run
\* ids may be used again and several replicas save (save, complete_run).
THEOREM ReceiptsRelease == AuthoritySpec => []ReleasedOnce
BY AuthorityInvariant, PTL DEF AuthorityInv

\* The account is right for any number of replicas, runs, costs and any limit: one
\* receipt per release, the budget is never overdrawn in the database or in a
\* replica, and the ledger accounts for every reservation and every charge
\* (BudgetAccount, save, persist_staged).
THEOREM AccountIsBalanced == AuthoritySpec => []AccountBalanced
<1>1. AuthorityInv => AccountBalanced
  BY DEF AuthorityInv, AuthorityTypeOK, Accounts, Account, AccountBalanced, Sound,
         BudgetKept, AccountAudited
<1>. QED BY <1>1, AuthorityInvariant, PTL
=============================================================================

---------------------------- MODULE RunDagProofs ----------------------------
(***************************************************************************)
(* Proofs about RunDag, for any number of runs, rows below them and        *)
(* cancellations in flight: what request_cancellation reports and leaves   *)
(* behind is true, its root is sealed, and no ended run is rewritten.      *)
(***************************************************************************)
EXTENDS RunDag, TLAPS

(* What every transaction does to each table: rows stay, what they belong  *)
(* to stays, what is over is over, and nothing is inserted below the root  *)
(* of an open cancellation.                                                *)

RunStep ==
    /\ run' \in [Runs -> RunRow \cup {Absent}]
    /\ \A r \in Runs : Exists(run[r]) =>
          /\ Exists(run'[r]) /\ run'[r].parent = run[r].parent
          /\ RunEnded(r) => run'[r] = run[r]
    /\ \A r \in Runs : Exists(run'[r]) /\ ~Exists(run[r]) => ~Locked(run'[r].parent)

StepStep ==
    /\ step' \in [Steps -> StepRow \cup {Absent}]
    /\ \A s \in Steps : Exists(step[s]) =>
          /\ Exists(step'[s]) /\ step'[s].run = step[s].run
          /\ step[s].ended => step'[s].ended
    /\ \A s \in Steps : Exists(step'[s]) /\ step'[s].status \in StepTerminal => step'[s].ended
    /\ \A s \in Steps : Exists(step'[s]) /\ ~Exists(step[s]) => ~Locked(step'[s].run)

AttemptStep ==
    /\ attempt' \in [Attempts -> AttemptRow \cup {Absent}]
    /\ \A a \in Attempts : Exists(attempt[a]) =>
          /\ Exists(attempt'[a]) /\ attempt'[a].step = attempt[a].step
          /\ attempt[a].status \in AttemptTerminal => attempt'[a].status \in AttemptTerminal
    /\ \A a \in Attempts : Exists(attempt'[a]) => Exists(step[attempt'[a].step])

ReservationStep ==
    /\ reservation' \in [Reservations -> ReservationRow \cup {Absent}]
    /\ \A b \in Reservations : Exists(reservation[b]) =>
          /\ Exists(reservation'[b]) /\ reservation'[b].run = reservation[b].run
          /\ reservation[b].status # "active" => reservation'[b].status # "active"
    /\ \A b \in Reservations :
          Exists(reservation'[b]) /\ ~Exists(reservation[b]) => ~Locked(reservation'[b].run)
    /\ freed' \in [Reservations -> Nat]
    /\ FreedOnce'

CallStep ==
    /\ call' \in [Calls -> CallRow \cup {Absent}]
    /\ \A p \in Calls : Exists(call[p]) =>
          /\ Exists(call'[p]) /\ call'[p].attempt = call[p].attempt
          /\ call[p].status # "open" => call'[p].status # "open"
    /\ \A p \in Calls : Exists(call'[p]) => Exists(attempt[call'[p].attempt])

EffectStep ==
    /\ effect' \in [Effects -> EffectRow \cup {Absent}]
    /\ \A e \in Effects : Exists(effect[e]) =>
          /\ Exists(effect'[e]) /\ effect'[e].attempt = effect[e].attempt
          /\ effect[e].status # "open" => effect'[e].status # "open"
    /\ \A e \in Effects : Exists(effect'[e]) => Exists(attempt[effect'[e].attempt])

\* The foreign keys, and completed_at of a step.
RowsLinked ==
    /\ \A a \in Attempts : Exists(attempt[a]) => Exists(step[attempt[a].step])
    /\ \A p \in Calls : Exists(call[p]) => Exists(attempt[call[p].attempt])
    /\ \A e \in Effects : Exists(effect[e]) => Exists(attempt[effect[e].attempt])
    /\ \A s \in Steps : Exists(step[s]) /\ step[s].status \in StepTerminal => step[s].ended

TableInv == TypeOK /\ FreedOnce /\ RowsLinked

-----------------------------------------------------------------------------
(* A row is not the absent one, and may change its columns.                *)

LEMMA NotAbsent ==
    /\ \A x \in RunRow : Exists(x)
    /\ \A x \in StepRow : Exists(x)
    /\ \A x \in AttemptRow : Exists(x)
    /\ \A x \in ReservationRow : Exists(x)
    /\ \A x \in CallRow : Exists(x)
    /\ \A x \in EffectRow : Exists(x)
BY DEF Exists, Absent, RunRow, StepRow, AttemptRow, ReservationRow, CallRow, EffectRow,
       RunStatus, RunTerminal, StepStatus, StepTerminal, AttemptStatus, AttemptTerminal,
       CallSettled, EffectSettled

LEMMA Tables ==
    ASSUME TypeOK
    PROVE  /\ \A r \in Runs : Exists(run[r]) => run[r] \in RunRow
           /\ \A s \in Steps : Exists(step[s]) => step[s] \in StepRow
           /\ \A a \in Attempts : Exists(attempt[a]) => attempt[a] \in AttemptRow
           /\ \A b \in Reservations : Exists(reservation[b]) => reservation[b] \in ReservationRow
           /\ \A p \in Calls : Exists(call[p]) => call[p] \in CallRow
           /\ \A e \in Effects : Exists(effect[e]) => effect[e] \in EffectRow
BY DEF TypeOK, Exists

\* A row that has a status of its table exists.
LEMMA Present ==
    /\ Absent.status \notin RunTerminal
    /\ Absent.status # "active" /\ Absent.status # "open"
    /\ Absent.status \notin {"released", "expired"}
BY DEF Absent, RunTerminal

LEMMA RunKept ==
    ASSUME TableInv, UNCHANGED run
    PROVE  RunStep
BY DEF TableInv, TypeOK, RunStep

LEMMA StepKept ==
    ASSUME TableInv, UNCHANGED step
    PROVE  StepStep
BY DEF TableInv, TypeOK, RowsLinked, StepStep

LEMMA AttemptKept ==
    ASSUME TableInv, UNCHANGED attempt
    PROVE  AttemptStep
BY DEF TableInv, TypeOK, RowsLinked, AttemptStep

LEMMA ReservationKept ==
    ASSUME TableInv, UNCHANGED <<reservation, freed>>
    PROVE  ReservationStep
BY DEF TableInv, TypeOK, FreedOnce, ReservationStep

LEMMA CallKept ==
    ASSUME TableInv, UNCHANGED call
    PROVE  CallStep
BY DEF TableInv, TypeOK, RowsLinked, CallStep

LEMMA EffectKept ==
    ASSUME TableInv, UNCHANGED effect
    PROVE  EffectStep
BY DEF TableInv, TypeOK, RowsLinked, EffectStep

-----------------------------------------------------------------------------
(* The actions on runs.                                                    *)

LEMMA CreateRunStep ==
    ASSUME TableInv, NEW r \in Runs, NEW parent \in Runs \cup {NoParent}, CreateRun(r, parent)
    PROVE  RunStep
<1>. DEFINE row == [status |-> "pending", parent |-> parent, ended |-> FALSE]
<1>1. row \in RunRow
  BY DEF RunRow, RunStatus
<1>2. run' = [run EXCEPT ![r] = row] /\ ~Exists(run[r])
  BY DEF CreateRun
<1>3. row.parent = parent /\ ~Locked(parent)
  <2>1. \A c \in Requests : Open(c) => request[c].root \in Runs
    BY DEF TableInv, TypeOK, Open, Idle, Statements, RequestRow
  <2>. QED BY <2>1, NoParentAssumption DEF CreateRun, Locked
<1>. HIDE DEF row
<1>. QED BY <1>1, <1>2, <1>3 DEF TableInv, TypeOK, RunStep

LEMMA RunChanged ==
    ASSUME NEW row \in RunRow, NEW t \in RunStatus, NEW d \in BOOLEAN
    PROVE  /\ [row EXCEPT !.status = t, !.ended = d] \in RunRow
           /\ [row EXCEPT !.status = t, !.ended = d].parent = row.parent
BY DEF RunRow

LEMMA UpdateRunStep ==
    ASSUME TableInv, NEW r \in Runs, NEW target \in RunStatus, UpdateRunStatus(r, target)
    PROVE  RunStep
<1>. DEFINE d == run[r].ended \/ target \in RunTerminal
            row == [run[r] EXCEPT !.status = target, !.ended = d]
<1>1. run[r] \in RunRow
  BY Tables DEF UpdateRunStatus, TableInv
<1>2. row \in RunRow /\ row.parent = run[r].parent
  <2>1. d \in BOOLEAN
    OBVIOUS
  <2>. HIDE DEF d
  <2>. QED BY <1>1, <2>1, RunChanged
<1>3. run' = [run EXCEPT ![r] = row] /\ Exists(run[r])
  BY DEF UpdateRunStatus
<1>4. ~RunEnded(r)
  <2>1. run[r].status \in RunStatus
    BY <1>1 DEF RunRow
  <2>. QED BY <2>1 DEF UpdateRunStatus, RunNext, RunEnded, RunTerminal, RunStatus
<1>5. Exists(row)
  BY <1>2, NotAbsent
<1>. HIDE DEF row
<1>. QED BY <1>2, <1>3, <1>4, <1>5 DEF TableInv, TypeOK, RunStep

LEMMA CancelRunsStep ==
    ASSUME TableInv, NEW c \in Requests, CancelRuns(c), \A r \in request[c].scope : Exists(run[r])
    PROVE  RunStep
<1>1. run' = [r \in Runs |-> IF r \in request[c].scope THEN CancelledRun(run[r]) ELSE run[r]]
  BY DEF CancelRuns
<1>2. ASSUME NEW r \in Runs, r \in request[c].scope, run[r].status \notin RunTerminal
      PROVE  CancelledRun(run[r]) \in RunRow /\ CancelledRun(run[r]).parent = run[r].parent
  <2>1. run[r] \in RunRow
    BY <1>2, Tables DEF TableInv
  <2>2. "cancelled" \in RunStatus /\ TRUE \in BOOLEAN
    BY DEF RunStatus, RunTerminal
  <2>. QED BY <1>2, <2>1, <2>2, RunChanged DEF CancelledRun
<1>3. ASSUME NEW r \in Runs
      PROVE  /\ run'[r] \in RunRow \cup {Absent}
             /\ Exists(run[r]) =>
                   /\ Exists(run'[r]) /\ run'[r].parent = run[r].parent
                   /\ RunEnded(r) => run'[r] = run[r]
             /\ Exists(run'[r]) => Exists(run[r])
  <2>1. CASE r \in request[c].scope /\ run[r].status \notin RunTerminal
    <3>1. run'[r] = CancelledRun(run[r])
      BY <1>1, <2>1
    <3>. QED BY <1>2, <2>1, <3>1, NotAbsent DEF RunEnded
  <2>2. CASE ~(r \in request[c].scope /\ run[r].status \notin RunTerminal)
    <3>1. run'[r] = run[r]
      BY <1>1, <2>2 DEF CancelledRun
    <3>. QED BY <3>1 DEF TableInv, TypeOK
  <2>. QED BY <2>1, <2>2
<1>. QED BY <1>1, <1>3 DEF RunStep

-----------------------------------------------------------------------------
(* The actions on steps.                                                   *)

LEMMA CreateStepStep ==
    ASSUME TableInv, NEW s \in Steps, NEW r \in Runs, CreateStep(s, r)
    PROVE  StepStep
<1>. DEFINE row == [status |-> "pending", run |-> r, ended |-> FALSE]
<1>1. row \in StepRow /\ row.status \notin StepTerminal /\ row.run = r
  BY DEF StepRow, StepStatus, StepTerminal
<1>2. step' = [step EXCEPT ![s] = row] /\ ~Exists(step[s]) /\ ~Locked(r)
  BY DEF CreateStep
<1>. HIDE DEF row
<1>. QED BY <1>1, <1>2 DEF TableInv, TypeOK, RowsLinked, StepStep

LEMMA StepChanged ==
    ASSUME NEW row \in StepRow, NEW t \in StepStatus, NEW d \in BOOLEAN
    PROVE  /\ [row EXCEPT !.status = t, !.ended = d] \in StepRow
           /\ [row EXCEPT !.status = t, !.ended = d].run = row.run
           /\ [row EXCEPT !.status = t, !.ended = d].status = t
           /\ [row EXCEPT !.status = t, !.ended = d].ended = d
BY DEF StepRow

LEMMA UpdateStepStep ==
    ASSUME TableInv, NEW s \in Steps, NEW target \in StepStatus, UpdateStepStatus(s, target)
    PROVE  StepStep
<1>. DEFINE d == step[s].ended \/ target \in StepTerminal
            row == [step[s] EXCEPT !.status = target, !.ended = d]
<1>1. step[s] \in StepRow
  BY Tables DEF UpdateStepStatus, TableInv
<1>2. row \in StepRow /\ row.run = step[s].run /\ row.status = target /\ row.ended = d
  <2>1. d \in BOOLEAN
    OBVIOUS
  <2>. HIDE DEF d
  <2>. QED BY <1>1, <2>1 DEF StepRow
<1>3. step' = [step EXCEPT ![s] = row] /\ Exists(step[s])
  BY DEF UpdateStepStatus
<1>4. Exists(row)
  BY <1>2, NotAbsent
<1>5. (step[s].ended => row.ended) /\ (row.status \in StepTerminal => row.ended)
  BY <1>2
<1>. HIDE DEF row
<1>. QED BY <1>2, <1>3, <1>4, <1>5 DEF TableInv, TypeOK, RowsLinked, StepStep

LEMMA CancelStepsStep ==
    ASSUME TableInv, NEW c \in Requests, CancelSteps(c)
    PROVE  /\ StepStep
           /\ \A s \in Steps : Exists(step[s]) /\ step[s].run \in request[c].scope => step'[s].ended
<1>. DEFINE Hit(s) == /\ Exists(step[s]) /\ step[s].run \in request[c].scope
                      /\ step[s].status \notin StepTerminal
            row(s) == [step[s] EXCEPT !.status = "cancelled", !.ended = TRUE]
<1>1. step' = [s \in Steps |-> IF Hit(s) THEN row(s) ELSE step[s]]
  BY DEF CancelSteps
<1>2. ASSUME NEW s \in Steps, Hit(s)
      PROVE  row(s) \in StepRow /\ row(s).run = step[s].run /\ row(s).ended = TRUE
  <2>1. step[s] \in StepRow
    BY <1>2, Tables DEF TableInv
  <2>2. "cancelled" \in StepStatus /\ TRUE \in BOOLEAN
    BY DEF StepStatus, StepTerminal
  <2>. QED BY <2>1, <2>2, StepChanged
<1>3. ASSUME NEW s \in Steps
      PROVE  /\ step'[s] \in StepRow \cup {Absent}
             /\ Exists(step[s]) =>
                   /\ Exists(step'[s]) /\ step'[s].run = step[s].run
                   /\ step[s].ended => step'[s].ended
             /\ Exists(step'[s]) /\ step'[s].status \in StepTerminal => step'[s].ended
             /\ Exists(step'[s]) => Exists(step[s])
             /\ Exists(step[s]) /\ step[s].run \in request[c].scope => step'[s].ended
  <2>1. CASE Hit(s)
    <3>1. step'[s] = row(s)
      BY <1>1, <2>1
    <3>. HIDE DEF row
    <3>. QED BY <1>2, <2>1, <3>1, NotAbsent
  <2>2. CASE ~Hit(s)
    <3>1. step'[s] = step[s]
      BY <1>1, <2>2
    <3>. QED BY <2>2, <3>1 DEF TableInv, TypeOK, RowsLinked
  <2>. QED BY <2>1, <2>2
<1>. HIDE DEF Hit, row
<1>. QED BY <1>1, <1>3 DEF StepStep

-----------------------------------------------------------------------------
(* The actions on attempts.                                                *)

LEMMA CreateAttemptStep ==
    ASSUME TableInv, NEW a \in Attempts, NEW s \in Steps, NEW n \in Numbers, CreateAttempt(a, s, n)
    PROVE  AttemptStep
<1>. DEFINE row == [status |-> "pending", step |-> s, number |-> n, ended |-> FALSE]
<1>1. row \in AttemptRow /\ row.step = s
  BY DEF AttemptRow, AttemptStatus
<1>2. attempt' = [attempt EXCEPT ![a] = row] /\ ~Exists(attempt[a]) /\ Exists(step[s])
  BY DEF CreateAttempt
<1>. HIDE DEF row
<1>. QED BY <1>1, <1>2 DEF TableInv, TypeOK, RowsLinked, AttemptStep

LEMMA AttemptChanged ==
    ASSUME NEW row \in AttemptRow, NEW t \in AttemptStatus, NEW d \in BOOLEAN
    PROVE  /\ [row EXCEPT !.status = t, !.ended = d] \in AttemptRow
           /\ [row EXCEPT !.status = t, !.ended = d].step = row.step
           /\ [row EXCEPT !.status = t, !.ended = d].status = t
BY DEF AttemptRow

LEMMA UpdateAttemptStep ==
    ASSUME TableInv, NEW a \in Attempts, NEW target \in AttemptStatus, UpdateAttemptStatus(a, target)
    PROVE  AttemptStep
<1>. DEFINE d == attempt[a].ended \/ target \in AttemptTerminal
            row == [attempt[a] EXCEPT !.status = target, !.ended = d]
<1>1. attempt[a] \in AttemptRow
  BY Tables DEF UpdateAttemptStatus, TableInv
<1>2. row \in AttemptRow /\ row.step = attempt[a].step
  <2>1. d \in BOOLEAN
    OBVIOUS
  <2>. HIDE DEF d
  <2>. QED BY <1>1, <2>1 DEF AttemptRow
<1>3. attempt' = [attempt EXCEPT ![a] = row] /\ Exists(attempt[a])
  BY DEF UpdateAttemptStatus
<1>4. attempt[a].status \notin AttemptTerminal
  <2>1. attempt[a].status \in AttemptStatus
    BY <1>1 DEF AttemptRow
  <2>. QED BY <2>1 DEF UpdateAttemptStatus, AttemptNext, AttemptTerminal, AttemptStatus
<1>5. Exists(row)
  BY <1>2, NotAbsent
<1>. HIDE DEF row
<1>. QED BY <1>2, <1>3, <1>4, <1>5 DEF TableInv, TypeOK, RowsLinked, AttemptStep

LEMMA CancelAttemptsStep ==
    ASSUME TableInv, NEW c \in Requests, CancelAttempts(c)
    PROVE  /\ AttemptStep
           /\ \A a \in AttemptsOf(request[c].scope) : attempt'[a].status \in AttemptTerminal
<1>. DEFINE Hit(a) == a \in AttemptsOf(request[c].scope) /\ attempt[a].status \notin AttemptTerminal
            row(a) == [attempt[a] EXCEPT !.status = "cancelled", !.ended = TRUE]
<1>1. attempt' = [a \in Attempts |-> IF Hit(a) THEN row(a) ELSE attempt[a]]
  BY DEF CancelAttempts
<1>2. ASSUME NEW a \in Attempts, Hit(a)
      PROVE  row(a) \in AttemptRow /\ row(a).step = attempt[a].step /\ row(a).status \in AttemptTerminal
  <2>1. attempt[a] \in AttemptRow
    BY <1>2, Tables DEF TableInv, AttemptsOf
  <2>2. "cancelled" \in AttemptStatus /\ "cancelled" \in AttemptTerminal /\ TRUE \in BOOLEAN
    BY DEF AttemptStatus, AttemptTerminal
  <2>. QED BY <2>1, <2>2, AttemptChanged
<1>3. ASSUME NEW a \in Attempts
      PROVE  /\ attempt'[a] \in AttemptRow \cup {Absent}
             /\ Exists(attempt[a]) =>
                   /\ Exists(attempt'[a]) /\ attempt'[a].step = attempt[a].step
                   /\ attempt[a].status \in AttemptTerminal => attempt'[a].status \in AttemptTerminal
             /\ Exists(attempt'[a]) => Exists(step[attempt'[a].step])
             /\ a \in AttemptsOf(request[c].scope) => attempt'[a].status \in AttemptTerminal
  <2>1. CASE Hit(a)
    <3>1. attempt'[a] = row(a) /\ Exists(attempt[a])
      BY <1>1, <2>1 DEF AttemptsOf
    <3>. HIDE DEF row
    <3>. QED BY <1>2, <2>1, <3>1, NotAbsent DEF TableInv, RowsLinked
  <2>2. CASE ~Hit(a)
    <3>1. attempt'[a] = attempt[a]
      BY <1>1, <2>2
    <3>. QED BY <2>2, <3>1 DEF TableInv, TypeOK, RowsLinked
  <2>. QED BY <2>1, <2>2
<1>4. AttemptsOf(request[c].scope) \subseteq Attempts
  BY DEF AttemptsOf
<1>. HIDE DEF Hit, row
<1>. QED BY <1>1, <1>3, <1>4 DEF AttemptStep

-----------------------------------------------------------------------------
(* The actions on reservations and the budget they free.                   *)

LEMMA CreateReservationStep ==
    ASSUME TableInv, NEW b \in Reservations, NEW r \in Runs, CreateReservation(b, r)
    PROVE  ReservationStep
<1>1. PICK due \in BOOLEAN :
          reservation' = [reservation EXCEPT ![b] = [status |-> "active", run |-> r, due |-> due]]
  BY DEF CreateReservation
<1>. DEFINE row == [status |-> "active", run |-> r, due |-> due]
<1>2. row \in ReservationRow /\ row.status = "active" /\ row.run = r
  BY DEF ReservationRow
<1>3. /\ reservation' = [reservation EXCEPT ![b] = row] /\ ~Exists(reservation[b])
      /\ freed' = freed /\ ~Locked(r)
  BY <1>1 DEF CreateReservation
<1>4. reservation[b].status \notin {"released", "expired"}
  BY <1>3, Present DEF Exists
<1>. HIDE DEF row
<1>. QED BY <1>2, <1>3, <1>4 DEF TableInv, TypeOK, FreedOnce, ReservationStep

LEMMA ReservationChanged ==
    ASSUME NEW row \in ReservationRow, NEW t \in {"active", "released", "expired"}
    PROVE  /\ [row EXCEPT !.status = t] \in ReservationRow
           /\ [row EXCEPT !.status = t].run = row.run
           /\ [row EXCEPT !.status = t].status = t
           /\ [row EXCEPT !.due = TRUE] \in ReservationRow
           /\ [row EXCEPT !.due = TRUE].run = row.run
           /\ [row EXCEPT !.due = TRUE].status = row.status
BY DEF ReservationRow

\* A statement frees some active reservations, and reports them.
LEMMA FreesStep ==
    ASSUME TableInv, NEW B \in SUBSET Reservations, NEW t \in {"released", "expired"},
           \A b \in B : reservation[b].status = "active",
           reservation' = [b \in Reservations |->
               IF b \in B THEN [reservation[b] EXCEPT !.status = t] ELSE reservation[b]],
           freed' = [b \in Reservations |-> freed[b] + (IF b \in B THEN 1 ELSE 0)]
    PROVE  ReservationStep /\ \A b \in B : reservation'[b].status # "active"
<1>. DEFINE row(b) == [reservation[b] EXCEPT !.status = t]
<1>1. ASSUME NEW b \in Reservations
      PROVE  /\ reservation'[b] \in ReservationRow \cup {Absent}
             /\ Exists(reservation[b]) =>
                   /\ Exists(reservation'[b]) /\ reservation'[b].run = reservation[b].run
                   /\ reservation[b].status # "active" => reservation'[b].status # "active"
             /\ Exists(reservation'[b]) => Exists(reservation[b])
             /\ freed'[b] \in Nat
             /\ freed'[b] = IF reservation'[b].status \in {"released", "expired"} THEN 1 ELSE 0
             /\ b \in B => reservation'[b].status # "active"
  <2>0. freed[b] \in Nat /\ freed[b] = IF reservation[b].status \in {"released", "expired"} THEN 1 ELSE 0
    BY DEF TableInv, TypeOK, FreedOnce
  <2>1. CASE b \in B
    <3>1. reservation'[b] = row(b) /\ Exists(reservation[b]) /\ freed'[b] = freed[b] + 1
      BY <2>1, Present DEF Exists
    <3>2. reservation[b] \in ReservationRow
      BY <3>1, Tables DEF TableInv
    <3>3. row(b) \in ReservationRow /\ row(b).run = reservation[b].run /\ row(b).status = t
      BY <3>2 DEF ReservationRow
    <3>4. freed[b] = 0
      BY <2>0, <2>1
    <3>. HIDE DEF row
    <3>. QED BY <2>1, <3>1, <3>3, <3>4, NotAbsent
  <2>2. CASE b \notin B
    <3>1. reservation'[b] = reservation[b] /\ freed'[b] = freed[b]
      BY <2>0, <2>2
    <3>. QED BY <2>0, <2>2, <3>1 DEF TableInv, TypeOK
  <2>. QED BY <2>1, <2>2
<1>2. DOMAIN reservation' = Reservations /\ DOMAIN freed' = Reservations
  OBVIOUS
<1>3. /\ reservation' = [b \in Reservations |-> reservation'[b]]
      /\ freed' = [b \in Reservations |-> freed'[b]]
  OBVIOUS
<1>4. /\ reservation' \in [Reservations -> ReservationRow \cup {Absent}]
      /\ freed' \in [Reservations -> Nat]
  BY <1>1, <1>3
<1>. QED BY <1>1, <1>4 DEF ReservationStep, FreedOnce

LEMMA ReleaseStep ==
    ASSUME TableInv, NEW b \in Reservations, ReleaseReservation(b)
    PROVE  ReservationStep
<1>1. /\ reservation \in [Reservations -> ReservationRow \cup {Absent}]
      /\ freed \in [Reservations -> Nat]
  BY DEF TableInv, TypeOK
<1>2. reservation' = [x \in Reservations |->
          IF x \in {b} THEN [reservation[x] EXCEPT !.status = "released"] ELSE reservation[x]]
  BY <1>1 DEF ReleaseReservation
<1>3. freed' = [x \in Reservations |-> freed[x] + (IF x \in {b} THEN 1 ELSE 0)]
  <2>1. \A x \in Reservations : freed[x] \in Nat
    BY <1>1
  <2>2. \A x \in Reservations : freed[x] + (IF x \in {b} THEN 1 ELSE 0) =
            IF x = b THEN freed[b] + 1 ELSE freed[x]
    BY <2>1
  <2>3. freed' = [x \in Reservations |-> IF x = b THEN freed[b] + 1 ELSE freed[x]]
    BY <1>1 DEF ReleaseReservation
  <2>. QED BY <2>2, <2>3
<1>4. \A x \in {b} : reservation[x].status = "active"
  BY DEF ReleaseReservation
<1>5. {b} \in SUBSET Reservations /\ "released" \in {"released", "expired"}
  OBVIOUS
<1>. QED BY <1>2, <1>3, <1>4, <1>5, FreesStep

LEMMA ExpireStep ==
    ASSUME TableInv, ExpireReservations
    PROVE  ReservationStep
<1>1. Overdue \in SUBSET Reservations /\ \A b \in Overdue : reservation[b].status = "active"
  BY DEF Overdue
<1>2. "expired" \in {"released", "expired"}
  OBVIOUS
<1>. QED BY <1>1, <1>2, FreesStep DEF ExpireReservations

LEMMA FallsDueStep ==
    ASSUME TableInv, NEW b \in Reservations, ReservationFallsDue(b)
    PROVE  ReservationStep
<1>. DEFINE row == [reservation[b] EXCEPT !.due = TRUE]
<1>1. Exists(reservation[b])
  BY Present DEF ReservationFallsDue, Exists
<1>2. row \in ReservationRow /\ row.run = reservation[b].run /\ row.status = reservation[b].status
  BY <1>1, Tables, ReservationChanged DEF TableInv
<1>3. reservation' = [reservation EXCEPT ![b] = row] /\ freed' = freed
  BY DEF ReservationFallsDue
<1>4. Exists(row)
  BY <1>2, NotAbsent
<1>. HIDE DEF row
<1>. QED BY <1>1, <1>2, <1>3, <1>4 DEF TableInv, TypeOK, FreedOnce, ReservationStep

LEMMA ReleaseHeldStep ==
    ASSUME TableInv, NEW c \in Requests, ReleaseHeld(c)
    PROVE  /\ ReservationStep
           /\ \A b \in Reservations : reservation[b].run \in request[c].scope =>
                  reservation'[b].status # "active"
<1>1. Held(c) \in SUBSET Reservations /\ \A b \in Held(c) : reservation[b].status = "active"
  BY DEF Held
<1>2. /\ reservation' = [b \in Reservations |->
            IF b \in Held(c) THEN [reservation[b] EXCEPT !.status = "released"] ELSE reservation[b]]
      /\ freed' = [b \in Reservations |-> freed[b] + (IF b \in Held(c) THEN 1 ELSE 0)]
  BY DEF ReleaseHeld
<1>3. ReservationStep /\ \A b \in Held(c) : reservation'[b].status # "active"
  BY <1>1, <1>2, FreesStep
<1>4. \A b \in Reservations : b \notin Held(c) => reservation'[b] = reservation[b]
  BY <1>2
<1>. QED BY <1>3, <1>4 DEF Held

-----------------------------------------------------------------------------
(* The actions on provider calls and tool effects.                         *)

LEMMA RecordCallStep ==
    ASSUME TableInv, NEW p \in Calls, NEW a \in Attempts, NEW s \in {"open"} \cup CallSettled,
           RecordProviderCall(p, a, s)
    PROVE  CallStep
<1>. DEFINE row == [status |-> s, attempt |-> a]
<1>1. row \in CallRow /\ row.attempt = a
  BY DEF CallRow
<1>2. call' = [call EXCEPT ![p] = row] /\ ~Exists(call[p]) /\ Exists(attempt[a])
  BY DEF RecordProviderCall
<1>. HIDE DEF row
<1>. QED BY <1>1, <1>2 DEF TableInv, TypeOK, RowsLinked, CallStep

LEMMA CancelCallsStep ==
    ASSUME TableInv, NEW c \in Requests, CancelCalls(c)
    PROVE  /\ CallStep
           /\ \A p \in Calls : call[p].attempt \in AttemptsOf(request[c].scope) =>
                  call'[p].status # "open"
<1>. DEFINE Hit(p) == call[p].status = "open" /\ call[p].attempt \in AttemptsOf(request[c].scope)
            row(p) == [call[p] EXCEPT !.status = "cancelled"]
<1>1. call' = [p \in Calls |-> IF Hit(p) THEN row(p) ELSE call[p]]
  BY DEF CancelCalls
<1>2. ASSUME NEW p \in Calls
      PROVE  /\ call'[p] \in CallRow \cup {Absent}
             /\ Exists(call[p]) =>
                   /\ Exists(call'[p]) /\ call'[p].attempt = call[p].attempt
                   /\ call[p].status # "open" => call'[p].status # "open"
             /\ Exists(call'[p]) => Exists(attempt[call'[p].attempt])
             /\ call[p].attempt \in AttemptsOf(request[c].scope) => call'[p].status # "open"
  <2>1. CASE Hit(p)
    <3>1. call'[p] = row(p) /\ Exists(call[p])
      BY <1>1, <2>1, Present DEF Exists
    <3>2. call[p] \in CallRow
      BY <3>1, Tables DEF TableInv
    <3>3. row(p) \in CallRow /\ row(p).attempt = call[p].attempt /\ row(p).status # "open"
      BY <3>2 DEF CallRow, CallSettled
    <3>. HIDE DEF row
    <3>. QED BY <2>1, <3>1, <3>3, NotAbsent DEF TableInv, RowsLinked
  <2>2. CASE ~Hit(p)
    <3>1. call'[p] = call[p]
      BY <1>1, <2>2
    <3>. QED BY <2>2, <3>1 DEF TableInv, TypeOK, RowsLinked
  <2>. QED BY <2>1, <2>2
<1>. HIDE DEF Hit, row
<1>. QED BY <1>1, <1>2 DEF CallStep

LEMMA RecordEffectStep ==
    ASSUME TableInv, NEW e \in Effects, NEW a \in Attempts, NEW s \in {"open"} \cup EffectSettled,
           RecordToolEffect(e, a, s)
    PROVE  EffectStep
<1>. DEFINE row == [status |-> s, attempt |-> a, reconciled |-> FALSE]
<1>1. row \in EffectRow /\ row.attempt = a
  BY DEF EffectRow
<1>2. effect' = [effect EXCEPT ![e] = row] /\ ~Exists(effect[e]) /\ Exists(attempt[a])
  BY DEF RecordToolEffect
<1>. HIDE DEF row
<1>. QED BY <1>1, <1>2 DEF TableInv, TypeOK, RowsLinked, EffectStep

LEMMA ReconcileStep ==
    ASSUME TableInv, NEW e \in Effects, ReconcileToolEffect(e)
    PROVE  EffectStep
<1>. DEFINE row == [effect[e] EXCEPT !.reconciled = TRUE]
<1>1. effect[e] \in EffectRow /\ Exists(effect[e])
  BY Tables DEF ReconcileToolEffect, TableInv
<1>2. row \in EffectRow /\ row.attempt = effect[e].attempt /\ row.status = effect[e].status
  BY <1>1 DEF EffectRow
<1>3. effect' = [effect EXCEPT ![e] = row]
  BY DEF ReconcileToolEffect
<1>4. Exists(row)
  BY <1>2, NotAbsent
<1>. HIDE DEF row
<1>. QED BY <1>1, <1>2, <1>3, <1>4 DEF TableInv, TypeOK, RowsLinked, EffectStep

LEMMA CancelEffectsStep ==
    ASSUME TableInv, NEW c \in Requests, CancelEffects(c)
    PROVE  /\ EffectStep
           /\ \A e \in Effects : effect[e].attempt \in AttemptsOf(request[c].scope) =>
                  effect'[e].status # "open"
<1>. DEFINE Hit(e) == effect[e].status = "open" /\ effect[e].attempt \in AttemptsOf(request[c].scope)
            row(e) == [effect[e] EXCEPT !.status = "cancelled", !.reconciled = TRUE]
<1>1. effect' = [e \in Effects |-> IF Hit(e) THEN row(e) ELSE effect[e]]
  BY DEF CancelEffects
<1>2. ASSUME NEW e \in Effects
      PROVE  /\ effect'[e] \in EffectRow \cup {Absent}
             /\ Exists(effect[e]) =>
                   /\ Exists(effect'[e]) /\ effect'[e].attempt = effect[e].attempt
                   /\ effect[e].status # "open" => effect'[e].status # "open"
             /\ Exists(effect'[e]) => Exists(attempt[effect'[e].attempt])
             /\ effect[e].attempt \in AttemptsOf(request[c].scope) => effect'[e].status # "open"
  <2>1. CASE Hit(e)
    <3>1. effect'[e] = row(e) /\ Exists(effect[e])
      BY <1>1, <2>1, Present DEF Exists
    <3>2. effect[e] \in EffectRow
      BY <3>1, Tables DEF TableInv
    <3>3. row(e) \in EffectRow /\ row(e).attempt = effect[e].attempt /\ row(e).status # "open"
      BY <3>2 DEF EffectRow, EffectSettled
    <3>. HIDE DEF row
    <3>. QED BY <2>1, <3>1, <3>3, NotAbsent DEF TableInv, RowsLinked
  <2>2. CASE ~Hit(e)
    <3>1. effect'[e] = effect[e]
      BY <1>1, <2>2
    <3>. QED BY <2>2, <3>1 DEF TableInv, TypeOK, RowsLinked
  <2>. QED BY <2>1, <2>2
<1>. HIDE DEF Hit, row
<1>. QED BY <1>1, <1>2 DEF EffectStep

-----------------------------------------------------------------------------
(* The inductive invariant.                                                *)

RunsDone(c) == \A r \in request[c].scope : RunEnded(r)
StepsDone(c) ==
    \A s \in request[c].known.steps : step[s].run \in request[c].scope => step[s].ended
AttemptsDone(c) ==
    \A a \in AttemptsOf(request[c].scope) \cap request[c].known.attempts :
        attempt[a].status \in AttemptTerminal
ReservationsDone(c) ==
    \A b \in request[c].known.reservations :
        reservation[b].run \in request[c].scope => reservation[b].status # "active"
CallsDone(c) ==
    \A p \in request[c].known.calls :
        call[p].attempt \in AttemptsOf(request[c].scope) => call[p].status # "open"
EffectsDone(c) ==
    \A e \in request[c].known.effects :
        effect[e].attempt \in AttemptsOf(request[c].scope) => effect[e].status # "open"

\* A request is past each table once the statement on it ran.
Left(c) ==
    /\ request[c].pc \notin {"runs"} => RunsDone(c)
    /\ request[c].pc \notin {"runs", "steps"} => StepsDone(c)
    /\ request[c].pc \notin {"runs", "steps", "attempts"} => AttemptsDone(c)
    /\ request[c].pc \notin {"runs", "steps", "attempts", "reservations"} => ReservationsDone(c)
    /\ request[c].pc \notin {"runs", "steps", "attempts", "reservations", "calls"} => CallsDone(c)
    /\ request[c].pc \in {"log", "done"} => EffectsDone(c)

\* The rows it read are there.
Read(c) ==
    /\ request[c].root \in request[c].scope
    /\ \A r \in request[c].scope : Exists(run[r])
    /\ \A s \in request[c].known.steps : Exists(step[s])
    /\ \A a \in request[c].known.attempts : Exists(attempt[a])
    /\ \A b \in request[c].known.reservations : Exists(reservation[b])
    /\ \A p \in request[c].known.calls : Exists(call[p])
    /\ \A e \in request[c].known.effects : Exists(effect[e])

\* The status of the root cannot change before the request writes it.
Answered(c) ==
    /\ request[c].pc = "runs" => (request[c].cancelled <=> ~RunEnded(request[c].root))
    /\ request[c].pc # "runs" => (request[c].cancelled <=> request[c].root \in request[c].stopped)

\* It read everything there is directly below the root.
Sealed(c) ==
    /\ request[c].propagate =>
          \A r \in Runs : Exists(run[r]) /\ run[r].parent = request[c].root => r \in request[c].scope
    /\ \A s \in Steps :
          Exists(step[s]) /\ step[s].run = request[c].root => s \in request[c].known.steps
    /\ \A b \in Reservations :
          Exists(reservation[b]) /\ reservation[b].run = request[c].root =>
              b \in request[c].known.reservations

RequestInv(c) == Left(c) /\ Read(c) /\ Answered(c) /\ (Open(c) => Sealed(c))

DagInv == TableInv /\ \A c \in Requests : request[c] # Idle => RequestInv(c)

LEMMA InitDag == Init => DagInv
<1>. SUFFICES ASSUME Init PROVE DagInv
  OBVIOUS
<1>1. TypeOK
  BY DEF Init, TypeOK
<1>2. FreedOnce
  BY Present DEF Init, FreedOnce
<1>3. RowsLinked
  BY DEF Init, RowsLinked, Exists
<1>4. \A c \in Requests : request[c] = Idle
  BY DEF Init
<1>. QED BY <1>1, <1>2, <1>3, <1>4 DEF DagInv, TableInv

-----------------------------------------------------------------------------
(* What is done stays done, and what is sealed stays sealed.               *)

AllSteps == RunStep /\ StepStep /\ AttemptStep /\ ReservationStep /\ CallStep /\ EffectStep

SameReading(c) ==
    /\ request'[c].root = request[c].root
    /\ request'[c].scope = request[c].scope
    /\ request'[c].known = request[c].known
    /\ request'[c].propagate = request[c].propagate
    /\ request'[c].cancelled = request[c].cancelled

LEMMA RequestType ==
    ASSUME TypeOK, NEW c \in Requests, request[c] # Idle
    PROVE  /\ request[c] \in RequestRow
           /\ request[c].scope \in SUBSET Runs /\ request[c].root \in Runs
           /\ request[c].pc \in Statements \cup {"done"}
           /\ request[c].known.steps \in SUBSET Steps
           /\ request[c].known.attempts \in SUBSET Attempts
           /\ request[c].known.reservations \in SUBSET Reservations
           /\ request[c].known.calls \in SUBSET Calls
           /\ request[c].known.effects \in SUBSET Effects
<1>1. request[c] \in RequestRow
  BY DEF TypeOK
<1>. QED BY <1>1 DEF RequestRow

LEMMA ReadPersists ==
    ASSUME TableInv, AllSteps, NEW c \in Requests, request[c] # Idle, Read(c), SameReading(c)
    PROVE  Read(c)'
BY RequestType DEF TableInv, AllSteps, Read, SameReading, RunStep, StepStep, AttemptStep,
                   ReservationStep, CallStep, EffectStep

\* An attempt that exists stays in the runs it was in.
LEMMA AttemptsStay ==
    ASSUME TableInv, AllSteps, NEW c \in Requests, SameReading(c),
           NEW a \in Attempts, Exists(attempt[a])
    PROVE  a \in AttemptsOf(request[c].scope)' <=> a \in AttemptsOf(request[c].scope)
<1>1. attempt[a].step \in Steps /\ Exists(step[attempt[a].step])
  BY Tables DEF TableInv, RowsLinked, AttemptRow
<1>. QED BY <1>1 DEF AllSteps, SameReading, AttemptsOf, AttemptStep, StepStep

LEMMA DonePersists ==
    ASSUME TableInv, AllSteps, NEW c \in Requests, request[c] # Idle, Read(c), SameReading(c)
    PROVE  /\ RunsDone(c) => RunsDone(c)'
           /\ StepsDone(c) => StepsDone(c)'
           /\ AttemptsDone(c) => AttemptsDone(c)'
           /\ ReservationsDone(c) => ReservationsDone(c)'
           /\ CallsDone(c) => CallsDone(c)'
           /\ EffectsDone(c) => EffectsDone(c)'
<1>0. /\ request[c].scope \in SUBSET Runs
      /\ request[c].known.steps \in SUBSET Steps
      /\ request[c].known.attempts \in SUBSET Attempts
      /\ request[c].known.reservations \in SUBSET Reservations
      /\ request[c].known.calls \in SUBSET Calls
      /\ request[c].known.effects \in SUBSET Effects
  BY RequestType DEF TableInv
<1>1. RunsDone(c) => RunsDone(c)'
  BY <1>0 DEF AllSteps, RunStep, Read, SameReading, RunsDone, RunEnded
<1>2. StepsDone(c) => StepsDone(c)'
  BY <1>0 DEF AllSteps, StepStep, Read, SameReading, StepsDone
<1>3. AttemptsDone(c) => AttemptsDone(c)'
  <2>1. \A a \in request[c].known.attempts :
            /\ a \in AttemptsOf(request[c].scope)' <=> a \in AttemptsOf(request[c].scope)
            /\ attempt[a].status \in AttemptTerminal => attempt'[a].status \in AttemptTerminal
    BY <1>0, AttemptsStay DEF AllSteps, AttemptStep, Read
  <2>. QED BY <2>1 DEF SameReading, AttemptsDone
<1>4. ReservationsDone(c) => ReservationsDone(c)'
  BY <1>0 DEF AllSteps, ReservationStep, Read, SameReading, ReservationsDone
<1>5. CallsDone(c) => CallsDone(c)'
  <2>1. ASSUME NEW p \in request[c].known.calls
        PROVE  /\ call'[p].attempt \in AttemptsOf(request[c].scope)' <=>
                      call[p].attempt \in AttemptsOf(request[c].scope)
               /\ call[p].status # "open" => call'[p].status # "open"
    <3>1. Exists(call[p]) /\ p \in Calls
      BY <1>0 DEF Read
    <3>2. call[p].attempt \in Attempts /\ Exists(attempt[call[p].attempt])
      BY <3>1, Tables DEF TableInv, RowsLinked, CallRow
    <3>3. /\ call'[p].attempt = call[p].attempt
          /\ call[p].status # "open" => call'[p].status # "open"
      BY <3>1 DEF AllSteps, CallStep
    <3>. QED BY <3>2, <3>3, AttemptsStay
  <2>. QED BY <2>1 DEF SameReading, CallsDone
<1>6. EffectsDone(c) => EffectsDone(c)'
  <2>1. ASSUME NEW e \in request[c].known.effects
        PROVE  /\ effect'[e].attempt \in AttemptsOf(request[c].scope)' <=>
                      effect[e].attempt \in AttemptsOf(request[c].scope)
               /\ effect[e].status # "open" => effect'[e].status # "open"
    <3>1. Exists(effect[e]) /\ e \in Effects
      BY <1>0 DEF Read
    <3>2. effect[e].attempt \in Attempts /\ Exists(attempt[effect[e].attempt])
      BY <3>1, Tables DEF TableInv, RowsLinked, EffectRow
    <3>3. /\ effect'[e].attempt = effect[e].attempt
          /\ effect[e].status # "open" => effect'[e].status # "open"
      BY <3>1 DEF AllSteps, EffectStep
    <3>. QED BY <3>2, <3>3, AttemptsStay
  <2>. QED BY <2>1 DEF SameReading, EffectsDone
<1>. QED BY <1>1, <1>2, <1>3, <1>4, <1>5, <1>6

\* SELECT ... FOR UPDATE on the root keeps inserts below it out.
LEMMA SealPersists ==
    ASSUME TableInv, AllSteps, NEW c \in Requests, Open(c), Sealed(c), SameReading(c)
    PROVE  Sealed(c)'
<1>1. Locked(request[c].root)
  BY DEF Locked
<1>2. \A r \in Runs : Exists(run'[r]) /\ run'[r].parent = request[c].root =>
          Exists(run[r]) /\ run[r].parent = request[c].root
  BY <1>1 DEF AllSteps, RunStep
<1>3. \A s \in Steps : Exists(step'[s]) /\ step'[s].run = request[c].root =>
          Exists(step[s]) /\ step[s].run = request[c].root
  BY <1>1 DEF AllSteps, StepStep
<1>4. \A b \in Reservations : Exists(reservation'[b]) /\ reservation'[b].run = request[c].root =>
          Exists(reservation[b]) /\ reservation[b].run = request[c].root
  BY <1>1 DEF AllSteps, ReservationStep
<1>. QED BY <1>2, <1>3, <1>4 DEF SameReading, Sealed

-----------------------------------------------------------------------------
(* A request that another action leaves alone.                             *)

\* Its root is as it was while it waits for the first statement.
RootKept(c) ==
    request[c].pc = "runs" =>
        (run'[request[c].root].status \in RunTerminal <=> RunEnded(request[c].root))

LEMMA OthersKept ==
    ASSUME TableInv, AllSteps, NEW c \in Requests, request[c] # Idle, RequestInv(c),
           request'[c] = request[c], RootKept(c)
    PROVE  RequestInv(c)'
<1>1. SameReading(c)
  BY DEF SameReading
<1>2. Read(c)' /\ (Open(c) => Sealed(c)')
  BY <1>1, ReadPersists, SealPersists DEF RequestInv
<1>3. Left(c)'
  BY <1>1, DonePersists DEF RequestInv, Left
<1>4. Answered(c)'
  BY DEF RequestInv, Answered, RootKept, RunEnded
<1>. QED BY <1>2, <1>3, <1>4 DEF RequestInv, Open

\* A request that runs a statement after the first.
LEMMA StatementRun ==
    ASSUME TableInv, AllSteps, NEW c \in Requests, request[c] # Idle, RequestInv(c),
           SameReading(c), request'[c].stopped = request[c].stopped, Open(c),
           request[c].pc # "runs", request'[c].pc # "runs", Left(c)'
    PROVE  RequestInv(c)'
<1>1. Read(c)' /\ Sealed(c)'
  BY ReadPersists, SealPersists DEF RequestInv
<1>2. Answered(c)'
  BY DEF RequestInv, Answered, SameReading
<1>. QED BY <1>1, <1>2 DEF RequestInv

-----------------------------------------------------------------------------
(* The statements of request_cancellation.                                 *)

\* What a statement of request c does to the requests.
Statement(c) ==
    /\ request' \in [Requests -> RequestRow \cup {Idle}]
    /\ AllSteps
    /\ \A d \in Requests : d # c => request'[d] = request[d] /\ RootKept(d)
    /\ request'[c] # Idle /\ RequestInv(c)'

LEMMA NotIdle ==
    /\ \A q \in RequestRow : q # Idle
    /\ Idle.pc \notin Statements \cup {"done"}
BY DEF RequestRow, Idle, Statements

LEMMA RunsUnchanged ==
    ASSUME NEW d \in Requests, UNCHANGED run
    PROVE  RootKept(d)
BY DEF RootKept, RunEnded

LEMMA CancelBeginStatement ==
    ASSUME DagInv, NEW c \in Requests, NEW r \in Runs, NEW propagate \in BOOLEAN,
           CancelBegin(c, r, propagate)
    PROVE  Statement(c)
<1>. DEFINE q == [pc |-> "runs", root |-> r, propagate |-> propagate,
                  scope |-> IF propagate THEN Subtree(r) ELSE {r},
                  cancelled |-> ~RunEnded(r), stopped |-> {}, known |-> Rows,
                  released |-> {}, calls |-> {}, effects |-> {}]
            scope == IF propagate THEN Subtree(r) ELSE {r}
<1>1. /\ request' = [request EXCEPT ![c] = q] /\ Exists(run[r]) /\ request[c] = Idle
      /\ UNCHANGED <<run, step, attempt, reservation, call, effect, freed>>
  BY DEF CancelBegin
<1>2. AllSteps
  BY <1>1, RunKept, StepKept, AttemptKept, ReservationKept, CallKept, EffectKept DEF AllSteps, DagInv
<1>3. r \in scope /\ scope \in SUBSET Runs /\ \A x \in scope : Exists(run[x])
  <2>1. r \in Subtree(r) /\ Subtree(r) \in SUBSET Runs
    BY DEF Subtree
  <2>2. \A x \in Subtree(r) : Exists(run[x])
    <3>. DEFINE D == {y \in Runs : Exists(run[y])}
    <3>1. D \in SUBSET Runs /\ r \in D /\ \A y \in Runs : Exists(run[y]) /\ run[y].parent \in D => y \in D
      BY <1>1
    <3>. QED BY <3>1 DEF Subtree
  <2>. QED BY <1>1, <2>1, <2>2
<1>4. propagate => \A x \in Runs : Exists(run[x]) /\ run[x].parent = r => x \in scope
  BY DEF Subtree
<1>5. q \in RequestRow
  <2>1. Rows \in [steps : SUBSET Steps, attempts : SUBSET Attempts, reservations : SUBSET Reservations,
                  calls : SUBSET Calls, effects : SUBSET Effects]
    BY DEF Rows
  <2>2. (~RunEnded(r)) \in BOOLEAN /\ "runs" \in Statements \cup {"done"}
    BY DEF Statements
  <2>. HIDE DEF scope
  <2>. QED BY <1>3, <2>1, <2>2 DEF scope, RequestRow
<1>6. request \in [Requests -> RequestRow \cup {Idle}]
  BY DEF DagInv, TableInv, TypeOK
<1>7. request' \in [Requests -> RequestRow \cup {Idle}] /\ request'[c] = q
  BY <1>1, <1>5, <1>6
<1>8. q.pc = "runs" /\ q.root = r /\ q.propagate = propagate /\ q.scope = scope
      /\ (q.cancelled <=> ~RunEnded(r)) /\ q.known = Rows
  OBVIOUS
<1>. HIDE DEF q, scope
<1>9. Left(c)'
  BY <1>7, <1>8 DEF Left
<1>10. Read(c)'
  BY <1>1, <1>3, <1>7, <1>8 DEF Read, Rows
<1>11. Answered(c)'
  BY <1>1, <1>7, <1>8 DEF Answered, RunEnded
<1>12. Sealed(c)'
  BY <1>1, <1>4, <1>7, <1>8 DEF Sealed, Rows
<1>13. \A d \in Requests : d # c => request'[d] = request[d] /\ RootKept(d)
  BY <1>1, <1>6, RunsUnchanged
<1>. QED BY <1>2, <1>5, <1>7, <1>9, <1>10, <1>11, <1>12, <1>13, NotIdle DEF Statement, RequestInv

LEMMA CancelRunsStatement ==
    ASSUME DagInv, NEW c \in Requests, CancelRuns(c)
    PROVE  Statement(c)
<1>. DEFINE stopped == {r \in request[c].scope : ~RunEnded(r)}
            q == [request[c] EXCEPT !.pc = "steps", !.stopped = stopped]
<1>0. request \in [Requests -> RequestRow \cup {Idle}]
  BY DEF DagInv, TableInv, TypeOK
<1>1. /\ request[c].pc = "runs" /\ request[c] # Idle
      /\ request' = [request EXCEPT ![c] = q]
      /\ run' = [r \in Runs |-> IF r \in request[c].scope THEN CancelledRun(run[r]) ELSE run[r]]
      /\ UNCHANGED <<step, attempt, reservation, call, effect, freed>>
  <2>1. request' = [request EXCEPT ![c].pc = "steps", ![c].stopped = stopped]
    BY DEF CancelRuns
  <2>2. request' = [request EXCEPT ![c] = q]
    <3>. HIDE DEF stopped
    <3>. QED BY <1>0, <2>1
  <2>3. request[c].pc = "runs"
    BY DEF CancelRuns
  <2>4. request[c] # Idle
    BY <2>3 DEF Idle
  <2>5. /\ run' = [r \in Runs |-> IF r \in request[c].scope THEN CancelledRun(run[r]) ELSE run[r]]
        /\ UNCHANGED <<step, attempt, reservation, call, effect, freed>>
    BY DEF CancelRuns
  <2>. QED BY <2>2, <2>3, <2>4, <2>5
<1>2. TableInv /\ RequestInv(c) /\ request[c] \in RequestRow
      /\ request[c].scope \in SUBSET Runs /\ request[c].root \in Runs
  BY <1>1, RequestType DEF DagInv, TableInv
<1>3. AllSteps
  BY <1>1, <1>2, CancelRunsStep, StepKept, AttemptKept, ReservationKept, CallKept, EffectKept
     DEF AllSteps, RequestInv, Read
<1>4. q \in RequestRow /\ q.pc = "steps" /\ q.stopped = stopped
      /\ q.root = request[c].root /\ q.scope = request[c].scope /\ q.known = request[c].known
      /\ q.propagate = request[c].propagate /\ q.cancelled = request[c].cancelled
  <2>1. stopped \in SUBSET Runs /\ "steps" \in Statements
    BY <1>2 DEF Statements
  <2>. HIDE DEF stopped
  <2>. QED BY <1>2, <2>1 DEF RequestRow
<1>5. request \in [Requests -> RequestRow \cup {Idle}]
  BY <1>2 DEF TableInv, TypeOK
<1>. HIDE DEF q
<1>6. request' \in [Requests -> RequestRow \cup {Idle}] /\ request'[c] = q
  BY <1>1, <1>4, <1>5
<1>7. SameReading(c)
  BY <1>4, <1>6 DEF SameReading
<1>8. Read(c)' /\ Sealed(c)'
  <2>1. Open(c)
    BY <1>1 DEF Open, Statements
  <2>. QED BY <1>1, <1>2, <1>3, <1>7, <2>1, ReadPersists, SealPersists DEF RequestInv
<1>9. RunsDone(c)'
  <2>1. ASSUME NEW r \in request[c].scope
        PROVE  run'[r].status \in RunTerminal
    <3>1. r \in Runs /\ run[r] \in RunRow
      BY <1>2, Tables DEF TableInv, RequestInv, Read
    <3>2. run'[r] = CancelledRun(run[r])
      BY <1>1, <3>1
    <3>. QED BY <3>1, <3>2 DEF CancelledRun, RunRow, RunTerminal
  <2>. QED BY <1>4, <1>6, <2>1 DEF RunsDone, RunEnded
<1>10. Left(c)'
  BY <1>4, <1>6, <1>9 DEF Left
<1>11. Answered(c)'
  BY <1>1, <1>2, <1>4, <1>6 DEF Answered, RequestInv, Read
<1>12. ASSUME NEW d \in Requests, d # c
       PROVE  request'[d] = request[d] /\ RootKept(d)
  <2>1. request'[d] = request[d]
    BY <1>1, <1>5, <1>12
  <2>2. ASSUME request[d].pc = "runs"
        PROVE  run'[request[d].root].status \in RunTerminal <=> RunEnded(request[d].root)
    <3>. DEFINE r == request[d].root
    <3>1. Open(d) /\ r \in Runs
      BY <1>2, <2>2, RequestType DEF Open, Statements, Idle, TableInv
    <3>2. r \in request[c].scope => RunEnded(r)
      BY <1>12, <3>1 DEF CancelRuns
    <3>3. run'[r] = run[r]
      BY <1>1, <3>1, <3>2 DEF CancelledRun, RunEnded
    <3>. QED BY <2>1, <3>3 DEF RunEnded
  <2>. QED BY <2>1, <2>2 DEF RootKept
<1>. QED BY <1>3, <1>4, <1>6, <1>8, <1>10, <1>11, <1>12, NotIdle DEF Statement, RequestInv

\* A statement after the first, from its effect on its own table.
LEMMA LaterStatement ==
    ASSUME DagInv, NEW c \in Requests, Open(c), request[c].pc # "runs", NEW q \in RequestRow,
           q.pc # "runs", q.stopped = request[c].stopped,
           q.root = request[c].root, q.scope = request[c].scope, q.known = request[c].known,
           q.propagate = request[c].propagate, q.cancelled = request[c].cancelled,
           request' = [request EXCEPT ![c] = q], UNCHANGED run, AllSteps,
           SameReading(c) => Left(c)'
    PROVE  Statement(c)
<1>1. request \in [Requests -> RequestRow \cup {Idle}] /\ request[c] # Idle /\ TableInv
  BY DEF DagInv, TableInv, TypeOK, Open, Idle, Statements
<1>2. request' \in [Requests -> RequestRow \cup {Idle}] /\ request'[c] = q
  BY <1>1
<1>3. SameReading(c)
  BY <1>2 DEF SameReading
<1>4. RequestInv(c)'
  BY <1>1, <1>2, <1>3, StatementRun DEF DagInv
<1>5. \A d \in Requests : d # c => request'[d] = request[d] /\ RootKept(d)
  BY <1>1, RunsUnchanged
<1>. QED BY <1>2, <1>4, <1>5, NotIdle DEF Statement

LEMMA CancelStepsStatement ==
    ASSUME DagInv, NEW c \in Requests, CancelSteps(c)
    PROVE  Statement(c)
<1>. DEFINE q == [request[c] EXCEPT !.pc = "attempts"]
<1>1. /\ request[c].pc = "steps" /\ request' = [request EXCEPT ![c] = q]
      /\ UNCHANGED <<run, attempt, reservation, call, effect, freed>>
  BY DEF CancelSteps
<1>2. Open(c) /\ request[c] # Idle /\ TableInv /\ request \in [Requests -> RequestRow \cup {Idle}]
  BY <1>1 DEF Open, Statements, Idle, DagInv, TableInv, TypeOK
<1>3. /\ StepStep
      /\ \A s \in Steps : Exists(step[s]) /\ step[s].run \in request[c].scope => step'[s].ended
  BY <1>2, CancelStepsStep
<1>4. AllSteps
  BY <1>1, <1>2, <1>3, RunKept, AttemptKept, ReservationKept, CallKept, EffectKept DEF AllSteps
<1>5. /\ q \in RequestRow /\ q.pc = "attempts" /\ q.stopped = request[c].stopped
      /\ q.root = request[c].root /\ q.scope = request[c].scope /\ q.known = request[c].known
      /\ q.propagate = request[c].propagate /\ q.cancelled = request[c].cancelled
  BY <1>2, RequestType DEF TableInv, RequestRow, Statements
<1>. HIDE DEF q
<1>6. SameReading(c) => Left(c)'
  <2>. SUFFICES ASSUME SameReading(c) PROVE Left(c)'
    OBVIOUS
  <2>1. RequestInv(c)
    BY <1>2 DEF DagInv
  <2>2. RunsDone(c)'
    BY <1>1, <1>2, <1>4, <2>1, DonePersists DEF RequestInv, Left
  <2>3. StepsDone(c)'
    <3>1. \A s \in request[c].known.steps : s \in Steps /\ Exists(step[s]) /\ step'[s].run = step[s].run
      BY <1>2, <1>3, <2>1, RequestType DEF TableInv, RequestInv, Read, StepStep
    <3>. QED BY <1>3, <3>1 DEF StepsDone, SameReading
  <2>. QED BY <1>1, <1>2, <1>5, <2>2, <2>3 DEF Left
<1>. QED BY <1>1, <1>2, <1>4, <1>5, <1>6, LaterStatement

LEMMA CancelAttemptsStatement ==
    ASSUME DagInv, NEW c \in Requests, CancelAttempts(c)
    PROVE  Statement(c)
<1>. DEFINE q == [request[c] EXCEPT !.pc = "reservations"]
<1>0. request \in [Requests -> RequestRow \cup {Idle}] /\ TableInv
  BY DEF DagInv, TableInv, TypeOK
<1>1. request[c].pc = "attempts" /\ UNCHANGED <<run, step, reservation, call, effect, freed>>
  BY DEF CancelAttempts
<1>2. request' = [request EXCEPT ![c] = q]
  BY DEF CancelAttempts
<1>3. Open(c) /\ request[c] # Idle
  BY <1>1 DEF Open, Statements, Idle
<1>4. /\ AttemptStep
      /\ \A a \in AttemptsOf(request[c].scope) : attempt'[a].status \in AttemptTerminal
  BY <1>0, CancelAttemptsStep
<1>5. AllSteps
  BY <1>0, <1>1, <1>4, RunKept, StepKept, ReservationKept, CallKept, EffectKept DEF AllSteps
<1>6. /\ q \in RequestRow /\ q.pc = "reservations" /\ q.stopped = request[c].stopped
      /\ q.root = request[c].root /\ q.scope = request[c].scope /\ q.known = request[c].known
      /\ q.propagate = request[c].propagate /\ q.cancelled = request[c].cancelled
  BY <1>0, <1>3, RequestType DEF TableInv, RequestRow, Statements
<1>. HIDE DEF q
<1>7. SameReading(c) => Left(c)'
  <2>. SUFFICES ASSUME SameReading(c) PROVE Left(c)'
    OBVIOUS
  <2>1. RequestInv(c)
    BY <1>3 DEF DagInv
  <2>2. RunsDone(c)' /\ StepsDone(c)'
    BY <1>0, <1>1, <1>3, <1>5, <2>1, DonePersists DEF RequestInv, Left
  <2>3. AttemptsDone(c)'
    <3>1. \A a \in request[c].known.attempts :
              a \in AttemptsOf(request[c].scope)' <=> a \in AttemptsOf(request[c].scope)
      BY <1>0, <1>3, <1>5, <2>1, RequestType, AttemptsStay DEF TableInv, RequestInv, Read
    <3>. QED BY <1>4, <3>1 DEF AttemptsDone, SameReading
  <2>. QED BY <1>0, <1>2, <1>6, <2>2, <2>3 DEF Left
<1>. QED BY <1>1, <1>2, <1>3, <1>5, <1>6, <1>7, LaterStatement

LEMMA ReleaseHeldStatement ==
    ASSUME DagInv, NEW c \in Requests, ReleaseHeld(c)
    PROVE  Statement(c)
<1>. DEFINE q == [request[c] EXCEPT !.pc = "calls", !.released = Held(c)]
<1>0. request \in [Requests -> RequestRow \cup {Idle}] /\ TableInv
  BY DEF DagInv, TableInv, TypeOK
<1>1. request[c].pc = "reservations" /\ UNCHANGED <<run, step, attempt, call, effect>>
  BY DEF ReleaseHeld
<1>2. request' = [request EXCEPT ![c] = q]
  <2>1. request' = [request EXCEPT ![c].pc = "calls", ![c].released = Held(c)]
    BY DEF ReleaseHeld
  <2>. QED BY <1>0, <2>1
<1>3. Open(c) /\ request[c] # Idle
  BY <1>1 DEF Open, Statements, Idle
<1>4. /\ ReservationStep
      /\ \A b \in Reservations : reservation[b].run \in request[c].scope =>
             reservation'[b].status # "active"
  BY <1>0, ReleaseHeldStep
<1>5. AllSteps
  BY <1>0, <1>1, <1>4, RunKept, StepKept, AttemptKept, CallKept, EffectKept DEF AllSteps
<1>6. /\ q \in RequestRow /\ q.pc = "calls" /\ q.stopped = request[c].stopped
      /\ q.root = request[c].root /\ q.scope = request[c].scope /\ q.known = request[c].known
      /\ q.propagate = request[c].propagate /\ q.cancelled = request[c].cancelled
  <2>1. Held(c) \in SUBSET Reservations
    BY DEF Held
  <2>. QED BY <1>0, <1>3, <2>1, RequestType DEF TableInv, RequestRow, Statements
<1>. HIDE DEF q
<1>7. SameReading(c) => Left(c)'
  <2>. SUFFICES ASSUME SameReading(c) PROVE Left(c)'
    OBVIOUS
  <2>1. RequestInv(c)
    BY <1>3 DEF DagInv
  <2>2. RunsDone(c)' /\ StepsDone(c)' /\ AttemptsDone(c)'
    BY <1>0, <1>1, <1>3, <1>5, <2>1, DonePersists DEF RequestInv, Left
  <2>3. ReservationsDone(c)'
    <3>1. \A b \in request[c].known.reservations :
              b \in Reservations /\ reservation'[b].run = reservation[b].run
      BY <1>0, <1>3, <1>4, <2>1, RequestType DEF TableInv, RequestInv, Read, ReservationStep
    <3>. QED BY <1>4, <3>1 DEF ReservationsDone, SameReading
  <2>. QED BY <1>0, <1>2, <1>6, <2>2, <2>3 DEF Left
<1>. QED BY <1>1, <1>2, <1>3, <1>5, <1>6, <1>7, LaterStatement

LEMMA CancelCallsStatement ==
    ASSUME DagInv, NEW c \in Requests, CancelCalls(c)
    PROVE  Statement(c)
<1>. DEFINE open == {p \in Calls :
                        call[p].status = "open" /\ call[p].attempt \in AttemptsOf(request[c].scope)}
            q == [request[c] EXCEPT !.pc = "effects", !.calls = open]
<1>0. request \in [Requests -> RequestRow \cup {Idle}] /\ TableInv
  BY DEF DagInv, TableInv, TypeOK
<1>1. request[c].pc = "calls" /\ UNCHANGED <<run, step, attempt, reservation, effect, freed>>
  BY DEF CancelCalls
<1>2. request' = [request EXCEPT ![c] = q]
  <2>1. request' = [request EXCEPT ![c].pc = "effects", ![c].calls = open]
    BY DEF CancelCalls
  <2>. HIDE DEF open
  <2>. QED BY <1>0, <2>1
<1>3. Open(c) /\ request[c] # Idle
  BY <1>1 DEF Open, Statements, Idle
<1>4. /\ CallStep
      /\ \A p \in Calls : call[p].attempt \in AttemptsOf(request[c].scope) =>
             call'[p].status # "open"
  BY <1>0, CancelCallsStep
<1>5. AllSteps
  BY <1>0, <1>1, <1>4, RunKept, StepKept, AttemptKept, ReservationKept, EffectKept DEF AllSteps
<1>6. /\ q \in RequestRow /\ q.pc = "effects" /\ q.stopped = request[c].stopped
      /\ q.root = request[c].root /\ q.scope = request[c].scope /\ q.known = request[c].known
      /\ q.propagate = request[c].propagate /\ q.cancelled = request[c].cancelled
  <2>1. open \in SUBSET Calls
    OBVIOUS
  <2>. HIDE DEF open
  <2>. QED BY <1>0, <1>3, <2>1, RequestType DEF TableInv, RequestRow, Statements
<1>. HIDE DEF q
<1>7. SameReading(c) => Left(c)'
  <2>. SUFFICES ASSUME SameReading(c) PROVE Left(c)'
    OBVIOUS
  <2>1. RequestInv(c)
    BY <1>3 DEF DagInv
  <2>2. RunsDone(c)' /\ StepsDone(c)' /\ AttemptsDone(c)' /\ ReservationsDone(c)'
    BY <1>0, <1>1, <1>3, <1>5, <2>1, DonePersists DEF RequestInv, Left
  <2>3. CallsDone(c)'
    <3>1. ASSUME NEW p \in request[c].known.calls, call'[p].attempt \in AttemptsOf(request[c].scope)'
          PROVE  call'[p].status # "open"
      <4>1. p \in Calls /\ Exists(call[p])
        BY <1>0, <1>3, <2>1, RequestType DEF TableInv, RequestInv, Read
      <4>2. call[p].attempt \in Attempts /\ Exists(attempt[call[p].attempt])
        BY <1>0, <4>1, Tables DEF TableInv, RowsLinked, CallRow
      <4>3. call'[p].attempt = call[p].attempt
        BY <1>4, <4>1 DEF CallStep
      <4>4. call[p].attempt \in AttemptsOf(request[c].scope)
        BY <1>0, <1>5, <3>1, <4>2, <4>3, AttemptsStay
      <4>. QED BY <1>4, <4>1, <4>4
    <3>. QED BY <3>1 DEF CallsDone, SameReading
  <2>. QED BY <1>0, <1>2, <1>6, <2>2, <2>3 DEF Left
<1>. QED BY <1>1, <1>2, <1>3, <1>5, <1>6, <1>7, LaterStatement

LEMMA CancelEffectsStatement ==
    ASSUME DagInv, NEW c \in Requests, CancelEffects(c)
    PROVE  Statement(c)
<1>. DEFINE open == {e \in Effects :
                        effect[e].status = "open" /\ effect[e].attempt \in AttemptsOf(request[c].scope)}
            q == [request[c] EXCEPT !.pc = "log", !.effects = open]
<1>0. request \in [Requests -> RequestRow \cup {Idle}] /\ TableInv
  BY DEF DagInv, TableInv, TypeOK
<1>1. request[c].pc = "effects" /\ UNCHANGED <<run, step, attempt, reservation, call, freed>>
  BY DEF CancelEffects
<1>2. request' = [request EXCEPT ![c] = q]
  <2>1. request' = [request EXCEPT ![c].pc = "log", ![c].effects = open]
    BY DEF CancelEffects
  <2>. HIDE DEF open
  <2>. QED BY <1>0, <2>1
<1>3. Open(c) /\ request[c] # Idle
  BY <1>1 DEF Open, Statements, Idle
<1>4. /\ EffectStep
      /\ \A e \in Effects : effect[e].attempt \in AttemptsOf(request[c].scope) =>
             effect'[e].status # "open"
  BY <1>0, CancelEffectsStep
<1>5. AllSteps
  BY <1>0, <1>1, <1>4, RunKept, StepKept, AttemptKept, ReservationKept, CallKept DEF AllSteps
<1>6. /\ q \in RequestRow /\ q.pc = "log" /\ q.stopped = request[c].stopped
      /\ q.root = request[c].root /\ q.scope = request[c].scope /\ q.known = request[c].known
      /\ q.propagate = request[c].propagate /\ q.cancelled = request[c].cancelled
  <2>1. open \in SUBSET Effects
    OBVIOUS
  <2>. HIDE DEF open
  <2>. QED BY <1>0, <1>3, <2>1, RequestType DEF TableInv, RequestRow, Statements
<1>. HIDE DEF q
<1>7. SameReading(c) => Left(c)'
  <2>. SUFFICES ASSUME SameReading(c) PROVE Left(c)'
    OBVIOUS
  <2>1. RequestInv(c)
    BY <1>3 DEF DagInv
  <2>2. RunsDone(c)' /\ StepsDone(c)' /\ AttemptsDone(c)' /\ ReservationsDone(c)' /\ CallsDone(c)'
    BY <1>0, <1>1, <1>3, <1>5, <2>1, DonePersists DEF RequestInv, Left
  <2>3. EffectsDone(c)'
    <3>1. ASSUME NEW e \in request[c].known.effects, effect'[e].attempt \in AttemptsOf(request[c].scope)'
          PROVE  effect'[e].status # "open"
      <4>1. e \in Effects /\ Exists(effect[e])
        BY <1>0, <1>3, <2>1, RequestType DEF TableInv, RequestInv, Read
      <4>2. effect[e].attempt \in Attempts /\ Exists(attempt[effect[e].attempt])
        BY <1>0, <4>1, Tables DEF TableInv, RowsLinked, EffectRow
      <4>3. effect'[e].attempt = effect[e].attempt
        BY <1>4, <4>1 DEF EffectStep
      <4>4. effect[e].attempt \in AttemptsOf(request[c].scope)
        BY <1>0, <1>5, <3>1, <4>2, <4>3, AttemptsStay
      <4>. QED BY <1>4, <4>1, <4>4
    <3>. QED BY <3>1 DEF EffectsDone, SameReading
  <2>. QED BY <1>0, <1>2, <1>6, <2>2, <2>3 DEF Left
<1>. QED BY <1>1, <1>2, <1>3, <1>5, <1>6, <1>7, LaterStatement

LEMMA CancelCommitStatement ==
    ASSUME DagInv, NEW c \in Requests, CancelCommit(c)
    PROVE  Statement(c)
<1>. DEFINE q == [request[c] EXCEPT !.pc = "done"]
<1>0. request \in [Requests -> RequestRow \cup {Idle}] /\ TableInv
  BY DEF DagInv, TableInv, TypeOK
<1>1. /\ request[c].pc = "log" /\ request' = [request EXCEPT ![c] = q]
      /\ UNCHANGED <<run, step, attempt, reservation, call, effect, freed>>
  BY DEF CancelCommit
<1>2. Open(c) /\ request[c] # Idle
  BY <1>1 DEF Open, Statements, Idle
<1>3. AllSteps
  BY <1>0, <1>1, RunKept, StepKept, AttemptKept, ReservationKept, CallKept, EffectKept DEF AllSteps
<1>4. /\ q \in RequestRow /\ q.pc = "done" /\ q.stopped = request[c].stopped
      /\ q.root = request[c].root /\ q.scope = request[c].scope /\ q.known = request[c].known
      /\ q.propagate = request[c].propagate /\ q.cancelled = request[c].cancelled
  BY <1>0, <1>2, RequestType DEF TableInv, RequestRow
<1>. HIDE DEF q
<1>5. SameReading(c) => Left(c)'
  <2>. SUFFICES ASSUME SameReading(c) PROVE Left(c)'
    OBVIOUS
  <2>1. RequestInv(c)
    BY <1>2 DEF DagInv
  <2>2. /\ RunsDone(c)' /\ StepsDone(c)' /\ AttemptsDone(c)'
        /\ ReservationsDone(c)' /\ CallsDone(c)' /\ EffectsDone(c)'
    BY <1>0, <1>1, <1>2, <1>3, <2>1, DonePersists DEF RequestInv, Left
  <2>. QED BY <2>2 DEF Left
<1>. QED BY <1>1, <1>2, <1>3, <1>4, <1>5, LaterStatement

-----------------------------------------------------------------------------
(* Every action.                                                           *)

\* The tables and the requests after a step.
LEMMA TablesAfter ==
    ASSUME TableInv, AllSteps, request' \in [Requests -> RequestRow \cup {Idle}]
    PROVE  TableInv'
<1>1. TypeOK'
  BY DEF TypeOK, AllSteps, RunStep, StepStep, AttemptStep, ReservationStep, CallStep, EffectStep
<1>2. FreedOnce'
  BY DEF AllSteps, ReservationStep
<1>3. RowsLinked'
  <2>1. ASSUME NEW a \in Attempts, Exists(attempt'[a])
        PROVE  Exists(step'[attempt'[a].step])
    <3>1. attempt'[a] \in AttemptRow /\ Exists(step[attempt'[a].step])
      BY <2>1 DEF AllSteps, AttemptStep, Exists
    <3>2. attempt'[a].step \in Steps
      BY <3>1 DEF AttemptRow
    <3>. QED BY <3>1, <3>2 DEF AllSteps, StepStep
  <2>2. ASSUME NEW p \in Calls, Exists(call'[p])
        PROVE  Exists(attempt'[call'[p].attempt])
    <3>1. call'[p] \in CallRow /\ Exists(attempt[call'[p].attempt])
      BY <2>2 DEF AllSteps, CallStep, Exists
    <3>2. call'[p].attempt \in Attempts
      BY <3>1 DEF CallRow
    <3>. QED BY <3>1, <3>2 DEF AllSteps, AttemptStep
  <2>3. ASSUME NEW e \in Effects, Exists(effect'[e])
        PROVE  Exists(attempt'[effect'[e].attempt])
    <3>1. effect'[e] \in EffectRow /\ Exists(attempt[effect'[e].attempt])
      BY <2>3 DEF AllSteps, EffectStep, Exists
    <3>2. effect'[e].attempt \in Attempts
      BY <3>1 DEF EffectRow
    <3>. QED BY <3>1, <3>2 DEF AllSteps, AttemptStep
  <2>. QED BY <2>1, <2>2, <2>3 DEF RowsLinked, AllSteps, StepStep, Exists
<1>. QED BY <1>1, <1>2, <1>3 DEF TableInv

LEMMA StatementDag ==
    ASSUME DagInv, NEW c \in Requests, Statement(c)
    PROVE  DagInv'
<1>1. TableInv'
  BY TablesAfter DEF DagInv, Statement
<1>2. ASSUME NEW d \in Requests, d # c, request'[d] # Idle
      PROVE  RequestInv(d)'
  <2>1. request'[d] = request[d] /\ RootKept(d) /\ AllSteps
    BY <1>2 DEF Statement
  <2>. QED BY <1>2, <2>1, OthersKept DEF DagInv
<1>. QED BY <1>1, <1>2 DEF DagInv, Statement

\* The actions on one row leave the requests alone, and do not touch a root.
RowStep == AllSteps /\ request' = request /\ \A d \in Requests : request[d] # Idle => RootKept(d)

LEMMA RowDag ==
    ASSUME DagInv, RowStep
    PROVE  DagInv'
<1>1. request' \in [Requests -> RequestRow \cup {Idle}]
  BY DEF DagInv, TableInv, TypeOK, RowStep
<1>2. TableInv'
  BY <1>1, TablesAfter DEF DagInv, RowStep
<1>3. ASSUME NEW d \in Requests, request[d] # Idle
      PROVE  RequestInv(d)'
  BY <1>3, OthersKept DEF DagInv, RowStep
<1>. QED BY <1>2, <1>3 DEF DagInv, RowStep

LEMMA RunActions ==
    ASSUME DagInv,
           \/ \E r \in Runs, parent \in Runs \cup {NoParent} : CreateRun(r, parent)
           \/ \E r \in Runs, target \in RunStatus : UpdateRunStatus(r, target)
    PROVE  RowStep
<1>1. RunStep
  BY CreateRunStep, UpdateRunStep DEF DagInv
<1>2. UNCHANGED <<step, attempt, reservation, call, effect, request, freed>>
  BY DEF CreateRun, UpdateRunStatus
<1>3. AllSteps
  BY <1>1, <1>2, StepKept, AttemptKept, ReservationKept, CallKept, EffectKept DEF AllSteps, DagInv
<1>4. ASSUME NEW d \in Requests, request[d].pc = "runs", request[d] # Idle
      PROVE  run'[request[d].root] = run[request[d].root]
  <2>. DEFINE root == request[d].root
  <2>1. root \in Runs /\ Exists(run[root])
    BY <1>4, RequestType DEF DagInv, TableInv, RequestInv, Read
  <2>2. Locked(root)
    BY <1>4 DEF Locked, Open, Statements
  <2>3. run \in [Runs -> RunRow \cup {Absent}]
    BY DEF DagInv, TableInv, TypeOK
  <2>. HIDE DEF root
  <2>4. ASSUME NEW r \in Runs, NEW parent, CreateRun(r, parent)
        PROVE  run'[root] = run[root]
    BY <2>1, <2>3, <2>4 DEF CreateRun
  <2>5. ASSUME NEW r \in Runs, NEW target, UpdateRunStatus(r, target)
        PROVE  run'[root] = run[root]
    BY <2>1, <2>2, <2>3, <2>5 DEF UpdateRunStatus
  <2>6. run'[root] = run[root]
    BY <2>4, <2>5
  <2>. QED BY <2>6 DEF root
<1>. QED BY <1>2, <1>3, <1>4 DEF RowStep, RootKept, RunEnded

LEMMA RowActions ==
    ASSUME DagInv,
           \/ \E s \in Steps, r \in Runs : CreateStep(s, r)
           \/ \E s \in Steps, target \in StepStatus : UpdateStepStatus(s, target)
           \/ \E a \in Attempts, s \in Steps, n \in Numbers : CreateAttempt(a, s, n)
           \/ \E a \in Attempts, target \in AttemptStatus : UpdateAttemptStatus(a, target)
           \/ \E b \in Reservations, r \in Runs : CreateReservation(b, r)
           \/ \E b \in Reservations : ReleaseReservation(b)
           \/ ExpireReservations
           \/ \E b \in Reservations : ReservationFallsDue(b)
           \/ \E p \in Calls, a \in Attempts, s \in {"open"} \cup CallSettled :
                  RecordProviderCall(p, a, s)
           \/ \E e \in Effects, a \in Attempts, s \in {"open"} \cup EffectSettled :
                  RecordToolEffect(e, a, s)
           \/ \E e \in Effects : ReconcileToolEffect(e)
    PROVE  RowStep
<1>0. TableInv
  BY DEF DagInv
<1>1. ASSUME UNCHANGED <<run, request>>, AllSteps PROVE RowStep
  BY <1>1, RunsUnchanged DEF RowStep
<1>2. ASSUME \/ \E s \in Steps, r \in Runs : CreateStep(s, r)
             \/ \E s \in Steps, target \in StepStatus : UpdateStepStatus(s, target)
      PROVE  RowStep
  <2>1. StepStep
    BY <1>0, <1>2, CreateStepStep, UpdateStepStep
  <2>2. UNCHANGED <<run, attempt, reservation, call, effect, request, freed>>
    BY <1>2 DEF CreateStep, UpdateStepStatus
  <2>3. AllSteps
    BY <1>0, <2>1, <2>2, RunKept, AttemptKept, ReservationKept, CallKept, EffectKept DEF AllSteps
  <2>. QED BY <1>1, <2>2, <2>3
<1>3. ASSUME \/ \E a \in Attempts, s \in Steps, n \in Numbers : CreateAttempt(a, s, n)
             \/ \E a \in Attempts, target \in AttemptStatus : UpdateAttemptStatus(a, target)
      PROVE  RowStep
  <2>1. AttemptStep
    BY <1>0, <1>3, CreateAttemptStep, UpdateAttemptStep
  <2>2. UNCHANGED <<run, step, reservation, call, effect, request, freed>>
    BY <1>3 DEF CreateAttempt, UpdateAttemptStatus
  <2>3. AllSteps
    BY <1>0, <2>1, <2>2, RunKept, StepKept, ReservationKept, CallKept, EffectKept DEF AllSteps
  <2>. QED BY <1>1, <2>2, <2>3
<1>4. ASSUME \/ \E b \in Reservations, r \in Runs : CreateReservation(b, r)
             \/ \E b \in Reservations : ReleaseReservation(b)
             \/ ExpireReservations
             \/ \E b \in Reservations : ReservationFallsDue(b)
      PROVE  RowStep
  <2>1. ReservationStep
    BY <1>0, <1>4, CreateReservationStep, ReleaseStep, ExpireStep, FallsDueStep
  <2>2. UNCHANGED <<run, step, attempt, call, effect, request>>
    BY <1>4 DEF CreateReservation, ReleaseReservation, ExpireReservations, ReservationFallsDue
  <2>3. AllSteps
    BY <1>0, <2>1, <2>2, RunKept, StepKept, AttemptKept, CallKept, EffectKept DEF AllSteps
  <2>. QED BY <1>1, <2>2, <2>3
<1>5. ASSUME \E p \in Calls, a \in Attempts, s \in {"open"} \cup CallSettled :
                 RecordProviderCall(p, a, s)
      PROVE  RowStep
  <2>1. CallStep
    BY <1>0, <1>5, RecordCallStep
  <2>2. UNCHANGED <<run, step, attempt, reservation, effect, request, freed>>
    BY <1>5 DEF RecordProviderCall
  <2>3. AllSteps
    BY <1>0, <2>1, <2>2, RunKept, StepKept, AttemptKept, ReservationKept, EffectKept DEF AllSteps
  <2>. QED BY <1>1, <2>2, <2>3
<1>6. ASSUME \/ \E e \in Effects, a \in Attempts, s \in {"open"} \cup EffectSettled :
                    RecordToolEffect(e, a, s)
             \/ \E e \in Effects : ReconcileToolEffect(e)
      PROVE  RowStep
  <2>1. EffectStep
    BY <1>0, <1>6, RecordEffectStep, ReconcileStep
  <2>2. UNCHANGED <<run, step, attempt, reservation, call, request, freed>>
    BY <1>6 DEF RecordToolEffect, ReconcileToolEffect
  <2>3. AllSteps
    BY <1>0, <2>1, <2>2, RunKept, StepKept, AttemptKept, ReservationKept, CallKept DEF AllSteps
  <2>. QED BY <1>1, <2>2, <2>3
<1>. QED BY <1>2, <1>3, <1>4, <1>5, <1>6

LEMMA CancellationStatement ==
    ASSUME DagInv, NEW c \in Requests, Cancellation(c)
    PROVE  Statement(c)
BY CancelBeginStatement, CancelRunsStatement, CancelStepsStatement, CancelAttemptsStatement,
   ReleaseHeldStatement, CancelCallsStatement, CancelEffectsStatement, CancelCommitStatement
   DEF Cancellation

\* What any step does: one row, or one statement of a cancellation.
LEMMA StepKinds ==
    ASSUME DagInv, Next
    PROVE  RowStep \/ \E c \in Requests : Statement(c)
BY RunActions, RowActions, CancellationStatement DEF Next

LEMMA NextDag == DagInv /\ [Next]_vars => DagInv'
<1>. SUFFICES ASSUME DagInv, [Next]_vars PROVE DagInv'
  OBVIOUS
<1>1. CASE Next
  BY <1>1, StepKinds, RowDag, StatementDag
<1>2. CASE UNCHANGED vars
  <2>1. UNCHANGED <<run, step, attempt, reservation, call, effect, request, freed>>
    BY <1>2 DEF vars
  <2>2. AllSteps
    BY <2>1, RunKept, StepKept, AttemptKept, ReservationKept, CallKept, EffectKept DEF AllSteps, DagInv
  <2>3. RowStep
    BY <2>1, <2>2, RunsUnchanged DEF RowStep
  <2>. QED BY <2>3, RowDag
<1>. QED BY <1>1, <1>2

LEMMA DagInvariant == Spec => []DagInv
BY InitDag, NextDag, PTL DEF Spec

-----------------------------------------------------------------------------
LEMMA DagTruthful == DagInv => CancellationTruthful
<1>. SUFFICES ASSUME DagInv PROVE CancellationTruthful
  OBVIOUS
<1>1. TypeOK /\ FreedOnce
  BY DEF DagInv, TableInv
<1>2. ASSUME NEW c \in Requests, request[c].pc \in Statements \cup {"done"}
      PROVE  RequestInv(c)
  BY <1>2, NotIdle DEF DagInv
<1>3. ResultTruthful
  <2>1. ASSUME NEW c \in Requests, Past(c)
        PROVE  request[c].cancelled <=> request[c].root \in request[c].stopped
    BY <1>2, <2>1 DEF Past, RequestInv, Answered
  <2>. QED BY <2>1 DEF ResultTruthful
<1>4. SettledByCancellation
  <2>1. ASSUME NEW c \in Requests, request[c].pc = "done"
        PROVE  /\ RunsDone(c) /\ StepsDone(c) /\ AttemptsDone(c)
               /\ ReservationsDone(c) /\ CallsDone(c) /\ EffectsDone(c)
    BY <1>2, <2>1 DEF RequestInv, Left
  <2>. QED BY <2>1 DEF SettledByCancellation, RunsDone, StepsDone, AttemptsDone, ReservationsDone,
                       CallsDone, EffectsDone
<1>. QED BY <1>1, <1>3, <1>4 DEF CancellationTruthful

\* What request_cancellation reports and leaves behind is true, for any DAG and any
\* number of overlapping cancellations and concurrent updates.
THEOREM CancelsTruthfully == Spec => []CancellationTruthful
BY DagInvariant, DagTruthful, PTL

\* A cancellation that commits covers what was inserted below its root meanwhile,
\* and no cancellation or status update rewrites a run that ended, for any DAG
\* (request_cancellation, update_run_status).
THEOREM CancelsSealed == Spec => CancellationSealed
<1>. DEFINE SealedAt(c) ==
          LET root == request[c].root
          IN /\ request[c].propagate =>
                   \A r \in Runs : Exists(run[r]) /\ run[r].parent = root => RunEnded(r)
             /\ \A s \in Steps : Exists(step[s]) /\ step[s].run = root => step[s].ended
             /\ \A b \in Reservations : Exists(reservation[b]) /\ reservation[b].run = root
                                            => reservation[b].status # "active"
<1>1. DagInv => \A c \in Requests : Commits(c) => SealedAt(c)
  <2>. SUFFICES ASSUME DagInv, NEW c \in Requests, request[c].pc = "log" PROVE SealedAt(c)
    BY DEF Commits
  <2>1. Open(c) /\ request[c] # Idle
    BY DEF Open, Statements, Idle
  <2>2. RequestInv(c)
    BY <2>1 DEF DagInv
  <2>3. RunsDone(c) /\ StepsDone(c) /\ ReservationsDone(c) /\ Sealed(c)
        /\ request[c].root \in request[c].scope
    BY <2>1, <2>2 DEF RequestInv, Left, Read
  <2>. QED BY <2>3 DEF RunsDone, StepsDone, ReservationsDone, Sealed
<1>2. DagInv /\ [Next]_vars => \A r \in Runs : RunEnded(r) => run'[r] = run[r]
  <2>. SUFFICES ASSUME DagInv, [Next]_vars, NEW r \in Runs, RunEnded(r) PROVE run'[r] = run[r]
    OBVIOUS
  <2>1. CASE Next
    <3>1. RunStep
      BY <2>1, StepKinds DEF RowStep, Statement, AllSteps
    <3>2. Exists(run[r])
      BY Present DEF RunEnded, Exists
    <3>. QED BY <3>1, <3>2 DEF RunStep
  <2>2. CASE UNCHANGED vars
    BY <2>2 DEF vars
  <2>. QED BY <2>1, <2>2
<1>. DEFINE P == \A c \in Requests : Commits(c) => SealedAt(c)
            Q == \A r \in Runs : RunEnded(r) => run'[r] = run[r]
<1>3. Spec => [][P]_vars
  BY <1>1, DagInvariant, PTL DEF Spec
<1>4. Spec => [][Q]_vars
  BY <1>2, DagInvariant, PTL DEF Spec
<1>5. RootSealed <=> [][P]_vars
  BY DEF RootSealed
<1>6. OutcomeKept <=> [][Q]_vars
  BY DEF OutcomeKept
<1>. QED BY <1>3, <1>4, <1>5, <1>6 DEF CancellationSealed
=============================================================================

----------------------------- MODULE MC_RunDag -----------------------------
(* Small instances of RunDag for TLC. *)
EXTENDS RunDag, TLC

Symmetry == Permutations(Requests) \cup Permutations(Runs)

(* Two shapes of row sets that cannot be explored together: overlapping     *)
(* cancellations of runs with a reservation, and one cancellation of a run  *)
(* with every kind of row below its steps.                                  *)
Inserted(rows) == \E x \in DOMAIN rows : rows[x] # Absent
Overlapping == ~(Inserted(step) \/ Inserted(attempt) \/ Inserted(call) \/ Inserted(effect))
Resources ==
    /\ ~Inserted(reservation)
    /\ Cardinality({r \in Runs : run[r] # Absent}) <= 1
    /\ Cardinality({c \in Requests : request[c] # Idle}) <= 1

ShapedSpec == Init /\ [][Next /\ (Overlapping' \/ Resources')]_vars
=============================================================================

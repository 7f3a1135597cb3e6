--------------------------- MODULE StreamOwnership -------------------------
(***************************************************************************)
(* Ownership of a stream (stream_ownership in noerelay-store):             *)
(* acquire_stream, renew_stream and release_stream on one row, with the    *)
(* clock as a number because the operations compare and add times.  Rows   *)
(* of different streams do not interact.                                   *)
(*                                                                         *)
(* Of the workers table (WorkQueue) only what acquire_stream reads is kept: *)
(* whether a worker is active, which it is from its registration until it   *)
(* drains or fails, and never again.                                       *)
(***************************************************************************)
EXTENDS Integers

CONSTANTS
    StreamWorkers,
    MaxToken,     \* bound: fencing tokens callers supply, 0 .. MaxToken
    Durations,    \* values of duration_secs callers supply
    MaxTime,      \* bound: the clock
    MaxExpiry,    \* bound: expires_at after renewals
    NoOwner

ASSUME StreamConstants ==
    /\ {MaxToken, MaxTime, MaxExpiry} \subseteq Nat
    /\ Durations \subseteq Int
    /\ NoOwner \notin [owner : StreamWorkers, token : 1 .. MaxToken, acquired : Nat, expires : Nat]

VARIABLES
    now,
    streamRow,       \* the stream_ownership row
    streamWorker,    \* per worker, whether its row is active
    belief     \* per worker, until when its last successful call said it owns

streamVars == <<now, streamRow, streamWorker, belief>>

Tokens == 1 .. MaxToken
StreamRow == [owner : StreamWorkers, token : Tokens, acquired : Nat, expires : Nat]

StreamTypeOK ==
    /\ now \in 0 .. MaxTime
    /\ streamRow \in StreamRow \cup {NoOwner}
    /\ streamWorker \in [StreamWorkers -> {"unregistered", "active", "stopped"}]
    /\ belief \in [StreamWorkers -> Int]

StreamInit ==
    /\ now = 0
    /\ streamRow = NoOwner
    /\ streamWorker = [w \in StreamWorkers |-> "unregistered"]
    /\ belief = [w \in StreamWorkers |-> -1]

\* Mutant of Superseded: expires_at <= now().
SupersededAtDeadline(t) == streamRow.expires <= now /\ t > streamRow.token

\* ON CONFLICT ... DO UPDATE ... WHERE
Superseded(t) == streamRow.expires < now /\ t > streamRow.token

AcquireStream(w, t, d) ==
    /\ d > 0 /\ t > 0
    /\ streamWorker[w] = "active"
    /\ streamRow # NoOwner => Superseded(t)
    /\ streamRow' = [owner |-> w, token |-> t, acquired |-> now, expires |-> now + d]
    /\ belief' = [belief EXCEPT ![w] = now + d]
    /\ UNCHANGED <<now, streamWorker>>

Owns(w, t) == streamRow # NoOwner /\ streamRow.owner = w /\ streamRow.token = t

\* expires_at = now() + (expires_at - acquired_at)
RenewedUntil == now + (streamRow.expires - streamRow.acquired)

RenewStream(w, t) ==
    /\ Owns(w, t)
    /\ streamRow.expires >= now
    /\ RenewedUntil <= MaxExpiry
    /\ streamRow' = [streamRow EXCEPT !.expires = RenewedUntil]
    /\ belief' = [belief EXCEPT ![w] = RenewedUntil]
    /\ UNCHANGED <<now, streamWorker>>

\* The row is deleted, and with it the last token; expiry is not checked.
ReleaseStream(w, t) ==
    /\ Owns(w, t)
    /\ streamRow' = NoOwner
    /\ belief' = [belief EXCEPT ![w] = -1]
    /\ UNCHANGED <<now, streamWorker>>

RegisterStreamWorker(w) ==
    /\ streamWorker[w] = "unregistered"
    /\ streamWorker' = [streamWorker EXCEPT ![w] = "active"]
    /\ UNCHANGED <<now, streamRow, belief>>

\* drain_worker and fail_worker; the streams of the worker are left alone.
LeaveActive(w) ==
    /\ streamWorker[w] = "active"
    /\ streamWorker' = [streamWorker EXCEPT ![w] = "stopped"]
    /\ UNCHANGED <<now, streamRow, belief>>

Tick ==
    /\ now < MaxTime
    /\ now' = now + 1
    /\ UNCHANGED <<streamRow, streamWorker, belief>>

StreamNext ==
    \/ \E w \in StreamWorkers, t \in 0 .. MaxToken, d \in Durations : AcquireStream(w, t, d)
    \/ \E w \in StreamWorkers, t \in Tokens : RenewStream(w, t) \/ ReleaseStream(w, t)
    \/ \E w \in StreamWorkers : RegisterStreamWorker(w) \/ LeaveActive(w)
    \/ Tick

StreamSpec == StreamInit /\ [][StreamNext]_streamVars

-----------------------------------------------------------------------------
Believes(w) == belief[w] >= now

\* At no moment do two workers both hold an answer of acquire_stream or
\* renew_stream that says the stream is theirs now.
NeverTwoOwners ==
    \A v, w \in StreamWorkers : Believes(v) /\ Believes(w) => v = w
=============================================================================

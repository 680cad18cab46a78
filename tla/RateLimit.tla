----------------------------- MODULE RateLimit -----------------------------
(***************************************************************************)
(* The fixed-window limiter (db/rate-limit.ts): one row per bucket, read   *)
(* and written by a single INSERT .. ON CONFLICT DO UPDATE, so every       *)
(* caller is a step of its own whatever runs beside it.                    *)
(*                                                                         *)
(* A bucket is [count, left]: what has been taken in its window, and how   *)
(* many units of time are left of it.  A row that has expired and a row    *)
(* that is not there start a new window alike, so both have left = 0.      *)
(***************************************************************************)
EXTENDS Naturals

Bucket(limit, window) == [count : 0..(limit + 1), left : 0..window]

NoBucket == [count |-> 0, left |-> 0]

Expired(b) == b.left = 0

\* Mutant: a window that every call begins anew.
Consumed_Sliding(b, limit, window) ==
    [count |-> IF Expired(b) THEN 1 ELSE IF b.count > limit THEN b.count ELSE b.count + 1, left |-> window]

\* Counting stops one above the limit: only whether it is passed is ever asked.
Consumed(b, limit, window) ==
    IF Expired(b)
    THEN [count |-> 1, left |-> window]
    ELSE [b EXCEPT !.count = IF @ > limit THEN @ ELSE @ + 1]

Allowed(b, limit) == b.count <= limit

\* Mutant: the sweep takes the rows that have not expired too.
Pruned_Everything(b) == NoBucket

\* The hourly sweep deletes the rows that have expired.
Pruned(b) == IF Expired(b) THEN NoBucket ELSE b

\* A unit of time passes.
Older(b) == [b EXCEPT !.left = IF @ = 0 THEN 0 ELSE @ - 1]
=============================================================================

--------------------------- MODULE CallLifecycle ---------------------------
(***************************************************************************)
(* The life of a row of the call log as the comment above StoreCallOffer   *)
(* draws it: a row appears in progress, is answered or rejected at most    *)
(* once and only while in progress, and is ended at most once.  What it    *)
(* ended as depends on where it stood; the time of the end is never        *)
(* written a second time.                                                  *)
(***************************************************************************)
EXTENDS Integers

CONSTANTS
  Rows,       \* keys of the table calls
  MaxTime     \* last tick of the clock

VARIABLES
  result,     \* column result of each row, "none" for no row
  endedAt     \* column ended_at, Never while it is NULL

lifeVars == <<result, endedAt>>

Never == -1

LifeInit ==
  /\ result = [k \in Rows |-> "none"]
  /\ endedAt = [k \in Rows |-> Never]

Become(k, from, to) ==
  /\ result[k] = from
  /\ result' = [result EXCEPT ![k] = to]

Offered(k)  == Become(k, "none", "in_progress") /\ UNCHANGED endedAt
Answered(k) == Become(k, "in_progress", "answered") /\ UNCHANGED endedAt
Declined(k) == Become(k, "in_progress", "rejected") /\ UNCHANGED endedAt

Ended(k) ==
  /\ endedAt[k] = Never
  /\ \E t \in 0..MaxTime : endedAt' = [endedAt EXCEPT ![k] = t]
  /\ \/ Become(k, "in_progress", "missed")
     \/ Become(k, "answered", "ended")
     \/ Become(k, "rejected", "rejected")

LifeNext == \E k \in Rows : Offered(k) \/ Answered(k) \/ Declined(k) \/ Ended(k)

LifeSpec == LifeInit /\ [][LifeNext]_lifeVars
=============================================================================

------------------------------ MODULE DealFold ------------------------------
(***************************************************************************)
(* How the broker's stream of deals becomes the rows of the journal:       *)
(* `aggregateDeals` of mt5/metaapi/provider.ts.  A deal is one execution,  *)
(* a row is one position (or one balance operation) under one ticket.      *)
(*                                                                         *)
(* Money, volume and price are abstracted to the deals they are summed     *)
(* over: two folds agree on `sized` exactly when they add up the same      *)
(* fills, and on `booked` exactly when they add up the same amounts.       *)
(***************************************************************************)
EXTENDS Integers

CONSTANTS Stops,      \* stop-loss levels a deal may carry
          None,       \* an absent value (null in the code)
          MaxTime,    \* bound on the clock
          MaxDeals    \* bound on the deals of one ticket

ASSUME BoundsAssumption == MaxTime \in Nat /\ MaxDeals \in Nat
ASSUME NoneAssumption == None \notin Stops

Times == 0..MaxTime

(***************************************************************************)
(* One deal of a ticket.  n is its place in the order of execution, which  *)
(* agrees with `time`; swap says that the broker has booked the overnight  *)
(* swap on it; posted says that the history endpoint already returns it.   *)
(***************************************************************************)
Deal == [n : 1..MaxDeals, kind : {"in", "out", "balance"}, side : {"buy", "sell"},
         time : Times, stop : Stops \union {None}, swap : BOOLEAN, posted : BOOLEAN]

Opposite(side) == IF side = "buy" THEN "sell" ELSE "buy"

\* What the broker reports about a trade: the columns the sync owns.
Figures == [kind : {"trade", "balance"}, direction : {"long", "short"},
            openAt : Times, closeAt : Times, stop : Stops \union {None},
            sized : SUBSET (1..MaxDeals), booked : SUBSET ((1..MaxDeals) \X BOOLEAN)]

Entries(w) == {d \in w : d.kind = "in"}
\* A balance operation is a row of its own, so it counts as its own exit here.
Exits(w)   == {d \in w : d.kind # "in"}

First(w) == CHOOSE d \in w : \A e \in w : d.n <= e.n
Last(w)  == CHOOSE d \in w : \A e \in w : e.n <= d.n

\* `entries[0] ?? ordered[0]`
EntryDeal(w) == IF Entries(w) # {} THEN First(Entries(w)) ELSE First(w)

\* A position without an exit deal is still open: nothing to report yet.
Reportable(w) == Exits(w) # {}

\* Mutant: only the last exit's money is booked; scaling out loses the rest.
Fold_BooksLastExit(w) ==
  LET entry == EntryDeal(w)
      last  == Last(Exits(w))
  IN  [kind      |-> IF last.kind = "balance" THEN "balance" ELSE "trade",
       direction |-> IF last.kind = "balance" \/ entry.side = "buy" THEN "long" ELSE "short",
       openAt    |-> entry.time,
       closeAt   |-> last.time,
       stop      |-> IF entry.stop # None THEN entry.stop ELSE last.stop,
       sized     |-> IF Entries(w) # {} THEN {d.n : d \in Entries(w)} ELSE {entry.n},
       booked    |-> {<<last.n, last.swap>>}]

(***************************************************************************)
(* The row a group of deals of one ticket folds into, for a group that is  *)
(* Reportable.  The direction and the size come from the first entry deal  *)
(* or, when the group holds none, from its first deal whatever it is.      *)
(***************************************************************************)
Fold(w) ==
  LET entry == EntryDeal(w)
      last  == Last(Exits(w))
  IN  [kind      |-> IF last.kind = "balance" THEN "balance" ELSE "trade",
       direction |-> IF last.kind = "balance" \/ entry.side = "buy" THEN "long" ELSE "short",
       openAt    |-> entry.time,
       closeAt   |-> last.time,
       stop      |-> IF entry.stop # None THEN entry.stop ELSE last.stop,
       sized     |-> IF Entries(w) # {} THEN {d.n : d \in Entries(w)} ELSE {entry.n},
       booked    |-> {<<d.n, d.swap>> : d \in w}]

=============================================================================

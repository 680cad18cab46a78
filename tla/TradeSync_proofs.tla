--------------------------- MODULE TradeSync_proofs ---------------------------
(***************************************************************************)
(* Proofs about TradeSync, for any number of tickets, syncs and chunks:    *)
(* its variables keep their types, no sync leaves a hole in the journal as *)
(* long as the broker posts its deals within the overlap, and what an      *)
(* earlier sync worked out of a row is not lost.                           *)
(*                                                                         *)
(* A backfill that had the journal to itself repairs every row it wrote.   *)
(* Of a provider that answers what the port asks for, whole positions,     *)
(* every row describes its position, and a sync with the journal to itself *)
(* never stores less than was stored.                                      *)
(***************************************************************************)
EXTENDS TradeSync, FiniteSetTheorems, WellFoundedInduction, TLAPS

(***************************************************************************)
(* The inductive invariant.  Kept is what the journal need not fetch any   *)
(* more; ClosedBefore(p, t) says that the broker reports p as closed, and  *)
(* all of it before t.                                                     *)
(***************************************************************************)
Kept == DOMAIN book \union deleted

ClosedBefore(p, t) == PostedExits(p) # {} /\ \A d \in PostedExits(p) : d.time < t

\* Deals are finitely many per ticket, never from the future, and never posted too late.
DealsInv == \A p \in Tickets :
              /\ IsFiniteSet(deals[p])
              /\ \A d \in deals[p] : d.time <= now /\ (d.posted \/ now <= d.time + Lateness)

\* What is stored has happened: no row closes in the future.
PastInv == \A p \in DOMAIN book : book[p].fig.closeAt <= now

\* A position closed more than the overlap before a stored row is kept.
BookInv == \A q \in DOMAIN book, p \in Tickets :
             ClosedBefore(p, book[q].fig.closeAt - Overlap) => p \in Kept

\* A run about to fetch will miss nothing that closed before its cursor.
CursorInv(x) == x.cursor # None =>
                  /\ x.cursor + Overlap <= now
                  /\ \A p \in Tickets : ClosedBefore(p, x.cursor) => p \in Kept

(***************************************************************************)
(* A run that has fetched holds, or the journal keeps, every position its  *)
(* rows may overtake; what it has written is kept; what it holds closes    *)
(* with an exit that the broker has posted.                                *)
(***************************************************************************)
HoldInv(x) == /\ x.pc \notin {"measure", "write"} => DOMAIN x.figs = {}
              /\ \A p \in DOMAIN x.figs :
                   /\ x.figs[p].closeAt <= now
                   /\ \E d \in PostedExits(p) : d.time = x.figs[p].closeAt
              /\ \A q \in DOMAIN x.figs, p \in Tickets :
                   ClosedBefore(p, x.figs[q].closeAt - Overlap)
                     => p \in DOMAIN x.figs \union Kept
              /\ x.pc = "write" => DOMAIN x.figs \ x.todo \subseteq Kept

\* What a run has seen closed it holds or the journal keeps, and at the end the latter.
SeenInv(x) == /\ x.pc \in {"measure", "write"} => x.seen \subseteq DOMAIN x.figs \union Kept
              /\ x.pc = "done" => x.seen \subseteq Kept

RunInv(x) == CursorInv(x) /\ HoldInv(x) /\ SeenInv(x)

IInv == /\ TypeOK
        /\ DealsInv /\ PastInv /\ BookInv
        /\ \A r \in Runs : RunInv(run[r])

-----------------------------------------------------------------------------
(* Facts about natural numbers. *)

\* A non-empty set of naturals has a least element.
LEMMA LeastExists ==
  ASSUME NEW S \in SUBSET Nat, S # {}
  PROVE  \E x \in S : \A y \in S : x <= y
<1> DEFINE R == OpToRel(<, Nat)
<1>1. \E x \in S : \A y \in S : ~ (<<y, x>> \in R)
  BY NatLessThanWellFounded, WFMin
<1>2. \A x, y \in Nat : <<y, x>> \in R <=> y < x
  BY DEF OpToRel
<1> HIDE DEF R
<1>3. PICK x \in S : \A y \in S : ~ (<<y, x>> \in R)
  BY <1>1
<1>4. ASSUME NEW y \in S PROVE x <= y
  <2>1. x \in Nat /\ y \in Nat /\ ~ (y < x)
    BY <1>2, <1>3
  <2> QED BY <2>1
<1> QED BY <1>4

\* A non-empty set of naturals with an upper bound has a greatest element.
LEMMA GreatestExists ==
  ASSUME NEW b \in Nat, NEW S \in SUBSET (0..b), S # {}
  PROVE  \E x \in S : \A y \in S : y <= x
<1> DEFINE T == {b - x : x \in S}
<1>0. \A x \in S : b - x \in Nat
  OBVIOUS
<1>1. T \in SUBSET Nat /\ T # {}
  BY <1>0, Zenon
<1>2. PICK z \in T : \A y \in T : z <= y
  BY <1>1, LeastExists
<1>3. PICK x \in S : z = b - x
  OBVIOUS
<1>4. \A y \in S : b - y \in T
  OBVIOUS
<1>5. \A y \in S : b - x <= b - y
  BY <1>2, <1>3, <1>4
<1>6. \A y \in S : y <= x
  BY <1>5
<1> QED BY <1>6

-----------------------------------------------------------------------------
(* Lemmas about the fold. *)

\* First and Last of a non-empty group of deals are deals of the group, and none of its deals
\* comes before the first.
LEMMA FirstLastIn ==
  ASSUME NEW w \in SUBSET Deal, w # {}
  PROVE  First(w) \in w /\ Last(w) \in w /\ \A e \in w : First(w).n <= e.n
<1> DEFINE N == {d.n : d \in w}
<1>1. \A d \in w : d.n \in 1..MaxDeals
  BY DEF Deal
<1>2. N \in SUBSET (0..MaxDeals) /\ N \in SUBSET Nat /\ N # {}
  BY <1>1, BoundsAssumption
<1>3. PICK x \in N : \A y \in N : x <= y
  BY <1>2, LeastExists
<1>4. PICK z \in N : \A y \in N : y <= z
  BY <1>2, GreatestExists, BoundsAssumption
<1>5. \E d \in w : \A e \in w : d.n <= e.n
  BY <1>3
<1>6. \E d \in w : \A e \in w : e.n <= d.n
  BY <1>4
<1> QED BY <1>5, <1>6 DEF First, Last

\* A group with an exit folds into well-formed figures, which close with one of its exits.
LEMMA FoldReports ==
  ASSUME NEW w \in SUBSET Deal, Exits(w) # {}
  PROVE  /\ Fold(w) \in Figures
         /\ \E d \in Exits(w) : d.time = Fold(w).closeAt
<1>1. w # {} /\ Exits(w) \in SUBSET Deal /\ Entries(w) \in SUBSET Deal
  BY DEF Exits, Entries
<1>2. Last(Exits(w)) \in Exits(w)
  BY <1>1, FirstLastIn
<1>3. EntryDeal(w) \in w
  BY <1>1, FirstLastIn DEF EntryDeal, Entries
<1>4. \A d \in w : /\ d.n \in 1..MaxDeals /\ d.time \in Times /\ d.stop \in Stops \union {None}
                   /\ d.swap \in BOOLEAN
  BY DEF Deal
<1>5. Fold(w).closeAt = Last(Exits(w)).time
  BY DEF Fold
<1>6. {<<d.n, d.swap>> : d \in w} \in SUBSET ((1..MaxDeals) \X BOOLEAN)
  BY <1>4
<1>7. (IF Entries(w) # {} THEN {d.n : d \in Entries(w)} ELSE {EntryDeal(w).n})
         \in SUBSET (1..MaxDeals)
  BY <1>3, <1>4 DEF Entries
<1>8. Last(Exits(w)) \in w
  BY <1>2 DEF Exits
<1>9. Fold(w) \in Figures
  BY <1>3, <1>4, <1>6, <1>7, <1>8 DEF Fold, Figures
<1> QED BY <1>2, <1>5, <1>9

-----------------------------------------------------------------------------
(* Type correctness. *)

LEMMA EmptyMapIsMap ==
  ASSUME NEW T
  PROVE  IsMap(EmptyMap, T) /\ DOMAIN EmptyMap = {}
BY DEF IsMap, EmptyMap

LEMMA IdleIsRun == IsRun(IdleRun)
BY EmptyMapIsMap DEF IsRun, IdleRun, Fields, PCs, Triggers

LEMMA FinishedIsRun ==
  ASSUME NEW x, IsRun(x)
  PROVE  /\ IsRun(Finished(x)) /\ Finished(x).pc = "done" /\ Finished(x).seen = x.seen
         /\ Finished(x).cursor = None /\ Finished(x).figs = EmptyMap
BY IdleIsRun, EmptyMapIsMap DEF IsRun, Finished, IdleRun, Fields, PCs, Triggers

\* Replacing one run by a well-formed one keeps the runs well-formed.
LEMMA ReplaceRun ==
  ASSUME TypeOK, NEW r \in Runs, NEW x, IsRun(x), run' = [run EXCEPT ![r] = x]
  PROVE  run' = [s \in Runs |-> run'[s]] /\ \A s \in Runs : IsRun(run'[s])
BY DEF TypeOK

LEMMA PostedExitsAreDeals ==
  ASSUME TypeOK, NEW p \in Tickets
  PROVE  /\ PostedExits(p) \in SUBSET Deal /\ Posted(p) \in SUBSET Deal
         /\ \A d \in PostedExits(p) : d \in deals[p] /\ d.time \in Times
BY DEF TypeOK, PostedExits, Exits, Posted, Deal

\* The sync reads figures of the right type, each closing with a posted exit.
LEMMA FetchedFigures ==
  ASSUME TypeOK, NEW cursor \in Int \union {None}
  PROVE  /\ IsMap(Fetched(cursor), Figures)
         /\ \A p \in DOMAIN Fetched(cursor) :
               \E d \in PostedExits(p) : d.time = Fetched(cursor)[p].closeAt
<1>1. ASSUME NEW p \in Tickets, Reportable(Returned(p, cursor))
      PROVE  /\ Fold(Returned(p, cursor)) \in Figures
             /\ \E d \in PostedExits(p) : d.time = Fold(Returned(p, cursor)).closeAt
  <2>1. Returned(p, cursor) \subseteq Posted(p)
    BY DEF Returned, Since
  <2>2. Returned(p, cursor) \in SUBSET Deal /\ Exits(Returned(p, cursor)) # {}
    BY <1>1, <2>1, PostedExitsAreDeals DEF Reportable
  <2>3. Exits(Returned(p, cursor)) \subseteq PostedExits(p)
    BY <2>1 DEF Exits, PostedExits
  <2> QED BY <2>2, <2>3, FoldReports
<1> QED BY <1>1 DEF Fetched, IsMap

LEMMA UpsertedIsRow ==
  ASSUME TypeOK, NEW r \in Runs, NEW p \in DOMAIN run[r].figs
  PROVE  Upserted(r, p) \in Row /\ Upserted(r, p).fig = run[r].figs[p]
<1>1. run[r].figs[p] \in Figures
  BY DEF TypeOK, IsRun, IsMap
<1>2. CASE p \in DOMAIN book
  <2>1. book[p] \in Row
    BY <1>2 DEF TypeOK, IsMap
  <2> QED BY <1>1, <1>2, <2>1 DEF Upserted, Row
<1>3. CASE p \notin DOMAIN book
  BY <1>1, <1>3 DEF Upserted, Row
<1> QED BY <1>2, <1>3

\* The newest close of a non-empty journal is the close of one of its rows.
LEMMA NewestIsAClose ==
  ASSUME TypeOK, DOMAIN book # {}
  PROVE  Newest \in Times /\ \E q \in DOMAIN book : book[q].fig.closeAt = Newest
<1>1. \A q \in DOMAIN book : book[q].fig.closeAt \in Times
  BY DEF TypeOK, IsMap, Row, Figures
<1>2. CloseTimes \in SUBSET (0..MaxTime) /\ CloseTimes # {}
  BY <1>1 DEF CloseTimes, Times
<1>3. \E t \in CloseTimes : \A u \in CloseTimes : u <= t
  BY <1>2, GreatestExists, BoundsAssumption
<1>4. Newest \in CloseTimes
  BY <1>3 DEF Newest
<1> QED BY <1>2, <1>4 DEF CloseTimes, Times

\* One step of the broker keeps the deals well-formed.
LEMMA BrokerTypes ==
  ASSUME TypeOK, DealsInv, Broker
  PROVE  TypeOK'
<1>1. UNCHANGED <<book, deleted, run>>
  BY DEF Broker, Tick, Execute, Post, BookSwap
<1>2. now' \in Times /\ deals' \in [Tickets -> SUBSET Deal]
  <2>1. CASE Tick
    BY <2>1, BoundsAssumption DEF Tick, TypeOK, Times
  <2>2. ASSUME NEW p \in Tickets, NEW kind \in {"in", "out", "balance"},
               NEW side \in {"buy", "sell"}, NEW stop \in Stops \union {None},
               NEW posted \in BOOLEAN, Execute(p, kind, side, stop, posted)
        PROVE  now' \in Times /\ deals' \in [Tickets -> SUBSET Deal]
    <3> DEFINE d == [n |-> Cardinality(deals[p]) + 1, kind |-> kind, side |-> side,
                     time |-> now, stop |-> stop, swap |-> FALSE, posted |-> posted]
    <3>1. Cardinality(deals[p]) \in Nat
      BY FS_CardinalityType DEF DealsInv
    <3>2. Cardinality(deals[p]) + 1 \in 1..MaxDeals
      BY <2>2, <3>1, BoundsAssumption DEF Execute
    <3>3. d \in Deal
      BY <3>2 DEF Deal, TypeOK
    <3>4. deals' = [deals EXCEPT ![p] = @ \union {d}] /\ now' = now
      BY <2>2 DEF Execute
    <3> HIDE DEF d
    <3> QED BY <3>3, <3>4 DEF TypeOK
  <2>3. ASSUME NEW p \in Tickets, NEW d \in deals[p], Post(p, d)
        PROVE  now' \in Times /\ deals' \in [Tickets -> SUBSET Deal]
    <3> DEFINE e == [d EXCEPT !.posted = TRUE]
    <3>1. d \in Deal /\ deals[p] \in SUBSET Deal
      BY DEF TypeOK
    <3>2. e \in Deal
      BY <3>1 DEF Deal
    <3>3. deals' = [deals EXCEPT ![p] = (@ \ {d}) \union {e}] /\ now' = now
      BY <2>3 DEF Post
    <3> HIDE DEF e
    <3> QED BY <3>1, <3>2, <3>3 DEF TypeOK
  <2>4. ASSUME NEW p \in Tickets, NEW d \in deals[p], BookSwap(p, d)
        PROVE  now' \in Times /\ deals' \in [Tickets -> SUBSET Deal]
    <3> DEFINE e == [d EXCEPT !.swap = TRUE]
    <3>1. d \in Deal /\ deals[p] \in SUBSET Deal
      BY DEF TypeOK
    <3>2. e \in Deal
      BY <3>1 DEF Deal
    <3>3. deals' = [deals EXCEPT ![p] = (@ \ {d}) \union {e}] /\ now' = now
      BY <2>4 DEF BookSwap
    <3> HIDE DEF e
    <3> QED BY <3>1, <3>2, <3>3 DEF TypeOK
  <2> QED BY <2>1, <2>2, <2>3, <2>4 DEF Broker
<1>3. IsMap(book', Row)
  BY <1>1 DEF TypeOK
<1>4. run' = [r \in Runs |-> run'[r]] /\ \A r \in Runs : IsRun(run'[r])
  BY <1>1 DEF TypeOK
<1> QED BY <1>1, <1>2, <1>3, <1>4 DEF TypeOK, IsMap

\* One step of a sync keeps its record and the rows well-formed.
LEMMA SyncTypes ==
  ASSUME TypeOK, NEW r \in Runs, Sync(r)
  PROVE  TypeOK'
<1>1. UNCHANGED <<now, deals, deleted>>
  BY DEF Sync, Start, ReadCursor, FetchDeals, NothingToWrite, Measure, WriteChunk, Abort
<1>2. IsRun(run[r])
  BY DEF TypeOK
<1> SUFFICES /\ IsMap(book', Row)
             /\ run' = [s \in Runs |-> run'[s]] /\ \A s \in Runs : IsRun(run'[s])
  BY <1>1 DEF TypeOK, IsMap
<1>3. ASSUME NEW trigger \in Triggers, Start(r, trigger)
      PROVE  /\ IsMap(book', Row)
             /\ run' = [s \in Runs |-> run'[s]] /\ \A s \in Runs : IsRun(run'[s])
  <2>1. book' = book /\ run' = [s \in Runs |-> run'[s]]
    BY <1>3 DEF Start
  <2>2. IsRun(run'[r])
    BY <1>3, IdleIsRun DEF Start, IsRun, Fields, PCs, IdleRun
  <2>3. \A s \in Runs \ {r} : IsRun(run'[s])
    <3> TAKE s \in Runs \ {r}
    <3> DEFINE x == [run[s] EXCEPT !.alone = FALSE]
    <3>1. IsRun(run[s])
      BY DEF TypeOK
    <3>2. IsRun(x)
      BY <3>1 DEF IsRun, Fields
    <3>3. run'[s] = x
      BY <1>3 DEF Start
    <3> QED BY <3>2, <3>3
  <2> QED BY <2>1, <2>2, <2>3 DEF TypeOK
<1>4. CASE ReadCursor(r)
  <2> DEFINE c == IF run[r].trigger = "backfill" THEN None ELSE IncrementalCursor
             x == [run[r] EXCEPT !.pc = "fetch", !.cursor = c]
  <2>1. c \in Int \union {None}
    <3>1. DOMAIN book # {} => Newest - Overlap \in Int
      BY NewestIsAClose, OverlapAssumption DEF Times
    <3> QED BY <3>1 DEF IncrementalCursor
  <2>3. run' = [run EXCEPT ![r] = x] /\ book' = book
    BY <1>4 DEF ReadCursor, TypeOK
  <2> HIDE DEF c
  <2>4. run[r].todo = {}
    BY <1>2, <1>4 DEF ReadCursor, IsRun
  <2>2. IsRun(x)
    BY <1>2, <2>1, <2>4 DEF IsRun, Fields, PCs
  <2> HIDE DEF x
  <2> QED BY <2>2, <2>3, ReplaceRun DEF TypeOK
<1>5. CASE FetchDeals(r)
  <2> DEFINE S == {p \in Tickets : PostedExits(p) # {}}
             F == Fetched(run[r].cursor)
             x == [run[r] EXCEPT !.pc = "measure", !.cursor = None, !.figs = F, !.seen = S]
  <2>0. IsMap(F, Figures) /\ S \subseteq Tickets
    BY <1>2, FetchedFigures DEF IsRun
  <2>1. run[r].todo = {}
    BY <1>2, <1>5 DEF FetchDeals, IsRun
  <2>3. run' = [run EXCEPT ![r] = x] /\ book' = book
    BY <1>5 DEF FetchDeals, TypeOK
  <2> HIDE DEF F, S
  <2>2. IsRun(x)
    BY <1>2, <2>0, <2>1 DEF IsRun, Fields, PCs
  <2> HIDE DEF x
  <2> QED BY <2>2, <2>3, ReplaceRun DEF TypeOK
<1>6. CASE NothingToWrite(r)
  BY <1>2, <1>6, FinishedIsRun, ReplaceRun DEF NothingToWrite, TypeOK
<1>7. ASSUME NEW unpriced \in SUBSET Tickets, NEW measured \in SUBSET Tickets,
             Measure(r, unpriced, measured)
      PROVE  /\ IsMap(book', Row)
             /\ run' = [s \in Runs |-> run'[s]] /\ \A s \in Runs : IsRun(run'[s])
  <2> DEFINE x == [run[r] EXCEPT !.pc = "write", !.todo = DOMAIN run[r].figs,
                                 !.unpriced = unpriced, !.measured = measured]
  <2>1. run' = [run EXCEPT ![r] = x] /\ book' = book
    BY <1>7 DEF Measure, TypeOK
  <2>2. IsRun(x)
    BY <1>2 DEF IsRun, Fields, PCs
  <2> HIDE DEF x
  <2> QED BY <2>1, <2>2, ReplaceRun DEF TypeOK
<1>8. ASSUME NEW C \in SUBSET run[r].todo, WriteChunk(r, C)
      PROVE  /\ IsMap(book', Row)
             /\ run' = [s \in Runs |-> run'[s]] /\ \A s \in Runs : IsRun(run'[s])
  <2> DEFINE x == IF C = run[r].todo THEN Finished(run[r])
                  ELSE [run[r] EXCEPT !.todo = @ \ C]
  <2>1. run' = [run EXCEPT ![r] = x]
    BY <1>8 DEF WriteChunk, TypeOK
  <2>2. IsRun(x)
    BY <1>2, FinishedIsRun DEF IsRun, Fields, PCs
  <2>3. C \subseteq DOMAIN run[r].figs /\ DOMAIN run[r].figs \subseteq Tickets
    BY <1>2 DEF IsRun, IsMap
  <2>4. book' = [p \in DOMAIN book \union C |-> IF p \in C THEN Upserted(r, p) ELSE book[p]]
    BY <1>8 DEF WriteChunk
  <2>5. IsMap(book', Row)
    <3>1. \A p \in C : Upserted(r, p) \in Row
      BY <2>3, UpsertedIsRow
    <3>2. \A p \in DOMAIN book : book[p] \in Row /\ p \in Tickets
      BY DEF TypeOK, IsMap
    <3> QED BY <2>3, <2>4, <3>1, <3>2 DEF IsMap
  <2> HIDE DEF x
  <2> QED BY <2>1, <2>2, <2>5, ReplaceRun
<1>9. CASE Abort(r)
  BY <1>9, IdleIsRun, ReplaceRun DEF Abort, TypeOK
<1> QED BY <1>3, <1>4, <1>5, <1>6, <1>7, <1>8, <1>9 DEF Sync

\* What the trader does to the rows leaves them well-formed.
LEMMA TraderTypes ==
  ASSUME TypeOK, Trader
  PROVE  TypeOK'
<1>1. UNCHANGED <<now, deals, run>>
  BY DEF Trader, Annotate, DeleteRows
<1>2. IsMap(book', Row) /\ deleted' \subseteq Tickets
  <2>1. ASSUME NEW p \in Annotated, Annotate(p)
        PROVE  IsMap(book', Row) /\ deleted' \subseteq Tickets
    BY <2>1 DEF Annotate, TypeOK, IsMap, Row
  <2>2. ASSUME NEW S \in SUBSET DOMAIN book, DeleteRows(S)
        PROVE  IsMap(book', Row) /\ deleted' \subseteq Tickets
    BY <2>2 DEF DeleteRows, TypeOK, IsMap
  <2> QED BY <2>1, <2>2 DEF Trader
<1> QED BY <1>1, <1>2 DEF TypeOK, IsMap

-----------------------------------------------------------------------------
(* The broker: what it adds or reveals is too recent to be overtaken. *)

\* Steps of the syncs and of the trader leave the clock and the deals alone.
LEMMA OthersKeepDeals ==
  ASSUME (\E r \in Runs : Sync(r)) \/ Trader \/ UNCHANGED vars
  PROVE  UNCHANGED <<now, deals>>
BY DEF Sync, Trader, Start, ReadCursor, FetchDeals, NothingToWrite, Measure, WriteChunk, Abort,
       Annotate, DeleteRows, vars

\* Every step keeps the deals finite, past, and posted in time.
LEMMA DealsStep ==
  ASSUME TypeOK, DealsInv, [Next]_vars
  PROVE  DealsInv'
<1>1. CASE Tick
  <2>1. now \in Nat
    BY BoundsAssumption DEF TypeOK, Times
  <2>2. \A p \in Tickets : \A d \in deals[p] : d.time \in Nat
    BY BoundsAssumption DEF TypeOK, Deal, Times
  <2> QED BY <1>1, <2>1, <2>2, OverlapAssumption DEF Tick, DealsInv
<1>2. ASSUME NEW p \in Tickets, NEW kind \in {"in", "out", "balance"},
             NEW side \in {"buy", "sell"}, NEW stop \in Stops \union {None},
             NEW posted \in BOOLEAN, Execute(p, kind, side, stop, posted)
      PROVE  DealsInv'
  <2> DEFINE d == [n |-> Cardinality(deals[p]) + 1, kind |-> kind, side |-> side,
                   time |-> now, stop |-> stop, swap |-> FALSE, posted |-> posted]
  <2>1. deals' = [deals EXCEPT ![p] = @ \union {d}] /\ now' = now
    BY <1>2 DEF Execute
  <2>2. d.time <= now /\ now <= d.time + Lateness
    BY OverlapAssumption, BoundsAssumption DEF TypeOK, Times
  <2> HIDE DEF d
  <2>3. IsFiniteSet(deals[p] \union {d})
    BY FS_AddElement DEF DealsInv
  <2>4. deals'[p] = deals[p] \union {d} /\ \A q \in Tickets \ {p} : deals'[q] = deals[q]
    BY <2>1 DEF TypeOK
  <2>5. \A q \in Tickets : IsFiniteSet(deals'[q])
    BY <2>3, <2>4 DEF DealsInv
  <2>6. \A q \in Tickets : \A e \in deals'[q] :
           e.time <= now /\ (e.posted \/ now <= e.time + Lateness)
    BY <2>2, <2>4 DEF DealsInv
  <2> QED BY <2>1, <2>5, <2>6 DEF DealsInv
<1>3. ASSUME NEW p \in Tickets, NEW d \in deals[p], Post(p, d) \/ BookSwap(p, d)
      PROVE  DealsInv'
  <2>1. PICK e : /\ deals' = [deals EXCEPT ![p] = (@ \ {d}) \union {e}] /\ now' = now
                 /\ e.time = d.time /\ e.posted
    <3>1. d \in Deal
      BY DEF TypeOK
    <3>2. CASE Post(p, d)
      <4> DEFINE e == [d EXCEPT !.posted = TRUE]
      <4>1. e.time = d.time /\ e.posted
        BY <3>1 DEF Deal
      <4>2. deals' = [deals EXCEPT ![p] = (@ \ {d}) \union {e}] /\ now' = now
        BY <3>2 DEF Post
      <4> HIDE DEF e
      <4> QED BY <4>1, <4>2
    <3>3. CASE BookSwap(p, d)
      <4> DEFINE e == [d EXCEPT !.swap = TRUE]
      <4>1. e.time = d.time /\ e.posted
        BY <3>1, <3>3 DEF Deal, BookSwap
      <4>2. deals' = [deals EXCEPT ![p] = (@ \ {d}) \union {e}] /\ now' = now
        BY <3>3 DEF BookSwap
      <4> HIDE DEF e
      <4> QED BY <4>1, <4>2
    <3> QED BY <1>3, <3>2, <3>3
  <2>2. IsFiniteSet(deals[p] \ {d})
    BY FS_RemoveElement DEF DealsInv
  <2>3. IsFiniteSet((deals[p] \ {d}) \union {e})
    BY <2>2, FS_AddElement
  <2> QED BY <2>1, <2>3 DEF DealsInv, TypeOK
<1>4. CASE (\E r \in Runs : Sync(r)) \/ Trader \/ UNCHANGED vars
  BY <1>4, OthersKeepDeals DEF DealsInv
<1> QED BY <1>1, <1>2, <1>3, <1>4 DEF Next, Broker

\* A step of the broker takes no exit back, and any position it closes or closes further
\* has by then an exit within the overlap.
LEMMA BrokerStep ==
  ASSUME TypeOK, DealsInv, Broker
  PROVE  /\ UNCHANGED <<book, deleted, run>>
         /\ now <= now'
         /\ \A p \in Tickets :
              /\ \A e \in PostedExits(p) : \E d \in PostedExits(p)' : d.time = e.time
              /\ \A d \in PostedExits(p)' : \/ \E e \in PostedExits(p) : d.time = e.time
                                            \/ now - Overlap <= d.time
<1>1. UNCHANGED <<book, deleted, run>>
  BY DEF Broker, Tick, Execute, Post, BookSwap
<1>2. now \in Nat /\ \A p \in Tickets : \A d \in deals[p] : d \in Deal /\ d.time \in Nat
  BY BoundsAssumption DEF TypeOK, Times, Deal
<1> SUFFICES
      /\ now <= now'
      /\ \A p \in Tickets :
           /\ \A e \in PostedExits(p) : \E d \in PostedExits(p)' : d.time = e.time
           /\ \A d \in PostedExits(p)' : \/ \E e \in PostedExits(p) : d.time = e.time
                                         \/ now - Overlap <= d.time
  BY <1>1
<1>3. CASE Tick
  BY <1>2, <1>3 DEF Tick, PostedExits, Posted, Exits
<1>4. ASSUME NEW q \in Tickets, NEW kind \in {"in", "out", "balance"},
             NEW side \in {"buy", "sell"}, NEW stop \in Stops \union {None},
             NEW posted \in BOOLEAN, Execute(q, kind, side, stop, posted)
      PROVE  /\ now <= now'
             /\ \A p \in Tickets :
                  /\ \A e \in PostedExits(p) : \E d \in PostedExits(p)' : d.time = e.time
                  /\ \A d \in PostedExits(p)' : \/ \E e \in PostedExits(p) : d.time = e.time
                                                \/ now - Overlap <= d.time
  <2> DEFINE n == [n |-> Cardinality(deals[q]) + 1, kind |-> kind, side |-> side,
                   time |-> now, stop |-> stop, swap |-> FALSE, posted |-> posted]
  <2>1. deals' = [deals EXCEPT ![q] = @ \union {n}] /\ now' = now /\ n.time = now
    BY <1>4 DEF Execute
  <2>2. now - Overlap <= now
    BY <1>2, OverlapAssumption
  <2> HIDE DEF n
  <2>3. \A p \in Tickets : deals[p] \subseteq deals'[p] /\ deals'[p] \subseteq deals[p] \union {n}
    BY <2>1 DEF TypeOK
  <2> QED BY <1>2, <2>1, <2>2, <2>3 DEF PostedExits, Posted, Exits
<1>5. ASSUME NEW q \in Tickets, NEW x \in deals[q], Post(q, x) \/ BookSwap(q, x)
      PROVE  /\ now <= now'
             /\ \A p \in Tickets :
                  /\ \A e \in PostedExits(p) : \E d \in PostedExits(p)' : d.time = e.time
                  /\ \A d \in PostedExits(p)' : \/ \E e \in PostedExits(p) : d.time = e.time
                                                \/ now - Overlap <= d.time
  <2>1. PICK y : /\ deals' = [deals EXCEPT ![q] = (@ \ {x}) \union {y}] /\ now' = now
                 /\ y.time = x.time /\ y.kind = x.kind /\ y.posted
                 /\ x.posted \/ now - Overlap <= x.time
    <3>1. x \in Deal
      BY DEF TypeOK
    <3>2. CASE Post(q, x)
      <4>1. now <= x.time + Lateness
        BY <3>2 DEF Post, DealsInv
      <4>2. now - Overlap <= x.time
        BY <1>2, <4>1, OverlapAssumption
      <4> DEFINE y == [x EXCEPT !.posted = TRUE]
      <4>3. y.time = x.time /\ y.kind = x.kind /\ y.posted
        BY <3>1 DEF Deal
      <4>4. deals' = [deals EXCEPT ![q] = (@ \ {x}) \union {y}] /\ now' = now
        BY <3>2 DEF Post
      <4> HIDE DEF y
      <4> QED BY <4>2, <4>3, <4>4
    <3>3. CASE BookSwap(q, x)
      <4> DEFINE y == [x EXCEPT !.swap = TRUE]
      <4>1. y.time = x.time /\ y.kind = x.kind /\ y.posted /\ x.posted
        BY <3>1, <3>3 DEF Deal, BookSwap
      <4>2. deals' = [deals EXCEPT ![q] = (@ \ {x}) \union {y}] /\ now' = now
        BY <3>3 DEF BookSwap
      <4> HIDE DEF y
      <4> QED BY <4>1, <4>2
    <3> QED BY <1>5, <3>2, <3>3
  <2>2. \A p \in Tickets : p # q => deals'[p] = deals[p]
    BY <2>1 DEF TypeOK
  <2>3. deals'[q] = (deals[q] \ {x}) \union {y}
    BY <2>1 DEF TypeOK
  <2>4. \A p \in Tickets : p # q => PostedExits(p)' = PostedExits(p)
    BY <2>2 DEF PostedExits, Posted, Exits
  <2>5. \A e \in PostedExits(q) : \E d \in PostedExits(q)' : d.time = e.time
    BY <2>1, <2>3 DEF PostedExits, Posted, Exits
  <2>6. \A d \in PostedExits(q)' : \/ \E e \in PostedExits(q) : d.time = e.time
                                   \/ now - Overlap <= d.time
    BY <2>1, <2>3 DEF PostedExits, Posted, Exits
  <2> QED BY <1>2, <2>1, <2>4, <2>5, <2>6
<1> QED BY <1>3, <1>4, <1>5 DEF Broker

\* So nothing becomes closed before a time that the overlap already separates from now.
LEMMA NoLateClose ==
  ASSUME TypeOK, DealsInv, Broker, NEW p \in Tickets, NEW t \in Int, t + Overlap <= now,
         ClosedBefore(p, t)'
  PROVE  ClosedBefore(p, t)
<1>1. now \in Nat /\ \A e \in PostedExits(p) : e.time \in Nat
  BY PostedExitsAreDeals, BoundsAssumption DEF TypeOK, Times
<1>2. /\ \A e \in PostedExits(p) : \E d \in PostedExits(p)' : d.time = e.time
      /\ \A d \in PostedExits(p)' : \/ \E e \in PostedExits(p) : d.time = e.time
                                    \/ now - Overlap <= d.time
  BY BrokerStep
<1>3. PostedExits(p)' # {} /\ \A d \in PostedExits(p)' : d.time < t
  BY DEF ClosedBefore
<1>4. \A d \in PostedExits(p)' : d.time \in Int
  BY BrokerTypes, PostedExitsAreDeals DEF Times, TypeOK, PostedExits, Posted, Exits, Deal
<1>5. \A d \in PostedExits(p)' : \E e \in PostedExits(p) : d.time = e.time
  BY <1>1, <1>2, <1>3, <1>4, OverlapAssumption
<1> QED BY <1>2, <1>3, <1>5 DEF ClosedBefore

-----------------------------------------------------------------------------
(* The inductive step. *)

\* The times and cursors of a well-typed state are integers.
LEMMA Numbers ==
  ASSUME TypeOK
  PROVE  /\ now \in Nat
         /\ \A p \in DOMAIN book : p \in Tickets /\ book[p].fig.closeAt \in Nat
         /\ \A r \in Runs : run[r].cursor # None => run[r].cursor \in Int
         /\ \A r \in Runs : \A p \in DOMAIN run[r].figs :
               p \in Tickets /\ run[r].figs[p].closeAt \in Nat
         /\ \A p \in Tickets : \A d \in PostedExits(p) : d.time \in Nat
<1>1. now \in Nat /\ Times \subseteq Nat
  BY BoundsAssumption DEF TypeOK, Times
<1>2. \A p \in DOMAIN book : p \in Tickets /\ book[p].fig.closeAt \in Nat
  BY <1>1 DEF TypeOK, IsMap, Row, Figures
<1>3. \A r \in Runs : run[r].cursor # None => run[r].cursor \in Int
  BY DEF TypeOK, IsRun
<1>4. \A r \in Runs : \A p \in DOMAIN run[r].figs :
         p \in Tickets /\ run[r].figs[p].closeAt \in Nat
  BY <1>1 DEF TypeOK, IsRun, IsMap, Figures
<1>5. \A p \in Tickets : \A d \in PostedExits(p) : d.time \in Nat
  BY <1>1, PostedExitsAreDeals
<1> QED BY <1>1, <1>2, <1>3, <1>4, <1>5

LEMMA BrokerKeeps ==
  ASSUME IInv, Broker
  PROVE  PastInv' /\ BookInv' /\ \A r \in Runs : RunInv(run[r])'
<1> USE DEF IInv
<1>1. UNCHANGED <<book, deleted, run>> /\ now <= now' /\ now' \in Nat
  BY BrokerStep, BrokerTypes, BoundsAssumption DEF TypeOK, Times
<1>2. Kept' = Kept
  BY <1>1 DEF Kept
<1>3. PastInv'
  BY <1>1, Numbers DEF PastInv
<1>4. BookInv'
  <2> SUFFICES ASSUME NEW q \in DOMAIN book, NEW p \in Tickets,
                      ClosedBefore(p, book[q].fig.closeAt - Overlap)'
               PROVE  p \in Kept
    BY <1>1, <1>2 DEF BookInv
  <2>1. PICK t \in Int : t = book[q].fig.closeAt - Overlap /\ t + Overlap <= now
    BY Numbers, OverlapAssumption DEF PastInv
  <2>2. ClosedBefore(p, t)'
    BY <1>1, <2>1 DEF ClosedBefore
  <2>3. ClosedBefore(p, t)
    BY <2>1, <2>2, NoLateClose
  <2> QED BY <2>1, <2>3 DEF BookInv
<1>5. ASSUME NEW r \in Runs
      PROVE  RunInv(run[r])'
  <2>0. RunInv(run[r]) /\ run'[r] = run[r]
    BY <1>1
  <2>1. CursorInv(run[r])'
    <3>1. CASE run[r].cursor = None
      BY <1>1, <3>1 DEF CursorInv
    <3>2. CASE run[r].cursor # None
      <4>1. run[r].cursor \in Int /\ run[r].cursor + Overlap <= now
        BY <2>0, <3>2, Numbers DEF RunInv, CursorInv
      <4>2. run[r].cursor + Overlap <= now'
        BY <1>1, <4>1, Numbers, OverlapAssumption
      <4>3. \A p \in Tickets : ClosedBefore(p, run[r].cursor)' => ClosedBefore(p, run[r].cursor)
        BY <1>1, <4>1, NoLateClose DEF ClosedBefore
      <4> QED BY <1>1, <1>2, <2>0, <3>2, <4>2, <4>3 DEF RunInv, CursorInv
    <3> QED BY <3>1, <3>2
  <2>2. \A p \in DOMAIN run[r].figs :
           /\ run[r].figs[p].closeAt <= now'
           /\ \E d \in PostedExits(p)' : d.time = run[r].figs[p].closeAt
    BY <1>1, <2>0, Numbers, BrokerStep DEF RunInv, HoldInv
  <2>3. ASSUME NEW q \in DOMAIN run[r].figs, NEW p \in Tickets,
               ClosedBefore(p, run[r].figs[q].closeAt - Overlap)'
        PROVE  p \in DOMAIN run[r].figs \union Kept
    <3>1. PICK t \in Int : t = run[r].figs[q].closeAt - Overlap /\ t + Overlap <= now
      BY <2>0, Numbers, OverlapAssumption DEF RunInv, HoldInv
    <3>2. ClosedBefore(p, t)'
      BY <1>1, <2>3, <3>1 DEF ClosedBefore
    <3>3. ClosedBefore(p, t)
      BY <3>1, <3>2, NoLateClose
    <3> QED BY <2>0, <3>1, <3>3 DEF RunInv, HoldInv
  <2>4. HoldInv(run[r])'
    BY <1>1, <1>2, <2>0, <2>2, <2>3 DEF RunInv, HoldInv
  <2>5. SeenInv(run[r])'
    BY <1>1, <1>2, <2>0 DEF RunInv, SeenInv
  <2> QED BY <2>1, <2>4, <2>5 DEF RunInv
<1> QED BY <1>3, <1>4, <1>5

(***************************************************************************)
(* The syncs and the trader never touch the deals, so what a run may rely  *)
(* on can only fail if the journal keeps less than before.  Still(x, y)    *)
(* says that a run has not moved (its history flag `alone` may change).    *)
(***************************************************************************)
Still(x, y) == /\ y.pc = x.pc /\ y.cursor = x.cursor /\ y.figs = x.figs
               /\ y.todo = x.todo /\ y.seen = x.seen

LEMMA SameDeals ==
  ASSUME UNCHANGED <<now, deals>>
  PROVE  /\ \A p \in Tickets : PostedExits(p)' = PostedExits(p)
         /\ \A p \in Tickets : \A t : ClosedBefore(p, t)' <=> ClosedBefore(p, t)
BY DEF ClosedBefore, PostedExits, Exits, Posted

LEMMA StillRunKeeps ==
  ASSUME TypeOK, UNCHANGED <<now, deals>>, Kept \subseteq Kept', NEW r \in Runs,
         RunInv(run[r]), Still(run[r], run'[r])
  PROVE  RunInv(run[r])'
<1>1. \A p \in DOMAIN run[r].figs : p \in Tickets
  BY Numbers
<1>2. CursorInv(run[r])'
  BY SameDeals DEF Still, RunInv, CursorInv, ClosedBefore
<1>3. HoldInv(run[r])'
  BY <1>1, SameDeals DEF Still, RunInv, HoldInv, ClosedBefore
<1>4. SeenInv(run[r])'
  BY DEF Still, RunInv, SeenInv
<1> QED BY <1>2, <1>3, <1>4 DEF RunInv

LEMMA TraderKeeps ==
  ASSUME IInv, Trader
  PROVE  PastInv' /\ BookInv' /\ \A r \in Runs : RunInv(run[r])'
<1> USE DEF IInv
<1>1. UNCHANGED <<now, deals, run>>
  BY DEF Trader, Annotate, DeleteRows
<1>2. /\ Kept' = Kept /\ DOMAIN book' \subseteq DOMAIN book
      /\ \A p \in DOMAIN book' : book'[p].fig = book[p].fig
  <2>1. ASSUME NEW p \in Annotated, Annotate(p)
        PROVE  /\ Kept' = Kept /\ DOMAIN book' \subseteq DOMAIN book
               /\ \A q \in DOMAIN book' : book'[q].fig = book[q].fig
    <3>1. p \in DOMAIN book /\ book[p] \in Row
      BY <2>1 DEF Annotate, TypeOK, IsMap
    <3> QED BY <2>1, <3>1 DEF Annotate, Kept, Row
  <2>2. ASSUME NEW S \in SUBSET DOMAIN book, DeleteRows(S)
        PROVE  /\ Kept' = Kept /\ DOMAIN book' \subseteq DOMAIN book
               /\ \A q \in DOMAIN book' : book'[q].fig = book[q].fig
    BY <2>2 DEF DeleteRows, Kept
  <2> QED BY <2>1, <2>2 DEF Trader
<1>3. PastInv'
  BY <1>1, <1>2 DEF PastInv
<1>4. BookInv'
  BY <1>1, <1>2, SameDeals DEF BookInv, ClosedBefore
<1>5. \A r \in Runs : RunInv(run[r])'
  BY <1>1, <1>2, StillRunKeeps DEF Still
<1> QED BY <1>3, <1>4, <1>5

\* The moves of a sync that write nothing to the journal.
LEMMA ReadersKeep ==
  ASSUME IInv, NEW r \in Runs, UNCHANGED <<now, deals, book, deleted>>,
         \A s \in Runs \ {r} : Still(run[s], run'[s]), RunInv(run[r])'
  PROVE  PastInv' /\ BookInv' /\ \A s \in Runs : RunInv(run[s])'
<1> USE DEF IInv
<1>1. Kept' = Kept
  BY DEF Kept
<1>2. PastInv'
  BY DEF PastInv
<1>3. BookInv'
  BY <1>1, SameDeals DEF BookInv, ClosedBefore
<1>4. \A s \in Runs \ {r} : RunInv(run[s])'
  BY <1>1, StillRunKeeps
<1> QED BY <1>2, <1>3, <1>4

\* A run that holds nothing and has seen nothing keeps its invariant.
LEMMA EmptyRunInv ==
  ASSUME NEW r \in Runs, run'[r].cursor = None, DOMAIN run'[r].figs = {}, run'[r].seen = {}
  PROVE  RunInv(run[r])'
BY DEF RunInv, CursorInv, HoldInv, SeenInv

\* The cursor of an incremental sync is covered by what the journal keeps.
LEMMA ReadCursorKeeps ==
  ASSUME IInv, NEW r \in Runs, ReadCursor(r)
  PROVE  RunInv(run[r])'
<1> USE DEF IInv
<1>0. run[r] = [f \in Fields |-> run[r][f]] /\ run = [s \in Runs |-> run[s]]
  BY DEF TypeOK, IsRun
<1>1. /\ run'[r].pc = "fetch" /\ run'[r].figs = run[r].figs /\ run'[r].seen = run[r].seen
      /\ run'[r].cursor = IF run[r].trigger = "backfill" THEN None ELSE IncrementalCursor
      /\ run[r].pc = "cursor" /\ UNCHANGED <<now, deals, book, deleted>>
  BY <1>0 DEF ReadCursor, Fields
<1>2. DOMAIN run[r].figs = {}
  BY <1>1 DEF RunInv, HoldInv
<1>3. ASSUME run'[r].cursor # None
      PROVE  /\ run'[r].cursor + Overlap <= now
             /\ \A p \in Tickets : ClosedBefore(p, run'[r].cursor) => p \in Kept
  <2>1. DOMAIN book # {} /\ run'[r].cursor = Newest - Overlap
    BY <1>1, <1>3 DEF IncrementalCursor
  <2>2. PICK q \in DOMAIN book : book[q].fig.closeAt = Newest
    BY <2>1, NewestIsAClose
  <2>3. run'[r].cursor = book[q].fig.closeAt - Overlap
    BY <2>1, <2>2
  <2>4. run'[r].cursor + Overlap = book[q].fig.closeAt
    BY <2>3, Numbers, OverlapAssumption
  <2> QED BY <2>3, <2>4 DEF PastInv, BookInv
<1>4. CursorInv(run[r])'
  BY <1>1, <1>3, SameDeals DEF CursorInv, Kept, ClosedBefore
<1>5. HoldInv(run[r])' /\ SeenInv(run[r])'
  BY <1>1, <1>2 DEF HoldInv, SeenInv
<1> QED BY <1>4, <1>5 DEF RunInv

\* What the broker reports as closed and the fetch leaves out closed before the cursor.
LEMMA FetchCovers ==
  ASSUME TypeOK, NEW cursor \in Int \union {None}, NEW p \in Tickets, PostedExits(p) # {},
         p \notin DOMAIN Fetched(cursor)
  PROVE  cursor # None /\ ClosedBefore(p, cursor)
<1>1. Exits(Returned(p, cursor)) = {}
  BY DEF Fetched, Reportable
<1>2. cursor # None
  BY <1>1 DEF Returned, Since, PostedExits
<1>3. \A d \in PostedExits(p) : d.time < cursor
  <2>1. \A d \in PostedExits(p) : d.time \in Int
    BY Numbers
  <2>2. CASE Provider = "metaapi"
    <3>1. \A d \in PostedExits(p) : ~ (d.time >= cursor)
      BY <1>1, <1>2, <2>2 DEF Returned, Since, PostedExits, Exits
    <3> QED BY <1>2, <2>1, <3>1
  <2>3. CASE Provider # "metaapi"
    BY <1>1, <1>2, <2>3 DEF Returned, PostedExits, Exits
  <2> QED BY <2>2, <2>3
<1> QED BY <1>2, <1>3 DEF ClosedBefore

LEMMA FetchDealsKeeps ==
  ASSUME IInv, NEW r \in Runs, FetchDeals(r)
  PROVE  RunInv(run[r])'
<1> USE DEF IInv
<1> DEFINE F == Fetched(run[r].cursor)
<1>0. run[r] = [f \in Fields |-> run[r][f]] /\ run = [s \in Runs |-> run[s]]
      /\ run[r].cursor \in Int \union {None}
  BY DEF TypeOK, IsRun
<1>1. /\ run'[r].pc = "measure" /\ run'[r].figs = F /\ run'[r].cursor = None
      /\ run'[r].seen = {p \in Tickets : PostedExits(p) # {}}
      /\ UNCHANGED <<now, deals, book, deleted>>
  BY <1>0 DEF FetchDeals, Fields
<1>2. Kept' = Kept
  BY <1>1 DEF Kept
<1>3. \A p \in DOMAIN F : p \in Tickets /\ \E d \in PostedExits(p) : d.time = F[p].closeAt
  BY <1>0, FetchedFigures DEF IsMap
<1>4. \A p \in DOMAIN F : F[p].closeAt \in Nat /\ F[p].closeAt <= now
  BY <1>3, Numbers DEF DealsInv, PostedExits, Posted, Exits
<1>5. \A p \in Tickets : PostedExits(p) # {} => p \in DOMAIN F \union Kept
  BY <1>0, FetchCovers DEF RunInv, CursorInv
<1> HIDE DEF F
<1>6. HoldInv(run[r])'
  <2>1. \A p \in DOMAIN F : \E d \in PostedExits(p)' : d.time = F[p].closeAt
    BY <1>1, <1>3, SameDeals
  <2>2. \A p \in Tickets : PostedExits(p)' # {} => p \in DOMAIN F \union Kept'
    BY <1>1, <1>2, <1>5, SameDeals
  <2> QED BY <1>1, <1>4, <2>1, <2>2 DEF HoldInv, ClosedBefore
<1>7. SeenInv(run[r])' /\ CursorInv(run[r])'
  BY <1>1, <1>2, <1>5 DEF SeenInv, CursorInv
<1> QED BY <1>6, <1>7 DEF RunInv

LEMMA NothingToWriteKeeps ==
  ASSUME IInv, NEW r \in Runs, NothingToWrite(r)
  PROVE  RunInv(run[r])'
<1> USE DEF IInv
<1>1. IsRun(run[r]) /\ run = [s \in Runs |-> run[s]]
  BY DEF TypeOK
<1>2. /\ run'[r] = Finished(run[r]) /\ run[r].pc = "measure" /\ DOMAIN run[r].figs = {}
      /\ UNCHANGED <<now, deals, book, deleted>>
  BY <1>1 DEF NothingToWrite
<1>3. run'[r].cursor = None /\ DOMAIN run'[r].figs = {} /\ run'[r].seen = run[r].seen
  BY <1>1, <1>2, FinishedIsRun, EmptyMapIsMap
<1>4. run[r].seen \subseteq Kept'
  BY <1>2 DEF RunInv, SeenInv, Kept
<1>5. run'[r].pc = "done"
  BY <1>1, <1>2, FinishedIsRun
<1> QED BY <1>3, <1>4, <1>5 DEF RunInv, CursorInv, HoldInv, SeenInv

LEMMA MeasureKeeps ==
  ASSUME IInv, NEW r \in Runs, NEW unpriced, NEW measured, Measure(r, unpriced, measured)
  PROVE  RunInv(run[r])'
<1> USE DEF IInv
<1>1. IsRun(run[r]) /\ run = [s \in Runs |-> run[s]]
  BY DEF TypeOK
<1>2. /\ run'[r].pc = "write" /\ run'[r].figs = run[r].figs /\ run'[r].seen = run[r].seen
      /\ run'[r].cursor = run[r].cursor /\ run'[r].todo = DOMAIN run[r].figs
      /\ run[r].pc = "measure" /\ UNCHANGED <<now, deals, book, deleted>>
  BY <1>1 DEF Measure, IsRun, Fields
<1>3. Kept' = Kept /\ \A p \in DOMAIN run[r].figs : p \in Tickets
  BY <1>2, Numbers DEF Kept
<1>4. CursorInv(run[r])'
  BY <1>2, <1>3, SameDeals DEF RunInv, CursorInv, ClosedBefore
<1>5. HoldInv(run[r])'
  BY <1>2, <1>3, SameDeals DEF RunInv, HoldInv, ClosedBefore
<1>6. SeenInv(run[r])'
  BY <1>2, <1>3 DEF RunInv, SeenInv
<1> QED BY <1>4, <1>5, <1>6 DEF RunInv

(***************************************************************************)
(* Writing a chunk.  A position older by the overlap than a row written is *)
(* not left behind: if the run holds it, the sort by close puts it no      *)
(* later than that row.                                                    *)
(***************************************************************************)
LEMMA WriteChunkKeeps ==
  ASSUME IInv, NEW r \in Runs, NEW C \in SUBSET run[r].todo, WriteChunk(r, C)
  PROVE  PastInv' /\ BookInv' /\ \A s \in Runs : RunInv(run[s])'
<1> USE DEF IInv
<1> DEFINE figs == run[r].figs
<1>1. IsRun(run[r]) /\ run = [s \in Runs |-> run[s]] /\ RunInv(run[r])
  BY DEF TypeOK
<1>2. /\ UNCHANGED <<now, deals, deleted>> /\ run[r].pc = "write" /\ IsNextChunk(r, C)
      /\ book' = [p \in DOMAIN book \union C |-> IF p \in C THEN Upserted(r, p) ELSE book[p]]
      /\ \A s \in Runs \ {r} : run'[s] = run[s]
      /\ run'[r] = IF C = run[r].todo THEN Finished(run[r])
                   ELSE [run[r] EXCEPT !.todo = @ \ C]
  BY <1>1 DEF WriteChunk
<1>3. C \subseteq DOMAIN figs /\ run[r].todo \subseteq DOMAIN figs
      /\ \A p \in DOMAIN figs : p \in Tickets
  BY <1>1, Numbers DEF IsRun
<1>4. /\ DOMAIN book' = DOMAIN book \union C
      /\ \A p \in C : book'[p].fig = figs[p]
      /\ \A p \in DOMAIN book \ C : book'[p] = book[p]
  BY <1>2, <1>3, UpsertedIsRow
<1>5. Kept' = Kept \union C
  BY <1>2, <1>4 DEF Kept
<1>6. PastInv'
  BY <1>1, <1>2, <1>3, <1>4 DEF PastInv, RunInv, HoldInv
<1>7. BookInv'
  <2> SUFFICES ASSUME NEW q \in DOMAIN book', NEW p \in Tickets,
                      ClosedBefore(p, book[q].fig.closeAt - Overlap)'
               PROVE  p \in Kept'
    BY DEF BookInv
  <2>0. PostedExits(p)' = PostedExits(p)
    BY <1>2, SameDeals
  <2>a. ClosedBefore(p, book'[q].fig.closeAt - Overlap)
    BY <2>0 DEF ClosedBefore
  <2> SUFFICES p \in Kept \union C
    BY <1>5
  <2>1. CASE q \notin C
    BY <1>4, <2>1, <2>a DEF BookInv
  <2>2. CASE q \in C
    <3>1. ClosedBefore(p, figs[q].closeAt - Overlap)
      BY <1>4, <2>2, <2>a
    <3>2. p \in DOMAIN figs \union Kept
      BY <1>1, <1>3, <2>2, <3>1 DEF RunInv, HoldInv
    <3>3. CASE p \in DOMAIN figs /\ p \notin Kept
      <4>1. p \in run[r].todo
        BY <1>1, <1>2, <3>3 DEF RunInv, HoldInv
      <4>2. PICK d \in PostedExits(p) : d.time = figs[p].closeAt
        BY <1>1, <3>3 DEF RunInv, HoldInv
      <4>3. figs[p].closeAt < figs[q].closeAt - Overlap
        BY <3>1, <4>2 DEF ClosedBefore
      <4>4. figs[p].closeAt \in Nat /\ figs[q].closeAt \in Nat
        BY <1>3, <2>2, <3>3, Numbers
      <4>5. ~ (figs[q].closeAt <= figs[p].closeAt)
        BY <4>3, <4>4, OverlapAssumption
      <4> QED BY <1>2, <2>2, <4>1, <4>5 DEF IsNextChunk
    <3> QED BY <3>2, <3>3
  <2> QED BY <2>1, <2>2
<1>8. \A s \in Runs \ {r} : RunInv(run[s])'
  BY <1>2, <1>5, StillRunKeeps DEF Still
<1>9. RunInv(run[r])'
  <2>1. CASE C = run[r].todo
    <3>1. run'[r] = Finished(run[r])
      BY <1>2, <2>1
    <3>2. /\ run'[r].cursor = None /\ DOMAIN run'[r].figs = {} /\ run'[r].seen = run[r].seen
          /\ run'[r].pc = "done"
      BY <1>1, <3>1, FinishedIsRun, EmptyMapIsMap
    <3>3. run[r].seen \subseteq Kept'
      BY <1>1, <1>2, <1>5, <2>1 DEF RunInv, SeenInv, HoldInv
    <3> QED BY <3>2, <3>3 DEF RunInv, CursorInv, HoldInv, SeenInv
  <2>2. CASE C # run[r].todo
    <3>1. /\ run'[r].pc = "write" /\ run'[r].figs = figs /\ run'[r].seen = run[r].seen
          /\ run'[r].cursor = run[r].cursor /\ run'[r].todo = run[r].todo \ C
      BY <1>1, <1>2, <2>2 DEF IsRun, Fields
    <3>2. CursorInv(run[r])'
      BY <1>1, <1>2, <1>5, <3>1, SameDeals DEF RunInv, CursorInv, ClosedBefore
    <3>3. HoldInv(run[r])'
      BY <1>1, <1>2, <1>3, <1>5, <3>1, SameDeals DEF RunInv, HoldInv, ClosedBefore
    <3>4. SeenInv(run[r])'
      BY <1>1, <1>2, <1>5, <3>1 DEF RunInv, SeenInv
    <3> QED BY <3>2, <3>3, <3>4 DEF RunInv
  <2> QED BY <2>1, <2>2
<1> QED BY <1>6, <1>7, <1>8, <1>9

\* Every step of a sync preserves the invariant.
LEMMA SyncKeeps ==
  ASSUME IInv, NEW r \in Runs, Sync(r)
  PROVE  PastInv' /\ BookInv' /\ \A s \in Runs : RunInv(run[s])'
<1> USE DEF IInv
<1>0. run = [s \in Runs |-> run[s]]
  BY DEF TypeOK
<1>1. ASSUME NEW trigger \in Triggers, Start(r, trigger)
      PROVE  PastInv' /\ BookInv' /\ \A s \in Runs : RunInv(run[s])'
  <2>1. UNCHANGED <<now, deals, book, deleted>>
    BY <1>1 DEF Start
  <2>2. \A s \in Runs \ {r} : Still(run[s], run'[s])
    <3> TAKE s \in Runs \ {r}
    <3>1. run'[s] = [run[s] EXCEPT !.alone = FALSE] /\ IsRun(run[s])
      BY <1>1 DEF Start, TypeOK
    <3> QED BY <3>1 DEF Still, IsRun, Fields
  <2>3. run'[r].cursor = None /\ DOMAIN run'[r].figs = {} /\ run'[r].seen = {}
    BY <1>1, EmptyMapIsMap DEF Start, IdleRun
  <2> QED BY <2>1, <2>2, <2>3, EmptyRunInv, ReadersKeep
<1>2. CASE ReadCursor(r)
  <2>1. UNCHANGED <<now, deals, book, deleted>> /\ \A s \in Runs \ {r} : Still(run[s], run'[s])
    BY <1>0, <1>2 DEF ReadCursor, Still
  <2> QED BY <1>2, <2>1, ReadCursorKeeps, ReadersKeep
<1>3. CASE FetchDeals(r)
  <2>1. UNCHANGED <<now, deals, book, deleted>> /\ \A s \in Runs \ {r} : Still(run[s], run'[s])
    BY <1>0, <1>3 DEF FetchDeals, Still
  <2> QED BY <1>3, <2>1, FetchDealsKeeps, ReadersKeep
<1>4. CASE NothingToWrite(r)
  <2>1. UNCHANGED <<now, deals, book, deleted>> /\ \A s \in Runs \ {r} : Still(run[s], run'[s])
    BY <1>0, <1>4 DEF NothingToWrite, Still
  <2> QED BY <1>4, <2>1, NothingToWriteKeeps, ReadersKeep
<1>5. ASSUME NEW unpriced \in SUBSET Tickets, NEW measured \in SUBSET Tickets,
             Measure(r, unpriced, measured)
      PROVE  PastInv' /\ BookInv' /\ \A s \in Runs : RunInv(run[s])'
  <2>1. UNCHANGED <<now, deals, book, deleted>> /\ \A s \in Runs \ {r} : Still(run[s], run'[s])
    BY <1>0, <1>5 DEF Measure, Still
  <2> QED BY <1>5, <2>1, MeasureKeeps, ReadersKeep
<1>6. ASSUME NEW C \in SUBSET run[r].todo, WriteChunk(r, C)
      PROVE  PastInv' /\ BookInv' /\ \A s \in Runs : RunInv(run[s])'
  BY <1>6, WriteChunkKeeps
<1>7. CASE Abort(r)
  <2>1. UNCHANGED <<now, deals, book, deleted>> /\ \A s \in Runs \ {r} : Still(run[s], run'[s])
    BY <1>0, <1>7 DEF Abort, Still
  <2>2. run'[r].cursor = None /\ DOMAIN run'[r].figs = {} /\ run'[r].seen = {}
    BY <1>0, <1>7, EmptyMapIsMap DEF Abort, IdleRun
  <2> QED BY <2>1, <2>2, EmptyRunInv, ReadersKeep
<1> QED BY <1>1, <1>2, <1>3, <1>4, <1>5, <1>6, <1>7 DEF Sync

-----------------------------------------------------------------------------
(* The theorems. *)

\* The initial state satisfies the invariant.
LEMMA InitInv == Init => IInv
<1> SUFFICES ASSUME Init PROVE IInv
  OBVIOUS
<1>1. TypeOK
  BY EmptyMapIsMap, IdleIsRun, BoundsAssumption DEF Init, TypeOK, Times
<1>2. DealsInv
  BY FS_EmptySet DEF Init, DealsInv
<1>3. PastInv /\ BookInv
  BY EmptyMapIsMap DEF Init, PastInv, BookInv
<1>4. \A r \in Runs : RunInv(run[r])
  BY EmptyMapIsMap DEF Init, IdleRun, RunInv, CursorInv, HoldInv, SeenInv
<1> QED BY <1>1, <1>2, <1>3, <1>4 DEF IInv

\* Every step preserves the invariant.
LEMMA StepInv == IInv /\ [Next]_vars => IInv'
<1> SUFFICES ASSUME IInv, [Next]_vars PROVE IInv'
  OBVIOUS
<1>1. DealsInv'
  BY DealsStep DEF IInv
<1>2. CASE Broker
  BY <1>1, <1>2, BrokerTypes, BrokerKeeps DEF IInv
<1>3. CASE \E r \in Runs : Sync(r)
  BY <1>1, <1>3, SyncTypes, SyncKeeps DEF IInv
<1>4. CASE Trader
  BY <1>1, <1>4, TraderTypes, TraderKeeps DEF IInv
<1>5. CASE UNCHANGED vars
  <2>1. Kept' = Kept /\ UNCHANGED <<now, deals, book, deleted, run>>
    BY <1>5 DEF vars, Kept
  <2>2. TypeOK' /\ PastInv'
    BY <2>1 DEF IInv, TypeOK, PastInv, IsMap
  <2>3. BookInv'
    BY <2>1, SameDeals DEF IInv, BookInv, ClosedBefore
  <2>4. \A r \in Runs : RunInv(run[r])'
    BY <2>1, StillRunKeeps DEF IInv, Still
  <2> QED BY <1>1, <2>2, <2>3, <2>4 DEF IInv
<1> QED BY <1>2, <1>3, <1>4, <1>5 DEF Next

THEOREM Invariance == Spec => []IInv
BY InitInv, StepInv, PTL DEF Spec

\* Type correctness: in every reachable state each variable has its type, for any tickets,
\* runs, window and chunk size.
THEOREM TypeCorrect == Spec => []TypeOK
<1>1. IInv => TypeOK
  BY DEF IInv
<1> QED BY <1>1, Invariance, PTL

(***************************************************************************)
(* The journal has no holes, for any number of tickets, concurrent syncs,  *)
(* crashes, deletions and any chunk size, provided that the broker posts   *)
(* its deals within the overlap: when a sync completes, every position the *)
(* broker reported closed when it read the deals is kept.                  *)
(***************************************************************************)
THEOREM JournalComplete == Spec => []NoHoles
<1>1. IInv => NoHoles
  BY DEF IInv, RunInv, SeenInv, NoHoles, Kept
<1> QED BY <1>1, Invariance, PTL

\* No stored row ever overtakes, by more than the overlap, a closed position that is not
\* kept: an interrupted import is resumed without loss by the next incremental sync.
THEOREM CursorCovers == Spec => []CursorSound
<1>1. ASSUME IInv PROVE CursorSound
  <2> SUFFICES ASSUME NEW q \in DOMAIN book, NEW p \in Tickets, PostedExits(p) # {},
                      \A d \in PostedExits(p) : d.time + Overlap < book[q].fig.closeAt
               PROVE  p \in Kept
    BY DEF CursorSound, Kept
  <2>1. \A d \in PostedExits(p) : d.time < book[q].fig.closeAt - Overlap
    BY <1>1, Numbers, OverlapAssumption DEF IInv
  <2> QED BY <1>1, <2>1 DEF IInv, BookInv, ClosedBefore
<1> QED BY <1>1, Invariance, PTL

\* Only the sync and the trader touch the rows, and what they leave of one.
LEMMA RowSteps ==
  ASSUME IInv, [Next]_vars, NEW p \in DOMAIN book'
  PROVE  \/ p \in DOMAIN book /\ book'[p] = book[p]
         \/ p \in DOMAIN book /\ book'[p] = [book[p] EXCEPT !.note = TRUE]
         \/ \E r \in Runs : /\ run[r].pc = "write" /\ p \in DOMAIN run[r].figs
                           /\ book'[p] = Upserted(r, p)
<1>1. book = [q \in DOMAIN book |-> book[q]]
  BY DEF IInv, TypeOK, IsMap
<1>2. CASE book' = book
  BY <1>2
<1>3. ASSUME NEW r \in Runs, NEW C \in SUBSET run[r].todo, WriteChunk(r, C)
      PROVE  \/ p \in DOMAIN book /\ book'[p] = book[p]
             \/ /\ run[r].pc = "write" /\ p \in DOMAIN run[r].figs
                /\ book'[p] = Upserted(r, p)
  BY <1>3 DEF WriteChunk, IInv, TypeOK, IsRun
<1>4. CASE \E q \in Annotated : Annotate(q)
  BY <1>1, <1>4 DEF Annotate
<1>5. CASE \E S \in SUBSET DOMAIN book : DeleteRows(S)
  BY <1>5 DEF DeleteRows
<1>6. CASE \E r \in Runs : Sync(r)
  BY <1>2, <1>3, <1>6 DEF Sync, Start, ReadCursor, FetchDeals, NothingToWrite, Measure, Abort
<1> QED BY <1>2, <1>4, <1>5, <1>6
        DEF Next, Trader, Broker, Tick, Execute, Post, BookSwap, vars

(***************************************************************************)
(* Against either provider and however the syncs overlap, no step takes an *)
(* answer off a row that lives on: the journal columns, an excursion, or   *)
(* an R multiple whose stop still risks something (upsertTrades).          *)
(***************************************************************************)
THEOREM AnswersKept == Spec => KeepsAnswers
<1> DEFINE Kind(p) == /\ book[p].note => book'[p].note
                      /\ book[p].excursion # None => book'[p].excursion # None
                      /\ book[p].rr # None /\ AtRisk(book'[p].fig) => book'[p].rr # None
<1>1. ASSUME IInv, [Next]_vars, NEW p \in DOMAIN book \intersect DOMAIN book'
      PROVE  Kind(p)
  <2>1. book[p] \in Row
    BY <1>1 DEF IInv, TypeOK, IsMap
  <2>2. CASE book'[p] = book[p]
    BY <2>2
  <2>3. CASE book'[p] = [book[p] EXCEPT !.note = TRUE]
    BY <2>1, <2>3 DEF Row
  <2>4. ASSUME NEW r \in Runs, p \in DOMAIN run[r].figs, book'[p] = Upserted(r, p)
        PROVE  Kind(p)
    <3>1. run[r].figs[p] # None
      BY <1>1, <2>4, FiguresAssumption DEF IInv, TypeOK, IsRun, IsMap
    <3> QED BY <1>1, <2>1, <2>4, <3>1 DEF Upserted, Row
  <2> QED BY <1>1, <2>2, <2>3, <2>4, RowSteps
<1>2. IInv /\ [Next]_vars =>
        [\A p \in DOMAIN book \intersect DOMAIN book' : Kind(p)]_vars
  BY <1>1
<1> QED BY <1>2, Invariance, PTL DEF Spec, KeepsAnswers

\* No row of the journal, however it came to be, has an R multiple against a stop that risks
\* nothing (upsertTrades writes the null that computeRisk answers for one).
THEOREM NoStaleR == Spec => []NoRWithoutRisk
<1>1. Init => NoRWithoutRisk
  BY EmptyMapIsMap DEF Init, NoRWithoutRisk
<1>2. ASSUME IInv, NoRWithoutRisk, [Next]_vars PROVE NoRWithoutRisk'
  <2> SUFFICES ASSUME NEW p \in DOMAIN book', ~AtRisk(book'[p].fig) PROVE book'[p].rr = None
    BY DEF NoRWithoutRisk, AtRisk
  <2>1. CASE p \in DOMAIN book /\ book'[p] = book[p]
    BY <1>2, <2>1 DEF NoRWithoutRisk
  <2>2. CASE p \in DOMAIN book /\ book'[p] = [book[p] EXCEPT !.note = TRUE]
    <3>1. book[p] \in Row
      BY <1>2, <2>2 DEF IInv, TypeOK, IsMap
    <3> QED BY <1>2, <2>2, <3>1 DEF NoRWithoutRisk, Row
  <2>3. ASSUME NEW r \in Runs, p \in DOMAIN run[r].figs, book'[p] = Upserted(r, p)
        PROVE  book'[p].rr = None
    BY <2>3 DEF Upserted
  <2> QED BY <1>2, <2>1, <2>2, <2>3, RowSteps
<1>3. IInv /\ NoRWithoutRisk /\ [Next]_vars => NoRWithoutRisk'
  BY <1>2
<1> QED BY <1>1, <1>3, Invariance, PTL DEF Spec

-----------------------------------------------------------------------------
(* What a row says of its position. *)

(***************************************************************************)
(* The deals of one ticket: no two in one place, the places 1 to their     *)
(* number, posted in their order; a balance operation alone, and no        *)
(* position that begins with an exit.                                      *)
(***************************************************************************)
Ordered(ds) == /\ \A d, e \in ds : d.n = e.n => d = e
               /\ \A d \in ds : d.n <= Cardinality(ds)
               /\ \A d, e \in ds : e.n <= d.n /\ d.posted => e.posted
               /\ \A d \in ds : d.kind = "balance" => ds = {d}
               /\ ds # {} => First(ds).kind # "out"

OrderInv == \A p \in Tickets : Ordered(deals[p])

\* The figures open with the first deal of ds and point the way it did.
Tells(fig, ds) ==
  /\ ds # {}
  /\ fig.openAt = First(ds).time
  /\ fig.direction = IF First(ds).kind = "balance" \/ First(ds).side = "buy"
                     THEN "long" ELSE "short"

\* Every amount booked in the figures is that of a posted deal of ds, its swap included.
Counts(fig, ds) ==
  \A b \in fig.booked : \E d \in ds : d.posted /\ d.n = b[1] /\ (b[2] => d.swap)

\* The figures g book every amount that f does.
Covers(f, g) == \A b \in f.booked : \E c \in g.booked : c[1] = b[1] /\ (b[2] => c[2])

\* es has grown out of ds: it begins with the same deal, and nothing posted or booked is lost.
Grown(ds, es) ==
  /\ ds # {} => /\ es # {}
                /\ First(es).time = First(ds).time
                /\ First(es).kind = First(ds).kind
                /\ First(es).side = First(ds).side
  /\ \A d \in ds : d.posted => \E e \in es : e.posted /\ e.n = d.n /\ (d.swap => e.swap)

LEMMA TellsStays ==
  ASSUME NEW fig, NEW ds, NEW es, Grown(ds, es), Tells(fig, ds)
  PROVE  Tells(fig, es)
BY DEF Grown, Tells

LEMMA CountsStay ==
  ASSUME NEW fig, NEW ds, NEW es, Grown(ds, es), Counts(fig, ds)
  PROVE  Counts(fig, es)
BY DEF Grown, Counts

\* The first deal of a ticket is the one in the least place.
LEMMA FirstIs ==
  ASSUME NEW ds \in SUBSET Deal, \A d, e \in ds : d.n = e.n => d = e,
         NEW f \in ds, \A e \in ds : f.n <= e.n
  PROVE  First(ds) = f
<1>1. First(ds) \in ds /\ First(ds).n <= f.n
  BY FirstLastIn
<1>2. f.n <= First(ds).n /\ f.n \in Int /\ First(ds).n \in Int
  BY <1>1, BoundsAssumption DEF Deal
<1> QED BY <1>1, <1>2

\* A deal executed after those of ds keeps their order and their beginning.
LEMMA AddedDeal ==
  ASSUME NEW ds \in SUBSET Deal, IsFiniteSet(ds), Ordered(ds),
         NEW d \in Deal, d.n = Cardinality(ds) + 1, d.posted => \A e \in ds : e.posted,
         NextDeal(ds, d.kind, d.side)
  PROVE  Ordered(ds \union {d}) /\ Grown(ds, ds \union {d})
<1> DEFINE es == ds \union {d}
<1>n. Cardinality(ds) \in Nat /\ \A e \in es : e.n \in Int
  BY FS_CardinalityType, BoundsAssumption DEF Deal
<1>1. \A e \in ds : e.n < d.n
  BY <1>n DEF Ordered
<1>2. d \notin ds
  BY <1>1, <1>n
<1>3. Cardinality(es) = Cardinality(ds) + 1
  BY <1>2, FS_AddElement
<1>4. es \in SUBSET Deal /\ \A x, y \in es : x.n = y.n => x = y
  BY <1>1, <1>n DEF Ordered
<1>5. \A e \in es : e.n <= Cardinality(es)
  BY <1>3, <1>n DEF Ordered
<1>6. \A x, y \in es : y.n <= x.n /\ x.posted => y.posted
  BY <1>1, <1>n DEF Ordered
<1>7. CASE ds = {}
  <2>1. es = {d}
    BY <1>7
  <2>2. First(es) = d
    BY <1>4, <1>n, <2>1, FirstIs
  <2>3. d.kind # "out"
    BY <1>7 DEF NextDeal
  <2> QED BY <1>4, <1>5, <1>6, <1>7, <2>1, <2>2, <2>3 DEF Ordered, Grown
<1>8. CASE ds # {}
  <2>1. First(ds) \in ds /\ \A e \in ds : First(ds).n <= e.n
    BY <1>8, FirstLastIn
  <2>2. \A e \in es : First(ds).n <= e.n
    BY <1>1, <1>n, <2>1
  <2>3. First(es) = First(ds)
    BY <1>4, <2>1, <2>2, FirstIs
  <2>4. First(ds).kind = "in" /\ d.kind # "balance"
    BY <1>8 DEF NextDeal
  <2>5. \A e \in ds : e.kind # "balance"
    BY <2>1, <2>4 DEF Ordered
  <2> QED BY <1>4, <1>5, <1>6, <2>3, <2>4, <2>5 DEF Ordered, Grown
<1> QED BY <1>7, <1>8

\* A deal that is posted, or that has its swap booked, stays in its place.
LEMMA AmendedDeal ==
  ASSUME NEW ds \in SUBSET Deal, IsFiniteSet(ds), Ordered(ds), NEW d \in ds, NEW e \in Deal,
         e.n = d.n, e.kind = d.kind, e.time = d.time, e.side = d.side, d.swap => e.swap,
         e.posted, \A x \in ds : x.n < d.n => x.posted
  PROVE  Ordered((ds \ {d}) \union {e}) /\ Grown(ds, (ds \ {d}) \union {e})
<1> DEFINE es == (ds \ {d}) \union {e}
<1>n. \A x \in ds \union es : x.n \in Int
  BY BoundsAssumption DEF Deal
<1>1. e \notin ds \ {d}
  BY DEF Ordered
<1>2. Cardinality(es) = Cardinality(ds)
  <2>1. IsFiniteSet(ds \ {d}) /\ Cardinality(ds \ {d}) = Cardinality(ds) - 1
    BY FS_RemoveElement
  <2>2. Cardinality(es) = Cardinality(ds \ {d}) + 1
    BY <1>1, <2>1, FS_AddElement
  <2> QED BY <2>1, <2>2, FS_CardinalityType
<1>3. es \in SUBSET Deal /\ \A x, y \in es : x.n = y.n => x = y
  BY DEF Ordered
<1>4. \A x \in es : x.n <= Cardinality(es)
  BY <1>2 DEF Ordered
<1>5. \A x, y \in es : y.n <= x.n /\ x.posted => y.posted
  <2> SUFFICES ASSUME NEW x \in es, NEW y \in es, y.n <= x.n, x.posted, y # e
               PROVE  y.posted
    OBVIOUS
  <2>1. y \in ds \ {d} /\ y.n # d.n
    BY DEF Ordered
  <2>2. CASE x = e
    BY <1>n, <2>1, <2>2
  <2>3. CASE x # e
    BY <2>1, <2>3 DEF Ordered
  <2> QED BY <2>2, <2>3
<1>6. \A x \in es : x.kind = "balance" => es = {x}
  <2>1. ASSUME NEW x \in es, x.kind = "balance" PROVE es = {x}
    <3>1. CASE x = e
      <4>1. ds = {d}
        BY <2>1, <3>1 DEF Ordered
      <4> QED BY <3>1, <4>1
    <3>2. CASE x # e
      BY <2>1, <3>2 DEF Ordered
    <3> QED BY <3>1, <3>2
  <2> QED BY <2>1
<1>7. First(ds) \in ds /\ \A x \in ds : First(ds).n <= x.n
  BY FirstLastIn
<1>8. /\ First(es).time = First(ds).time /\ First(es).kind = First(ds).kind
      /\ First(es).side = First(ds).side
  <2>1. CASE First(ds) = d
    <3>1. First(es) = e
      BY <1>3, <1>7, <2>1, FirstIs
    <3> QED BY <2>1, <3>1
  <2>2. CASE First(ds) # d
    <3>1. First(es) = First(ds)
      BY <1>3, <1>7, <2>2, FirstIs
    <3> QED BY <3>1
  <2> QED BY <2>1, <2>2
<1>9. \A x \in ds : x.posted => \E y \in es : y.posted /\ y.n = x.n /\ (x.swap => y.swap)
  OBVIOUS
<1> QED BY <1>3, <1>4, <1>5, <1>6, <1>8, <1>9 DEF Ordered, Grown

\* Whatever happens, the deals of a ticket stay in order and only grow.
LEMMA DealsGrow ==
  ASSUME TypeOK, DealsInv, OrderInv, [Next]_vars, NEW p \in Tickets
  PROVE  Ordered(deals'[p]) /\ Grown(deals[p], deals'[p])
<1>t. /\ deals \in [Tickets -> SUBSET Deal] /\ deals[p] \in SUBSET Deal
      /\ IsFiniteSet(deals[p]) /\ Ordered(deals[p])
  BY DEF TypeOK, DealsInv, OrderInv
<1>0. ASSUME deals'[p] = deals[p]
      PROVE  Ordered(deals'[p]) /\ Grown(deals[p], deals'[p])
  BY <1>0, <1>t DEF Grown
<1>1. CASE Tick \/ (\E r \in Runs : Sync(r)) \/ Trader \/ UNCHANGED vars
  <2>1. deals' = deals
    BY <1>1, OthersKeepDeals DEF Tick
  <2> QED BY <1>0, <2>1
<1>2. ASSUME NEW q \in Tickets, NEW kind \in {"in", "out", "balance"},
             NEW side \in {"buy", "sell"}, NEW stop \in Stops \union {None},
             NEW posted \in BOOLEAN, Execute(q, kind, side, stop, posted)
      PROVE  Ordered(deals'[p]) /\ Grown(deals[p], deals'[p])
  <2> DEFINE d == [n |-> Cardinality(deals[q]) + 1, kind |-> kind, side |-> side,
                   time |-> now, stop |-> stop, swap |-> FALSE, posted |-> posted]
  <2>1. deals' = [deals EXCEPT ![q] = @ \union {d}]
    BY <1>2 DEF Execute
  <2>2. CASE p # q
    BY <1>0, <1>t, <2>1, <2>2
  <2>3. CASE p = q
    <3>1. Cardinality(deals[p]) + 1 \in 1..MaxDeals
      BY <1>2, <1>t, <2>3, FS_CardinalityType, BoundsAssumption DEF Execute
    <3>2. d \in Deal
      BY <2>3, <3>1 DEF Deal, TypeOK
    <3>3. /\ d.n = Cardinality(deals[p]) + 1
          /\ d.posted => \A e \in deals[p] : e.posted
          /\ NextDeal(deals[p], d.kind, d.side)
      BY <1>2, <2>3 DEF Execute
    <3> HIDE DEF d
    <3>4. deals'[p] = deals[p] \union {d}
      BY <1>t, <2>1, <2>3
    <3>5. Ordered(deals[p] \union {d}) /\ Grown(deals[p], deals[p] \union {d})
      BY <1>t, <3>2, <3>3, AddedDeal
    <3> QED BY <3>4, <3>5
  <2> QED BY <2>2, <2>3
<1>3. ASSUME NEW q \in Tickets, NEW d \in deals[q], Post(q, d)
      PROVE  Ordered(deals'[p]) /\ Grown(deals[p], deals'[p])
  <2> DEFINE e == [d EXCEPT !.posted = TRUE]
  <2>1. deals' = [deals EXCEPT ![q] = (@ \ {d}) \union {e}]
    BY <1>3 DEF Post
  <2>2. CASE p # q
    BY <1>0, <1>t, <2>1, <2>2
  <2>3. CASE p = q
    <3>1. d \in Deal
      BY <1>t, <2>3
    <3>2. /\ e \in Deal /\ e.n = d.n /\ e.kind = d.kind /\ e.time = d.time /\ e.side = d.side
          /\ e.posted /\ (d.swap => e.swap)
      BY <3>1 DEF Deal
    <3>3. \A x \in deals[p] : x.n < d.n => x.posted
      BY <1>3, <2>3 DEF Post
    <3> HIDE DEF e
    <3>4. deals'[p] = (deals[p] \ {d}) \union {e}
      BY <1>t, <2>1, <2>3
    <3>5. d \in deals[p]
      BY <2>3
    <3>6. Ordered((deals[p] \ {d}) \union {e}) /\ Grown(deals[p], (deals[p] \ {d}) \union {e})
      BY <1>t, <3>2, <3>3, <3>5, AmendedDeal
    <3> QED BY <3>4, <3>6
  <2> QED BY <2>2, <2>3
<1>4. ASSUME NEW q \in Tickets, NEW d \in deals[q], BookSwap(q, d)
      PROVE  Ordered(deals'[p]) /\ Grown(deals[p], deals'[p])
  <2> DEFINE e == [d EXCEPT !.swap = TRUE]
  <2>1. deals' = [deals EXCEPT ![q] = (@ \ {d}) \union {e}] /\ d.posted
    BY <1>4 DEF BookSwap
  <2>2. CASE p # q
    BY <1>0, <1>t, <2>1, <2>2
  <2>3. CASE p = q
    <3>1. d \in Deal
      BY <1>t, <2>3
    <3>2. /\ e \in Deal /\ e.n = d.n /\ e.kind = d.kind /\ e.time = d.time /\ e.side = d.side
          /\ e.posted /\ (d.swap => e.swap)
      BY <2>1, <3>1 DEF Deal
    <3>3. \A x \in deals[p] : x.n < d.n => x.posted
      <4>1. \A x \in deals[p] : x.n < d.n => x.n <= d.n
        BY <1>t, <2>3, BoundsAssumption DEF Deal
      <4> QED BY <1>t, <2>1, <2>3, <4>1 DEF Ordered
    <3> HIDE DEF e
    <3>4. deals'[p] = (deals[p] \ {d}) \union {e}
      BY <1>t, <2>1, <2>3
    <3>5. d \in deals[p]
      BY <2>3
    <3>6. Ordered((deals[p] \ {d}) \union {e}) /\ Grown(deals[p], (deals[p] \ {d}) \union {e})
      BY <1>t, <3>2, <3>3, <3>5, AmendedDeal
    <3> QED BY <3>4, <3>6
  <2> QED BY <2>2, <2>3
<1> QED BY <1>1, <1>2, <1>3, <1>4 DEF Next, Broker

(***************************************************************************)
(* All that is posted of a position, folded, tells where the position      *)
(* opened and which way, whatever is still to be posted, and books exactly *)
(* what is posted.                                                         *)
(***************************************************************************)
LEMMA WholeFold ==
  ASSUME TypeOK, OrderInv, NEW p \in Tickets, Reportable(Posted(p))
  PROVE  /\ Tells(Fold(Posted(p)), deals[p])
         /\ Counts(Fold(Posted(p)), deals[p])
         /\ \A fig : Counts(fig, deals[p]) => Covers(fig, Fold(Posted(p)))
<1> DEFINE w == Posted(p)
           f == First(deals[p])
<1>1. w \in SUBSET Deal /\ deals[p] \in SUBSET Deal /\ w \subseteq deals[p] /\ Ordered(deals[p])
  BY DEF TypeOK, OrderInv, Posted
<1>2. Exits(w) # {} /\ w # {}
  BY DEF Reportable, Exits
<1>3. f \in deals[p] /\ \A e \in deals[p] : f.n <= e.n
  BY <1>1, <1>2, FirstLastIn
<1>4. f \in w
  <2>1. PICK d \in w : d.posted
    BY <1>2 DEF Posted
  <2>2. f.posted
    BY <1>1, <1>3, <2>1 DEF Ordered
  <2> QED BY <1>3, <2>2 DEF Posted
<1>5. First(w) = f
  BY <1>1, <1>3, <1>4, FirstIs DEF Ordered
<1>6. Last(Exits(w)) \in Exits(w)
  <2>1. Exits(w) \in SUBSET Deal
    BY <1>1 DEF Exits
  <2> QED BY <1>2, <2>1, FirstLastIn
<1> HIDE DEF f
<1>7. EntryDeal(w) = f /\ (Last(Exits(w)).kind = "balance" <=> f.kind = "balance")
  <2>1. CASE f.kind = "balance"
    <3>1. w = {f}
      BY <1>1, <1>3, <1>4, <2>1 DEF Ordered
    <3>2. Entries(w) = {} /\ Last(Exits(w)) = f
      BY <1>6, <2>1, <3>1 DEF Entries, Exits
    <3> QED BY <1>5, <2>1, <3>2 DEF EntryDeal
  <2>2. CASE f.kind # "balance"
    <3>1. f.kind = "in"
      BY <1>1, <1>3, <2>2 DEF Ordered, f, Deal
    <3>2. f \in Entries(w) /\ Entries(w) \in SUBSET Deal /\ Entries(w) \subseteq deals[p]
      BY <1>1, <1>4, <3>1 DEF Entries
    <3>3. First(Entries(w)) = f
      BY <1>1, <1>3, <3>2, FirstIs DEF Ordered
    <3>4. Last(Exits(w)).kind # "balance"
      <4>1. Last(Exits(w)) \in deals[p]
        BY <1>1, <1>6 DEF Exits
      <4> QED BY <1>1, <1>3, <2>2, <4>1 DEF Ordered
    <3> QED BY <2>2, <3>2, <3>3, <3>4 DEF EntryDeal
  <2> QED BY <2>1, <2>2
<1>8. Tells(Fold(w), deals[p])
  <2>1. /\ Fold(w).openAt = f.time
        /\ Fold(w).direction = IF f.kind = "balance" \/ f.side = "buy" THEN "long" ELSE "short"
    BY <1>7 DEF Fold
  <2> QED BY <1>3, <2>1 DEF Tells, f
<1>9. Fold(w).booked = {<<d.n, d.swap>> : d \in w}
  BY DEF Fold
<1>10. Counts(Fold(w), deals[p])
  <2> SUFFICES ASSUME NEW b \in Fold(w).booked
               PROVE  \E d \in deals[p] : d.posted /\ d.n = b[1] /\ (b[2] => d.swap)
    BY DEF Counts
  <2>1. PICK d \in w : b = <<d.n, d.swap>>
    BY <1>9
  <2>2. d \in deals[p] /\ d.posted
    BY DEF Posted
  <2>3. b[1] = d.n /\ b[2] = d.swap
    BY <2>1
  <2> QED BY <2>2, <2>3
<1>11. ASSUME NEW fig, Counts(fig, deals[p]) PROVE Covers(fig, Fold(w))
  <2> SUFFICES ASSUME NEW b \in fig.booked
               PROVE  \E c \in Fold(w).booked : c[1] = b[1] /\ (b[2] => c[2])
    BY DEF Covers
  <2>1. PICK d \in deals[p] : d.posted /\ d.n = b[1] /\ (b[2] => d.swap)
    BY <1>11 DEF Counts
  <2>2. d \in w
    BY <2>1 DEF Posted
  <2>3. <<d.n, d.swap>> \in Fold(w).booked
    BY <1>9, <2>2
  <2>4. <<d.n, d.swap>>[1] = d.n /\ <<d.n, d.swap>>[2] = d.swap
    OBVIOUS
  <2> QED BY <2>1, <2>3, <2>4
<1> QED BY <1>8, <1>10, <1>11

\* A fetch from the beginning, and any fetch from the mock, folds whole positions.
LEMMA FetchedWhole ==
  ASSUME TypeOK, NEW cursor, cursor = None \/ Provider = "mock", NEW p \in DOMAIN Fetched(cursor)
  PROVE  p \in Tickets /\ Reportable(Posted(p)) /\ Fetched(cursor)[p] = Fold(Posted(p))
<1>1. p \in Tickets /\ Reportable(Returned(p, cursor))
      /\ Fetched(cursor)[p] = Fold(Returned(p, cursor))
  BY DEF Fetched
<1>2. Returned(p, cursor) # {}
  BY <1>1 DEF Reportable, Exits
<1>3. Returned(p, cursor) = Posted(p)
  BY <1>2 DEF Returned, Since
<1> QED BY <1>1, <1>3

\* The rows change only in their notes, or to what a run that is writing holds.
LEMMA FigSteps ==
  ASSUME IInv, [Next]_vars, NEW p \in DOMAIN book'
  PROVE  \/ p \in DOMAIN book /\ book'[p].fig = book[p].fig
         \/ \E r \in Runs : /\ run[r].pc = "write" /\ p \in DOMAIN run[r].figs
                           /\ book'[p].fig = run[r].figs[p]
<1>1. CASE p \in DOMAIN book /\ book'[p] = book[p]
  BY <1>1
<1>2. CASE p \in DOMAIN book /\ book'[p] = [book[p] EXCEPT !.note = TRUE]
  <2>1. book[p] \in Row
    BY <1>2 DEF IInv, TypeOK, IsMap
  <2> QED BY <1>2, <2>1 DEF Row
<1>3. ASSUME NEW r \in Runs, run[r].pc = "write", p \in DOMAIN run[r].figs,
             book'[p] = Upserted(r, p)
      PROVE  book'[p].fig = run[r].figs[p]
  BY <1>3, UpsertedIsRow DEF IInv
<1> QED BY <1>1, <1>2, <1>3, RowSteps

\* What a run holds is what it held, or nothing, or what it has just fetched.
LEMMA FigsSteps ==
  ASSUME IInv, [Next]_vars, NEW r \in Runs
  PROVE  \/ run'[r].figs = run[r].figs
         \/ DOMAIN run'[r].figs = {}
         \/ FetchDeals(r) /\ run'[r].figs = Fetched(run[r].cursor)
<1>0. /\ run = [s \in Runs |-> run[s]]
      /\ \A s \in Runs : run[s] = [f \in Fields |-> run[s][f]] /\ IsRun(run[s])
  BY DEF IInv, TypeOK, IsRun
<1> DEFINE Goal == \/ run'[r].figs = run[r].figs
                   \/ DOMAIN run'[r].figs = {}
                   \/ FetchDeals(r) /\ run'[r].figs = Fetched(run[r].cursor)
<1>1. CASE Broker \/ Trader \/ UNCHANGED vars
  BY <1>1 DEF Broker, Tick, Execute, Post, BookSwap, Trader, Annotate, DeleteRows, vars
<1>2. ASSUME NEW s \in Runs, Sync(s) PROVE Goal
  <2>1. ASSUME NEW trigger \in Triggers, Start(s, trigger) PROVE Goal
    <3>1. CASE s = r
      BY <2>1, <3>1, EmptyMapIsMap DEF Start, IdleRun
    <3>2. CASE s # r
      BY <1>0, <2>1, <3>2 DEF Start, Fields
    <3> QED BY <3>1, <3>2
  <2>2. CASE ReadCursor(s)
    BY <1>0, <2>2 DEF ReadCursor, Fields
  <2>3. CASE FetchDeals(s)
    <3>1. CASE s = r
      BY <1>0, <2>3, <3>1 DEF FetchDeals, Fields
    <3>2. CASE s # r
      BY <1>0, <2>3, <3>2 DEF FetchDeals
    <3> QED BY <3>1, <3>2
  <2>4. CASE NothingToWrite(s)
    BY <1>0, <2>4, FinishedIsRun, EmptyMapIsMap DEF NothingToWrite
  <2>5. ASSUME NEW unpriced, NEW measured, Measure(s, unpriced, measured) PROVE Goal
    BY <1>0, <2>5 DEF Measure, Fields
  <2>6. ASSUME NEW C, WriteChunk(s, C) PROVE Goal
    <3>1. CASE C = run[s].todo
      BY <1>0, <2>6, <3>1, FinishedIsRun, EmptyMapIsMap DEF WriteChunk
    <3>2. CASE C # run[s].todo
      BY <1>0, <2>6, <3>2 DEF WriteChunk, Fields
    <3> QED BY <3>1, <3>2
  <2>7. CASE Abort(s)
    BY <1>0, <2>7, EmptyMapIsMap DEF Abort, IdleRun
  <2> QED BY <1>2, <2>1, <2>2, <2>3, <2>4, <2>5, <2>6, <2>7 DEF Sync
<1> QED BY <1>1, <1>2 DEF Next

\* The order of the deals, from the start and through every step.
LEMMA InitOrder == Init => OrderInv
BY DEF Init, OrderInv, Ordered

LEMMA OrderStep == IInv /\ OrderInv /\ [Next]_vars => OrderInv'
BY DealsGrow DEF IInv, OrderInv

(***************************************************************************)
(* With the mock, which answers with whole positions: whatever a run holds *)
(* and whatever is stored tells its position and counts posted deals only. *)
(***************************************************************************)
HeldInv   == \A r \in Runs : \A p \in DOMAIN run[r].figs :
                Tells(run[r].figs[p], deals[p]) /\ Counts(run[r].figs[p], deals[p])
StoredInv == \A p \in DOMAIN book :
                Tells(book[p].fig, deals[p]) /\ Counts(book[p].fig, deals[p])

LEMMA WholeInit == Init => HeldInv /\ StoredInv
<1>1. Init => DOMAIN book = {} /\ \A r \in Runs : DOMAIN run[r].figs = {}
  BY EmptyMapIsMap DEF Init, IdleRun
<1> QED BY <1>1 DEF HeldInv, StoredInv

LEMMA WholeStep ==
  ASSUME Provider = "mock"
  PROVE  IInv /\ OrderInv /\ HeldInv /\ StoredInv /\ [Next]_vars => HeldInv' /\ StoredInv'
<1> SUFFICES ASSUME IInv, OrderInv, HeldInv, StoredInv, [Next]_vars
             PROVE  HeldInv' /\ StoredInv'
  OBVIOUS
<1>g. \A p \in Tickets : Grown(deals[p], deals'[p])
  BY DealsGrow DEF IInv
<1>t. \A r \in Runs : \A p \in DOMAIN run[r].figs : p \in Tickets
  BY Numbers DEF IInv
<1>h. \A r \in Runs : \A p \in DOMAIN run[r].figs :
         Tells(run[r].figs[p], deals'[p]) /\ Counts(run[r].figs[p], deals'[p])
  BY <1>g, <1>t, TellsStays, CountsStay DEF HeldInv
<1>1. ASSUME NEW r \in Runs, NEW p \in DOMAIN run'[r].figs
      PROVE  Tells(run'[r].figs[p], deals'[p]) /\ Counts(run'[r].figs[p], deals'[p])
  <2>1. CASE run'[r].figs = run[r].figs
    BY <1>h, <2>1
  <2>2. CASE FetchDeals(r) /\ run'[r].figs = Fetched(run[r].cursor)
    <3>1. p \in DOMAIN Fetched(run[r].cursor) /\ deals' = deals
      BY <2>2 DEF FetchDeals
    <3>2. /\ p \in Tickets /\ Reportable(Posted(p))
          /\ Fetched(run[r].cursor)[p] = Fold(Posted(p))
      BY <3>1, FetchedWhole DEF IInv
    <3>3. Tells(Fold(Posted(p)), deals[p]) /\ Counts(Fold(Posted(p)), deals[p])
      BY <3>2, WholeFold DEF IInv
    <3> QED BY <2>2, <3>1, <3>2, <3>3
  <2> QED BY <2>1, <2>2, FigsSteps
<1>2. ASSUME NEW p \in DOMAIN book'
      PROVE  Tells(book'[p].fig, deals'[p]) /\ Counts(book'[p].fig, deals'[p])
  <2>1. CASE p \in DOMAIN book /\ book'[p].fig = book[p].fig
    <3>1. p \in Tickets
      BY <2>1, Numbers DEF IInv
    <3> QED BY <1>g, <2>1, <3>1, TellsStays, CountsStay DEF StoredInv
  <2>2. CASE \E r \in Runs : p \in DOMAIN run[r].figs /\ book'[p].fig = run[r].figs[p]
    BY <1>h, <2>2
  <2> QED BY <2>1, <2>2, FigSteps
<1> QED BY <1>1, <1>2 DEF HeldInv, StoredInv

(***************************************************************************)
(* Against the mock every row describes the position it is filed under,    *)
(* whatever interleaves and whatever is still unposted: the port's promise *)
(* (mt5/types.ts) is enough for the journal, and the provider that windows *)
(* the deals instead is what breaks it.                                    *)
(***************************************************************************)
THEOREM RowsAreTrue ==
  ASSUME Provider = "mock"
  PROVE  Spec => []RowsDescribeTheirPosition
<1>1. StoredInv => RowsDescribeTheirPosition
  BY DEF StoredInv, Tells, RowsDescribeTheirPosition, DescribesPosition
<1> QED BY <1>1, InitOrder, OrderStep, WholeInit, WholeStep, Invariance, PTL DEF Spec

-----------------------------------------------------------------------------
(* What is counted stays counted. *)

OneSync == \A r, s \in Runs : r = s

\* A run that is alone holds at least what the rows it will overwrite have counted.
CoversInv == \A r \in Runs : \A p \in DOMAIN run[r].figs \intersect DOMAIN book :
                Covers(book[p].fig, run[r].figs[p])

LEMMA CoversItself ==
  ASSUME NEW f
  PROVE  Covers(f, f)
BY DEF Covers

LEMMA CoversStep ==
  ASSUME Provider = "mock", OneSync
  PROVE  IInv /\ OrderInv /\ StoredInv /\ CoversInv /\ [Next]_vars => CoversInv'
<1> SUFFICES ASSUME IInv, OrderInv, StoredInv, CoversInv, [Next]_vars,
                    NEW r \in Runs, NEW p \in DOMAIN run'[r].figs, p \in DOMAIN book'
             PROVE  Covers(book'[p].fig, run'[r].figs[p])
  BY DEF CoversInv
<1>1. CASE run'[r].figs = run[r].figs
  <2>1. CASE p \in DOMAIN book /\ book'[p].fig = book[p].fig
    BY <1>1, <2>1 DEF CoversInv
  <2>2. CASE \E s \in Runs : p \in DOMAIN run[s].figs /\ book'[p].fig = run[s].figs[p]
    <3>1. book'[p].fig = run[r].figs[p]
      BY <2>2 DEF OneSync
    <3> QED BY <1>1, <3>1, CoversItself
  <2> QED BY <2>1, <2>2, FigSteps
<1>2. CASE FetchDeals(r) /\ run'[r].figs = Fetched(run[r].cursor)
  <2>1. p \in DOMAIN Fetched(run[r].cursor) /\ book' = book
    BY <1>2 DEF FetchDeals
  <2>2. /\ p \in Tickets /\ Reportable(Posted(p))
        /\ Fetched(run[r].cursor)[p] = Fold(Posted(p))
    BY <2>1, FetchedWhole DEF IInv
  <2>3. Counts(book[p].fig, deals[p])
    BY <2>1 DEF StoredInv
  <2>4. Covers(book[p].fig, Fold(Posted(p)))
    BY <2>2, <2>3, WholeFold DEF IInv
  <2> QED BY <1>2, <2>1, <2>2, <2>4
<1> QED BY <1>1, <1>2, FigsSteps

(***************************************************************************)
(* One sync at a time against the mock: no import, however often repeated  *)
(* or interrupted, takes a counted deal or swap off a row.                 *)
(***************************************************************************)
THEOREM NothingIsUncounted ==
  ASSUME Provider = "mock", OneSync
  PROVE  Spec => NeverUncounts
<1> DEFINE Kept1(p) == \A b \in book[p].fig.booked :
                          \E c \in book'[p].fig.booked : c[1] = b[1] /\ (b[2] => c[2])
<1>1. Init => CoversInv
  BY EmptyMapIsMap DEF Init, IdleRun, CoversInv
<1>2. ASSUME IInv, CoversInv, [Next]_vars, NEW p \in DOMAIN book \intersect DOMAIN book'
      PROVE  Kept1(p)
  <2>1. CASE book'[p].fig = book[p].fig
    BY <2>1
  <2>2. ASSUME NEW r \in Runs, p \in DOMAIN run[r].figs, book'[p].fig = run[r].figs[p]
        PROVE  Kept1(p)
    BY <1>2, <2>2 DEF CoversInv, Covers
  <2> QED BY <1>2, <2>1, <2>2, FigSteps
<1>3. IInv /\ CoversInv /\ [Next]_vars =>
        [\A p \in DOMAIN book \intersect DOMAIN book' : Kept1(p)]_vars
  BY <1>2
<1> QED BY <1>1, <1>3, InitOrder, OrderStep, WholeInit, WholeStep, CoversStep, Invariance, PTL
        DEF Spec, NeverUncounts

-----------------------------------------------------------------------------
(* What a backfill repairs. *)

\* A run in flight whose flag says alone is: no other run is in flight beside it.
AloneInv == \A r \in Runs : run[r].pc # "idle" /\ run[r].alone
               => \A s \in Runs \ {r} : ~InFlight(s)

\* The positions a run has dealt with: those it has written, and at the end all it has seen.
Repaired(x) == IF x.pc = "done" THEN x.seen
               ELSE IF x.pc = "write" THEN DOMAIN x.figs \ x.todo ELSE {}

(***************************************************************************)
(* A backfill reads without a cursor, so it holds every position reported  *)
(* as closed, whole; and while it is alone nobody writes over what it has  *)
(* repaired.                                                               *)
(***************************************************************************)
BackfillInv(r) ==
  run[r].trigger = "backfill" =>
    /\ run[r].cursor = None
    /\ \A p \in DOMAIN run[r].figs : Tells(run[r].figs[p], deals[p])
    /\ run[r].pc \in {"measure", "write"} => run[r].seen \subseteq DOMAIN run[r].figs
    /\ run[r].alone => \A p \in Repaired(run[r]) \intersect DOMAIN book :
                          Tells(book[p].fig, deals[p])

\* A step of a sync is its start, or that of a run in flight which moves no other run.
LEMMA SyncMoves ==
  ASSUME TypeOK, NEW r \in Runs, Sync(r)
  PROVE  \/ \E trigger \in Triggers : Start(r, trigger)
         \/ /\ InFlight(r) /\ \A s \in Runs \ {r} : run'[s] = run[s]
            /\ \/ run'[r].pc = "idle"
               \/ run'[r].alone = run[r].alone /\ run'[r].trigger = run[r].trigger
<1>0. run = [s \in Runs |-> run[s]] /\ run[r] = [f \in Fields |-> run[r][f]]
  BY DEF TypeOK, IsRun
<1> DEFINE Moves == /\ InFlight(r) /\ \A s \in Runs \ {r} : run'[s] = run[s]
                    /\ \/ run'[r].pc = "idle"
                       \/ run'[r].alone = run[r].alone /\ run'[r].trigger = run[r].trigger
<1>1. CASE ReadCursor(r)
  BY <1>0, <1>1 DEF ReadCursor, InFlight, Fields
<1>2. CASE FetchDeals(r)
  BY <1>0, <1>2 DEF FetchDeals, InFlight, Fields
<1>f. /\ Finished(run[r]).alone = run[r].alone
      /\ Finished(run[r]).trigger = run[r].trigger
  BY DEF Finished, IdleRun
<1>3. CASE NothingToWrite(r)
  BY <1>0, <1>3, <1>f DEF NothingToWrite, InFlight
<1>4. ASSUME NEW unpriced, NEW measured, Measure(r, unpriced, measured) PROVE Moves
  BY <1>0, <1>4 DEF Measure, InFlight, Fields
<1>5. ASSUME NEW C, WriteChunk(r, C) PROVE Moves
  <2>1. /\ InFlight(r) /\ \A s \in Runs \ {r} : run'[s] = run[s]
        /\ run'[r] = IF C = run[r].todo THEN Finished(run[r]) ELSE [run[r] EXCEPT !.todo = @ \ C]
    BY <1>0, <1>5 DEF WriteChunk, InFlight
  <2>2. [run[r] EXCEPT !.todo = @ \ C].alone = run[r].alone
        /\ [run[r] EXCEPT !.todo = @ \ C].trigger = run[r].trigger
    BY <1>0 DEF Fields
  <2> QED BY <2>1, <2>2, <1>f
<1>6. CASE Abort(r)
  BY <1>0, <1>6 DEF Abort, IdleRun
<1> QED BY <1>1, <1>2, <1>3, <1>4, <1>5, <1>6 DEF Sync

LEMMA AloneStep == IInv /\ AloneInv /\ [Next]_vars => AloneInv'
<1> SUFFICES ASSUME IInv, AloneInv, [Next]_vars, NEW x \in Runs, run'[x].pc # "idle",
                    run'[x].alone, NEW y \in Runs \ {x}
             PROVE  ~InFlight(y)'
  BY DEF AloneInv
<1>1. CASE Broker \/ Trader \/ UNCHANGED vars
  <2>1. run' = run
    BY <1>1 DEF Broker, Tick, Execute, Post, BookSwap, Trader, Annotate, DeleteRows, vars
  <2> QED BY <2>1 DEF AloneInv, InFlight
<1>2. ASSUME NEW r \in Runs, Sync(r) PROVE ~InFlight(y)'
  <2>1. ASSUME NEW trigger \in Triggers, Start(r, trigger) PROVE ~InFlight(y)'
    <3>1. \A s \in Runs \ {r} : run'[s] = [run[s] EXCEPT !.alone = FALSE] /\ IsRun(run[s])
      BY <2>1 DEF Start, IInv, TypeOK
    <3>2. ASSUME NEW s \in Runs \ {r} PROVE run'[s].alone = FALSE /\ run'[s].pc = run[s].pc
      <4>1. run'[s] = [run[s] EXCEPT !.alone = FALSE]
        BY <3>1
      <4>2. IsRun(run[s])
        BY <3>1
      <4> QED BY <4>1, <4>2 DEF IsRun, Fields
    <3>3. x = r
      BY <3>2
    <3>4. run'[r].alone = \A q \in Runs \ {r} : ~InFlight(q)
      BY <2>1 DEF Start, IdleRun
    <3> QED BY <3>2, <3>3, <3>4 DEF InFlight
  <2>2. ASSUME InFlight(r), \A s \in Runs \ {r} : run'[s] = run[s],
               run'[r].pc = "idle" \/ run'[r].alone = run[r].alone
        PROVE  ~InFlight(y)'
    <3>1. CASE x = r
      <4>1. run[r].alone /\ run[r].pc # "idle"
        BY <2>2, <3>1 DEF InFlight
      <4> QED BY <2>2, <3>1, <4>1 DEF AloneInv, InFlight
    <3>2. CASE x # r
      BY <2>2, <3>2 DEF AloneInv, InFlight
    <3> QED BY <3>1, <3>2
  <2> QED BY <1>2, <2>1, <2>2, SyncMoves DEF IInv
<1> QED BY <1>1, <1>2 DEF Next

\* A backfill's own steps.
LEMMA BackfillOwnStep ==
  ASSUME IInv, OrderInv, NEW r \in Runs, BackfillInv(r), Sync(r)
  PROVE  BackfillInv(r)'
<1>0. /\ run = [s \in Runs |-> run[s]] /\ run[r] = [f \in Fields |-> run[r][f]]
      /\ IsRun(run[r]) /\ TypeOK
  BY DEF IInv, TypeOK, IsRun
<1>d. deals' = deals
  BY OthersKeepDeals
<1>e. ASSUME run'[r].cursor = None, DOMAIN run'[r].figs = {}, run'[r].pc \in {"idle", "cursor"}
      PROVE  BackfillInv(r)'
  BY <1>e DEF BackfillInv, Repaired
<1>1. ASSUME NEW trigger \in Triggers, Start(r, trigger) PROVE BackfillInv(r)'
  <2>1. run'[r].cursor = None /\ DOMAIN run'[r].figs = {} /\ run'[r].pc = "cursor"
    BY <1>1, EmptyMapIsMap DEF Start, IdleRun
  <2> QED BY <1>e, <2>1
<1>2. CASE ReadCursor(r)
  <2>1. /\ run'[r].pc = "fetch" /\ run'[r].figs = run[r].figs /\ run'[r].trigger = run[r].trigger
        /\ run[r].trigger = "backfill" => run'[r].cursor = None
    BY <1>0, <1>2 DEF ReadCursor, Fields
  <2> QED BY <1>d, <2>1 DEF BackfillInv, Repaired
<1>3. CASE FetchDeals(r)
  <2>1. /\ run'[r].pc = "measure" /\ run'[r].figs = Fetched(run[r].cursor)
        /\ run'[r].cursor = None /\ run'[r].trigger = run[r].trigger
        /\ run'[r].seen = {p \in Tickets : PostedExits(p) # {}}
    BY <1>0, <1>3 DEF FetchDeals, Fields
  <2>2. ASSUME run[r].trigger = "backfill"
        PROVE  /\ \A p \in DOMAIN run'[r].figs : Tells(run'[r].figs[p], deals[p])
               /\ run'[r].seen \subseteq DOMAIN run'[r].figs
    <3>1. run[r].cursor = None
      BY <2>2 DEF BackfillInv
    <3>2. ASSUME NEW p \in DOMAIN Fetched(None) PROVE Tells(Fetched(None)[p], deals[p])
      <4>1. /\ p \in Tickets /\ Reportable(Posted(p)) /\ Fetched(None)[p] = Fold(Posted(p))
        BY <1>0, FetchedWhole
      <4> QED BY <1>0, <4>1, WholeFold
    <3>3. \A p \in Tickets : PostedExits(p) # {} => p \in DOMAIN Fetched(None)
      BY <1>0, FetchCovers
    <3> QED BY <2>1, <3>1, <3>2, <3>3
  <2> QED BY <1>d, <2>1, <2>2 DEF BackfillInv, Repaired
<1>4. CASE NothingToWrite(r)
  <2>1. /\ run'[r].cursor = None /\ DOMAIN run'[r].figs = {} /\ run'[r].seen = run[r].seen
        /\ run'[r].pc = "done" /\ run[r].pc = "measure" /\ DOMAIN run[r].figs = {}
    BY <1>0, <1>4, FinishedIsRun, EmptyMapIsMap DEF NothingToWrite
  <2>2. run'[r].trigger = run[r].trigger
    BY <1>0, <1>4 DEF NothingToWrite, Finished, IdleRun
  <2> QED BY <2>1, <2>2 DEF BackfillInv, Repaired
<1>5. ASSUME NEW unpriced, NEW measured, Measure(r, unpriced, measured) PROVE BackfillInv(r)'
  <2>1. /\ run'[r].pc = "write" /\ run'[r].figs = run[r].figs /\ run'[r].seen = run[r].seen
        /\ run'[r].cursor = run[r].cursor /\ run'[r].todo = DOMAIN run[r].figs
        /\ run[r].pc = "measure" /\ run'[r].trigger = run[r].trigger
    BY <1>0, <1>5 DEF Measure, Fields
  <2> QED BY <1>d, <2>1 DEF BackfillInv, Repaired
<1>6. ASSUME NEW C \in SUBSET run[r].todo, WriteChunk(r, C) PROVE BackfillInv(r)'
  <2> DEFINE figs == run[r].figs
  <2>1. /\ run[r].pc = "write"
        /\ book' = [p \in DOMAIN book \union C |-> IF p \in C THEN Upserted(r, p) ELSE book[p]]
        /\ run'[r] = IF C = run[r].todo THEN Finished(run[r])
                     ELSE [run[r] EXCEPT !.todo = @ \ C]
    BY <1>0, <1>6 DEF WriteChunk
  <2>2. C \subseteq DOMAIN figs
    BY <1>0 DEF IsRun
  <2>3. /\ DOMAIN book' = DOMAIN book \union C
        /\ \A p \in C : book'[p].fig = figs[p]
        /\ \A p \in DOMAIN book \ C : book'[p] = book[p]
    BY <1>0, <2>1, <2>2, UpsertedIsRow
  <2>4. ASSUME run[r].trigger = "backfill", run[r].alone,
               NEW p \in DOMAIN book', p \in DOMAIN figs, p \in C \/ p \notin run[r].todo
        PROVE  Tells(book'[p].fig, deals[p])
    <3>1. CASE p \in C
      BY <2>3, <2>4, <3>1 DEF BackfillInv
    <3>2. CASE p \notin C
      <4>1. p \in Repaired(run[r]) /\ p \in DOMAIN book /\ book'[p] = book[p]
        BY <2>1, <2>3, <2>4, <3>2 DEF Repaired
      <4> QED BY <2>4, <4>1 DEF BackfillInv
    <3> QED BY <3>1, <3>2
  <2>5. CASE C = run[r].todo
    <3>1. /\ run'[r].cursor = None /\ DOMAIN run'[r].figs = {} /\ run'[r].seen = run[r].seen
          /\ run'[r].pc = "done"
      BY <1>0, <2>1, <2>5, FinishedIsRun, EmptyMapIsMap
    <3>2. run'[r].trigger = run[r].trigger /\ run'[r].alone = run[r].alone
      BY <2>1, <2>5 DEF Finished, IdleRun
    <3>3. run[r].trigger = "backfill" => run[r].seen \subseteq DOMAIN figs
      BY <2>1 DEF BackfillInv
    <3>4. Repaired(run'[r]) = run[r].seen
      BY <3>1 DEF Repaired
    <3>5. run[r].trigger = "backfill" /\ run[r].alone =>
             \A p \in Repaired(run'[r]) \intersect DOMAIN book' : Tells(book'[p].fig, deals[p])
      BY <2>4, <2>5, <3>3, <3>4
    <3> QED BY <1>d, <3>1, <3>2, <3>5 DEF BackfillInv
  <2>6. CASE C # run[r].todo
    <3>1. /\ run'[r].pc = "write" /\ run'[r].figs = figs /\ run'[r].seen = run[r].seen
          /\ run'[r].cursor = run[r].cursor /\ run'[r].todo = run[r].todo \ C
          /\ run'[r].trigger = run[r].trigger /\ run'[r].alone = run[r].alone
      BY <1>0, <2>1, <2>6 DEF Fields
    <3>2. Repaired(run'[r]) = DOMAIN figs \ (run[r].todo \ C)
      BY <3>1 DEF Repaired
    <3>3. run[r].trigger = "backfill" /\ run[r].alone =>
             \A p \in Repaired(run'[r]) \intersect DOMAIN book' : Tells(book'[p].fig, deals[p])
      BY <2>4, <3>2
    <3> QED BY <1>d, <2>1, <3>1, <3>3 DEF BackfillInv
  <2> QED BY <2>5, <2>6
<1>7. CASE Abort(r)
  <2>1. run'[r].cursor = None /\ DOMAIN run'[r].figs = {} /\ run'[r].pc = "idle"
    BY <1>0, <1>7, EmptyMapIsMap DEF Abort, IdleRun
  <2> QED BY <1>e, <2>1
<1> QED BY <1>1, <1>2, <1>3, <1>4, <1>5, <1>6, <1>7 DEF Sync

\* What others do meanwhile: the broker only adds, the trader only deletes or annotates, and
\* a sync beside it ends its being alone.
LEMMA BackfillOtherStep ==
  ASSUME IInv, OrderInv, AloneInv, NEW r \in Runs, BackfillInv(r),
         Broker \/ Trader \/ UNCHANGED vars \/ \E s \in Runs \ {r} : Sync(s)
  PROVE  BackfillInv(r)'
<1>n. [Next]_vars
  BY DEF Next
<1>0. TypeOK /\ \A s \in Runs : IsRun(run[s])
  BY DEF IInv, TypeOK
<1>1. /\ run'[r].pc = run[r].pc /\ run'[r].cursor = run[r].cursor /\ run'[r].figs = run[r].figs
      /\ run'[r].todo = run[r].todo /\ run'[r].seen = run[r].seen
      /\ run'[r].trigger = run[r].trigger /\ (run'[r].alone => run[r].alone)
  <2>1. CASE Broker \/ Trader \/ UNCHANGED vars
    <3>1. run' = run
      BY <2>1 DEF Broker, Tick, Execute, Post, BookSwap, Trader, Annotate, DeleteRows, vars
    <3> QED BY <3>1
  <2>2. ASSUME NEW s \in Runs \ {r}, Sync(s), ~ \E trigger \in Triggers : Start(s, trigger)
        PROVE  run'[r] = run[r]
    BY <1>0, <2>2, SyncMoves
  <2>3. ASSUME NEW s \in Runs \ {r}, NEW trigger \in Triggers, Start(s, trigger)
        PROVE  /\ run'[r].pc = run[r].pc /\ run'[r].cursor = run[r].cursor
               /\ run'[r].figs = run[r].figs /\ run'[r].todo = run[r].todo
               /\ run'[r].seen = run[r].seen /\ run'[r].trigger = run[r].trigger
               /\ run'[r].alone = FALSE
    <3>1. run'[r] = [run[r] EXCEPT !.alone = FALSE]
      BY <2>3 DEF Start
    <3> QED BY <1>0, <3>1 DEF IsRun, Fields
  <2> QED BY <2>1, <2>2, <2>3
<1>2. \A p \in Tickets : Grown(deals[p], deals'[p])
  BY <1>n, DealsGrow DEF IInv
<1>3. /\ run[r].seen \subseteq Tickets
      /\ \A p \in DOMAIN run[r].figs : p \in Tickets
  BY <1>0, Numbers DEF IsRun
<1>4. ASSUME run[r].trigger = "backfill", run[r].alone,
             NEW p \in Repaired(run[r]), p \in DOMAIN book'
      PROVE  Tells(book'[p].fig, deals'[p])
  <2>1. run[r].pc # "idle"
    BY <1>4 DEF Repaired
  <2>2. \A s \in Runs \ {r} : ~InFlight(s)
    BY <1>4, <2>1 DEF AloneInv
  <2>3. p \in DOMAIN book /\ book'[p].fig = book[p].fig
    <3>1. CASE Broker \/ UNCHANGED vars \/ \E s \in Runs \ {r} : Sync(s)
      <4>1. ASSUME Broker \/ UNCHANGED vars PROVE book' = book
        BY <4>1 DEF Broker, Tick, Execute, Post, BookSwap, vars
      <4>2. ASSUME NEW s \in Runs \ {r}, Sync(s) PROVE book' = book
        BY <2>2, <4>2 DEF Sync, Start, ReadCursor, FetchDeals, NothingToWrite, Measure,
           WriteChunk, Abort, InFlight
      <4>3. book' = book
        BY <3>1, <4>1, <4>2
      <4> QED BY <1>4, <4>3
    <3>2. ASSUME NEW q \in Annotated, Annotate(q)
          PROVE  p \in DOMAIN book /\ book'[p].fig = book[p].fig
      <4>1. book[p] \in Row
        BY <1>0, <1>4, <3>2 DEF Annotate, TypeOK, IsMap
      <4> QED BY <1>4, <3>2, <4>1 DEF Annotate, Row
    <3>3. CASE \E S \in SUBSET DOMAIN book : DeleteRows(S)
      BY <1>4, <3>3 DEF DeleteRows
    <3> QED BY <3>1, <3>2, <3>3 DEF Trader
  <2>4. Tells(book[p].fig, deals[p]) /\ p \in Tickets
    BY <1>3, <1>4, <2>3 DEF BackfillInv, Repaired
  <2> QED BY <1>2, <2>3, <2>4, TellsStays
<1>5. run[r].trigger = "backfill" =>
         \A p \in DOMAIN run[r].figs : Tells(run[r].figs[p], deals'[p])
  BY <1>2, <1>3, TellsStays DEF BackfillInv
<1>6. Repaired(run'[r]) = Repaired(run[r])
  BY <1>1 DEF Repaired
<1> QED BY <1>1, <1>4, <1>5, <1>6 DEF BackfillInv

LEMMA BackfillInit == Init => AloneInv /\ \A r \in Runs : BackfillInv(r)
BY EmptyMapIsMap DEF Init, IdleRun, AloneInv, InFlight, BackfillInv, Repaired

LEMMA BackfillStep ==
  /\ IInv /\ OrderInv /\ AloneInv /\ (\A r \in Runs : BackfillInv(r))
  /\ [Next]_vars
  => (\A r \in Runs : BackfillInv(r))'
<1> SUFFICES ASSUME IInv, OrderInv, AloneInv, \A s \in Runs : BackfillInv(s), [Next]_vars,
                    NEW r \in Runs
             PROVE  BackfillInv(r)'
  OBVIOUS
<1>1. CASE Sync(r)
  BY <1>1, BackfillOwnStep
<1>2. CASE Broker \/ Trader \/ UNCHANGED vars \/ \E s \in Runs \ {r} : Sync(s)
  BY <1>2, BackfillOtherStep
<1> QED BY <1>1, <1>2 DEF Next

(***************************************************************************)
(* Pressing backfill repairs: against either provider, with any number of  *)
(* syncs before it, crashes, deletions and deals still to be posted, a     *)
(* backfill that completes alone leaves every position it has seen closed, *)
(* and whose row lives, described as it was opened.                        *)
(***************************************************************************)
THEOREM BackfillsRepair == Spec => []BackfillRepairs
<1>1. (\A r \in Runs : BackfillInv(r)) => BackfillRepairs
  BY DEF BackfillInv, Repaired, Tells, BackfillRepairs, DescribesPosition
<1> QED BY <1>1, InitOrder, OrderStep, BackfillInit, AloneStep, BackfillStep, Invariance, PTL
        DEF Spec

=============================================================================

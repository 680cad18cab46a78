------------------------------ MODULE TradeSync ------------------------------
(***************************************************************************)
(* The journal of one connected MT5 account and the syncs that fill it:    *)
(* syncOneAccount of mt5/sync.ts with the reads and writes it makes through *)
(* db/trades.ts, against a broker that goes on executing, posting and      *)
(* amending deals meanwhile, and a trader who annotates and deletes rows.  *)
(*                                                                         *)
(* Every await of the code is a step of its own, so several syncs (two     *)
(* tabs, the automatic sync of a login and a press of the button)          *)
(* interleave, and a process may die between any two steps.                *)
(***************************************************************************)
EXTENDS DealFold, FiniteSets

CONSTANTS Tickets,     \* position tickets and balance-operation ids
          Runs,        \* invocations of the sync that may be in flight at once
          Provider,    \* "metaapi" or "mock": the two implementations of the port
          Overlap,     \* OVERLAP_MS, in ticks of the clock
          Lateness,    \* how long the broker may take to post a deal
          SwapLag,     \* how long after an exit its swap may still be booked
          ChunkSize,   \* CHUNK of upsertTrades
          Budget,      \* EXCURSION_BUDGET
          Sides,       \* the sides positions are opened on
          Annotated,   \* the tickets the trader writes about
          RiskFree     \* the stops that leave nothing at risk (on or past the entry)

ASSUME ProviderAssumption == Provider \in {"metaapi", "mock"}
ASSUME TicketsAssumption  == IsFiniteSet(Tickets)
\* The comment on OVERLAP_MS: what a broker settles late, it settles within the overlap.
ASSUME OverlapAssumption  == Overlap \in Nat /\ Lateness \in Nat /\ Lateness <= Overlap
ASSUME SwapAssumption     == SwapLag \in Nat /\ SwapLag <= Overlap
ASSUME AnnotatedAssumption == Annotated \subseteq Tickets
ASSUME BatchAssumption    == ChunkSize \in Nat \ {0} /\ Budget \in Nat
ASSUME SidesAssumption    == Sides \subseteq {"buy", "sell"}
ASSUME RiskFreeAssumption == RiskFree \subseteq Stops
ASSUME FiguresAssumption  == None \notin Figures

VARIABLES now,      \* the broker's clock
          deals,    \* [Tickets -> set of deals]: everything the broker has executed
          book,     \* the stored rows of this account, by ticket
          deleted,  \* history: every ticket whose row the trader has ever deleted
          run       \* the state of each sync

vars == <<now, deals, book, deleted, run>>

Triggers == {"incremental", "backfill"}   \* "login" and "manual" differ in the log only

(***************************************************************************)
(* A stored row: the broker's figures, the figures its R multiple and its  *)
(* excursion were computed from (None for a null column), and whether the  *)
(* trader has written anything in its journal columns.                     *)
(***************************************************************************)
Row == [fig : Figures, rr : Figures \union {None}, excursion : Figures \union {None},
        note : BOOLEAN]

PCs == {"idle", "cursor", "fetch", "measure", "write", "done"}

EmptyMap == [p \in {} |-> None]

\* `seen` and `alone` are history: the positions the broker already reported as closed when
\* this run read its deals, and whether no other run has been in flight beside it.

\* f is a map of some of the tickets into T.
IsMap(f, T) == /\ f = [p \in DOMAIN f |-> f[p]]
               /\ DOMAIN f \subseteq Tickets
               /\ \A p \in DOMAIN f : f[p] \in T

Fields == {"pc", "trigger", "cursor", "figs", "unpriced", "measured", "todo", "seen", "alone"}

IsRun(x) == /\ x = [f \in Fields |-> x[f]]
            /\ x.pc \in PCs /\ x.trigger \in Triggers /\ x.cursor \in Int \union {None}
            /\ IsMap(x.figs, Figures)
            /\ x.unpriced \subseteq Tickets /\ x.measured \subseteq Tickets
            /\ x.todo \subseteq DOMAIN x.figs /\ (x.pc # "write" => x.todo = {}) /\ x.seen \subseteq Tickets
            /\ x.alone \in BOOLEAN

IdleRun == [pc |-> "idle", trigger |-> "incremental", cursor |-> None, figs |-> EmptyMap,
            unpriced |-> {}, measured |-> {}, todo |-> {}, seen |-> {}, alone |-> TRUE]

Init == /\ now = 0
        /\ deals = [p \in Tickets |-> {}]
        /\ book = EmptyMap
        /\ deleted = {}
        /\ run = [r \in Runs |-> IdleRun]

-----------------------------------------------------------------------------
(* The broker. *)

\* Time passes, but never beyond the moment by which a deal must have been posted.
Tick == /\ now < MaxTime
        /\ \A p \in Tickets : \A d \in deals[p] : d.posted \/ now < d.time + Lateness
        /\ now' = now + 1
        /\ UNCHANGED <<deals, book, deleted, run>>

\* The kind and side a ticket's next deal may have: a balance operation stands alone, a
\* position opens with an entry and may then be scaled in and out.
NextDeal(ds, kind, side) ==
  IF ds = {} THEN kind \in {"in", "balance"} /\ side \in Sides
  ELSE LET first == First(ds)
       IN  /\ first.kind = "in"
           /\ kind \in {"in", "out"}
           /\ side = IF kind = "in" THEN first.side ELSE Opposite(first.side)

Execute(p, kind, side, stop, posted) ==
  LET d == [n |-> Cardinality(deals[p]) + 1, kind |-> kind, side |-> side, time |-> now,
            stop |-> stop, swap |-> FALSE, posted |-> posted]
  IN  /\ Cardinality(deals[p]) < MaxDeals
      /\ posted => \A e \in deals[p] : e.posted
      /\ Lateness = 0 => posted
      /\ NextDeal(deals[p], kind, side)
      /\ kind = "balance" => stop = None
      /\ deals' = [deals EXCEPT ![p] = @ \union {d}]
      /\ UNCHANGED <<now, book, deleted, run>>

\* The history endpoint starts returning a deal that was executed earlier; the deals of one
\* position appear in order.
Post(p, d) ==
  /\ ~d.posted
  /\ \A e \in deals[p] : e.n < d.n => e.posted
  /\ deals' = [deals EXCEPT ![p] = (@ \ {d}) \union {[d EXCEPT !.posted = TRUE]}]
  /\ UNCHANGED <<now, book, deleted, run>>

\* The broker books the swap on an exit some time after it was executed.
BookSwap(p, d) ==
  /\ d.kind = "out" /\ d.posted /\ ~d.swap
  /\ now \in (d.time + 1)..(d.time + SwapLag)
  /\ deals' = [deals EXCEPT ![p] = (@ \ {d}) \union {[d EXCEPT !.swap = TRUE]}]
  /\ UNCHANGED <<now, book, deleted, run>>

-----------------------------------------------------------------------------
(* The sync. *)

Posted(p) == {d \in deals[p] : d.posted}
PostedExits(p) == Exits(Posted(p))
Since(ds, cursor) == IF cursor = None THEN ds ELSE {d \in ds : d.time >= cursor}

\* Mutant: the mock windows the deals rather than the positions they fold into.
Returned_WindowsDeals(p, cursor) == Since(Posted(p), cursor)

(***************************************************************************)
(* The deals behind what fetchDeals answers.  MetaApi restricts the deals  *)
(* to the window and folds what is left; the mock holds whole positions    *)
(* and leaves out those closed before the window, which is what the port   *)
(* asks for ("only deals closed at or after this instant").                *)
(***************************************************************************)
Returned(p, cursor) ==
  IF Provider = "metaapi" THEN Since(Posted(p), cursor)
  ELSE IF cursor # None /\ \A d \in PostedExits(p) : d.time < cursor THEN {} ELSE Posted(p)

Fetched(cursor) ==
  [p \in {q \in Tickets : Reportable(Returned(q, cursor))} |-> Fold(Returned(p, cursor))]

CloseTimes == {book[p].fig.closeAt : p \in DOMAIN book}
Newest     == CHOOSE t \in CloseTimes : \A u \in CloseTimes : u <= t

\* Mutant: resumes exactly at the newest row, without the overlap.
IncrementalCursor_NoOverlap == IF DOMAIN book = {} THEN None ELSE Newest

\* newestCloseAt less the overlap; null when the account has no closed row.
IncrementalCursor == IF DOMAIN book = {} THEN None ELSE Newest - Overlap

\* The tickets among S that have an excursion already (ticketsWithExcursions).
TicketsWithExcursions(S) == {p \in S : p \in DOMAIN book /\ book[p].excursion # None}

ClosedTrades(figs) == {p \in DOMAIN figs : figs[p].kind = "trade"}

\* The Budget newest of a set of trades, ties broken either way.
NewestFirst(figs, S, C) ==
  /\ C \subseteq S
  /\ Cardinality(C) <= Budget
  /\ C # S => Cardinality(C) = Budget
  /\ \A p \in C, q \in S \ C : figs[q].closeAt <= figs[p].closeAt

(***************************************************************************)
(* The row a fetched trade becomes.  A null risk is written when nothing   *)
(* is at risk, and not when the risk merely could not be worked out; an    *)
(* excursion is written only when one was computed; the journal columns    *)
(* are never written.  (The read that precedes the write only counts the   *)
(* imports for the log line; the rows do not depend on it.)                *)
(***************************************************************************)
AtRisk(fig) == fig.kind = "trade" /\ fig.stop # None /\ fig.stop \notin RiskFree

\* Mutant: an R multiple that could not be computed never clears the stored one.
Upserted_KeepsStaleR(r, p) ==
  LET fig == run[r].figs[p]
      old == IF p \in DOMAIN book THEN book[p]
             ELSE [fig |-> fig, rr |-> None, excursion |-> None, note |-> FALSE]
  IN  [old EXCEPT !.fig = fig,
                  !.rr = IF AtRisk(fig) /\ p \notin run[r].unpriced THEN fig ELSE @,
                  !.excursion = IF p \in run[r].measured THEN fig ELSE @]

\* Mutant: an excursion that was not measured this time is written as null.
Upserted_ClearsExcursion(r, p) ==
  LET fig == run[r].figs[p]
      old == IF p \in DOMAIN book THEN book[p]
             ELSE [fig |-> fig, rr |-> None, excursion |-> None, note |-> FALSE]
  IN  [fig       |-> fig,
       rr        |-> IF ~AtRisk(fig) THEN None
                     ELSE IF p \in run[r].unpriced THEN old.rr ELSE fig,
       excursion |-> IF p \in run[r].measured THEN fig ELSE None,
       note      |-> old.note]

Upserted(r, p) ==
  LET fig == run[r].figs[p]
      old == IF p \in DOMAIN book THEN book[p]
             ELSE [fig |-> fig, rr |-> None, excursion |-> None, note |-> FALSE]
  IN  [fig       |-> fig,
       rr        |-> IF ~AtRisk(fig) THEN None
                     ELSE IF p \in run[r].unpriced THEN old.rr ELSE fig,
       excursion |-> IF p \in run[r].measured THEN fig ELSE old.excursion,
       note      |-> old.note]

InFlight(r) == run[r].pc \notin {"idle", "done"}

Start(r, trigger) ==
  /\ ~InFlight(r)
  /\ run' = [s \in Runs |->
               IF s = r THEN [IdleRun EXCEPT !.pc = "cursor", !.trigger = trigger,
                                             !.alone = \A q \in Runs \ {r} : ~InFlight(q)]
               ELSE [run[s] EXCEPT !.alone = FALSE]]
  /\ UNCHANGED <<now, deals, book, deleted>>

\* Mutant: every sync resumes where the journal ends, a backfill too.
ReadCursor_IgnoresTrigger(r) ==
  /\ run[r].pc = "cursor"
  /\ run' = [run EXCEPT ![r].pc = "fetch", ![r].cursor = IncrementalCursor]
  /\ UNCHANGED <<now, deals, book, deleted>>

\* A backfill reads from the beginning; everything else resumes where the journal ends.
ReadCursor(r) ==
  /\ run[r].pc = "cursor"
  /\ run' = [run EXCEPT ![r].pc = "fetch",
               ![r].cursor = IF run[r].trigger = "backfill" THEN None ELSE IncrementalCursor]
  /\ UNCHANGED <<now, deals, book, deleted>>

FetchDeals(r) ==
  /\ run[r].pc = "fetch"
  /\ run' = [run EXCEPT ![r].pc = "measure", ![r].cursor = None,
               ![r].figs = Fetched(run[r].cursor),
               ![r].seen = {p \in Tickets : PostedExits(p) # {}}]
  /\ UNCHANGED <<now, deals, book, deleted>>

\* What is left of a run that has returned.
Finished(x) == [IdleRun EXCEPT !.pc = "done", !.trigger = x.trigger,
                               !.seen = x.seen, !.alone = x.alone]

\* The broker had nothing to report, and upsertTrades returns at once.
NothingToWrite(r) ==
  /\ run[r].pc = "measure"
  /\ DOMAIN run[r].figs = {}
  /\ run' = [run EXCEPT ![r] = Finished(run[r])]
  /\ UNCHANGED <<now, deals, book, deleted>>

(***************************************************************************)
(* toTradeRecords: price the trades and measure their excursions.  Any     *)
(* symbol specification, conversion or price history may be unavailable.   *)
(***************************************************************************)
Measure(r, unpriced, measured) ==
  LET figs    == run[r].figs
      skip    == IF run[r].trigger = "backfill" THEN {}
                 ELSE TicketsWithExcursions(ClosedTrades(figs))
      pending == ClosedTrades(figs) \ skip
  IN  /\ run[r].pc = "measure"
      /\ DOMAIN figs # {}
      /\ unpriced \subseteq {p \in DOMAIN figs : AtRisk(figs[p])}
      /\ \E candidates \in SUBSET pending :
            NewestFirst(figs, pending, candidates) /\ measured \subseteq candidates
      /\ run' = [run EXCEPT ![r].pc = "write", ![r].todo = DOMAIN figs,
                            ![r].unpriced = unpriced, ![r].measured = measured]
      /\ UNCHANGED <<now, deals, book, deleted>>

\* Mutant: the final sort is the other way round, newest close first.
IsNextChunk_NewestFirst(r, C) ==
  LET figs == run[r].figs
      todo == run[r].todo
  IN  /\ C \subseteq todo /\ C # {}
      /\ C # todo => Cardinality(C) = ChunkSize
      /\ Cardinality(C) <= ChunkSize
      /\ \A p \in C, q \in todo \ C : figs[q].closeAt <= figs[p].closeAt

\* A chunk is the next ChunkSize trades in the order aggregateDeals left them: by close time.
IsNextChunk(r, C) ==
  LET figs == run[r].figs
      todo == run[r].todo
  IN  /\ C \subseteq todo /\ C # {}
      /\ C # todo => Cardinality(C) = ChunkSize
      /\ Cardinality(C) <= ChunkSize
      /\ \A p \in C, q \in todo \ C : figs[p].closeAt <= figs[q].closeAt

WriteChunk(r, C) ==
  /\ run[r].pc = "write"
  /\ IsNextChunk(r, C)
  /\ book' = [p \in DOMAIN book \union C |-> IF p \in C THEN Upserted(r, p) ELSE book[p]]
  /\ run' = [run EXCEPT ![r] = IF C = run[r].todo THEN Finished(run[r])
                                ELSE [run[r] EXCEPT !.todo = @ \ C]]
  /\ UNCHANGED <<now, deals, deleted>>

\* A request fails or the process dies: whatever was written stays, the rest is lost.
Abort(r) ==
  /\ InFlight(r)
  /\ run' = [run EXCEPT ![r] = IdleRun]
  /\ UNCHANGED <<now, deals, book, deleted>>

-----------------------------------------------------------------------------
(* The trader. *)

Annotate(p) ==
  /\ p \in DOMAIN book
  /\ book' = [book EXCEPT ![p].note = TRUE]
  /\ UNCHANGED <<now, deals, deleted, run>>

DeleteRows(S) ==
  /\ S # {} /\ S \subseteq DOMAIN book
  /\ book' = [p \in DOMAIN book \ S |-> book[p]]
  /\ deleted' = deleted \union S
  /\ UNCHANGED <<now, deals, run>>

-----------------------------------------------------------------------------
Broker == \/ Tick
          \/ \E p \in Tickets, kind \in {"in", "out", "balance"}, side \in {"buy", "sell"},
                stop \in Stops \union {None}, posted \in BOOLEAN :
                Execute(p, kind, side, stop, posted)
          \/ \E p \in Tickets : \E d \in deals[p] : Post(p, d)
          \/ \E p \in Tickets : \E d \in deals[p] : BookSwap(p, d)

Sync(r) == \/ \E trigger \in Triggers : Start(r, trigger)
           \/ ReadCursor(r)
           \/ FetchDeals(r)
           \/ NothingToWrite(r)
           \/ \E unpriced, measured \in SUBSET Tickets : Measure(r, unpriced, measured)
           \/ \E C \in SUBSET run[r].todo : WriteChunk(r, C)
           \/ Abort(r)

Trader == \/ \E p \in Annotated : Annotate(p)
          \/ \E S \in SUBSET DOMAIN book : DeleteRows(S)

Next == Broker \/ (\E r \in Runs : Sync(r)) \/ Trader

Spec == Init /\ [][Next]_vars

-----------------------------------------------------------------------------
(* Properties. *)

\* The type invariant: every variable of the journal, the broker and the syncs has its type.
TypeOK == /\ now \in Times
          /\ deals \in [Tickets -> SUBSET Deal]
          /\ IsMap(book, Row)
          /\ deleted \subseteq Tickets
          /\ run = [r \in Runs |-> run[r]] /\ \A r \in Runs : IsRun(run[r])

(***************************************************************************)
(* A journal without holes: when a sync completes, every position that the *)
(* broker reported as closed when it read the deals is in the journal,     *)
(* unless the trader deleted it.  The overlap of syncOneAccount's cursor   *)
(* exists for this ("a complete journal" rather than "occasional holes").  *)
(***************************************************************************)
NoHoles == \A r \in Runs :
             run[r].pc = "done" => run[r].seen \subseteq DOMAIN book \union deleted

(***************************************************************************)
(* The cursor never jumps over an unread trade, whatever was interrupted:  *)
(* once a row is stored, every position whose exits are all older than     *)
(* that row's close by more than the overlap is stored too.  It holds      *)
(* through a crash in the middle of upsertTrades because the chunks are    *)
(* written in the order of aggregateDeals' final sort, oldest close first. *)
(***************************************************************************)
CursorSound ==
  \A q \in DOMAIN book, p \in Tickets :
     /\ PostedExits(p) # {}
     /\ \A d \in PostedExits(p) : d.time + Overlap < book[q].fig.closeAt
     => p \in DOMAIN book \union deleted

(***************************************************************************)
(* A backfill repairs: when one completes with no other sync beside it,    *)
(* every row it covers opens where its position opened and points the way  *)
(* it did, whatever an earlier incremental sync had written.  (A balance   *)
(* operation points nowhere: aggregateDeals files it as long.)             *)
(***************************************************************************)
DescribesPosition(p) ==
  LET first == First(deals[p])
  IN  /\ book[p].fig.openAt = first.time
      /\ book[p].fig.direction =
           IF first.kind = "balance" \/ first.side = "buy" THEN "long" ELSE "short"

BackfillRepairs ==
  \A r \in Runs : run[r].pc = "done" /\ run[r].trigger = "backfill" /\ run[r].alone
     => \A p \in run[r].seen \intersect DOMAIN book : DescribesPosition(p)

(***************************************************************************)
(* No sync takes away what it cannot give back: while a row lives, its     *)
(* journal columns stay, an excursion once computed stays, and an R        *)
(* multiple goes only when nothing is at risk any more (upsertTrades).     *)
(***************************************************************************)
KeepsAnswers ==
  [][\A p \in DOMAIN book \intersect DOMAIN book' :
       /\ book[p].note => book'[p].note
       /\ book[p].excursion # None => book'[p].excursion # None
       /\ book[p].rr # None /\ AtRisk(book'[p].fig) => book'[p].rr # None]_vars

(***************************************************************************)
(* Every row describes the position it is filed under: it opens with the   *)
(* position's first deal and has its direction.  This is what the port     *)
(* promises of fetchDeals, whose window selects deals by their close.      *)
(***************************************************************************)
RowsDescribeTheirPosition == \A p \in DOMAIN book : DescribesPosition(p)

(***************************************************************************)
(* With one sync at a time, repeating an import never takes a row back: a  *)
(* deal or a swap once counted in a row's money stays counted.             *)
(***************************************************************************)
NeverUncounts ==
  [][\A p \in DOMAIN book \intersect DOMAIN book' :
       \A b \in book[p].fig.booked :
          \E c \in book'[p].fig.booked : c[1] = b[1] /\ (b[2] => c[2])]_vars

\* No R multiple against a stop that risks nothing: a stop removed, or trailed to the entry
\* or past it, takes the multiple computed from an earlier stop with it.
NoRWithoutRisk == \A p \in DOMAIN book : ~AtRisk(book[p].fig) => book[p].rr = None

=============================================================================

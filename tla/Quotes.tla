------------------------------- MODULE Quotes -------------------------------
(***************************************************************************)
(* The refresh of market prices (quotes/refresh.ts, db/quotes.ts, the      *)
(* timers of instrumentation-node.ts): ticks that may overlap, of one app  *)
(* instance or of several, look for listings that are owed a price,        *)
(* reserve a credit for each, ask the vendor, write the quotes and mark    *)
(* the positions.  Every statement and the request are steps of their own. *)
(*                                                                         *)
(* Time is relative, so that a run may go on for ever: a quote knows how   *)
(* long ago it was asked for, up to Floor, and whether its price is from   *)
(* the last close or an older one, which is all that needsRefresh looks    *)
(* at.  The listings are numbered in the order listTrackedSymbols gives.   *)
(***************************************************************************)
EXTENDS RateLimit, FiniteSets

CONSTANTS N,         \* listings
          Overlap,   \* bound on the ticks under way at once
          Chunk,     \* CHUNK: listings per tick
          Budget,    \* QUOTES_DAILY_BUDGET
          Window,    \* BUDGET_WINDOW_MS, in minutes of the timer
          Floor,     \* MIN_REFETCH_MS, in minutes of the timer
          Currencies, QuotedIn, \* what positions are kept in; what the vendor quotes a listing in
          Book,      \* positions on the feed to begin with
          Markets,   \* listings whose prices grow old together
          MaxDeaths, \* bound on the ticks that die with their process
          MaxMoves   \* bound on the positions that go on the feed or leave it

Listings  == 1..N
Ticks     == 1..Overlap
Positions == Listings \X Currencies

ASSUME SizesAssumption ==
    /\ N \in Nat \ {0} /\ Overlap \in Nat \ {0}
    /\ Chunk \in Nat \ {0} /\ Budget \in Nat \ {0}
    /\ Window \in Nat \ {0} /\ Floor \in Nat \ {0}
    /\ MaxDeaths \in Nat /\ MaxMoves \in Nat
ASSUME ListingsAssumption == Book \subseteq Positions /\ Markets \subseteq SUBSET Listings
ASSUME QuotedInAssumption == QuotedIn \in [Listings -> Currencies]

VARIABLES quote,    \* the rows of `quotes`
          feed,     \* the open positions priced from the feed, by listing and currency
          bucket,   \* the rate-limit row of the daily budget
          tick,     \* the ticks
          deaths, moves,
          \* history
          paid,     \* credits of this window a tick has reserved and not spent
          sent,     \* credits of this window that requests have been sent on
          ago,      \* minutes since a listing was last asked about, up to Floor; Floor as
                    \* well if another tick held it too, or if the one that asked has died
          behind    \* positions no mark has reached since the quote of their listing was
                    \* last written, or since they came on the feed

vars == <<quote, feed, bucket, tick, deaths, moves, paid, sent, ago, behind>>

\* asOf, as needsRefresh sees it: no older than the last close (or six hours, for crypto).
Quote == [asked : 0..Floor, fresh : BOOLEAN]

\* A listing nobody has asked about has no row, which is due like one asked long ago.
NoQuote == [asked |-> Floor, fresh |-> FALSE]

\* What the vendor says of a listing: the price of the last close, an older one, nothing.
Answers == {"fresh", "stale", "none"}

Aged(answer) == IF answer = "fresh" THEN "stale" ELSE answer

PCs == {"idle", "reserve", "fetch", "write", "mark", "touch"}

\* wanted: still to be reserved; asked: affordable, and not yet written; got: the answers.
Tick == [pc : PCs, wanted : SUBSET Listings, asked : SUBSET Listings, got : [Listings -> Answers]]

NoAnswers == [l \in Listings |-> "none"]
Idle == [pc |-> "idle", wanted |-> {}, asked |-> {}, got |-> NoAnswers]

Init ==
    /\ quote = [l \in Listings |-> NoQuote]
    /\ feed = Book /\ behind = Book
    /\ bucket = NoBucket
    /\ tick = [t \in Ticks |-> Idle]
    /\ deaths = 0 /\ moves = 0
    /\ paid = [t \in Ticks |-> {}] /\ sent = {}
    /\ ago = [l \in Listings |-> Floor]

Least(S) == CHOOSE l \in S : \A k \in S : l <= k

----------------------------------------------------------------------------
(* A tick. *)

\* Mutant: a closed market is enough, however lately the listing was asked about.
NeedsRefresh_NoFloor(row) == ~row.fresh

NeedsRefresh(row) == row.asked = Floor /\ ~row.fresh

\* listTrackedSymbols: a listing is tracked whatever currency the positions in it are kept in.
tracked == {l \in Listings : \E c \in Currencies : <<l, c>> \in feed}

Due(rows) == {l \in tracked : NeedsRefresh(rows[l])}

\* due.slice(0, CHUNK)
Wanted(rows) == {l \in Due(rows) : Cardinality({k \in Due(rows) : k < l}) < Chunk}

Holds(t, l) == l \in tick[t].wanted \cup tick[t].asked

Alone(t, l) == \A u \in Ticks \ {t} : ~Holds(u, l)

\* dueSymbols, with what it finds in `quotes`.
Look(t, rows, since) ==
    /\ tick[t].pc = "idle"
    /\ \A u \in Ticks : u < t => tick[u].pc # "idle"
    /\ tick' = IF Wanted(rows) = {} THEN tick
               ELSE [tick EXCEPT ![t] = [Idle EXCEPT !.pc = "reserve", !.wanted = Wanted(rows)]]
    /\ ago' = [l \in Listings |-> IF l \in Wanted(rows) /\ ~Alone(t, l) THEN Floor ELSE since[l]]

\* A minute goes by and the timer of an instance fires.
Timer(t) ==
    LET later == [l \in Listings |-> [quote[l] EXCEPT !.asked = IF @ < Floor THEN @ + 1 ELSE @]]
    IN /\ Look(t, later, [l \in Listings |-> IF ago[l] < Floor THEN ago[l] + 1 ELSE ago[l]])
       /\ quote' = later
       /\ bucket' = Older(bucket)
       /\ IF Expired(bucket')
          THEN sent' = {} /\ paid' = [u \in Ticks |-> {}]
          ELSE UNCHANGED <<paid, sent>>
       /\ UNCHANGED <<feed, deaths, moves, behind>>

\* A process starts, or another instance's timer fires.
Start(t) ==
    /\ Look(t, quote, ago)
    /\ UNCHANGED <<quote, feed, bucket, deaths, moves, paid, sent, behind>>

\* consumeRateLimit for the next listing; a refusal ends the loop.
Reserve(t) ==
    LET l     == Least(tick[t].wanted)
        b     == Consumed(bucket, Budget, Window)
        more  == tick[t].wanted \ {l}
    IN /\ tick[t].pc = "reserve"
       /\ bucket' = b
       /\ paid' = IF Allowed(b, Budget) THEN [paid EXCEPT ![t] = @ \cup {b.count}] ELSE paid
       /\ tick' = [tick EXCEPT ![t] =
             IF Allowed(b, Budget)
             THEN [tick[t] EXCEPT !.pc = IF more = {} THEN "fetch" ELSE "reserve",
                                  !.wanted = more, !.asked = @ \cup {l}]
             ELSE IF tick[t].asked = {} THEN Idle
             ELSE [tick[t] EXCEPT !.pc = "fetch", !.wanted = {}]]
       /\ UNCHANGED <<quote, feed, deaths, moves, sent, ago, behind>>

Answered(got) == {l \in Listings : got[l] # "none"}

\* Where a tick goes on with what it has left.
NextPC(asked, got) ==
    IF Answered(got) # {} THEN "write" ELSE IF asked # {} THEN "touch" ELSE "idle"

\* One request for all of them; the vendor answers about some, perhaps with an old price.
Fetch(t, answers) ==
    LET got == [l \in Listings |-> IF l \in tick[t].asked THEN answers[l] ELSE "none"]
    IN /\ tick[t].pc = "fetch"
       /\ tick' = [tick EXCEPT ![t].got = got, ![t].pc = NextPC(tick[t].asked, got)]
       /\ sent' = sent \cup paid[t]
       /\ paid' = [paid EXCEPT ![t] = {}]
       /\ ago' = [l \in Listings |-> IF l \notin tick[t].asked THEN ago[l]
                                      ELSE IF Alone(t, l) THEN 0 ELSE Floor]
       /\ UNCHANGED <<quote, feed, bucket, deaths, moves, behind>>

Ended(t, l) ==
    LET asked == tick[t].asked \ {l}
        got   == [tick[t].got EXCEPT ![l] = "none"]
    IN [pc |-> NextPC(asked, got), wanted |-> {}, asked |-> asked, got |-> got]

WriteQuote(t) ==
    LET l == Least(Answered(tick[t].got))
    IN /\ tick[t].pc = "write"
       /\ quote' = [quote EXCEPT ![l] = [asked |-> 0, fresh |-> tick[t].got[l] = "fresh"]]
       /\ tick' = [tick EXCEPT ![t].pc = "mark"]
       /\ behind' = behind \cup {p \in feed : p[1] = l}
       /\ UNCHANGED <<feed, bucket, deaths, moves, paid, sent, ago>>

\* applyQuoteToPositions: of the positions in the listing, those in the currency of the quote.
Mark(t) ==
    LET l == Least(Answered(tick[t].got))
    IN /\ tick[t].pc = "mark"
       /\ tick' = [tick EXCEPT ![t] = Ended(t, l)]
       /\ behind' = behind \ {<<l, QuotedIn[l]>>}
       /\ UNCHANGED <<quote, feed, bucket, deaths, moves, paid, sent, ago>>

\* Mutant: an attempt without an answer leaves no mark.
Touch_NeverStamps(t) ==
    LET l == Least(tick[t].asked)
    IN /\ tick[t].pc = "touch"
       /\ tick' = [tick EXCEPT ![t] = Ended(t, l)]
       /\ UNCHANGED <<quote, feed, bucket, deaths, moves, paid, sent, ago, behind>>

\* touchQuoteAttempt, for a listing the vendor had nothing about
Touch(t) ==
    LET l == Least(tick[t].asked)
    IN /\ tick[t].pc = "touch"
       /\ quote' = [quote EXCEPT ![l].asked = 0]
       /\ tick' = [tick EXCEPT ![t] = Ended(t, l)]
       /\ UNCHANGED <<feed, bucket, deaths, moves, paid, sent, ago, behind>>

\* The process goes down, or a statement of the tick throws.
Die(t) ==
    /\ tick[t].pc # "idle" /\ deaths < MaxDeaths
    /\ deaths' = deaths + 1
    /\ tick' = [tick EXCEPT ![t] = Idle]
    /\ paid' = [paid EXCEPT ![t] = {}]
    /\ ago' = [l \in Listings |-> IF l \in tick[t].asked THEN Floor ELSE ago[l]]
    /\ UNCHANGED <<quote, feed, bucket, moves, sent, behind>>

----------------------------------------------------------------------------
(* Around the ticks. *)

\* pruneExpiredRateLimits, in the hourly sweep
Sweep ==
    /\ bucket # Pruned(bucket)
    /\ bucket' = Pruned(bucket)
    /\ UNCHANGED <<quote, feed, tick, deaths, moves, paid, sent, ago, behind>>

\* A market closes (or the six hours of a crypto price are over): its prices are old now.
Close(market) ==
    /\ quote' = [l \in Listings |-> [quote[l] EXCEPT !.fresh = @ /\ l \notin market]]
    /\ tick' = [t \in Ticks |-> [tick[t] EXCEPT !.got =
                   [l \in Listings |-> IF l \in market THEN Aged(@[l]) ELSE @[l]]]]
    /\ UNCHANGED <<feed, bucket, deaths, moves, paid, sent, ago, behind>>

\* A position goes on the feed, or leaves it (by its trader's choice, or by being closed).
Move(p) ==
    /\ moves < MaxMoves
    /\ moves' = moves + 1
    /\ IF p \in feed
       THEN feed' = feed \ {p} /\ behind' = behind \ {p}
       ELSE feed' = feed \cup {p} /\ behind' = behind \cup {p}
    /\ UNCHANGED <<quote, bucket, tick, deaths, paid, sent, ago>>

----------------------------------------------------------------------------

Step(t) == \/ Reserve(t)
           \/ \E answers \in [Listings -> Answers] : Fetch(t, answers)
           \/ WriteQuote(t) \/ Mark(t) \/ Touch(t)

Next ==
    \/ \E t \in Ticks : Timer(t) \/ Start(t) \/ Step(t) \/ Die(t)
    \/ Sweep
    \/ \E market \in Markets : Close(market)
    \/ \E p \in Positions : Move(p)

(***************************************************************************)
(* setInterval fires every minute and time goes on; a tick that is under   *)
(* way goes on (its request has a timeout of eight seconds); markets go on *)
(* closing.                                                                *)
(***************************************************************************)
Fairness ==
    /\ SF_vars(\E t \in Ticks : Timer(t))
    /\ \A t \in Ticks : WF_vars(Step(t))
    /\ \A market \in Markets : WF_vars(Close(market))

Spec == Init /\ [][Next]_vars /\ Fairness

----------------------------------------------------------------------------

\* The quotes, the budget, the positions and the ticks are of their types.
TypeOK ==
    /\ quote \in [Listings -> Quote]
    /\ feed \subseteq Positions /\ behind \subseteq feed
    /\ bucket \in Bucket(Budget, Window)
    /\ tick \in [Ticks -> Tick]
    /\ \A t \in Ticks : tick[t].pc = "reserve" => tick[t].wanted # {}
    /\ deaths \in 0..MaxDeaths /\ moves \in 0..MaxMoves
    /\ paid \in [Ticks -> SUBSET (1..Budget)] /\ sent \subseteq 1..Budget
    /\ ago \in [Listings -> 0..Floor]

(***************************************************************************)
(* The daily budget is "a hard stop that does not depend on the other two  *)
(* being right": in one window no two requests go out on the same credit,  *)
(* whichever ticks overlap, die between the reservation and the request,   *)
(* or see the bucket swept, so there are never more than Budget of them.   *)
(***************************************************************************)
CreditsSpentOnce ==
    \A t \in Ticks : /\ paid[t] \cap sent = {}
                     /\ \A u \in Ticks \ {t} : paid[t] \cap paid[u] = {}

(***************************************************************************)
(* "The floor on how often one listing may be asked about, whatever the    *)
(* other rules say": a tick that is about to ask about a listing finds the *)
(* last request at least Floor ago, whatever the vendor answered to it,    *)
(* unless two ticks held the listing at once or that request's tick died.  *)
(***************************************************************************)
FloorHolds ==
    \A t \in Ticks : tick[t].pc = "fetch" =>
        \A l \in tick[t].asked : ago[l] = Floor

(***************************************************************************)
(* How far the slice reaches.  It is always taken from the front of the    *)
(* alphabet, and what the vendor does not answer about comes back to the   *)
(* front when its Floor is over: in that time Chunk listings a minute are  *)
(* asked about, and no more than the budget pays for.                      *)
(***************************************************************************)
Ahead(l) == Cardinality({k \in tracked : k < l})

WithinReach(l) == l \in tracked /\ Ahead(l) < Chunk * Floor /\ Ahead(l) * Overlap < Budget

(***************************************************************************)
(* "Listings the provider had nothing for: back them off, so an unlisted   *)
(* ticker does not take a slot on every tick".  A listing that stays       *)
(* within reach is not due for ever, though the vendor never answers about *)
(* any, ticks overlap, and one dies.  One beyond it may be, and nothing is *)
(* claimed of it.                                                          *)
(***************************************************************************)
NoneWaitsForEver ==
    \A l \in Listings : <>[]WithinReach(l) => []<>(l \notin Due(quote))

(***************************************************************************)
(* What the feed is for: if the vendor does not refuse a listing for ever, *)
(* a position on the feed that is kept in the currency the listing is      *)
(* quoted in catches up with its quotes again and again, whatever died     *)
(* between a quote and its mark, and though a quote of another trader's    *)
(* may keep the listing from being due when the position comes on the      *)
(* feed.  A position in another currency is on the feed and never marked.  *)
(***************************************************************************)
Asked(l)    == \E t \in Ticks : tick[t].pc = "fetch" /\ l \in tick[t].asked
GotFresh(l) == \E t \in Ticks : tick[t].got[l] = "fresh"

CatchesUp(p) == p \in behind /\ p \notin behind'

MarkedInTheEnd ==
    \A l \in Listings :
        LET p == <<l, QuotedIn[l]>>
        IN  /\ <>[](p \in feed /\ WithinReach(l))
            /\ []<>Asked(l) => []<>GotFresh(l)
            => []<><<CatchesUp(p)>>_vars

=============================================================================
